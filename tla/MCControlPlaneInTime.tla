------------------------ MODULE MCControlPlaneInTime ------------------------
(***************************************************************************)
(* The instances of MCControlPlane for the control plane beside a clock.   *)
(***************************************************************************)
EXTENDS MCControlPlane, ControlPlaneInTime
=============================================================================
