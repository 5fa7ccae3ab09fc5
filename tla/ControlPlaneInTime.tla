------------------------- MODULE ControlPlaneInTime -------------------------
(***************************************************************************)
(* ControlPlane beside a clock.  The engine books a request for its whole  *)
(* life when it arrives; the clock moves through that future tick by tick, *)
(* and requests arrive at the time it shows, so in order.  Seen at the     *)
(* clock, the bookings of a pool are a queue with as many servers as the   *)
(* pool has slots (PoolQueues): some requests run, some wait, and others   *)
(* are through.                                                            *)
(***************************************************************************)
EXTENDS ControlPlane

VARIABLE clock

timedVars == <<vars, clock>>

TimedInit == Init /\ clock = 0

\* Time goes on while requests may arrive or are not through.
Tick ==
    /\ clock < MaxTime \/ \E j \in placed : clock < j.finish
    /\ clock' = clock + 1
    /\ UNCHANGED vars

Arrival == (\E k \in Keys : Iteration(k, clock)) /\ UNCHANGED clock

TimedNext == Tick \/ Arrival

TimedSpec == TimedInit /\ [][TimedNext]_timedVars

-----------------------------------------------------------------------------
(* The bookings as a queue. *)

WaitingAt(p) ==
    {[id |-> j.id, service |-> j.finish - j.start] : j \in {j \in PlacedAt(p) : clock < j.start}}

RunningAt(p) ==
    {[id |-> j.id, server |-> j.slot, left |-> j.finish - clock] :
        j \in {j \in PlacedAt(p) : j.start <= clock /\ clock < j.finish}}

Queues == INSTANCE PoolQueues WITH
    Servers <- [p \in Pools |-> SlotIds(p)],
    Ids <- 0 .. MaxRequests,
    waiting <- [p \in Pools |-> WaitingAt(p)],
    running <- [p \in Pools |-> RunningAt(p)]

\* The bookings that place_request makes ahead of time on the earliest slot
\* implement first-come-first-served queues with one server per slot: at every
\* instant a pool serves and keeps waiting exactly the requests such a queue
\* would, also if an exception ends the engine's run after a booking.
ImplementsQueues == Queues!Spec
=============================================================================
