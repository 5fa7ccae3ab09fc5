--------------------------- MODULE MCTracePipeline ---------------------------
(***************************************************************************)
(* TracePipeline on files of up to three records.  A second is four units, *)
(* the CSV file keeps every second unit and the clock of a run every       *)
(* fourth, so that times fall on ties of both roundings.                   *)
(***************************************************************************)
EXTENDS TracePipeline

CONSTANTS Times

\* Full rows, rows with empty fields, rows of files that lack columns, and a
\* conversation without turns.
Shapes ==
    {[named |-> TRUE,  prompt |-> 300, output |-> 2, tenant |-> 1, session |-> 1,
      priority |-> "low", turns |-> TRUE],
     [named |-> TRUE,  prompt |-> 0, output |-> 0, tenant |-> Blank, session |-> Blank,
      priority |-> "", turns |-> TRUE],
     [named |-> TRUE,  prompt |-> 3, output |-> 300, tenant |-> 2, session |-> Blank,
      priority |-> "urgent", turns |-> FALSE],
     [named |-> FALSE, prompt |-> 3, output |-> 3, tenant |-> Absent, session |-> Absent,
      priority |-> "high", turns |-> TRUE]}

At(shape, t) ==
    [ts |-> t, named |-> shape.named, prompt |-> shape.prompt, output |-> shape.output,
     tenant |-> shape.tenant, session |-> shape.session, priority |-> shape.priority,
     turns |-> shape.turns]

\* The file without some columns has no times either.
MCInputs ==
    {At(shape, t) : shape \in {x \in Shapes : x.named}, t \in Times}
    \cup {At(shape, Absent) : shape \in {x \in Shapes : ~x.named}}

\* None, a limit that keeps nothing, and limits below the length of a file: of
\* the normalizer, of the replay, and request_count.
Cuts == {<<Unlimited, Unlimited, 0>>, <<2, Unlimited, 0>>, <<Unlimited, 0, 2>>,
         <<0, Unlimited, 2>>, <<2, 1, 2>>, <<Unlimited, 2, 1>>}

\* Keys of sla_mix with min of the distributions: as they should be, with a
\* class there is not, and with a min of 0.
Draws == {<<SlaClasses, 1>>, <<{"interactive", "batch"}, 1>>, <<{"best_effort"}, 0>>}

MCSetups ==
    {<<[source |-> source, limit |-> cut[1]],
       [trace_limit |-> cut[2], request_count |-> cut[3], speed |-> speed,
        default_sla |-> IF speed = 1 THEN "realtime" ELSE "batch", pattern |-> "poisson",
        sla_mix |-> SlaClasses, token_min |-> 1]>> :
        source \in Sources \ {"generated"}, cut \in Cuts, speed \in {1, 2}}
    \cup
    {<<[source |-> "generated", limit |-> Unlimited],
       [trace_limit |-> Unlimited, request_count |-> n, speed |-> 1,
        default_sla |-> "interactive", pattern |-> p, sla_mix |-> draws[1],
        token_min |-> draws[2]]>> :
        n \in 0 .. 2, p \in {"uniform", "bursty", "poisson"}, draws \in Draws}

\* Draws below and above the limits of a distribution.
MCTokenDraws == {-1, 400}
=============================================================================
