--------------------------- MODULE RoutingChoosers ---------------------------
(***************************************************************************)
(* Who chooses the pool of a request: _choose_candidate asks the remote    *)
(* scheduler over gRPC, then the C++ core, then the policy, and uses the   *)
(* first answer.  The policies keep a state of their own (the cursor of    *)
(* round_robin, the counts of spread and of contextual_bandit), changed by *)
(* choose and by observe_result, which execute calls for results that were *)
(* admitted and place_request did not fail.  ControlPlane leaves the       *)
(* choice open; this module shows that what it assumes of it is so.        *)
(*                                                                         *)
(* Abstractions.  The weighted sum a chooser ranks candidates by is their  *)
(* cost, any of Costs at every request; the candidates are numbered in the *)
(* order of build_candidates, and the first of the best is taken.          *)
(***************************************************************************)
EXTENDS Integers, FiniteSets

CONSTANTS
    Size,         \* number of candidates: the pools
    Costs,        \* values of a candidate's score
    MaxRequests   \* length of the workload

ASSUME ChoosersAssumption ==
    Size \in Nat \ {0} /\ Costs \subseteq Nat /\ MaxRequests \in Nat

Pools == 1 .. Size

\* least_queue, topology_greedy, cache_aware, multi_objective and the three
\* placeholder policies differ in the cost only: they are "ranking".
Policies == {"ranking", "round_robin", "spread", "contextual_bandit"}

Candidate == [available : BOOLEAN, cost : Costs]

VARIABLES
    setup,     \* [policy, grpc, cpp, executes]: the configuration; `executes`
               \* is FALSE for /v1/route of the API
    cursor,    \* RoundRobinPolicy._cursor
    counts,    \* FailureAwareSpreadPolicy._pool_counts
    pulls,     \* ContextualBanditPolicy.counts
    latest,    \* history: the latest decision, and the pools available (a set)
    chosen,    \* history: choices of each pool
    rejected,  \* history: rejections at each pool
    allUp,     \* history: every candidate has always been available
    requests,  \* requests so far
    stopped    \* an exception has ended the run

vars == <<setup, cursor, counts, pulls, latest, chosen, rejected, allUp, requests, stopped>>

Zero == [p \in Pools |-> 0]

Init ==
    /\ setup \in [policy : Policies, grpc : BOOLEAN, cpp : BOOLEAN, executes : BOOLEAN]
    /\ cursor = 0 /\ counts = Zero /\ pulls = Zero
    /\ latest = {} /\ chosen = Zero /\ rejected = Zero
    /\ allUp = TRUE /\ requests = 0 /\ stopped = FALSE

-----------------------------------------------------------------------------
(* The choosers. *)

\* min() over a list, or a loop with a strict comparison.
FirstMin(S, cands) ==
    CHOOSE p \in S : \A q \in S : \/ cands[p].cost < cands[q].cost
                                  \/ cands[p].cost = cands[q].cost /\ p <= q

Available(cands) == {p \in Pools : cands[p].available}

\* _available_candidates
Usable(cands) == IF Available(cands) # {} THEN Available(cands) ELSE Pools

\* Mutant: the remote scheduler does not look at the flag.
GrpcBest(cands) == FirstMin(Pools, cands)

\* ChoosePlacement of the server: index 0 if no candidate is available.
GrpcChoice(cands) ==
    IF Available(cands) = {} THEN 1 ELSE FirstMin(Available(cands), cands)

\* choose_candidate of the C++ core: the least latency if none is.
CppChoice(cands) == FirstMin(Usable(cands), cands)

\* The element with n smaller ones in S.
Nth(S, n) == CHOOSE p \in S : Cardinality({q \in S : q < p}) = n

RoundRobin(cands) == Nth(Usable(cands), cursor % Cardinality(Usable(cands)))

\* Mutant: the counts are not looked at.
AnyOf(S) == S

LeastChosen(S) == {p \in S : \A q \in S : counts[p] <= counts[q]}

Spread(cands) == FirstMin(LeastChosen(Usable(cands)), cands)

\* max() of reward, hint and exploration bonus: the cost is their opposite.
Bandit(cands) == FirstMin(Usable(cands), cands)

Ranking(cands) == FirstMin(Usable(cands), cands)

PolicyChoice(cands) ==
    CASE setup.policy = "round_robin" -> RoundRobin(cands)
      [] setup.policy = "spread" -> Spread(cands)
      [] setup.policy = "contextual_bandit" -> Bandit(cands)
      [] setup.policy = "ranking" -> Ranking(cands)

-----------------------------------------------------------------------------
(* What choose and observe_result do to the policy. *)

\* Mutant: the cursor moves when the result is observed.
CursorKept(p) == cursor

\* `_cursor += 1` in choose.
CursorMoved(p) == IF setup.policy = "round_robin" THEN cursor + 1 ELSE cursor

Counted(p) == IF setup.policy = "spread" THEN [counts EXCEPT ![p] = @ + 1] ELSE counts

\* Mutant: observe_result is not overridden.
NotReleased(c, p) == c

\* max(0, count - 1) in observe_result.
Released(c, p) ==
    IF setup.policy = "spread" THEN [c EXCEPT ![p] = IF @ = 0 THEN 0 ELSE @ - 1] ELSE c

Pulled(p) == IF setup.policy = "contextual_bandit" THEN [pulls EXCEPT ![p] = @ + 1] ELSE pulls

-----------------------------------------------------------------------------
(* A request: choose, and what execute makes of the choice. *)

Arrives(cands) ==
    /\ ~stopped
    /\ requests < MaxRequests
    /\ requests' = requests + 1
    /\ allUp' = (allUp /\ Available(cands) = Pools)
    /\ UNCHANGED setup

Decided(cands, p) ==
    /\ latest' = {[up |-> Available(cands), pool |-> p]}
    /\ chosen' = [chosen EXCEPT ![p] = @ + 1]

\* After the choice of p, with the counts the choice left: execute returns a
\* result that is not admitted ...
Rejects(cands, p, after) ==
    /\ setup.executes /\ ~cands[p].available
    /\ rejected' = [rejected EXCEPT ![p] = @ + 1]
    /\ counts' = after
    /\ UNCHANGED <<pulls, stopped>>

\* ... or places the request and lets the policy observe the result ...
Places(cands, p, after) ==
    /\ setup.executes /\ cands[p].available
    /\ counts' = Released(after, p)
    /\ pulls' = Pulled(p)
    /\ UNCHANGED <<rejected, stopped>>

\* ... or fails in place_request, which ends the run ...
PlaceRaises(cands, p, after) ==
    /\ setup.executes /\ cands[p].available
    /\ counts' = after
    /\ stopped' = TRUE
    /\ UNCHANGED <<pulls, rejected>>

\* ... and /v1/route makes nothing of it.
RoutesOnly(cands, p, after) ==
    /\ ~setup.executes
    /\ counts' = after
    /\ UNCHANGED <<pulls, rejected, stopped>>

Outcome(cands, p, after) ==
    \/ Rejects(cands, p, after) \/ Places(cands, p, after)
    \/ PlaceRaises(cands, p, after) \/ RoutesOnly(cands, p, after)

\* The remote scheduler answers in time.
ByGrpc(cands) ==
    /\ setup.grpc
    /\ Arrives(cands)
    /\ Decided(cands, GrpcChoice(cands))
    /\ Outcome(cands, GrpcChoice(cands), counts)
    /\ UNCHANGED cursor

\* Its deadline of 50 ms expires: the error ends a run, and a request of the API.
GrpcRaises(cands) ==
    /\ setup.grpc
    /\ Arrives(cands)
    /\ stopped' = setup.executes
    /\ UNCHANGED <<cursor, counts, pulls, latest, chosen, rejected>>

\* There is no remote scheduler, or its index is out of range; the C++ core
\* answers.
ByCpp(cands) ==
    /\ setup.cpp
    /\ Arrives(cands)
    /\ Decided(cands, CppChoice(cands))
    /\ Outcome(cands, CppChoice(cands), counts)
    /\ UNCHANGED cursor

\* Neither of them; the policy is asked.
ByPolicy(cands) ==
    /\ ~setup.cpp
    /\ Arrives(cands)
    /\ LET p == PolicyChoice(cands)
       IN  /\ Decided(cands, p)
           /\ cursor' = CursorMoved(p)
           /\ Outcome(cands, p, Counted(p))

Next ==
    \E cands \in [Pools -> Candidate] :
        ByGrpc(cands) \/ GrpcRaises(cands) \/ ByCpp(cands) \/ ByPolicy(cands)

Spec == Init /\ [][Next]_vars

-----------------------------------------------------------------------------
(* Properties. *)

\* The state of the policies is well typed; the counts of spread stay natural
\* although results are observed that the policy did not choose.
TypeOK ==
    /\ setup \in [policy : Policies, grpc : BOOLEAN, cpp : BOOLEAN, executes : BOOLEAN]
    /\ cursor \in Nat /\ counts \in [Pools -> Nat] /\ pulls \in [Pools -> Nat]
    /\ latest \subseteq [up : SUBSET Pools, pool : Pools]
    /\ chosen \in [Pools -> Nat] /\ rejected \in [Pools -> Nat]
    /\ allUp \in BOOLEAN /\ stopped \in BOOLEAN /\ requests \in 0 .. MaxRequests

\* Whoever chose, the pool chosen is available if any is: the three choosers
\* treat unavailable candidates alike, which is what ControlPlane assumes.
ChoosesAvailable ==
    \A d \in latest : d.up # {} => d.pool \in d.up

\* While every candidate stays available and the policy alone chooses,
\* round_robin gives any two pools the same number of requests, give or take
\* one, although it indexes a list that is built anew every time.
RoundRobinEven ==
    setup.policy = "round_robin" /\ ~setup.grpc /\ ~setup.cpp /\ allUp
        => \A p, q \in Pools : chosen[p] <= chosen[q] + 1

\* In a run of the engine with spread, the count of a pool is the number of
\* requests rejected there: the count of an admitted request is given back by
\* observe_result within the same execute.
SpreadCountsRejections ==
    setup.policy = "spread" /\ setup.executes /\ ~setup.grpc /\ ~setup.cpp /\ ~stopped
        => counts = rejected

\* Behind the API, where nothing observes a result, spread keeps the number
\* of choices of any two pools within one of each other while all are up.
SpreadEven ==
    setup.policy = "spread" /\ ~setup.executes /\ ~setup.grpc /\ ~setup.cpp /\ allUp
        => \A p, q \in Pools : chosen[p] <= chosen[q] + 1
=============================================================================
