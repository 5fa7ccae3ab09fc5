----------------------------- MODULE PoolQueues -----------------------------
(***************************************************************************)
(* What the pools promise to their users, without calendars, slots booked  *)
(* ahead or completion times known in advance: every pool is a queue with  *)
(* several servers.  A request that finds a free server runs at once,      *)
(* others wait.  As time passes by one tick, requests that are through     *)
(* leave, and the freed servers take up waiting requests, first come first *)
(* served; no server stays free while a request waits.                     *)
(***************************************************************************)
EXTENDS Integers

CONSTANTS
    Pools,
    Servers,       \* Servers[p]: the servers of pool p
    Ids,           \* numbers of requests, in order of arrival
    ServiceTimes   \* ticks a request may take

VARIABLES
    waiting,       \* waiting[p]: requests that wait, [id, service]
    running        \* running[p]: requests being served, [id, server, left]

vars == <<waiting, running>>

Waiting == [id : Ids, service : ServiceTimes]
Running(p) == [id : Ids, server : Servers[p], left : Nat]

Init ==
    /\ waiting = [p \in Pools |-> {}]
    /\ running = [p \in Pools |-> {}]

Busy(p, s) == \E r \in running[p] : r.server = s

Run(w, s) == [id |-> w.id, server |-> s, left |-> w.service]

\* A request arrives and runs at once on a free server.
Start(p, w) ==
    /\ \E s \in Servers[p] :
         /\ ~Busy(p, s)
         /\ running' = [running EXCEPT ![p] = @ \cup {Run(w, s)}]
    /\ UNCHANGED waiting

\* A request arrives and waits, since every server is busy.
Wait(p, w) ==
    /\ \A s \in Servers[p] : Busy(p, s)
    /\ waiting' = [waiting EXCEPT ![p] = @ \cup {w}]
    /\ UNCHANGED running

Submit(p) ==
    \E w \in Waiting :
        /\ \A v \in waiting[p] : v.id < w.id
        /\ Start(p, w) \/ Wait(p, w)

\* The requests of pool p that go on running, one tick closer to their end.
Continued(p) == {[r EXCEPT !.left = @ - 1] : r \in {r \in running[p] : r.left > 1}}

\* One tick at pool p.
TickAt(p) ==
    LET taken == waiting[p] \ waiting'[p]
    IN  /\ waiting'[p] \subseteq waiting[p]
        /\ \A w \in taken, v \in waiting'[p] : w.id < v.id
        /\ \E server \in [taken -> Servers[p]] :
             running'[p] = Continued(p) \cup {Run(w, server[w]) : w \in taken}
        /\ \A q, r \in running'[p] : q.server = r.server => q = r
        /\ waiting'[p] # {} => \A s \in Servers[p] : Busy(p, s)'

Tick ==
    /\ waiting' \in [Pools -> SUBSET Waiting]
    /\ \A p \in Pools : running'[p] \subseteq Running(p)
    /\ \A p \in Pools : TickAt(p)

Next == Tick \/ \E p \in Pools : Submit(p)

Spec == Init /\ [][Next]_vars
=============================================================================
