# NimbusMesh-X: a TLA+ verification project

TLA+ specifications of NimbusMesh-X, a control plane that routes inference
requests to accelerator pools of several clusters, with TLC configurations that
check them on small instances and TLAPS proofs for all instances. Paths such as
`cache_directory/directory.py` are relative to the repository; `PROJECT.json`
maps every definition to the lines it models.

## 1. The system

| Part | State | Operations | Talks to |
|---|---|---|---|
| `KVCacheDirectory` (`cache_directory/directory.py`) | `entries`: key to a bucket of entries | `evict_stale`, `score`, `observe` (touch, cap, persist, trim), `reserved_gb` | Redis |
| `NimbusMeshControlPlane` (`control_plane/service.py`) | clusters, tenant statistics, policy | `refresh`, `note_submission`, `build_candidates`, `route`, `execute` | directory, topology, choosers, local scheduler |
| `LocalClusterScheduler` (`cluster_scheduler/local_scheduler.py`) | none of its own | `place_request` | pool runtime, directory |
| `PoolRuntime`, `ClusterRuntime` (`nimbusmesh_x/types.py`) | slot times, in-flight memory, counters, failure windows | `refresh`, `inflight_count`, `memory_headroom_gb` | |
| Choosers: policies, gRPC scheduler, C++ core | cursor, counts, pulls | `choose`, `observe_result` | control plane |
| `TopologyService` (`topology_service/graph.py`), GPU topology parser (`topology/gpu_topology_parser.py`) | graph of gateways and pools, cost factor of a probed cluster | build, parse, `shortest_path_cost`, `route_cost` | control plane |
| `SimulationEngine` (`simulators/engine.py`) | the loop | `run` | everything |
| Sinks: decision log, fanout logs, CSV, Azure simulator, Redis decisions, Postgres | files, hashes, tables | open, append, insert, export | engine |
| `BenchmarkHarness`, Ray sweep | runs, sequential or parallel | `run`, `run_ray_sweep` | engine |
| HTTP API (`control_plane/api.py`) | one control plane for all threads | `/v1/route`, `/v1/simulate`, snapshots | control plane |
| Normalizers (`data_pipeline/`), `WorkloadGenerator` (`workload_gen/generator.py`) | CSV file of rows; sessions of each tenant and model | normalize, write, replay, generate | engine |
| Backends, CUDA scoring, predictor | none that lasts | pure computation | |

A request goes through one iteration of `SimulationEngine.run`: `refresh`
releases finished work and evicts expired cache entries; `note_submission`
counts it; `execute` scores it at every pool (reading, maybe hydrating, the
cache), marks candidates unavailable, lets a chooser choose, and places the
request on the earliest slot of the chosen pool or returns a rejection; then the
result goes to seven sinks in a fixed order. Placing happens at arrival, for a
future that is already booked: start and completion times, memory and cache
entries are all written at once and filtered by time later.

What is hard here:

- *time*: state written at arrival describes later instants; `refresh` forgets
  what is past, so the order of arrival times matters;
- *failure*: no exception is caught between the loop and the stores, so a
  failed call ends a run in the middle of an iteration;
- *sharing*: runs of a sweep share files, Redis keys, request ids and tables;
  API threads share one control plane;
- *limits*: caps of buckets, directory, queues, memory, and a batch queue that
  nobody empties.

What makes each part correct:

- directory: a hit is backed by a completed, fresh request; limits hold; only
  expired or lowest-ranked entries are lost, of a bucket or of all keys; Redis has what memory has;
- scheduler and pools: slots are exclusive, first come first served,
  work-conserving; memory and queue limits hold; nothing is rejected for
  capacity that was given back;
- control plane: every request is counted exactly once, on every path;
- choosers: an available pool is chosen if there is one; spreading is even;
- topology: the answer is the cost of a cheapest path, and the search ends;
- sinks: each run's logs, rows, mirror and CSV files are complete; runs end;
- HTTP API: handlers that overlap lose no more than what the code leaves
  unprotected; a handler on its own never fails;
- workloads: the requests are the first usable records, in order, each
  acceptable to the control plane and with the latency of its class.

`PROJECT.json` lists the hazards behind these, each at its line.

## 2. Modules

| Module | Models | Run by |
|---|---|---|
| `CacheEntries` | the directory's data operations, as pure operators | (used by the next two) |
| `KVCacheDirectory` | directories of several processes and their Redis hash; one call is one step | `MCKVCacheDirectory` |
| `ControlPlane` | control plane, scheduler, pools and directory; one iteration is one step | `MCControlPlane` |
| `PoolQueues` | abstract: what a pool promises, a first-come-first-served queue with several servers | (implemented by the next) |
| `ControlPlaneInTime` | `ControlPlane` beside a clock, and the refinement mapping to `PoolQueues` | `MCControlPlaneInTime` |
| `ApiThreads` | handlers of the HTTP API on one control plane; one step lies between two thread switches | `MCApiThreads` |
| `RoutingChoosers` | the chain of choosers and the policies' state; one request is one step | itself |
| `TopologyService` | graph construction and Dijkstra; one loop iteration is one step | (extended by the next) |
| `ProbedTopology` | the GPU topology parser, row by row, before the search, and `route_cost` after it | `MCTopologyService` |
| `Normalizers` | what each normalizer makes of a record, as pure operators | (used by the next) |
| `TracePipeline` | normalizing, writing, replaying and generating workloads; one record, row or request is one step | `MCTracePipeline` |
| `ResultSinks` | engine loop and all sinks, runs in parallel; one external effect is one step | itself |
| `*Proofs` | lemmas and theorems about the module they are named for (`ControlPlaneProofs` also about `ControlPlaneInTime`, `TopologyServiceProofs` also about `ProbedTopology`) | TLAPS |

Definitions whose comment says "Mutant" are wrong variants of the definition
below them. `PROJECT.json` says which property each of them violates when it
takes the place of the right one; nothing else uses them.

### CacheEntries and KVCacheDirectory

An entry is a record with the fields of `CacheEntry`; a bucket is a set, because
list order decides only ties, and an operator with ties returns all outcomes.
`Consulted` is `evict_stale` followed by `_hydrate_from_redis`, in that order,
as `score` calls them. `Touched`, `Capped`, `Trimmed` are the three parts of
`observe`; `TrimRaises` holds when the sort of `_trim` has to compare two
`CacheEntry` objects, which have no order. Memory is counted in twentieths of a
token's memory and hit ratios in 1/(1000 Ttl), so that the factors 0.55 and the
products of `score` stay exact integers.

`KVCacheDirectory` splits a request into the calls a process makes: `Begin`
(`refresh`), `Score` for each pool, then `Serve` (`observe`), `ServeRaises`, or
`Drop` (rejected, or only routed). `Crash` may come between any two;
`Restart` starts a new run with empty memory and the old Redis. `done` is a
history of the observed requests, against which hits are judged. Other
processes may act between any two calls. Within `observe`, the write to Redis
and the trim form one step: the trim does not touch Redis, and other processes
do not see a process's memory.

### ControlPlane

Variables are the fields of the same names; `inflight` holds whole placement
records instead of pairs (completion, memory); `placed` and `rejected` are
histories. `enabled` is that of `RedisDecisionStore`, set by its constructor.
`Admit`, `Reject`, `AdmitRaises` and `RouteRaises` are the four ways
an iteration can go. `Choosable` is the contract of all choosers: any available
candidate, or any candidate if none is. `RoutingChoosers` checks that the
choosers keep it, the cost being arbitrary. `active_memory_gb` and
`cache_reserved_gb` are recomputed by `refresh` before each use, so they are
operators. Service times are any of a set, whatever the backend computes.
`Ordered` says whether arrival times never decrease: `TracePipeline` shows that
they do not for generated workloads and for traces in order of time; other
traces are replayed as they are.

Hydration makes the first `score` of a request special (it may bring back
expired entries, which the second evicts again): `ConsultedFor` gives the
directory each pool is scored with.

### PoolQueues and ControlPlaneInTime

The scheduler writes start and completion of a request when it arrives.
`ControlPlaneInTime` adds a clock that walks through this future: requests
arrive at the time it shows (`Arrival`, one iteration of the engine), and `Tick`
changes nothing but the clock. The mapping reads a queue off the bookings:
a placement waits while the clock is before its start, runs with `finish - clock`
ticks left until its completion, and is gone then. `ImplementsQueues` says that
these are behaviours of `PoolQueues`, which knows neither calendars nor slots
booked ahead: an arrival runs at once on a free server or waits behind all
others; at a tick, finished requests leave and freed servers take the longest
waiting, and no server is free while a request waits. A rejection and an
iteration that raised before a booking are stutters; one that raised after it
is an arrival like any other.

### ApiThreads

FastAPI runs the handlers, plain functions, in a thread pool. CPython may switch
threads where a loop jumps back, at a call of a Python function and during I/O,
so `evict_stale` takes one step per listed item and the loops over dictionaries
begin and end in different steps; `del` or an item of an iteration raise when
another thread has changed the dictionary (`EvictRaises`, `SumRaises`,
`PenaltyRaises`). `tenant_stats[...]` of a new tenant is two steps, because
`__missing__` calls `TenantStats()`. `iter` holds the size a dictionary had when
its iteration began. Nothing is ever placed through the API, so no slot, memory
or cache entry of its own exists, and the directory changes by hydration and
eviction only. `/v1/simulate` builds a control plane of its own; the threads see
it through Redis (`SimulationWrites`). `raced`, `noted`, `collided` and
`versions` are histories for the properties.

### RoutingChoosers

`setup` fixes policy, presence of gRPC scheduler and C++ core, and whether
results are executed (engine) or only routed (API). At each step every
candidate has an arbitrary availability and cost. Policies that keep no state
differ in cost only and are one policy, `ranking`. The gRPC scheduler answers,
or its deadline expires (`GrpcRaises`); `ByCpp` and `ByPolicy` are enabled also
when it is present, since its client ignores an index out of range.

### TopologyService

`edges` is built as `_build_from_config` does: a pool and its gateway are
linked both ways, gateways as `network_costs` says, skipping `ingress` and
unknown clusters. The heap is a set of (cost, node) pairs, which suffices
because a pair is pushed only with a strictly smaller distance. `Skip`,
`Expand`, `Found`, `Exhausted` are the ways an iteration of the loop ends.

`ProbedTopology` puts the probe of one cluster before the search, where
`_build_from_config` has it: rows are read one after the other (`ReadRow`), then
the matrices are built, or a missing row, column or header ends the construction
(`EndRows`). `RouteCost` multiplies the answer of a search from a pool's own
gateway with the average. Link costs are in hundredths and averages are pairs of
a sum and a count, so that nothing is rounded.

### Normalizers and TracePipeline

A record of a raw file has a time, an id, a tenant and a session, each possibly
absent or empty, two lengths and a priority; each normalizer uses what the code
uses of it. Two processes read the same file in lockstep, because `hash()` is
salted in each (`normalizers.py:76`). The end of a file is a step of its own, so
that stopping at a limit differs from running out of records. Times are
integers below the sixth decimal; both roundings are half to even, as Python's.
`job` and `config` are chosen at the beginning and stay. `ReplayRow` constructs
one request, whose constructor may raise (`refused`); `DrawArrival` to
`EndSampling` are the generated workloads, with every random draw possible.
There, nothing checks `sla_mix` and the `min` of a distribution before they are
used: a class that is not one of the three ends the run with a `KeyError`, a
`min` below 1 in the constructor, both when a draw first falls there.

### ResultSinks

`sweep` says how many workers there are and whether the logs exist already.
`pc[r]` walks through the constructors and then, for each request, through the
sinks in the order of `run`. A check for existence and the creation that
follows are separate steps, as are the parts of the CSV export. An append of one line
is one step. Redis and Postgres calls may raise, with or without
having taken effect. The Azure configuration file is taken to be present, as
shipped.

## 3. Runs

All runs stop when the workload is exhausted, a bound is reached or an
exception ended the run, as the program does, so deadlock is not checked.

| Run | Instance | Shows |
|---|---|---|
| `cache_memory` | 1 process, 2 keys, 3 pools in 2 clusters, cap 2, total 2, TTL 1, 3 requests | `HitsFresh`, `TotalBounded`, `BucketShape`, `LossJustified` without Redis |
| `cache_shared` | 2 processes on one hash, 2 runs each, 1 key | `MirrorComplete`, `HitsBacked` under interleaving, crash and restart |
| `plane_engine` | 4 requests beside a clock, pools of 2 and 1 slots with memory for two or three requests, an outage, a larger model one pool does not serve, with and without Redis, gRPC, two tenants, queue limit equal to the slot of one pool | `SlotExclusive`, `NoOvertaking`, `WorkConserving`, `ImplementsQueues`; `AccountingBalanced` on every error path; `OutstandingWithinLimit` at the boundary of the queue limit, `MemoryWithinPool` and `CacheOvercommitBounded` at that of memory, `NoSpuriousReject` at both |
| `topology_shortest` | every network on 3 clusters, link costs 1 and 3; 12 tables of up to 2 GPUs and a network card, 3 of them unusable | `AnswerIsShortest`, `RouteCostOfProbe`, `SettledFinal`, `Terminates` |
| `sinks` | 2 runs of 2 requests, one after the other or in 2 workers, with and without existing logs | `TraceComplete`, `OneHeader`, `RowsGapless`, `DecisionLogComplete`, `DecisionsMirrored`, `RunsEnd` |
| `choosers` | 3 pools, 2 costs, 4 requests, all setups | `ChoosesAvailable`, `RoundRobinEven`, `SpreadCountsRejections`, `SpreadEven` |
| `api_threads` | 2 handlers, 2 keys of 2 tenants, 2 pools, a write of a simulation at any time | `LoneHandlersSucceed`, `NeverMixed`, `SubmissionsCounted`, `MirroredIsHit` |
| `trace_pipeline` | files of up to 3 records, 5 normalizers, raw files, generated workloads of up to 2 requests, with an unknown class and a `min` of 0 too, 6 combinations of limits | `RequestsAreFirstRecords`, `ArrivalsOrdered`, `DefaultsAgree` |

Where the code does something else than a document says, a run of its own
exhibits it:

| Run | The code | The document |
|---|---|---|
| `cache_stale` | hydrates after it evicts, and scores expired entries | `docs/failure_analysis.md:16` |
| `cache_computed` | a short request that completes first exposes the size of a longer one still running | `docs/system_design.md:103` |
| `plane_queue_limit` | the queue check counts booked slots, at most `parallel_slots`, below every shipped `queue_limit` | `docs/failure_analysis.md:31` |
| `trace_repeatable` | tenants and sessions of sharegpt come from `hash()` of a string, so normalizing the same file again gives other tenants, cache keys and hits | `docs/stack_and_datasets.md:3` |

The same modules show more. Several properties carry a condition, and fail
without it:

- `Ordered = FALSE` in `ControlPlane`: a trace out of order overcommits memory,
  since `refresh` has dropped work that still runs at the earlier time
  (`workload_gen/generator.py:87` does not sort);
- Redis in `plane_engine`: `_hydrate_from_redis` brings an expired entry back
  after `refresh` gave its memory to a request, so `CacheOvercommitBounded` speaks
  of the behaviours without Redis only; with Redis it fails for a pool that
  serves both keys and has memory for just one request;
- parallel workers in `sinks`: each run truncates the shared decision log, so
  `DecisionLogComplete` speaks of the time until another run starts; ids repeat
  between runs, so their decisions overwrite each other in Redis
  (`DecisionsMirrored` and `OneHeader` are for one worker); two first runs race
  to create a log, and the second drops lines of the first. `TraceComplete` is
  for one worker or existing logs: `docs/live_demo.md:59` promises a trace of
  every request without that condition (`EveryRequestTraced`), which two parallel
  runs in a directory without logs, as the repository is shipped, do not keep;
- overlapping handlers in `api_threads`: both may delete the same stale key
  (`KeyError`) or change a dictionary the other iterates (`RuntimeError`), and a
  submission of a new tenant may be lost. `LoneHandlersSucceed` and
  `SubmissionsCounted` say that nothing else fails or is lost;
- `cache_shared`, as it is: a second run hits entries of the first, so results
  with a fixed seed (`tests/test_metrics_and_benchmarks.py:67`) are repeatable
  only while Redis is empty or disabled. No property states this.

`RouteCostOfProbe` also shows that `network_costs` between clusters never enter
`route_cost`: a search from a pool's own gateway finds the one edge to the pool.

**Bounds.** The cap of 4 entries per key becomes 2 and `max_entries` 2, so that
three requests reach cap, trim and tie. Times go to 2..4 with a TTL of 1 or 2 and
service times 1 and 3, so that entries expire, completions come out of order
and windows of an outage open and close within a run. Pools of two slots and
one are the least that show queueing, choice of slot and difference between
pools; memory limits are set so that one more request or entry does not fit.
`BatchCapacity` equals the number of requests (in the code 50000, above every
shipped workload): the mutant with one place less hangs. Three clusters are the
least on which a relaxed node is improved later. The clock of `plane_engine`
runs on until the last request is through. Two handlers of the API are the least
that race, and with two keys one may change a dictionary while the other is at
another key; a third adds no kind of race between two. Three records are enough
for one to be skipped before a limit of two is reached; the units are chosen so
that times fall on ties of both roundings.

**Symmetry.** Keys and processes of `KVCacheDirectory` and handlers of
`ApiThreads` are interchangeable; pools are not (cluster, scoring order). No symmetry is used with liveness.

**Fairness.** `TopologyService` and `ProbedTopology` have weak fairness of their
next-state relation: a parser and a loop without blocking calls. `ResultSinks` has weak fairness of each run's `Step`: a worker
is a process of its own, and calls to external stores return or raise. No other
module states liveness.

## 4. Proofs

For all values of the constants that satisfy the named assumptions
(`CacheAssumption`, `DirectoryAssumption`, `ControlPlaneAssumption`,
`TopologyAssumption`, `ProbeAssumption`, `SinksAssumption`, `ChoosersAssumption`,
`ApiAssumption`, `NormalizerAssumption`, `PipelineAssumption`), as theorems about `Spec` of the module named unless another
specification is given. Where a theorem has a hypothesis of its own it is named
here; section 3 says what happens without it.

**ControlPlaneProofs**

- `TypeCorrect`. Inductive as it stands; the work is in the lemmas on what
  the operators return (`CacheEntriesProofs`), and in `EarliestSlotIsLeast`,
  from the well-foundedness of the naturals.
- `SlotsAreExclusive`. `SlotExclusive` is not inductive: nothing links a
  slot's time to the placements. Added: `SlotsCoverPlacements`, no placement
  on a slot ends after the slot's time.
- `RequestsStartInOrder`, assuming `Ordered`. Added: identifiers are below
  `arrived` (`IdsUsed`), and each placement has started by now or no slot of
  its pool is free before its start (`StartedOrNoSlotEarlier`).
- `NoIdleSlotWhileWaiting`, assuming `Ordered`. Added: `BusyUntilBooked`,
  from now to its time every slot runs some placement at every instant.
- `MemoryIsNeverOvercommitted`, assuming `Ordered`. `refresh` decides from
  `inflight`, the property speaks of all placements. Added:
  `InflightIsOutstanding`: what is kept is the outstanding work, and it fits.
- `CacheNeverOutgrowsPool`: without Redis an entry is smaller than the request
  that made room for it, and routing reads live entries only (`UnmirroredStep`).
- `CacheOvercommitIsBounded` (`CacheOvercommitBounded`), assuming `Ordered`. Work
  and cache of a pool may exceed its memory, because `observe` adds the entry
  after the check. Inductive beside `InflightIsOutstanding`: a booking starts
  again from what was checked and adds one entry, no other step adds anything.
- `RejectionsAreJustified` (`NoSpuriousReject`), assuming `Ordered`. Added:
  `SlotsTraced`, a slot is booked up to the end of a placement made on it, so
  that the slots `inflight_count` counts are outstanding requests.
- `QueueLimitIsKept`, assuming `Ordered` and, for each pool, a queue limit that
  is at most its slots or that the workload cannot exceed. Only in the first
  case does the check bite (section 3, `plane_queue_limit`). Added:
  `StartsAtOnce`, at such a pool no request ever waits.
- `AccountsBalance`, assuming finitely many tenants. Added: `Books`, the same
  equations over finite sets of placements with identifiers in order; each of
  the four ways an iteration goes adds one placement, one rejection or none.

and about `TimedSpec` of `ControlPlaneInTime`:

- `TimedImplementsSpec`: `TimedSpec => Spec`, so that all of the above holds of
  what `plane_engine` runs.
- `BookingsAreQueues`: `TimedSpec => ImplementsQueues`, the refinement of
  `PoolQueues`. The invariants of the calendar are stated again relative to the
  clock (`InStep`, `StartedByClock`, `BusyFromClock`, `InOrder`, `Offered`).
  `TickIsQueueTick` and `BookingIsSubmit` show the two steps that are not
  stutters; a tick is the hard one, because the abstract queue decides then who
  runs next, and the calendar did so at arrival.

**KVCacheDirectoryProofs**

- `TypeCorrect`, together with finiteness of `done`.
- `HitsAreBacked`, for any number of processes. Added: `AllBacked`, every
  entry, ready or not, in any memory or in Redis, has `available_ts` equal to
  `last_touched` and to the completion of an observed request.
- `HitsAreFresh`, `TotalIsBounded` and `LossesAreJustified`, assuming Redis
  disabled. Added for the bound: `AllBounded`, finitely many items, from which
  the trim removes exactly those above the limit.
- `MirrorOfSoleWriter`, assuming Redis, for any number of processes.
  Inductive as it stands: who observes a key stops the others from being its
  sole writer.
- `BucketsAreShaped`: at most one entry per pool and at most `BucketCap`.

**TopologyServiceProofs**

- `TypeCorrect`, and `SettledNodesAreFinal` via `HeapStaysAbove`: no heap entry
  is below the distance of a settled node, and there are no parallel edges.
- `SearchIsShortest`: the answer is the cost of a cheapest walk, infinity if
  there is none (`ShortestWalk`), in every graph with natural costs, a walk being
  a sequence of nodes with the cost so far. Added (`SearchInv`): every distance is the cost of a walk
  (`Realised`: a simple one, through settled nodes), a node reached but not settled has its distance in the heap
  (`Pending`), the edges of settled nodes are relaxed (`Relaxes`), and the target
  is settled exactly when its distance was returned (`Answered`). That no walk
  is cheaper is an induction along the walk (`NoCheaperWalk`).
- `AnswersAreShortestPaths`, assuming finitely many nodes: `AnswerIsShortest`, the
  answer is the least of the costs of all simple paths, under `Spec` and under
  `ProbedSpec`. A simple path is a walk (`WalkOfPath`), and the walk that realises
  the answer visits no node twice (`PathOfWalk`).
- `RouteCostsAreOfProbe`, about `ProbedSpec`. Added: the only edge into a pool is
  that of its gateway (`OneWayIn`), `relations` has the last row read of every
  GPU (`Reading`), and the cost returned stays that of the answer (`Routed`).
  `ProbeAssumption` says of a table that its header names a device once and that
  X stands on its diagonal only, which its legend says ("X = Self",
  `topology/sample_nvidia_smi_topo.txt`); TLC evaluates it on every table of the
  run.
- `ProbedSearchIsShortest`: the theorems on the search under `ProbedSpec`.

**ResultSinksProofs**, for any number of runs and requests

- `RowsAreGapless`, with the counters' relation to `pc` (`Counters`) and the
  rows every `pc` implies (`RowsInv`).
- `TraceIsComplete`. Added: `CreatedIsMissing`, a file about to be created is not
  there: the check and the creation are two steps, and only one worker, or logs
  that exist, keep the others from stepping in between.
- `DecisionLogIsComplete`. Added: `LatestLogged`, by where the latest run is.
- `DecisionsAreMirrored` and `CsvHasOneHeader`, which are about sequential sweeps.
  Added: `DecidedSoFar`, and `HeaderIsMissing`: what the check for the CSV file
  found is still so when its lines are written.

The two properties of logs say `Records(log, r, n)`: the lines of run `r` are
exactly its first `n`, and in their order.

**RoutingChoosersProofs**, for any number of pools and any costs

- `TypeCorrect`; `ChoiceIsAvailable`, from what each chooser returns
  (`ChoiceIsUsable`).
- `RoundRobinIsEven`. Added: `RoundsFull`, the pools before the cursor have been
  chosen once more than the others.
- `SpreadIsEven`. Added: `CountsAreChoices`. `SpreadForgetsAdmitted`.

**ApiThreadsProofs**, for any number of handlers, keys and writes

- `TypeCorrect`.
- `LoneHandlersNeverFail`. Added: `TogetherRaced`, two active handlers have both
  raced, and `AloneUndisturbed`, the items a lone handler has listed are in the
  directory, one for each key, and its dictionary keeps its size.
- `SubmissionsAreCounted`. Added: `CreatedIsFirst`.
- `VersionsAreNeverMixed`. Added: `PartsOnly`, what handlers have listed or
  fetched are parts of versions too.
- `MirroredEntriesHit`. Added: `FreshKept`, while Redis does not change, an entry
  that no handler finds expired is in every copy of its bucket; and `HitsSoFar`.

**TracePipelineProofs**, for files and workloads of any length

- `TypeCorrect`. The types say that no stage of a trace is `refused`: whatever a
  record and `trace_default_sla` hold, the constructor accepts the request
  (`ReplayRowMakes`).
- `DefaultsAlwaysAgree`, from `RowMade` and `LatencyAgrees`, and from
  `SampleRequestMakes`, which says when a generated request is refused.
- `ArrivalsAreOrdered`, for natural speeds. Added (`ArrivalInv`): a CSV file has a time in all rows or
  in none (`Columns`), rows have the times of their records and keep their order
  (`RowTimes`), arrivals ascend as their pattern says (`DrawnTimes`), and request
  `i` is that of row or arrival `i` (`Replayed`, which needs `Fed`: rows do not
  change once there are requests). Rounding half to even is monotone
  (`RoundMonotone`), and sorting sorts (`Sorted`, by insertion).
- `RequestsAreTheFirstRecords`. Added: `RowsAreUsable`, row `i` has `i - 1` usable
  records before it in the file, and all of them are rows; `Limits`, what has
  ended the reading and the replay.

**Induction.** Facts that need induction over the size of a set, the length of a
walk or of a sequence, or a number are proved by refuting a smallest counterexample, which exists
because the naturals are well-founded (`LeastNatural`, `SmallestSet`,
`AlongWalk`, `Sorted`). The sums of `MapThenSumSet` are handled this way in
`CacheEntriesProofs`: a function that obeys the recursion exists, is unique on
finite sets, and adds what is added to the set.

**Only model-checked.** Liveness, `Terminates` and `RunsEnd`: the proof system has
no rules for fairness. Every other property of a passing run is stated by a
theorem; the properties of the four runs that exhibit a disagreement are false.

## 5. Not modelled

Backends, CUDA scoring, latency predictor, fairness penalty and the weighted
sums of policies are arithmetic that ends in a service time or in a rank; both
are arbitrary here. So are the affinities of the topology service and the
statistics of the summary. Configuration gives the constants their values.
Downloads of data sets, scripts, dashboards and deployment files keep no state
of the running system. Raw files that do not parse, and ids that a file repeats,
are left out of `TracePipeline`, as are the models of requests. `/metrics` of the
API renders a collector that nothing is recorded in, so it is constant.
Two observations have no property, because no document promises otherwise:
requests placed before an outage run on during it, and hydration may exceed
`max_entries` until the next `observe`.

## 6. Plan

Done: the modules above, in the order cache directory, control plane, topology,
sinks, choosers; then the refinement to `PoolQueues`, `ApiThreads`,
`TracePipeline` and the GPU topology parser; then the theorems of section 4,
which state every safety property the passing runs check. Next: the bandit's
values and the fairness penalty; a kill between opening and flushing a CSV file;
downloads that fail halfway.
