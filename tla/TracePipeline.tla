---------------------------- MODULE TracePipeline ----------------------------
(***************************************************************************)
(* Where the requests of a simulation come from: a raw file is normalized  *)
(* (scripts/normalize_workloads.py), the rows are written as a CSV file,   *)
(* and WorkloadGenerator replays it; or it replays a raw CSV file as it    *)
(* is; or, without trace_path, it generates the requests.                  *)
(*                                                                         *)
(* Two processes normalize the same raw file, which is what running the    *)
(* script twice does; they share nothing, so one step takes a record in    *)
(* each.  The trace replayed is the file of the first.                     *)
(*                                                                         *)
(* Abstractions.  Times are counted in units below the six decimals of the *)
(* CSV file.  Random draws are nondeterministic.  An arrival drawn in a    *)
(* burst window is one of the times before duration_s, like any other.     *)
(***************************************************************************)
EXTENDS Normalizers, Sequences, FiniteSets, Functions

CONSTANTS
    Inputs,          \* the records a raw file may hold
    MaxRecords,      \* bound on the length of a raw file
    Setups,          \* the jobs and workload configurations considered
    FileGrain,       \* units in the sixth decimal
    ClockGrain,      \* units in the fourth decimal
    Duration,        \* duration_s
    TenantIds,       \* keys of tenant_weights
    TokenMax, TokenDraws  \* max of a DistributionConfig, and what it draws

Unlimited == -1

Processes == {1, 2}

\* A workload is generated, a raw CSV file replayed as it is, or the output of
\* a normalizer.
Sources == Kinds \cup {"raw", "generated"}

\* The source, and limit of the normalizer.
Job == [source : Sources, limit : Nat \cup {Unlimited}]

\* WorkloadConfig: of sla_mix the keys, which nothing compares with the classes
\* there are, and of the two distributions min, which may be 0.
Config == [trace_limit : Nat \cup {Unlimited}, request_count : Nat, speed : Nat \ {0},
           default_sla : STRING, pattern : {"uniform", "bursty", "poisson"},
           sla_mix : (SUBSET STRING) \ {{}}, token_min : Int]

ASSUME PipelineAssumption ==
    /\ Inputs \subseteq Record
    /\ MaxRecords \in Nat
    /\ Setups \subseteq Job \X Config
    /\ TenantIds \subseteq Nat
    /\ {FileGrain, ClockGrain, TokenMax} \subseteq Nat \ {0}
    /\ TokenDraws \subseteq Int
    /\ Duration \in Nat

VARIABLES
    job, config,  \* never change
    stage,
    file,      \* the records read so far
    ended,     \* the raw file has no other record
    rows,      \* the rows of each process
    arrivals,  \* the arrival times generated
    requests,  \* the requests made so far
    sessions   \* sessions known of each tenant, in order

vars == <<job, config, stage, file, ended, rows, arrivals, requests, sessions>>

Init ==
    /\ \E setup \in Setups : job = setup[1] /\ config = setup[2]
    /\ stage = IF job.source = "generated" THEN "drawing" ELSE "reading"
    /\ file = <<>> /\ ended = FALSE
    /\ rows = [s \in Processes |-> <<>>]
    /\ arrivals = <<>> /\ requests = <<>>
    /\ sessions = <<>>

-----------------------------------------------------------------------------
(* Reading the raw file. *)

\* Mutant: the limit counts the records read.
LimitOfRecords(limit) == limit # Unlimited /\ Len(file) >= limit

\* The break of every normalizer: enough rows have been kept.
LimitReached(limit) == limit # Unlimited /\ Len(rows[1]) >= limit

\* A CSV file has the same columns in every row; a JSON record has its own.
SameColumns(rec) ==
    \/ job.source \notin {"alibaba", "generic", "raw"}
    \/ \A i \in DOMAIN file :
          /\ (file[i].ts = Absent) = (rec.ts = Absent)
          /\ file[i].named = rec.named
          /\ (file[i].tenant = Absent) = (rec.tenant = Absent)
          /\ (file[i].session = Absent) = (rec.session = Absent)

\* One record of the loop of a normalizer, in each process with its own hash.
Normalize ==
    /\ stage = "reading" /\ job.source \in Kinds
    /\ ~ended /\ Len(file) < MaxRecords /\ ~LimitReached(job.limit)
    /\ \E rec \in {r \in Inputs : SameColumns(r)}, hash \in [Processes -> Hashes] :
         /\ file' = Append(file, rec)
         /\ rows' = IF Skipped(job.source, rec) THEN rows
                    ELSE [s \in Processes |->
                            Append(rows[s], Row(job.source, Len(file), rec, hash[s]))]
    /\ UNCHANGED <<job, config, stage, ended, arrivals, requests, sessions>>

\* round(): to the nearest multiple of a grain, ties to the even one.
RoundHalfEven(n, grain) ==
    LET q == n \div grain
        r == n % grain
    IN  IF 2 * r < grain \/ (2 * r = grain /\ q % 2 = 0) THEN q ELSE q + 1

\* write_normalized_rows, when the file has ended or the limit is reached.
WriteRows ==
    /\ stage = "reading" /\ job.source \in Kinds
    /\ ended \/ LimitReached(job.limit)
    /\ rows' = [s \in Processes |-> [i \in DOMAIN rows[s] |->
                  [rows[s][i] EXCEPT !.timestamp = FileGrain * RoundHalfEven(@, FileGrain)]]]
    /\ stage' = "replaying"
    /\ UNCHANGED <<job, config, file, ended, arrivals, requests, sessions>>

\* The row of a raw CSV file, as the replay reads it.
RawRow(index, rec) ==
    [timestamp |-> rec.ts, request_id |-> <<"file", index>>,
     prompt_length |-> rec.prompt, expected_output_length |-> rec.output,
     tenant_id |-> <<"file", rec.tenant>>, priority_class |-> rec.priority,
     session_id |-> <<<<"any", 0>>, "file", rec.session>>]

\* The columns the replay requires.
HasRequired(rec) == rec.ts # Absent /\ rec.named /\ rec.tenant # Absent

\* The replay reads a raw file; only then are the columns checked that a
\* normalizer would have filled in.
ReadRaw ==
    /\ stage = "reading" /\ job.source = "raw"
    /\ ~ended /\ Len(file) < MaxRecords
    /\ \E rec \in {r \in Inputs : SameColumns(r)} :
         /\ file' = Append(file, rec)
         /\ IF HasRequired(rec)
            THEN /\ rows' = [s \in Processes |-> Append(rows[s], RawRow(Len(file), rec))]
                 /\ stage' = stage
            ELSE rows' = rows /\ stage' = "unusable"
    /\ UNCHANGED <<job, config, ended, arrivals, requests, sessions>>

\* trace_path names no file.
TraceMissing ==
    /\ stage = "reading" /\ job.source = "raw" /\ file = <<>>
    /\ stage' = "unusable"
    /\ UNCHANGED <<job, config, file, ended, rows, arrivals, requests, sessions>>

\* The last record has been read; a normalizer then writes its rows.
EndOfFile ==
    /\ stage = "reading" /\ ~ended
    /\ ended' = TRUE
    /\ stage' = IF job.source = "raw" THEN "replaying" ELSE stage
    /\ UNCHANGED <<job, config, file, rows, arrivals, requests, sessions>>

-----------------------------------------------------------------------------
(* WorkloadGenerator: sessions, signatures, and the constructor. *)

Prefix(s, n) == IF n = Unlimited \/ Len(s) <= n THEN s ELSE SubSeq(s, 1, n)

\* The number of sessions opened so far for a tenant.
Opened(tenant) == Cardinality({i \in DOMAIN sessions : sessions[i][1] = tenant})

Remembered(session) == Append(sessions, session)

\* _pick_session: any session of the tenant, if it has one, or the next new one.
PickedSessions(tenant) ==
    {sessions[i] : i \in {j \in DOMAIN sessions : sessions[j][1] = tenant}}
    \cup {<<tenant, "picked", Opened(tenant)>>}

IsNew(session) == session[2] = "picked" /\ \A i \in DOMAIN sessions : sessions[i] # session

\* stable_prefix_signature, by what it hashes.
Signature(tenant, session, prompt, generation) ==
    <<tenant, session, <<"size", prompt \div 256, generation \div 128>>>>

HostileSignature(tenant, index) ==
    <<tenant, <<<<"any", 0>>, "anon", 0>>, <<"hostile", index, 0>>>>

\* What __post_init__ of InferenceRequest accepts.
Acceptable(r) ==
    /\ r.sla_class \in SlaClasses
    /\ r.prompt_tokens > 0 /\ r.generation_tokens > 0
    /\ r.arrival_ts >= 0 /\ r.max_latency_ms > 0

\* An exception ends the run.
Refuse == requests' = requests /\ stage' = "refused"

\* A request is constructed, or its constructor raises.
Construct(r) ==
    \/ Acceptable(r) /\ requests' = Append(requests, r) /\ stage' = stage
    \/ ~Acceptable(r) /\ Refuse

LatencyOf(class) ==
    CASE class = "realtime" -> 900
      [] class = "best_effort" -> 4200
      [] OTHER -> 1800

-----------------------------------------------------------------------------
(* Trace replay. *)

\* rows[:trace_limit]
Trace == Prefix(rows[1], config.trace_limit)

\* Mutant: the time since the row before.
SincePrevious(i) ==
    RoundHalfEven(AtLeast(0, Trace[i].timestamp - Trace[AtLeast(1, i - 1)].timestamp),
                  ClockGrain * config.speed)

\* The arrival of row i, relative to the first row kept.
ArrivalTs(i) ==
    RoundHalfEven(AtLeast(0, Trace[i].timestamp - Trace[1].timestamp), ClockGrain * config.speed)

\* priority_class of the row, or trace_default_sla if it is empty.
RowSla(row) == IF row.priority_class = "" THEN config.default_sla ELSE row.priority_class

\* Mutant: the class is passed on as it is.
RawSla(class) == class

SlaClass(class) == IF class \in SlaClasses THEN class ELSE "interactive"

\* The table of max_latency_ms, with its default.
MaxLatencyMs(class) == IF class \in SlaClasses THEN LatencyOf(class) ELSE 1800

ReplayedTenant(row) == IF row.tenant_id = <<"file", Blank>> THEN <<"unknown", 0>> ELSE row.tenant_id

NoSession(row) == row.session_id[2] = "file" /\ row.session_id[3] \in {Absent, Blank}

ReplayRow ==
    LET i == Len(requests) + 1 IN
    /\ stage = "replaying" /\ i <= Len(Trace)
    /\ LET row == Trace[i]
           tenant == ReplayedTenant(row)
           prompt == AtLeast(1, row.prompt_length)
           generation == AtLeast(1, row.expected_output_length)
       IN  \E session \in IF NoSession(row) THEN PickedSessions(tenant) ELSE {row.session_id} :
             /\ Construct([request_id |-> row.request_id, tenant_id |-> tenant,
                           prompt_tokens |-> prompt, generation_tokens |-> generation,
                           arrival_ts |-> ArrivalTs(i), sla_class |-> SlaClass(RowSla(row)),
                           session_id |-> session,
                           prefix_signature |-> Signature(tenant, session, prompt, generation),
                           max_latency_ms |-> MaxLatencyMs(RowSla(row))])
             /\ sessions' = IF IsNew(session) THEN Remembered(session) ELSE sessions
    /\ UNCHANGED <<job, config, file, ended, rows, arrivals>>

\* A request_count of 0 keeps all requests of the trace.
EndReplay ==
    /\ stage = "replaying" /\ Len(requests) = Len(Trace)
    /\ requests' = IF config.request_count > 0 THEN Prefix(requests, config.request_count)
                   ELSE requests
    /\ stage' = "done"
    /\ UNCHANGED <<job, config, file, ended, rows, arrivals, sessions>>

-----------------------------------------------------------------------------
(* Generated workloads. *)

AtMost(high, n) == IF n > high THEN high ELSE n

DrawArrival ==
    /\ stage = "drawing" /\ Len(arrivals) < config.request_count
    /\ \E draw \in 0 .. Duration :
         arrivals' = Append(arrivals,
            CASE config.pattern = "uniform" -> (Len(arrivals) * Duration) \div config.request_count
              [] config.pattern = "bursty"  -> draw
              [] config.pattern = "poisson" ->
                   AtMost(Duration, draw + (IF arrivals = <<>> THEN 0 ELSE arrivals[Len(arrivals)])))
    /\ UNCHANGED <<job, config, stage, file, ended, rows, requests, sessions>>

Ascending(s) == \A i, j \in DOMAIN s : i <= j => s[i] <= s[j]

\* sorted(): the ascending rearrangement.
SortedTimes(s) ==
    CHOOSE t \in {[i \in DOMAIN s |-> s[p[i]]] : p \in Bijection(DOMAIN s, DOMAIN s)} : Ascending(t)

EndArrivals ==
    /\ stage = "drawing" /\ Len(arrivals) = config.request_count
    /\ arrivals' = IF config.pattern = "bursty" THEN SortedTimes(arrivals) ELSE arrivals
    /\ stage' = "sampling"
    /\ UNCHANGED <<job, config, file, ended, rows, requests, sessions>>

\* _sample_tokens, of a value drawn.
SampleTokens(value) == AtLeast(config.token_min, AtMost(TokenMax, value))

\* _weighted_choice draws the tenant and the class; a request is hostile with
\* the probability cache_hostility.  The table of latencies has no entry for an
\* unknown class: a KeyError, when the session has been picked.
SampleRequest ==
    LET index == Len(requests) IN
    /\ stage = "sampling" /\ index < Len(arrivals)
    /\ \E n \in TenantIds, class \in config.sla_mix, p, g \in TokenDraws, hostile \in BOOLEAN :
         LET tenant == <<"file", n>>
             prompt == SampleTokens(p)
             generation == SampleTokens(g)
         IN  \E session \in PickedSessions(tenant) :
               /\ IF class \notin SlaClasses THEN Refuse
                  ELSE Construct(
                    [request_id |-> <<"index", index>>, tenant_id |-> tenant,
                     prompt_tokens |-> prompt, generation_tokens |-> generation,
                     arrival_ts |-> RoundHalfEven(arrivals[index + 1], ClockGrain),
                     sla_class |-> class, session_id |-> session,
                     prefix_signature |-> IF hostile THEN HostileSignature(tenant, index)
                                          ELSE Signature(tenant, session, prompt, generation),
                     max_latency_ms |-> LatencyOf(class)])
               /\ sessions' = IF IsNew(session) THEN Remembered(session) ELSE sessions
    /\ UNCHANGED <<job, config, file, ended, rows, arrivals>>

EndSampling ==
    /\ stage = "sampling" /\ Len(requests) = Len(arrivals)
    /\ stage' = "done"
    /\ UNCHANGED <<job, config, file, ended, rows, arrivals, requests, sessions>>

Next ==
    \/ Normalize \/ WriteRows \/ ReadRaw \/ TraceMissing \/ EndOfFile
    \/ ReplayRow \/ EndReplay
    \/ DrawArrival \/ EndArrivals \/ SampleRequest \/ EndSampling

Spec == Init /\ [][Next]_vars

-----------------------------------------------------------------------------
(* Properties. *)

\* The records of the file that become rows.
Usable == {i \in DOMAIN file : ~Skipped(job.source, file[i])}

\* The requests of a trace are the first usable records of the file, each once
\* and in order, however limit, trace_limit and request_count cut it: a record
\* without a conversation does not count against a limit, a limit of 0 keeps
\* nothing, and a request_count of 0 keeps everything.
RequestsAreFirstRecords ==
    stage = "done" /\ job.source # "generated" =>
        LET bounds == {config.trace_limit}
                      \cup (IF job.source = "raw" THEN {} ELSE {job.limit})
                      \cup (IF config.request_count = 0 THEN {} ELSE {config.request_count})
                      \cup (IF ended THEN {Cardinality(Usable)} ELSE {})
        IN  /\ Len(requests) \in bounds
            /\ \A n \in bounds \ {Unlimited} : Len(requests) <= n
            /\ \A i \in DOMAIN requests :
                  LET place == requests[i].request_id[2] + 1
                  IN  place \in Usable /\ Cardinality({j \in Usable : j < place}) = i - 1

\* Timestamps of the file in order (those derived from positions are).
InOrder ==
    \/ job.source \notin {"alibaba", "generic", "raw"}
    \/ Ascending([i \in DOMAIN file |-> file[i].ts])

\* Arrival times never decrease, although they are cut, divided and rounded
\* twice, as long as the times of the file do not; generated ones never do.
\* SimulationEngine.run and ControlPlane (Ordered) rely on it.
ArrivalsOrdered ==
    InOrder => \A i, j \in DOMAIN requests :
                   i <= j => requests[i].arrival_ts <= requests[j].arrival_ts

\* Every default along the way agrees with what the next part accepts.  A row a
\* normalizer makes has positive lengths and a known class, for empty texts and
\* unknown priorities too.  No request of a trace is refused, which would end
\* the run, be it for a time before the first row or an unknown class in a raw
\* file or in trace_default_sla; one that is generated is refused only where the
\* configuration itself has an unknown class in sla_mix or a min below 1.  And
\* class and latency of a request agree, although each falls back on its own.
DefaultsAgree ==
    /\ stage = "refused" =>
         /\ job.source = "generated"
         /\ config.token_min < 1 \/ ~(config.sla_mix \subseteq SlaClasses)
    /\ job.source \in Kinds =>
         \A s \in Processes : \A i \in DOMAIN rows[s] :
            /\ rows[s][i].prompt_length > 0 /\ rows[s][i].expected_output_length > 0
            /\ rows[s][i].priority_class \in SlaClasses
    /\ \A i \in DOMAIN requests : requests[i].max_latency_ms = LatencyOf(requests[i].sla_class)

\* Normalizing a file again, in another process, gives the same rows
\* (docs/stack_and_datasets.md: "reproducible normalization").  The tenants of
\* sharegpt come from hash(), which is salted in each process.
RowsRepeatable == rows[1] = rows[2]
=============================================================================
