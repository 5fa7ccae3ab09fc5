---------------------------- MODULE ResultSinks ----------------------------
(***************************************************************************)
(* SimulationEngine.run with everything it writes outside of its own       *)
(* memory: the decision log, the fanout logs, the Azure logs and batch     *)
(* queue, the decisions in Redis, the rows in Postgres, the metrics file   *)
(* and the CSV results.  The runs of one sweep use the same files, the     *)
(* same Redis hash and the same request ids: BenchmarkHarness.run makes    *)
(* them one after the other, run_ray_sweep in parallel workers; `sweep`    *)
(* says which, and whether the logs of an earlier sweep are there.         *)
(*                                                                         *)
(* Abstractions.  A line is the pair (run, request).  The fanout logs are  *)
(* opened and appended to alike, one stands for all; so does one CSV file, *)
(* and the monitor log for the three Azure logs.  Routing is ControlPlane; *)
(* here execute yields a result or raises.  External stores may fail at    *)
(* any call, which ends the run.                                           *)
(***************************************************************************)
EXTENDS Integers, Sequences, FiniteSets

CONSTANTS
    Runs,             \* runs of the sweep, numbered in the order they start
    Requests,         \* requests per run
    MaxParallel,      \* Ray workers
    RedisEnabled, PostgresEnabled, BatchQueue,
    BatchCapacity     \* maxsize of the Ray batch queue of a run

ASSUME SinksAssumption ==
    /\ Runs \subseteq Nat \ {0} /\ IsFiniteSet(Runs)
    /\ Requests \in Nat /\ MaxParallel \in Nat \ {0} /\ BatchCapacity \in Nat \ {0}
    /\ {RedisEnabled, PostgresEnabled, BatchQueue} \subseteq BOOLEAN

VARIABLES
    sweep,        \* fixed: the runs it makes at a time, fanout logs there before
    pc,           \* pc[r]: where run r is
    served,       \* served[r]: results recorded by its MetricsCollector
    header,       \* header[r]: write_header of its CSV export
    batch,        \* batch[r]: length of its Ray batch queue
    decisionLog,  \* the file decision_log_path
    fanout,       \* a file of StructuredLogFanout: <<>>, or <<lines>>
    monitor,      \* azure_monitor.log
    decisions,    \* nimbusmesh:decisions: the run that wrote each id, or 0
    rows,         \* experiment_results
    metricsFile,  \* metrics_output_path: the run that wrote it, or 0
    csv,          \* a result CSV: <<>>, or <<lines>>; 0 stands for the header
    summaries     \* experiment_summaries

inner == <<sweep, served, header, batch>>
files == <<decisionLog, fanout, monitor, csv, metricsFile>>
stores == <<decisions, rows, summaries>>
vars == <<pc, inner, files, stores>>

Ids == 1 .. Requests
Line == Runs \X Ids
Ended == {"done", "raised"}

Sweep == [workers : {1, MaxParallel}, logs : BOOLEAN]

Init ==
    /\ sweep \in Sweep
    /\ pc = [r \in Runs |-> "new"]
    /\ served = [r \in Runs |-> 0]
    /\ header = [r \in Runs |-> FALSE]
    /\ batch = [r \in Runs |-> 0]
    /\ decisionLog = <<>> /\ monitor = <<>>
    /\ fanout = IF sweep.logs THEN << <<>> >> ELSE <<>>
    /\ csv = <<>> /\ metricsFile = 0
    /\ decisions = [i \in Ids |-> 0]
    /\ rows = {} /\ summaries = {}

-----------------------------------------------------------------------------
(* The constructors of the sinks. *)

Goto(r, from, to) == pc[r] = from /\ pc' = [pc EXCEPT ![r] = to]

\* An exception of an external service ends the run.
Raises(r, at) == Goto(r, at, "raised")

\* StructuredDecisionLogger.__init__: write_text("") drops what the file held.
OpenDecisionLog(r) ==
    /\ \A q \in Runs : q < r => pc[q] # "new"
    /\ Cardinality({q \in Runs : pc[q] \notin Ended \cup {"new"}}) < sweep.workers
    /\ Goto(r, "new", "check_logs")
    /\ decisionLog' = <<>>
    /\ UNCHANGED <<inner, fanout, monitor, csv, metricsFile, stores>>

\* Mutant: existing logs are written over as well.
NeverThere(file) == FALSE

\* path.exists()
Exists(file) == file # <<>>

\* StructuredLogFanout.__init__ asks whether the file is there ...
CheckLogs(r) ==
    /\ Goto(r, "check_logs", IF Exists(fanout) THEN "open_azure" ELSE "create_logs")
    /\ UNCHANGED <<inner, files, stores>>

\* ... and writes it empty if it was not.
CreateLogs(r) ==
    /\ Goto(r, "create_logs", "open_azure")
    /\ fanout' = << <<>> >>
    /\ UNCHANGED <<inner, decisionLog, monitor, csv, metricsFile, stores>>

\* AzureInfraSimulator.__init__.
OpenAzure(r) ==
    /\ Goto(r, "open_azure", "tables")
    /\ monitor' = <<>>
    /\ UNCHANGED <<inner, decisionLog, fanout, csv, metricsFile, stores>>

\* PostgresExperimentStore.__init__: creates its tables.
EnsureTables(r) ==
    /\ Goto(r, "tables", "submit") \/ (PostgresEnabled /\ Raises(r, "tables"))
    /\ UNCHANGED <<inner, files, stores>>

-----------------------------------------------------------------------------
(* One request. *)

\* Mutant: an off-by-one in the room of the queue.
RoomBelow(length) == length + 1 < BatchCapacity

\* put() of a bounded queue waits for room; nothing ever takes from this one.
Room(length) == length < BatchCapacity

NoteSubmission(r) ==
    /\ served[r] < Requests
    /\ BatchQueue => Room(batch[r])
    /\ Goto(r, "submit", "execute")
    /\ batch' = [batch EXCEPT ![r] = @ + IF BatchQueue THEN 1 ELSE 0]
    /\ UNCHANGED <<sweep, served, header, files, stores>>

\* execute() and metrics.record().
Execute(r) ==
    /\ Goto(r, "execute", "emit")
    /\ served' = [served EXCEPT ![r] = @ + 1]
    /\ UNCHANGED <<sweep, header, batch, files, stores>>

ExecuteRaises(r) ==
    /\ Raises(r, "execute")
    /\ UNCHANGED <<inner, files, stores>>

\* Mutant: the file is opened with "w".
Rewritten(log, line) == <<line>>

\* emit opens the file with "a".
Logged(log, line) == Append(log, line)

EmitDecision(r) ==
    /\ Goto(r, "emit", "fanout")
    /\ decisionLog' = Logged(decisionLog, <<r, served[r]>>)
    /\ UNCHANGED <<inner, fanout, monitor, csv, metricsFile, stores>>

\* open("a") creates a missing file.
Appended(file, lines) == <<IF file = <<>> THEN lines ELSE Head(file) \o lines>>

EmitResult(r) ==
    /\ Goto(r, "fanout", "monitor")
    /\ fanout' = Appended(fanout, << <<r, served[r]>> >>)
    /\ UNCHANGED <<inner, decisionLog, monitor, csv, metricsFile, stores>>

RecordResult(r) ==
    /\ Goto(r, "monitor", "redis")
    /\ monitor' = Append(monitor, <<r, served[r]>>)
    /\ UNCHANGED <<inner, decisionLog, fanout, csv, metricsFile, stores>>

\* Mutant: hsetnx, the first decision of an id stays.
FirstWins(r, id) == IF decisions[id] = 0 THEN r ELSE decisions[id]

\* hset overwrites the decision another run stored under the id.
Overwrites(r, id) == r

WriteDecision(r) ==
    /\ Goto(r, "redis", "postgres")
    /\ decisions' = IF RedisEnabled
                    THEN [decisions EXCEPT ![served[r]] = Overwrites(r, served[r])]
                    ELSE decisions
    /\ UNCHANGED <<inner, files, rows, summaries>>

\* The call fails, before or after Redis has applied it.
WriteDecisionRaises(r) ==
    /\ RedisEnabled
    /\ Raises(r, "redis")
    /\ decisions' \in {decisions, [decisions EXCEPT ![served[r]] = Overwrites(r, served[r])]}
    /\ UNCHANGED <<inner, files, rows, summaries>>

Inserted(r) == IF PostgresEnabled THEN rows \cup {<<r, served[r]>>} ELSE rows

WriteResult(r) ==
    /\ Goto(r, "postgres", "submit")
    /\ rows' = Inserted(r)
    /\ UNCHANGED <<inner, files, decisions, summaries>>

\* Mutant: a failed insert is swallowed.
FailureIgnored(r) ==
    /\ PostgresEnabled
    /\ Goto(r, "postgres", "submit")
    /\ UNCHANGED <<inner, files, stores>>

\* The connection fails, or the answer to the commit is lost.
WriteResultRaises(r) ==
    /\ PostgresEnabled
    /\ Raises(r, "postgres")
    /\ rows' \in {rows, Inserted(r)}
    /\ UNCHANGED <<inner, files, decisions, summaries>>

-----------------------------------------------------------------------------
(* The report. *)

\* metrics.write_summary.
WriteSummary(r) ==
    /\ served[r] = Requests
    /\ Goto(r, "submit", "csv_check")
    /\ metricsFile' = r
    /\ UNCHANGED <<inner, decisionLog, fanout, monitor, csv, stores>>

\* ResultCSVExporter._append: asks whether the file is there ...
CheckCsv(r) ==
    /\ Goto(r, "csv_check", "csv_open")
    /\ header' = [header EXCEPT ![r] = ~ Exists(csv)]
    /\ UNCHANGED <<sweep, served, batch, files, stores>>

\* ... opens it, which creates it ...
OpenCsv(r) ==
    /\ Goto(r, "csv_open", "csv_write")
    /\ csv' = Appended(csv, <<>>)
    /\ UNCHANGED <<inner, decisionLog, fanout, monitor, metricsFile, stores>>

\* Mutant: the header is written whether the file was there or not.
HeaderAlways(r) == <<0, r>>

\* ... and flushes header and row when it closes it.
CsvLines(r) == IF header[r] THEN <<0, r>> ELSE <<r>>

WriteCsv(r) ==
    /\ Goto(r, "csv_write", "summary")
    /\ csv' = Appended(csv, CsvLines(r))
    /\ UNCHANGED <<inner, decisionLog, fanout, monitor, metricsFile, stores>>

WritePostgresSummary(r) ==
    /\ Goto(r, "summary", "done")
    /\ summaries' = IF PostgresEnabled THEN summaries \cup {r} ELSE summaries
    /\ UNCHANGED <<inner, files, decisions, rows>>

WritePostgresSummaryRaises(r) ==
    /\ PostgresEnabled
    /\ Raises(r, "summary")
    /\ summaries' \in {summaries, summaries \cup {r}}
    /\ UNCHANGED <<inner, files, decisions, rows>>

-----------------------------------------------------------------------------

Step(r) ==
    \/ OpenDecisionLog(r) \/ CheckLogs(r) \/ CreateLogs(r) \/ OpenAzure(r) \/ EnsureTables(r)
    \/ NoteSubmission(r) \/ Execute(r) \/ ExecuteRaises(r)
    \/ EmitDecision(r) \/ EmitResult(r) \/ RecordResult(r)
    \/ WriteDecision(r) \/ WriteDecisionRaises(r) \/ WriteResult(r) \/ WriteResultRaises(r)
    \/ WriteSummary(r) \/ CheckCsv(r) \/ OpenCsv(r) \/ WriteCsv(r)
    \/ WritePostgresSummary(r) \/ WritePostgresSummaryRaises(r)

Next == \E r \in Runs : Step(r)

\* Every worker is a process of its own, and external calls return or raise.
Spec == Init /\ [][Next]_vars /\ \A r \in Runs : WF_vars(Step(r))

-----------------------------------------------------------------------------
(* Properties. *)

\* Files and stores hold lines of results that requests of some run produced.
TypeOK ==
    /\ sweep \in Sweep
    /\ pc \in [Runs -> Ended \cup {"new", "check_logs", "create_logs", "open_azure", "tables",
                   "submit", "execute", "emit", "fanout", "monitor", "redis", "postgres",
                   "csv_check", "csv_open", "csv_write", "summary"}]
    /\ served \in [Runs -> 0 .. Requests]
    /\ header \in [Runs -> BOOLEAN]
    /\ batch \in [Runs -> 0 .. Requests]
    /\ decisionLog \in Seq(Line) /\ monitor \in Seq(Line)
    /\ fanout = <<>> \/ (Len(fanout) = 1 /\ Head(fanout) \in Seq(Line))
    /\ csv = <<>> \/ (Len(csv) = 1 /\ Head(csv) \in Seq(Runs \cup {0}))
    /\ metricsFile \in Runs \cup {0}
    /\ decisions \in [Ids -> Runs \cup {0}]
    /\ rows \subseteq Line /\ summaries \subseteq Runs

\* The lines of run r in a log are those of its first n requests, in order.
Records(log, r, n) ==
    /\ {line \in {log[j] : j \in DOMAIN log} : line[1] = r} = {r} \X (1 .. n)
    /\ \A i, j \in DOMAIN log : i < j /\ log[i][1] = r /\ log[j][1] = r => log[i][2] < log[j][2]

\* A run returns its report.
Returns(r) == pc[r] # "done" /\ pc'[r] = "done"

\* When a run returns and no later run of the sweep has started, the decision
\* log holds a line for each of its requests, in their order: only the
\* constructor of another run drops what a run has logged.
DecisionLogComplete ==
    [][\A r \in Runs :
         Returns(r) /\ (\A q \in Runs : q > r => pc[q] = "new")
            => Records(decisionLog, r, Requests)]_vars

\* The fanout logs hold, in order, a line for every request a run has
\* recorded, the one being written excepted, as docs/live_demo.md:59 has it.
\* Where parallel runs start without logs this fails: a run that found none may
\* create the file another has written to meanwhile.
EveryRequestTraced ==
    \A r \in Runs :
        Records(IF fanout = <<>> THEN <<>> ELSE Head(fanout),
                r, served[r] - IF pc[r] \in {"emit", "fanout"} THEN 1 ELSE 0)

\* Every request is traced, however many runs write to the logs before, since
\* or meanwhile and even if a store failed, as long as runs follow one another
\* or find the logs there.
TraceComplete == sweep.workers = 1 \/ sweep.logs => EveryRequestTraced

\* When a run of a sequential sweep returns, the Redis hash holds its decision
\* for every request, whatever earlier runs stored under the same ids.
DecisionsMirrored ==
    [][\A r \in Runs : Returns(r) /\ RedisEnabled /\ sweep.workers = 1
         => \A i \in Ids : decisions[i] = r]_vars

\* The rows of a run are those of its first requests without a gap, at most
\* the last one missing, and a summary is stored for complete runs only.
RowsGapless ==
    PostgresEnabled =>
        /\ \A r \in Runs : \A i \in 1 .. served[r] - 1 : <<r, i>> \in rows
        /\ \A r \in summaries : \A i \in Ids : <<r, i>> \in rows

\* A result CSV written by one run at a time starts with its header and has
\* no other.
OneHeader ==
    sweep.workers = 1 /\ csv # <<>> /\ Head(csv) # <<>> =>
        \A j \in DOMAIN Head(csv) : Head(csv)[j] = 0 <=> j = 1

\* A run that starts ends, with its report or an exception.
RunsEnd == \A r \in Runs : pc[r] = "check_logs" ~> pc[r] \in Ended
=============================================================================
