------------------------- MODULE ResultSinksProofs -------------------------
(* Theorems about what runs write, for any number of them, parallel or not. *)
EXTENDS ResultSinks, FiniteSetTheorems, TLAPS

\* Where the results recorded so far are all stored.
Between == {"submit", "execute", "csv_check", "csv_open", "csv_write", "summary", "done"}

\* Where a run has served all of its requests.
Reporting == {"csv_check", "csv_open", "csv_write", "summary", "done"}

Constructing == {"new", "check_logs", "create_logs", "open_azure", "tables"}

\* Where the last result recorded is being written.
Writing == {"emit", "fanout", "monitor", "redis", "postgres"}

Labels == Between \cup Constructing \cup Writing \cup {"raised"}

\* Where a run is, and how many requests it has served: the part of TypeOK
\* the argument needs, and what pc tells of served.
Counters ==
    /\ pc \in [Runs -> Labels]
    /\ served \in [Runs -> 0 .. Requests]
    /\ header \in [Runs -> BOOLEAN]
    /\ summaries \subseteq Runs
    /\ \A r \in Runs : /\ pc[r] \in Constructing => served[r] = 0
                       /\ pc[r] = "execute" => served[r] < Requests
                       /\ pc[r] \in Writing => served[r] # 0
                       /\ pc[r] \in Reporting => served[r] = Requests

\* The rows of run r, by where it is.
RunRows(r) ==
    /\ \A i \in 1 .. served[r] - 1 : <<r, i>> \in rows
    /\ pc[r] \in Between => \A i \in 1 .. served[r] : <<r, i>> \in rows
    /\ r \in summaries => \A i \in Ids : <<r, i>> \in rows

\* RowsGapless by itself is not inductive: that a run goes on to its next
\* request only once its last row is stored is said by pc.
RowsInv == PostgresEnabled => \A r \in Runs : RunRows(r)

-----------------------------------------------------------------------------

LEMMA CountersStep ==
    ASSUME Counters, NEW r \in Runs, Step(r)
    PROVE  Counters'
<1>1. Requests \in Nat
  BY SinksAssumption
<1> USE DEF Step, Goto, Raises, inner, stores,
         OpenDecisionLog, CheckLogs, CreateLogs, OpenAzure, EnsureTables,
         NoteSubmission, Execute, ExecuteRaises, EmitDecision, EmitResult,
         RecordResult, WriteDecision, WriteDecisionRaises, WriteResult,
         WriteResultRaises, WriteSummary, CheckCsv, OpenCsv, WriteCsv,
         WritePostgresSummary, WritePostgresSummaryRaises
<1>2. pc' \in [Runs -> Labels]
  <2>1. \E l \in Labels : pc' = [pc EXCEPT ![r] = l]
    BY DEF Counters, Labels, Between, Constructing, Writing
  <2> QED  BY <2>1 DEF Counters
<1>3. served' \in [Runs -> 0 .. Requests]
  <2>1. CASE Execute(r)
    <3>1. served[r] \in 0 .. Requests /\ served[r] < Requests
      BY <2>1 DEF Counters
    <3> QED
      BY <1>1, <2>1, <3>1 DEF Counters
  <2>2. CASE ~ Execute(r)
    <3>1. served' = served
      BY <2>2
    <3> QED
      BY <3>1 DEF Counters
  <2> QED
    BY <2>1, <2>2
<1>4. \A q \in Runs : /\ pc'[q] \in Constructing => served'[q] = 0
                      /\ pc'[q] = "execute" => served'[q] < Requests
                      /\ pc'[q] \in Writing => served'[q] # 0
                      /\ pc'[q] \in Reporting => served'[q] = Requests
  BY <1>1 DEF Counters, Constructing, Writing, Reporting
<1>5. summaries' \subseteq Runs
  BY DEF Counters
<1>6. header' \in [Runs -> BOOLEAN]
  BY DEF Counters
<1> QED
  BY <1>2, <1>3, <1>4, <1>5, <1>6 DEF Counters

\* No step of a run takes away a row, or touches what is another run's.
LEMMA StepFrame ==
    ASSUME Counters, NEW r \in Runs, Step(r)
    PROVE  /\ rows \subseteq rows'
           /\ \A q \in Runs \ {r} : /\ pc'[q] = pc[q] /\ served'[q] = served[q]
                                    /\ q \in summaries' => q \in summaries
           /\ r \in summaries' => r \in summaries \/ pc[r] = "summary"
BY DEF Counters, Step, Goto, Raises, inner, stores, Inserted,
       OpenDecisionLog, CheckLogs, CreateLogs, OpenAzure, EnsureTables,
       NoteSubmission, Execute, ExecuteRaises, EmitDecision, EmitResult,
       RecordResult, WriteDecision, WriteDecisionRaises, WriteResult,
       WriteResultRaises, WriteSummary, CheckCsv, OpenCsv, WriteCsv,
       WritePostgresSummary, WritePostgresSummaryRaises

LEMMA RowsStep ==
    ASSUME Counters, RowsInv, PostgresEnabled, NEW r \in Runs, Step(r)
    PROVE  \A q \in Runs : RunRows(q)'
<1>0. Requests \in Nat /\ Ids = 1 .. Requests
  BY SinksAssumption DEF Ids
<1>1. ASSUME NEW q \in Runs \ {r} PROVE RunRows(q)'
  BY StepFrame, <1>1 DEF RowsInv, RunRows
<1>2. RunRows(r)
  BY DEF RowsInv
<1>3. pc[r] \in Labels /\ served[r] \in 0 .. Requests
  BY DEF Counters
<1>4. r \in summaries' => \A i \in Ids : <<r, i>> \in rows'
  <2>1. CASE pc[r] = "summary"
    <3>1. \A i \in Ids : <<r, i>> \in rows
      BY <1>0, <1>2, <2>1 DEF RunRows, Counters, Between, Reporting
    <3> QED
      BY <3>1, StepFrame
  <2>2. CASE pc[r] # "summary"
    BY <1>2, <2>2, StepFrame DEF RunRows
  <2> QED
    BY <2>1, <2>2
<1>5. /\ \A i \in 1 .. served'[r] - 1 : <<r, i>> \in rows'
      /\ pc'[r] \in Between => \A i \in 1 .. served'[r] : <<r, i>> \in rows'
  <2> USE DEF Goto, Raises, inner, stores, Between, Counters
  <2>1. CASE Execute(r)
    <3>1. /\ served'[r] = served[r] + 1 /\ pc'[r] = "emit" /\ rows' = rows
          /\ pc[r] = "execute"
      BY <2>1 DEF Execute
    <3> QED
      BY <1>2, <1>3, <3>1 DEF RunRows
  <2>2. CASE WriteResult(r)
    <3>1. /\ served'[r] = served[r] /\ rows' = rows \cup {<<r, served[r]>>}
      BY <2>2 DEF WriteResult, Inserted
    <3> QED
      BY <1>2, <1>3, <3>1 DEF RunRows
  <2>3. CASE EnsureTables(r)
    <3>1. served'[r] = 0
      BY <2>3 DEF EnsureTables, Constructing
    <3> QED
      BY <3>1
  <2>4. CASE ~ (Execute(r) \/ WriteResult(r) \/ EnsureTables(r))
    <3>1. served'[r] = served[r] /\ rows \subseteq rows'
      BY <2>4, StepFrame
         DEF Step,
         OpenDecisionLog, CheckLogs, CreateLogs, OpenAzure, EnsureTables,
         NoteSubmission, Execute, ExecuteRaises, EmitDecision, EmitResult,
         RecordResult, WriteDecision, WriteDecisionRaises, WriteResult,
         WriteResultRaises, WriteSummary, CheckCsv, OpenCsv, WriteCsv,
         WritePostgresSummary, WritePostgresSummaryRaises
    <3>2. pc'[r] \in Between => pc[r] \in Between
      BY <2>4
         DEF Step,
         OpenDecisionLog, CheckLogs, CreateLogs, OpenAzure, EnsureTables,
         NoteSubmission, Execute, ExecuteRaises, EmitDecision, EmitResult,
         RecordResult, WriteDecision, WriteDecisionRaises, WriteResult,
         WriteResultRaises, WriteSummary, CheckCsv, OpenCsv, WriteCsv,
         WritePostgresSummary, WritePostgresSummaryRaises
    <3> QED
      BY <1>2, <3>1, <3>2 DEF RunRows
  <2> QED
    BY <2>1, <2>2, <2>3, <2>4
<1>6. RunRows(r)'
  BY <1>4, <1>5 DEF RunRows
<1> QED
  BY <1>1, <1>6

\* Every row of a result but the last is in Postgres before the next request
\* of its run is served, and a stored summary is that of a run all of whose
\* rows are there, for any number of runs, in parallel or not, and whatever
\* calls fail.
THEOREM RowsAreGapless == Spec => []RowsGapless
<1>1. Init => Counters /\ RowsInv
  BY SinksAssumption DEF Init, Counters, RowsInv, RunRows, Labels, Between, Constructing, Writing, Reporting
<1>2. Counters /\ RowsInv /\ [Next]_vars => (Counters /\ RowsInv)'
  <2> SUFFICES ASSUME Counters, RowsInv, [Next]_vars PROVE Counters' /\ RowsInv'
    OBVIOUS
  <2>1. ASSUME NEW r \in Runs, Step(r) PROVE Counters' /\ RowsInv'
    BY <2>1, CountersStep, RowsStep DEF RowsInv
  <2>2. CASE UNCHANGED vars
    BY <2>2 DEF vars, inner, stores, Counters, RowsInv, RunRows
  <2> QED
    BY <2>1, <2>2 DEF Next
<1>3. Counters /\ RowsInv => RowsGapless
  BY DEF RowsInv, RunRows, RowsGapless, Counters
<1> QED
  BY <1>1, <1>2, <1>3, PTL DEF Spec

-----------------------------------------------------------------------------
(* Who runs. *)

Running(r) == pc[r] \notin Ended \cup {"new"}

\* The counters are right in every state.
LEMMA AlwaysCounted == Spec => []Counters
<1>1. Init => Counters
  BY SinksAssumption DEF Init, Counters, Labels, Between, Constructing, Writing, Reporting
<1>2. Counters /\ [Next]_vars => Counters'
  <2> SUFFICES ASSUME Counters, [Next]_vars PROVE Counters'
    OBVIOUS
  <2>1. CASE UNCHANGED vars
    BY <2>1 DEF vars, inner, stores, Counters
  <2> QED  BY <2>1, CountersStep DEF Next
<1> QED  BY <1>1, <1>2, PTL DEF Spec

\* A step is of a run that is running, or starts it.
LEMMA StepOf ==
    ASSUME Counters, NEW r \in Runs, Step(r)
    PROVE  /\ sweep' = sweep
           /\ Running(r) \/ (pc[r] = "new" /\ OpenDecisionLog(r))
           /\ pc'[r] # "new"
           /\ \A q \in Runs : q # r => /\ pc'[q] = pc[q] /\ served'[q] = served[q]
                                       /\ header'[q] = header[q]
<1> USE DEF Step, Goto, Raises, inner, stores, Counters, Ended
<1>1. sweep' = sweep
  BY DEF OpenDecisionLog, CheckLogs, CreateLogs, OpenAzure, EnsureTables,
         NoteSubmission, Execute, ExecuteRaises, EmitDecision, EmitResult,
         RecordResult, WriteDecision, WriteDecisionRaises, WriteResult,
         WriteResultRaises, WriteSummary, CheckCsv, OpenCsv, WriteCsv,
         WritePostgresSummary, WritePostgresSummaryRaises
<1>2. Running(r) \/ (pc[r] = "new" /\ OpenDecisionLog(r))
  BY DEF Running, OpenDecisionLog, CheckLogs, CreateLogs, OpenAzure, EnsureTables,
         NoteSubmission, Execute, ExecuteRaises, EmitDecision, EmitResult,
         RecordResult, WriteDecision, WriteDecisionRaises, WriteResult,
         WriteResultRaises, WriteSummary, CheckCsv, OpenCsv, WriteCsv,
         WritePostgresSummary, WritePostgresSummaryRaises
<1>3. pc'[r] # "new" /\ \A q \in Runs : q # r => pc'[q] = pc[q] /\ served'[q] = served[q]
  BY DEF OpenDecisionLog, CheckLogs, CreateLogs, OpenAzure, EnsureTables,
         NoteSubmission, Execute, ExecuteRaises, EmitDecision, EmitResult,
         RecordResult, WriteDecision, WriteDecisionRaises, WriteResult,
         WriteResultRaises, WriteSummary, CheckCsv, OpenCsv, WriteCsv,
         WritePostgresSummary, WritePostgresSummaryRaises
<1>4. header' = header \/ \E v : header' = [header EXCEPT ![r] = v]
  BY DEF OpenDecisionLog, CheckLogs, CreateLogs, OpenAzure, EnsureTables,
         NoteSubmission, Execute, ExecuteRaises, EmitDecision, EmitResult,
         RecordResult, WriteDecision, WriteDecisionRaises, WriteResult,
         WriteResultRaises, WriteSummary, CheckCsv, OpenCsv, WriteCsv,
         WritePostgresSummary, WritePostgresSummaryRaises
<1>5. \A q \in Runs : q # r => header'[q] = header[q]
  BY <1>4
<1> QED  BY <1>1, <1>2, <1>3, <1>5

\* Runs start in the order of their numbers, and a sequential sweep makes one
\* at a time.
InTurn ==
    /\ \A q, r \in Runs : q < r /\ pc[q] = "new" => pc[r] = "new"
    /\ sweep.workers = 1 => \A q, r \in Runs : Running(q) /\ Running(r) => q = r

LEMMA OpensAlone ==
    ASSUME NEW r \in Runs, OpenDecisionLog(r), sweep.workers = 1, NEW q \in Runs
    PROVE  ~Running(q)
<1> DEFINE A == {s \in Runs : pc[s] \notin Ended \cup {"new"}}
<1> SUFFICES ASSUME Running(q) PROVE FALSE
  OBVIOUS
<1>1. IsFiniteSet(A) /\ q \in A
  BY SinksAssumption, FS_Subset DEF Running
<1>2. Cardinality(A) < 1
  BY DEF OpenDecisionLog
<1> HIDE DEF A
<1>3. Cardinality(A) \in Nat /\ Cardinality(A) # 0
  BY <1>1, FS_CardinalityType, FS_EmptySet
<1> QED  BY <1>2, <1>3

\* In a sequential sweep, whoever runs after a step has made it.
LEMMA AloneAtWork ==
    ASSUME Counters, InTurn, sweep.workers = 1, NEW r \in Runs, Step(r), NEW q \in Runs,
           Running(q)'
    PROVE  q = r
<1> SUFFICES ASSUME q # r PROVE FALSE
  OBVIOUS
<1>1. Running(q)
  BY StepOf DEF Running
<1> QED  BY <1>1, StepOf, OpensAlone DEF InTurn

LEMMA AlwaysInTurn == Spec => []InTurn
<1>1. Init => InTurn
  BY DEF Init, InTurn, Running, Ended
<1>2. Counters /\ InTurn /\ [Next]_vars => InTurn'
  <2> SUFFICES ASSUME Counters, InTurn, [Next]_vars PROVE InTurn'
    OBVIOUS
  <2>1. CASE UNCHANGED vars
    BY <2>1 DEF vars, inner, InTurn, Running
  <2>2. ASSUME NEW r \in Runs, Step(r) PROVE InTurn'
    <3>1. /\ sweep' = sweep /\ pc'[r] # "new"
          /\ \A q \in Runs : q # r => pc'[q] = pc[q]
      BY <2>2, StepOf
    <3>2. CASE Running(r)
      BY <3>1, <3>2 DEF InTurn, Running
    <3>3. CASE pc[r] = "new" /\ OpenDecisionLog(r)
      <4>1. \A q \in Runs : q < r => pc[q] # "new"
        BY <3>3 DEF OpenDecisionLog
      <4>2. sweep.workers = 1 => \A q \in Runs : ~Running(q)
        BY <3>3, OpensAlone
      <4>3. \A q, s \in Runs : q < s /\ pc'[q] = "new" => pc'[s] = "new"
        <5>1. \A q \in Runs : q \in Nat
          BY SinksAssumption
        <5> QED  BY <3>1, <3>3, <4>1, <5>1 DEF InTurn
      <4>4. sweep.workers = 1 => \A q, s \in Runs : Running(q)' /\ Running(s)' => q = s
        BY <3>1, <4>2 DEF Running
      <4> QED  BY <3>1, <4>3, <4>4 DEF InTurn
    <3> QED  BY <2>2, <3>2, <3>3, StepOf
  <2> QED  BY <2>1, <2>2 DEF Next
<1> QED  BY <1>1, <1>2, AlwaysCounted, PTL DEF Spec

-----------------------------------------------------------------------------
(* Logs. *)

\* What a log records of a run when a line is appended.
LEMMA RecordsAppend ==
    ASSUME NEW log \in Seq(Line), NEW r \in Runs, NEW n \in Nat, Records(log, r, n)
    PROVE  /\ n + 1 \in Ids => Records(Append(log, <<r, n + 1>>), r, n + 1)
           /\ \A q \in Runs : \A m \in Ids : q # r => Records(Append(log, <<q, m>>), r, n)
<1> DEFINE Of(l) == {line \in {l[j] : j \in DOMAIN l} : line[1] = r}
<1>1. /\ Of(log) = {r} \X (1 .. n)
      /\ \A i, j \in DOMAIN log : i < j /\ log[i][1] = r /\ log[j][1] = r => log[i][2] < log[j][2]
  BY DEF Records
<1>2. \A j \in DOMAIN log : log[j] \in Line /\ j \in 1 .. Len(log)
  OBVIOUS
<1>3. Len(log) \in Nat /\ DOMAIN log = 1 .. Len(log)
  OBVIOUS
<1>4. ASSUME NEW x \in Line
      PROVE  /\ DOMAIN Append(log, x) = 1 .. Len(log) + 1
             /\ Append(log, x)[Len(log) + 1] = x
             /\ \A j \in 1 .. Len(log) : Append(log, x)[j] = log[j]
  BY <1>4
<1>5. ASSUME NEW x \in Line
      PROVE  Of(Append(log, x)) = IF x[1] = r THEN Of(log) \cup {x} ELSE Of(log)
  <2> DEFINE l == Append(log, x)
  <2>1. \A y : (\E j \in DOMAIN l : y = l[j]) <=> (y = x \/ \E j \in DOMAIN log : y = log[j])
    BY <1>3, <1>4, <1>5
  <2> HIDE DEF l
  <2>2. Of(l) = IF x[1] = r THEN Of(log) \cup {x} ELSE Of(log)
    BY <2>1
  <2> QED  BY <2>2 DEF l
<1>6. ASSUME n + 1 \in Ids
      PROVE  Records(Append(log, <<r, n + 1>>), r, n + 1)
  <2> DEFINE x == <<r, n + 1>>
  <2>1. x \in Line /\ x[1] = r /\ x[2] = n + 1
    BY <1>6 DEF Line
  <2>2. Of(Append(log, x)) = {r} \X (1 .. n + 1)
    <3>1. Of(Append(log, x)) = ({r} \X (1 .. n)) \cup {x}
      BY <1>1, <1>5, <2>1
    <3>2. ({r} \X (1 .. n)) \cup {x} = {r} \X (1 .. n + 1)
      OBVIOUS
    <3> QED  BY <3>1, <3>2
  <2>3. \A j \in DOMAIN log : log[j][1] = r => log[j][2] \in 1 .. n
    <3>1. \A y \in Of(log) : y[2] \in 1 .. n
      BY <1>1
    <3> QED  BY <3>1
  <2>4. ASSUME NEW i \in 1 .. Len(log) + 1, NEW j \in 1 .. Len(log) + 1, i < j,
               Append(log, x)[i][1] = r, Append(log, x)[j][1] = r
        PROVE  Append(log, x)[i][2] < Append(log, x)[j][2]
    <3>1. i \in DOMAIN log /\ Append(log, x)[i] = log[i]
      BY <1>3, <1>4, <2>1, <2>4
    <3>2. CASE j \in DOMAIN log
      <4>1. Append(log, x)[j] = log[j]
        BY <1>3, <1>4, <2>1, <3>2
      <4> QED  BY <1>1, <2>4, <3>1, <3>2, <4>1
    <3>3. CASE j = Len(log) + 1
      <4>1. Append(log, x)[j] = x /\ log[i][2] \in 1 .. n
        BY <1>4, <2>1, <2>3, <2>4, <3>1, <3>3
      <4> QED  BY <2>1, <3>1, <4>1
    <3> QED  BY <1>3, <2>4, <3>2, <3>3
  <2>5. DOMAIN Append(log, x) = 1 .. Len(log) + 1
    BY <1>4, <2>1
  <2> HIDE DEF x
  <2>6. Records(Append(log, x), r, n + 1)
    BY <2>2, <2>4, <2>5 DEF Records
  <2> QED  BY <2>6 DEF x
<1>7. ASSUME NEW q \in Runs, NEW m \in Ids, q # r
      PROVE  Records(Append(log, <<q, m>>), r, n)
  <2> DEFINE x == <<q, m>>
  <2>1. x \in Line /\ x[1] # r
    BY <1>7 DEF Line
  <2> HIDE DEF x
  <2>2. Of(Append(log, x)) = {r} \X (1 .. n)
    BY <1>1, <1>5, <2>1
  <2>3. ASSUME NEW i \in 1 .. Len(log) + 1, NEW j \in 1 .. Len(log) + 1, i < j,
               Append(log, x)[i][1] = r, Append(log, x)[j][1] = r
        PROVE  Append(log, x)[i][2] < Append(log, x)[j][2]
    <3>1. i # Len(log) + 1 /\ j # Len(log) + 1
      BY <1>4, <2>1, <2>3
    <3>2. i \in DOMAIN log /\ j \in DOMAIN log
      BY <1>3, <2>3, <3>1
    <3>3. Append(log, x)[i] = log[i] /\ Append(log, x)[j] = log[j]
      BY <1>3, <1>4, <2>1, <3>2
    <3> QED  BY <1>1, <2>3, <3>2, <3>3
  <2>4. DOMAIN Append(log, x) = 1 .. Len(log) + 1
    BY <1>4, <2>1
  <2>5. Records(Append(log, x), r, n)
    BY <2>2, <2>3, <2>4 DEF Records
  <2> QED  BY <2>5 DEF x
<1> QED  BY <1>6, <1>7

LEMMA RecordsNone == \A r : Records(<<>>, r, 0)
<1>1. DOMAIN <<>> = {} /\ 1 .. 0 = {}
  OBVIOUS
<1> QED  BY <1>1 DEF Records

\* The lines of the fanout log; none before it is created.
FanoutLines == IF fanout = <<>> THEN <<>> ELSE Head(fanout)

Logs == decisionLog \in Seq(Line) /\ FanoutLines \in Seq(Line)

LEMMA LineType ==
    ASSUME Counters, NEW r \in Runs, pc[r] \in Writing
    PROVE  /\ served[r] \in Ids /\ <<r, served[r]>> \in Line
           /\ served[r] \in Nat /\ served[r] - 1 \in Nat /\ (served[r] - 1) + 1 = served[r]
<1>1. served[r] \in 0 .. Requests /\ served[r] # 0 /\ Requests \in Nat
  BY SinksAssumption DEF Counters
<1>2. served[r] \in Ids
  BY <1>1 DEF Ids
<1> QED  BY <1>1, <1>2 DEF Line

\* What a step writes to the logs.
LEMMA StepLogs ==
    ASSUME Counters, Logs, NEW r \in Runs, Step(r)
    PROVE  /\ \/ UNCHANGED decisionLog
              \/ OpenDecisionLog(r) /\ decisionLog' = <<>>
              \/ EmitDecision(r) /\ decisionLog' = Append(decisionLog, <<r, served[r]>>)
           /\ \/ ~EmitResult(r) /\ UNCHANGED fanout
              \/ CreateLogs(r) /\ fanout' # <<>> /\ FanoutLines' = <<>>
              \/ /\ EmitResult(r) /\ fanout' # <<>>
                 /\ FanoutLines' = Append(FanoutLines, <<r, served[r]>>)
<1>1. \/ UNCHANGED decisionLog
      \/ OpenDecisionLog(r) /\ decisionLog' = <<>>
      \/ EmitDecision(r) /\ decisionLog' = Append(decisionLog, <<r, served[r]>>)
  BY DEF Step, files, Logged, OpenDecisionLog, CheckLogs, CreateLogs, OpenAzure, EnsureTables,
         NoteSubmission, Execute, ExecuteRaises, EmitDecision, EmitResult,
         RecordResult, WriteDecision, WriteDecisionRaises, WriteResult,
         WriteResultRaises, WriteSummary, CheckCsv, OpenCsv, WriteCsv,
         WritePostgresSummary, WritePostgresSummaryRaises
<1>2. UNCHANGED fanout \/ CreateLogs(r) \/ EmitResult(r)
  BY DEF Step, files, OpenDecisionLog, CheckLogs, CreateLogs, OpenAzure, EnsureTables,
         NoteSubmission, Execute, ExecuteRaises, EmitDecision, EmitResult,
         RecordResult, WriteDecision, WriteDecisionRaises, WriteResult,
         WriteResultRaises, WriteSummary, CheckCsv, OpenCsv, WriteCsv,
         WritePostgresSummary, WritePostgresSummaryRaises
<1>3. \A l : <<l>> # <<>> /\ Head(<<l>>) = l
  OBVIOUS
<1>4. CASE CreateLogs(r)
  BY <1>1, <1>3, <1>4 DEF CreateLogs, EmitResult, Goto, FanoutLines
<1>5. CASE EmitResult(r)
  <2> DEFINE x == <<r, served[r]>>
  <2>1. pc[r] \in Writing
    BY <1>5 DEF EmitResult, Goto, Writing
  <2>2. x \in Line
    BY <2>1, LineType
  <2> HIDE DEF x
  <2>3. FanoutLines \o <<x>> = Append(FanoutLines, x) /\ <<>> \o <<x>> = <<x>>
    BY <2>2 DEF Logs
  <2>4. fanout' = <<IF fanout = <<>> THEN <<x>> ELSE Head(fanout) \o <<x>> >>
    BY <1>5 DEF EmitResult, Appended, x
  <2>5. fanout' = <<FanoutLines \o <<x>> >>
    BY <2>3, <2>4 DEF FanoutLines
  <2>6. fanout' # <<>> /\ FanoutLines' = FanoutLines \o <<x>>
    BY <1>3, <2>5 DEF FanoutLines
  <2> QED  BY <1>1, <1>5, <2>3, <2>6 DEF x
<1> QED  BY <1>1, <1>2, <1>4, <1>5

LEMMA AlwaysLogs == Spec => []Logs
<1>1. Init => Logs
  <2> SUFFICES ASSUME Init PROVE Logs
    OBVIOUS
  <2>1. FanoutLines = <<>> /\ decisionLog = <<>>
    BY DEF Init, FanoutLines
  <2> QED  BY <2>1 DEF Logs
<1>2. Counters /\ Logs /\ [Next]_vars => Logs'
  <2> SUFFICES ASSUME Counters, Logs, [Next]_vars PROVE Logs'
    OBVIOUS
  <2>1. CASE UNCHANGED vars
    BY <2>1 DEF vars, files, Logs, FanoutLines
  <2>2. ASSUME NEW r \in Runs, Step(r) PROVE Logs'
    <3>1. pc[r] \in Writing => <<r, served[r]>> \in Line
      BY LineType
    <3>2. EmitDecision(r) \/ EmitResult(r) => pc[r] \in Writing
      BY DEF EmitDecision, EmitResult, Goto, Writing
    <3>3. decisionLog' \in Seq(Line)
      <4>1. CASE EmitDecision(r) /\ decisionLog' = Append(decisionLog, <<r, served[r]>>)
        <5> DEFINE x == <<r, served[r]>>
        <5>1. x \in Line /\ decisionLog' = Append(decisionLog, x) /\ decisionLog \in Seq(Line)
          BY <3>1, <3>2, <4>1 DEF Logs
        <5> HIDE DEF x
        <5> QED  BY <5>1
      <4>2. CASE decisionLog' = decisionLog \/ decisionLog' = <<>>
        <5>1. <<>> \in Seq(Line)
          OBVIOUS
        <5> QED  BY <4>2, <5>1 DEF Logs
      <4> QED  BY <2>2, <4>1, <4>2, StepLogs
    <3>4. CASE UNCHANGED fanout
      BY <3>3, <3>4 DEF Logs, FanoutLines
    <3>5. CASE FanoutLines' = <<>>
      BY <3>3, <3>5 DEF Logs
    <3>6. CASE EmitResult(r) /\ FanoutLines' = Append(FanoutLines, <<r, served[r]>>)
      BY <3>1, <3>2, <3>3, <3>6 DEF Logs
    <3> QED  BY <2>2, <3>4, <3>5, <3>6, StepLogs
  <2> QED  BY <2>1, <2>2 DEF Next
<1> QED  BY <1>1, <1>2, AlwaysCounted, PTL DEF Spec

\* How the requests recorded and written move on.
LEMMA StepServed ==
    ASSUME Counters, NEW r \in Runs, Step(r)
    PROVE  \/ /\ served'[r] = served[r] + 1 /\ pc[r] = "execute" /\ pc'[r] = "emit"
              /\ ~EmitDecision(r) /\ ~EmitResult(r) /\ ~OpenDecisionLog(r) /\ ~CreateLogs(r)
           \/ served'[r] = served[r] /\ EmitDecision(r) /\ pc[r] = "emit" /\ pc'[r] = "fanout"
           \/ served'[r] = served[r] /\ EmitResult(r) /\ pc[r] = "fanout" /\ pc'[r] = "monitor"
           \/ /\ served'[r] = served[r] /\ pc[r] \notin {"emit", "fanout"}
              /\ pc'[r] \notin {"emit", "fanout"}
              /\ ~EmitDecision(r) /\ ~EmitResult(r)
<1> USE DEF Counters, Goto, Raises, inner
<1>1. CASE Execute(r)
  BY <1>1 DEF Execute, EmitDecision, EmitResult, OpenDecisionLog, CreateLogs
<1>2. CASE EmitDecision(r) \/ EmitResult(r)
  BY <1>2 DEF EmitDecision, EmitResult
<1>3. CASE ~(Execute(r) \/ EmitDecision(r) \/ EmitResult(r))
  BY <1>3 DEF Step, OpenDecisionLog, CheckLogs, CreateLogs, OpenAzure, EnsureTables,
         NoteSubmission, ExecuteRaises,
         RecordResult, WriteDecision, WriteDecisionRaises, WriteResult,
         WriteResultRaises, WriteSummary, CheckCsv, OpenCsv, WriteCsv,
         WritePostgresSummary, WritePostgresSummaryRaises
<1> QED  BY <1>1, <1>2, <1>3

\* The strengthening of TraceComplete: a file that is about to be created is
\* not there, and none is created where logs are left of an earlier sweep.
CreatedIsMissing ==
    /\ sweep.logs => fanout # <<>> /\ \A r \in Runs : pc[r] # "create_logs"
    /\ sweep.workers = 1 => \A r \in Runs : pc[r] = "create_logs" => fanout = <<>>

LEMMA AlwaysCreatedIsMissing == Spec => []CreatedIsMissing
<1>1. Init => CreatedIsMissing
  <2>1. << <<>> >> # <<>>
    OBVIOUS
  <2> QED  BY <2>1 DEF Init, CreatedIsMissing
<1>2. Counters /\ Logs /\ InTurn /\ CreatedIsMissing /\ [Next]_vars => CreatedIsMissing'
  <2> SUFFICES ASSUME Counters, Logs, InTurn, CreatedIsMissing, [Next]_vars
               PROVE  CreatedIsMissing'
    OBVIOUS
  <2>1. CASE UNCHANGED vars
    BY <2>1 DEF vars, inner, files, CreatedIsMissing
  <2>2. ASSUME NEW r \in Runs, Step(r) PROVE CreatedIsMissing'
    <3>1. sweep' = sweep /\ \A q \in Runs : q # r => pc'[q] = pc[q]
      BY <2>2, StepOf
    <3>2. fanout' = fanout \/ (fanout' # <<>> /\ Running(r))
      BY <2>2, StepLogs DEF CreateLogs, EmitResult, Goto, Running, Ended
    <3>3. pc'[r] = "create_logs" => Running(r) /\ fanout = <<>> /\ UNCHANGED fanout
      <4> SUFFICES ASSUME pc'[r] = "create_logs"
                   PROVE  Running(r) /\ fanout = <<>> /\ UNCHANGED fanout
        OBVIOUS
      <4>1. CheckLogs(r)
        BY <2>2 DEF Counters, Step, Goto, Raises, OpenDecisionLog, CheckLogs, CreateLogs,
         OpenAzure, EnsureTables,
         NoteSubmission, Execute, ExecuteRaises, EmitDecision, EmitResult,
         RecordResult, WriteDecision, WriteDecisionRaises, WriteResult,
         WriteResultRaises, WriteSummary, CheckCsv, OpenCsv, WriteCsv,
         WritePostgresSummary, WritePostgresSummaryRaises
      <4> QED  BY <4>1 DEF CheckLogs, Goto, Exists, files, Running, Ended, Counters
    <3>4. sweep.workers = 1 /\ Running(r) => \A q \in Runs : q # r => pc[q] # "create_logs"
      BY DEF InTurn, Running, Ended
    <3> QED  BY <3>1, <3>2, <3>3, <3>4 DEF CreatedIsMissing
  <2> QED  BY <2>1, <2>2 DEF Next
<1> QED  BY <1>1, <1>2, AlwaysCounted, AlwaysLogs, AlwaysInTurn, PTL DEF Spec

\* The fanout logs lose no line and change no order, for any number of runs,
\* one after the other or in parallel on logs that are already there.
THEOREM TraceIsComplete == Spec => []TraceComplete
<1> DEFINE Count(q) == served[q] - IF pc[q] \in {"emit", "fanout"} THEN 1 ELSE 0
           Inv == sweep.workers = 1 \/ sweep.logs =>
                    \A q \in Runs : Records(FanoutLines, q, Count(q))
<1>1. Init => Inv
  <2> SUFFICES ASSUME Init PROVE \A q \in Runs : Records(FanoutLines, q, Count(q))
    OBVIOUS
  <2>1. FanoutLines = <<>> /\ \A q \in Runs : Count(q) = 0
    BY DEF Init, FanoutLines
  <2> HIDE DEF Count
  <2> QED  BY <2>1, RecordsNone
<1>2. Counters /\ Logs /\ CreatedIsMissing /\ Inv /\ [Next]_vars => Inv'
  <2> SUFFICES ASSUME Counters, Logs, CreatedIsMissing, Inv, [Next]_vars PROVE Inv'
    OBVIOUS
  <2>1. CASE UNCHANGED vars
    BY <2>1 DEF vars, inner, files, FanoutLines
  <2>2. ASSUME NEW r \in Runs, Step(r), sweep.workers = 1 \/ sweep.logs, NEW q \in Runs
        PROVE  Records(FanoutLines', q, Count(q)')
    <3>1. FanoutLines \in Seq(Line) /\ Records(FanoutLines, q, Count(q))
      BY <2>2 DEF Logs
    <3>2. Count(q) \in Nat
      <4>1. CASE pc[q] \in {"emit", "fanout"}
        BY <2>2, <4>1, LineType DEF Writing
      <4>2. CASE pc[q] \notin {"emit", "fanout"}
        BY <2>2, <4>2, SinksAssumption DEF Counters
      <4> QED  BY <4>1, <4>2
    <3>3. CASE EmitResult(r)
      <4>1. pc[r] = "fanout" /\ pc'[r] = "monitor" /\ served'[r] = served[r]
        BY <2>2, <3>3, StepServed DEF EmitResult, Goto, EmitDecision, OpenDecisionLog, CreateLogs
      <4>2. FanoutLines' = Append(FanoutLines, <<r, served[r]>>)
        BY <2>2, <3>3, <4>1, StepLogs DEF EmitResult, CreateLogs, Goto
      <4>3. served[r] \in Ids /\ served[r] \in Nat /\ (served[r] - 1) + 1 = served[r]
        BY <4>1, LineType DEF Writing
      <4>4. CASE q = r
        <5>1. Count(q) = served[r] - 1 /\ Count(q)' = served[r]
          BY <4>1, <4>3, <4>4
        <5>2. served[r] = Count(q) + 1
          BY <4>3, <5>1
        <5> HIDE DEF Count
        <5> QED  BY <2>2, <3>1, <3>2, <4>2, <4>3, <4>4, <5>1, <5>2, RecordsAppend
      <4>5. CASE q # r
        <5>1. Count(q)' = Count(q)
          BY <2>2, <4>5, StepOf
        <5> HIDE DEF Count
        <5> QED  BY <2>2, <3>1, <3>2, <4>2, <4>3, <4>5, <5>1, RecordsAppend
      <4> QED  BY <4>4, <4>5
    <3>4. CASE ~EmitResult(r)
      <4>1. FanoutLines' = FanoutLines
        <5>1. CASE UNCHANGED fanout
          BY <5>1 DEF FanoutLines
        <5>2. CASE CreateLogs(r) /\ FanoutLines' = <<>>
          <6>1. pc[r] = "create_logs"
            BY <5>2 DEF CreateLogs, Goto
          <6>2. fanout = <<>>
            BY <2>2, <6>1 DEF CreatedIsMissing
          <6> QED  BY <5>2, <6>2 DEF FanoutLines
        <5> QED  BY <2>2, <3>4, <5>1, <5>2, StepLogs
      <4>2. Count(q)' = Count(q)
        <5>1. CASE q # r
          BY <2>2, <5>1, StepOf
        <5>2. CASE q = r
          <6>1. served[r] \in Nat
            BY SinksAssumption DEF Counters
          <6> QED  BY <2>2, <3>4, <5>2, <6>1, StepServed
        <5> QED  BY <5>1, <5>2
      <4> HIDE DEF Count
      <4> QED  BY <3>1, <4>1, <4>2
    <3> QED  BY <3>3, <3>4
  <2>3. ASSUME NEW r \in Runs, Step(r) PROVE Inv'
    <3>1. sweep' = sweep
      BY <2>3, StepOf
    <3> HIDE DEF Count
    <3> QED  BY <2>2, <2>3, <3>1
  <2> HIDE DEF Inv
  <2> QED  BY <2>1, <2>3 DEF Next
<1>3. Inv => TraceComplete
  BY DEF TraceComplete, EveryRequestTraced, FanoutLines
<1> QED  BY <1>1, <1>2, <1>3, AlwaysCounted, AlwaysLogs, AlwaysCreatedIsMissing, PTL DEF Spec

\* The strengthening of DecisionLogComplete: the log records the run that was
\* started last and every run that no later one has followed.
LatestLogged ==
    \A r \in Runs : pc[r] # "new" /\ (\A q \in Runs : q > r => pc[q] = "new") =>
        Records(decisionLog, r, served[r] - IF pc[r] = "emit" THEN 1 ELSE 0)

LEMMA AlwaysLatestLogged == Spec => []LatestLogged
<1> DEFINE Count(r) == served[r] - IF pc[r] = "emit" THEN 1 ELSE 0
<1>1. Init => LatestLogged
  BY DEF Init, LatestLogged
<1>2. Counters /\ Logs /\ InTurn /\ LatestLogged /\ [Next]_vars => LatestLogged'
  <2> SUFFICES ASSUME Counters, Logs, InTurn, LatestLogged, [Next]_vars PROVE LatestLogged'
    OBVIOUS
  <2>1. CASE UNCHANGED vars
    BY <2>1 DEF vars, inner, files, LatestLogged
  <2>2. ASSUME NEW r \in Runs, Step(r), NEW q \in Runs, pc'[q] # "new",
               \A s \in Runs : s > q => pc'[s] = "new"
        PROVE  Records(decisionLog', q, Count(q)')
    <3>1. /\ pc'[r] # "new" /\ (Running(r) \/ OpenDecisionLog(r))
          /\ \A s \in Runs : s # r => pc'[s] = pc[s] /\ served'[s] = served[s]
      BY <2>2, StepOf
    <3>2. CASE OpenDecisionLog(r)
      <4>1. /\ pc[r] = "new" /\ pc'[r] = "check_logs" /\ decisionLog' = <<>>
            /\ \A s \in Runs : s < r => pc[s] # "new"
        BY <3>2 DEF OpenDecisionLog, Goto, Counters
      <4>2. \A s \in Runs : s \in Nat
        BY SinksAssumption
      <4>3. q = r
        <5>1. ~(r > q)
          BY <2>2, <4>1
        <5>2. ~(r < q)
          BY <2>2, <3>1, <4>1, <4>2 DEF InTurn
        <5> QED  BY <4>2, <5>1, <5>2
      <4>4. served[r] = 0 /\ served'[r] = served[r]
        BY <3>2, <4>1 DEF OpenDecisionLog, inner, Counters, Constructing
      <4>5. served'[q] = 0 /\ pc'[q] = "check_logs"
        BY <4>1, <4>3, <4>4
      <4>6. Count(q)' = 0
        BY <4>5
      <4> HIDE DEF Count
      <4> QED  BY <4>1, <4>6, RecordsNone
    <3>3. CASE ~OpenDecisionLog(r)
      <4>1. pc[q] # "new" /\ \A s \in Runs : s > q => pc[s] = "new"
        BY <2>2, <3>1, <3>3 DEF Running
      <4>2. Records(decisionLog, q, Count(q)) /\ decisionLog \in Seq(Line)
        BY <4>1 DEF LatestLogged, Logs
      <4>3. Count(q) \in Nat
        <5>1. CASE pc[q] = "emit"
          BY <5>1, LineType DEF Writing
        <5>2. CASE pc[q] # "emit"
          BY <5>2, SinksAssumption DEF Counters
        <5> QED  BY <5>1, <5>2
      <4>4. CASE EmitDecision(r)
        <5>1. pc[r] = "emit" /\ pc'[r] = "fanout" /\ served'[r] = served[r]
          BY <4>4 DEF EmitDecision, Goto, inner, Counters
        <5>2. decisionLog' = Append(decisionLog, <<r, served[r]>>)
          BY <4>4 DEF EmitDecision, Logged
        <5>3. served[r] \in Ids /\ served[r] \in Nat /\ (served[r] - 1) + 1 = served[r]
          BY <5>1, LineType DEF Writing
        <5>4. CASE q = r
          <6>1. Count(q) = served[r] - 1 /\ Count(q)' = served[r]
            BY <5>1, <5>3, <5>4
          <6>2. served[r] = Count(q) + 1
            BY <5>3, <6>1
          <6> HIDE DEF Count
          <6> QED  BY <2>2, <4>2, <4>3, <5>2, <5>3, <5>4, <6>1, <6>2, RecordsAppend
        <5>5. CASE q # r
          <6>1. Count(q)' = Count(q)
            BY <3>1, <5>5
          <6> HIDE DEF Count
          <6> QED  BY <2>2, <4>2, <4>3, <5>2, <5>3, <5>5, <6>1, RecordsAppend
        <5> QED  BY <5>4, <5>5
      <4>5. CASE ~EmitDecision(r)
        <5>1. decisionLog' = decisionLog
          BY <2>2, <3>3, <4>5, StepLogs
        <5>2. Count(q)' = Count(q)
          <6>1. CASE q # r
            BY <3>1, <6>1
          <6>2. CASE q = r
            <7>1. served[r] \in Nat
              BY SinksAssumption DEF Counters
            <7> QED  BY <2>2, <4>5, <6>2, <7>1, StepServed
          <6> QED  BY <6>1, <6>2
        <5> HIDE DEF Count
        <5> QED  BY <4>2, <5>1, <5>2
      <4> QED  BY <4>4, <4>5
    <3> QED  BY <3>2, <3>3
  <2> QED  BY <2>1, <2>2 DEF Next, LatestLogged
<1> QED  BY <1>1, <1>2, AlwaysCounted, AlwaysLogs, AlwaysInTurn, PTL DEF Spec

\* A run returns from its last step only.
LEMMA ReturnsFromSummary ==
    ASSUME Counters, [Next]_vars, NEW r \in Runs, Returns(r)
    PROVE  pc[r] = "summary" /\ served[r] = Requests
<1>1. PICK q \in Runs : Step(q)
  BY DEF Returns, vars, Next
<1>2. q = r
  BY <1>1, StepOf DEF Returns
<1>3. pc[r] = "summary"
  BY <1>1, <1>2 DEF Returns, Counters, Step, Goto, Raises, OpenDecisionLog, CheckLogs, CreateLogs,
         OpenAzure, EnsureTables,
         NoteSubmission, Execute, ExecuteRaises, EmitDecision, EmitResult,
         RecordResult, WriteDecision, WriteDecisionRaises, WriteResult,
         WriteResultRaises, WriteSummary, CheckCsv, OpenCsv, WriteCsv,
         WritePostgresSummary, WritePostgresSummaryRaises
<1> QED  BY <1>3 DEF Counters, Reporting

\* A run that returns before a later one of the sweep starts leaves a decision
\* log with a line for each of its requests, in order.
THEOREM DecisionLogIsComplete == Spec => DecisionLogComplete
<1> DEFINE A == \A r \in Runs :
                  Returns(r) /\ (\A q \in Runs : q > r => pc[q] = "new")
                    => Records(decisionLog, r, Requests)
<1>1. Counters /\ LatestLogged /\ [Next]_vars => A
  <2> SUFFICES ASSUME Counters, LatestLogged, [Next]_vars, NEW r \in Runs, Returns(r),
                      \A q \in Runs : q > r => pc[q] = "new"
               PROVE  Records(decisionLog, r, Requests)
    OBVIOUS
  <2>1. pc[r] = "summary" /\ served[r] = Requests /\ Requests \in Nat
    BY ReturnsFromSummary, SinksAssumption
  <2>2. Records(decisionLog, r, served[r] - 0)
    BY <2>1 DEF LatestLogged
  <2> QED  BY <2>1, <2>2
<1>2. Counters /\ LatestLogged /\ [Next]_vars => [A]_vars
  BY <1>1
<1> QED  BY <1>2, AlwaysCounted, AlwaysLatestLogged, PTL DEF Spec, DecisionLogComplete

-----------------------------------------------------------------------------
(* Redis and the CSV results of a sequential sweep. *)

\* Where the decision of the last result is not in Redis yet.
Unwritten == {"emit", "fanout", "monitor", "redis"}

\* The decisions of the run that is active, by where it is.
DecidedSoFar ==
    sweep.workers = 1 /\ RedisEnabled =>
        \A r \in Runs : Running(r) =>
            \A i \in Ids : i < served[r] \/ (i = served[r] /\ pc[r] \notin Unwritten)
                               => decisions[i] = r

\* When a run of a sequential sweep returns, Redis holds its decision for
\* every request id, whatever runs before it left there.
THEOREM DecisionsAreMirrored == Spec => DecisionsMirrored
<1> DEFINE A == \A r \in Runs : Returns(r) /\ RedisEnabled /\ sweep.workers = 1
                  => \A i \in Ids : decisions[i] = r
           Typed == decisions \in [Ids -> Runs \cup {0}]
<1>1. Init => Typed /\ DecidedSoFar
  BY DEF Init, DecidedSoFar, Running
<1>2. Counters /\ InTurn /\ Typed /\ DecidedSoFar /\ [Next]_vars => Typed' /\ DecidedSoFar'
  <2> SUFFICES ASSUME Counters, InTurn, Typed, DecidedSoFar, [Next]_vars
               PROVE  Typed' /\ DecidedSoFar'
    OBVIOUS
  <2>1. CASE UNCHANGED vars
    BY <2>1 DEF vars, inner, stores, DecidedSoFar, Running
  <2>2. ASSUME NEW r \in Runs, Step(r) PROVE Typed' /\ DecidedSoFar'
    <3>1. /\ sweep' = sweep
          /\ \A q \in Runs : q # r => pc'[q] = pc[q] /\ served'[q] = served[q]
          /\ Running(r) \/ (pc[r] = "new" /\ OpenDecisionLog(r))
      BY <2>2, StepOf
    <3>2. \/ UNCHANGED decisions
          \/ pc[r] = "redis" /\ decisions' = [decisions EXCEPT ![served[r]] = r]
      BY <2>2 DEF Step, stores, Goto, Raises, Overwrites, OpenDecisionLog, CheckLogs, CreateLogs,
         OpenAzure, EnsureTables,
         NoteSubmission, Execute, ExecuteRaises, EmitDecision, EmitResult,
         RecordResult, WriteDecision, WriteDecisionRaises, WriteResult,
         WriteResultRaises, WriteSummary, CheckCsv, OpenCsv, WriteCsv,
         WritePostgresSummary, WritePostgresSummaryRaises
    <3>3. Typed'
      BY <3>2
    <3>4. ASSUME sweep.workers = 1, RedisEnabled, NEW q \in Runs, Running(q)', NEW i \in Ids,
                 i < served'[q] \/ (i = served'[q] /\ pc'[q] \notin Unwritten)
          PROVE  decisions'[i] = q
      <4>1. q = r
        BY <2>2, <3>4, AloneAtWork
      <4>2. served[r] \in Nat /\ i \in Nat /\ i # 0
        BY <3>4, SinksAssumption DEF Counters, Ids
      <4>3. ASSUME pc[r] \notin Ended \cup {"new"},
                   i < served[r] \/ (i = served[r] /\ pc[r] \notin Unwritten)
            PROVE  decisions[i] = r
        BY <2>2, <3>4, <4>3 DEF DecidedSoFar, Running
      <4>4. CASE Execute(r)
        <5>1. /\ served'[r] = served[r] + 1 /\ pc'[r] = "emit" /\ pc[r] = "execute"
              /\ decisions' = decisions
          BY <4>4 DEF Execute, Goto, stores, Counters
        <5>2. i <= served[r]
          BY <3>4, <4>1, <4>2, <5>1 DEF Unwritten
        <5> QED  BY <4>1, <4>2, <4>3, <5>1, <5>2 DEF Unwritten, Ended
      <4>5. CASE WriteDecision(r)
        <5>1. /\ served'[r] = served[r] /\ pc[r] = "redis"
              /\ decisions' = [decisions EXCEPT ![served[r]] = r]
          BY <3>4, <4>5 DEF WriteDecision, Goto, inner, Overwrites
        <5>2. decisions'[i] = IF i = served[r] THEN r ELSE decisions[i]
          BY <3>4, <5>1
        <5> QED  BY <3>4, <4>1, <4>2, <4>3, <5>1, <5>2 DEF Ended
      <4>6. CASE ~(Execute(r) \/ WriteDecision(r))
        <5>1. /\ served'[r] = served[r] /\ decisions' = decisions
              /\ pc'[r] \notin Unwritten => pc[r] \notin Unwritten
          BY <2>2, <3>4, <4>1, <4>6 DEF Running, Ended, Unwritten, Counters,
             Step, inner, stores, Goto, Raises, OpenDecisionLog, CheckLogs, CreateLogs,
             OpenAzure, EnsureTables, NoteSubmission, ExecuteRaises, EmitDecision, EmitResult,
             RecordResult, WriteDecisionRaises, WriteResult,
             WriteResultRaises, WriteSummary, CheckCsv, OpenCsv, WriteCsv,
             WritePostgresSummary, WritePostgresSummaryRaises
        <5>2. pc[r] = "new" => served[r] = 0
          BY DEF Counters, Constructing
        <5>3. pc[r] \notin Ended \cup {"new"}
          BY <3>1, <3>4, <4>1, <4>2, <5>1, <5>2 DEF Running
        <5> QED  BY <3>4, <4>1, <4>3, <5>1, <5>3
      <4> QED  BY <4>4, <4>5, <4>6
    <3> QED  BY <3>1, <3>3, <3>4 DEF DecidedSoFar
  <2> QED  BY <2>1, <2>2 DEF Next
<1>3. Counters /\ DecidedSoFar /\ [Next]_vars => [A]_vars
  <2> SUFFICES ASSUME Counters, DecidedSoFar, [Next]_vars, NEW r \in Runs, Returns(r),
                      RedisEnabled, sweep.workers = 1, NEW i \in Ids
               PROVE  decisions[i] = r
    OBVIOUS
  <2>1. pc[r] = "summary" /\ served[r] = Requests
    BY ReturnsFromSummary
  <2>2. i < served[r] \/ i = served[r]
    BY <2>1, SinksAssumption DEF Ids
  <2> QED  BY <2>1, <2>2 DEF DecidedSoFar, Running, Ended, Unwritten
<1> QED  BY <1>1, <1>2, <1>3, AlwaysCounted, AlwaysInTurn, PTL DEF Spec, DecisionsMirrored

\* The strengthening of OneHeader: between the check for the file and the
\* writing of its lines, what was found stays so.
HeaderIsMissing ==
    sweep.workers = 1 =>
        /\ \A r \in Runs : pc[r] = "csv_open" => (header[r] <=> csv = <<>>)
        /\ \A r \in Runs : pc[r] = "csv_write" => csv # <<>> /\ (header[r] <=> Head(csv) = <<>>)
        /\ csv = <<>> \/ Head(csv) # <<>> \/ \E r \in Runs : pc[r] = "csv_write"

CsvTyped == csv = <<>> \/ \E l \in Seq(Runs \cup {0}) : csv = <<l>>

\* What a step does to a result CSV.
LEMMA StepCsv ==
    ASSUME Counters, NEW r \in Runs, Step(r)
    PROVE  \/ /\ UNCHANGED csv /\ pc[r] \notin {"csv_open", "csv_write"}
              /\ pc'[r] \notin {"csv_open", "csv_write"}
           \/ /\ UNCHANGED csv /\ pc[r] = "csv_check" /\ pc'[r] = "csv_open"
              /\ (header'[r] <=> csv = <<>>)
           \/ /\ csv' = Appended(csv, <<>>) /\ pc[r] = "csv_open" /\ pc'[r] = "csv_write"
              /\ header'[r] = header[r]
           \/ csv' = Appended(csv, CsvLines(r)) /\ pc[r] = "csv_write" /\ pc'[r] = "summary"
<1> USE DEF Counters, Goto, Raises
<1>1. CASE CheckCsv(r)
  BY <1>1 DEF CheckCsv, files, Exists
<1>2. CASE OpenCsv(r)
  BY <1>2 DEF OpenCsv, inner
<1>3. CASE WriteCsv(r)
  BY <1>3 DEF WriteCsv
<1>4. CASE ~(CheckCsv(r) \/ OpenCsv(r) \/ WriteCsv(r))
  BY <1>4 DEF files, Step, OpenDecisionLog, CheckLogs, CreateLogs,
         OpenAzure, EnsureTables, NoteSubmission, Execute, ExecuteRaises, EmitDecision, EmitResult,
         RecordResult, WriteDecision, WriteDecisionRaises, WriteResult,
         WriteResultRaises, WriteSummary, WritePostgresSummary, WritePostgresSummaryRaises
<1> QED  BY <1>1, <1>2, <1>3, <1>4

LEMMA OneLine ==
    /\ \A l : <<l>> # <<>> /\ Head(<<l>>) = l
    /\ \A l \in Seq(Runs \cup {0}) : l \o <<>> = l
OBVIOUS

\* A header and no other at the head of the lines of a file.
Headed(l) == l # <<>> /\ \A j \in DOMAIN l : l[j] = 0 <=> j = 1

LEMMA HeadedLines ==
    ASSUME NEW r \in Runs
    PROVE  /\ Headed(<<0, r>>)
           /\ \A l \in Seq(Runs \cup {0}) : Headed(l) => Headed(l \o <<r>>)
<1>1. r # 0
  BY SinksAssumption
<1>2. Headed(<<0, r>>)
  BY <1>1 DEF Headed
<1>3. ASSUME NEW l \in Seq(Runs \cup {0}), Headed(l)
      PROVE  Headed(l \o <<r>>)
  <2>1. Len(l) \in Nat /\ Len(l) # 0 /\ DOMAIN l = 1 .. Len(l)
    BY <1>3 DEF Headed
  <2>2. /\ DOMAIN (l \o <<r>>) = 1 .. Len(l) + 1
        /\ (l \o <<r>>)[Len(l) + 1] = r
        /\ \A j \in 1 .. Len(l) : (l \o <<r>>)[j] = l[j]
    OBVIOUS
  <2>3. \A j \in 1 .. Len(l) + 1 : (l \o <<r>>)[j] = 0 <=> j = 1
    BY <1>1, <1>3, <2>1, <2>2 DEF Headed
  <2>4. l \o <<r>> # <<>>
    BY <2>1
  <2> QED  BY <2>2, <2>3, <2>4 DEF Headed
<1> QED  BY <1>2, <1>3

\* The result CSV of runs made one at a time starts with its header and has no
\* other, however many runs append to it and wherever runs before them failed.
THEOREM CsvHasOneHeader == Spec => []OneHeader
<1> DEFINE Inv == CsvTyped /\ HeaderIsMissing /\ OneHeader
<1>1. Init => Inv
  BY DEF Init, CsvTyped, HeaderIsMissing, OneHeader
<1>2. Counters /\ InTurn /\ Inv /\ [Next]_vars => Inv'
  <2> SUFFICES ASSUME Counters, InTurn, Inv, [Next]_vars PROVE Inv'
    OBVIOUS
  <2>1. CASE UNCHANGED vars
    BY <2>1 DEF vars, inner, files, CsvTyped, HeaderIsMissing, OneHeader
  <2>2. ASSUME NEW r \in Runs, Step(r) PROVE Inv'
    <3> DEFINE S == Seq(Runs \cup {0})
    <3>1. /\ sweep' = sweep
          /\ \A q \in Runs : q # r => pc'[q] = pc[q] /\ header'[q] = header[q]
      BY <2>2, StepOf
    <3>2. CsvTyped'
      <4>1. CASE UNCHANGED csv
        BY <4>1 DEF CsvTyped
      <4>2. ASSUME NEW more \in S, csv' = Appended(csv, more)
            PROVE  CsvTyped'
        <5>1. CASE csv = <<>>
          BY <4>2, <5>1 DEF Appended, CsvTyped
        <5>2. ASSUME NEW l \in S, csv = <<l>>
              PROVE  CsvTyped'
          <6>1. csv' = <<l \o more>>
            BY <4>2, <5>2, OneLine DEF Appended
          <6>2. l \o more \in S
            BY <4>2, <5>2
          <6> QED  BY <6>1, <6>2 DEF CsvTyped
        <5> QED  BY <5>1, <5>2 DEF CsvTyped
      <4>3. <<>> \in S /\ CsvLines(r) \in S
        <5>1. <<>> \in S /\ <<r>> \in S /\ <<0, r>> \in S
          <6>1. r \in Runs \cup {0} /\ 0 \in Runs \cup {0}
            BY <2>2
          <6>2. <<>> \in S
            OBVIOUS
          <6>3. <<r>> \in S
            BY <6>1
          <6>4. <<0, r>> \in S
            BY <6>1
          <6> QED  BY <6>2, <6>3, <6>4
        <5> QED  BY <5>1 DEF CsvLines
      <4> HIDE DEF S
      <4> QED  BY <2>2, <4>1, <4>2, <4>3, StepCsv
    <3>3. ASSUME sweep.workers = 1
          PROVE  (HeaderIsMissing /\ OneHeader)'
      <4>1. ASSUME NEW q \in Runs, pc'[q] \in {"csv_open", "csv_write"}
            PROVE  q = r
        BY <2>2, <3>3, <4>1, AloneAtWork DEF Running, Ended
      <4>2. \A q \in Runs : pc[q] \in {"csv_open", "csv_write"} /\ Running(r) => q = r
        BY <2>2, <3>3 DEF InTurn, Running, Ended
      <4>3. CASE /\ UNCHANGED csv /\ pc[r] \notin {"csv_open", "csv_write"}
                 /\ pc'[r] \notin {"csv_open", "csv_write"}
        BY <3>1, <3>3, <4>3 DEF HeaderIsMissing, OneHeader
      <4>4. CASE /\ UNCHANGED csv /\ pc[r] = "csv_check" /\ pc'[r] = "csv_open"
                 /\ (header'[r] <=> csv = <<>>)
        BY <3>1, <3>3, <4>4 DEF HeaderIsMissing, OneHeader
      <4>5. CASE /\ csv' = Appended(csv, <<>>) /\ pc[r] = "csv_open" /\ pc'[r] = "csv_write"
                 /\ header'[r] = header[r]
        <5>1. (header[r] <=> csv = <<>>) /\ (csv = <<>> \/ Head(csv) # <<>>)
          BY <2>2, <3>3, <4>2, <4>5 DEF HeaderIsMissing, Running, Ended
        <5>2. CASE csv = <<>>
          <6>1. csv' = << <<>> >>
            BY <4>5, <5>2 DEF Appended
          <6>2. csv' # <<>> /\ Head(csv') = <<>>
            BY <6>1, OneLine
          <6> QED  BY <2>2, <4>1, <4>5, <5>1, <5>2, <6>2 DEF HeaderIsMissing, OneHeader
        <5>3. CASE csv # <<>>
          <6>1. csv' = csv
            BY <4>5, <5>3, OneLine DEF Appended, CsvTyped
          <6> QED  BY <2>2, <3>1, <3>3, <4>1, <4>5, <5>1, <5>3, <6>1
                   DEF HeaderIsMissing, OneHeader
        <5> QED  BY <5>2, <5>3
      <4>6. CASE csv' = Appended(csv, CsvLines(r)) /\ pc[r] = "csv_write" /\ pc'[r] = "summary"
        <5>1. csv # <<>> /\ (header[r] <=> Head(csv) = <<>>)
          BY <2>2, <3>3, <4>6 DEF HeaderIsMissing
        <5>2. PICK l \in S : csv = <<l>> /\ Head(csv) = l
          BY <5>1, OneLine DEF CsvTyped
        <5>3. csv' = <<l \o CsvLines(r)>>
          BY <4>6, <5>1, <5>2 DEF Appended
        <5>4. Headed(l \o CsvLines(r))
          <6>1. CASE l = <<>>
            <7>1. CsvLines(r) = <<0, r>> /\ l \o <<0, r>> = <<0, r>>
              BY <5>1, <5>2, <6>1 DEF CsvLines
            <7> QED  BY <2>2, <7>1, HeadedLines
          <6>2. CASE l # <<>>
            <7>1. CsvLines(r) = <<r>> /\ Headed(l)
              BY <3>3, <5>1, <5>2, <6>2 DEF CsvLines, OneHeader, Headed
            <7> QED  BY <2>2, <5>2, <7>1, HeadedLines
          <6> QED  BY <6>1, <6>2
        <5>5. csv' # <<>> /\ Headed(Head(csv'))
          BY <5>3, <5>4, OneLine
        <5>6. \A q \in Runs : pc'[q] \notin {"csv_open", "csv_write"}
          BY <4>1, <4>6
        <5> QED  BY <5>5, <5>6 DEF HeaderIsMissing, OneHeader, Headed
      <4> QED  BY <2>2, <4>3, <4>4, <4>5, <4>6, StepCsv
    <3> QED  BY <3>1, <3>2, <3>3 DEF HeaderIsMissing, OneHeader
  <2> QED  BY <2>1, <2>2 DEF Next
<1> QED  BY <1>1, <1>2, AlwaysCounted, AlwaysInTurn, PTL DEF Spec
=============================================================================
