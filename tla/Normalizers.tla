----------------------------- MODULE Normalizers -----------------------------
(***************************************************************************)
(* The normalizers of data_pipeline/normalizers.py: what each makes of one *)
(* record of its raw file.  The loops around them are in TracePipeline.    *)
(*                                                                         *)
(* Abstractions.  A number or a text of a record is a natural number: the  *)
(* figure computed from its columns (alibaba), the figure itself (generic) *)
(* or the words of the first non-empty turn or field (the JSON data sets). *)
(* Identifiers are pairs of a tag and a number; ids of the file are        *)
(* distinct.  The model of a request is left out.  Files are well formed:  *)
(* a number that does not parse ends the script before anything is written.*)
(***************************************************************************)
EXTENDS Integers

CONSTANTS
    Second,         \* units of time in a second
    SessionSpan,    \* records that share a derived session: 4, 5, 6 or 8
    TenantCycle,    \* derived tenants of a data set: 16, 48 or 64
    RealtimeEvery,  \* every fifth record of lmsys is realtime
    Hashes          \* residues of hash(), which is salted in each process

ASSUME NormalizerAssumption ==
    /\ {Second, SessionSpan, TenantCycle, RealtimeEvery} \subseteq Nat \ {0}
    /\ Hashes \subseteq Nat

Kinds == {"alibaba", "sharegpt", "lmsys", "instruction", "generic"}

SlaClasses == {"realtime", "interactive", "best_effort"}

\* A column the file does not have, and a field that is there but empty.
Absent == -1
Blank == 0

Record == [ts : Nat \cup {Absent}, named : BOOLEAN, prompt : Nat, output : Nat,
           tenant : Nat \cup {Absent}, session : Nat \cup {Absent}, priority : STRING,
           turns : BOOLEAN]

AtLeast(low, n) == IF n < low THEN low ELSE n

\* clamp_priority; a column that is not there counts as empty.
ClampPriority(raw) ==
    IF raw \in SlaClasses THEN raw
    ELSE IF raw = "high" THEN "realtime"
    ELSE IF raw = "low" THEN "best_effort"
    ELSE "interactive"

\* approx_token_length of a text of n words.
ApproxTokenLength(n) == IF n = 0 THEN 1 ELSE AtLeast(1, (n * 133) \div 100)

PromptLength(kind, rec) ==
    CASE kind = "alibaba" -> AtLeast(32, rec.prompt)
      [] kind = "generic" -> AtLeast(1, rec.prompt)
      [] OTHER            -> ApproxTokenLength(rec.prompt)

OutputLength(kind, rec) ==
    CASE kind = "alibaba" -> AtLeast(16, rec.output)
      [] kind = "generic" -> AtLeast(1, rec.output)
      [] OTHER            -> AtLeast(16, ApproxTokenLength(rec.output))

\* The time of the file, or the position in it counted in seconds.
Timestamp(kind, index, rec) ==
    IF kind \in {"alibaba", "generic"} /\ rec.ts # Absent THEN rec.ts ELSE Second * index

RequestId(index, rec) == <<IF rec.named THEN "file" ELSE "index", index>>

\* alibaba derives a tenant from the machine, "machine-unknown" without the
\* column; an empty user_id of lmsys counts as missing, an empty tenant_id of
\* generic is kept.
TenantId(kind, index, rec, hash) ==
    CASE kind = "sharegpt" -> <<"hash", hash>>
      [] kind = "alibaba" -> <<"machine", rec.tenant>>
      [] kind = "lmsys" /\ rec.tenant \notin {Absent, Blank} -> <<"file", rec.tenant>>
      [] kind = "generic" /\ rec.tenant # Absent -> <<"file", rec.tenant>>
      [] OTHER -> <<"index", index % TenantCycle>>

PriorityClass(kind, index, rec) ==
    CASE kind \in {"alibaba", "generic"} -> ClampPriority(rec.priority)
      [] kind = "lmsys" /\ index % RealtimeEvery = 0 -> "realtime"
      [] OTHER -> "interactive"

\* generic keeps the session of the file, even an empty one; its derived
\* sessions carry no tenant.
SessionId(kind, index, rec, tenant) ==
    IF kind # "generic" THEN <<tenant, "span", index \div SessionSpan>>
    ELSE IF rec.session # Absent THEN <<<<"any", 0>>, "file", rec.session>>
    ELSE <<<<"any", 0>>, "span", index \div SessionSpan>>

\* The row made of the record at `index`, counted from 0.
Row(kind, index, rec, hash) ==
    LET tenant == TenantId(kind, index, rec, hash)
    IN  [timestamp              |-> Timestamp(kind, index, rec),
         request_id             |-> RequestId(index, rec),
         prompt_length          |-> PromptLength(kind, rec),
         expected_output_length |-> OutputLength(kind, rec),
         tenant_id              |-> tenant,
         priority_class         |-> PriorityClass(kind, index, rec),
         session_id             |-> SessionId(kind, index, rec, tenant)]

\* Only sharegpt drops records: those without a conversation.
Skipped(kind, rec) == kind = "sharegpt" /\ ~rec.turns
=============================================================================
