--------------------------- MODULE RunEngineProofs ---------------------------
(***************************************************************************)
(* Theorems about the engine, for any number of cases, repeats, retries    *)
(* and interruptions.                                                      *)
(***************************************************************************)
EXTENDS RunEngine, FiniteSetTheorems, TLAPS

USE EngineAssumption DEF Quit

\* What the process remembers, typed.
Memory ==
    [stage : RunStatus, resumed : BOOLEAN, requeue : SUBSET Cases, orphan : {NULL} \cup (Cases \X Nat),
     at : 1..(NumCases + 1), base : Nat, i : 0..(Repeats - 1), no : 0..RetryMax,
     landed : SUBSET (Cases \X Nat), executed : SUBSET Cases,
     job : Nat \cup {NULL}, answer : AllAnswers \cup {NULL}]

\* Key a comes before key b in the numbering of attempts.
Before(a, b) == a.rep < b.rep \/ (a.rep = b.rep /\ a.no < b.no)

\* The key the process is about to use, or has used last.
Key == [rep |-> me.base + me.i, no |-> me.no]

\* Where the process stands in its case.
InCase == {"create", "start", "submit", "invoke", "record", "score", "next",
           "classify", "settle", "stream"}
InAttempt == {"start", "submit", "invoke", "record", "score", "next"}

Position ==
    /\ pc \in InCase => me.at \in Cases
    /\ me.orphan # NULL => me.orphan[2] \in Rows(me.orphan[1])
    /\ pc = "record" => me.answer \in AllAnswers
    /\ pc = "score" => me.answer \in Completed
    /\ pc = "advance" => me.stage \in {"draft", "queued", "provisioning"}
    /\ pc = "reopen_cases" => me.stage = "queued"

\* The numbering: a new key comes behind every key of the case, and the attempt
\* being run is the last row of the case.
Numbering ==
    /\ pc = "create" => \A k \in Rows(me.at) : Before(attempts[me.at][k], Key)
    /\ pc \in InAttempt => /\ Current \in Rows(me.at)
                           /\ attempts[me.at][Current].rep = Key.rep
                           /\ attempts[me.at][Current].no = Key.no

\* AttemptKeysUnique is inductive only together with the types and with where
\* the process stands in its numbering.
Numbered ==
    /\ EngineTypeOK /\ me \in Memory
    /\ Position /\ Numbering /\ AttemptKeysUnique

-----------------------------------------------------------------------------
\* The statuses the transition tables of lifecycle.py name, written out.
LEMMA StatusSets ==
    /\ RunStatus = {"absent", "draft", "queued", "provisioning", "running", "aggregating",
                    "complete", "failed", "cancelled", "incomplete"}
    /\ CaseStatus = {"missing", "queued", "running", "completed", "failed", "cancelled", "skipped"}
    /\ AttemptStatus = {"queued", "running", "completed", "timed_out", "budget_exceeded",
                        "cancelled", "orphaned", "errored"}
BY DEF RunStatus, RunMoves, CaseStatus, CaseMoves, AttemptStatus, AttemptMoves

\* RepeatOffset is the repeat after the last row's, since keys ascend.
LEMMA OffsetIsBehind ==
    ASSUME EngineTypeOK, AttemptKeysUnique, NEW c \in Cases
    PROVE  /\ RepeatOffset(c) \in Nat
           /\ \A k \in Rows(c) : attempts[c][k].rep < RepeatOffset(c)
<1>1. attempts[c] \in Seq(Attempt)
  BY DEF EngineTypeOK
<1> DEFINE reps == {attempts[c][k].rep : k \in Rows(c)}
<1>2. \A k \in Rows(c) : attempts[c][k] \in Attempt /\ attempts[c][k].rep \in Nat
  <2>1. \A k \in Rows(c) : attempts[c][k] \in Attempt
    BY <1>1 DEF Rows
  <2>2. \A a \in Attempt : a.rep \in Nat
    BY DEF Attempt
  <2> QED BY <2>1, <2>2
<1>3. CASE Rows(c) = {}
  BY <1>3 DEF RepeatOffset
<1>4. CASE Rows(c) # {}
  <2>1. Len(attempts[c]) \in Rows(c)
    BY <1>1, <1>4 DEF Rows
  <2>2. \A k \in Rows(c) : attempts[c][k].rep <= attempts[c][Len(attempts[c])].rep
    BY <1>1, <1>2, <2>1 DEF Rows, AttemptKeysUnique
  <2>3. \E r \in reps : \A k \in Rows(c) : attempts[c][k].rep <= r
    BY <2>1, <2>2
  <2> DEFINE highest == CHOOSE r \in reps : \A k \in Rows(c) : attempts[c][k].rep <= r
  <2>4. highest \in reps /\ \A k \in Rows(c) : attempts[c][k].rep <= highest
    BY <2>3
  <2>5. RepeatOffset(c) = 1 + highest
    BY <1>4 DEF RepeatOffset
  <2>6. highest \in Nat
    BY <1>2, <2>4
  <2> HIDE DEF highest, reps
  <2> QED BY <1>2, <2>4, <2>5, <2>6
<1> QED BY <1>3, <1>4

\* Before the run is created (engine.py, create_run) there is nothing to number.
LEMMA NumberedInit == EngineInit => Numbered
<1> SUFFICES ASSUME EngineInit PROVE Numbered
  OBVIOUS
<1> USE DEF EngineInit, Fresh
<1>1. EngineTypeOK
  <2>1. run \in RunStatus /\ case \in [Cases -> CaseStatus]
    BY StatusSets
  <2>2. \A c \in Cases : << >> \in Seq(Attempt)
    OBVIOUS
  <2>3. attempts \in [Cases -> Seq(Attempt)]
    BY <2>2
  <2>4. \A s \in metric.samples \cup me.landed : FALSE
    OBVIOUS
  <2>5. me.at \in 1..(NumCases + 1) /\ me.i \in 0..(Repeats - 1) /\ me.no \in 0..RetryMax
    OBVIOUS
  <2>6. class \in [Cases -> Classes \cup {NULL}]
    OBVIOUS
  <2>7. metric.state \in {"NONE", "IN_PROGRESS", "PARTIAL", "COMPLETE"} /\ pc \in PC
    BY DEF PC
  <2>8. cancel \in BOOLEAN 
    OBVIOUS
  <2>9. upsets \in 0..MaxUpsets
    OBVIOUS
  <2> HIDE DEF EngineInit, Fresh
  <2> QED BY <2>1, <2>3, <2>4, <2>5, <2>6, <2>7, <2>8, <2>9 DEF EngineTypeOK
<1>2. me \in Memory
  BY StatusSets DEF Memory
<1>3. Position /\ Numbering /\ AttemptKeysUnique
  BY DEF Position, Numbering, AttemptKeysUnique, InCase, InAttempt, Rows
<1> QED BY <1>1, <1>2, <1>3 DEF Numbered

-----------------------------------------------------------------------------
\* Which actions write the rows of attempts.
LEMMA RowWriters ==
    ASSUME EngineNext
    PROVE  \/ attempts' = attempts
           \/ \E c \in Cases : \E k \in Rows(c) : OrphanAttempt(c, k)
           \/ OrphanJob \/ CreateAttempt \/ StartAttempt \/ SubmitJob
           \/ \E answer \in Answers : Invoke(answer)
           \/ RecordAttempt \/ ScoreAttempt
BY DEF EngineNext, Work, CreateRun, InsertCases, Start, Resume, Enter, Reopen, ReopenDone, Advance,
   ReconcileDone, RequeueDone, ReopenCase, CloseStaleCase, RequeueCase, MarkCase, SkipCase, BeginCase,
   MissCase, LoopDone, SeeCancel, PollJob, NextAttempt, CancelCase, ClassifyCase, SettleCase,
   StreamMetric, ReportCancelled, LandCancelled, Rescore, PublishMetric, LandComplete, LandIncomplete,
   Break, Crash, RequestCancel, CancelDirect, stored

\* The rows keep their places and their keys.
SameKeys ==
    \A c \in Cases : /\ Len(attempts'[c]) = Len(attempts[c])
                     /\ \A k \in Rows(c) : /\ attempts'[c][k].rep = attempts[c][k].rep
                                          /\ attempts'[c][k].no = attempts[c][k].no

\* Overwriting one column of one row, as set_attempt_status does, gives a row.
LEMMA ReplacedRow ==
    ASSUME EngineTypeOK, NEW c \in Cases, NEW k \in Rows(c), NEW a \in Attempt,
           a.rep = attempts[c][k].rep, a.no = attempts[c][k].no,
           attempts' = [attempts EXCEPT ![c] = [attempts[c] EXCEPT ![k] = a]]
    PROVE  attempts' \in [Cases -> Seq(Attempt)] /\ SameKeys
<1>1. attempts[c] \in Seq(Attempt) /\ k \in 1..Len(attempts[c])
  BY DEF EngineTypeOK, Rows
<1>2. [attempts[c] EXCEPT ![k] = a] \in Seq(Attempt)
  BY <1>1
<1>3. Len([attempts[c] EXCEPT ![k] = a]) = Len(attempts[c])
  BY <1>1
<1>4. attempts' \in [Cases -> Seq(Attempt)]
  BY <1>2 DEF EngineTypeOK
<1>5. \A b \in Cases : Len(attempts'[b]) = Len(attempts[b])
  BY <1>3 DEF EngineTypeOK
<1>6. \A b \in Cases : \A l \in Rows(b) :
         attempts'[b][l] = IF b = c /\ l = k THEN a ELSE attempts[b][l]
  BY <1>1 DEF EngineTypeOK, Rows
<1> QED BY <1>4, <1>5, <1>6 DEF SameKeys

\* A case has finitely many remote jobs: at most one per row.
LEMMA JobsAreFinite ==
    ASSUME EngineTypeOK, NEW c \in Cases
    PROVE  Cardinality(JobsOf(c)) \in Nat
<1> DEFINE owners == {k \in Rows(c) : attempts[c][k].job # NULL}
           id == [k \in owners |-> attempts[c][k].job.id]
<1>1. Len(attempts[c]) \in Nat
  BY DEF EngineTypeOK
<1>2. IsFiniteSet(owners)
  <2>1. IsFiniteSet(1..Len(attempts[c]))
    BY <1>1, FS_Interval
  <2>2. owners \in SUBSET (1..Len(attempts[c]))
    BY DEF Rows
  <2> HIDE DEF owners
  <2> QED BY <2>1, <2>2, FS_Subset
<1>3. id \in Surjection(owners, JobsOf(c))
  BY DEF Surjection, JobsOf
<1> HIDE DEF owners, id
<1> QED BY <1>2, <1>3, FS_Surjection, FS_CardinalityType

\* A new row is put behind the others.
LEMMA AppendedRow ==
    ASSUME EngineTypeOK, me.at \in Cases, CreateAttempt
    PROVE  /\ Len(attempts'[me.at]) = Len(attempts[me.at]) + 1
           /\ attempts'[me.at][Len(attempts[me.at]) + 1] = NewAttempt(me.base + me.i, me.no)
           /\ \A k \in Rows(me.at) : attempts'[me.at][k] = attempts[me.at][k]
           /\ \A c \in Cases \ {me.at} : attempts'[c] = attempts[c]
<1> DEFINE a == NewAttempt(me.base + me.i, me.no)
<1>1. attempts[me.at] \in Seq(Attempt)
  BY DEF EngineTypeOK
<1>2. attempts' = [attempts EXCEPT ![me.at] = Append(@, a)]
  BY DEF CreateAttempt
<1> HIDE DEF a
<1>3. attempts'[me.at] = Append(attempts[me.at], a)
  BY <1>2 DEF EngineTypeOK
<1>4. /\ Len(Append(attempts[me.at], a)) = Len(attempts[me.at]) + 1
      /\ Append(attempts[me.at], a)[Len(attempts[me.at]) + 1] = a
      /\ \A k \in Rows(me.at) : Append(attempts[me.at], a)[k] = attempts[me.at][k]
  BY <1>1 DEF Rows
<1> QED BY <1>2, <1>3, <1>4 DEF EngineTypeOK, a

\* Every storage call of the engine leaves rows of attempts, of their type.
LEMMA RowsStep ==
    ASSUME Numbered, EngineNext
    PROVE  attempts' \in [Cases -> Seq(Attempt)] /\ (SameKeys \/ CreateAttempt)
<1> USE StatusSets DEF Numbered
<1>1. CASE attempts' = attempts
  BY <1>1 DEF EngineTypeOK, SameKeys
<1>2. ASSUME NEW c \in Cases, NEW k \in Rows(c)
      PROVE  attempts[c][k] \in Attempt
  BY DEF EngineTypeOK, Rows
<1>3. ASSUME NEW c \in Cases, NEW k \in Rows(c), NEW to \in AttemptStatus, SetAttempt(c, k, to)
      PROVE  attempts' \in [Cases -> Seq(Attempt)] /\ SameKeys
  <2> DEFINE a == [attempts[c][k] EXCEPT !.status = to]
  <2>1. a \in Attempt /\ a.rep = attempts[c][k].rep /\ a.no = attempts[c][k].no
    BY <1>2 DEF Attempt
  <2>2. attempts' = [attempts EXCEPT ![c] = [attempts[c] EXCEPT ![k] = a]]
    BY <1>3 DEF SetAttempt
  <2> HIDE DEF a
  <2> QED BY <2>1, <2>2, ReplacedRow
<1>4. ASSUME NEW c \in Cases, NEW k \in Rows(c), NEW j \in [id : Nat, state : AllAnswers \cup {"submitted", "completed", "orphaned"}],
             attempts' = [attempts EXCEPT ![c][k].job = j]
      PROVE  attempts' \in [Cases -> Seq(Attempt)] /\ SameKeys
  <2> DEFINE a == [attempts[c][k] EXCEPT !.job = j]
  <2>1. a \in Attempt /\ a.rep = attempts[c][k].rep /\ a.no = attempts[c][k].no
    BY <1>2 DEF Attempt
  <2>2. attempts' = [attempts EXCEPT ![c] = [attempts[c] EXCEPT ![k] = a]]
    BY <1>4
  <2> HIDE DEF a
  <2> QED BY <2>1, <2>2, ReplacedRow
<1>5. CASE \E c \in Cases : \E k \in Rows(c) : OrphanAttempt(c, k)
  BY <1>3, <1>5 DEF OrphanAttempt
<1>6. pc \in InAttempt => me.at \in Cases /\ Current \in Rows(me.at)
  BY DEF Position, Numbering, InAttempt, InCase
<1>7. CASE OrphanJob
  <2> DEFINE c == me.orphan[1]
             k == me.orphan[2]
             j == [attempts[c][k].job EXCEPT !.state = "orphaned"]
  <2>1. c \in Cases /\ k \in Rows(c)
    BY <1>7 DEF OrphanJob, Memory, Position
  <2>2. CASE attempts[c][k].job = NULL
    BY <1>1, <1>7, <2>2 DEF OrphanJob
  <2>3. CASE attempts[c][k].job # NULL
    <3>1. j \in [id : Nat, state : AllAnswers \cup {"submitted", "completed", "orphaned"}]
      BY <1>2, <2>1, <2>3 DEF Attempt
    <3>2. attempts' = [attempts EXCEPT ![c][k].job = j]
      BY <1>7, <2>3 DEF OrphanJob
    <3> HIDE DEF c, k, j
    <3> QED BY <2>1, <3>1, <3>2, <1>4
  <2> QED BY <2>2, <2>3
<1>8. CASE StartAttempt
  BY <1>3, <1>6, <1>8 DEF StartAttempt, InAttempt
<1>9. CASE SubmitJob
  <2> DEFINE j == [id |-> 1 + Cardinality(JobsOf(me.at)), state |-> "submitted"]
  <2>1. me.at \in Cases /\ Current \in Rows(me.at)
    BY <1>6, <1>9 DEF SubmitJob, InAttempt
  <2>2. j \in [id : Nat, state : AllAnswers \cup {"submitted", "completed", "orphaned"}]
    BY <2>1, JobsAreFinite
  <2>3. attempts' = [attempts EXCEPT ![me.at][Current].job = j]
    BY <1>9 DEF SubmitJob
  <2> HIDE DEF j
  <2> QED BY <2>1, <2>2, <2>3, <1>4
<1>10. CASE \E answer \in Answers : Invoke(answer)
  <2> PICK answer \in Answers : Invoke(answer)
    BY <1>10
  <2> DEFINE j == [id |-> me.job, state |-> IF answer \in Completed THEN "completed" ELSE answer]
  <2>1. me.at \in Cases /\ Current \in Rows(me.at)
    BY <1>6 DEF Invoke, InAttempt
  <2>2. CASE attempts' = attempts
    BY <1>1, <2>2
  <2>3. CASE me.job # NULL /\ attempts' = [attempts EXCEPT ![me.at][Current].job = j]
    <3>1. me.job \in Nat /\ answer \in AllAnswers
      BY <2>3 DEF Memory
    <3>2. j \in [id : Nat, state : AllAnswers \cup {"submitted", "completed", "orphaned"}]
      BY <3>1
    <3> HIDE DEF j
    <3> QED BY <2>1, <2>3, <3>2, <1>4
  <2> QED BY <2>2, <2>3 DEF Invoke
<1>11. CASE RecordAttempt
  BY <1>3, <1>6, <1>11 DEF RecordAttempt, InAttempt, Position, AllAnswers, Completed
<1>12. CASE ScoreAttempt
  <2> DEFINE a == [attempts[me.at][Current] EXCEPT !.verdict = me.answer]
  <2>1. me.at \in Cases /\ Current \in Rows(me.at) /\ me.answer \in Completed
    BY <1>6, <1>12 DEF ScoreAttempt, InAttempt, Position
  <2>2. a \in Attempt /\ a.rep = attempts[me.at][Current].rep /\ a.no = attempts[me.at][Current].no
    BY <2>1, <1>2 DEF Attempt
  <2>3. attempts' = [attempts EXCEPT ![me.at] = [attempts[me.at] EXCEPT ![Current] = a]]
    BY <1>12 DEF ScoreAttempt
  <2> HIDE DEF a
  <2> QED BY <2>1, <2>2, <2>3, ReplacedRow
<1>13. CASE CreateAttempt
  <2> DEFINE a == NewAttempt(me.base + me.i, me.no)
  <2>1. me.at \in Cases /\ me.base \in Nat /\ me.i \in Nat /\ me.no \in 0..RetryMax
    BY <1>13 DEF CreateAttempt, Position, InCase, Memory
  <2>2. a \in Attempt
    BY <2>1 DEF NewAttempt, Attempt
  <2>3. attempts' = [attempts EXCEPT ![me.at] = Append(@, a)]
    BY <1>13 DEF CreateAttempt
  <2> HIDE DEF a
  <2> QED BY <1>13, <2>1, <2>2, <2>3 DEF EngineTypeOK
<1> QED BY <1>1, <1>5, <1>7, <1>8, <1>9, <1>10, <1>11, <1>12, <1>13, RowWriters

-----------------------------------------------------------------------------
\* Which actions write the run's status.
LEMMA RunWriters ==
    ASSUME EngineNext
    PROVE  \/ run' = run
           \/ CreateRun \/ Reopen \/ Advance \/ LandCancelled \/ Rescore \/ LandComplete
           \/ LandIncomplete \/ CancelDirect
BY DEF EngineNext, Work, Start, Resume, Enter, ReopenDone, ReconcileDone,
   RequeueDone, SkipCase, MissCase, LoopDone, SeeCancel, PollJob, NextAttempt,
   ClassifyCase, StreamMetric, ReportCancelled, PublishMetric, Break, Crash,
   RequestCancel, OrphanAttempt, OrphanJob, CreateAttempt, StartAttempt,
   SubmitJob, Invoke, RecordAttempt, ScoreAttempt, InsertCases, ReopenCase,
   CloseStaleCase, RequeueCase, MarkCase, BeginCase, CancelCase, SettleCase,
   stored

\* Which actions write the status of a case.
LEMMA CaseWriters ==
    ASSUME EngineNext
    PROVE  \/ case' = case
           \/ InsertCases \/ BeginCase \/ CancelCase \/ SettleCase
           \/ \E c \in Cases : ReopenCase(c) \/ CloseStaleCase(c) \/ RequeueCase(c) \/ MarkCase(c)
BY DEF EngineNext, Work, Start, Resume, Enter, ReopenDone, ReconcileDone,
   RequeueDone, SkipCase, MissCase, LoopDone, SeeCancel, PollJob, NextAttempt,
   ClassifyCase, StreamMetric, ReportCancelled, PublishMetric, Break, Crash,
   RequestCancel, OrphanAttempt, OrphanJob, CreateAttempt, StartAttempt,
   SubmitJob, Invoke, RecordAttempt, ScoreAttempt, CreateRun, Reopen, Advance,
   LandCancelled, Rescore, LandComplete, LandIncomplete, CancelDirect, stored

\* Only ClassifyCase writes a class.
LEMMA ClassWriters ==
    ASSUME EngineNext
    PROVE  class' = class \/ ClassifyCase
BY DEF EngineNext, Work, CreateRun, InsertCases, Start, Resume, Enter, Reopen, ReopenDone, Advance,
   ReconcileDone, RequeueDone, ReopenCase, CloseStaleCase, RequeueCase, MarkCase, SkipCase,
   BeginCase, MissCase, LoopDone, SeeCancel, PollJob, NextAttempt, CancelCase,
   SettleCase, StreamMetric, ReportCancelled, LandCancelled, Rescore, PublishMetric,
   LandComplete, LandIncomplete, Break, Crash, RequestCancel, CancelDirect, OrphanAttempt,
   OrphanJob, CreateAttempt, StartAttempt, SubmitJob, Invoke, RecordAttempt, ScoreAttempt,
   stored

\* The other stored columns keep their types.
LEMMA StatusStep ==
    ASSUME EngineTypeOK, me \in Memory, Position, EngineNext
    PROVE  /\ run' \in RunStatus
           /\ case' \in [Cases -> CaseStatus]
           /\ class' \in [Cases -> Classes \cup {NULL}]
           /\ metric'.state \in {"NONE", "IN_PROGRESS", "PARTIAL", "COMPLETE"}
           /\ pc' \in PC
           /\ cancel' \in BOOLEAN
           /\ upsets' \in 0..MaxUpsets
<1> USE StatusSets
<1>1. \/ run' = run
      \/ \E to \in RunStatus : SetRun(to)
  <2>1. \/ run' = run
        \/ CreateRun \/ Reopen \/ Advance \/ LandCancelled \/ Rescore \/ LandComplete
        \/ LandIncomplete \/ CancelDirect
    BY RunWriters
  <2>2. CASE Advance
    <3>1. me.stage \in {"draft", "queued", "provisioning"}
      BY <2>2 DEF Position, Advance
    <3>2. NextStage[me.stage] \in RunStatus
      BY <3>1 DEF NextStage
    <3> QED BY <2>2, <3>2 DEF Advance
  <2>3. CASE CreateRun \/ Reopen \/ Rescore \/ LandComplete \/ LandIncomplete
    BY <2>3 DEF CreateRun, Reopen, Rescore, LandComplete, LandIncomplete
  <2>4. CASE LandCancelled \/ CancelDirect
    BY <2>4 DEF LandCancelled, CancelDirect
  <2> QED BY <2>1, <2>2, <2>3, <2>4
<1>2. run' \in RunStatus
  BY <1>1 DEF SetRun, EngineTypeOK
<1>3. \/ case' = case
      \/ case' = [c \in Cases |-> "queued"]
      \/ \E c \in Cases : \E to \in CaseStatus : SetCase(c, to)
  <2>1. \/ case' = case
        \/ InsertCases \/ BeginCase \/ CancelCase \/ SettleCase
        \/ \E c \in Cases : ReopenCase(c) \/ CloseStaleCase(c) \/ RequeueCase(c) \/ MarkCase(c)
    BY CaseWriters
  <2>2. CASE InsertCases
    BY <2>2 DEF InsertCases
  <2>3. CASE BeginCase
    BY <2>3 DEF BeginCase, EngineTypeOK, Cases
  <2>4. CASE CancelCase \/ SettleCase
    BY <2>4 DEF CancelCase, SettleCase, Position, InCase
  <2>5. CASE \E c \in Cases : ReopenCase(c) \/ CloseStaleCase(c) \/ RequeueCase(c) \/ MarkCase(c)
    BY <2>5 DEF ReopenCase, CloseStaleCase, RequeueCase, MarkCase
  <2> QED BY <2>1, <2>2, <2>3, <2>4, <2>5
<1>4. case' \in [Cases -> CaseStatus]
  BY <1>3 DEF SetCase, EngineTypeOK
<1>5. \/ class' = class
      \/ \E verdicts, broken : class' = [class EXCEPT ![me.at] = Classify(verdicts, broken)]
  BY ClassWriters DEF ClassifyCase
<1>6. \A verdicts, broken : Classify(verdicts, broken) \in Classes \cup {NULL}
  BY DEF Classify, Classes
<1>7. class' \in [Cases -> Classes \cup {NULL}]
  BY <1>5, <1>6 DEF EngineTypeOK
<1>8. \/ metric' = metric
      \/ \E samples, open : metric' = Aggregate(samples, open)
  BY DEF EngineNext, Work, CreateRun, InsertCases, Start, Resume, Enter, Reopen, ReopenDone, Advance,
     ReconcileDone, RequeueDone, ReopenCase, CloseStaleCase, RequeueCase, MarkCase, SkipCase,
     BeginCase, MissCase, LoopDone, SeeCancel, PollJob, NextAttempt, CancelCase, ClassifyCase,
     SettleCase, StreamMetric, ReportCancelled, LandCancelled, Rescore, PublishMetric,
     LandComplete, LandIncomplete, Break, Crash, RequestCancel, CancelDirect, OrphanAttempt,
     OrphanJob, CreateAttempt, StartAttempt, SubmitJob, Invoke, RecordAttempt, ScoreAttempt,
     stored
<1>9. metric'.state \in {"NONE", "IN_PROGRESS", "PARTIAL", "COMPLETE"}
  BY <1>8 DEF Aggregate, EngineTypeOK
<1>10. pc' \in PC
  BY DEF PC, EngineTypeOK, EngineNext, Work, CreateRun, InsertCases, Start, Resume, Enter, Reopen, ReopenDone, Advance,
     ReconcileDone, RequeueDone, ReopenCase, CloseStaleCase, RequeueCase, MarkCase, SkipCase,
     BeginCase, MissCase, LoopDone, SeeCancel, PollJob, NextAttempt, CancelCase, ClassifyCase,
     SettleCase, StreamMetric, ReportCancelled, LandCancelled, Rescore, PublishMetric,
     LandComplete, LandIncomplete, Break, Crash, RequestCancel, CancelDirect, OrphanAttempt,
     OrphanJob, CreateAttempt, StartAttempt, SubmitJob, Invoke, RecordAttempt, ScoreAttempt,
     stored
<1>11. cancel' \in BOOLEAN
  BY DEF EngineTypeOK, EngineNext, Work, CreateRun, InsertCases, Start, Resume, Enter, Reopen, ReopenDone, Advance,
     ReconcileDone, RequeueDone, ReopenCase, CloseStaleCase, RequeueCase, MarkCase, SkipCase,
     BeginCase, MissCase, LoopDone, SeeCancel, PollJob, NextAttempt, CancelCase, ClassifyCase,
     SettleCase, StreamMetric, ReportCancelled, LandCancelled, Rescore, PublishMetric,
     LandComplete, LandIncomplete, Break, Crash, RequestCancel, CancelDirect, OrphanAttempt,
     OrphanJob, CreateAttempt, StartAttempt, SubmitJob, Invoke, RecordAttempt, ScoreAttempt,
     stored
<1>12. upsets' = upsets \/ (upsets < MaxUpsets /\ upsets' = upsets + 1)
  BY DEF EngineNext, Work, CreateRun, InsertCases, Start, Resume, Enter, Reopen, ReopenDone, Advance,
     ReconcileDone, RequeueDone, ReopenCase, CloseStaleCase, RequeueCase, MarkCase, SkipCase,
     BeginCase, MissCase, LoopDone, SeeCancel, PollJob, NextAttempt, CancelCase, ClassifyCase,
     SettleCase, StreamMetric, ReportCancelled, LandCancelled, Rescore, PublishMetric,
     LandComplete, LandIncomplete, Break, Crash, RequestCancel, CancelDirect, OrphanAttempt,
     OrphanJob, CreateAttempt, StartAttempt, SubmitJob, Invoke, RecordAttempt, ScoreAttempt,
     stored
<1>13. upsets' \in 0..MaxUpsets
  BY <1>12 DEF EngineTypeOK
<1> QED BY <1>2, <1>4, <1>7, <1>9, <1>10, <1>11, <1>13

-----------------------------------------------------------------------------
\* Which actions write what the process remembers.
LEMMA MemoryWriters ==
    ASSUME EngineNext
    PROVE  \/ me' = me
           \/ Enter \/ Reopen \/ Advance \/ OrphanJob \/ ReconcileDone \/ SkipCase \/ BeginCase
           \/ \E c \in Cases : CloseStaleCase(c) \/ RequeueCase(c)
           \/ \E c \in Cases : \E k \in Rows(c) : OrphanAttempt(c, k)
           \/ PollJob \/ SubmitJob \/ \E answer \in Answers : Invoke(answer)
           \/ NextAttempt \/ StreamMetric \/ Rescore
           \/ me' = Fresh("absent")
BY DEF EngineNext, Work, Start, Resume, LandCancelled, LandComplete,
   LandIncomplete, Crash, CreateRun, InsertCases, ReopenDone,
   RequeueDone, ReopenCase, MarkCase, MissCase, LoopDone, SeeCancel, CreateAttempt,
   StartAttempt, RecordAttempt, ScoreAttempt, CancelCase, ClassifyCase, SettleCase,
   ReportCancelled, PublishMetric, Break, RequestCancel, CancelDirect, stored

\* The places of rows are numbers.
LEMMA RowsAreNat == EngineTypeOK => \A c \in Cases : Rows(c) \subseteq Nat
BY DEF EngineTypeOK, Rows

\* What Engine.run holds in local variables keeps its types.
LEMMA MemoryStep ==
    ASSUME EngineTypeOK, me \in Memory, Position, AttemptKeysUnique, EngineNext
    PROVE  me' \in Memory
<1> USE DEF Memory
<1>1. CASE me' = me
  BY <1>1
<1>2. \A s \in RunStatus : Fresh(s) \in Memory
  BY DEF Fresh
<1>3. CASE Enter \/ me' = Fresh("absent")
  <2>1. "absent" \in RunStatus
    BY StatusSets
  <2> QED BY <1>2, <1>3, <2>1 DEF Enter, EngineTypeOK
<1>15. CASE Reopen
  BY <1>15, StatusSets DEF Reopen
<1>16. CASE Advance
  <2>1. me.stage \in {"draft", "queued", "provisioning"}
    BY <1>16 DEF Position, Advance
  <2>2. NextStage[me.stage] \in RunStatus
    BY <2>1, StatusSets DEF NextStage
  <2> QED BY <1>3, <1>16, <2>2 DEF Advance
<1>4. CASE OrphanJob \/ ReconcileDone
  BY <1>4 DEF OrphanJob, ReconcileDone, Failed
<1>5. CASE SkipCase
  BY <1>5 DEF SkipCase
<1>6. CASE BeginCase
  <2>1. me.at \in Cases
    BY <1>6 DEF BeginCase, Cases
  <2>2. RepeatOffset(me.at) \in Nat /\ 0 \in 0..(Repeats - 1) /\ 0 \in 0..RetryMax
    BY <2>1, OffsetIsBehind
  <2> QED BY <1>6, <2>2 DEF BeginCase
<1>7. CASE \E c \in Cases : CloseStaleCase(c) \/ RequeueCase(c)
  BY <1>7 DEF CloseStaleCase, RequeueCase
<1>8. CASE \E c \in Cases : \E k \in Rows(c) : OrphanAttempt(c, k)
  <2>0. PICK c \in Cases : \E k \in Rows(c) : OrphanAttempt(c, k)
    BY <1>8
  <2> PICK k \in Rows(c) : OrphanAttempt(c, k)
    BY <2>0
  <2>1. <<c, k>> \in Cases \X Nat
    BY RowsAreNat
  <2> QED BY <2>1 DEF OrphanAttempt
<1>9. CASE PollJob
  <2>1. me.at \in Cases
    BY <1>9 DEF PollJob, Position, InCase
  <2>2. PICK k \in Resumable(me.at) : me' = [me EXCEPT !.job = attempts[me.at][k].job.id]
    BY <1>9 DEF PollJob
  <2>3. attempts[me.at][k] \in Attempt /\ attempts[me.at][k].job # NULL
    BY <2>1, <2>2 DEF Resumable, Rows, EngineTypeOK
  <2>4. attempts[me.at][k].job.id \in Nat
    BY <2>3 DEF Attempt
  <2> QED BY <2>2, <2>4
<1>10. CASE SubmitJob
  <2>1. me.at \in Cases
    BY <1>10 DEF SubmitJob, Position, InCase
  <2> QED BY <1>10, <2>1, JobsAreFinite DEF SubmitJob
<1>11. CASE \E answer \in Answers : Invoke(answer)
  <2> PICK answer \in Answers : Invoke(answer)
    BY <1>11
  <2>1. me' = [me EXCEPT !.answer = answer, !.job = NULL] /\ answer \in AllAnswers
    BY DEF Invoke
  <2> QED BY <2>1
<1>12. CASE NextAttempt
  <2>1. Retries => me.no + 1 \in 0..RetryMax
    BY DEF Retries
  <2>2. me.i + 1 < Repeats => me.i + 1 \in 0..(Repeats - 1)
    OBVIOUS
  <2>3. 0 \in 0..RetryMax
    OBVIOUS
  <2>4. CASE Retries /\ me' = [me EXCEPT !.no = @ + 1]
    BY <2>1, <2>4
  <2>5. CASE me.i + 1 < Repeats /\ me' = [me EXCEPT !.i = @ + 1, !.no = 0]
    BY <2>2, <2>3, <2>5
  <2> QED BY <1>1, <1>12, <2>4, <2>5 DEF NextAttempt
<1>13. CASE StreamMetric
  <2>1. me.at \in Cases /\ me.at + 1 \in 1..(NumCases + 1)
    BY <1>13 DEF StreamMetric, Position, InCase, Cases
  <2>2. Landing(me.at) \subseteq Cases \X Nat
    BY <2>1, RowsAreNat DEF Landing, Outcomes, First
  <2> QED BY <1>13, <2>1, <2>2 DEF StreamMetric
<1>14. CASE Rescore
  <2>1. \A c \in Cases : Rescored(c) \subseteq Cases \X Nat
    BY RowsAreNat DEF Rescored, First
  <2> QED BY <1>14, <2>1 DEF Rescore
<1> QED BY <1>1, <1>3, <1>4, <1>5, <1>6, <1>7, <1>8, <1>9, <1>10, <1>11, <1>12, <1>13,
           <1>14, <1>15, <1>16, MemoryWriters

\* Which actions write the fields the invariant speaks of.
LEMMA FieldsKept ==
    ASSUME me \in Memory, EngineNext
    PROVE  /\ \/ me'.landed = me.landed \/ me'.landed = {}
              \/ StreamMetric \/ Rescore
           /\ \/ me'.orphan = me.orphan \/ me'.orphan = NULL
              \/ \E c \in Cases : \E k \in Rows(c) : OrphanAttempt(c, k)
<1> USE DEF Memory
<1>1. CASE me' = me \/ me' = Fresh("absent")
  BY <1>1 DEF Fresh
<1>2. CASE Enter
  BY <1>2 DEF Enter, Fresh
<1>3. CASE OrphanJob \/ ReconcileDone
  BY <1>3 DEF OrphanJob, ReconcileDone
<1>4. CASE SkipCase \/ BeginCase
  BY <1>4 DEF SkipCase, BeginCase
<1>5. CASE \E c \in Cases : CloseStaleCase(c) \/ RequeueCase(c)
  BY <1>5 DEF CloseStaleCase, RequeueCase
<1>6. CASE \E c \in Cases : \E k \in Rows(c) : OrphanAttempt(c, k)
  BY <1>6 DEF OrphanAttempt
<1>7. CASE PollJob \/ SubmitJob
  BY <1>7 DEF PollJob, SubmitJob
<1>8. CASE \E answer \in Answers : Invoke(answer)
  BY <1>8 DEF Invoke
<1>9. CASE NextAttempt
  BY <1>9 DEF NextAttempt
<1>10. CASE StreamMetric
  BY <1>10 DEF StreamMetric
<1>11. CASE Rescore
  BY <1>11 DEF Rescore
<1>12. CASE Reopen \/ Advance
  BY <1>12, <1>1 DEF Reopen, Advance
<1> QED BY <1>1, <1>2, <1>3, <1>4, <1>5, <1>6, <1>7, <1>8, <1>9, <1>10, <1>11, <1>12, MemoryWriters

\* Rows are only ever added.
LEMMA RowsGrow ==
    ASSUME Numbered, EngineNext
    PROVE  \A c \in Cases : Rows(c) \subseteq Rows(c)'
<1> USE DEF Numbered
<1>1. CASE SameKeys
  BY <1>1 DEF SameKeys, Rows
<1>2. CASE CreateAttempt
  <2>1. me.at \in Cases
    BY <1>2 DEF Position, InCase, CreateAttempt
  <2>2. \A c \in Cases : Len(attempts[c]) \in Nat
    BY DEF EngineTypeOK
  <2> QED BY <1>2, <2>1, <2>2, AppendedRow DEF Rows
<1> QED BY <1>1, <1>2, RowsStep

\* Which actions publish a metric.
LEMMA MetricWriters ==
    ASSUME EngineNext
    PROVE  metric' = metric \/ StreamMetric \/ ReportCancelled \/ PublishMetric
BY DEF EngineNext, Work, CreateRun, InsertCases, Start, Resume, Enter, Reopen,
   ReopenDone, Advance, ReconcileDone, RequeueDone, ReopenCase, CloseStaleCase,
   RequeueCase, MarkCase, SkipCase, BeginCase, MissCase, LoopDone, SeeCancel,
   PollJob, NextAttempt, CancelCase, ClassifyCase, SettleCase, LandCancelled,
   Rescore, LandComplete, LandIncomplete, Break, Crash, RequestCancel,
   CancelDirect, OrphanAttempt, OrphanJob, CreateAttempt, StartAttempt,
   SubmitJob, Invoke, RecordAttempt, ScoreAttempt, stored

\* Samples keep pointing at rows, since rows are only ever added.
LEMMA SamplesStep ==
    ASSUME Numbered, EngineNext
    PROVE  \A s \in metric'.samples \cup me'.landed : s[1] \in Cases /\ s[2] \in Rows(s[1])'
<1> USE DEF Numbered
<1>1. \A c \in Cases : Rows(c) \subseteq Rows(c)'
  BY RowsGrow
<1> DEFINE Sound(S) == \A s \in S : s[1] \in Cases /\ s[2] \in Rows(s[1])
<1>2. Sound(metric.samples) /\ Sound(me.landed)
  BY DEF EngineTypeOK
<1>3. \A c \in Cases : Sound(Landing(c)) /\ Sound(Rescored(c))
  BY DEF Landing, Outcomes, Rescored, First
<1>4. Sound(me'.landed)
  <2>1. \/ me'.landed = me.landed \/ me'.landed = {}
        \/ StreamMetric \/ Rescore
    BY FieldsKept
  <2>2. CASE StreamMetric
    BY <1>2, <1>3, <2>2 DEF StreamMetric, Position, InCase, Memory
  <2>3. CASE Rescore
    BY <1>2, <1>3, <2>3 DEF Rescore, Memory
  <2> QED BY <1>2, <2>1, <2>2, <2>3
<1>5. Sound(metric'.samples)
  <2>1. metric' = metric \/ StreamMetric \/ ReportCancelled \/ PublishMetric
    BY MetricWriters
  <2>2. CASE StreamMetric
    BY <1>2, <1>3, <2>2 DEF StreamMetric, Aggregate, Position, InCase
  <2>3. CASE ReportCancelled \/ PublishMetric
    BY <1>2, <2>3 DEF ReportCancelled, PublishMetric, Aggregate
  <2> QED BY <1>2, <2>1, <2>2, <2>3
<1> QED BY <1>1, <1>4, <1>5

\* Which actions lead to, or keep, a place within an attempt.
LEMMA AttemptFlow ==
    ASSUME EngineNext
    PROVE  \/ pc' \notin InAttempt \cup {"create"}
           \/ RequestCancel \/ CancelDirect \/ BeginCase \/ CreateAttempt \/ StartAttempt \/ PollJob
           \/ SubmitJob \/ (\E answer \in Answers : Invoke(answer))
           \/ RecordAttempt \/ ScoreAttempt \/ NextAttempt
<1> USE DEF InAttempt
<1>1. CASE CreateRun \/ InsertCases \/ Start \/ Resume
  BY <1>1 DEF CreateRun, InsertCases, Start, Resume, Enter
<1>2. CASE Reopen \/ ReopenDone \/ ReconcileDone \/ RequeueDone \/ Advance
  BY <1>2 DEF Reopen, ReopenDone, ReconcileDone, RequeueDone, Advance
<1>3. CASE \E c \in Cases : ReopenCase(c) \/ CloseStaleCase(c) \/ RequeueCase(c) \/ MarkCase(c)
  BY <1>3 DEF ReopenCase, CloseStaleCase, RequeueCase, MarkCase, Reconciled
<1>4. CASE OrphanJob \/ \E c \in Cases : \E k \in Rows(c) : OrphanAttempt(c, k)
  BY <1>4 DEF OrphanJob, OrphanAttempt
<1>5. CASE SkipCase \/ MissCase \/ LoopDone \/ SeeCancel
  BY <1>5 DEF SkipCase, MissCase, LoopDone, SeeCancel
<1>6. CASE CancelCase \/ ClassifyCase \/ SettleCase \/ StreamMetric
  BY <1>6 DEF CancelCase, ClassifyCase, SettleCase, StreamMetric
<1>7. CASE ReportCancelled \/ LandCancelled \/ Rescore \/ PublishMetric
  BY <1>7 DEF ReportCancelled, LandCancelled, Rescore, PublishMetric
<1>8. CASE LandComplete \/ LandIncomplete \/ Break \/ Crash
  BY <1>8 DEF LandComplete, LandIncomplete, Break, Crash
<1> QED BY <1>1, <1>2, <1>3, <1>4, <1>5, <1>6, <1>7, <1>8 DEF EngineNext, Work

\* Where the engine stands in its case agrees with what it holds: an attempt
\* is scored only with a verdict, a run advances only from its early statuses.
LEMMA PositionStep ==
    ASSUME Numbered, EngineNext
    PROVE  Position'
<1> USE DEF Numbered
<1>1. pc' \in InCase => me'.at \in Cases
  <2>1. CASE me'.at = me.at /\ pc \in InCase
    BY <2>1 DEF Position
  <2>2. \/ me'.at = me.at /\ pc \in InCase
        \/ pc' \notin InCase
        \/ BeginCase
    BY DEF EngineNext, Work, CreateRun, InsertCases, Start, Resume, Enter, Reopen,
       ReopenDone, Advance, ReconcileDone, RequeueDone, ReopenCase, CloseStaleCase,
       RequeueCase, MarkCase, SkipCase, MissCase, LoopDone, SeeCancel, PollJob,
       NextAttempt, CancelCase, ClassifyCase, SettleCase, StreamMetric,
       ReportCancelled, LandCancelled, Rescore, PublishMetric, LandComplete,
       LandIncomplete, Break, Crash, RequestCancel, CancelDirect, OrphanAttempt,
       OrphanJob, CreateAttempt, StartAttempt, SubmitJob, Invoke, RecordAttempt,
       ScoreAttempt, stored, Memory, InCase
  <2>3. CASE BeginCase
    BY <2>3 DEF BeginCase, Cases, Memory
  <2> QED BY <2>1, <2>2, <2>3
<1>2. me'.orphan # NULL => me'.orphan[2] \in Rows(me.orphan[1])'
  <2>1. \/ me'.orphan = me.orphan \/ me'.orphan = NULL
        \/ \E c \in Cases : \E k \in Rows(c) : OrphanAttempt(c, k)
    BY FieldsKept
  <2>2. CASE me'.orphan = me.orphan
    <3>1. me.orphan # NULL => me.orphan[1] \in Cases
      BY DEF Memory
    <3> QED BY <2>2, <3>1, RowsGrow DEF Position
  <2>3. CASE \E c \in Cases : \E k \in Rows(c) : OrphanAttempt(c, k)
    <3>0. PICK c \in Cases : \E k \in Rows(c) : OrphanAttempt(c, k)
      BY <2>3
    <3> PICK k \in Rows(c) : OrphanAttempt(c, k)
      BY <3>0
    <3>1. me'.orphan = <<c, k>>
      BY DEF OrphanAttempt, Memory
    <3> QED BY <3>1, RowsGrow
  <2> QED BY <2>1, <2>2, <2>3
<1>3. pc' = "record" => me'.answer \in AllAnswers
  <2>1. CASE RequestCancel \/ CancelDirect
    BY <2>1 DEF RequestCancel, CancelDirect, Position, stored
  <2>2. CASE \E answer \in Answers : Invoke(answer)
    BY <2>2 DEF Invoke, Memory
  <2>3. CASE BeginCase \/ CreateAttempt \/ StartAttempt \/ PollJob \/ SubmitJob
    BY <2>3 DEF BeginCase, CreateAttempt, StartAttempt, PollJob, SubmitJob
  <2>4. CASE RecordAttempt \/ ScoreAttempt \/ NextAttempt
    BY <2>4 DEF RecordAttempt, ScoreAttempt, NextAttempt
  <2> QED BY <2>1, <2>2, <2>3, <2>4, AttemptFlow DEF InAttempt
<1>4. pc' = "score" => me'.answer \in Completed
  <2>1. CASE RequestCancel \/ CancelDirect
    BY <2>1 DEF RequestCancel, CancelDirect, Position, stored
  <2>2. CASE \E answer \in Answers : Invoke(answer)
    BY <2>2 DEF Invoke
  <2>3. CASE BeginCase \/ CreateAttempt \/ StartAttempt \/ PollJob \/ SubmitJob
    BY <2>3 DEF BeginCase, CreateAttempt, StartAttempt, PollJob, SubmitJob
  <2>4. CASE RecordAttempt \/ ScoreAttempt \/ NextAttempt
    BY <2>4 DEF RecordAttempt, ScoreAttempt, NextAttempt
  <2> QED BY <2>1, <2>2, <2>3, <2>4, AttemptFlow DEF InAttempt
<1>5. pc' = "advance" => me'.stage \in {"draft", "queued", "provisioning"}
  <2>1. \/ pc' # "advance"
        \/ pc = "advance" /\ me' = me
        \/ Start \/ Resume \/ ReopenDone \/ Advance
    BY DEF Reconciled, EngineNext, Work, CreateRun, InsertCases, Reopen, ReconcileDone,
       RequeueDone, ReopenCase, CloseStaleCase, RequeueCase, MarkCase, SkipCase,
       BeginCase, MissCase, LoopDone, SeeCancel, PollJob, NextAttempt, CancelCase,
       ClassifyCase, SettleCase, StreamMetric, ReportCancelled, LandCancelled,
       Rescore, PublishMetric, LandComplete, LandIncomplete, Break, Crash,
       RequestCancel, CancelDirect, OrphanAttempt, OrphanJob, CreateAttempt,
       StartAttempt, SubmitJob, Invoke, RecordAttempt, ScoreAttempt, stored
  <2>2. CASE Start \/ Resume
    BY <2>2 DEF Start, Resume, Enter, Fresh
  <2>3. CASE ReopenDone
    BY <2>3 DEF ReopenDone, Position, stored
  <2>4. CASE Advance
    BY <2>4 DEF Advance, NextStage, Position, Memory
  <2> QED BY <2>1, <2>2, <2>3, <2>4 DEF Position
<1>6. pc' = "reopen_cases" => me'.stage = "queued"
  <2>1. \/ pc' # "reopen_cases"
        \/ pc = "reopen_cases" /\ me' = me
        \/ Reopen
    BY DEF Reconciled, EngineNext, Work, CreateRun, InsertCases, Start, Resume, Enter,
       ReopenDone, Advance, ReconcileDone, RequeueDone, ReopenCase, CloseStaleCase,
       RequeueCase, MarkCase, SkipCase, BeginCase, MissCase, LoopDone, SeeCancel,
       PollJob, NextAttempt, CancelCase, ClassifyCase, SettleCase, StreamMetric,
       ReportCancelled, LandCancelled, Rescore, PublishMetric, LandComplete,
       LandIncomplete, Break, Crash, RequestCancel, CancelDirect, OrphanAttempt,
       OrphanJob, CreateAttempt, StartAttempt, SubmitJob, Invoke, RecordAttempt,
       ScoreAttempt, stored
  <2>2. CASE Reopen
    BY <2>2 DEF Reopen, Memory
  <2> QED BY <2>1, <2>2 DEF Position
<1> QED BY <1>1, <1>2, <1>3, <1>4, <1>5, <1>6 DEF Position

-----------------------------------------------------------------------------
\* The steps within an attempt keep its row the last, under the same key.
LEMMA NumberingWithinAttempt ==
    ASSUME Numbered, EngineNext, pc \in InAttempt, pc' # "create",
           me'.at = me.at, me'.base = me.base, me'.i = me.i, me'.no = me.no
    PROVE  Numbering'
<1> USE DEF Numbered
<1>1. me.at \in Cases
  BY DEF Position, InAttempt, InCase
<1>2. SameKeys
  BY RowsStep DEF CreateAttempt, InAttempt
<1>3. Len(attempts'[me.at]) = Len(attempts[me.at])
  BY <1>1, <1>2 DEF SameKeys
<1>4. Current \in Rows(me.at) /\ Current' = Current /\ Rows(me.at)' = Rows(me.at)
  BY <1>3 DEF Numbering, Current, Rows
<1>5. /\ attempts'[me.at][Current].rep = attempts[me.at][Current].rep
      /\ attempts'[me.at][Current].no = attempts[me.at][Current].no
  BY <1>1, <1>2, <1>4 DEF SameKeys
<1> QED BY <1>4, <1>5 DEF Numbering, Key

\* A new key is behind the rows it will follow; a new row is the last.
LEMMA NumberingStep ==
    ASSUME Numbered, EngineNext
    PROVE  Numbering'
<1> USE DEF Numbered
<1>1. CASE pc' \notin InAttempt \cup {"create"}
  BY <1>1 DEF Numbering
<1>2. CASE RequestCancel \/ CancelDirect
  BY <1>2 DEF RequestCancel, CancelDirect, stored, Numbering, Rows, Current, Key, Before
<1>3. CASE BeginCase
  <2>1. me.at \in Cases
    BY <1>3 DEF BeginCase, Cases, Memory
  <2>2. /\ pc' = "create" /\ attempts' = attempts
        /\ me'.at = me.at /\ me'.base = RepeatOffset(me.at) /\ me'.i = 0 /\ me'.no = 0
    BY <1>3 DEF BeginCase, Memory
  <2>3. RepeatOffset(me.at) \in Nat
    BY <2>1, OffsetIsBehind
  <2>4. Key'.rep = RepeatOffset(me.at)
    BY <2>2, <2>3 DEF Key
  <2>5. \A k \in Rows(me.at) : attempts[me.at][k].rep < RepeatOffset(me.at)
    BY <2>1, OffsetIsBehind
  <2>6. Rows(me.at)' = Rows(me.at) /\ attempts'[me'.at] = attempts[me.at]
    BY <2>2 DEF Rows
  <2> HIDE DEF Numbered
  <2> QED BY <2>2, <2>4, <2>5, <2>6 DEF Numbering, Before, InAttempt
<1>4. CASE CreateAttempt
  <2>1. me.at \in Cases /\ pc' = "start" /\ me' = me
    BY <1>4 DEF CreateAttempt, Position, InCase
  <2>2. Len(attempts[me.at]) \in Nat
    BY <2>1 DEF EngineTypeOK
  <2>3. Current' = Len(attempts[me.at]) + 1 /\ Current' \in Rows(me.at)'
    BY <1>4, <2>1, <2>2, AppendedRow DEF Current, Rows
  <2>4. attempts'[me'.at][Current'] = NewAttempt(me.base + me.i, me.no)
    BY <1>4, <2>1, <2>3, AppendedRow
  <2> QED BY <2>1, <2>3, <2>4 DEF Numbering, Key, NewAttempt
<1>5. CASE StartAttempt \/ RecordAttempt \/ ScoreAttempt
  <2>1. pc \in InAttempt /\ pc' # "create" /\ me' = me
    BY <1>5 DEF StartAttempt, RecordAttempt, ScoreAttempt, InAttempt
  <2> QED BY <2>1, NumberingWithinAttempt
<1>6. CASE PollJob \/ SubmitJob
  <2>1. pc \in InAttempt /\ pc' # "create"
    BY <1>6 DEF PollJob, SubmitJob, InAttempt
  <2>2. me'.at = me.at /\ me'.base = me.base /\ me'.i = me.i /\ me'.no = me.no
    BY <1>6 DEF PollJob, SubmitJob, Memory
  <2> QED BY <2>1, <2>2, NumberingWithinAttempt
<1>7. CASE \E answer \in Answers : Invoke(answer)
  <2>1. pc \in InAttempt /\ pc' # "create"
    BY <1>7 DEF Invoke, InAttempt
  <2>2. me'.at = me.at /\ me'.base = me.base /\ me'.i = me.i /\ me'.no = me.no
    BY <1>7 DEF Invoke, Memory
  <2> QED BY <2>1, <2>2, NumberingWithinAttempt
<1>8. CASE NextAttempt
  <2>1. me.at \in Cases /\ attempts' = attempts
    BY <1>8 DEF NextAttempt, stored, Position, InCase
  <2>2. /\ Current \in Rows(me.at)
        /\ attempts[me.at][Current].rep = me.base + me.i
        /\ attempts[me.at][Current].no = me.no
    BY <1>8 DEF NextAttempt, Numbering, InAttempt, Key
  <2>3. \A k \in Rows(me.at) : /\ attempts[me.at][k].rep \in Nat
                               /\ attempts[me.at][k].no \in Nat
    <3>1. \A k \in Rows(me.at) : attempts[me.at][k] \in Attempt
      BY <2>1 DEF EngineTypeOK, Rows
    <3> QED BY <3>1 DEF Attempt
  <2>4. \A k \in Rows(me.at) : \/ attempts[me.at][k].rep < me.base + me.i
                               \/ /\ attempts[me.at][k].rep = me.base + me.i
                                  /\ attempts[me.at][k].no <= me.no
    <3>1. \A k \in Rows(me.at) : k = Current \/ k < Current
      BY <2>1 DEF EngineTypeOK, Rows, Current
    <3>2. \A k \in Rows(me.at) : k < Current =>
             \/ attempts[me.at][k].rep < attempts[me.at][Current].rep
             \/ /\ attempts[me.at][k].rep = attempts[me.at][Current].rep
                /\ attempts[me.at][k].no < attempts[me.at][Current].no
      BY <2>1, <2>2 DEF AttemptKeysUnique
    <3> QED BY <2>2, <2>3, <3>1, <3>2 DEF Memory
  <2>5. CASE Retries /\ me' = [me EXCEPT !.no = @ + 1] /\ pc' = "create"
    <3>1. me'.at = me.at /\ Rows(me.at)' = Rows(me.at)
      BY <2>1, <2>5 DEF Rows, Memory
    <3>2. Key'.rep = me.base + me.i /\ Key'.no = me.no + 1
      BY <2>5 DEF Key, Memory
    <3>3. \A k \in Rows(me.at) : Before(attempts[me.at][k], Key')
      BY <2>3, <2>4, <3>2 DEF Before, Memory
    <3> QED BY <2>1, <2>5, <3>1, <3>3 DEF Numbering, InAttempt, Before
  <2>6. CASE me' = [me EXCEPT !.i = @ + 1, !.no = 0] /\ pc' = "create"
    <3>1. me'.at = me.at /\ Rows(me.at)' = Rows(me.at)
      BY <2>1, <2>6 DEF Rows, Memory
    <3>2. Key'.rep = me.base + me.i + 1 /\ Key'.no = 0
      BY <2>6 DEF Key, Memory
    <3>3. \A k \in Rows(me.at) : Before(attempts[me.at][k], Key')
      BY <2>3, <2>4, <3>2 DEF Before, Memory
    <3> QED BY <2>1, <2>6, <3>1, <3>3 DEF Numbering, InAttempt, Before
  <2> QED BY <1>8, <1>1, <2>5, <2>6 DEF NextAttempt, InAttempt
<1> QED BY <1>1, <1>2, <1>3, <1>4, <1>5, <1>6, <1>7, <1>8, AttemptFlow

\* Keys ascend: a new row carries a key behind all others.
LEMMA KeysStep ==
    ASSUME Numbered, EngineNext
    PROVE  AttemptKeysUnique'
<1> USE DEF Numbered
<1>1. CASE SameKeys
  <2>1. \A c \in Cases : Rows(c)' = Rows(c)
    BY <1>1 DEF SameKeys, Rows
  <2> QED BY <1>1, <2>1 DEF SameKeys, AttemptKeysUnique
<1>2. CASE CreateAttempt
  <2> DEFINE new == Len(attempts[me.at]) + 1
  <2>1. me.at \in Cases
    BY <1>2 DEF CreateAttempt, Position, InCase
  <2>2. Len(attempts[me.at]) \in Nat
    BY <2>1 DEF EngineTypeOK
  <2>3. ASSUME NEW c \in Cases, c # me.at, NEW k \in Rows(c)', NEW l \in Rows(c)', k < l
        PROVE  Before(attempts'[c][k], attempts'[c][l])
    <3>1. attempts'[c] = attempts[c]
      BY <1>2, <2>1, <2>3, AppendedRow
    <3> QED BY <2>3, <3>1 DEF AttemptKeysUnique, Rows, Before
  <2>4. ASSUME NEW k \in Rows(me.at), NEW l \in Rows(me.at), k < l
        PROVE  Before(attempts'[me.at][k], attempts'[me.at][l])
    <3>1. attempts'[me.at][k] = attempts[me.at][k] /\ attempts'[me.at][l] = attempts[me.at][l]
      BY <1>2, <2>1, AppendedRow
    <3> QED BY <2>1, <2>4, <3>1 DEF AttemptKeysUnique, Before
  <2>5. ASSUME NEW k \in Rows(me.at)
        PROVE  Before(attempts'[me.at][k], attempts'[me.at][new])
    <3>1. /\ attempts'[me.at][k] = attempts[me.at][k]
          /\ attempts'[me.at][new] = NewAttempt(me.base + me.i, me.no)
      BY <1>2, <2>1, AppendedRow
    <3>2. Before(attempts[me.at][k], Key)
      BY <1>2 DEF CreateAttempt, Numbering
    <3> QED BY <3>1, <3>2 DEF Before, Key, NewAttempt
  <2>6. \A k, l \in 1..new : k < l => Before(attempts'[me.at][k], attempts'[me.at][l])
    <3>1. \A k \in 1..new : k = new \/ k \in Rows(me.at)
      BY <2>2 DEF Rows
    <3>2. \A k, l \in 1..new : k < l => k \in Rows(me.at)
      BY <2>2 DEF Rows
    <3> HIDE DEF new
    <3> QED BY <2>4, <2>5, <3>1, <3>2
  <2>7. \A c \in Cases : Rows(c)' = 1..(IF c = me.at THEN new ELSE Len(attempts[c]))
    BY <1>2, <2>1, AppendedRow DEF Rows
  <2> HIDE DEF new
  <2>8. \A c \in Cases : \A k, l \in Rows(c)' :
           k < l => Before(attempts'[c][k], attempts'[c][l])
    BY <2>1, <2>3, <2>6, <2>7
  <2> QED BY <2>8 DEF AttemptKeysUnique, Before
<1> QED BY <1>1, <1>2, RowsStep

\* A step that changes nothing keeps the invariant.
LEMMA NumberedStutters ==
    ASSUME Numbered, UNCHANGED engineVars
    PROVE  Numbered'
BY DEF Numbered, engineVars, stored, EngineTypeOK, Memory, Position, Numbering,
       AttemptKeysUnique, Rows, Current, Key, Before

\* The strengthened invariant holds in every reachable state of the engine, so
\* the numbering of attempts (engine.py, _run_case_inner) survives any crash.
THEOREM EngineNumbered == EngineSpec => []Numbered
<1>1. EngineInit => Numbered
  BY NumberedInit
<1>2. Numbered /\ [EngineNext]_engineVars => Numbered'
  <2> SUFFICES ASSUME Numbered, [EngineNext]_engineVars PROVE Numbered'
    OBVIOUS
  <2>1. CASE EngineNext
    <3>1. me' \in Memory
      BY <2>1, MemoryStep DEF Numbered
    <3>2. EngineTypeOK'
      <4>1. /\ run' \in RunStatus /\ case' \in [Cases -> CaseStatus]
            /\ class' \in [Cases -> Classes \cup {NULL}]
            /\ metric'.state \in {"NONE", "IN_PROGRESS", "PARTIAL", "COMPLETE"}
            /\ pc' \in PC /\ cancel' \in BOOLEAN /\ upsets' \in 0..MaxUpsets
        BY <2>1, StatusStep DEF Numbered
      <4>2. attempts' \in [Cases -> Seq(Attempt)]
        BY <2>1, RowsStep
      <4>3. /\ me'.at \in 1..(NumCases + 1) /\ me'.i \in 0..(Repeats - 1)
            /\ me'.no \in 0..RetryMax
        BY <3>1 DEF Memory
      <4>4. \A s \in metric'.samples \cup me'.landed : s[1] \in Cases /\ s[2] \in Rows(s[1])'
        BY <2>1, SamplesStep
      <4> QED BY <4>1, <4>2, <4>3, <4>4 DEF EngineTypeOK
    <3>3. Position' /\ Numbering' /\ AttemptKeysUnique'
      BY <2>1, PositionStep, NumberingStep, KeysStep
    <3> QED BY <3>1, <3>2, <3>3 DEF Numbered, Memory
  <2>2. CASE UNCHANGED engineVars
    BY <2>2, NumberedStutters
  <2> QED BY <2>1, <2>2
<1> QED BY <1>1, <1>2, PTL DEF EngineSpec

\* Whatever is interrupted, retried, repeated or resumed, no attempt key is
\* used twice and the numbering continues (engine.py, _run_case_inner).
THEOREM EngineAttemptKeysUnique == EngineSpec => []AttemptKeysUnique
<1>1. Numbered => AttemptKeysUnique
  BY DEF Numbered
<1> QED BY <1>1, EngineNumbered, PTL

\* The stored rows and the process keep their types (engine.py, Engine.run).
THEOREM EngineTypes == EngineSpec => []EngineTypeOK
<1>1. Numbered => EngineTypeOK
  BY DEF Numbered
<1> QED BY <1>1, EngineNumbered, PTL

-----------------------------------------------------------------------------
(***************************************************************************)
(* The course of an execution: what the database holds wherever the        *)
(* process stands.                                                         *)
(***************************************************************************)
\* Before the loop; at a row not settled yet; after the loop; and every place
\* at which the run is running or aggregating.
Entering == {"reopen", "reopen_cases", "advance", "reconcile", "requeue"}
Open == {"start", "submit", "invoke", "record"}
Closing == {"rescore", "publish", "complete"}
Live == InCase \cup {"reconcile", "requeue", "loop", "mark", "land", "rescore", "raise"}

RunAt ==
    /\ pc = "insert" => run \in {"draft", "cancelled"}
    /\ pc = "reopen" => run \in {"cancelled", "incomplete"}
    /\ pc = "reopen_cases" => run \in {"queued", "cancelled"}
    /\ pc = "advance" => run \in {me.stage, "cancelled"}
    /\ pc \in Live => run \in {"running", "aggregating", "cancelled"}
    /\ pc \in {"publish", "complete"} => run \in {"aggregating", "cancelled"}

Requeueing ==
    /\ pc \in Entering => me.at = 1 /\ me.executed = {}
    /\ pc \in {"reopen", "reopen_cases", "advance"} => me.requeue = {}
    /\ pc \in {"reconcile", "requeue"} => \A c \in me.requeue : case[c] \in {"cancelled", "failed"}

RowAt ==
    /\ pc = "start" => attempts[me.at][Current].status = "queued"
    /\ pc \in {"submit", "invoke", "record"} => attempts[me.at][Current].status = "running"

CaseAt ==
    /\ pc \in InCase \ {"stream"} => case[me.at] = "running"
    /\ pc = "stream" => Finished(me.at)
    /\ pc \in InCase \cup {"loop"} => \A b \in Cases : b < me.at => Finished(b)
    /\ pc \in Closing => \A c \in Cases : Finished(c)

\* CallsAreLegal is inductive only together with what the statuses are at
\* every place of the engine's flow, not only at the calls.
OnCourse == RunAt /\ Requeueing /\ RowAt /\ CaseAt

\* The run's status keeps step with the process (lifecycle.py, RUN_TRANSITIONS).
LEMMA RunAtStep ==
    ASSUME Numbered, OnCourse, EngineNext
    PROVE  RunAt'
<1> USE StatusSets DEF OnCourse
<1>1. \/ pc' = "idle"
      \/ run' = run /\ pc' = pc /\ me'.stage = me.stage
      \/ run' = run /\ pc \in Live /\ pc' \in Live
      \/ run' = run /\ pc \in {"publish", "complete"} /\ pc' \in {"complete", "raise"}
      \/ CreateRun \/ Start \/ Resume \/ Advance \/ Rescore \/ LandCancelled
      \/ Reopen \/ ReopenDone \/ CancelDirect
  <2>1. CASE InsertCases \/ LandComplete \/ LandIncomplete \/ Crash
    BY <2>1 DEF InsertCases, LandComplete, LandIncomplete, Crash
  <2>2. CASE \/ ReconcileDone \/ RequeueDone \/ BeginCase \/ MissCase \/ LoopDone \/ SeeCancel
             \/ StreamMetric \/ ReportCancelled \/ PublishMetric \/ Break
    BY <2>2 DEF Live, InCase, ReconcileDone, Reconciled, RequeueDone, BeginCase, MissCase,
       LoopDone, SeeCancel, StreamMetric, ReportCancelled, PublishMetric, Break, stored
  <2>3. CASE \/ CreateAttempt \/ StartAttempt \/ PollJob \/ SubmitJob \/ RecordAttempt
             \/ ScoreAttempt \/ NextAttempt \/ CancelCase \/ ClassifyCase \/ SettleCase
             \/ \E answer \in Answers : Invoke(answer)
    BY <2>3 DEF Live, InCase, CreateAttempt, StartAttempt, PollJob, SubmitJob, Invoke,
       RecordAttempt, ScoreAttempt, NextAttempt, CancelCase, ClassifyCase, SettleCase, stored
  <2>4. CASE \/ \E c \in Cases : ReopenCase(c) \/ CloseStaleCase(c) \/ RequeueCase(c) \/ MarkCase(c)
             \/ \E c \in Cases : \E k \in Rows(c) : OrphanAttempt(c, k)
             \/ OrphanJob \/ SkipCase \/ RequestCancel
    BY <2>4 DEF ReopenCase, CloseStaleCase, RequeueCase, MarkCase, OrphanAttempt,
       OrphanJob, SkipCase, RequestCancel, stored, Numbered, Memory
  <2> QED BY <2>1, <2>2, <2>3, <2>4 DEF EngineNext, Work
<1>2. CASE CreateRun
  BY <1>2 DEF CreateRun, SetRun, RunAt, Live, InCase
<1>3. CASE Start \/ Resume
  BY <1>3 DEF Start, Resume, Enter, Unfinished, Fresh, stored, RunAt, Live, InCase
<1>4. CASE Advance
  <2>1. CASE pc' = "idle"
    BY <2>1 DEF RunAt, Live, InCase
  <2>2. CASE /\ run' = NextStage[me.stage] /\ me' = [me EXCEPT !.stage = NextStage[me.stage]]
             /\ pc' = IF NextStage[me.stage] = "running" THEN "reconcile" ELSE pc
    <3>1. /\ me.stage \in {"draft", "queued", "provisioning"} /\ pc = "advance"
          /\ me'.stage = NextStage[me.stage]
      BY <1>4, <2>2 DEF Advance, Numbered, Position, Memory
    <3> QED BY <2>2, <3>1 DEF NextStage, RunAt, Live, InCase
  <2> QED BY <1>4, <2>1, <2>2 DEF Advance, SetRun
<1>5. CASE Rescore
  BY <1>5 DEF Rescore, SetRun, RunMay, RunMoves, RunAt, Live, InCase
<1>6. CASE LandCancelled
  BY <1>6 DEF LandCancelled, RunAt, Live, InCase
<1>7. CASE run' = run /\ pc' = pc /\ me'.stage = me.stage
  BY <1>7 DEF RunAt
<1>9. CASE Reopen
  BY <1>9 DEF Reopen, SetRun, RunAt, Live, InCase
<1>10. CASE ReopenDone
  BY <1>10 DEF ReopenDone, stored, Numbered, Position, RunAt, Live, InCase
<1>11. CASE CancelDirect
  BY <1>11 DEF CancelDirect, SetRun, RunAt, Live, InCase
<1>8. CASE run' = run /\ pc \in Live /\ pc' \in Live
  BY <1>8 DEF RunAt, Live, InCase
<1> QED BY <1>1, <1>2, <1>3, <1>4, <1>5, <1>6, <1>7, <1>8, <1>9, <1>10, <1>11
        DEF RunAt, Live, InCase

\* What is to be requeued was cancelled or had failed (_reconcile_stale).
LEMMA RequeueingStep ==
    ASSUME Numbered, OnCourse, EngineNext
    PROVE  Requeueing'
<1> USE DEF OnCourse
<1>0. me \in Memory /\ case \in [Cases -> CaseStatus]
  BY DEF Numbered, EngineTypeOK
<1>1. \/ pc' \notin Entering
      \/ case' = case /\ me' = me /\ pc' = pc
      \/ Start \/ Resume \/ Reopen \/ ReopenDone \/ Advance
      \/ \E c \in Cases : ReopenCase(c) \/ CloseStaleCase(c) \/ RequeueCase(c)
      \/ \E c \in Cases : \E k \in Rows(c) : OrphanAttempt(c, k)
      \/ OrphanJob \/ ReconcileDone
  BY DEF Entering, EngineNext, Work, CreateRun, InsertCases, RequeueDone, MarkCase,
     SkipCase, BeginCase, MissCase, LoopDone, SeeCancel, PollJob, NextAttempt,
     CancelCase, ClassifyCase, SettleCase, StreamMetric, ReportCancelled,
     LandCancelled, Rescore, PublishMetric, LandComplete, LandIncomplete, Break,
     Crash, RequestCancel, CancelDirect, CreateAttempt, StartAttempt, SubmitJob,
     Invoke, RecordAttempt, ScoreAttempt, stored
<1>2. CASE Start \/ Resume
  BY <1>2 DEF Start, Resume, Enter, Fresh, Requeueing
<1>3. CASE Reopen \/ ReopenDone \/ Advance
  BY <1>0, <1>3 DEF Reopen, ReopenDone, Advance, stored, Requeueing, Entering, Memory
<1>4. CASE \E c \in Cases : ReopenCase(c)
  BY <1>4 DEF ReopenCase, Requeueing, Entering
<1>5. ASSUME NEW c \in Cases, CloseStaleCase(c)
      PROVE  Requeueing'
  <2>1. /\ pc = "reconcile" /\ pc' = pc
        /\ case' = [case EXCEPT ![c] = "cancelled"]
        /\ me'.requeue = me.requeue \cup {c} /\ me'.at = me.at /\ me'.executed = me.executed
    BY <1>0, <1>5 DEF CloseStaleCase, Reconciled, SetCase, Memory
  <2>2. me.at = 1 /\ me.executed = {} /\ \A b \in me.requeue : case[b] \in {"cancelled", "failed"}
    BY <2>1 DEF Requeueing, Entering
  <2>3. \A b \in me'.requeue : case'[b] \in {"cancelled", "failed"}
    BY <1>0, <2>1, <2>2 DEF Memory
  <2> QED BY <2>1, <2>2, <2>3 DEF Requeueing
<1>6. ASSUME NEW c \in Cases, RequeueCase(c)
      PROVE  Requeueing'
  <2>1. /\ pc = "requeue" /\ pc' = pc
        /\ case' = [case EXCEPT ![c] = "queued"]
        /\ me'.requeue = me.requeue \ {c} /\ me'.at = me.at /\ me'.executed = me.executed
    BY <1>0, <1>6 DEF RequeueCase, SetCase, Memory
  <2>2. me.at = 1 /\ me.executed = {} /\ \A b \in me.requeue : case[b] \in {"cancelled", "failed"}
    BY <2>1 DEF Requeueing, Entering
  <2>3. \A b \in me'.requeue : case'[b] \in {"cancelled", "failed"}
    BY <1>0, <2>1, <2>2 DEF Memory
  <2> QED BY <2>1, <2>2, <2>3 DEF Requeueing
<1>7. CASE OrphanJob \/ \E c \in Cases : \E k \in Rows(c) : OrphanAttempt(c, k)
  <2>1. /\ pc = "reconcile" /\ pc' = pc /\ case' = case
        /\ me'.requeue = me.requeue /\ me'.at = me.at /\ me'.executed = me.executed
    BY <1>0, <1>7 DEF OrphanJob, OrphanAttempt, Memory
  <2> QED BY <2>1 DEF Requeueing, Entering
<1>8. CASE ReconcileDone
  <2>1. /\ pc = "reconcile" /\ pc' = "requeue" /\ case' = case
        /\ me'.requeue \subseteq me.requeue \cup Failed
        /\ me'.at = me.at /\ me'.executed = me.executed
    BY <1>0, <1>8 DEF ReconcileDone, Reconciled, stored, Memory
  <2>2. me.at = 1 /\ me.executed = {} /\ \A b \in me.requeue : case[b] \in {"cancelled", "failed"}
    BY <2>1 DEF Requeueing, Entering
  <2>3. \A b \in me'.requeue : case'[b] \in {"cancelled", "failed"}
    BY <2>1, <2>2 DEF Failed
  <2> QED BY <2>1, <2>2, <2>3 DEF Requeueing
<1>9. CASE pc' \notin Entering
  BY <1>9 DEF Entering, Requeueing
<1>10. CASE case' = case /\ me' = me /\ pc' = pc
  BY <1>10 DEF Requeueing
<1> QED BY <1>1, <1>2, <1>3, <1>4, <1>5, <1>6, <1>7, <1>8, <1>9, <1>10

\* A row of the current attempt is queued, then running, until it is recorded.
LEMMA RowAtStep ==
    ASSUME Numbered, OnCourse, EngineNext
    PROVE  RowAt'
<1> USE DEF OnCourse
<1>0. me \in Memory /\ attempts \in [Cases -> Seq(Attempt)]
  BY DEF Numbered, EngineTypeOK
<1>1. \/ pc' \notin Open
      \/ attempts' = attempts /\ me'.at = me.at /\ pc' = pc
      \/ attempts' = attempts /\ me'.at = me.at /\ pc = "submit" /\ pc' = "invoke"
      \/ CreateAttempt \/ StartAttempt \/ SubmitJob \/ \E answer \in Answers : Invoke(answer)
  BY <1>0 DEF Memory, Open, EngineNext, Work, CreateRun, InsertCases, Start, Resume, Enter,
     Reopen, ReopenDone, Advance, ReopenCase, CloseStaleCase, RequeueCase,
     OrphanAttempt, OrphanJob, ReconcileDone, RequeueDone, MarkCase, SkipCase,
     BeginCase, MissCase, LoopDone, SeeCancel, PollJob, NextAttempt, CancelCase,
     ClassifyCase, SettleCase, StreamMetric, ReportCancelled, LandCancelled,
     Rescore, PublishMetric, LandComplete, LandIncomplete, Break, Crash,
     RequestCancel, CancelDirect, RecordAttempt, ScoreAttempt, stored
<1>2. pc \in Open => me.at \in Cases /\ Current \in Rows(me.at) /\ attempts[me.at] \in Seq(Attempt)
  BY <1>0 DEF Open, InAttempt, InCase, Numbered, Position, Numbering
<1>3. CASE CreateAttempt
  <2>1. me.at \in Cases /\ EngineTypeOK
    BY <1>3 DEF CreateAttempt, InCase, Numbered, Position
  <2>2. Current' = Len(attempts[me.at]) + 1 /\ me' = me /\ pc' = "start"
    BY <1>3, <2>1, AppendedRow DEF Current, CreateAttempt
  <2>3. attempts'[me.at][Current'] = NewAttempt(me.base + me.i, me.no)
    BY <1>3, <2>1, <2>2, AppendedRow
  <2> QED BY <2>2, <2>3 DEF RowAt, NewAttempt
<1>4. CASE StartAttempt
  <2>1. /\ pc \in Open /\ me' = me /\ pc' \in {"submit", "invoke"}
        /\ attempts' = [attempts EXCEPT ![me.at][Current].status = "running"]
    BY <1>4 DEF StartAttempt, SetAttempt, Open
  <2>2. Current' = Current /\ attempts'[me.at][Current].status = "running"
    BY <1>0, <1>2, <2>1 DEF Current, Rows, Attempt
  <2> QED BY <2>1, <2>2 DEF RowAt
<1>5. CASE SubmitJob
  <2>1. /\ pc = "submit" /\ pc' = "invoke" /\ me'.at = me.at
        /\ \E j : attempts' = [attempts EXCEPT ![me.at][Current].job = j]
    BY <1>0, <1>5 DEF SubmitJob, Memory
  <2>2. Current' = Current /\ attempts'[me.at][Current].status = attempts[me.at][Current].status
    BY <1>0, <1>2, <2>1 DEF Current, Rows, Attempt, Open
  <2> QED BY <2>1, <2>2 DEF RowAt
<1>6. CASE \E answer \in Answers : Invoke(answer)
  <2>1. /\ pc = "invoke" /\ pc' = "record" /\ me'.at = me.at
        /\ \/ attempts' = attempts
           \/ \E j : attempts' = [attempts EXCEPT ![me.at][Current].job = j]
    BY <1>0, <1>6 DEF Invoke, Memory
  <2>2. CASE attempts' = attempts
    BY <2>1, <2>2 DEF RowAt, Current
  <2>3. ASSUME NEW j, attempts' = [attempts EXCEPT ![me.at][Current].job = j]
        PROVE  RowAt'
    <3>1. Current' = Current /\ attempts'[me.at][Current].status = attempts[me.at][Current].status
      BY <1>0, <1>2, <2>1, <2>3 DEF Current, Rows, Attempt, Open
    <3> QED BY <2>1, <3>1 DEF RowAt
  <2> QED BY <2>1, <2>2, <2>3
<1>7. CASE attempts' = attempts /\ me'.at = me.at /\ (pc' = pc \/ (pc = "submit" /\ pc' = "invoke"))
  BY <1>7 DEF RowAt, Current
<1>8. CASE pc' \notin Open
  BY <1>8 DEF RowAt, Open
<1> QED BY <1>1, <1>3, <1>4, <1>5, <1>6, <1>7, <1>8

\* The case being run is running, and the ones before it are finished.
LEMMA CaseAtStep ==
    ASSUME Numbered, OnCourse, EngineNext
    PROVE  CaseAt'
<1> USE DEF OnCourse
<1>0. /\ me \in Memory /\ case \in [Cases -> CaseStatus]
      /\ pc \in InCase => me.at \in Cases
  BY DEF Numbered, EngineTypeOK, Position
<1>1. \/ pc' \notin InCase \cup Closing \cup {"loop"}
      \/ case' = case /\ me'.at = me.at /\ pc' = pc
      \/ case' = case /\ me'.at = me.at /\ pc \in InCase \ {"stream"} /\ pc' \in InCase \ {"stream"}
      \/ case' = case /\ pc \in Closing /\ pc' \in Closing
      \/ RequeueDone \/ SkipCase \/ BeginCase \/ LoopDone
      \/ CancelCase \/ SettleCase \/ StreamMetric
  <2>1. CASE \/ CreateRun \/ InsertCases \/ Start \/ Resume \/ Reopen \/ ReopenDone \/ Advance
             \/ \E c \in Cases : ReopenCase(c) \/ CloseStaleCase(c) \/ RequeueCase(c) \/ MarkCase(c)
             \/ \E c \in Cases : \E k \in Rows(c) : OrphanAttempt(c, k)
             \/ OrphanJob \/ ReconcileDone
    BY <2>1 DEF InCase, Closing, CreateRun, InsertCases, Start, Resume, Enter, Reopen, ReopenDone,
       Advance, ReopenCase, CloseStaleCase, RequeueCase, MarkCase, OrphanAttempt, OrphanJob,
       Reconciled, ReconcileDone
  <2>2. CASE \/ MissCase \/ SeeCancel \/ ReportCancelled \/ LandCancelled \/ Rescore \/ PublishMetric
             \/ LandComplete \/ LandIncomplete \/ Break \/ Crash \/ RequestCancel \/ CancelDirect
    BY <2>2 DEF InCase, Closing, MissCase, SeeCancel, ReportCancelled, LandCancelled, Rescore,
       PublishMetric, LandComplete, LandIncomplete, Break, Crash, RequestCancel, CancelDirect, stored
  <2>3. CASE \/ CreateAttempt \/ StartAttempt \/ PollJob \/ SubmitJob \/ RecordAttempt
             \/ ScoreAttempt \/ NextAttempt \/ ClassifyCase
             \/ \E answer \in Answers : Invoke(answer)
    BY <1>0, <2>3 DEF Memory, InCase, Closing, CreateAttempt, StartAttempt, PollJob, SubmitJob,
       Invoke, RecordAttempt, ScoreAttempt, NextAttempt, ClassifyCase, stored
  <2> QED BY <2>1, <2>2, <2>3 DEF EngineNext, Work
<1>2. CASE RequeueDone
  BY <1>2 DEF RequeueDone, stored, Requeueing, Entering, CaseAt, InCase, Closing, Cases
<1>3. CASE SkipCase
  <2>1. /\ pc = "loop" /\ pc' = pc /\ case' = case /\ me'.at = me.at + 1 /\ Finished(me.at)
        /\ me.at \in Cases
    BY <1>0, <1>3 DEF SkipCase, stored, Memory, Cases
  <2> QED BY <2>1 DEF CaseAt, Finished, InCase, Closing, Cases
<1>4. CASE BeginCase
  <2>1. /\ pc = "loop" /\ pc' = "create" /\ me.at \in Cases /\ me'.at = me.at
        /\ case' = [case EXCEPT ![me.at] = "running"]
    BY <1>0, <1>4 DEF BeginCase, SetCase, Memory, Cases
  <2> QED BY <1>0, <2>1 DEF CaseAt, Finished, InCase, Closing, Cases
<1>5. CASE LoopDone
  BY <1>0, <1>5 DEF LoopDone, stored, CaseAt, Finished, InCase, Closing, Cases, Memory
<1>6. CASE CancelCase \/ SettleCase
  <2>1. /\ pc \in InCase /\ pc' = "stream" /\ me' = me
        /\ \E to \in {"completed", "failed", "cancelled"} : case' = [case EXCEPT ![me.at] = to]
    BY <1>6 DEF CancelCase, SettleCase, SetCase, InCase
  <2> QED BY <1>0, <2>1 DEF CaseAt, Finished, InCase, Closing, Cases
<1>7. CASE StreamMetric
  <2>1. /\ pc = "stream" /\ case' = case /\ me.at \in Cases
        /\ \/ pc' = "mark" 
           \/ pc' = "loop" /\ me'.at = me.at + 1
    BY <1>0, <1>7 DEF StreamMetric, Memory, InCase
  <2> QED BY <2>1 DEF CaseAt, Finished, InCase, Closing, Cases
<1>8. CASE case' = case /\ me'.at = me.at /\ pc' = pc
  BY <1>8 DEF CaseAt, Finished
<1>9. CASE case' = case /\ me'.at = me.at /\ pc \in InCase \ {"stream"} /\ pc' \in InCase \ {"stream"}
  BY <1>9 DEF CaseAt, Finished, InCase, Closing
<1>10. CASE case' = case /\ pc \in Closing /\ pc' \in Closing
  BY <1>10 DEF CaseAt, Finished, InCase, Closing
<1>11. CASE pc' \notin InCase \cup Closing \cup {"loop"}
  BY <1>11 DEF CaseAt, InCase, Closing
<1> QED BY <1>1, <1>2, <1>3, <1>4, <1>5, <1>6, <1>7, <1>8, <1>9, <1>10, <1>11

\* Whatever crashed or was cancelled before, the process stays on course.
THEOREM EngineOnCourse == EngineSpec => []OnCourse
<1>1. EngineInit => OnCourse
  BY DEF EngineInit, OnCourse, RunAt, Requeueing, RowAt, CaseAt, Live, InCase, Entering, Closing
<1>2. Numbered /\ OnCourse /\ [EngineNext]_engineVars => OnCourse'
  <2> SUFFICES ASSUME Numbered, OnCourse, [EngineNext]_engineVars PROVE OnCourse'
    OBVIOUS
  <2>1. CASE EngineNext
    BY <2>1, RunAtStep, RequeueingStep, RowAtStep, CaseAtStep DEF OnCourse
  <2>2. CASE UNCHANGED engineVars
    BY <2>2 DEF OnCourse, RunAt, Requeueing, RowAt, CaseAt, Finished, Current, engineVars, stored
  <2> QED BY <2>1, <2>2
<1> QED BY <1>1, <1>2, EngineNumbered, PTL DEF EngineSpec

\* No case or attempt status the engine asks for is refused, and no run status
\* unless the api has stored cancelled under it (lifecycle.py, IllegalTransition),
\* for any number of cases, repeats, retries and interruptions.
THEOREM EngineCallsAreLegal == EngineSpec => []CallsAreLegal
<1>1. Numbered /\ OnCourse => CallsAreLegal
  <2> SUFFICES ASSUME Numbered, OnCourse PROVE CallsAreLegal
    OBVIOUS
  <2>1. me \in Memory /\ case \in [Cases -> CaseStatus]
    BY DEF Numbered, EngineTypeOK
  <2>2. run # "cancelled" => RunCallsAreLegal
    <3>1. run # "cancelled" /\ pc = "advance" =>
             run = me.stage /\ run \in {"draft", "queued", "provisioning"}
      BY DEF OnCourse, RunAt, Numbered, Position
    <3>2. run # "cancelled" /\ pc = "advance" => RunMay(NextStage[me.stage])
      BY <3>1 DEF NextStage, RunMay, RunMoves
    <3> QED BY <3>2 DEF OnCourse, RunAt, Live, RunMay, RunMoves, RunCallsAreLegal
  <2>3. pc = "requeue" => \A c \in me.requeue : CaseMay(c, "queued")
    BY DEF OnCourse, Requeueing, CaseMay, CaseMoves
  <2>4. pc = "loop" /\ me.at <= NumCases /\ case[me.at] # "missing" =>
          Finished(me.at) \/ CaseMay(me.at, "running")
    <3>1. me.at <= NumCases => me.at \in Cases
      BY <2>1 DEF Memory, Cases
    <3> QED BY <2>1, <3>1, StatusSets DEF Finished, CaseMay, CaseMoves
  <2>5. /\ pc = "start" => AttemptMay(me.at, Current, "running")
        /\ pc = "record" => AttemptMay(me.at, Current, "completed")
    BY DEF OnCourse, RowAt, AttemptMay, AttemptMoves
  <2>6. pc \in {"classify", "settle"} => CaseMay(me.at, "completed")
    BY DEF OnCourse, CaseAt, InCase, CaseMay, CaseMoves
  <2> QED BY <2>2, <2>3, <2>4, <2>5, <2>6 DEF CallsAreLegal
<1> QED BY <1>1, EngineNumbered, EngineOnCourse, PTL

-----------------------------------------------------------------------------
(***************************************************************************)
(* What a complete run has behind it.                                      *)
(***************************************************************************)
\* Past reconciliation the only open row is the one being executed.
StaleAt ==
    pc \in InCase \cup Closing \cup {"requeue", "loop"} =>
        \A c \in Cases : \A k \in Stale(c) : pc \in Open /\ c = me.at /\ k = Current

\* Neither the published metric nor the process counts a retry.
FirstOnly == \A s \in metric.samples \cup me.landed : attempts[s[1]][s[2]].no = 0

\* S counts every completed sample that decided case c.
CountedIn(c, S) == \A k \in Deciding(c) : attempts[c][k].status = "completed" => <<c, k>> \in S

\* Of the cases behind it the process has counted those it executed itself;
\* re-scoring adds the others, and then every case is counted.
Executing == InCase \cup {"loop", "rescore"}

LandedAt ==
    /\ pc \in {"classify", "settle", "stream"} => RepeatOffset(me.at) = me.base + Repeats
    /\ pc \in Executing => \A c \in me.executed : c < me.at /\ CountedIn(c, me.landed)
    /\ pc \in {"publish", "complete"} => \A c \in Cases : CountedIn(c, me.landed)
    /\ pc = "complete" => metric.samples = me.landed /\ metric.state \in {"PARTIAL", "COMPLETE"}

\* CompleteRunSettled speaks of the last step alone; what makes it hold is
\* gathered all along the execution.
Settling == StaleAt /\ FirstOnly /\ LandedAt /\ CompleteRunSettled

\* Keys ascend, so the repeat after the last row's is the next free one.
LEMMA OffsetFollows ==
    ASSUME EngineTypeOK, AttemptKeysUnique, NEW c \in Cases, Rows(c) # {}
    PROVE  RepeatOffset(c) = 1 + attempts[c][Len(attempts[c])].rep
<1>1. attempts[c] \in Seq(Attempt)
  BY DEF EngineTypeOK
<1> DEFINE reps == {attempts[c][k].rep : k \in Rows(c)}
           last == attempts[c][Len(attempts[c])].rep
<1>2. \A k \in Rows(c) : attempts[c][k].rep \in Nat
  <2>1. \A k \in Rows(c) : attempts[c][k] \in Attempt
    BY <1>1 DEF Rows
  <2> QED BY <2>1 DEF Attempt
<1>3. Len(attempts[c]) \in Rows(c)
  BY <1>1 DEF Rows
<1>4. \A k \in Rows(c) : attempts[c][k].rep <= last
  BY <1>1, <1>2, <1>3 DEF Rows, AttemptKeysUnique
<1> DEFINE highest == CHOOSE r \in reps : \A k \in Rows(c) : attempts[c][k].rep <= r
<1>5. last \in reps
  BY <1>3
<1>6. highest \in reps /\ \A k \in Rows(c) : attempts[c][k].rep <= highest
  BY <1>4, <1>5
<1>7. highest <= last /\ last <= highest /\ highest \in Nat /\ last \in Nat
  BY <1>2, <1>3, <1>4, <1>6
<1>8. RepeatOffset(c) = 1 + highest
  BY DEF RepeatOffset
<1> HIDE DEF highest, reps
<1> QED BY <1>7, <1>8

\* The next free repeat depends on the case's own rows alone.
LEMMA OffsetKept ==
    ASSUME NEW c, attempts'[c] = attempts[c]
    PROVE  RepeatOffset(c)' = RepeatOffset(c)
<1> DEFINE offset(rows) ==
        IF 1..Len(rows) = {} THEN 0
        ELSE 1 + CHOOSE r \in {rows[k].rep : k \in 1..Len(rows)} :
                     \A k \in 1..Len(rows) : rows[k].rep <= r
<1>1. RepeatOffset(c) = offset(attempts[c])
  BY DEF RepeatOffset, Rows
<1>2. RepeatOffset(c)' = offset(attempts'[c])
  BY DEF RepeatOffset, Rows
<1> HIDE DEF offset
<1> QED BY <1>1, <1>2

\* What is counted stays counted while the case's rows stay.
LEMMA CountKept ==
    ASSUME NEW c, attempts'[c] = attempts[c], NEW S \in SUBSET me'.landed, CountedIn(c, S)
    PROVE  CountedIn(c, me.landed)'
<1>1. RepeatOffset(c)' = RepeatOffset(c)
  BY OffsetKept
<1>2. Deciding(c)' = Deciding(c)
  BY <1>1 DEF Deciding, First, Rows
<1> QED BY <1>2 DEF CountedIn

\* A row keeps its key for good.
LEMMA KeysKept ==
    ASSUME Numbered, EngineNext, NEW c \in Cases, NEW k \in Rows(c)
    PROVE  /\ k \in Rows(c)' /\ attempts'[c][k].no = attempts[c][k].no
           /\ attempts'[c][k].rep = attempts[c][k].rep
<1>1. CASE SameKeys
  BY <1>1, RowsGrow DEF SameKeys
<1>2. CASE CreateAttempt
  <2>1. me.at \in Cases /\ EngineTypeOK
    BY <1>2 DEF Numbered, Position, InCase, CreateAttempt
  <2>2. attempts'[c][k] = attempts[c][k]
    BY <1>2, <2>1, AppendedRow
  <2> QED BY <2>2, RowsGrow
<1> QED BY <1>1, <1>2, RowsStep

\* The steps within an attempt write to its row alone; a recorded row is
\* settled, and a score leaves its status.
LEMMA CurrentRowMoves ==
    ASSUME Numbered, EngineNext,
           \/ StartAttempt \/ PollJob \/ SubmitJob \/ RecordAttempt \/ ScoreAttempt
           \/ \E answer \in Answers : Invoke(answer)
    PROVE  /\ me.at \in Cases /\ Current \in Rows(me.at) /\ Current' = Current
           /\ me'.at = me.at /\ me'.landed = me.landed /\ me'.executed = me.executed
           /\ \A c \in Cases : Rows(c)' = Rows(c)
           /\ \A c \in Cases \ {me.at} : attempts'[c] = attempts[c]
           /\ \A k \in Rows(me.at) \ {Current} : attempts'[me.at][k] = attempts[me.at][k]
           /\ RecordAttempt => attempts'[me.at][Current].status \notin {"queued", "running"}
           /\ ScoreAttempt => attempts'[me.at][Current].status = attempts[me.at][Current].status
<1>0. me \in Memory /\ attempts \in [Cases -> Seq(Attempt)]
  BY DEF Numbered, EngineTypeOK
<1>1. me.at \in Cases /\ Current \in Rows(me.at)
  BY DEF Numbered, Position, Numbering, InAttempt, InCase, StartAttempt, PollJob, SubmitJob,
         RecordAttempt, ScoreAttempt, Invoke
<1>2. attempts[me.at] \in Seq(Attempt) /\ Current \in 1..Len(attempts[me.at])
  BY <1>0, <1>1 DEF Rows
<1>3. me'.at = me.at /\ me'.landed = me.landed /\ me'.executed = me.executed
  BY <1>0 DEF Memory, StartAttempt, PollJob, SubmitJob, RecordAttempt, ScoreAttempt, Invoke
<1>4. \/ attempts' = attempts
      \/ \E a : attempts' = [attempts EXCEPT ![me.at] = [attempts[me.at] EXCEPT ![Current] = a]]
  BY <1>0, <1>1 DEF stored, StartAttempt, PollJob, SubmitJob, RecordAttempt, ScoreAttempt, Invoke,
                    SetAttempt
<1>5. /\ \A c \in Cases : Len(attempts'[c]) = Len(attempts[c])
      /\ \A c \in Cases \ {me.at} : attempts'[c] = attempts[c]
      /\ \A k \in Rows(me.at) \ {Current} : attempts'[me.at][k] = attempts[me.at][k]
  <2>1. ASSUME NEW a,
               attempts' = [attempts EXCEPT ![me.at] = [attempts[me.at] EXCEPT ![Current] = a]]
        PROVE  /\ \A c \in Cases : Len(attempts'[c]) = Len(attempts[c])
               /\ \A c \in Cases \ {me.at} : attempts'[c] = attempts[c]
               /\ \A k \in Rows(me.at) \ {Current} : attempts'[me.at][k] = attempts[me.at][k]
    BY <1>0, <1>1, <1>2, <2>1 DEF Rows
  <2> QED BY <1>4, <2>1
<1>6. ASSUME RecordAttempt
      PROVE  attempts'[me.at][Current].status \notin {"queued", "running"}
  <2> DEFINE outcome == CASE me.answer \in Completed -> "completed"
                         [] me.answer = "raises" -> "errored"
                         [] OTHER -> me.answer
  <2>1. attempts' = [attempts EXCEPT ![me.at][Current].status = outcome]
    BY <1>6 DEF RecordAttempt, SetAttempt
  <2>2. me.answer \in AllAnswers
    BY <1>6 DEF RecordAttempt, Numbered, Position
  <2>3. outcome \notin {"queued", "running"}
    BY <2>2 DEF AllAnswers, Completed
  <2> HIDE DEF outcome
  <2> QED BY <1>0, <1>1, <1>2, <2>1, <2>3 DEF Attempt
<1>7. ASSUME ScoreAttempt
      PROVE  attempts'[me.at][Current].status = attempts[me.at][Current].status
  <2>1. PICK v : attempts' = [attempts EXCEPT ![me.at][Current].verdict = v]
    BY <1>7 DEF ScoreAttempt
  <2> QED BY <1>0, <1>1, <1>2, <2>1 DEF Attempt
<1> QED BY <1>1, <1>3, <1>5, <1>6, <1>7 DEF Rows, Current

\* What a step does to the rows, as far as a complete run depends on it.
LEMMA Flow ==
    ASSUME Numbered, EngineNext
    PROVE  \/ pc' \in {"idle", "insert", "mark", "land", "raise"} \cup (Entering \ {"requeue"})
           \/ RequestCancel \/ CancelDirect \/ ReconcileDone
           \/ \E c \in Cases : RequeueCase(c)
           \/ RequeueDone \/ SkipCase \/ BeginCase \/ LoopDone
           \/ CreateAttempt \/ StartAttempt \/ PollJob \/ SubmitJob
           \/ (\E answer \in Answers : Invoke(answer))
           \/ RecordAttempt \/ ScoreAttempt \/ NextAttempt
           \/ CancelCase \/ ClassifyCase \/ SettleCase \/ StreamMetric
           \/ Rescore \/ PublishMetric
<1>1. CASE \/ CreateRun \/ InsertCases \/ Start \/ Resume \/ Reopen \/ ReopenDone \/ Advance
           \/ \E c \in Cases : ReopenCase(c) \/ CloseStaleCase(c) \/ MarkCase(c)
           \/ \E c \in Cases : \E k \in Rows(c) : OrphanAttempt(c, k)
           \/ OrphanJob
  BY <1>1 DEF Entering, CreateRun, InsertCases, Start, Resume, Enter, Reopen, ReopenDone,
     Advance, ReopenCase, CloseStaleCase, Reconciled, MarkCase, OrphanAttempt, OrphanJob
<1>2. CASE \/ MissCase \/ SeeCancel \/ ReportCancelled \/ LandCancelled \/ LandComplete
           \/ LandIncomplete \/ Break \/ Crash
  BY <1>2 DEF MissCase, SeeCancel, ReportCancelled, LandCancelled, LandComplete,
     LandIncomplete, Break, Crash
<1> QED BY <1>1, <1>2 DEF EngineNext, Work

\* Only the row being executed is open (engine.py, _reconcile_stale).
LEMMA StaleAtStep ==
    ASSUME Numbered, OnCourse, Settling, EngineNext
    PROVE  StaleAt'
<1> USE DEF Settling
<1> DEFINE Settled == \A c \in Cases : Stale(c) = {}
<1>1. pc \in {"requeue", "loop", "create", "score", "next", "classify", "settle", "stream"} \cup Closing
        => Settled
  BY DEF StaleAt, InCase, Open, Closing
<1>2. ASSUME Settled, attempts' = attempts
      PROVE  StaleAt'
  BY <1>2 DEF StaleAt, Stale, Rows
<1>3. CASE pc' \in {"idle", "insert", "mark", "land", "raise"} \cup (Entering \ {"requeue"})
  BY <1>3 DEF StaleAt, InCase, Entering, Closing
<1>4. CASE ReconcileDone
  BY <1>2, <1>4 DEF ReconcileDone, Reconciled, stored
<1>5. CASE \/ RequeueDone \/ SkipCase \/ BeginCase \/ LoopDone \/ NextAttempt
           \/ \E c \in Cases : RequeueCase(c)
  BY <1>1, <1>2, <1>5 DEF RequeueDone, SkipCase, BeginCase, LoopDone, NextAttempt, RequeueCase, stored
<1>6. CASE CancelCase \/ ClassifyCase \/ SettleCase \/ StreamMetric \/ Rescore \/ PublishMetric
  BY <1>1, <1>2, <1>6 DEF CancelCase, ClassifyCase, SettleCase, StreamMetric, Rescore,
                          PublishMetric, Closing
<1>7. CASE RequestCancel \/ CancelDirect
  BY <1>7 DEF RequestCancel, CancelDirect, stored, StaleAt, Stale, Rows, Current
<1>8. CASE CreateAttempt
  <2>1. /\ me.at \in Cases /\ me' = me /\ pc' = "start" /\ EngineTypeOK
        /\ Len(attempts[me.at]) \in Nat
    BY <1>8 DEF CreateAttempt, Numbered, Position, InCase, EngineTypeOK
  <2>2. \A c \in Cases : \A k \in Rows(c) : k \notin Stale(c)
    BY <1>1, <1>8 DEF CreateAttempt
  <2>3. Current' = Len(attempts[me.at]) + 1 /\ Rows(me.at)' = Rows(me.at) \cup {Current'}
    BY <1>8, <2>1, AppendedRow DEF Current, Rows
  <2>4. \A k \in Rows(me.at) : attempts'[me.at][k] = attempts[me.at][k]
    BY <1>8, <2>1, AppendedRow
  <2>5. \A c \in Cases \ {me.at} : attempts'[c] = attempts[c] /\ Rows(c)' = Rows(c)
    BY <1>8, <2>1, AppendedRow DEF Rows
  <2>6. \A c \in Cases : \A k \in Stale(c)' : c = me.at /\ k = Current'
    BY <2>1, <2>2, <2>3, <2>4, <2>5 DEF Stale
  <2> QED BY <2>1, <2>6 DEF StaleAt, Open
<1>9. CASE \/ StartAttempt \/ PollJob \/ SubmitJob \/ RecordAttempt \/ ScoreAttempt
           \/ \E answer \in Answers : Invoke(answer)
  <2>1. pc \in InAttempt \ {"next"} /\ pc \in InCase
    BY <1>9 DEF InAttempt, InCase, StartAttempt, PollJob, SubmitJob, RecordAttempt, ScoreAttempt,
                Invoke
  <2>2. \A c \in Cases : \A k \in Stale(c) : pc \in Open /\ c = me.at /\ k = Current
    BY <2>1 DEF StaleAt
  <2>3. \A c \in Cases : \A k \in Stale(c)' : c = me.at /\ k = Current
    <3>1. \A c \in Cases : \A k \in Stale(c)' : k \in Rows(c) /\
             attempts'[c][k].status \in {"queued", "running"}
      BY <1>9, CurrentRowMoves DEF Stale
    <3>2. \A c \in Cases : \A k \in Rows(c) : (c = me.at /\ k = Current) \/
             attempts'[c][k] = attempts[c][k]
      BY <1>9, CurrentRowMoves
    <3> QED BY <2>2, <3>1, <3>2 DEF Stale
  <2>4. me'.at = me.at /\ Current' = Current
    BY <1>9, CurrentRowMoves
  <2>5. CASE RecordAttempt
    <3>1. \A c \in Cases : Stale(c)' = {}
      BY <2>3, <2>5, CurrentRowMoves DEF Stale
    <3> QED BY <3>1 DEF StaleAt
  <2>6. CASE ScoreAttempt
    <3>1. pc \notin Open /\ me.at \in Cases /\ Current \in Rows(me.at)
      BY <2>6, CurrentRowMoves DEF ScoreAttempt, Open
    <3>2. \A c \in Cases : Stale(c)' = {}
      BY <2>2, <2>3, <2>6, <3>1, CurrentRowMoves DEF Stale
    <3> QED BY <3>2 DEF StaleAt
  <2>7. CASE StartAttempt \/ PollJob \/ SubmitJob \/ \E answer \in Answers : Invoke(answer)
    <3>1. pc' \in Open
      BY <2>7 DEF StartAttempt, PollJob, SubmitJob, Invoke, Open
    <3> QED BY <2>3, <2>4, <3>1 DEF StaleAt
  <2> QED BY <1>9, <2>5, <2>6, <2>7
<1> QED BY <1>3, <1>4, <1>5, <1>6, <1>7, <1>8, <1>9, Flow

\* A sample is a first attempt, in what a process counts and what it publishes.
LEMMA FirstOnlyStep ==
    ASSUME Numbered, Settling, EngineNext
    PROVE  FirstOnly'
<1> USE DEF Numbered, Settling
<1> DEFINE Sound(S) == \A s \in S : /\ s[1] \in Cases /\ s[2] \in Rows(s[1])
                                   /\ attempts[s[1]][s[2]].no = 0
<1>2. Sound(metric.samples) /\ Sound(me.landed)
  BY DEF EngineTypeOK, FirstOnly
<1>3. \A c \in Cases : Sound(Landing(c)) /\ Sound(Rescored(c))
  BY DEF Landing, Outcomes, Rescored, First
<1>4. Sound(me'.landed)
  <2>1. \/ me'.landed = me.landed \/ me'.landed = {}
        \/ StreamMetric \/ Rescore
    BY FieldsKept
  <2>2. CASE StreamMetric
    BY <1>2, <1>3, <2>2 DEF StreamMetric, Position, InCase, Memory
  <2>3. CASE Rescore
    BY <1>2, <1>3, <2>3 DEF Rescore, Memory
  <2> QED BY <1>2, <2>1, <2>2, <2>3
<1>5. Sound(metric'.samples)
  <2>2. CASE StreamMetric
    BY <1>2, <1>3, <2>2 DEF StreamMetric, Aggregate, Position, InCase
  <2>3. CASE ReportCancelled \/ PublishMetric
    BY <1>2, <2>3 DEF ReportCancelled, PublishMetric, Aggregate
  <2> QED BY <1>2, <2>2, <2>3, MetricWriters
<1>6. \A s : s[1] \in Cases /\ s[2] \in Rows(s[1])
        => attempts'[s[1]][s[2]].no = attempts[s[1]][s[2]].no
  BY KeysKept
<1> QED BY <1>4, <1>5, <1>6 DEF FirstOnly

\* What was counted of each case (engine.py, _run_case_inner and _finalize).
LEMMA LandedAtStep ==
    ASSUME Numbered, OnCourse, Settling, EngineNext
    PROVE  LandedAt'
<1> USE DEF Settling
<1>0. /\ me \in Memory /\ EngineTypeOK /\ AttemptKeysUnique
      /\ pc \in InCase => me.at \in Cases
  BY DEF Numbered, Position
<1>1. ASSUME pc \in Executing, me'.executed = me.executed, me'.landed = me.landed,
             me.at <= me'.at, \A c \in Cases \ {me.at} : attempts'[c] = attempts[c]
      PROVE  \A c \in me'.executed : c < me'.at /\ CountedIn(c, me.landed)'
  <2>1. \A c \in me.executed : c \in Cases /\ c < me.at /\ CountedIn(c, me.landed)
    BY <1>0, <1>1 DEF LandedAt, Memory
  <2>2. me.at \in Nat /\ me'.at \in Nat /\ \A c \in Cases : c \in Nat
    BY <1>0, MemoryStep DEF Memory, Cases, Numbered
  <2>3. \A c \in me.executed : c # me.at /\ c < me'.at
    BY <1>1, <2>1, <2>2
  <2>4. \A c \in me.executed : CountedIn(c, me.landed)'
    BY <1>1, <2>1, <2>3, CountKept
  <2> QED BY <1>1, <2>3, <2>4
<1>2. CASE pc' \in {"idle", "insert", "mark", "land", "raise"} \cup (Entering \ {"requeue"})
  BY <1>2 DEF LandedAt, InCase, Executing, Entering
<1>3. CASE ReconcileDone \/ \E c \in Cases : RequeueCase(c)
  BY <1>3 DEF ReconcileDone, RequeueCase, LandedAt, InCase, Executing
<1>4. CASE RequestCancel \/ CancelDirect
  <2>1. me' = me /\ pc' = pc /\ attempts' = attempts /\ metric' = metric
    BY <1>4 DEF RequestCancel, CancelDirect, stored
  <2>2. pc \in InCase => RepeatOffset(me.at)' = RepeatOffset(me.at)
    BY <1>0, <2>1 DEF RepeatOffset, Rows
  <2>3. \A c \in Cases : CountedIn(c, me.landed) => CountedIn(c, me.landed)'
    BY <2>1, CountKept
  <2>4. me.executed \subseteq Cases
    BY <1>0 DEF Memory
  <2> QED BY <2>1, <2>2, <2>3, <2>4 DEF LandedAt, InCase
<1>5. CASE RequeueDone
  <2>1. pc = "requeue" /\ pc' = "loop" /\ me' = me /\ me.executed = {}
    BY <1>5 DEF RequeueDone, OnCourse, Requeueing, Entering
  <2> QED BY <2>1 DEF LandedAt, InCase
<1>6. CASE SkipCase \/ BeginCase \/ LoopDone
  <2>1. /\ pc = "loop" /\ pc' \in {"loop", "create", "rescore"} /\ attempts' = attempts
        /\ me'.executed = me.executed /\ me'.landed = me.landed
        /\ me'.at = me.at \/ me'.at = me.at + 1
    BY <1>0, <1>6 DEF SkipCase, BeginCase, LoopDone, stored, Memory
  <2>2. me.at <= me'.at
    BY <1>0, <2>1 DEF Memory
  <2> QED BY <1>1, <2>1, <2>2 DEF LandedAt, Executing
<1>7. CASE CreateAttempt
  <2>1. /\ pc = "create" /\ pc' = "start" /\ me' = me /\ me.at \in Cases
        /\ \A c \in Cases \ {me.at} : attempts'[c] = attempts[c]
    BY <1>0, <1>7, AppendedRow DEF CreateAttempt, InCase
  <2>2. me.at <= me'.at
    BY <2>1 DEF Cases
  <2> QED BY <1>1, <2>1, <2>2 DEF LandedAt, Executing, InCase
<1>8. CASE \/ StartAttempt \/ PollJob \/ SubmitJob \/ RecordAttempt \/ ScoreAttempt
           \/ \E answer \in Answers : Invoke(answer)
  <2>1. pc \in InAttempt /\ pc' \in InAttempt \cup {"raise"}
    BY <1>8 DEF InAttempt, StartAttempt, PollJob, SubmitJob, RecordAttempt, ScoreAttempt, Invoke
  <2>2. /\ me'.executed = me.executed /\ me'.landed = me.landed /\ me.at <= me'.at
        /\ \A c \in Cases \ {me.at} : attempts'[c] = attempts[c]
    BY <1>8, CurrentRowMoves DEF Cases
  <2> QED BY <1>1, <2>1, <2>2 DEF LandedAt, Executing, InAttempt, InCase
<1>9. CASE NextAttempt
  <2>1. /\ pc = "next" /\ pc' \in {"create", "classify"} /\ attempts' = attempts
        /\ me'.executed = me.executed /\ me'.landed = me.landed /\ me'.at = me.at
        /\ pc' = "classify" => me' = me /\ me.i + 1 = Repeats
    BY <1>0, <1>9 DEF NextAttempt, stored, Memory
  <2>2. \A c \in me'.executed : c < me'.at /\ CountedIn(c, me.landed)'
    BY <1>0, <1>1, <2>1 DEF Executing, InCase, Memory
  <2>3. ASSUME pc' = "classify"
        PROVE  RepeatOffset(me.at)' = me'.base + Repeats
    <3>1. me.at \in Cases /\ Current \in Rows(me.at) /\ attempts[me.at][Current].rep = me.base + me.i
      BY <1>0, <2>1 DEF InCase, InAttempt, Numbered, Numbering, Key
    <3>2. RepeatOffset(me.at) = 1 + (me.base + me.i)
      BY <1>0, <3>1, OffsetFollows DEF Current
    <3>3. RepeatOffset(me.at)' = RepeatOffset(me.at)
      BY <2>1, <2>3, <3>1, OffsetKept
    <3> QED BY <1>0, <2>1, <2>3, <3>2, <3>3 DEF Memory
  <2> QED BY <2>1, <2>2, <2>3 DEF LandedAt
<1>10. CASE CancelCase \/ ClassifyCase \/ SettleCase
  <2>1. /\ pc \in {"classify", "settle"} /\ pc' \in {"settle", "stream"}
        /\ attempts' = attempts /\ me' = me /\ me.at \in Cases
    BY <1>0, <1>10 DEF CancelCase, ClassifyCase, SettleCase, InCase
  <2>2. \A c \in me'.executed : c < me'.at /\ CountedIn(c, me.landed)'
    BY <1>1, <2>1 DEF Executing, InCase, Cases
  <2>3. RepeatOffset(me.at)' = RepeatOffset(me.at)
    BY <2>1 DEF RepeatOffset, Rows
  <2> QED BY <2>1, <2>2, <2>3 DEF LandedAt
<1>11. CASE StreamMetric
  <2>1. /\ pc = "stream" /\ pc' \in {"mark", "loop"} /\ attempts' = attempts /\ me.at \in Cases
        /\ pc' = "loop" => me'.at = me.at + 1
        /\ me'.landed = me.landed \cup Landing(me.at)
        /\ me'.executed = me.executed \cup {me.at}
    BY <1>0, <1>11 DEF StreamMetric, Memory, InCase
  <2>2. \A c \in me.executed : c \in Cases /\ c < me.at /\ CountedIn(c, me.landed)
    BY <1>0, <2>1 DEF LandedAt, Executing, InCase, Memory
  <2>3. \A c \in me.executed : CountedIn(c, me.landed)'
    BY <2>1, <2>2, CountKept
  <2>4. CountedIn(me.at, me'.landed)
    <3>1. RepeatOffset(me.at) = me.base + Repeats
      BY <2>1 DEF LandedAt
    <3>2. \A k \in Deciding(me.at) : k \in Outcomes(me.at)
      <4>1. \A k \in First(me.at) : attempts[me.at][k] \in Attempt
        BY <1>0, <2>1 DEF EngineTypeOK, First, Rows
      <4>2. \A k \in First(me.at) : attempts[me.at][k].rep \in Nat
        BY <4>1 DEF Attempt
      <4> QED BY <1>0, <3>1, <4>2 DEF Deciding, Outcomes, Memory
    <3> QED BY <2>1, <3>2 DEF CountedIn, Landing
  <2>5. \A c \in {me.at} : CountedIn(c, me.landed)'
    BY <2>1, <2>4, CountKept
  <2>6. \A c \in me'.executed : c < me.at + 1 /\ CountedIn(c, me.landed)'
    <3>1. \A c \in me'.executed : c \in me.executed \/ c \in {me.at}
      BY <2>1
    <3>2. \A c \in me'.executed : c < me.at + 1
      BY <2>1, <2>2, <3>1 DEF Cases
    <3>3. \A c \in me'.executed : CountedIn(c, me.landed)'
      BY <2>3, <2>5, <3>1
    <3> QED BY <3>2, <3>3
  <2>7. pc' \notin {"classify", "settle", "stream", "publish", "complete"}
    BY <2>1
  <2>8. pc' \in Executing => me'.at = me.at + 1
    BY <2>1 DEF Executing, InCase
  <2> QED BY <2>6, <2>7, <2>8 DEF LandedAt
<1>12. CASE Rescore
  <2>1. /\ pc = "rescore" /\ pc' \in {"publish", "raise"} /\ attempts' = attempts
        /\ me'.landed = me.landed \cup UNION {Rescored(c) : c \in Cases \ me.executed}
    BY <1>0, <1>12 DEF Rescore, Memory
  <2>2. ASSUME NEW c \in Cases
        PROVE  CountedIn(c, me'.landed)
    <3>1. CASE c \in me.executed
      BY <2>1, <3>1 DEF LandedAt, Executing, CountedIn
    <3>2. CASE c \notin me.executed
      <4>1. Rescored(c) \subseteq me'.landed
        BY <2>1, <3>2
      <4> QED BY <4>1 DEF CountedIn, Deciding, Rescored
    <3> QED BY <3>1, <3>2
  <2>3. \A c \in Cases : CountedIn(c, me.landed)'
    BY <2>1, <2>2, CountKept
  <2> QED BY <2>1, <2>3 DEF LandedAt, Executing, InCase
<1>13. CASE PublishMetric
  <2>1. /\ pc = "publish" /\ pc' = "complete" /\ attempts' = attempts /\ me' = me
        /\ metric' = Aggregate(me.landed, FALSE)
    BY <1>13 DEF PublishMetric
  <2>2. \A c \in Cases : CountedIn(c, me.landed)'
    BY <2>1, CountKept DEF LandedAt
  <2> QED BY <2>1, <2>2 DEF LandedAt, Aggregate, Executing, InCase
<1> QED BY <1>2, <1>3, <1>4, <1>5, <1>6, <1>7, <1>8, <1>9, <1>10, <1>11, <1>12, <1>13, Flow

\* Nothing moves in a complete run.
LEMMA CompleteIsFinal ==
    ASSUME Numbered, OnCourse, EngineNext
    PROVE  run # "complete"
<1> SUFFICES ASSUME run = "complete" PROVE FALSE
  OBVIOUS
<1>1. pc = "idle"
  BY DEF OnCourse, RunAt, Live, InCase, Numbered, Position, EngineTypeOK, PC
<1>2. CreateRun \/ Start \/ Resume \/ CancelDirect
  BY <1>1 DEF EngineNext, Work, InsertCases, Reopen, ReopenDone, Advance, OrphanJob,
     ReconcileDone, Reconciled, RequeueDone, ReopenCase, CloseStaleCase, RequeueCase, MarkCase,
     OrphanAttempt, SkipCase, BeginCase, MissCase, LoopDone, SeeCancel, CreateAttempt,
     StartAttempt, PollJob, SubmitJob, Invoke, RecordAttempt, ScoreAttempt, NextAttempt,
     CancelCase, ClassifyCase, SettleCase, StreamMetric, ReportCancelled, LandCancelled,
     Rescore, PublishMetric, LandComplete, LandIncomplete, Break, Crash, RequestCancel
<1> QED BY <1>2 DEF CreateRun, Start, Resume, Unfinished, CancelDirect, SetRun, RunMay, RunMoves

\* The step that makes a run complete finds everything settled (_finalize).
LEMMA CompleteStep ==
    ASSUME Numbered, OnCourse, Settling, EngineNext
    PROVE  CompleteRunSettled'
<1> USE DEF Settling
<1>1. run' = "complete" => LandComplete
  <2>1. CASE CreateRun \/ Reopen \/ Rescore \/ LandIncomplete
    BY <2>1, CompleteIsFinal DEF CreateRun, Reopen, Rescore, LandIncomplete, SetRun
  <2>2. CASE Advance
    <3>1. me.stage \in {"draft", "queued", "provisioning"}
      BY <2>2 DEF Advance, Numbered, Position
    <3>2. NextStage[me.stage] # "complete"
      BY <3>1 DEF NextStage
    <3> QED BY <2>2, <3>2, CompleteIsFinal DEF Advance, SetRun
  <2>3. CASE run' = run \/ LandCancelled \/ CancelDirect
    BY <2>3, CompleteIsFinal DEF LandCancelled, CancelDirect, SetRun
  <2> QED BY <2>1, <2>2, <2>3, RunWriters
<1>2. CASE LandComplete
  <2>1. pc = "complete" /\ case' = case /\ attempts' = attempts /\ metric' = metric
    BY <1>2 DEF LandComplete
  <2>2. \A c \in Cases : case[c] \notin {"missing", "queued", "running"}
    BY <2>1 DEF OnCourse, CaseAt, Closing, Finished
  <2>3. \A c \in Cases : \A k \in Rows(c) : attempts[c][k].status \notin {"queued", "running"}
    BY <2>1 DEF StaleAt, Closing, Open, Stale
  <2>4. metric.state \in {"PARTIAL", "COMPLETE"} /\ \A s \in metric.samples : attempts[s[1]][s[2]].no = 0
    BY <2>1 DEF LandedAt, FirstOnly
  <2>5. \A c \in Cases : CountedIn(c, metric.samples)
    BY <2>1 DEF LandedAt
  <2>6. \A c \in Cases : Rows(c)' = Rows(c) /\ Deciding(c)' = Deciding(c)
    BY <2>1, OffsetKept DEF Deciding, First, Rows
  <2> QED BY <2>1, <2>2, <2>3, <2>4, <2>5, <2>6 DEF CompleteRunSettled, CountedIn
<1> QED BY <1>1, <1>2 DEF CompleteRunSettled

\* What a complete run needs is gathered along every execution.
THEOREM EngineSettling == EngineSpec => []Settling
<1>1. EngineInit => Settling
  BY DEF EngineInit, Fresh, Settling, StaleAt, FirstOnly, LandedAt, CompleteRunSettled,
         Executing, InCase, Closing
<1>2. Numbered /\ OnCourse /\ Settling /\ [EngineNext]_engineVars => Settling'
  <2> SUFFICES ASSUME Numbered, OnCourse, Settling, [EngineNext]_engineVars PROVE Settling'
    OBVIOUS
  <2>1. CASE EngineNext
    BY <2>1, StaleAtStep, FirstOnlyStep, LandedAtStep, CompleteStep DEF Settling
  <2>2. CASE UNCHANGED engineVars
    <3>1. run' = run /\ case' = case /\ attempts' = attempts /\ metric' = metric /\ pc' = pc /\ me' = me
      BY <2>2 DEF engineVars, stored
    <3>2. \A c : RepeatOffset(c)' = RepeatOffset(c)
      BY <3>1, OffsetKept
    <3>3. \A c : Rows(c)' = Rows(c) /\ Stale(c)' = Stale(c) /\ Deciding(c)' = Deciding(c)
      BY <3>1, <3>2 DEF Rows, Stale, Deciding, First
    <3> QED BY <3>1, <3>2, <3>3 DEF Settling, StaleAt, FirstOnly, LandedAt, CompleteRunSettled,
                                    CountedIn, Current
  <2> QED BY <2>1, <2>2
<1> QED BY <1>1, <1>2, EngineNumbered, EngineOnCourse, PTL DEF EngineSpec

\* A complete run has nothing left open and its metric counts exactly first
\* attempts, every completed one that decided a case among them (_finalize).
THEOREM EngineCompleteRunSettled == EngineSpec => []CompleteRunSettled
<1>1. Settling => CompleteRunSettled
  BY DEF Settling
<1> QED BY <1>1, EngineSettling, PTL

-----------------------------------------------------------------------------
(***************************************************************************)
(* What decided a settled case.                                            *)
(***************************************************************************)
Settled(c) == case[c] \in {"completed", "failed"}

\* What DecidedByFirstAttempts says of one case.
Decided(c) ==
    LET own == {attempts[c][k] : k \in Deciding(c)}
        some(v) == \E a \in own : a.verdict = v
    IN /\ Cardinality(own) = Repeats
       /\ case[c] = "completed" <=> \E a \in own : a.status = "completed"
       /\ class[c] = "PASSING" <=> some("PASS") /\ ~some("FAIL")
       /\ class[c] = "FAILING" <=> some("FAIL") /\ ~some("PASS")
       /\ class[c] = "FLAKY" <=> some("PASS") /\ some("FAIL")
       /\ class[c] = "ERRORED" => \E a \in own : a.status # "completed" \/ a.verdict = "ERROR"

\* Only a completed attempt has a verdict.
ScoredRows ==
    /\ \A c \in Cases : \A k \in Rows(c) :
          attempts[c][k].verdict # NULL => attempts[c][k].status = "completed"
    /\ pc = "score" => attempts[me.at][Current].status = "completed"

\* The rows of a settled case are settled, and no orphan is one of them.
SettledRows ==
    /\ \A c \in Cases : Settled(c) => Stale(c) = {}
    /\ me.orphan # NULL => pc = "reconcile" /\ ~Settled(me.orphan[1])

\* The execution has one first attempt for every repeat it went through.
SampledAt ==
    /\ pc \in InCase => \A r \in me.base..(me.base + me.i) :
          \/ pc = "create" /\ me.no = 0 /\ r = me.base + me.i
          \/ \E k \in Outcomes(me.at) : attempts[me.at][k].rep = r
    /\ pc \in {"classify", "settle"} => me.i + 1 = Repeats

ClassifiedAt ==
    pc = "settle" => class[me.at] = Classify(Judged(me.at, me.base), Broken(me.at, me.base))

\* DecidedByFirstAttempts is inductive once it is known that nothing touches
\* the rows of a settled case, and what an execution has gathered before.
Decisive == ScoredRows /\ SettledRows /\ SampledAt /\ ClassifiedAt /\ DecidedByFirstAttempts

\* Asking for a status changes nothing else, and only of an open attempt.
LEMMA StatusAsked ==
    ASSUME Numbered, NEW c \in Cases, NEW k \in Rows(c), NEW to, SetAttempt(c, k, to)
    PROVE  /\ attempts'[c][k].verdict = attempts[c][k].verdict
           /\ attempts'[c][k].status = to
           /\ attempts[c][k].status = to \/ attempts[c][k].status \in {"queued", "running"}
           /\ \A b \in Cases : Len(attempts'[b]) = Len(attempts[b])
           /\ \A b \in Cases \ {c} : attempts'[b] = attempts[b]
           /\ \A l \in Rows(c) \ {k} : attempts'[c][l] = attempts[c][l]
<1>1. /\ attempts \in [Cases -> Seq(Attempt)] /\ attempts[c] \in Seq(Attempt)
      /\ k \in 1..Len(attempts[c]) /\ attempts[c][k] \in Attempt
  BY DEF Numbered, EngineTypeOK, Rows
<1>2. attempts' = [attempts EXCEPT ![c] = [attempts[c] EXCEPT ![k] = [attempts[c][k] EXCEPT !.status = to]]]
  BY DEF SetAttempt
<1>3. attempts[c][k].status = to \/ attempts[c][k].status \in {"queued", "running"}
  <2>1. attempts[c][k].status \in AttemptStatus
    BY <1>1 DEF Attempt
  <2> QED BY <2>1, StatusSets DEF SetAttempt, AttemptMay, AttemptMoves
<1> DEFINE a == [attempts[c][k] EXCEPT !.status = to]
<1>4. a.verdict = attempts[c][k].verdict /\ a.status = to
  BY <1>1 DEF Attempt
<1> HIDE DEF a
<1>5. attempts' = [attempts EXCEPT ![c] = [attempts[c] EXCEPT ![k] = a]]
  BY <1>2 DEF a
<1> QED BY <1>1, <1>3, <1>4, <1>5 DEF Rows

\* Nothing that is open or being executed is settled, so a settled case keeps
\* its rows, its class and its status as long as it is settled.
LEMMA SettledStays ==
    ASSUME Numbered, OnCourse, Decisive, EngineNext, NEW c \in Cases, Settled(c)
    PROVE  attempts'[c] = attempts[c] /\ class'[c] = class[c]
<1> USE DEF Decisive
<1>0. attempts \in [Cases -> Seq(Attempt)] /\ (pc \in InCase => me.at \in Cases)
  BY DEF Numbered, EngineTypeOK, Position
<1>1. pc \in InCase \ {"stream"} => me.at # c
  BY DEF OnCourse, CaseAt, Settled
<1>2. attempts'[c] = attempts[c]
  <2>1. ASSUME NEW b \in Cases, NEW k \in Rows(b), OrphanAttempt(b, k)
        PROVE  attempts'[c] = attempts[c]
    BY <1>0, <2>1 DEF OrphanAttempt, SetAttempt, SettledRows
  <2>2. CASE OrphanJob
    <3>1. me.orphan[1] # c
      BY <2>2 DEF OrphanJob, SettledRows
    <3> QED BY <1>0, <2>2, <3>1 DEF OrphanJob
  <2>3. CASE CreateAttempt
    BY <1>0, <1>1, <2>3 DEF CreateAttempt, InCase
  <2>4. CASE \/ StartAttempt \/ SubmitJob \/ RecordAttempt \/ ScoreAttempt
             \/ \E answer \in Answers : Invoke(answer)
    <3>1. pc \in InCase \ {"stream"}
      BY <2>4 DEF InCase, StartAttempt, SubmitJob, RecordAttempt, ScoreAttempt, Invoke
    <3> QED BY <1>1, <2>4, <3>1, CurrentRowMoves
  <2> QED BY <2>1, <2>2, <2>3, <2>4, RowWriters
<1>3. class'[c] = class[c]
  <2>1. class' = class \/ ClassifyCase
    BY ClassWriters
  <2> QED BY <1>1, <2>1 DEF ClassifyCase, InCase, Numbered, EngineTypeOK
<1> QED BY <1>2, <1>3

\* Only the step that settles the case being executed settles a case.
LEMMA WhoSettles ==
    ASSUME Numbered, OnCourse, EngineNext, NEW c \in Cases, Settled(c)'
    PROVE  (Settled(c) /\ case'[c] = case[c]) \/ (SettleCase /\ c = me.at)
<1>0. case \in [Cases -> CaseStatus]
  BY DEF Numbered, EngineTypeOK
<1>1. ASSUME NEW b, NEW to \in {"queued", "running", "cancelled"}, SetCase(b, to)
      PROVE  Settled(c) /\ case'[c] = case[c]
  BY <1>0, <1>1 DEF SetCase, Settled
<1>2. CASE InsertCases
  BY <1>2 DEF InsertCases, Settled
<1>3. CASE BeginCase \/ CancelCase
  BY <1>1, <1>3 DEF BeginCase, CancelCase
<1>4. CASE \E b \in Cases : ReopenCase(b) \/ CloseStaleCase(b) \/ RequeueCase(b) \/ MarkCase(b)
  BY <1>1, <1>4 DEF ReopenCase, CloseStaleCase, RequeueCase, MarkCase
<1>5. CASE SettleCase
  BY <1>0, <1>5 DEF SettleCase, SetCase, Settled
<1> QED BY <1>2, <1>3, <1>4, <1>5, CaseWriters DEF Settled

\* A verdict is written to a completed attempt, whose status is final.
LEMMA VerdictsStep ==
    ASSUME Numbered, Decisive, EngineNext
    PROVE  \A c \in Cases : \A k \in Rows(c)' :
              attempts'[c][k].verdict # NULL => attempts'[c][k].status = "completed"
<1> USE DEF Decisive
<1> DEFINE Kept(c, k) == attempts'[c][k].verdict # NULL => attempts'[c][k].status = "completed"
           AllKept == \A c \in Cases : \A k \in Rows(c)' : Kept(c, k)
<1>0. /\ attempts \in [Cases -> Seq(Attempt)] /\ me \in Memory
      /\ \A c \in Cases : \A k \in Rows(c) : attempts[c][k] \in Attempt
  BY DEF Numbered, EngineTypeOK, Rows
<1>1. ASSUME NEW c \in Cases, NEW k \in Rows(c), NEW to, SetAttempt(c, k, to)
      PROVE  AllKept
  <2>1. Kept(c, k)
    BY <1>1, StatusAsked DEF ScoredRows
  <2> QED BY <1>1, <2>1, StatusAsked DEF ScoredRows, Rows
<1>2. ASSUME NEW c \in Cases, NEW k \in Rows(c), NEW j, attempts' = [attempts EXCEPT ![c][k].job = j]
      PROVE  AllKept
  <2> DEFINE a == [attempts[c][k] EXCEPT !.job = j]
  <2>1. a.verdict = attempts[c][k].verdict /\ a.status = attempts[c][k].status
    BY <1>0 DEF Attempt
  <2>2. attempts' = [attempts EXCEPT ![c] = [attempts[c] EXCEPT ![k] = a]]
    BY <1>2
  <2> HIDE DEF a
  <2>3. \A b \in Cases : Rows(b)' = Rows(b)
    BY <1>0, <2>2 DEF Rows
  <2>4. \A b \in Cases : \A l \in Rows(b) : attempts'[b][l] = IF b = c /\ l = k THEN a ELSE attempts[b][l]
    BY <1>0, <2>2 DEF Rows
  <2> QED BY <2>1, <2>3, <2>4 DEF ScoredRows
<1>3. CASE attempts' = attempts
  BY <1>3 DEF ScoredRows, Rows
<1>4. CASE CreateAttempt
  <2>1. me' = me /\ me.at \in Cases /\ EngineTypeOK /\ Len(attempts[me.at]) \in Nat
    BY <1>4 DEF CreateAttempt, Numbered, Position, InCase, EngineTypeOK
  <2>2. Rows(me.at)' = Rows(me.at) \cup {Len(attempts[me.at]) + 1}
    BY <1>4, <2>1, AppendedRow DEF Rows
  <2>3. \A b \in Cases \ {me.at} : attempts'[b] = attempts[b] /\ Rows(b)' = Rows(b)
    BY <1>4, <2>1, AppendedRow DEF Rows
  <2>4. \A l \in Rows(me.at) : Kept(me.at, l)
    BY <1>4, <2>1, AppendedRow DEF ScoredRows
  <2>5. Kept(me.at, Len(attempts[me.at]) + 1)
    BY <1>4, <2>1, AppendedRow DEF NewAttempt
  <2>6. \A b \in Cases \ {me.at} : \A l \in Rows(b)' : Kept(b, l)
    BY <2>3 DEF ScoredRows
  <2>7. ASSUME NEW b \in Cases, NEW l \in Rows(b)'
        PROVE  Kept(b, l)
    <3>1. CASE b = me.at
      BY <2>1, <2>2, <2>4, <2>5, <2>7, <3>1
    <3>2. CASE b # me.at
      BY <2>6, <2>7, <3>2
    <3> QED BY <3>1, <3>2
  <2> QED BY <2>7
<1>5. pc \in InAttempt => me.at \in Cases /\ Current \in Rows(me.at)
  BY DEF Numbered, Position, Numbering, InAttempt, InCase
<1>6. CASE ScoreAttempt
  <2>1. me.at \in Cases /\ Current \in Rows(me.at) /\ pc = "score"
    BY <1>5, <1>6 DEF ScoreAttempt, InAttempt
  <2>2. Kept(me.at, Current)
    BY <1>6, <2>1, CurrentRowMoves DEF ScoredRows
  <2> QED BY <1>6, <2>2, CurrentRowMoves DEF ScoredRows
<1>7. CASE \E c \in Cases : \E k \in Rows(c) : OrphanAttempt(c, k)
  BY <1>1, <1>7 DEF OrphanAttempt
<1>8. CASE OrphanJob
  <2>1. me.orphan[1] \in Cases /\ me.orphan[2] \in Rows(me.orphan[1])
    BY <1>0, <1>8 DEF OrphanJob, Memory, Numbered, Position
  <2> QED BY <1>2, <1>3, <1>8, <2>1 DEF OrphanJob
<1>9. CASE StartAttempt \/ RecordAttempt
  BY <1>1, <1>5, <1>9 DEF StartAttempt, RecordAttempt, InAttempt
<1>10. CASE SubmitJob \/ \E answer \in Answers : Invoke(answer)
  BY <1>2, <1>3, <1>5, <1>10 DEF SubmitJob, Invoke, InAttempt
<1> QED BY <1>3, <1>4, <1>6, <1>7, <1>8, <1>9, <1>10, RowWriters

\* ... and what is scored is completed.
LEMMA ScoredRowsStep ==
    ASSUME Numbered, Decisive, EngineNext
    PROVE  ScoredRows'
<1> USE DEF Decisive
<1> SUFFICES ASSUME pc' = "score" PROVE (attempts[me.at][Current].status = "completed")'
  BY VerdictsStep DEF ScoredRows
<1>1. pc' # "score" \/ RecordAttempt \/ ((RequestCancel \/ CancelDirect) /\ pc = "score")
  <2>1. CASE \/ BeginCase \/ CreateAttempt \/ StartAttempt \/ PollJob \/ SubmitJob
             \/ ScoreAttempt \/ NextAttempt \/ \E answer \in Answers : Invoke(answer)
    BY <2>1 DEF BeginCase, CreateAttempt, StartAttempt, PollJob, SubmitJob, ScoreAttempt,
                NextAttempt, Invoke
  <2>2. CASE RequestCancel \/ CancelDirect
    BY <2>2 DEF RequestCancel, CancelDirect
  <2> QED BY <2>1, <2>2, AttemptFlow DEF InAttempt
<1>2. CASE (RequestCancel \/ CancelDirect) /\ pc = "score"
  BY <1>2 DEF RequestCancel, CancelDirect, stored, ScoredRows, Current
<1>3. CASE RecordAttempt /\ pc' = "score"
  <2>1. /\ me' = me /\ Current' = Current /\ me.at \in Cases /\ Current \in Rows(me.at)
        /\ SetAttempt(me.at, Current, "completed")
    BY <1>3, CurrentRowMoves DEF RecordAttempt
  <2> QED BY <2>1, StatusAsked
<1> QED BY <1>1, <1>2, <1>3

\* A case is settled when all its rows are, and then no execution is in it.
LEMMA SettledRowsStep ==
    ASSUME Numbered, OnCourse, Settling, Decisive, EngineNext
    PROVE  SettledRows'
<1> USE DEF Decisive
<1>1. ASSUME NEW c \in Cases, Settled(c)'
      PROVE  Stale(c)' = {}
  <2>1. CASE Settled(c)
    BY <2>1, SettledStays DEF SettledRows, Stale, Rows
  <2>2. CASE SettleCase /\ c = me.at
    BY <2>2 DEF SettleCase, Settling, StaleAt, InCase, Open, Stale, Rows
  <2> QED BY <1>1, <2>1, <2>2, WhoSettles
<1>2. ASSUME me'.orphan # NULL
      PROVE  pc' = "reconcile" /\ ~Settled(me.orphan[1])'
  <2>0. me \in Memory /\ case \in [Cases -> CaseStatus]
    BY DEF Numbered, EngineTypeOK
  <2>1. CASE \E c \in Cases : \E k \in Rows(c) : OrphanAttempt(c, k)
    <3>1. PICK c \in Cases : \E k \in Rows(c) : OrphanAttempt(c, k)
      BY <2>1
    <3>2. PICK k \in Rows(c) : OrphanAttempt(c, k)
      BY <3>1
    <3>3. pc' = "reconcile" /\ case' = case /\ me'.orphan = <<c, k>> /\ Stale(c) # {}
      BY <2>0, <3>2 DEF OrphanAttempt, Memory
    <3> QED BY <3>3 DEF SettledRows, Settled
  <2>2. CASE me'.orphan = me.orphan
    <3>1. pc = "reconcile" /\ me.orphan # NULL /\ ~Settled(me.orphan[1]) /\ me.orphan[1] \in Cases
      BY <1>2, <2>0, <2>2 DEF SettledRows, Memory
    <3>2. \/ Crash \/ RequestCancel \/ CancelDirect
          \/ \E c \in Cases : \E k \in Rows(c) : OrphanAttempt(c, k)
          \/ OrphanJob
      BY <3>1 DEF EngineNext, Work, CreateRun, InsertCases, Start, Resume, Enter, Reopen,
         ReopenDone, Advance, ReconcileDone, Reconciled, RequeueDone, ReopenCase,
         CloseStaleCase, RequeueCase, MarkCase, SkipCase, BeginCase, MissCase, LoopDone,
         SeeCancel, PollJob, NextAttempt, CancelCase, ClassifyCase, SettleCase,
         StreamMetric, ReportCancelled, LandCancelled, Rescore, PublishMetric,
         LandComplete, LandIncomplete, Break, CreateAttempt, StartAttempt,
         SubmitJob, Invoke, RecordAttempt, ScoreAttempt
    <3>3. CASE RequestCancel \/ CancelDirect
      BY <3>1, <3>3 DEF RequestCancel, CancelDirect, stored, Settled
    <3>4. CASE Crash \/ OrphanJob
      BY <1>2, <2>0, <3>4 DEF Crash, Fresh, OrphanJob, Memory
    <3> QED BY <2>1, <3>2, <3>3, <3>4
  <2> QED BY <1>2, <2>1, <2>2, FieldsKept, <2>0
<1> QED BY <1>1, <1>2 DEF SettledRows

\* Each repeat leaves a first attempt behind (engine.py, _run_case_inner).
LEMMA SampledAtStep ==
    ASSUME Numbered, Decisive, EngineNext
    PROVE  SampledAt'
<1> USE DEF Decisive
<1>0. /\ me \in Memory /\ EngineTypeOK
      /\ me.base \in Nat /\ me.i \in Nat /\ me.no \in Nat
      /\ pc \in InCase => me.at \in Cases
  BY DEF Numbered, Position, Memory
<1> DEFINE Sampled(r) == \E k \in Outcomes(me.at) : attempts[me.at][k].rep = r
<1>1. ASSUME pc \in InCase, pc' \in InCase, me'.at = me.at, me'.base = me.base, NEW r, Sampled(r)
      PROVE  Sampled(r)'
  <2>1. PICK k \in Outcomes(me.at) : attempts[me.at][k].rep = r
    BY <1>1
  <2>2. /\ me.at \in Cases /\ k \in Rows(me.at)
        /\ attempts[me.at][k].no = 0 /\ attempts[me.at][k].rep >= me.base
    BY <1>0, <1>1, <2>1 DEF Outcomes, First
  <2>3. /\ k \in Rows(me.at)' /\ attempts'[me.at][k].no = 0
        /\ attempts'[me.at][k].rep = attempts[me.at][k].rep
    BY <1>1, <2>2, KeysKept
  <2> QED BY <1>1, <2>1, <2>2, <2>3 DEF Outcomes, First
<1>2. CASE pc' \notin InCase
  BY <1>2 DEF SampledAt, InCase
<1>3. CASE BeginCase
  <2>1. pc' = "create" /\ me'.base \in Nat /\ me'.i = 0 /\ me'.no = 0
    <3>1. me' \in Memory
      BY MemoryStep DEF Numbered
    <3> QED BY <1>0, <1>3, <3>1 DEF BeginCase, Memory
  <2> QED BY <2>1 DEF SampledAt
<1>4. CASE CreateAttempt
  <2>1. pc = "create" /\ pc' = "start" /\ me' = me /\ me.at \in Cases
    BY <1>0, <1>4 DEF CreateAttempt, InCase
  <2>2. \A r \in me.base..(me.base + me.i) : Sampled(r) \/ (me.no = 0 /\ r = me.base + me.i)
    BY <2>1 DEF SampledAt, InCase
  <2>3. me.no = 0 => Sampled(me.base + me.i)'
    <3> DEFINE new == Len(attempts[me.at]) + 1
    <3>1. new \in Rows(me.at)' /\ attempts'[me.at][new] = NewAttempt(me.base + me.i, me.no)
      BY <1>0, <1>4, <2>1, AppendedRow DEF Rows, EngineTypeOK
    <3>2. me.no = 0 => new \in Outcomes(me.at)'
      BY <1>0, <2>1, <3>1 DEF Outcomes, First, NewAttempt
    <3>3. attempts'[me.at][new].rep = me.base + me.i
      BY <3>1 DEF NewAttempt
    <3> HIDE DEF new
    <3> QED BY <2>1, <3>2, <3>3
  <2>4. \A r \in me.base..(me.base + me.i) : Sampled(r)'
    BY <1>1, <2>1, <2>2, <2>3 DEF InCase
  <2> HIDE DEF Sampled
  <2>5. \A r \in (me.base..(me.base + me.i))' : Sampled(r)'
    BY <2>1, <2>4
  <2> QED BY <2>1, <2>5 DEF SampledAt, Sampled
<1>5. ASSUME pc \in InCase, pc' \in InCase \ {"create"}, pc # "create",
             me'.at = me.at, me'.base = me.base, me'.i = me.i,
             pc' \in {"classify", "settle"} => me.i + 1 = Repeats
      PROVE  SampledAt'
  <2>1. \A r \in me.base..(me.base + me.i) : Sampled(r)
    BY <1>5 DEF SampledAt
  <2>2. \A r \in me.base..(me.base + me.i) : Sampled(r)'
    BY <1>1, <1>5, <2>1
  <2> HIDE DEF Sampled
  <2>3. \A r \in (me.base..(me.base + me.i))' : Sampled(r)'
    BY <1>5, <2>2
  <2> QED BY <1>5, <2>3 DEF SampledAt, Sampled
<1>6. CASE \/ StartAttempt \/ PollJob \/ SubmitJob \/ RecordAttempt \/ ScoreAttempt
           \/ \E answer \in Answers : Invoke(answer)
  <2>1. /\ pc \in InAttempt \ {"next"} /\ pc' \in InAttempt \cup {"raise"}
        /\ me'.at = me.at /\ me'.base = me.base /\ me'.i = me.i
    <3>1. CASE StartAttempt \/ PollJob \/ SubmitJob
      BY <1>0, <3>1 DEF Memory, InAttempt, StartAttempt, PollJob, SubmitJob
    <3>2. CASE RecordAttempt \/ ScoreAttempt
      BY <1>0, <3>2 DEF Memory, InAttempt, RecordAttempt, ScoreAttempt
    <3>3. CASE \E answer \in Answers : Invoke(answer)
      BY <1>0, <3>3 DEF Memory, InAttempt, Invoke
    <3> QED BY <1>6, <3>1, <3>2, <3>3
  <2> QED BY <1>2, <1>5, <2>1 DEF InAttempt, InCase
<1>7. CASE CancelCase \/ ClassifyCase \/ SettleCase
  <2>1. /\ pc \in {"classify", "settle"} /\ pc' \in {"settle", "stream"} /\ me' = me
    BY <1>7 DEF CancelCase, ClassifyCase, SettleCase
  <2> QED BY <1>5, <2>1 DEF SampledAt, InCase
<1>8. CASE RequestCancel \/ CancelDirect
  BY <1>8 DEF RequestCancel, CancelDirect, stored, SampledAt, Outcomes, First, Rows
<1>9. CASE NextAttempt
  <2>1. pc = "next" /\ attempts' = attempts /\ pc \in InCase
    BY <1>9 DEF NextAttempt, stored, InCase
  <2>2. \A r \in me.base..(me.base + me.i) : Sampled(r)
    BY <2>1 DEF SampledAt
  <2>3. CASE me' = [me EXCEPT !.no = @ + 1] /\ pc' = "create"
    <3>1. /\ me'.at = me.at /\ me'.base = me.base /\ me'.i = me.i
      BY <1>0, <2>3 DEF Memory
    <3>2. \A r \in me.base..(me.base + me.i) : Sampled(r)'
      BY <1>1, <2>1, <2>2, <2>3, <3>1 DEF InCase
    <3> HIDE DEF Sampled
    <3>3. \A r \in (me.base..(me.base + me.i))' : Sampled(r)'
      BY <3>1, <3>2
    <3> QED BY <2>3, <3>3 DEF SampledAt, Sampled
  <2>4. CASE me' = [me EXCEPT !.i = @ + 1, !.no = 0] /\ pc' = "create"
    <3>1. /\ me'.at = me.at /\ me'.base = me.base /\ me'.i = me.i + 1 /\ me'.no = 0
      BY <1>0, <2>4 DEF Memory
    <3>2. \A r \in me.base..(me.base + me.i) : Sampled(r)'
      BY <1>1, <2>1, <2>2, <2>4, <3>1 DEF InCase
    <3> HIDE DEF Sampled
    <3>3. \A r \in (me.base..(me.base + me.i))' : Sampled(r)' \/ r = me.base + me.i + 1
      BY <1>0, <3>1, <3>2
    <3>4. \A r \in (me.base..(me.base + me.i))' : Sampled(r)' \/ r = (me.base + me.i)'
      BY <1>0, <3>1, <3>3
    <3> QED BY <2>4, <3>1, <3>4 DEF SampledAt, Sampled
  <2>5. CASE me.i + 1 = Repeats /\ me' = me /\ pc' = "classify"
    BY <1>5, <2>1, <2>5 DEF InCase
  <2> QED BY <1>9, <2>3, <2>4, <2>5 DEF NextAttempt
<1>10. CASE \/ RequeueDone \/ SkipCase \/ LoopDone \/ StreamMetric \/ Rescore \/ PublishMetric
            \/ ReconcileDone \/ \E c \in Cases : RequeueCase(c)
  BY <1>2, <1>10 DEF RequeueDone, SkipCase, LoopDone, StreamMetric, Rescore, PublishMetric,
                     ReconcileDone, RequeueCase, InCase
<1>11. CASE pc' \in {"idle", "insert", "mark", "land", "raise"} \cup (Entering \ {"requeue"})
  BY <1>2, <1>11 DEF Entering, InCase
<1> QED BY <1>3, <1>4, <1>6, <1>7, <1>8, <1>9, <1>10, <1>11, Flow

\* The class written is that of the execution's own first attempts.
LEMMA ClassifiedAtStep ==
    ASSUME Numbered, Decisive, EngineNext
    PROVE  ClassifiedAt'
<1>1. pc' # "settle" \/ ClassifyCase \/ ((RequestCancel \/ CancelDirect) /\ pc = "settle")
  <2>1. CASE \/ RequeueDone \/ SkipCase \/ LoopDone \/ StreamMetric \/ Rescore \/ PublishMetric
             \/ ReconcileDone \/ BeginCase \/ CreateAttempt \/ StartAttempt \/ PollJob \/ SubmitJob
             \/ RecordAttempt \/ ScoreAttempt \/ NextAttempt \/ CancelCase \/ SettleCase
             \/ \E c \in Cases : RequeueCase(c)
             \/ \E answer \in Answers : Invoke(answer)
    BY <2>1 DEF RequeueDone, SkipCase, LoopDone, StreamMetric, Rescore, PublishMetric,
       ReconcileDone, BeginCase, CreateAttempt, StartAttempt, PollJob, SubmitJob, RecordAttempt,
       ScoreAttempt, NextAttempt, CancelCase, SettleCase, RequeueCase, Invoke
  <2>2. CASE RequestCancel \/ CancelDirect
    BY <2>2 DEF RequestCancel, CancelDirect
  <2> QED BY <2>1, <2>2, Flow DEF Entering
<1>2. CASE ClassifyCase
  <2>1. me.at \in Cases /\ class \in [Cases -> Classes \cup {NULL}]
    BY <1>2 DEF ClassifyCase, Numbered, Position, InCase, EngineTypeOK
  <2>2. attempts' = attempts /\ me' = me
        /\ class'[me.at] = Classify(Judged(me.at, me.base), Broken(me.at, me.base))
    BY <1>2, <2>1 DEF ClassifyCase
  <2>3. Judged(me.at, me.base)' = Judged(me.at, me.base) /\ Broken(me.at, me.base)' = Broken(me.at, me.base)
    BY <2>2 DEF Judged, Broken, First, Rows
  <2> QED BY <2>2, <2>3 DEF ClassifiedAt, Classify
<1>3. CASE (RequestCancel \/ CancelDirect) /\ pc = "settle"
  <2>1. attempts' = attempts /\ me' = me /\ class' = class
    BY <1>3 DEF RequestCancel, CancelDirect, stored
  <2>2. Judged(me.at, me.base)' = Judged(me.at, me.base) /\ Broken(me.at, me.base)' = Broken(me.at, me.base)
    BY <2>1 DEF Judged, Broken, First, Rows
  <2> QED BY <1>3, <2>1, <2>2 DEF ClassifiedAt, Classify, Decisive
<1> QED BY <1>1, <1>2, <1>3 DEF ClassifiedAt

\* First attempts of one case have different repeats.
LEMMA FirstsDiffer ==
    ASSUME Numbered, NEW c \in Cases, NEW k \in First(c), NEW l \in First(c),
           attempts[c][k].rep = attempts[c][l].rep
    PROVE  k = l
<1>1. k \in Nat /\ l \in Nat /\ k \in Rows(c) /\ l \in Rows(c)
  BY RowsAreNat DEF Numbered, First
<1>2. attempts[c][k] \in Attempt /\ attempts[c][l] \in Attempt
  BY <1>1 DEF Numbered, EngineTypeOK, Rows
<1>3. attempts[c][k].rep \in Nat
  BY <1>2 DEF Attempt
<1> QED BY <1>1, <1>3 DEF Numbered, AttemptKeysUnique, First

\* When a case settles, the attempts that decide it are those of the execution,
\* one for every repeat.
LEMMA OwnAttempts ==
    ASSUME Numbered, Settling, Decisive, pc = "settle"
    PROVE  /\ Deciding(me.at) = Outcomes(me.at)
           /\ Cardinality({attempts[me.at][k] : k \in Deciding(me.at)}) = Repeats
<1>0. /\ me.at \in Cases /\ me \in Memory /\ EngineTypeOK /\ AttemptKeysUnique
      /\ me.base \in Nat /\ me.i \in Nat /\ me.i + 1 = Repeats
  BY DEF Numbered, Position, InCase, Memory, Decisive, SampledAt
<1> DEFINE c == me.at
           repeats == me.base..(me.base + me.i)
           own == {attempts[c][k] : k \in Deciding(c)}
           sample == [r \in repeats |-> CHOOSE a \in own : a.rep = r]
<1>1. RepeatOffset(c) = me.base + Repeats
  BY DEF Settling, LandedAt
<1>2. \A k \in Rows(c) : attempts[c][k].rep \in Nat /\ attempts[c][k].rep < me.base + Repeats
  <2>1. \A k \in Rows(c) : attempts[c][k] \in Attempt
    BY <1>0 DEF EngineTypeOK, Rows
  <2> QED BY <1>0, <1>1, <2>1, OffsetIsBehind DEF Attempt
<1>3. Deciding(c) = Outcomes(c)
  BY <1>0, <1>1, <1>2 DEF Deciding, Outcomes, First
<1>4. \A r \in repeats : \E a \in own : a.rep = r
  <2>1. \A r \in repeats : \E k \in Outcomes(c) : attempts[c][k].rep = r
    <3>1. \A r \in me.base..(me.base + me.i) : \/ pc = "create" /\ me.no = 0 /\ r = me.base + me.i
                                               \/ \E k \in Outcomes(me.at) : attempts[me.at][k].rep = r
      BY DEF Decisive, SampledAt, InCase
    <3> QED BY <3>1
  <2>2. \A k \in Outcomes(c) : attempts[c][k] \in own
    BY <1>3
  <2> HIDE DEF repeats, own
  <2>3. ASSUME NEW r \in repeats
        PROVE  \E a \in own : a.rep = r
    <3>1. PICK k \in Outcomes(c) : attempts[c][k].rep = r
      BY <2>1
    <3> QED BY <2>2, <3>1
  <2> QED BY <2>3
<1>5. \A a \in own : a.rep \in repeats
  <2>1. \A k \in Outcomes(c) : attempts[c][k].rep \in repeats
    BY <1>0, <1>2 DEF Outcomes, First
  <2> QED BY <1>3, <2>1
<1>6. \A a, b \in own : a.rep = b.rep => a = b
  <2>1. \A k \in Deciding(c) : k \in First(c)
    BY DEF Deciding
  <2> QED BY <1>0, <2>1, FirstsDiffer
<1> HIDE DEF own, repeats
<1>7. \A r \in repeats : sample[r] \in own /\ sample[r].rep = r
  BY <1>4
<1>8. sample \in Bijection(repeats, own)
  <2>1. sample \in [repeats -> own]
    BY <1>7
  <2>2. \A r, s \in repeats : sample[r] = sample[s] => r = s
    BY <1>7
  <2>3. \A a \in own : \E r \in repeats : sample[r] = a
    BY <1>5, <1>6, <1>7
  <2> HIDE DEF sample
  <2> QED BY <2>1, <2>2, <2>3 DEF Bijection, Injection, IsInjective, Surjection
<1>9. IsFiniteSet(repeats) /\ Cardinality(repeats) = Repeats
  <2>1. me.base \in Int /\ me.base + me.i \in Int /\ me.base <= me.base + me.i
    BY <1>0 DEF Memory
  <2>2. (me.base + me.i) - me.base + 1 = Repeats
    BY <1>0 DEF Memory
  <2> QED BY <2>1, <2>2, FS_Interval DEF repeats
<1>10. Cardinality(own) = Repeats
  BY <1>8, <1>9, FS_Bijection DEF ExistsBijection
<1> QED BY <1>3, <1>10 DEF own

\* A case is settled by the first attempts of the execution that settles it
\* (engine.py, _run_case_inner and _classify_case).
LEMMA DecidedStep ==
    ASSUME Numbered, OnCourse, Settling, Decisive, EngineNext
    PROVE  DecidedByFirstAttempts'
<1> SUFFICES ASSUME NEW c \in Cases, Settled(c)'
             PROVE  Decided(c)'
  BY DEF DecidedByFirstAttempts, Settled, Decided
<1> DEFINE D(own, settled, name) ==
        LET some(v) == \E a \in own : a.verdict = v
        IN /\ Cardinality(own) = Repeats
           /\ settled = "completed" <=> \E a \in own : a.status = "completed"
           /\ name = "PASSING" <=> some("PASS") /\ ~some("FAIL")
           /\ name = "FAILING" <=> some("FAIL") /\ ~some("PASS")
           /\ name = "FLAKY" <=> some("PASS") /\ some("FAIL")
           /\ name = "ERRORED" => \E a \in own : a.status # "completed" \/ a.verdict = "ERROR"
           own == {attempts[c][k] : k \in Deciding(c)}
<1>1. Decided(c) <=> D(own, case[c], class[c])
  BY DEF Decided
<1>2. Decided(c)' <=> D(own', case'[c], class'[c])
  BY DEF Decided
<1>3. ASSUME attempts'[c] = attempts[c]
      PROVE  own' = own
  <2>1. Deciding(c)' = Deciding(c)
    BY <1>3, OffsetKept DEF Deciding, First, Rows
  <2> QED BY <1>3, <2>1
<1>4. CASE Settled(c) /\ case'[c] = case[c]
  <2>1. Decided(c)
    BY <1>4 DEF Decisive, DecidedByFirstAttempts, Settled, Decided
  <2>2. attempts'[c] = attempts[c] /\ class'[c] = class[c]
    BY <1>4, SettledStays
  <2> HIDE DEF D, own
  <2> QED BY <1>1, <1>2, <1>3, <1>4, <2>1, <2>2
<1>5. CASE SettleCase /\ c = me.at
  <2>0. case \in [Cases -> CaseStatus] /\ pc = "settle"
    BY <1>5 DEF Numbered, EngineTypeOK, SettleCase
  <2>1. /\ attempts' = attempts /\ class' = class
        /\ case'[c] = IF Landing(c) # {} THEN "completed" ELSE "failed"
    BY <1>5, <2>0 DEF SettleCase, SetCase
  <2>2. Deciding(c) = Outcomes(c) /\ Cardinality(own) = Repeats
    BY <1>5, <2>0, OwnAttempts
  <2>3. case'[c] = "completed" <=> \E a \in own : a.status = "completed"
    <3>1. Landing(c) # {} <=> \E k \in Outcomes(c) : attempts[c][k].status = "completed"
      BY DEF Landing
    <3>2. (\E k \in Outcomes(c) : attempts[c][k].status = "completed")
            <=> \E a \in own : a.status = "completed"
      BY <2>2
    <3> QED BY <2>1, <3>1, <3>2
  <2>4. class[c] = Classify(Judged(c, me.base), Broken(c, me.base))
    BY <1>5, <2>0 DEF Decisive, ClassifiedAt
  <2>5. \A k \in Outcomes(c) : k \in First(c) /\ attempts[c][k].rep >= me.base
    BY <1>5 DEF Outcomes
  <2>6. \A k \in First(c) : attempts[c][k].rep >= me.base => k \in Outcomes(c)
    BY <1>5 DEF Outcomes
  <2>7. \A v \in {"PASS", "FAIL"} : v \in Judged(c, me.base) <=> \E a \in own : a.verdict = v
    <3>1. \A k \in Outcomes(c) : attempts[c][k].verdict \in {"PASS", "FAIL"}
             => attempts[c][k].status = "completed"
      BY <2>5 DEF Decisive, ScoredRows, First, AllAnswers, Completed
    <3> QED BY <2>2, <2>5, <2>6, <3>1 DEF Judged
  <2>8. Broken(c, me.base) => \E a \in own : a.status # "completed" \/ a.verdict = "ERROR"
    BY <2>2, <2>6 DEF Broken
  <2>9. D(own, case'[c], class[c])
    <3> HIDE DEF own
    <3>1. /\ class[c] = "PASSING" <=> "PASS" \in Judged(c, me.base) /\ "FAIL" \notin Judged(c, me.base)
          /\ class[c] = "FAILING" <=> "FAIL" \in Judged(c, me.base) /\ "PASS" \notin Judged(c, me.base)
          /\ class[c] = "FLAKY" <=> "PASS" \in Judged(c, me.base) /\ "FAIL" \in Judged(c, me.base)
          /\ class[c] = "ERRORED" => Broken(c, me.base)
      BY <2>4 DEF Classify, Classes
    <3> QED BY <2>2, <2>3, <2>7, <2>8, <3>1
  <2> HIDE DEF D, own
  <2> QED BY <1>2, <1>3, <2>1, <2>9
<1> QED BY <1>4, <1>5, WhoSettles

\* What decides a case is gathered along its execution and then left alone.
THEOREM EngineDecisive == EngineSpec => []Decisive
<1>1. EngineInit => Decisive
  BY DEF EngineInit, Fresh, Decisive, ScoredRows, SettledRows, SampledAt, ClassifiedAt,
         DecidedByFirstAttempts, Settled, Rows, InCase
<1>2. Numbered /\ OnCourse /\ Settling /\ Decisive /\ [EngineNext]_engineVars => Decisive'
  <2> SUFFICES ASSUME Numbered, OnCourse, Settling, Decisive, [EngineNext]_engineVars PROVE Decisive'
    OBVIOUS
  <2>1. CASE EngineNext
    BY <2>1, ScoredRowsStep, SettledRowsStep, SampledAtStep, ClassifiedAtStep, DecidedStep DEF Decisive
  <2>2. CASE UNCHANGED engineVars
    <3>1. run' = run /\ case' = case /\ class' = class /\ attempts' = attempts /\ pc' = pc /\ me' = me
      BY <2>2 DEF engineVars, stored
    <3>2. \A c : RepeatOffset(c)' = RepeatOffset(c)
      BY <3>1, OffsetKept
    <3>3. \A c : Rows(c)' = Rows(c) /\ Stale(c)' = Stale(c) /\ Deciding(c)' = Deciding(c)
                 /\ Outcomes(c)' = Outcomes(c)
      BY <3>1, <3>2 DEF Rows, Stale, Deciding, First, Outcomes
    <3>4. /\ Judged(me.at, me.base)' = Judged(me.at, me.base)
          /\ Broken(me.at, me.base)' = Broken(me.at, me.base)
      BY <3>1 DEF Judged, Broken, First, Rows
    <3>5. ScoredRows' /\ SettledRows' /\ SampledAt'
      BY <3>1, <3>3 DEF Decisive, ScoredRows, SettledRows, SampledAt, Settled, Current
    <3>6. ClassifiedAt'
      BY <3>1, <3>4 DEF Decisive, ClassifiedAt, Classify
    <3>7. DecidedByFirstAttempts'
      BY <3>1, <3>3 DEF Decisive, DecidedByFirstAttempts
    <3> QED BY <3>5, <3>6, <3>7 DEF Decisive
  <2> QED BY <2>1, <2>2
<1> QED BY <1>1, <1>2, EngineNumbered, EngineOnCourse, EngineSettling, PTL DEF EngineSpec

\* A settled case was decided by the first attempts of one uninterrupted
\* execution, all Repeats of them, and by nothing else (_run_case_inner).
THEOREM EngineDecidedByFirstAttempts == EngineSpec => []DecidedByFirstAttempts
<1>1. Decisive => DecidedByFirstAttempts
  BY DEF Decisive
<1> QED BY <1>1, EngineDecisive, PTL
=============================================================================
