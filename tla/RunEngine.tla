------------------------------ MODULE RunEngine ------------------------------
(***************************************************************************)
(* One evaluation run executed by the engine (engine.py, Engine.run), its  *)
(* cases, attempts, remote jobs and published metric, across crashes,      *)
(* cancellation and resumption.                                            *)
(*                                                                         *)
(* Every call of Storage is a transaction of its own, so every such call   *)
(* is an action here and a crash may fall between any two: what is stored  *)
(* survives (run, case, class, attempts, metric), what the process holds   *)
(* (pc, me) is lost. At most one process executes a run: the api keeps a   *)
(* registry of workers, and a worker service holds the lease of the run's  *)
(* job, which module JobQueue shows to fence every other process.          *)
(*                                                                         *)
(* The spec has one metric, so the scores of an attempt are one verdict.   *)
(* Cases are numbered in the order of the frozen spec.                     *)
(***************************************************************************)
EXTENDS Integers, Sequences, FiniteSets, StatusTables

CONSTANTS
    NumCases,       \* cases of the frozen spec
    Repeats,        \* independent samples per case
    RetryMax,       \* retries after a failing first attempt
    Answers,        \* what an invocation may bring
    AsyncTarget,    \* BOOLEAN: the target is an asynchronous HTTP job
    MaxUpsets,      \* bound on crashes, cancellations and raised errors together
    NULL

Cases == 1..NumCases
Completed == {"PASS", "FAIL", "ERROR", "SKIPPED"}
AllAnswers == Completed \cup {"timed_out", "errored", "cancelled", "raises"}
Classes == {"PASSING", "FAILING", "FLAKY", "ERRORED"}

ASSUME EngineAssumption ==
    /\ NumCases \in Nat \ {0} /\ Repeats \in Nat \ {0} /\ RetryMax \in Nat
    /\ Answers \subseteq AllAnswers
    /\ AsyncTarget \in BOOLEAN
    /\ MaxUpsets \in Nat
    /\ NULL \notin AllAnswers \cup Classes /\ NULL \notin Nat

VARIABLES
    run,        \* runs.status
    case,       \* per case, run_cases.status
    class,      \* per case, run_cases.classification
    attempts,   \* per case, its rows of run_case_attempts and remote_jobs
    metric,     \* the row of run_metric_results
    pc, me,     \* the process executing the run and what it remembers
    cancel,     \* should_cancel()
    upsets      \* crashes, cancellations and raised errors so far

stored == <<run, case, class, attempts, metric>>
engineVars == <<stored, pc, me, cancel, upsets>>

-----------------------------------------------------------------------------
RunMay(to) == to = run \/ to \in RunMoves[run]
CaseMay(c, to) == to = case[c] \/ to \in CaseMoves[case[c]]
AttemptMay(c, k, to) == to = attempts[c][k].status \/ to \in AttemptMoves[attempts[c][k].status]

\* storage.py, set_run_status, set_case_status and set_attempt_status: the
\* tables guard the writes. An illegal request raises IllegalTransition, which
\* CallsAreLegal and the actions with a ~RunMay disjunct are about.
SetRun(to) == RunMay(to) /\ run' = to
SetCase(c, to) == CaseMay(c, to) /\ case' = [case EXCEPT ![c] = to]
SetAttempt(c, k, to) ==
    AttemptMay(c, k, to) /\ attempts' = [attempts EXCEPT ![c][k].status = to]

-----------------------------------------------------------------------------
\* A new attempt; job is its row of remote_jobs, NULL when it has none.
NewAttempt(rep, no) ==
    [rep |-> rep, no |-> no, status |-> "queued", verdict |-> NULL, job |-> NULL]

\* What a process remembers as Engine.run starts on a run with this status.
Fresh(entered) ==
    [stage |-> entered,
     resumed |-> entered \in {"running", "aggregating", "incomplete", "cancelled"},
     requeue |-> {}, orphan |-> NULL, at |-> 1, base |-> 0, i |-> 0, no |-> 0,
     landed |-> {}, executed |-> {}, job |-> NULL, answer |-> NULL]

EngineInit ==
    /\ run = "absent"
    /\ case = [c \in Cases |-> "missing"]
    /\ class = [c \in Cases |-> NULL]
    /\ attempts = [c \in Cases |-> << >>]
    /\ metric = [samples |-> {}, state |-> "NONE"]
    /\ pc = "idle"
    /\ me = Fresh("absent")
    /\ cancel = FALSE
    /\ upsets = 0

\* The attempts of case c, by their place in its row order.
Rows(c) == 1..Len(attempts[c])
First(c) == {k \in Rows(c) : attempts[c][k].no = 0}

\* Mutant of Stale: a hard kill before the attempt started is overlooked.
StaleRunning(c) == {k \in Rows(c) : attempts[c][k].status = "running"}

Stale(c) == {k \in Rows(c) : attempts[c][k].status \in {"queued", "running"}}

\* Mutant of Finished: a failed case is taken for an open one.
FinishedWell(c) == case[c] \in {"completed", "cancelled", "skipped"}

Finished(c) == case[c] \in {"completed", "failed", "cancelled", "skipped"}

\* Mutant of RepeatOffset: numbering restarts with every execution.
RepeatOffsetZero(c) == 0

\* Fresh samples continue past the highest repeat_index present.
RepeatOffset(c) ==
    IF Rows(c) = {} THEN 0
    ELSE 1 + CHOOSE r \in {attempts[c][k].rep : k \in Rows(c)} :
                 \A k \in Rows(c) : attempts[c][k].rep <= r

\* repeat_outcomes: the first attempts this process made for the case.
Outcomes(c) == {k \in First(c) : attempts[c][k].rep >= me.base}

\* The samples the process scored itself: the completed among them.
Landing(c) == {<<c, k>> : k \in {k \in Outcomes(c) : attempts[c][k].status = "completed"}}

\* Mutant of Judged: retries classify too.
JudgedWithRetries(c, base) ==
    {attempts[c][k].verdict : k \in {k \in Rows(c) :
        attempts[c][k].rep >= base /\ attempts[c][k].status = "completed"}}

\* The verdicts of the completed first attempts from repeat base on.
Judged(c, base) ==
    {attempts[c][k].verdict : k \in {k \in First(c) :
        attempts[c][k].rep >= base /\ attempts[c][k].status = "completed"}}

\* _classify_case: FLAKY when both verdicts occur; ERRORED when neither does
\* although an attempt or its evaluation broke.
Classify(verdicts, broken) ==
    CASE {"PASS", "FAIL"} \subseteq verdicts -> "FLAKY"
      [] "PASS" \in verdicts /\ "FAIL" \notin verdicts -> "PASSING"
      [] "FAIL" \in verdicts /\ "PASS" \notin verdicts -> "FAILING"
      [] OTHER -> IF broken THEN "ERRORED" ELSE NULL

Broken(c, base) ==
    \E k \in First(c) : /\ attempts[c][k].rep >= base
                        /\ \/ attempts[c][k].status # "completed"
                           \/ attempts[c][k].verdict = "ERROR"

\* aggregate_metric over first attempts, with expected_n from the spec.
Aggregate(samples, inProgress) ==
    [samples |-> samples,
     state |-> IF inProgress THEN "IN_PROGRESS"
               ELSE IF Cardinality(samples) < NumCases * Repeats THEN "PARTIAL"
               ELSE "COMPLETE"]

\* _case_first_attempt_scores_from_trace: every first attempt of the case.
Rescored(c) == {<<c, k>> : k \in First(c)}

-----------------------------------------------------------------------------
(***************************************************************************)
(* Creating a run, and entering Engine.run                                 *)
(***************************************************************************)
\* A crash between the two transactions of create_run leaves a run without
\* cases; its idempotency key then always finds it.
CreateRun ==
    /\ pc = "idle" /\ run = "absent"
    /\ SetRun("draft")
    /\ pc' = "insert"
    /\ UNCHANGED <<case, class, attempts, metric, me, cancel, upsets>>

InsertCases ==
    /\ pc = "insert"
    /\ case' = [c \in Cases |-> "queued"]
    /\ pc' = "idle"
    /\ UNCHANGED <<run, class, attempts, metric, me, cancel, upsets>>

\* A complete or failed run is refused. Resuming a cancelled or incomplete run
\* is somebody's decision; any other is started or taken up again by a worker.
Enter ==
    /\ pc = "idle"
    /\ me' = Fresh(run)
    /\ cancel' = FALSE
    /\ pc' = IF run \in {"cancelled", "incomplete"} THEN "reopen"
             ELSE IF run \in {"draft", "queued", "provisioning"} THEN "advance"
             ELSE "reconcile"
    /\ UNCHANGED <<stored, upsets>>

Unfinished == {"draft", "queued", "provisioning", "running", "aggregating"}

Start == run \in Unfinished /\ Enter
Resume == run \in {"cancelled", "incomplete"} /\ Enter

Reopen ==
    /\ pc = "reopen"
    /\ SetRun("queued")
    /\ me' = [me EXCEPT !.stage = "queued"]
    /\ pc' = "reopen_cases"
    /\ UNCHANGED <<case, class, attempts, metric, cancel, upsets>>

ReopenCase(c) ==
    /\ pc = "reopen_cases"
    /\ case[c] = "cancelled" /\ \A b \in 1..(c - 1) : case[b] # "cancelled"
    /\ SetCase(c, "queued")
    /\ UNCHANGED <<run, class, attempts, metric, pc, me, cancel, upsets>>

ReopenDone ==
    /\ pc = "reopen_cases" /\ \A c \in Cases : case[c] # "cancelled"
    /\ pc' = "advance"
    /\ UNCHANGED <<stored, me, cancel, upsets>>

NextStage == [draft |-> "queued", queued |-> "provisioning", provisioning |-> "running"]

\* The process ends and forgets.
Quit == pc' = "idle" /\ me' = Fresh("absent")

\* Engine.run walks on from the status it read on entry and does not read it
\* again. A cancel stored meanwhile refuses the write, outside every try, or is
\* overwritten: a cancelled run may be queued.
Advance ==
    /\ pc = "advance"
    /\ LET to == NextStage[me.stage] IN
       \/ /\ SetRun(to)
          /\ me' = [me EXCEPT !.stage = to]
          /\ pc' = IF to = "running" THEN "reconcile" ELSE pc
       \/ ~RunMay(to) /\ Quit /\ UNCHANGED run
    /\ UNCHANGED <<case, class, attempts, metric, cancel, upsets>>

-----------------------------------------------------------------------------
(***************************************************************************)
(* _reconcile_stale and the requeueing after it                            *)
(***************************************************************************)
OrphanAttempt(c, k) ==
    /\ pc = "reconcile" /\ me.orphan = NULL
    /\ k \in Stale(c)
    /\ SetAttempt(c, k, "orphaned")
    /\ me' = [me EXCEPT !.orphan = <<c, k>>]
    /\ UNCHANGED <<run, case, class, metric, pc, cancel, upsets>>

\* The second transaction: the attempt's remote job, if it has a row.
OrphanJob ==
    /\ pc = "reconcile" /\ me.orphan # NULL
    /\ LET c == me.orphan[1]  k == me.orphan[2] IN
       attempts' = IF attempts[c][k].job = NULL THEN attempts
                   ELSE [attempts EXCEPT ![c][k].job.state = "orphaned"]
    /\ me' = [me EXCEPT !.orphan = NULL]
    /\ UNCHANGED <<run, case, class, metric, pc, cancel, upsets>>

Reconciled == pc = "reconcile" /\ me.orphan = NULL /\ \A c \in Cases : Stale(c) = {}

CloseStaleCase(c) ==
    /\ Reconciled
    /\ case[c] = "running"
    /\ SetCase(c, "cancelled")
    /\ me' = [me EXCEPT !.requeue = @ \cup {c}]
    /\ UNCHANGED <<run, class, attempts, metric, pc, cancel, upsets>>

Failed == {c \in Cases : case[c] = "failed"}

ReconcileDone ==
    /\ Reconciled /\ \A c \in Cases : case[c] # "running"
    /\ me' = [me EXCEPT !.requeue = @ \cup IF me.resumed THEN Failed ELSE {}]
    /\ pc' = "requeue"
    /\ UNCHANGED <<stored, cancel, upsets>>

RequeueCase(c) ==
    /\ pc = "requeue"
    /\ c \in me.requeue
    /\ SetCase(c, "queued")
    /\ me' = [me EXCEPT !.requeue = @ \ {c}]
    /\ UNCHANGED <<run, class, attempts, metric, pc, cancel, upsets>>

RequeueDone ==
    /\ pc = "requeue" /\ me.requeue = {}
    /\ pc' = "loop"
    /\ UNCHANGED <<stored, me, cancel, upsets>>

-----------------------------------------------------------------------------
(***************************************************************************)
(* The loop over the cases                                                 *)
(***************************************************************************)
SkipCase ==
    /\ pc = "loop" /\ me.at <= NumCases /\ ~cancel
    /\ Finished(me.at)
    /\ me' = [me EXCEPT !.at = @ + 1]
    /\ UNCHANGED <<stored, pc, cancel, upsets>>

BeginCase ==
    /\ pc = "loop" /\ me.at <= NumCases /\ ~cancel
    /\ ~Finished(me.at) /\ case[me.at] # "missing"
    /\ SetCase(me.at, "running")
    /\ me' = [me EXCEPT !.base = RepeatOffset(me.at), !.i = 0, !.no = 0]
    /\ pc' = "create"
    /\ UNCHANGED <<run, class, attempts, metric, cancel, upsets>>

\* "missing from run - schema drift", in the loop and in _cancel_run.
MissCase ==
    /\ \/ pc = "loop" /\ me.at <= NumCases /\ ~cancel /\ case[me.at] = "missing"
       \/ pc = "mark" /\ \E c \in Cases : case[c] = "missing"
    /\ pc' = "raise"
    /\ UNCHANGED <<stored, me, cancel, upsets>>

LoopDone ==
    /\ pc = "loop" /\ me.at > NumCases
    /\ pc' = "rescore"
    /\ UNCHANGED <<stored, me, cancel, upsets>>

SeeCancel ==
    /\ pc = "loop" /\ me.at <= NumCases /\ cancel
    /\ pc' = "mark"
    /\ UNCHANGED <<stored, me, cancel, upsets>>

-----------------------------------------------------------------------------
(***************************************************************************)
(* One attempt (_run_attempt), and the repeats and retries of a case       *)
(***************************************************************************)
CreateAttempt ==
    /\ pc = "create"
    /\ attempts' = [attempts EXCEPT ![me.at] = Append(@, NewAttempt(me.base + me.i, me.no))]
    /\ pc' = "start"
    /\ UNCHANGED <<run, case, class, metric, me, cancel, upsets>>

Current == Len(attempts[me.at])

StartAttempt ==
    /\ pc = "start"
    /\ SetAttempt(me.at, Current, "running")
    /\ pc' = IF AsyncTarget THEN "submit" ELSE "invoke"
    /\ UNCHANGED <<run, case, class, metric, me, cancel, upsets>>

JobsOf(c) == {attempts[c][k].job.id : k \in {k \in Rows(c) : attempts[c][k].job # NULL}}
Resumable(c) == {k \in Rows(c) : attempts[c][k].job # NULL /\ attempts[c][k].job.state = "orphaned"}

\* get_resumable_remote_job: the newest job of the case left orphaned is
\* polled, without a row of its own until it answers.
PollJob ==
    /\ pc = "submit"
    /\ \E newest \in Resumable(me.at) :
          /\ \A k \in Resumable(me.at) : k <= newest
          /\ me' = [me EXCEPT !.job = attempts[me.at][newest].job.id]
    /\ pc' = "invoke"
    /\ UNCHANGED <<stored, cancel, upsets>>

\* Else a job is submitted and persisted. Ids of one case are numbered in
\* submission order.
SubmitJob ==
    /\ pc = "submit"
    /\ Resumable(me.at) = {}
    /\ LET id == 1 + Cardinality(JobsOf(me.at)) IN
       /\ me' = [me EXCEPT !.job = id]
       /\ attempts' = [attempts EXCEPT ![me.at][Current].job = [id |-> id, state |-> "submitted"]]
    /\ pc' = "invoke"
    /\ UNCHANGED <<run, case, class, metric, cancel, upsets>>

\* The invocation returns; a remote job's row takes the outcome at once.
Invoke(answer) ==
    /\ pc = "invoke"
    /\ answer \in {"cancelled", "raises"} => upsets < MaxUpsets
    /\ upsets' = IF answer \in {"cancelled", "raises"} THEN upsets + 1 ELSE upsets
    /\ attempts' = IF me.job = NULL \/ answer = "raises" THEN attempts
                   ELSE [attempts EXCEPT ![me.at][Current].job =
                            [id |-> me.job,
                             state |-> IF answer \in Completed THEN "completed" ELSE answer]]
    /\ me' = [me EXCEPT !.answer = answer, !.job = NULL]
    /\ pc' = "record"
    /\ UNCHANGED <<run, case, class, metric, cancel>>

RecordAttempt ==
    /\ pc = "record"
    /\ SetAttempt(me.at, Current,
           CASE me.answer \in Completed -> "completed"
             [] me.answer = "raises" -> "errored"
             [] OTHER -> me.answer)
    /\ pc' = CASE me.answer \in Completed -> "score"
               [] me.answer = "raises" -> "raise"
               [] OTHER -> "next"
    /\ UNCHANGED <<run, case, class, metric, me, cancel, upsets>>

ScoreAttempt ==
    /\ pc = "score"
    /\ attempts' = [attempts EXCEPT ![me.at][Current].verdict = me.answer]
    /\ pc' = "next"
    /\ UNCHANGED <<run, case, class, metric, me, cancel, upsets>>

\* Mutant of Retries: one retry too many.
RetriesOneMore ==
    /\ me.no <= RetryMax
    /\ LET last == attempts[me.at][Current] IN
       IF me.no = 0 THEN last.status = "completed" /\ last.verdict = "FAIL"
       ELSE ~(last.status = "completed" /\ last.verdict = "PASS")

\* Retry after a failing first attempt, until a retry passes.
Retries ==
    /\ me.no < RetryMax
    /\ LET last == attempts[me.at][Current] IN
       IF me.no = 0 THEN last.status = "completed" /\ last.verdict = "FAIL"
       ELSE ~(last.status = "completed" /\ last.verdict = "PASS")

NextAttempt ==
    /\ pc = "next"
    /\ \/ Retries /\ me' = [me EXCEPT !.no = @ + 1] /\ pc' = "create"
       \/ ~Retries /\ me.i + 1 < Repeats
            /\ me' = [me EXCEPT !.i = @ + 1, !.no = 0] /\ pc' = "create"
       \/ ~Retries /\ me.i + 1 = Repeats /\ me' = me /\ pc' = "classify"
    /\ UNCHANGED <<stored, cancel, upsets>>

Interrupted == \E k \in Outcomes(me.at) : attempts[me.at][k].status = "cancelled"

\* A case with a cancelled sample is cancelled, not classified.
CancelCase ==
    /\ pc = "classify" /\ Interrupted
    /\ SetCase(me.at, "cancelled")
    /\ pc' = "stream"
    /\ UNCHANGED <<run, class, attempts, metric, me, cancel, upsets>>

ClassifyCase ==
    /\ pc = "classify" /\ ~Interrupted
    /\ class' = [class EXCEPT ![me.at] =
                    Classify(Judged(me.at, me.base), Broken(me.at, me.base))]
    /\ pc' = "settle"
    /\ UNCHANGED <<run, case, attempts, metric, me, cancel, upsets>>

SettleCase ==
    /\ pc = "settle"
    /\ SetCase(me.at, IF Landing(me.at) # {} THEN "completed" ELSE "failed")
    /\ pc' = "stream"
    /\ UNCHANGED <<run, class, attempts, metric, me, cancel, upsets>>

\* Back in the loop: the case's samples land and the partial is published.
StreamMetric ==
    /\ pc = "stream"
    /\ metric' = Aggregate(me.landed \cup Landing(me.at), TRUE)
    /\ me' = [me EXCEPT !.landed = @ \cup Landing(me.at), !.executed = @ \cup {me.at},
                        !.at = IF Interrupted THEN @ ELSE @ + 1]
    /\ pc' = IF Interrupted THEN "mark" ELSE "loop"
    /\ UNCHANGED <<run, case, class, attempts, cancel, upsets>>

-----------------------------------------------------------------------------
(***************************************************************************)
(* _cancel_run, _finalize, and the except clauses                          *)
(***************************************************************************)
MarkCase(c) ==
    /\ pc = "mark" /\ \A b \in 1..(c - 1) : Finished(b)
    /\ case[c] \in {"queued", "running"}
    /\ SetCase(c, "cancelled")
    /\ UNCHANGED <<run, class, attempts, metric, pc, me, cancel, upsets>>

ReportCancelled ==
    /\ pc = "mark" /\ \A c \in Cases : Finished(c)
    /\ metric' = Aggregate(me.landed, FALSE)
    /\ pc' = "land"
    /\ UNCHANGED <<run, case, class, attempts, me, cancel, upsets>>

\* Illegal for a run taken up while aggregating: that lands it incomplete.
LandCancelled ==
    /\ pc = "land"
    /\ \/ SetRun("cancelled") /\ Quit
       \/ ~RunMay("cancelled") /\ pc' = "raise" /\ UNCHANGED <<run, me>>
    /\ UNCHANGED <<case, class, attempts, metric, cancel, upsets>>

\* Only a run read as running is set aggregating: one read as cancelled is
\* published all the same, one cancelled after it was read refuses the write.
Rescore ==
    /\ pc = "rescore"
    /\ me' = [me EXCEPT !.landed = @ \cup UNION {Rescored(c) : c \in Cases \ me.executed}]
    /\ \/ SetRun("aggregating") /\ pc' = "publish"
       \/ ~RunMay("aggregating") /\ pc' \in {"publish", "raise"} /\ UNCHANGED run
    /\ UNCHANGED <<case, class, attempts, metric, cancel, upsets>>

PublishMetric ==
    /\ pc = "publish"
    /\ metric' = Aggregate(me.landed, FALSE)
    /\ pc' = "complete"
    /\ UNCHANGED <<run, case, class, attempts, me, cancel, upsets>>

LandComplete ==
    /\ pc = "complete"
    /\ \/ SetRun("complete") /\ Quit
       \/ ~RunMay("complete") /\ pc' = "raise" /\ UNCHANGED <<run, me>>
    /\ UNCHANGED <<case, class, attempts, metric, cancel, upsets>>

\* Scoring an attempt, or scoring stored traces again, may raise too.
Break ==
    /\ pc \in {"score", "rescore", "publish"}
    /\ upsets < MaxUpsets
    /\ upsets' = upsets + 1
    /\ pc' = "raise"
    /\ UNCHANGED <<stored, me, cancel>>

\* Mutant of LandIncomplete: the except clause is missing.
LandUnmarked ==
    /\ pc = "raise"
    /\ Quit
    /\ UNCHANGED <<stored, cancel, upsets>>

\* The marker itself may be refused, and then the run stays as it is.
LandIncomplete ==
    /\ pc = "raise"
    /\ \/ SetRun("incomplete")
       \/ ~RunMay("incomplete") /\ UNCHANGED run
    /\ Quit
    /\ UNCHANGED <<case, class, attempts, metric, cancel, upsets>>

-----------------------------------------------------------------------------
(***************************************************************************)
(* The surroundings                                                        *)
(***************************************************************************)
Crash ==
    /\ pc # "idle" /\ upsets < MaxUpsets
    /\ upsets' = upsets + 1
    /\ Quit
    /\ cancel' = FALSE
    /\ UNCHANGED stored

RequestCancel ==
    /\ pc \notin {"idle", "insert"} /\ ~cancel /\ upsets < MaxUpsets
    /\ upsets' = upsets + 1
    /\ cancel' = TRUE
    /\ UNCHANGED <<stored, pc, me>>

\* POST /runs/{id}/cancel where the api has no event for the run: nobody executes
\* it, or a worker service does (module RunControl), and then the status is stored
\* under the engine. What may not be cancelled is answered with a conflict.
CancelDirect ==
    /\ run \notin {"absent", "cancelled"} /\ upsets < MaxUpsets
    /\ SetRun("cancelled")
    /\ upsets' = upsets + 1
    /\ UNCHANGED <<case, class, attempts, metric, pc, me, cancel>>

\* The steps of a process that has begun.
Work ==
    \/ InsertCases
    \/ Reopen \/ ReopenDone \/ Advance
    \/ OrphanJob \/ ReconcileDone \/ RequeueDone
    \/ \E c \in Cases : ReopenCase(c) \/ CloseStaleCase(c) \/ RequeueCase(c) \/ MarkCase(c)
    \/ \E c \in Cases : \E k \in Rows(c) : OrphanAttempt(c, k)
    \/ SkipCase \/ BeginCase \/ MissCase \/ LoopDone \/ SeeCancel
    \/ CreateAttempt \/ StartAttempt \/ PollJob \/ SubmitJob
    \/ \E answer \in Answers : Invoke(answer)
    \/ RecordAttempt \/ ScoreAttempt \/ NextAttempt
    \/ CancelCase \/ ClassifyCase \/ SettleCase \/ StreamMetric
    \/ ReportCancelled \/ LandCancelled
    \/ Rescore \/ PublishMetric \/ LandComplete \/ LandIncomplete

EngineNext ==
    CreateRun \/ Start \/ Resume \/ Work \/ Break \/ Crash \/ RequestCancel \/ CancelDirect

EngineSpec == EngineInit /\ [][EngineNext]_engineVars

\* A process that has begun goes on. Nobody need begin one: a job may have failed
\* for good, and a development thread is not restarted.
FairEngineSpec == EngineSpec /\ WF_engineVars(Work)

-----------------------------------------------------------------------------
(***************************************************************************)
(* Properties                                                              *)
(***************************************************************************)
PC == {"idle", "insert", "reopen", "reopen_cases", "advance", "reconcile", "requeue",
       "loop", "create", "start", "submit", "invoke", "record", "score", "next",
       "classify", "settle", "stream", "mark", "land", "rescore", "publish",
       "complete", "raise"}

Attempt == [rep : Nat, no : 0..RetryMax, status : AttemptStatus,
            verdict : Completed \cup {NULL},
            job : [id : Nat, state : AllAnswers \cup {"submitted", "completed", "orphaned"}]
                    \cup {NULL}]

\* The stored rows and the process have their types (engine.py, Engine.run).
EngineTypeOK ==
    /\ run \in RunStatus
    /\ case \in [Cases -> CaseStatus]
    /\ class \in [Cases -> Classes \cup {NULL}]
    /\ attempts \in [Cases -> Seq(Attempt)]
    /\ metric.state \in {"NONE", "IN_PROGRESS", "PARTIAL", "COMPLETE"}
    /\ \A s \in metric.samples \cup me.landed : s[1] \in Cases /\ s[2] \in Rows(s[1])
    /\ pc \in PC
    /\ me.at \in 1..(NumCases + 1) /\ me.i \in 0..(Repeats - 1) /\ me.no \in 0..RetryMax
    /\ cancel \in BOOLEAN /\ upsets \in 0..MaxUpsets

\* The same of the run statuses the engine asks for (lifecycle.py,
\* IllegalTransition: "a bug in the caller's flow"), but for LandCancelled. The
\* code violates it where CancelDirect lands under the engine (README.md, 4).
RunCallsAreLegal ==
    /\ pc = "reopen" => RunMay("queued")
    /\ pc = "advance" => RunMay(NextStage[me.stage])
    /\ pc = "rescore" => RunMay("aggregating")
    /\ pc = "complete" => RunMay("complete")
    /\ pc = "raise" => RunMay("incomplete")

\* "A status update that raises this is a bug in the caller's flow" (lifecycle.py,
\* IllegalTransition): whatever crashed or was cancelled before, no case or
\* attempt status the engine asks for is refused. A run status is refused to it
\* only where the api has stored cancelled under it.
CallsAreLegal ==
    /\ pc = "requeue" => \A c \in me.requeue : CaseMay(c, "queued")
    /\ pc = "loop" /\ me.at <= NumCases /\ case[me.at] # "missing" =>
          Finished(me.at) \/ CaseMay(me.at, "running")
    /\ pc = "start" => AttemptMay(me.at, Current, "running")
    /\ pc = "record" => AttemptMay(me.at, Current, "completed")
    /\ pc \in {"classify", "settle"} => CaseMay(me.at, "completed")
    /\ run # "cancelled" => RunCallsAreLegal

\* An attempt's key (run, case, repeat_index, attempt) is never used twice, and
\* an execution after a crash continues behind the evidence of the one before
\* (_run_case_inner, resume numbering).
AttemptKeysUnique ==
    \A c \in Cases : \A k, l \in Rows(c) :
        k < l => \/ attempts[c][k].rep < attempts[c][l].rep
                 \/ attempts[c][k].rep = attempts[c][l].rep /\ attempts[c][k].no < attempts[c][l].no

\* The first attempts of the last execution of a settled case.
Deciding(c) == {k \in First(c) : attempts[c][k].rep + Repeats >= RepeatOffset(c)}

\* A settled case was decided by the first attempts of one uninterrupted
\* execution, all Repeats of them, and by nothing else: no retry, and no
\* sample of an execution that a crash cut short (_run_case_inner).
DecidedByFirstAttempts ==
    \A c \in Cases : case[c] \in {"completed", "failed"} =>
        LET own == {attempts[c][k] : k \in Deciding(c)}
            some(v) == \E a \in own : a.verdict = v
        IN /\ Cardinality(own) = Repeats
           /\ case[c] = "completed" <=> \E a \in own : a.status = "completed"
           /\ class[c] = "PASSING" <=> some("PASS") /\ ~some("FAIL")
           /\ class[c] = "FAILING" <=> some("FAIL") /\ ~some("PASS")
           /\ class[c] = "FLAKY" <=> some("PASS") /\ some("FAIL")
           /\ class[c] = "ERRORED" => \E a \in own : a.status # "completed" \/ a.verdict = "ERROR"

\* A complete run has nothing left open, and its published metric counts every
\* completed sample that decided a case and no retry (_finalize).
CompleteRunSettled ==
    run = "complete" =>
        /\ \A c \in Cases : /\ case[c] \notin {"missing", "queued", "running"}
                            /\ \A k \in Rows(c) : attempts[c][k].status \notin {"queued", "running"}
        /\ metric.state \in {"PARTIAL", "COMPLETE"}
        /\ \A s \in metric.samples : attempts[s[1]][s[2]].no = 0
        /\ \A c \in Cases : case[c] = "completed" =>
              \A k \in Deciding(c) : attempts[c][k].status = "completed" => <<c, k>> \in metric.samples

\* Whoever leaves a run unfinished, somebody takes it up again.
TakenUp == []<>(pc # "idle" \/ run \notin Unfinished)

\* However often it is interrupted, as long as somebody takes it up again a run
\* comes to rest complete, cancelled or marked incomplete, whatever was cancelled
\* under the engine, left half created or raised (Engine.run).
RunLands ==
    TakenUp => []<>(pc = "idle" /\ run \in {"absent", "complete", "cancelled", "incomplete"})

\* lifecycle.py: "incomplete when a run ends without every case reaching a
\* terminal attempt status", so a run that ends complete has one for each.
EveryCaseAttempted ==
    run = "complete" => \A c \in Cases : \E k \in Rows(c) : k \notin Stale(c)

\* storage.py, get_resumable_remote_job: "completed or ordinary failed jobs
\* must never be reused as a fresh repeat".
RemoteJobAnswersOnce ==
    \A c \in Cases : \A k, l \in Rows(c) :
        /\ k # l
        /\ attempts[c][k].job # NULL /\ attempts[c][l].job # NULL
        /\ attempts[c][k].job.id = attempts[c][l].job.id
        => ~(attempts[c][k].job.state = "completed" /\ attempts[c][l].job.state = "completed")
=============================================================================
