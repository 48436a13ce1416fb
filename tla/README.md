# A verification development for traceline (`llm_agent_eval`)

traceline evaluates LLM agents. A frozen *spec* (cases, metrics, thresholds) is
executed against an agent as a *run*; every case is invoked a number of times,
every invocation leaves an attempt with its trace, and the metrics are computed
from the attempts. A workflow service around it stores versioned documents,
plans and authorizes runs, schedules them, and executes them as durable jobs in
worker processes, on SQLite or on PostgreSQL. The agents may run in containers
whose only way out is a recording, budgeted proxy.

This directory holds TLA+ modules translated from the Python source under
`src/src/llm_agent_eval/`, TLC configurations, and proofs checked by TLAPS. File
names below are relative to that package.

    tlc -config jobworker.cfg MCJobWorker.tla          # any run, see "Runs"
    tlapm JobQueueProofs.tla                            # any proof module

`PROJECT.json` maps every definition to its source lines and lists the runs, the
hazards, the findings, the theorems, and for each property a plausible bug
(a *mutant* operator next to the definition it replaces) that violates it.

## 1. The system

### Components

| component | source | state it keeps | operations |
|---|---|---|---|
| durable job queue | `jobs.py` | tables `jobs`, `job_outbox` | enqueue, claim, claim_specific, assert_active, publication, heartbeat, complete, fail, abandon, acknowledge_cancel, request_cancel |
| worker service | `worker_service.py` | per process: main thread, heartbeat threads, stop and cancellation events | run_once, run_forever, checkpoint, leased writes |
| worker dispatch | `worker.py` | handlers; on PostgreSQL `worker_dispatch_cursors` | run_fair_once, _fair_start, the job handlers |
| run engine | `engine.py` | `runs`, `run_cases`, `run_case_attempts`, `remote_jobs`, `run_metric_results`; locals of `Engine.run` | create_run, run (fresh or resumed), cancel, reconcile, finalize |
| lifecycle tables | `lifecycle.py` | none | the legal moves of runs, cases, attempts, smokes |
| storage | `storage.py` | all tables | one transaction per call; guarded status writes |
| HTTP job target | `targets/http_job.py` | `remote_jobs` | submit, persist, poll, cancel |
| capture, local runner | `capture.py`, `runner.py`, `targets/local.py` | `trace.jsonl`, `result.json` | enter, emit, exit; invoke, rebind, ingest |
| other targets | `targets/*`, `harness.py` | connection | invoke with a deadline |
| recording proxy | `egress/*` | `Budget`: spent, reserved; records | reserve, commit, uncertain, forward, forward_stream |
| api run control | `api.py` | `workers`, `cancel_events` under a lock | start, cancel, resume |
| plans, execution | `run_plans.py`, `execution.py` | plans, authorizations | plan, authorize, expire, enqueue, execute |
| schedules | `schedules.py` | schedules, slots | create, set_state, sweep |
| conversations | `targets/http_stream.py`, `targets/http_session.py`, `streaming.py` | parser buffer; the remote session | feed, finish; open, turn, answer, close |
| versions, sessions, authoring | `versions.py`, `sessions.py`, `authoring.py` | heads with revisions, versions, messages | create, advance, prepare, publish, migrate |
| artifacts | `artifacts.py`, `ingestion.py`, `exports.py`, `operations.py` | files and their rows, backups | put, recover, delete_unreferenced, back up, restore |
| scoring | `evaluators.py`, `predicates.py`, `trace_rules.py`, `retrieval.py`, `judge.py` | none of its own; scores in the engine's memory and in rows | compile, evaluate, score, aggregate, gate |
| calibration, re-scoring | `calibration.py`, `rescore.py` | labels by generation, calibration state, score revisions | record_label, reset, rescore |
| containers | `runtime/*`, `egress/session.py` | networks, relays, containers and images in Podman | session, case, evaluation, build, probe |
| installation | `install_state.py`, `secrets.py`, `egress/ca.py` | key file, certificate and key of the proxy, `secret_refs` | load or create, put, rotate, migrate |
| operations | `operations.py`, `migrations.py` | retention, migrations ledger | retain, migrate |
| documents | `spec.py`, `datasets.py`, `contracts.py`, ... | immutable documents | validate |

### How they interact

* **Calls.** A handler of the worker service executes a run by calling
  `execution.execute`, which creates or finds the run and calls `Engine.run`; the
  engine calls a target, then a scorer, then storage. The api calls the engine in a
  thread of its own, outside the queue.
* **Shared state.** Everything meets in the database. Each `Storage` call is a
  transaction of its own, so a crash may fall between any two calls. A job's handler
  writes through `LeasedStorage`, which wraps each transaction in the queue's fence.
* **Messages.** The outbox rows of a job; the polling of a remote job.
* **Callbacks.** `checkpoint()` and `should_cancel()` run in the middle of a handler and
  end it by raising or by returning true; the heartbeat thread sets an event.

### What is hard, and what makes each part correct

* *Job queue.* Leases lapse under their holder, clocks are read before the transaction
  they are compared in, several jobs change in one claim, PostgreSQL skips locked rows
  and does not serialize an unconditional update with what it overtakes. Correct: one
  settled outcome per job, effects only by the newest live lease, no more than
  `max_attempts` starts, columns that agree with the status.
* *Worker service.* A process stalls, crashes or is told to stop at any checkpoint; the
  heartbeat thread may end first or last. Correct: every job settles; a handler is never
  left running unwatched.
* *Run engine.* About ten storage calls per attempt, a crash between any two, then
  cancellation, reconciliation and resumption of whatever was left. Correct: every run
  comes to rest, attempt keys stay unique, classification and metric rest on exactly the
  right attempts, no illegal status is asked for.
* *Recording proxy.* Threads share one counter that also encodes "closed"; requests fail
  after having been billed. Correct: bills stay within the budget, and an unmeterable
  request ends the forwarding.
* *Evidence.* Events reach the store in any order, under a clock that is set back, from a
  process that may be killed in the middle of a line; scores lie in memory until the run
  ends. Correct: events keep their order and are whole, rules do not depend on arrival, a
  resumed run has the verdict of an undisturbed one, no check is passed by what is missing.
* *Containers.* Every command to Podman may fail or be interrupted with its effect in
  doubt. Correct: nothing stays behind unnoticed, what runs is what was approved.
* *Api, plans, schedules, versions, artifacts, calibration, installation.* Check-then-act
  across transactions, files beside rows, revisions as compare-and-swap. `hazards` in
  `PROJECT.json` lists each at its line.

## 2. The modules

| module | models | extends | proofs |
|---|---|---|---|
| `JobLifecycle` | the abstract promise of a job: submitted, started, written to, settled | - | - |
| `JobQueue` | `jobs.py`, both databases | - | `JobQueueProofs` |
| `JobWorker` | `worker_service.py` composed with the queue | `JobQueue` | `JobQueueProofs` |
| `StatusTables` | the transition tables of `lifecycle.py` | - | - |
| `RunEngine` | `engine.py`, the guarded writes of `storage.py`, the remote job rows | `StatusTables` | `RunEngineProofs` |
| `RunControl` | run control of `api.py`, `execution.py` under a lease, the engine reduced to its writes of the run's status | `StatusTables` | `RunControlProofs` |
| `Authoring` | `versions.py`, `sessions.py`, `authoring.py`, submission in `worker.py` | - | `RevisionProofs` |
| `AtomicEditing` | the abstract promise of authoring: versions in a chain, a turn lands in one step or is refused | - | `RevisionProofs` |
| `Artifacts` | `artifacts.py`, the artifact references of `versions.py` and their foreign key | - | `EvidenceProofs` |
| `EgressBudget` | `egress/recording.py` under the threads of `egress/listener.py` | - | `CountingProofs` |
| `ScheduledRuns` | `run_plans.py`, `schedules.py`, submission by hand, `execution.py` as the user of run keys | - | `RunControlProofs` |
| `FairDispatch` | `run_fair_once` of `worker.py` with its cursor | - | `CountingProofs` |
| `Containers` | `runtime/*`, `egress/session.py`, with Podman as surrounding | - | `BackgroundProofs` |
| `Conversations` | `streaming.py`, `targets/http_stream.py`, `targets/http_session.py` | - | `BackgroundProofs` |
| `Installation` | `install_state.py`, `secrets.py`, `egress/ca.py` | - | `BackgroundProofs` |
| `Capture` | `capture.py`, `runner.py`, `targets/local.py`, ingestion of `engine.py` | - | `EvidenceProofs` |
| `PredicateLogic`, `Conditions`, `Predicates` | `predicates.py`, the conditions of `evaluators.py`: values, trees, parser | one another | `PredicateProofs` |
| `TraceRules` | `trace_rules.py` and the order `storage.py` hands events over in | - | `EvidenceProofs` |
| `Scoring` | `evaluators.py`, `retrieval.py`: from evidence to score, aggregate and gate; whether a condition holds is its parameter `Meets` | `PredicateLogic` | - |
| `ScoredRuns` | scoring in `engine.py`, with crash and resumption | `Scoring` | `CountingProofs` |
| `Rescoring` | `rescore.py`, overrides of `api.py` | `Scoring` | `RevisionProofs` |
| `Calibration` | `calibration.py`, the gate of `judge.py` | - | `RevisionProofs` |
| `MCTransactions` | one of `MCJobQueue` (PostgreSQL) and `Authoring` | both | - |
| `MCServices` | one of `EgressBudget`, `RunControl`, `Artifacts`, `FairDispatch`, `Capture`, `Containers` | all six | - |
| `MCBackground` | one of `MCJobQueue`, `ScheduledRuns`, `Conversations`, `Installation` | all four | - |
| `MCEvidence` | one of `MCRunEngine`, `Predicates`, `TraceRules`, `ScoredRuns`, `Rescoring`, `Calibration` | all six | - |
| other `MC*` | the instances TLC checks | | |

The components under `MCTransactions`, `MCServices`, `MCBackground` and `MCEvidence` share no
state; `focus` picks one at the start, and the others rest in an initial state. Where the code decides by a
chain of conditions that may overlap, the module does too, in the code's order.

**`JobQueue`.** `job[j]` is the row of the job with idempotency key `j`; `order` is
`ORDER BY created_at, job_id`; `outbox[j]` counts the rows of each event type, whose order
`created_at` and a random id do not tell. `granted[j][f]` (the worker
fence `f` went to) and `lastEffect[j]` (the fence of the last publication) are history.
Time is relative: `job[j].left` is `lease_expires_at` minus the present, and every
operation takes its clock reading up to `MaxLag` ticks before its transaction, so it sees
`left + d`. Each operation is one action; `request_cancel` is one action, or also
two (`CancelRead`, `CancelWrite`) on PostgreSQL, where its SELECT takes no lock and its
UPDATE has no condition. Whoever was granted a lease may call with it for ever.
Enqueueing a key again changes nothing and is a stuttering step.

**`JobWorker`.** `main[w]` is the main thread's place in `run_once` with its lease,
`beats[w]` the heartbeat threads (several, since `join` waits two seconds only), `stop[w]`
and `told[w]` the two events. Every `checkpoint` is an action that reads the stop event
and the row; the handler's writes, the completing publication, `fail`, and the two
transactions of `_settle` are actions too. Crash and restart are the surroundings.

**`RunEngine`.** `run`, `case`, `class`, `attempts`, `metric` are stored and survive a
crash; `pc` and `me` are what `Engine.run` holds and are lost. One action per storage
call. Not the engine's own but part of its life are `Resume` and `Start` (somebody resumes
a run, or takes one up that was left in the middle) and `CancelDirect`, the api storing
`cancelled` where it knows of no worker, which in a release happens under an engine that
executes the run. `me.stage` is the status the engine read on entry and walks on from
without reading again. Scores are one verdict per attempt; a remote job's row lives in
its attempt. `set_run_status` reads the row and updates it in one action.

**`EgressBudget`.** `spent` and `reserved` are the fields of `Budget` (`-1` is closed),
`request[r].at` the stage of the thread serving a connection. Token bounds and prices
become the amount reserved and the amount billed; that a bill exceeds its reservation
only if a token bound was exceeded is the arithmetic of `recording.py`.

**`RunControl`.** One run. `status` is the stored status, `slot` the entry of
`workers`/`cancel_events` under the registry's lock, `exec[e]` an execution of
`Engine.run` (a thread of the api, or the handler of a lease) with what it read and the
event it watches, `call[c]` a request on its way through `start_run`, `cancel_run` or
`resume_run`, `job` the durable job with its fence. `release` chooses, at the start,
between the development routes that run threads and the release that removes them and runs
jobs. The engine's cases are reduced to "another case may begin or end"; `RunEngine` has
them. What a request read and what it writes later are separate actions wherever the code
releases the lock or the transaction between them.

**`Authoring`.** `chain` is the list of versions of one evaluation with, as history, who
made each and which version its content was derived from; `Len(chain)` is the head's
revision. `locked` is the transaction that holds the head's row. `session[s]` is the row of
a harness session, `turn[t]` a turn's job: prepared outside any transaction, published in
one that reads the session, locks the head, and reads the session again. `Reclaim` is a lease
that lapsed or a worker that died. The provider's answer is a choice between prepared and
rejected. A session is opened on any version the client names (`Nameable`): `create_session`
compares it with the session's evaluation in no way, so that it may be another evaluation's, of
any revision, or nothing a turn can be prepared on. `DerivedFrom` is the version of this evaluation
a published content comes from, 0 for none. `AtomicEditing` is what a client may rely on, without
locks, transactions, leases and workers: a turn is asked of a session at its revision, and lands on
that session and the newest version in one step, or is refused; the session on another evaluation's
version, which lands that one's content where the revisions agree, is part of it. A turn of `Authoring`
maps to an open request from its submission until it settles (`StateOf`, `RequestOf`).

**`Artifacts`.** `file[a]` is what the directory holds, `row` and `refs` what is committed;
`put`, `remove`, `create`, `sweep` say how far each operation got. `lock` is
`pg_advisory_xact_lock`; the row locks of the foreign key are the guards of
`InsertReference` and `DeleteRow`. Crashes, failing statements and a lost acknowledgment of
a commit count against `MaxCrashes`. The age-based removal of staging files in
`operations.py` is left out.

`archive` is a backup and its restoration: the database is dumped or copied first, the
artifacts are listed and read after it, so a backup holds what its database references only
if nothing can go from the directory that the dump still has; a file that is gone makes the
backup fail.

Both describe PostgreSQL, where transactions of several processes overlap. On SQLite
transactions run one after the other, which is one of the interleavings allowed.

**`ScheduledRuns`.** One plan with its authorization and the verification of its target, one
daily schedule, the slots of its days, and per day and per `Idempotency-Key` a job and the
place of its leased execution. `planRun[k]` is the run of an idempotency key. A sweep lists
the slots once (`BeginSweep`), then claims, enqueues and records each in transactions of
their own, with a crash or an error between any two. `Blockers` is the whole table of a
plan's blockers.

**`FairDispatch`.** `pass[p]` is a pass of `run_fair_once`: reserved start, number asked.
`cursor` is the row of `worker_dispatch_cursors`; with `durable` false it is SQLite's, in
the process. `passed[w]` counts, as history, how often another workspace was served while
`w` waited.

**`Containers`.** `present` is what Podman has; `host[h]` a process in a session, an
evaluation, a build or a probe, one action per command. `Makes` and `Removes` say what a
command may do: succeed, be refused, or be interrupted with, without, or with a later
effect (`arriving`). `loose` is what the code reports, or a crash leaves, for an operator.
The source directory is edited by others (`EditSource`).

**`Conversations`.** A stream is a sequence of line tokens received in chunks; `Feed` and
`Drain` are `SSEParser.feed` line by line with both limits, `AnswerOf` what the adapter makes
of the frames, and `FieldLines`, `FieldsOf` the reference reading of the whole stream that the
property compares with. `talk` is the adapter's side of a scripted session, `remote` the agent's,
with requests that are answered, refused, or lost before or after they took effect. The answer that
opens a session may be refused although it names one, by a string or (`misnamed`) by something else.

**`Installation`.** `process[p]` loads or creates the key (staged, then linked), then the
authority (exclusive creation of two files, the second empty before it is written), then
serves the secret store. `rows[s]` is a secret in its legacy or its present form, `newest[s]`
the value last written. With `locked` the transactions of the store exclude each other, as
SQLite's do.

**`Capture`.** `wall` is the clock, `capture` the open `TraceCapture`, `traceFile` the lines,
torn ones included, `wire` the proxy's records. `EndAttempt` is what happens in one go when
the agent has ended: the decision table of the runner or of the local adapter, the rebinding,
the join with the proxy's records, the cap, and the engine's refusal of foreign events. Rebinding
stamps each event by a clock reading of its own (`Stampings`), which another one may precede.
`AttemptRaises` is an adapter that raises: the proxy's records are dropped with the rest.

**`Predicates`.** An expression is a tree of at most `MaxHeight` operators above one another;
`Write` puts it down in tokens with the fewest parentheses and `Parse` is the recursive descent
of the code: a rule of the grammar calls others through a function of how many calls may still
be open, and five for each token and five at the end are enough, which is part of what is
proved. The loops of `_parse_or` and `_parse_and` are functions of their turns. `event` is what
a field is known to hold. **`TraceRules`.** `EvalNode` is the evaluator with `and`, `or`, `not`,
`implies`, `for_all`, counts, windows and anchors, over the events stored so far. Both are
functions of their input, and a behaviour is their input growing. Where the code recurses they
use recursive functions, whose existence the proofs show.

**`Scoring`, `ScoredRuns`, `Rescoring`.** `ScoreLive`, `ScoreFromTrace` and `ScoreAgain` are
the three ways to a score (attempt completed; run resumed; run re-scored), `AggregateMetric`
and `GateStatus` what becomes of scores. `ScoredRuns` has a run's cases, tries and memory
(`landed`, by case and place of the attempt, lost in a crash); a judge has no context to score a
stored attempt by, which makes it an error (`Unjudged`); `Rescoring` the rows of each
revision, written case by case. How conditions are evaluated is a parameter (`Meets`), which the
runs give its definition in `Conditions`: what is proved of scoring holds of any conditions.

**`Calibration`.** Each call of the service is the sequence of its reads and writes; the
generation is read again before each, as in the code. History are `resets`, each label's
`since` (how many resets had been stored before it) and `overtaken`: a reset came between the
reading and the writing of another call.

## 3. Runs

| run | question | instance |
|---|---|---|
| `jobqueue_sqlite`, focus queue | rows, outbox, fencing, finality, refinement of `JobLifecycle` on SQLite | 2 jobs, 2 workers, 2 attempts, lease 2, lag 1 |
| - focus scheduling | a due slot is measured by one run of its own | 2 days (one in a DST gap), 2 sweeps, 1 submission by hand, 1 runner, 2 leases, 1 mishap |
| - focus conversations | a reported answer is a conversation that took place whole | streams of 7 tokens in chunks of 1 or 2, frames of 3 bytes, 1 frame; 6 scripts |
| - focus installation | one key, one authority, every secret readable | 2 processes, 2 secrets, 2 writes, 2 deaths |
| `jobqueue_postgres`, focus queue | fencing and single result at READ COMMITTED | 1 job, 2 workers, 3 attempts, lease 2, lag 1 |
| - focus authoring | a turn is published whole, one turn per revision; `Authoring` implements `AtomicEditing` | 1 editor, 2 sessions, 3 turns, 4 versions here and elsewhere |
| `jobqueue_cancel_race` | *violation*: is a settled job final on PostgreSQL? | 2 jobs |
| `jobworker` | every handler is watched; every job settles, unless a stale cancellation strands it (PostgreSQL) | 2 processes, 1 job, 2 attempts, lease 1, 1 cancellation, 1 interruption |
| `runengine` | legality of the status writes, what a complete run guarantees, a run taken up lands | 2 cases, 1 retry, 2 upsets, remote jobs |
| `runengine_repeats`, focus engine | numbering, and what decides a case, with repeats, retries and remote jobs | 1 case, 2 repeats, 1 retry, 2 upsets |
| - focus predicates | parser against writer; missing fields pass nothing | all expressions over 1 or 2 comparisons and their negations, nesting 2, height 5, 7 values |
| - focus rules | arrival does not matter; precedence is decided | every order of the events of small traces, rules of each operator, depth 3 |
| - focus scores | a resumed run has its verdict, judges apart; a gate needs evidence | 2 cases, 1 retry, 1 outage, metrics of each kind and aggregation |
| - focus rescoring | published revisions stay | 3 cases, 2 requests, 3 revisions, 1 override |
| - focus calibration | a judge gates by labels of one generation, given since the last reset unless that overtook a call | 2 labels, 1 reset, 1 process that dies |
| `runengine_lost_case` | *violation*: has every case of a complete run an attempt? | 2 cases |
| `runengine_reused_job` | *violation*: does a remote job answer once? | 1 case, 2 repeats |
| `services`, focus egress | bills within the budget; spent covers what is settled, the reserved the rest | 3 requests, budget 4 |
| `services`, focus control | one writer, every thread can be cancelled, a completed job has an outcome | 2 requests, 2 leases, 2 faults, both modes |
| `services`, focus artifacts | committed files survive, references are honoured, a restored backup is whole | 2 artifacts, 1 version, 2 crashes |
| `services`, focus dispatch | no waiting workspace is passed over more than the bound | 2 processes, 3 workspaces, 1 death |
| `services`, focus capture | order and wholeness of events (order of a local target's, unless the clock is set back while they are read) | clock of 2, 3 lines, 2 admitted, cap of 2 events |
| `services`, focus containers | nothing left behind unnoticed, sessions undisturbed, snapshots as named | 2 processes, 2 failures, interruptions, edits or crashes |
| `egress_reopened` | *violation*: does an unmeterable request end the forwarding? | 3 requests, budget 4 |
| `control_direct_cancel` | *violation*: is a run cancelled only when its worker confirms? | 2 requests, 2 leases |
| `control_stop_cancels` | *violation*: does a shutdown leave the run to the next lease? | 2 requests, 2 leases |

**Bounds, and why they are enough.** Two jobs make a claim sweep one and lease another;
two workers make a holder and a zombie; two attempts make one lapse that requeues and one
that exhausts; a lease of two ticks with a lag of one makes readings that disagree about
it. `MaxCancels` bounds the cancellation requests for a job, the only calls that may be
repeated without end. On PostgreSQL one job is enough for fencing: rows are locked one by one, and a claim may
pass any of them over. The worker service runs on PostgreSQL, whose behaviours include those of
SQLite, and with clocks that agree: a lease of one tick still lapses under its holder. With
clocks that lag by one both its properties were checked by hand, on either database, and
`HandlerIsWatched` is proved for any lag. `MaxInterruptions` and `MaxUpsets` bound crashes, stops, cancellations and
raised errors: two upsets are a crash during the recovery from another. Two cases make one
finished and one open at the time of a crash; two repeats make a sample complete before it;
one retry tells retries from samples. Three requests are one that closes the budget, one in
flight and one to be refused. Two requests of the api are every pair of start, cancel and
resume beside an execution already running, and two leases are a holder and its successor.
Three turns over two sessions are two that compete for one session and one that moves the
head under them; the editor reads again and again. Two artifacts are one being put or swept
while another is deleted, and one version, which may reference both, the reference that
races with a deletion and with a backup. Two days make a gap and a day, and two sweeps
beside a submission by hand and a second lease every pair that may compete for a slot's key.
Three workspaces are the least at which a pass may skip two; TLC finds the bound of
`FairShare` attained there (6 without a death, 8 with one). Two containers' processes with
two failures are a failure during the cleanup from another, or two sessions of one run.
Seven tokens in chunks of two are a frame, its limit exceeded, and the beginning of a second,
cut at every place. Two installers with two deaths are a race, a death in it, and a death in
its repair. Two lines admitted out of three reach the cap, and a clock of two values can be
set back. Two labels at a minimum of two are enough labels in one generation or one on
either side of a reset. Two cases scored with one outage are one whose score landed before it and
one after; that finalizing raises takes a second outage, with which one case was checked by
hand and which the theorems cover. The engine is checked against an asynchronous target: leave
out the remote jobs, and its behaviours are those against any other target. Symmetry is used
only where no liveness is checked. Deadlock is not
checked: a queue with nothing to do, a finished run, a proxy without requests, a chain at its
bound rest.

The type invariants that no run lists were checked once beside the others and are proved
(`EgressTypeOK`, `ControlTypeOK`, `ArtifactsTypeOK`, `WorkerTypeOK`, beside `QueueTypeOK`,
`EngineTypeOK` and `AuthoringTypeOK`).

**Fairness.** Nothing is assumed of callers: nobody need enqueue, cancel or resume.
`WorkerSpec` assumes that the clock advances, that a thread which can go on does (a handler
ends, its own operations being bounded by timeouts), and that a process that went down is
started again (`docker-compose.yml`: `restart: unless-stopped`). `FairEngineSpec` assumes
only that a process executing a run goes on. That a run left in the middle is taken up again is
not the code's to guarantee: its job may have failed for good (`jobs.py:149`), and nobody
restarts a development thread. `RunLands` supposes it (`TakenUp`) and says what follows: the
run comes to rest. A run that landed `cancelled` or `incomplete` may rest for ever.

## 4. Findings

Six are runs that TLC refutes, each stated with the words of a comment or a document; the
entries in `PROJECT.json` quote the lines.

1. On PostgreSQL `request_cancel` overwrites a job that settled between its SELECT and its
   UPDATE (`jobqueue_cancel_race`). `jobs.py:229` says the row lock serializes the two.
2. A crash after open cases were marked cancelled and before the run was makes the next
   execution skip them and complete the run with cases nobody attempted
   (`runengine_lost_case`).
3. The row of an orphaned remote job stays orphaned after a later attempt has used its
   answer, so the answer is used again for the next repeat (`runengine_reused_job`).
4. `Budget.commit` floors the reservation at zero and thereby reopens a budget that another
   request closed (`egress_reopened`).
5. In a release `cancel_run` finds no event, takes the run for not started, and stores it as
   cancelled under the worker that executes it (`control_direct_cancel`).
6. A worker told to stop cancels the run it executes, because a shutdown and a cancellation
   reach the engine as one event; the job then completes with the cancelled run
   (`control_stop_cancels`).

Nine more are stated in the modules beside the properties that do hold, which say exactly what
they leave out. No run lists them; added to the configuration named, as `INVARIANT` or
`PROPERTY`, TLC refutes each.

7. `JobsSettle` (`JobWorker`; `PROPERTY` of `jobworker`). A `request_cancel` of PostgreSQL that
   read a leased row whose lease was swept before it writes (`jobs.py:323-330`) leaves the job
   leased without an expiry: no sweep finds it (`jobs.py:144-146`), no claim takes it, and it
   never settles, against "bounded retry and one terminal transition"
   (`docs/design/workflow-implementation-plan.md:172`). `EveryJobSettles` leaves out these jobs.
8. `RunCallsAreLegal` (`RunEngine`; `INVARIANT` of `runengine`). The run statuses the engine asks
   for after a cancel request stored `cancelled` under it (finding 5) are refused, the
   `incomplete` that should report the refusal among them (`engine.py:662-667, 1374`), while
   `lifecycle.py:149-150` calls a refusal "a bug in the caller's flow". `CallsAreLegal` leaves out
   the status of a run that was cancelled so.
9. `NothingForwardedAfterAbandoned` (`EgressBudget`; `PROPERTY` of `services`). When a case drops its
   connection in the middle of a stream, the generator ends with a `GeneratorExit` that no clause
   names (`egress/recording.py:433-456`): the usage is never settled, the reservation stays, and the
   budget stays open, against `recording.py:19-21` ("Unknown usage ... closes the run budget") and
   `listener.py:206-208`. `SpentCoversBills` counts such a request by what is reserved.
10. `NoEditLost` (`Authoring`; `INVARIANT` of `jobqueue_postgres`). A session may be opened on a version of
    another evaluation (`workflow_api.py:519-529`). If that version's revision is the one the head
    has, the first turn publishes the other evaluation's content, patched, as the next version of
    this one (`authoring.py:47-48, 114-117`), against "leave its other metrics unchanged"
    (`docs/design/workflow-implementation-plan.md:248`). `EditsKept` leaves out that first turn.
11. `OrderIsEmission` (`Capture`; `INVARIANT` of `services`). The events of a local target are
    stamped again, each by the wall clock, when they are read (`targets/local.py:198`); a clock
    set back in between reverses the order they were emitted in, against `capture.py:22-25`.
    `KeysFollowEmission` allows it where the stamps did go back.
12. `MissingNeverPasses` (`Predicates`; `PROPERTY` of `runengine_repeats`). A predicate that compares the
    outcome of a comparison, such as `(x == 1) != true`, passes when `x` is missing and fails
    when it is 1 (`predicates.py:459`), against `predicates.py:36-37` and `752`. `NoPassByAccident`
    is about expressions that do not.
13. `JudgmentsOutliveResume` (`ScoredRuns`; `INVARIANT` of `runengine_repeats`). A resumed run asks the judge
    again about cases it judged before the interruption, without the context a judge needs
    (`engine.py:1191-1193`, `judge_gateway.py:86-94`): their scores become errors, and aggregate and
    gate change, against `engine.py:1340-1343`. `ResumeKeepsVerdict` leaves out a judge with a finished
    case to score again.
14. `ResetDiscardsLabels` (`Calibration`; `INVARIANT` of `runengine_repeats`). A reset of a judge's
    calibration is undone by a recording that was under way, which stores what it counted from the
    discarded labels (`calibration.py:132-154`), or by a first `get`, which stores generation 0
    over it (`calibration.py:69-77`), against `judge.py:233-234`. `JudgeEarnsItsCalibration` leaves out
    resets that overtook a call.
15. `SessionIsReleased` (`Conversations`; `INVARIANT` of `jobqueue_sqlite`). A remote end that names its session
    by something other than a string, a number say, leaves it open: the cleanup that should close
    it raises before it sends anything (`targets/http_session.py:58, 66, 75-77`), and the adapter
    ends in that exception instead of its result, against lines 189-190. `ConversationsAreWhole`
    leaves out a session misnamed so.

## 5. Proofs

The theorems hold for every value of the constants that meets the named assumptions of the
modules: limits are natural numbers (positive where the code requires it), the values that
stand for nobody or nothing differ from what they stand beside, and in `EgressBudget`,
`FairDispatch` and `Installation` the requests, processes and secrets are finitely many. There
is no bound on jobs, workers, cases, requests, days, artifacts or interruptions. Every proof
has the same shape: an inductive invariant, one lemma for each action or group of actions
(many by way of a lemma on what a step may leave alone), and the properties as consequences.

**`JobQueueProofs`** (`JobQueue`, `JobWorker`).

* *Both databases.* The type invariant is not inductive: a claim increments `attempts`, and
  that it stays within `max_attempts` rests on every queued row having attempts left, which
  rests on attempts, fence and the number of grants being one count. `Counted` is the types
  with `AttemptsCounted`. From it: `QueueTypes`, `QueueEffectsFenced` (a publication
  carries the newest fence, since the row's fence is the number of grants) and
  `QueueResultWrittenOnce`.
* *SQLite.* `RowsConsistent` holds of a row under each of ten kinds of row step; lemma
  `StepIsRowStep` shows that each action is one of them for each row, so invariants,
  finality and refinement are argued one row at a time. `Sequential` adds that no cancel is
  between its two halves. From it: `QueueRowsConsistent`, `QueueTerminalIsFinal`,
  `QueueOutboxTellsStatus`, and `QueueImplementsLifecycle`, the refinement under `LifeOf`: a
  queued and a leased job are both *open*, the fence is the epoch, the last publication is what
  was written. These assume SQLite because PostgreSQL violates finality (finding 1), and with it
  the counting of outbox rows: a settled job that is overwritten has the row of its outcome and
  another status. `OutboxTellsStatus` is inductive beside `Sequential`: each move of a row adds the
  one outbox row that keeps the counts in step with it (`RowsFollow`).
* *The processes.* `WorkersUseTheQueue` is the composition: every behaviour of `JobWorker`
  is one of `JobQueue`, so what is proved of the queue's arbitrary callers holds of the
  worker service (`WorkersAreFenced`, `WorkersSettleForGood`). It is inductive once every lease a
  thread works with is known to be one its process was granted (`Employed`): the queue lets
  nobody else call. `HandlersAreWatched` follows from `Employed` and itself.

**`RunEngineProofs`** (`RunEngine`), four invariants, each on top of those before.

* `Numbered`: a key about to be created is behind every row of its case (`Numbering`),
  which at the start of a case rests on `RepeatOffset` being behind all rows and later on the
  row being run being the last; with the types, the typed memory and the process's `Position`.
  From it: `EngineAttemptKeysUnique`, `EngineTypes`.
* `OnCourse`: what the stored statuses of the run, the cases and the row being worked on are at
  every place of the flow, not only at the calls that depend on them; the run's may everywhere be
  `cancelled` instead. From it: `EngineCallsAreLegal`.
* `Settling`: once cases are executed, the row being worked on is the only one that may be open
  (`StaleAt`), which a resumed execution, meeting any mixture, brings about first; no retry is
  counted (`FirstOnly`); and every completed sample that decided an executed case is among
  those gathered (`LandedAt`), which rests on the repeats of an execution beginning where the
  stored ones end. From it: `EngineCompleteRunSettled`.
* `Decisive`: a row with a verdict was scored, nothing touches the rows of a settled case, and
  an execution has one first attempt for each repeat it went through. From it:
  `EngineDecidedByFirstAttempts`.

**`RevisionProofs`** (`Authoring`, `Calibration`, `Rescoring`).

* *Authoring.* `NoEditLost` does not hold (finding 10). `EditsKept` is what does: a version that was
  not derived from the one before it was published by the first turn of a session opened on
  another evaluation's version. It is inductive only if the head a turn found when it locked it is the
  head it publishes on (`HeadHeld`), which rests on the lock being held by exactly the turn in its
  transaction (part of `AuthoringTypeOK`). `OneTurnPerRevision` rests on a session having left
  behind every revision that a published turn expected (`Consumed`). That such a turn
  is the first of its session follows from a session pointing to a version of its own evaluation
  from its first publication on (`ElsewhereFirst`), and that a version stays explained from its
  turn being through (`OnceThrough`). `Linear` is all of them, with
  `Placed`. From it: `AuthoringTypes`, `AuthoringEditsKept`, `AuthoringOneTurnPerRevision`; and,
  with itself, `AuthoringTurnIsAtomic`.
* *Its promise.* `AuthoringImplementsAtomicEditing` is the refinement. That a turn lands on the
  newest version follows from `Linear`; that its session still points there follows from
  `Attached`: a session that is at a turn's revision points to the version the turn was prepared
  on. It is inductive since the one step that moves a pointer raises the revision, which leaves
  the session's other turns behind.
* *Calibration.* `ResetDiscardsLabels` does not hold (finding 14). `Calibrated` is what does: what a
  recording has counted is the first labels of one generation (`CountedTogether`); labels are only
  appended, so what was counted stays a prefix of what is stored. Until a reset overtakes a call, that
  generation is the record's (`HoldsItsGeneration`), whose labels were all stored since the last
  reset, because a reset opens a generation nobody has labelled: none later than the record's
  is, or is about to be (`OnlySinceReset`). It assumes that resets are finitely many, so that generations, which count them, are
  numbers. From it: `CalibrationTypes`, `CalibrationEarned`.
* *Re-scoring.* `Rescored`: a request under way began before its revision, or a later one, was
  published (`BegunInTime`). The code checks something else, that no such revision has rows; that
  this is enough rests on a published revision having some (`PublishedHasRows`), hence on a
  request having a row to store before its aggregate, hence on a run having cases, which the
  engine insists on (`engine.py:392`, `StoredCase # {}`). From it: `RescoringOldRevisionsStay`.

**`RunControlProofs`** (`RunControl`, `ScheduledRuns`).

* *Run control.* `OneWriter` rests on a thread living only while its
  request is the one registered (`Registered`), on the two modes excluding each other's
  executions (`OneMode`), and for leases on the fence. `Supervised` adds that a lease that still
  counts returns only over an outcome, without which `CompletedJobHasOutcome` is not inductive.
  From it: `OneWriterAlways`, `WorkerReachableAlways`, `CompletedJobHasOutcomeAlways`,
  `ControlTypes`.
* *Schedules.* `Tracked`: a key has as many rows of runs as it has
  runs (`InsertedOnce`), an execution is no further than the run of its key (`Executes`), the day in
  the hand of a sweep is claimed and in no other hand, and at the point of enqueueing it has no
  job (`ClaimsHeld`), and a slot called queued has one, a free slot none (`SlotsTell`). That a sweep takes the
  least of its days needs a least element of a finite set, again by induction on subsets. From it:
  `SlotRunsOnceAlways`.

**`CountingProofs`** (`EgressBudget`, `FairDispatch`, `ScoredRuns`).

* *Sums.* The budget's properties are about sums over the requests. The induction theorems of
  the library cannot be instantiated here, since they take an operator; the lemmas are proved
  first-order instead, a set of the subsets for which the claim holds in the place of the
  operator, by the well-foundedness of the strict subsets of a finite set. `SumsAgree` and
  `SumsExist` show that the recursive function in the definition of the library's
  `SumFunctionOnSet` exists and is unique; `SumStep`, `SumUpdate`, `SumMonotone` and others are
  what the budget needs.
* *Budget.* `Balanced`: the spend is the sum of what requests were charged, always; the reservation
  is the sum of what is outstanding, and both together are within the budget, as long as
  nothing was unmeasured or broke its bound (`Honest`: after that a commit may reopen the budget,
  finding 4). From it: `EgressTypes`, `BudgetIsHonored`, `SpendCovers`.
* *Dispatch.* `Dispatched` bounds together how often a workspace was passed over, how many
  passes roam (may still pass it over), and how far the shared cursor is from it: a
  reservation of another workspace turns distance into a roaming pass, a service by that pass
  turns it into one time passed over, and a reservation of the workspace itself adds a whole
  round, allowed for as long as the pass that made it is held up or after it died. If all
  processes hold the workspace the cursor is right behind it, which makes the bound of
  `FairShare` come out. A process with a cursor of its own needs instead that what it asked in
  vain was not waiting (`OwnFair`). From it: `FairShareAlways`.
* *Scores of a run.* `Scored`: the last first attempt of a case that ended, or is being executed,
  was lost or its scoring ended (`FirstsStand`); what has landed is still what the stored tries
  say, since a case is executed again only by an engine that has nothing of it (`LandedStands`);
  a complete run has the verdict of all its scores (`VerdictStands`). `ResumeKeepsTheVerdict` is
  then a matter of where each score comes from; it leaves out a judge with a finished case to score
  again (finding 13). `GateNeedsEvidenceAlways` is the opposite
  direction of what aggregates do: scores that earned nothing have no rate, sum, mean, minimum
  or percentile above zero (`AggregateOfNothing`), the last because a nearest rank exists among
  the scores (`PercentileIsOne`). What `ScoredRunsAssumption` knows of an observation is
  that it is made of JSON values (`Contents`, closed under items and entries); that its score is
  then a number, whatever the metric selects, recalls or averages, is `ScoresAreNumbers`, with an
  induction over the places of a selector (`SelectedIsWellFormed`).

**`EvidenceProofs`** (`Artifacts`, `Capture`, `TraceRules`).

* *Artifacts.* `Durable`: a row comes from a put that renamed its file (`PutBehindRow`); while a
  deletion is uncommitted, no reference to its artifact is committed or uncommitted, and an
  uncommitted reference keeps the row (`RemovedBehindRow`, `RowsReferenced`) - the two exclude
  each other, which is what the foreign key is for; and what a dump references is listed, copied
  or still to be copied (`ArchiveWhole`). From it: `ArtifactsTypes`, `CommittedHasFileAlways`,
  `ReferencedExistsAlways`.
* *Capture.* `Traced`: a trace that can be read at all is in the order of its keys (`Ascending`),
  and the open context is past the time of every line (`PastAll`), both but where a large line
  hides the clock. A context opens past the last stamp it finds in the last 8 KiB, which is past
  everything before it because the lines ascend; that there is a last line among them needs a
  largest element of a finite set (`LargestOf`), by the well-foundedness of its strict subsets. A
  torn line makes the trace unreadable for good, so nothing need be said of what
  follows one. What of it becomes evidence is then a matter of how sequences are joined and
  capped; a local target's events are numbered in the order of their lines, so that only a clock
  set back while they are stamped orders two of them otherwise (finding 11). From it:
  `CaptureTypes`, `CaptureKeysFollowEmission`, `CaptureEvidenceIsWhole`.
* *Trace rules.* `Stored`: what an attempt has stored so far is part of one recording. In a
  recording a parent has a smaller rank than its child, so that of two events none is both an
  ancestor and a descendant of the other; where neither is, their keys decide, which differ
  (`Decided`). Hence `OrderDecided`. The verdict of a rule reads the stored events only through
  the set of them and through lists in the order of their keys, and such a list depends on the
  set alone (`OnlyTheSet`), hence `OrderIrrelevant`.

**`PredicateProofs`** (`Predicates`). The library's induction theorems take an operator and cannot
be instantiated, so induction is over a *set* of naturals with a least element outside
(`NaturalsIn`), and over trees by their height (`TreesIn`); that a function defined on trees by its
values on their operands exists is proved once (`TreeRecursion`) and used for evaluation, writing
and nesting.

* *Answers stay.* If an expression is plain and its answer is known, its answer is the same when
  fields become known (`AnswerStays`, `VerdictStays`): by induction over the tree, a comparison
  with an answer has both its operands, and the connectives never turn an answer around when an
  unknown operand gets one. From it: `PassesForGood`.
* *Parser.* `Parses(parse, n, e, rule)` says that the rule reads what `Write` makes of the tree `e`
  for it, wherever it stands, if what follows is not for the rule to read (`Stops`) and enough calls
  are left, and that it fails exactly if the nesting does not fit below the cap. Each tree has
  one rule of its own, by which it is read from its operands (`OwnRule`); the rules before that
  one pass it on, `_parse_primary` reads it in parentheses, and the rules after its own reach those
  (`OtherRules`). For the two left-associative rules the claim is about the loop: after some
  turns exactly `e` has been read (`Chained`), since the first operand of a chain is a chain
  again. From it: `CompilesWhatWasWritten`.

**`BackgroundProofs`** (`Installation`, `Containers`, `Conversations`).

* *Installation.* `Installed`: what a process at its step holds of key, certificate and authority is
  what the files hold (`InformedBy`), and a row is sealed with the key on disk. From it:
  `InstallationAgreesAlways`.
* *Containers.* `Contained`: one process at a time holds the network of the run, which exists until
  that process removes it (Podman refuses a second network of the name), and everything that exists
  is minded by a process at a step from which it will remove it, or is known to be left. From it:
  `NothingLeftBehindAlways`, `UndisturbedSessionAlways`, `ContainerRunsItsSnapshotAlways`.
* *Conversations.* `HasRead`: of a parser that has taken the first tokens of a stream, the buffer
  is what follows them, the fields are those a reading of the whole finds open at that point, as
  many frames have been made as such a reading finds there at least, within the limit, an answer
  means that there is a final frame, and a final frame without JSON has been handed on as such.
  How the stream was cut into chunks does not occur in it. `Drain` takes the lines of a chunk one
  by one, so that a step is again an induction over naturals. For scripted sessions `TalkIsKnown`
  relates the adapter's side to the agent's, requests with lost answers included. From them:
  `ConversationsWhole`.

**Only model-checked.** Liveness under fairness (`EveryJobSettles`, `RunLands`), which the
prover cannot do. Every safety and action property of the passing runs is stated by a theorem.

## 6. Observations

Behaviour met while modelling that no document contradicts clearly, or that lies outside
what a run states. Where a property would be violated by it, the property's comment says how
it leaves the case out.

* *Scores.* `raw_value` that is missing is true under `&&` of a condition
  (`evaluators.py:764`). An empty list of observations passes a binary
  metric and divides by zero under a numeric one. A metric without a gate is stored with
  gate status PASS. `_eval_not` lists failing events where the negated node passed.
* *Resumption.* A case executed twice counts twice, a first attempt that was lost counts by
  `on_missing`, and an output metric is scored again from a trace that does not hold the
  output (`engine.py:1385`). Scoring that raised when an attempt completed raises again when a
  later resumption scores it from its trace, and leaves the run incomplete. Re-scoring takes a live
  attempt without a trace by its output.
* *Capture.* Only the last 8 KiB of a trace are read for the last timestamp
  (`capture.py:97`). The local adapter stamps events when it parses them, so the proxy's events,
  stamped while the agent ran, precede all of them in `(timestamp, sequence)`; they are appended
  after the agent's, so a thousand agent events push cost events over the cap. An adapter that
  raises loses the proxy's records of the attempt (`engine.py:907`).
* *Rows written without their check.* Two re-scorings that passed the check mix their rows;
  `calibration.get` may put a fresh record over one stored meanwhile.
* *Plans and schedules.* A slot whose sweeper died stays claimed and is never run; one whose
  enqueue was committed without an acknowledgment is called failed although its job runs, and
  does not count towards the day's limits (`schedules.py:212`). Two jobs
  submitted by hand for one plan share its run key. A plan that names neither source nor
  target validates and cannot be executed. A job that fails leaves its run as it is.
* *Containers.* After a crash, a failed removal or a failed validation the network of a run
  remains, and every later session of that run is refused until an operator removes it. The
  results of stopping a relay are not looked at. An interrupted creation may take place after
  the cleanup reported success.
* *Backups and artifacts.* One artifact whose file is missing makes every backup fail. A
  refused restore on SQLite has already copied the database. Retention subtracts protected
  artifacts from a set that no longer holds them (`operations.py:123`).
* *Streams.* The byte limit applies to what is buffered when a chunk comes in: many small
  frames in one large chunk are refused, one frame of many lines is not limited.
* *Installation.* A death between the certificate and its key makes every later start refuse.
  A loader may read the key's file before it is written. On PostgreSQL a rotation that commits
  between the two statements of `migrate_legacy_secrets` is overwritten (`secrets.py:211`).
* *Dispatch.* Processes of one pool with different workspace lists reset the cursor at every
  reservation (`worker.py:125`), and a busy first workspace starves the others.
* *Imports.* An import discards its upload also when it was interrupted
  (`ingestion.py:257`), so its next lease fails; a git import executed again creates a second version.

## 7. Not modelled yet, and the plan

Done of the earlier plan: schedules, plans, dispatch, installation, calibration, re-scoring,
scoring, predicates, trace rules, streams, and beyond it containers, scripted sessions,
capture, backups. What is left, in the order of what matters most:

1. `RunJob`: a job that fails over a run it began, an abstract queue composed with an abstract
   run; retention in `Artifacts`; imports and their uploads; exports, which read their
   manifest in several transactions.
2. An abstract run that `RunEngine` implements for its callers.
3. The adapters of single requests, the migrations ledger.

Not planned: the workflow api (routing and validation without state of its own), prompts and
answers of judges, the smoke gate (one command drives a new project through it in one
process), transport, routes and cassettes of the proxy, model gateway and redaction
(formats), documents and the dashboard (immutable, or read only), the command line, the web
interface.

Abstracted in what is modelled: payloads, hashes and texts; workspaces, but for dispatch
(every key is scoped by one); evidence, trace and cost records of an attempt in `RunEngine`,
which `Capture` has; the answers of an agent, reduced there to verdicts and outcomes; more
than one metric. Lines of a stream are known by their kind, values of fields by their type
and one number, scores by quarters.
