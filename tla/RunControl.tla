----------------------------- MODULE RunControl ------------------------------
(***************************************************************************)
(* Who starts, executes and cancels one run. In development the api starts *)
(* and resumes it in threads of its own and keeps a registry of them       *)
(* (api.py, start_run, cancel_run, resume_run, _run_worker); in a release  *)
(* only the cancel route remains and the run is executed under the lease   *)
(* of a durable job (execution.py, RunExecutionService.execute, called by  *)
(* worker_service.py). Handlers run in a pool of threads, so requests      *)
(* interleave with each other and with the execution.                      *)
(*                                                                         *)
(* The engine is reduced to the writes of runs.status and the cases begun  *)
(* (module RunEngine has the rest), the job to its leases (module          *)
(* JobWorker has the rest): a lease that lapsed refuses every call its     *)
(* handler makes through LeasedStorage.                                    *)
(***************************************************************************)
EXTENDS Naturals, StatusTables

CONSTANTS
    Calls,       \* HTTP requests about the run; a start or resume names its thread
    MaxStarts,   \* max_attempts of the run's job
    MaxFaults,   \* bound on crashes, stops, lapses and raised errors together
    NoCall       \* no entry in the registry

ASSUME ControlAssumption ==
    /\ MaxStarts \in Nat \ {0} /\ MaxFaults \in Nat
    /\ NoCall \notin Calls /\ Calls \cap Nat = {}

VARIABLES
    release,     \* release_mode; never changes
    status,      \* runs.status
    slot,        \* the call registered in workers and cancel_events
    call,        \* per request: its kind, where its handler is, the event it found
    exec,        \* per thread or lease: where the engine is, and its events
    job,         \* the durable job of the run
    authorized,  \* the plan's authorization is active and not expired
    faults       \* faults so far

controlVars == <<release, status, slot, call, exec, job, authorized, faults>>

Leases == 1..MaxStarts
Execs == Calls \cup Leases

ExecAt == {"none", "execute", "enter", "reopen", "advance", "loop", "case", "mark",
           "finalize", "publish", "raise", "returns", "fails", "gone"}

\* In Engine.run, between its first read and its last write.
InEngine(e) == exec[e].at \in ExecAt \ {"none", "execute", "returns", "fails", "gone"}
Alive(e) == exec[e].at \notin {"none", "gone"}

ControlInit ==
    /\ release \in BOOLEAN
    /\ status = IF release THEN "absent" ELSE "draft"
    /\ slot = NoCall
    /\ call = [c \in Calls |-> [kind |-> "none", at |-> "new", event |-> NoCall]]
    /\ exec = [e \in Execs |-> [at |-> "none", saw |-> "absent", event |-> FALSE, stop |-> FALSE]]
    /\ job = [phase |-> IF release THEN "open" ELSE "none", fence |-> 0, held |-> FALSE]
    /\ authorized = TRUE
    /\ faults = 0

Fault == faults < MaxFaults /\ faults' = faults + 1

MayBecome(to) == to = status \/ to \in RunMoves[status]

ExecTo(e, at) == exec' = [exec EXCEPT ![e].at = at]
CallTo(c, at) == call' = [call EXCEPT ![c].at = at]

-----------------------------------------------------------------------------
(***************************************************************************)
(* The handlers                                                            *)
(***************************************************************************)
Served == IF release THEN {"cancel"} ELSE {"start", "cancel", "resume"}

Arrive(c, kind) ==
    /\ call[c].at = "new" /\ kind \in Served
    /\ call' = [call EXCEPT ![c].kind = kind, ![c].at = "read"]
    /\ UNCHANGED <<release, status, slot, exec, job, authorized, faults>>

\* What each handler answers 409, 404 or "already_terminal" to.
Refused(kind) ==
    CASE kind = "start" -> {"complete", "failed", "cancelled", "running", "aggregating", "incomplete"}
      [] kind = "resume" -> {"complete", "failed", "draft"}
      [] OTHER -> {"absent", "complete", "failed", "cancelled"}

ReadRun(c) ==
    /\ call[c].at = "read"
    /\ LET next == IF call[c].kind = "cancel" THEN "look" ELSE "register" IN
       CallTo(c, IF status \in Refused(call[c].kind) THEN "refused" ELSE next)
    /\ UNCHANGED <<release, status, slot, exec, job, authorized, faults>>

\* Mutant of RegistryFree: nobody looks whether a worker is registered.
RegistryOverwritten == TRUE

RegistryFree == slot = NoCall

\* Under the registry lock.
Register(c) ==
    /\ call[c].at = "register"
    /\ IF RegistryFree
       THEN slot' = c /\ CallTo(c, IF call[c].kind = "start" THEN "queue" ELSE "launch")
       ELSE slot' = slot /\ CallTo(c, "refused")
    /\ UNCHANGED <<release, status, exec, job, authorized, faults>>

\* set_run_status(QUEUED), whatever the status is by now; refused, it leaves
\* the registry as it is.
Queue(c) ==
    /\ call[c].at = "queue"
    /\ IF MayBecome("queued") THEN status' = "queued" /\ CallTo(c, "launch")
                              ELSE status' = status /\ CallTo(c, "refused")
    /\ UNCHANGED <<release, slot, exec, job, authorized, faults>>

Launch(c) ==
    /\ call[c].at = "launch"
    /\ CallTo(c, "started")
    /\ ExecTo(c, "enter")
    /\ UNCHANGED <<release, status, slot, job, authorized, faults>>

\* cancel_events.get under the lock; the event is set after it.
LookForEvent(c) ==
    /\ call[c].at = "look"
    /\ call' = [call EXCEPT ![c].event = slot, ![c].at = IF slot = NoCall THEN "direct" ELSE "fire"]
    /\ UNCHANGED <<release, status, slot, exec, job, authorized, faults>>

FireEvent(c) ==
    /\ call[c].at = "fire"
    /\ exec' = [exec EXCEPT ![call[c].event].event = TRUE]
    /\ CallTo(c, "pending")
    /\ UNCHANGED <<release, status, slot, job, authorized, faults>>

\* "No worker: the run has not started - cancel directly."
CancelDirectly(c) ==
    /\ call[c].at = "direct"
    /\ IF MayBecome("cancelled") THEN status' = "cancelled" /\ CallTo(c, "cancelled")
                                 ELSE status' = status /\ CallTo(c, "refused")
    /\ UNCHANGED <<release, slot, exec, job, authorized, faults>>

-----------------------------------------------------------------------------
(***************************************************************************)
(* The lease of the job, and RunExecutionService.execute                   *)
(***************************************************************************)
\* Mutant of Fenced: a lapsed lease still writes.
FencedNever(e) == FALSE

\* What this executor stores, or reads through LeasedStorage, is refused.
Fenced(e) == e \in Leases /\ ~(job.held /\ job.fence = e)

\* Mutant of StartsLeft: one lease too many.
StartsLeftOffByOne == job.fence <= MaxStarts

StartsLeft == job.fence < MaxStarts

GrantLease ==
    /\ job.phase = "open" /\ ~job.held /\ StartsLeft
    /\ job' = [job EXCEPT !.fence = @ + 1, !.held = TRUE]
    /\ ExecTo(job.fence + 1, "execute")
    /\ UNCHANGED <<release, status, slot, call, authorized, faults>>

\* The handler stalls, its process dies, or its heartbeat thread ends; whoever
\* claims next sweeps the lease.
LapseLease ==
    /\ job.held
    /\ Alive(job.fence) => Fault
    /\ ~Alive(job.fence) => UNCHANGED faults
    /\ job' = [job EXCEPT !.held = FALSE]
    /\ UNCHANGED <<release, status, slot, call, exec, authorized>>

ExhaustJob ==
    /\ job.phase = "open" /\ ~job.held /\ job.fence = MaxStarts
    /\ job' = [job EXCEPT !.phase = "failed"]
    /\ UNCHANGED <<release, status, slot, call, exec, authorized, faults>>

\* SIGTERM to the process that holds the lease.
StopWorker(f) ==
    /\ Alive(f) /\ ~exec[f].stop /\ Fault
    /\ exec' = [exec EXCEPT ![f].stop = TRUE]
    /\ UNCHANGED <<release, status, slot, call, job, authorized>>

\* The heartbeat thread sees the stop event, or the lease gone: its checkpoint
\* sets the cancellation event, which is the engine's should_cancel.
HeartbeatTells(f) ==
    /\ Alive(f) /\ (exec[f].stop \/ Fenced(f)) /\ ~exec[f].event
    /\ exec' = [exec EXCEPT ![f].event = TRUE]
    /\ UNCHANGED <<release, status, slot, call, job, authorized, faults>>

Expire ==
    /\ release /\ authorized
    /\ authorized' = FALSE
    /\ UNCHANGED <<release, status, slot, call, exec, job, faults>>

\* Mutant of Settled: an interrupted run is returned as if it had an outcome.
SettledOrIncomplete == status \in {"complete", "failed", "cancelled", "incomplete"}

Settled == status \in {"complete", "failed", "cancelled"}

\* execute: authorization and plan, then the run of the idempotency key, which
\* is returned when it has an outcome and created when there is none.
Execute(f) ==
    /\ exec[f].at = "execute"
    /\ IF Fenced(f) \/ ~authorized THEN ExecTo(f, "fails") /\ UNCHANGED status
       ELSE IF Settled THEN ExecTo(f, "returns") /\ UNCHANGED status
       ELSE ExecTo(f, "enter") /\ status' = IF status = "absent" THEN "draft" ELSE status
    /\ UNCHANGED <<release, slot, call, job, authorized, faults>>

Completes(f) == ~exec[f].stop /\ ~Fenced(f)

\* The handler returned or raised; run_once completes or fails the job, or
\* abandons the lease of a process that is stopping.
EndHandler(f) ==
    /\ f \in Leases /\ exec[f].at \in {"returns", "fails"}
    /\ job' = IF Completes(f)
              THEN [job EXCEPT !.held = FALSE,
                        !.phase = IF exec[f].at = "returns" THEN "completed" ELSE "failed"]
              ELSE [job EXCEPT !.held = @ /\ Fenced(f)]
    /\ ExecTo(f, "gone")
    /\ UNCHANGED <<release, status, slot, call, authorized, faults>>

\* _run_worker, finally: both registries forget the run, under the lock.
EndThread(c) ==
    /\ c \in Calls /\ exec[c].at \in {"returns", "fails"}
    /\ slot' = NoCall
    /\ ExecTo(c, "gone")
    /\ UNCHANGED <<release, status, call, job, authorized, faults>>

-----------------------------------------------------------------------------
(***************************************************************************)
(* Engine.run                                                              *)
(***************************************************************************)
\* The status Engine.run works with, as long as it looks at it.
SeenIf(next, seen) == IF next = "advance" THEN seen ELSE "absent"

EngineEnter(e) ==
    /\ exec[e].at = "enter"
    /\ LET next == IF Fenced(e) \/ status \in {"complete", "failed"} THEN "fails"
                   ELSE IF status \in {"cancelled", "incomplete"} THEN "reopen"
                   ELSE IF status \in {"running", "aggregating"} THEN "loop"
                   ELSE "advance"
       IN exec' = [exec EXCEPT ![e].at = next, ![e].saw = SeenIf(next, status)]
    /\ UNCHANGED <<release, status, slot, call, job, authorized, faults>>

\* One set_run_status; a refused one raises.
StatusWrite(e, to, next, otherwise) ==
    /\ IF MayBecome(to) /\ ~Fenced(e)
       THEN status' = to /\ exec' = [exec EXCEPT ![e].at = next, ![e].saw = SeenIf(next, to)]
       ELSE status' = status /\ exec' = [exec EXCEPT ![e].at = otherwise, ![e].saw = "absent"]
    /\ UNCHANGED <<release, slot, call, job, authorized, faults>>

EngineReopen(e) == exec[e].at = "reopen" /\ StatusWrite(e, "queued", "advance", "fails")

\* Driven by the status read on entry, not by the one stored.
EngineAdvance(e) ==
    /\ exec[e].at = "advance"
    /\ \/ exec[e].saw = "draft" /\ StatusWrite(e, "queued", "advance", "fails")
       \/ exec[e].saw = "queued" /\ StatusWrite(e, "provisioning", "advance", "fails")
       \/ exec[e].saw = "provisioning" /\ StatusWrite(e, "running", "loop", "fails")

\* should_cancel between cases; otherwise the next case begins, which looks at
\* the case and not at the run.
BeginCaseOf(e) ==
    /\ exec[e].at = "loop"
    /\ ExecTo(e, IF exec[e].event THEN "mark" ELSE IF Fenced(e) THEN "raise" ELSE "case")
    /\ UNCHANGED <<release, status, slot, call, job, authorized, faults>>

EndCaseOf(e) ==
    /\ exec[e].at = "case"
    /\ ExecTo(e, IF Fenced(e) THEN "raise" ELSE "loop")
    /\ UNCHANGED <<release, status, slot, call, job, authorized, faults>>

LastCaseOf(e) ==
    /\ exec[e].at = "loop"
    /\ ExecTo(e, "finalize")
    /\ UNCHANGED <<release, status, slot, call, job, authorized, faults>>

EngineRaises(e) ==
    /\ exec[e].at \in {"case", "finalize", "publish"} /\ Fault
    /\ ExecTo(e, "raise")
    /\ UNCHANGED <<release, status, slot, call, job, authorized>>

EngineCancel(e) == exec[e].at = "mark" /\ StatusWrite(e, "cancelled", "returns", "raise")
EngineFinalize(e) == exec[e].at = "finalize" /\ StatusWrite(e, "aggregating", "publish", "raise")
EngineComplete(e) == exec[e].at = "publish" /\ StatusWrite(e, "complete", "returns", "raise")
EngineLand(e) == exec[e].at = "raise" /\ StatusWrite(e, "incomplete", "fails", "fails")

\* The worker process dies; its lease lapses later. Or the api dies, and with
\* it every thread, every handler and the registry.
CrashWorker(f) ==
    /\ f \in Leases /\ Alive(f) /\ Fault
    /\ ExecTo(f, "gone")
    /\ UNCHANGED <<release, status, slot, call, job, authorized>>

CrashApi ==
    /\ ~release /\ Fault
    /\ slot' = NoCall
    /\ exec' = [e \in Execs |-> IF Alive(e) THEN [exec[e] EXCEPT !.at = "gone"] ELSE exec[e]]
    /\ call' = [c \in Calls |-> IF call[c].at # "new" THEN [call[c] EXCEPT !.at = "refused"] ELSE call[c]]
    /\ UNCHANGED <<release, status, job, authorized>>

ControlNext ==
    \/ \E c \in Calls, kind \in Served : Arrive(c, kind)
    \/ \E c \in Calls : \/ ReadRun(c) \/ Register(c) \/ Queue(c) \/ Launch(c)
                        \/ LookForEvent(c) \/ FireEvent(c) \/ CancelDirectly(c)
                        \/ EndThread(c)
    \/ GrantLease \/ LapseLease \/ ExhaustJob \/ Expire \/ CrashApi
    \/ \E f \in Leases : \/ StopWorker(f) \/ HeartbeatTells(f) \/ Execute(f)
                         \/ EndHandler(f) \/ CrashWorker(f)
    \/ \E e \in Execs : \/ EngineEnter(e) \/ EngineReopen(e) \/ EngineAdvance(e)
                        \/ BeginCaseOf(e) \/ EndCaseOf(e) \/ LastCaseOf(e) \/ EngineRaises(e)
                        \/ EngineCancel(e) \/ EngineFinalize(e) \/ EngineComplete(e)
                        \/ EngineLand(e)

ControlSpec == ControlInit /\ [][ControlNext]_controlVars

-----------------------------------------------------------------------------
(***************************************************************************)
(* Properties                                                              *)
(***************************************************************************)
\* The registry, the handlers, the executions and the stored rows have their
\* types (api.py, create_app; execution.py).
ControlTypeOK ==
    /\ release \in BOOLEAN /\ status \in RunStatus /\ slot \in Calls \cup {NoCall}
    /\ \A c \in Calls : call[c].kind \in Served \cup {"none"} /\ call[c].event \in Calls \cup {NoCall}
    /\ \A e \in Execs : exec[e].at \in ExecAt /\ exec[e].saw \in RunStatus
    /\ job.phase \in {"none", "open", "completed", "failed"}
    /\ job.fence \in 0..MaxStarts /\ job.held \in BOOLEAN

\* At most one execution of the run can store anything, however requests,
\* leases and crashes interleave: the registry admits one thread, and the
\* fence one lease (api.py, registry_lock; worker_service.py, LeasedStorage).
OneWriter ==
    \A d, e \in Execs : InEngine(d) /\ InEngine(e) /\ ~Fenced(d) /\ ~Fenced(e) => d = e

\* A cancel request finds the event of every thread that executes the run
\* (api.py, cancel_run): a thread leaves the registry only when it is done.
WorkerReachable == \A c \in Calls : Alive(c) => slot = c

\* A job completes only over a run that has its outcome, and only if nobody
\* else is executing it (execution.py, execute; worker_service.py, run_once).
CompletedJobHasOutcome ==
    job.phase = "completed" =>
        status \in {"complete", "failed", "cancelled"} /\ \A f \in Leases : InEngine(f) => Fenced(f)

\* docs/design, 17.7: "the run transitions `cancelled` only when the worker
\* confirms", so no handler stores it under an engine that goes on executing.
CancelIsConfirmed ==
    [][\A e \in Execs : status # "cancelled" /\ status' = "cancelled"
                            /\ InEngine(e) /\ ~Fenced(e)
                        => exec'[e].at = "returns"]_controlVars

\* worker_service.py, WorkerStopping: "Shutdown stops publication and lets
\* another process reclaim the lease", so without a cancel request nothing
\* ends up cancelled.
ShutdownCancelsNothing ==
    status = "cancelled" => \E c \in Calls : call[c].kind = "cancel"
=============================================================================
