---------------------------- MODULE ScheduledRuns ----------------------------
(***************************************************************************)
(* One run plan, its authorization, a daily schedule over it and the runs  *)
(* that come of them: run_plans.py plans and authorizes, schedules.py      *)
(* claims due slots and enqueues a job for each, a person submits the plan *)
(* by hand, and execution.py turns a leased job into a run found by its    *)
(* idempotency key.                                                        *)
(*                                                                         *)
(* Sweeps are called for by several processes at once. A day is one slot,  *)
(* so the usage of a slot's day is what that slot itself reserved or spent.*)
(* A lease lapses here only when its process died (RunControl has leases   *)
(* that lapse under a live process), and the engine is one step.           *)
(***************************************************************************)
EXTENDS Integers, FiniteSets

CONSTANTS
    Proposals,    \* the plan requests considered, a subset of PlanRequests
    Days,         \* the days a sweep looks at, numbered in their order
    Gaps,         \* the days whose local time does not exist
    Sweepers,     \* processes that sweep, once each
    ByHand,       \* Idempotency-Key headers of POST /runs
    PlanCost,     \* limits.budget_usd_micros
    Runners,      \* worker processes, each with one job at a time
    MaxLeases,    \* max_attempts of a job
    MaxMishaps    \* bound on crashes, errors and lapses of permit and verification

ASSUME SchedulingAssumption ==
    /\ Days \subseteq Nat \ {0} /\ Gaps \subseteq Days
    /\ Days \cap ByHand = {}
    /\ PlanCost \in Nat /\ Runners \in Nat \ {0} /\ MaxLeases \in Nat \ {0} /\ MaxMishaps \in Nat

VARIABLES
    plan,        \* the run plan: its state and what it can run on
    permit,      \* its authorization; "late" is expired before anyone noticed
    verified,    \* the target's verification holds and has not expired
    schedule,    \* the schedule: its state, the days its DST policy takes, room in the daily budget
    daySlot,     \* schedule_slots
    sweeper,     \* per sweep: where it is, what it listed, the days to do
    runJob,      \* the evaluation_run job of a day or a header
    runner,      \* per job: where its leased execution is
    planRun,     \* runs, by the key of the job
    inserted,    \* how many rows were inserted for a key
    mishaps

schedulingVars == <<plan, permit, verified, schedule, daySlot, sweeper,
                    runJob, runner, planRun, inserted, mishaps>>

Submissions == Days \cup ByHand
Scheduled(j) == j \in Days

PlanKey == 0   \* the key of every job submitted by hand

\* Mutant of RunKey: a scheduled job takes the key of its plan.
RunKeyOfPlan(j) == PlanKey

\* "schedule-run:<schedule>:<slot>" or "evaluation-plan:<plan>:<digest>".
RunKey(j) == IF Scheduled(j) THEN j ELSE PlanKey

RunKeys == Days \cup {PlanKey}

SchedulingInit ==
    /\ plan = [state |-> "none", source |-> FALSE, target |-> FALSE]
    /\ permit = "none" /\ verified = TRUE
    /\ schedule = [state |-> "none", due |-> {}, room |-> FALSE]
    /\ daySlot = [d \in Days |-> "free"]
    /\ sweeper = [w \in Sweepers |-> [at |-> "new", todo |-> {}, counted |-> {}]]
    /\ runJob = [j \in Submissions |-> [status |-> "none", leases |-> 0]]
    /\ runner = [j \in Submissions |-> "idle"]
    /\ planRun = [k \in RunKeys |-> "none"]
    /\ inserted = [k \in RunKeys |-> 0]
    /\ mishaps = 0

MishapHere == mishaps < MaxMishaps /\ mishaps' = mishaps + 1

-----------------------------------------------------------------------------
(***************************************************************************)
(* Planning and authorization                                              *)
(***************************************************************************)
\* What a plan request names: whether the required references are there, and
\* the state of the versions and limits it refers to.
PlanRequests ==
    [project: {"none", "ours", "foreign"}, required: BOOLEAN,
     source: {"none", "executable", "draft"},
     target: {"none", "wrong_kind", "unverified", "stale", "verified"},
     evidence: {"observed", "lacking"}, evaluator: {"none", "approved", "unfit"},
     limits: {"valid", "invalid"}]

\* A foreign project answers 404 before anything is stored.
Blockers(r) ==
    (IF r.required THEN {} ELSE {"version_required"})
    \cup (IF r.project = "none" THEN {"project_required"} ELSE {})
    \cup (IF r.source = "draft" THEN {"source_runtime_not_ready"} ELSE {})
    \cup (CASE r.target = "wrong_kind" -> {"target_version_invalid"}
            [] r.target = "unverified" -> {"target_verification_required"}
            [] r.target = "stale" -> {"target_verification_stale"}
            [] OTHER -> {})
    \cup (IF r.target # "none" /\ r.required /\ r.evidence = "lacking"
          THEN {"target_capability_required"} ELSE {})
    \cup (IF r.required /\ r.evaluator = "unfit" THEN {"custom_evaluator_invalid"} ELSE {})
    \cup (IF r.limits = "invalid" THEN {"limits_out_of_range"} ELSE {})

PlanRunOf(r) ==
    /\ plan.state = "none" /\ r.project # "foreign"
    /\ plan' = [state |-> IF Blockers(r) = {} THEN "validated" ELSE "blocked",
                source |-> r.source # "none", target |-> r.target # "none"]
    /\ UNCHANGED <<permit, verified, schedule, daySlot, sweeper, runJob, runner,
                   planRun, inserted, mishaps>>

Authorize ==
    /\ plan.state = "validated" /\ permit = "none"
    /\ permit' = "authorized"
    /\ UNCHANGED <<plan, verified, schedule, daySlot, sweeper, runJob, runner,
                   planRun, inserted, mishaps>>

\* The clock passes expires_at of the authorization, or of the verification.
PermitRunsOut ==
    /\ permit = "authorized" /\ permit' = "late" /\ MishapHere
    /\ UNCHANGED <<plan, verified, schedule, daySlot, sweeper, runJob, runner,
                   planRun, inserted>>
VerificationRunsOut ==
    /\ plan.target /\ verified /\ verified' = FALSE /\ MishapHere
    /\ UNCHANGED <<plan, permit, schedule, daySlot, sweeper, runJob, runner,
                   planRun, inserted>>

-----------------------------------------------------------------------------
(***************************************************************************)
(* The schedule                                                            *)
(***************************************************************************)
\* due_daily_slots: "skip" leaves out the local times that do not exist.
DueSlots(dst) == IF dst = "skip" THEN Days \ Gaps ELSE Days

\* A daily budget of 0 is none.
CreateSchedule(dst, daily) ==
    /\ schedule.state = "none" /\ permit = "authorized"
    /\ schedule' = [state |-> "active", due |-> DueSlots(dst),
                    room |-> daily = 0 \/ PlanCost <= daily]
    /\ UNCHANGED <<plan, permit, verified, daySlot, sweeper, runJob, runner,
                   planRun, inserted, mishaps>>

SetScheduleState(state) ==
    /\ schedule.state \notin {"none", state}
    /\ schedule' = [schedule EXCEPT !.state = state]
    /\ UNCHANGED <<plan, permit, verified, daySlot, sweeper, runJob, runner,
                   planRun, inserted, mishaps>>

SweepStep(w, at) == sweeper' = [sweeper EXCEPT ![w].at = at]
SweepOver(w) == sweeper' = [sweeper EXCEPT ![w] = [at |-> "done", todo |-> {}, counted |-> {}]]

\* A schedule that is paused, or whose authorization is over, is left alone;
\* one whose target is no longer verified is paused. Otherwise the slots are
\* listed, once for the whole sweep.
BeginSweep(w) ==
    /\ sweeper[w].at = "new" /\ schedule.state # "none"
    /\ IF schedule.state = "paused" \/ permit # "authorized"
       THEN SweepOver(w) /\ UNCHANGED schedule
       ELSE IF plan.target /\ ~verified
       THEN SweepOver(w) /\ schedule' = [schedule EXCEPT !.state = "paused"]
       ELSE /\ sweeper' = [sweeper EXCEPT ![w] =
                   [at |-> "next", todo |-> schedule.due,
                    counted |-> {d \in Days : daySlot[d] \in {"claimed", "queued"}}]]
            /\ UNCHANGED schedule
    /\ UNCHANGED <<plan, permit, verified, daySlot, runJob, runner, planRun, inserted, mishaps>>

\* The day's listed slots stay under the daily limit (at least one), and
\* another run fits in the daily budget.
WithinLimits(w, d) == d \notin sweeper[w].counted /\ schedule.room

\* INSERT .. ON CONFLICT DO NOTHING.
SlotUnclaimed(d) == daySlot[d] = "free"

Foremost(days) == CHOOSE d \in days : \A e \in days : d <= e

ClaimSlot(w) ==
    /\ sweeper[w].at = "next" /\ sweeper[w].todo # {}
    /\ LET d == Foremost(sweeper[w].todo) IN
       IF WithinLimits(w, d) /\ SlotUnclaimed(d)
       THEN /\ daySlot' = [daySlot EXCEPT ![d] = "claimed"]
            /\ SweepStep(w, "enqueue")
       ELSE /\ sweeper' = [sweeper EXCEPT ![w].todo = @ \ {d}]
            /\ UNCHANGED daySlot
    /\ UNCHANGED <<plan, permit, verified, schedule, runJob, runner, planRun, inserted, mishaps>>

EndSweep(w) ==
    /\ sweeper[w].at = "next" /\ sweeper[w].todo = {}
    /\ SweepOver(w)
    /\ UNCHANGED <<plan, permit, verified, schedule, daySlot, runJob, runner,
                   planRun, inserted, mishaps>>

\* Enqueueing under a key that has a job returns that job.
EnqueueRunJob(j) ==
    IF runJob[j].status = "none" THEN runJob' = [runJob EXCEPT ![j].status = "queued"]
                                 ELSE UNCHANGED runJob

EnqueueSlot(w) ==
    /\ sweeper[w].at = "enqueue"
    /\ EnqueueRunJob(Foremost(sweeper[w].todo))
    /\ SweepStep(w, "record")
    /\ UNCHANGED <<plan, permit, verified, schedule, daySlot, runner, planRun, inserted, mishaps>>

\* The enqueue raises, rolled back or with its commit not acknowledged: the slot
\* is marked, the sweep is over.
EnqueueFails(w) ==
    /\ sweeper[w].at \in {"enqueue", "record"} /\ MishapHere
    /\ daySlot' = [daySlot EXCEPT ![Foremost(sweeper[w].todo)] = "failed"]
    /\ SweepOver(w)
    /\ UNCHANGED <<plan, permit, verified, schedule, runJob, runner, planRun, inserted>>

RecordSlotJob(w) ==
    /\ sweeper[w].at = "record"
    /\ LET d == Foremost(sweeper[w].todo) IN
       /\ daySlot' = [daySlot EXCEPT ![d] = "queued"]
       /\ sweeper' = [sweeper EXCEPT ![w].at = "next", ![w].todo = @ \ {d}]
    /\ UNCHANGED <<plan, permit, verified, schedule, runJob, runner, planRun, inserted, mishaps>>

CrashSweep(w) ==
    /\ sweeper[w].at \in {"next", "enqueue", "record"} /\ MishapHere
    /\ SweepOver(w)
    /\ UNCHANGED <<plan, permit, verified, schedule, daySlot, runJob, runner, planRun, inserted>>

\* enqueue_run: an authorization found late is stored as expired.
SubmitByHand(j) ==
    /\ permit \in {"authorized", "late"}
    /\ IF permit = "authorized" THEN EnqueueRunJob(j) /\ UNCHANGED permit
                                ELSE permit' = "expired" /\ UNCHANGED runJob
    /\ UNCHANGED <<plan, verified, schedule, daySlot, sweeper, runner, planRun, inserted, mishaps>>

-----------------------------------------------------------------------------
(***************************************************************************)
(* RunExecutionService.execute under the lease of a job                    *)
(***************************************************************************)
RunnerTo(j, at) == runner' = [runner EXCEPT ![j] = at]

LeaseRun(j) ==
    /\ runJob[j].status = "queued"
    /\ Cardinality({i \in Submissions : runner[i] # "idle"}) < Runners
    /\ runJob' = [runJob EXCEPT ![j].status = "leased", ![j].leases = @ + 1]
    /\ RunnerTo(j, "check")
    /\ UNCHANGED <<plan, permit, verified, schedule, daySlot, sweeper, planRun, inserted, mishaps>>

\* _resolve_target: the source, else the target while it stays verified.
Runnable == plan.source \/ (plan.target /\ verified)

\* Authorization, target, then the run of the key: one with an outcome is the
\* answer, one without is run on.
CheckRun(j) ==
    /\ runner[j] = "check"
    /\ permit' = IF permit = "late" THEN "expired" ELSE permit
    /\ RunnerTo(j, IF permit # "authorized" \/ ~Runnable THEN "raised"
                   ELSE IF planRun[RunKey(j)] = "done" THEN "returned"
                   ELSE IF planRun[RunKey(j)] = "none" THEN "create"
                   ELSE "engine")
    /\ UNCHANGED <<plan, verified, schedule, daySlot, sweeper, runJob, planRun, inserted, mishaps>>

\* UNIQUE (workspace_id, idempotency_key): who comes second takes the first's.
InsertRun(j) ==
    /\ runner[j] = "create"
    /\ LET k == RunKey(j) IN
       IF planRun[k] = "none"
       THEN planRun' = [planRun EXCEPT ![k] = "live"] /\ inserted' = [inserted EXCEPT ![k] = @ + 1]
       ELSE UNCHANGED <<planRun, inserted>>
    /\ RunnerTo(j, "engine")
    /\ UNCHANGED <<plan, permit, verified, schedule, daySlot, sweeper, runJob, mishaps>>

EngineEnds(j) ==
    /\ runner[j] = "engine"
    /\ planRun' = [planRun EXCEPT ![RunKey(j)] = "done"]
    /\ RunnerTo(j, "returned")
    /\ UNCHANGED <<plan, permit, verified, schedule, daySlot, sweeper, runJob, inserted, mishaps>>

SettleRunJob(j) ==
    /\ runner[j] \in {"returned", "raised"}
    /\ runJob' = [runJob EXCEPT ![j].status =
                      IF runner[j] = "returned" THEN "completed" ELSE "failed"]
    /\ RunnerTo(j, "idle")
    /\ UNCHANGED <<plan, permit, verified, schedule, daySlot, sweeper, planRun, inserted, mishaps>>

\* The process dies; the sweep of the next claim finds the lease lapsed.
CrashRunner(j) ==
    /\ runner[j] # "idle" /\ MishapHere
    /\ runJob' = [runJob EXCEPT ![j].status =
                      IF runJob[j].leases < MaxLeases THEN "queued" ELSE "failed"]
    /\ RunnerTo(j, "idle")
    /\ UNCHANGED <<plan, permit, verified, schedule, daySlot, sweeper, planRun, inserted>>

SchedulingNext ==
    \/ \E r \in Proposals : PlanRunOf(r)
    \/ Authorize \/ PermitRunsOut \/ VerificationRunsOut
    \/ \E dst \in {"first", "skip"}, daily \in {0, PlanCost - 1} : CreateSchedule(dst, daily)
    \/ \E state \in {"active", "paused"} : SetScheduleState(state)
    \/ \E w \in Sweepers : \/ BeginSweep(w) \/ ClaimSlot(w) \/ EndSweep(w)
                           \/ EnqueueSlot(w) \/ EnqueueFails(w) \/ RecordSlotJob(w)
                           \/ CrashSweep(w)
    \/ \E j \in ByHand : SubmitByHand(j)
    \/ \E j \in Submissions : \/ LeaseRun(j) \/ CheckRun(j) \/ InsertRun(j) \/ EngineEnds(j)
                              \/ SettleRunJob(j) \/ CrashRunner(j)

SchedulingSpec == SchedulingInit /\ [][SchedulingNext]_schedulingVars

-----------------------------------------------------------------------------
\* A due day is measured by one run of its own, whoever sweeps, retries or
\* submits the same plan beside it: a key has one run, a day's completed job
\* was answered by the day's own run, a slot called queued has its job, and one
\* that is free has none. A slot called failed may have one: an enqueue whose
\* commit is not acknowledged raises too. (schedules.py:196-226 over the atomic
\* insert of storage.py, and the keys of execution.py:82-98.)
SlotRunsOnce ==
    /\ \A k \in RunKeys : inserted[k] <= 1
    /\ \A d \in Days :
        /\ runJob[d].status = "completed" => planRun[d] = "done"
        /\ daySlot[d] = "queued" => runJob[d].status # "none"
        /\ daySlot[d] = "free" => runJob[d].status = "none"
=============================================================================
