------------------------------ MODULE JobQueue ------------------------------
(***************************************************************************)
(* The durable, workspace-scoped job queue (jobs.py, JobQueue): enqueue,   *)
(* claim with sweep of lapsed leases, fenced publication, heartbeat,       *)
(* complete, fail, abandon, acknowledge_cancel and request_cancel.         *)
(*                                                                         *)
(* Jobs stands for the idempotency keys in use: a key is UNIQUE in its     *)
(* workspace, so a key names at most one job, and enqueueing it again      *)
(* returns the stored record or raises idempotency_conflict - either way   *)
(* the state is unchanged, a stuttering step here.                         *)
(*                                                                         *)
(* Time. The code stores lease_expires_at and compares it with a clock     *)
(* reading that every operation takes BEFORE it opens its transaction, so  *)
(* the reading is old by the time the row is changed (and other hosts'     *)
(* clocks may be behind). job[j].left is lease_expires_at minus the        *)
(* present; an operation whose reading is d ticks old sees left + d. Below *)
(* -MaxLag every reading finds the lease lapsed, so left stops there.      *)
(*                                                                         *)
(* Isolation. SQLite transactions are BEGIN IMMEDIATE and exclude each     *)
(* other. On PostgreSQL they run at READ COMMITTED: the guarded UPDATEs    *)
(* and the SELECT ... FOR UPDATE of a publication are atomic per row, the  *)
(* sweep and the claim may SKIP LOCKED rows, and request_cancel reads the  *)
(* row without a lock and later updates it without a condition.            *)
(*                                                                         *)
(* The outbox is a bag. Its rows carry created_at - a clock reading taken  *)
(* before the transaction, the same for a sweep's and the claim's rows -   *)
(* and a random event_id, and are read in that order: which of two rows of *)
(* a job was written first cannot be told from them.                       *)
(***************************************************************************)
EXTENDS Integers, Sequences

CONSTANTS
    Jobs,           \* idempotency keys, hence jobs
    Workers,        \* worker identities
    MaxAttempts,    \* largest max_attempts a caller asks for (the code caps it at 20)
    LeaseSeconds,   \* lease_seconds, in ticks
    MaxLag,         \* oldest clock reading an operation may act on, in ticks
    MaxCancels,     \* bound on the cancellation requests that find a job unsettled
    Backend,        \* "sqlite" or "postgres"
    NULL            \* SQL NULL

ASSUME QueueAssumption ==
    /\ MaxAttempts \in Nat \ {0}
    /\ LeaseSeconds \in Nat \ {0}
    /\ MaxLag \in Nat
    /\ MaxCancels \in Nat
    /\ Backend \in {"sqlite", "postgres"}
    /\ NULL \notin Workers \cup Int
    /\ NULL \notin {"retry_exhausted", "worker_error"}

VARIABLES
    job,         \* the jobs table
    order,       \* the jobs by (created_at, job_id)
    outbox,      \* per job, how many rows of each event type job_outbox holds
    granted,     \* per job, the worker each fence was granted to (history)
    lastEffect,  \* per job, the fence of the last publication (history)
    cancelling   \* PostgreSQL: request_cancel calls between SELECT and UPDATE

queueVars == <<job, order, outbox, granted, lastEffect, cancelling>>

-----------------------------------------------------------------------------
Status == {"absent", "queued", "leased", "completed", "failed", "cancelled"}
Terminal == {"completed", "failed", "cancelled"}
Event == (Status \ {"absent"}) \cup {"cancellation_requested"}
Lags == 0..MaxLag

JobRow == [status : Status, attempts : 0..MaxAttempts, max : 1..MaxAttempts,
           fence : 0..MaxAttempts, worker : Workers \cup {NULL},
           left : ((-MaxLag)..LeaseSeconds) \cup {NULL}, cancel : BOOLEAN,
           result : (1..MaxAttempts) \cup {NULL},
           error : {NULL, "retry_exhausted", "worker_error"}]

\* A row as INSERT writes it; an absent job has none, and Absent stands for it.
NewRow(status, max) ==
    [status |-> status, attempts |-> 0, max |-> max, fence |-> 0,
     worker |-> NULL, left |-> NULL, cancel |-> FALSE,
     result |-> NULL, error |-> NULL]

Absent == NewRow("absent", 1)

QueueInit ==
    /\ job = [j \in Jobs |-> Absent]
    /\ order = << >>
    /\ outbox = [j \in Jobs |-> [e \in Event |-> 0]]
    /\ granted = [j \in Jobs |-> << >>]
    /\ lastEffect = [j \in Jobs |-> 0]
    /\ cancelling = {}

-----------------------------------------------------------------------------
\* lease_expires_at > reading and lease_expires_at <= reading; both are false
\* of a NULL column.
LiveAt(j, d) == job[j].left # NULL /\ job[j].left + d > 0
LapsedAt(j, d) == job[j].left # NULL /\ job[j].left + d <= 0

\* A lease a caller was given: the job row as claim returned it.
Granted(j, f) == f \in 1..Len(granted[j])

\* Mutants of Owns: the fence is not compared; the cancellation is not.
OwnsAnyFence(j, f, d) == job[j].status = "leased" /\ LiveAt(j, d) /\ ~job[j].cancel
OwnsCancelled(j, f, d) == job[j].status = "leased" /\ job[j].fence = f /\ LiveAt(j, d)

\* The WHERE clause of heartbeat, complete and fail.
Owns(j, f, d) ==
    /\ job[j].status = "leased" /\ job[j].fence = f
    /\ LiveAt(j, d)
    /\ ~job[j].cancel

\* assert_active: the same, and the row must still name the lease's worker.
Active(j, f, d) == Owns(j, f, d) /\ Granted(j, f) /\ job[j].worker = granted[j][f]

\* One row more of event type e.
More(n, e) == [n EXCEPT ![e] = @ + 1]

Emit(j, e) == outbox' = [outbox EXCEPT ![j] = More(@, e)]

\* The row as a lease ends: no worker, no expiry.
Released(r, status) == [r EXCEPT !.status = status, !.worker = NULL, !.left = NULL]

-----------------------------------------------------------------------------
\* created_at is the clock reading taken before the transaction and ties are
\* broken by a random job_id, so a new job may sort before older ones.
Enqueue(j, max) ==
    /\ job[j].status = "absent"
    /\ job' = [job EXCEPT ![j] = NewRow("queued", max)]
    /\ \E i \in 0..Len(order) :
          order' = SubSeq(order, 1, i) \o <<j>> \o SubSeq(order, i + 1, Len(order))
    /\ Emit(j, "queued")
    /\ UNCHANGED <<granted, lastEffect, cancelling>>

\* Mutant of LapseStatus: one attempt too many.
LapseStatusOffByOne(r) ==
    IF r.cancel THEN "cancelled"
    ELSE IF r.attempts > r.max THEN "failed" ELSE "queued"

\* _expire_and_cancel: where a lapsed lease leaves its job.
LapseStatus(r) ==
    IF r.cancel THEN "cancelled"
    ELSE IF r.attempts >= r.max THEN "failed" ELSE "queued"

Lapse(r) ==
    [r EXCEPT !.status = LapseStatus(r), !.worker = NULL, !.left = NULL,
              !.error = IF LapseStatus(r) = "failed" THEN "retry_exhausted" ELSE NULL]

\* Mutant of Expired: a job whose cancellation was requested is passed over.
ExpiredWanted(d) == {j \in Jobs : job[j].status = "leased" /\ LapsedAt(j, d) /\ ~job[j].cancel}

Expired(d) == {j \in Jobs : job[j].status = "leased" /\ LapsedAt(j, d)}

\* SKIP LOCKED leaves out the rows other transactions hold.
Sweepable(d) == IF Backend = "sqlite" THEN {Expired(d)} ELSE SUBSET Expired(d)

Swept(S) == [j \in Jobs |-> IF j \in S THEN Lapse(job[j]) ELSE job[j]]

\* Mutant of SweptEvents: the sweep inserts no row.
SweptSilently(S) == outbox

SweptEvents(S) ==
    [j \in Jobs |-> IF j \in S THEN More(outbox[j], LapseStatus(job[j])) ELSE outbox[j]]

Claimable(r) == r.status = "queued" /\ ~r.cancel

LeasedTo(r, w, d) ==
    [r EXCEPT !.status = "leased", !.attempts = @ + 1, !.fence = @ + 1,
              !.worker = w, !.left = LeaseSeconds - d]

Lease(j, w, d, S) ==
    /\ Claimable(Swept(S)[j])
    /\ job' = [Swept(S) EXCEPT ![j] = LeasedTo(@, w, d)]
    /\ outbox' = [SweptEvents(S) EXCEPT ![j] = More(@, "leased")]
    /\ granted' = [granted EXCEPT ![j] = Append(@, w)]
    /\ UNCHANGED <<order, lastEffect, cancelling>>

\* Nothing to lease: the sweep is still committed.
SweepOnly(S) ==
    /\ S # {}
    /\ job' = Swept(S)
    /\ outbox' = SweptEvents(S)
    /\ UNCHANGED <<order, granted, lastEffect, cancelling>>

\* ORDER BY created_at, job_id LIMIT 1.
Oldest(j, ready) ==
    /\ j \in ready
    /\ \A k \in ready : \E a, b \in 1..Len(order) : a <= b /\ order[a] = j /\ order[b] = k

Ready(S) == {j \in Jobs : Claimable(Swept(S)[j])}

\* claim returns the oldest queued job, leased; SKIP LOCKED may pass some over.
ClaimJob(j, w, d) ==
    \E S \in Sweepable(d) :
        /\ Backend = "sqlite" => Oldest(j, Ready(S))
        /\ Lease(j, w, d, S)

\* claim returns None.
ClaimNothing(d) ==
    \E S \in Sweepable(d) : (Backend = "sqlite" => Ready(S) = {}) /\ SweepOnly(S)

Claim(w, d) == ClaimNothing(d) \/ \E j \in Jobs : ClaimJob(j, w, d)

ClaimSpecific(j, w, d) ==
    \E S \in Sweepable(d) :
        \/ Lease(j, w, d, S)
        \/ ~Claimable(Swept(S)[j]) /\ SweepOnly(S)

\* publication(lease): a database effect of the lease's holder, checked by
\* assert_active before and after the writes of one transaction.
Publish(j, f, d) ==
    /\ Active(j, f, d)
    /\ lastEffect' = [lastEffect EXCEPT ![j] = f]
    /\ UNCHANGED <<job, order, outbox, granted, cancelling>>

Heartbeat(j, f, d) ==
    /\ Owns(j, f, d)
    /\ job' = [job EXCEPT ![j].left = LeaseSeconds - d]
    /\ UNCHANGED <<order, outbox, granted, lastEffect, cancelling>>

\* publication(lease, completing=True) around complete(): the result and the
\* handler's last writes commit together, or not at all.
Complete(j, f, d) ==
    /\ Active(j, f, d)
    /\ job' = [job EXCEPT ![j] = [Released(@, "completed") EXCEPT !.result = f]]
    /\ lastEffect' = [lastEffect EXCEPT ![j] = f]
    /\ Emit(j, "completed")
    /\ UNCHANGED <<order, granted, cancelling>>

Fail(j, f, d) ==
    /\ Owns(j, f, d)
    /\ job' = [job EXCEPT ![j] = [Released(@, "failed") EXCEPT !.error = "worker_error"]]
    /\ Emit(j, "failed")
    /\ UNCHANGED <<order, granted, lastEffect, cancelling>>

\* Mutant of Abandon: the status is not compared.
AbandonAnyStatus(j, f, d) ==
    /\ job[j].fence = f
    /\ job' = [job EXCEPT ![j].left = -d]
    /\ UNCHANGED <<order, outbox, granted, lastEffect, cancelling>>

\* abandon looks at neither the expiry nor the cancellation request.
Abandon(j, f, d) ==
    /\ job[j].status = "leased" /\ job[j].fence = f
    /\ job' = [job EXCEPT ![j].left = -d]
    /\ UNCHANGED <<order, outbox, granted, lastEffect, cancelling>>

AcknowledgeCancel(j, f) ==
    /\ job[j].status = "leased" /\ job[j].fence = f /\ job[j].cancel
    /\ job' = [job EXCEPT ![j] = Released(@, "cancelled")]
    /\ Emit(j, "cancelled")
    /\ UNCHANGED <<order, granted, lastEffect, cancelling>>

\* The UPDATE of request_cancel, given the status its SELECT returned.
CancelUpdate(j, seen) ==
    /\ outbox[j]["cancellation_requested"] + outbox[j]["cancelled"] < MaxCancels
    /\ job' = [job EXCEPT ![j] =
                 IF seen = "queued"
                 THEN [Released(@, "cancelled") EXCEPT !.cancel = TRUE]
                 ELSE [@ EXCEPT !.cancel = TRUE, !.status = seen]]
    /\ Emit(j, IF seen = "queued" THEN "cancelled" ELSE "cancellation_requested")
    /\ UNCHANGED <<order, granted, lastEffect>>

\* request_cancel as one step: always on SQLite, where the transaction excludes
\* every other, and on PostgreSQL when nothing comes between its statements.
RequestCancel(j) ==
    /\ job[j].status \in {"queued", "leased"}
    /\ CancelUpdate(j, job[j].status)
    /\ UNCHANGED cancelling

\* On PostgreSQL other transactions may commit between the two statements.
CancelRead(j) ==
    /\ Backend = "postgres"
    /\ job[j].status \in {"queued", "leased"}
    /\ cancelling' = cancelling \cup {<<j, job[j].status>>}
    /\ UNCHANGED <<job, order, outbox, granted, lastEffect>>

CancelWrite(j, seen) ==
    /\ <<j, seen>> \in cancelling
    /\ CancelUpdate(j, seen)
    /\ cancelling' = cancelling \ {<<j, seen>>}

\* A tick of the clock.
Tick ==
    /\ \E j \in Jobs : job[j].left # NULL /\ job[j].left > -MaxLag
    /\ job' = [j \in Jobs |->
                 IF job[j].left # NULL /\ job[j].left > -MaxLag
                 THEN [job[j] EXCEPT !.left = @ - 1] ELSE job[j]]
    /\ UNCHANGED <<order, outbox, granted, lastEffect, cancelling>>

-----------------------------------------------------------------------------
\* Any holder of a lease it was ever granted may call with it, at any time: a
\* worker that stalls, or a process that resumes, does not know it is stale.
QueueNext ==
    \/ \E j \in Jobs, max \in 1..MaxAttempts : Enqueue(j, max)
    \/ \E w \in Workers, d \in Lags : Claim(w, d)
    \/ \E j \in Jobs, w \in Workers, d \in Lags : ClaimSpecific(j, w, d)
    \/ \E j \in Jobs : \E f \in 1..Len(granted[j]), d \in Lags :
          \/ Publish(j, f, d)
          \/ Heartbeat(j, f, d)
          \/ Complete(j, f, d)
          \/ Fail(j, f, d)
          \/ Abandon(j, f, d)
    \/ \E j \in Jobs : \E f \in 1..Len(granted[j]) : AcknowledgeCancel(j, f)
    \/ \E j \in Jobs : RequestCancel(j)
    \/ \E j \in Jobs : CancelRead(j)
    \/ \E j \in Jobs, seen \in {"queued", "leased"} : CancelWrite(j, seen)
    \/ Tick

QueueSpec == QueueInit /\ [][QueueNext]_queueVars

-----------------------------------------------------------------------------
(***************************************************************************)
(* Properties                                                              *)
(***************************************************************************)

\* The rows, the outbox and the histories have their types, whatever order
\* the operations of jobs.py are called in.
QueueTypeOK ==
    /\ job \in [Jobs -> JobRow]
    /\ order \in Seq(Jobs)
    /\ outbox \in [Jobs -> [Event -> Nat]]
    /\ granted \in [Jobs -> Seq(Workers)]
    /\ lastEffect \in [Jobs -> 0..MaxAttempts]
    /\ cancelling \in SUBSET (Jobs \X {"queued", "leased"})

\* A row's lease columns are set exactly while it is leased, and name the
\* worker the current fence was granted to.
LeaseColumns(j) ==
    /\ (job[j].status = "leased") <=> (job[j].worker # NULL)
    /\ (job[j].status = "leased") <=> (job[j].left # NULL)
    /\ job[j].status = "leased" => job[j].fence > 0 /\ job[j].worker = granted[j][job[j].fence]

\* Every start took a fresh fence and one of the job's max_attempts.
AttemptsCounted(j) ==
    /\ job[j].attempts = job[j].fence
    /\ job[j].fence = Len(granted[j])
    /\ job[j].attempts <= job[j].max
    /\ job[j].status = "queued" => job[j].attempts < job[j].max
    /\ job[j].status = "absent" => job[j].attempts = 0
    /\ lastEffect[j] <= job[j].fence

\* The outcome columns agree with the status: a result exactly for a completed
\* job and from its last lease, an error exactly for a failed one, and a job
\* somebody asked to cancel is still leased or is cancelled.
OutcomeColumns(j) ==
    /\ (job[j].status = "completed") <=> (job[j].result # NULL)
    /\ job[j].status = "completed" => job[j].result = job[j].fence /\ lastEffect[j] = job[j].fence
    /\ (job[j].status = "failed") <=> (job[j].error # NULL)
    /\ job[j].cancel => job[j].status \in {"leased", "cancelled"}
    /\ job[j].status = "cancelled" => job[j].cancel
    /\ job[j].status = "absent" => job[j] = Absent /\ granted[j] = << >> /\ lastEffect[j] = 0

\* jobs.py keeps each row consistent with the leases it handed out and with
\* the outcomes it recorded, on SQLite. This is the inductive invariant.
RowsConsistent ==
    \A j \in Jobs : LeaseColumns(j) /\ AttemptsCounted(j) /\ OutcomeColumns(j)

\* What the rows n of a job say about its row r: settled exactly if there is a
\* row of that outcome, and then one; leased as often as it was granted, and
\* queued once more than that while it waits; and asked to be cancelled exactly
\* if there is a request.
Tells(n, r) ==
    /\ \A t \in Terminal : n[t] = IF r.status = t THEN 1 ELSE 0
    /\ n["leased"] = r.fence
    /\ r.status = "absent" => n["queued"] = 0
    /\ r.status = "queued" => n["queued"] = n["leased"] + 1
    /\ r.status = "leased" => n["queued"] = n["leased"]
    /\ r.status \notin Terminal => (r.cancel <=> n["cancellation_requested"] > 0)

\* The outbox rows of a job tell its status in whatever order they are read
\* (jobs.py, _outbox is called in the transaction of every status change): a
\* consumer that has counted them knows whether the job is queued, leased,
\* being cancelled or settled, and how often it was started.
OutboxTellsStatus == \A j \in Jobs : Tells(outbox[j], job[j])

\* A settled job stays as it is: no late complete, fail, sweep or cancel
\* changes its row ("The job row lock serializes cancellation/reclaim against
\* publication", jobs.py, publication).
KeepsTerminal == \A j \in Jobs : job[j].status \in Terminal => job'[j] = job[j]
TerminalIsFinal == [][KeepsTerminal]_queueVars

\* No zombie writes: once a lease has published, no earlier lease of the job
\* publishes again, and nothing is published once the job is settled or its
\* cancellation was requested (publication and assert_active fence it).
PublishesFenced ==
    \A j \in Jobs : lastEffect'[j] # lastEffect[j] =>
        /\ lastEffect'[j] > lastEffect[j]
        /\ lastEffect'[j] = Len(granted[j])
        /\ job[j].status \notin Terminal
        /\ ~job[j].cancel
EffectsFenced == [][PublishesFenced]_queueVars

\* A recorded result is never replaced or withdrawn, and it is recorded by the
\* last lease granted, on either backend (jobs.py, complete).
ResultWrittenOnce ==
    [][\A j \in Jobs : job'[j].result # job[j].result =>
          job[j].result = NULL /\ job'[j].result = Len(granted[j])]_queueVars

\* The abstract promise: submitted once, at most MaxAttempts starts, written
\* by the newest start only, settled once, and cancelled if cancellation came
\* first.
LifeOf(j) ==
    [phase |-> IF job[j].status \in {"queued", "leased"} THEN "open" ELSE job[j].status,
     epoch |-> job[j].fence, wrote |-> lastEffect[j], wanted |-> job[j].cancel]

Lifecycle == INSTANCE JobLifecycle WITH life <- [j \in Jobs |-> LifeOf(j)]

\* On SQLite the queue implements that promise (jobs.py, JobQueue).
ImplementsLifecycle == Lifecycle!Spec
=============================================================================
