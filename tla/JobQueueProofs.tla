--------------------------- MODULE JobQueueProofs ---------------------------
(***************************************************************************)
(* Theorems about the job queue, for any jobs, workers, attempt limits,    *)
(* lease lengths and clock lags. The first group holds on both backends;   *)
(* the second needs SQLite, where a transaction excludes every other. The  *)
(* last group is about the worker processes that use the queue.            *)
(***************************************************************************)
EXTENDS JobWorker, TLAPS

\* What both backends keep: the types, and the counting of leases. Types alone
\* are not inductive: a claim stays within max_attempts only because a queued
\* job has attempts left.
Counted == QueueTypeOK /\ \A j \in Jobs : AttemptsCounted(j)

USE QueueAssumption

-----------------------------------------------------------------------------
\* A swept row has the type of a row and keeps what a sweep does not write.
LEMMA LapseRow ==
    ASSUME NEW r \in JobRow
    PROVE  /\ Lapse(r) \in JobRow
           /\ LapseStatus(r) \in {"cancelled", "failed", "queued"}
           /\ Lapse(r).status = LapseStatus(r)
           /\ Lapse(r).attempts = r.attempts /\ Lapse(r).max = r.max
           /\ Lapse(r).fence = r.fence /\ Lapse(r).cancel = r.cancel
           /\ Lapse(r).result = r.result
           /\ Lapse(r).worker = NULL /\ Lapse(r).left = NULL
           /\ Lapse(r).error = IF LapseStatus(r) = "failed" THEN "retry_exhausted" ELSE NULL
           /\ LapseStatus(r) = "queued" => r.attempts < r.max
           /\ r.cancel <=> LapseStatus(r) = "cancelled"
<1>1. /\ LapseStatus(r) \in {"cancelled", "failed", "queued"}
      /\ LapseStatus(r) = "queued" => r.attempts < r.max
      /\ r.cancel <=> LapseStatus(r) = "cancelled"
  BY DEF JobRow, LapseStatus
<1>2. Lapse(r) \in JobRow
  BY <1>1 DEF JobRow, Lapse, Status
<1> QED
  BY <1>1, <1>2 DEF JobRow, Lapse

\* A leased row is a row, one attempt and one fence further.
LEMMA LeasedRow ==
    ASSUME NEW r \in JobRow, NEW w \in Workers, NEW d \in Lags,
           r.attempts < r.max, r.attempts = r.fence
    PROVE  /\ LeasedTo(r, w, d) \in JobRow
           /\ LeasedTo(r, w, d).status = "leased"
           /\ LeasedTo(r, w, d).attempts = r.attempts + 1
           /\ LeasedTo(r, w, d).fence = r.fence + 1
           /\ LeasedTo(r, w, d).max = r.max /\ LeasedTo(r, w, d).cancel = r.cancel
           /\ LeasedTo(r, w, d).result = r.result /\ LeasedTo(r, w, d).error = r.error
           /\ LeasedTo(r, w, d).worker = w
           /\ LeasedTo(r, w, d).left = LeaseSeconds - d
<1>1. /\ r.attempts + 1 \in 0..MaxAttempts /\ r.fence + 1 \in 0..MaxAttempts
      /\ LeaseSeconds - d \in (-MaxLag)..LeaseSeconds
  BY DEF JobRow, Lags
<1>2. LeasedTo(r, w, d) \in JobRow
  BY <1>1 DEF JobRow, LeasedTo, Status
<1> QED BY <1>2 DEF JobRow, LeasedTo

\* One row more of an event is one row more of that event and of no other.
LEMMA MoreRows ==
    ASSUME NEW n \in [Event -> Nat], NEW e \in Event
    PROVE  /\ More(n, e) \in [Event -> Nat]
           /\ \A x \in Event : More(n, e)[x] = IF x = e THEN n[x] + 1 ELSE n[x]
  BY DEF More

\* A sweep tells the new status of each row it changes.
LEMMA SweptEventsType ==
    ASSUME QueueTypeOK, NEW S \in SUBSET Jobs
    PROVE  SweptEvents(S) \in [Jobs -> [Event -> Nat]]
<1>1. ASSUME NEW k \in Jobs PROVE LapseStatus(job[k]) \in Event
  BY LapseRow DEF QueueTypeOK, Event, Status
<1>2. ASSUME NEW k \in Jobs PROVE More(outbox[k], LapseStatus(job[k])) \in [Event -> Nat]
  BY <1>1, MoreRows DEF QueueTypeOK
<1> QED BY <1>2 DEF QueueTypeOK, SweptEvents

\* A sweep keeps every row a row, with its counters.
LEMMA SweptRow ==
    ASSUME Counted, NEW S \in SUBSET Jobs, NEW k \in Jobs
    PROVE  /\ Swept(S)[k] \in JobRow
           /\ Swept(S)[k].attempts = job[k].attempts
           /\ Swept(S)[k].max = job[k].max
           /\ Swept(S)[k].fence = job[k].fence
           /\ Swept(S)[k].status = "queued" => job[k].attempts < job[k].max
           /\ Swept(S)[k].status = "absent" => job[k].attempts = 0
<1>1. job[k] \in JobRow /\ AttemptsCounted(k)
  BY DEF Counted, QueueTypeOK
<1>2. CASE k \in S
  BY <1>1, <1>2, LapseRow DEF Swept, AttemptsCounted
<1>3. CASE k \notin S
  BY <1>1, <1>3 DEF Swept, AttemptsCounted
<1> QED BY <1>2, <1>3

\* The initial tables satisfy the counting invariant.
LEMMA CountedInit == QueueInit => Counted
  BY DEF QueueInit, Counted, QueueTypeOK, AttemptsCounted, Absent, NewRow, JobRow, Status

\* A claim that leases job j after sweeping the rows S counts the new lease.
LEMMA CountedLease ==
    ASSUME Counted, NEW j \in Jobs, NEW w \in Workers, NEW d \in Lags,
           NEW S \in SUBSET Jobs, Lease(j, w, d, S)
    PROVE  Counted'
<1> USE DEF Counted
<1>0. \A k \in Jobs : Swept(S)[k] \in JobRow
  BY SweptRow
<1>1. \A k \in Jobs : /\ Swept(S)[k].attempts = job[k].attempts
                      /\ Swept(S)[k].max = job[k].max
                      /\ Swept(S)[k].fence = job[k].fence
                      /\ Swept(S)[k].status = "queued" => job[k].attempts < job[k].max
                      /\ Swept(S)[k].status = "absent" => job[k].attempts = 0
  BY SweptRow
<1>2. /\ Swept(S)[j].attempts < Swept(S)[j].max
      /\ Swept(S)[j].attempts = Swept(S)[j].fence
  BY <1>1 DEF Lease, Claimable, AttemptsCounted
<1>3. LeasedTo(Swept(S)[j], w, d) \in JobRow
  BY <1>0, <1>2, LeasedRow
<1>4. job' \in [Jobs -> JobRow]
  BY <1>0, <1>3 DEF Lease, Swept
<1>5. outbox' \in [Jobs -> [Event -> Nat]]
  <2>1. "leased" \in Event
    BY DEF Event, Status
  <2> QED BY <2>1, SweptEventsType, MoreRows DEF Lease
<1>6. granted' \in [Jobs -> Seq(Workers)]
  BY DEF QueueTypeOK, Lease
<1>7. QueueTypeOK'
  BY <1>4, <1>5, <1>6 DEF QueueTypeOK, Lease
<1>8. ASSUME NEW k \in Jobs PROVE AttemptsCounted(k)'
  <2>1. CASE k = j
    <3>1. job'[k] = LeasedTo(Swept(S)[j], w, d)
      BY <2>1 DEF Lease, Swept
    <3>2. /\ job'[k].status = "leased" /\ job'[k].max = job[k].max
          /\ job'[k].attempts = job[k].attempts + 1
          /\ job'[k].fence = job[k].fence + 1
      BY <3>1, <2>1, <1>0, <1>1, <1>2, LeasedRow
    <3>3. Len(granted'[k]) = Len(granted[k]) + 1
      BY <2>1 DEF Lease, QueueTypeOK
    <3>4. lastEffect'[k] = lastEffect[k] /\ lastEffect[k] \in Nat /\ job[k].fence \in Nat
      BY DEF Lease, QueueTypeOK, JobRow
    <3>5. /\ job[k].attempts = job[k].fence /\ job[k].fence = Len(granted[k])
          /\ job[k].attempts < job[k].max /\ lastEffect[k] <= job[k].fence
          /\ job[k].max \in Nat
      BY <1>1, <1>2, <2>1 DEF AttemptsCounted, QueueTypeOK, JobRow
    <3> QED BY <3>2, <3>3, <3>4, <3>5 DEF AttemptsCounted
  <2>2. CASE k # j
    <3>1. job'[k] = Swept(S)[k] /\ granted'[k] = granted[k] /\ lastEffect' = lastEffect
      BY <2>2 DEF Lease, Swept, QueueTypeOK
    <3>2. AttemptsCounted(k)
      OBVIOUS
    <3> QED BY <3>1, <3>2, <1>1 DEF AttemptsCounted
  <2> QED BY <2>1, <2>2
<1> QED BY <1>7, <1>8

\* A claim that only sweeps keeps the counts.
LEMMA CountedSweep ==
    ASSUME Counted, NEW S \in SUBSET Jobs, SweepOnly(S)
    PROVE  Counted'
<1> USE DEF Counted
<1>1. job' \in [Jobs -> JobRow]
  BY LapseRow DEF QueueTypeOK, SweepOnly, Swept
<1>2. outbox' \in [Jobs -> [Event -> Nat]]
  BY SweptEventsType DEF SweepOnly
<1>3. ASSUME NEW k \in Jobs PROVE AttemptsCounted(k)'
  <2>1. job'[k] = Swept(S)[k] /\ granted' = granted /\ lastEffect' = lastEffect
    BY DEF SweepOnly
  <2>2. AttemptsCounted(k)
    OBVIOUS
  <2> QED BY <2>1, <2>2, SweptRow DEF AttemptsCounted
<1> QED BY <1>1, <1>2, <1>3 DEF QueueTypeOK, SweepOnly

\* A row more keeps the outbox typed.
LEMMA EmitType ==
    ASSUME outbox \in [Jobs -> [Event -> Nat]], NEW j \in Jobs, NEW e \in Event, Emit(j, e)
    PROVE  outbox' \in [Jobs -> [Event -> Nat]]
  BY MoreRows DEF Emit

\* A single-row operation keeps the counts if the row keeps its counters and
\* is neither put back in the queue nor removed, and if a publication carries
\* the row's fence.
LEMMA CountedUpdate ==
    ASSUME Counted, NEW j \in Jobs, NEW r \in JobRow,
           r.attempts = job[j].attempts, r.fence = job[j].fence, r.max = job[j].max,
           r.status = "queued" => job[j].status = "queued",
           r.status # "absent",
           job' = [job EXCEPT ![j] = r],
           UNCHANGED <<order, granted>>,
           outbox' = outbox \/ \E e \in Event : Emit(j, e),
           \/ lastEffect' = lastEffect
           \/ lastEffect' = [lastEffect EXCEPT ![j] = job[j].fence],
           cancelling' \in SUBSET (Jobs \X {"queued", "leased"})
    PROVE  Counted'
<1>1. job \in [Jobs -> JobRow] /\ job' \in [Jobs -> JobRow]
  BY DEF Counted, QueueTypeOK
<1>2. outbox' \in [Jobs -> [Event -> Nat]]
  BY EmitType DEF Counted, QueueTypeOK
<1>3. job[j].fence \in 0..MaxAttempts
  BY <1>1 DEF JobRow
<1>4. lastEffect' \in [Jobs -> 0..MaxAttempts]
  BY <1>3 DEF Counted, QueueTypeOK
<1>5. ASSUME NEW k \in Jobs PROVE AttemptsCounted(k)'
  <2>1. AttemptsCounted(k) /\ lastEffect \in [Jobs -> 0..MaxAttempts]
    BY DEF Counted, QueueTypeOK
  <2>2. CASE k = j
    <3>1. job'[k] = r /\ granted'[k] = granted[k]
      BY <1>1, <2>2
    <3>2. lastEffect'[k] <= job[k].fence
      BY <1>3, <2>1, <2>2 DEF AttemptsCounted
    <3> QED BY <2>1, <2>2, <3>1, <3>2 DEF AttemptsCounted
  <2>3. CASE k # j
    BY <1>1, <2>1, <2>3 DEF AttemptsCounted
  <2> QED BY <2>2, <2>3
<1> QED BY <1>1, <1>2, <1>4, <1>5 DEF Counted, QueueTypeOK

\* A new job has no attempts yet and may use at least one.
LEMMA CountedEnqueue ==
    ASSUME Counted, NEW j \in Jobs, NEW max \in 1..MaxAttempts, Enqueue(j, max)
    PROVE  Counted'
<1> DEFINE r == NewRow("queued", max)
<1>1. /\ r \in JobRow /\ r.attempts = 0 /\ r.fence = 0
      /\ r.max = max /\ r.status = "queued"
  BY DEF NewRow, JobRow, Status
<1> HIDE DEF r
<1>2. job' = [job EXCEPT ![j] = r] /\ job \in [Jobs -> JobRow]
  BY DEF Enqueue, r, Counted, QueueTypeOK
<1>3. order' \in Seq(Jobs)
  <2>1. PICK i \in 0..Len(order) :
          order' = SubSeq(order, 1, i) \o <<j>> \o SubSeq(order, i + 1, Len(order))
    BY DEF Enqueue
  <2>2. SubSeq(order, 1, i) \in Seq(Jobs) /\ SubSeq(order, i + 1, Len(order)) \in Seq(Jobs)
    BY DEF Counted, QueueTypeOK
  <2> QED BY <2>1, <2>2
<1>4. outbox' \in [Jobs -> [Event -> Nat]]
  BY EmitType DEF Enqueue, Event, Status, Counted, QueueTypeOK
<1>5. QueueTypeOK'
  BY <1>1, <1>2, <1>3, <1>4 DEF Counted, QueueTypeOK, Enqueue
<1>6. ASSUME NEW k \in Jobs PROVE AttemptsCounted(k)'
  <2>1. /\ AttemptsCounted(k) /\ granted' = granted /\ lastEffect' = lastEffect
        /\ lastEffect[k] \in Nat
    BY DEF Counted, QueueTypeOK, Enqueue
  <2>2. CASE k = j
    <3>1. job[k].fence = 0 /\ Len(granted[k]) = 0 /\ lastEffect[k] = 0
      BY <2>1, <2>2 DEF Enqueue, AttemptsCounted
    <3> QED BY <1>1, <1>2, <2>1, <2>2, <3>1 DEF AttemptsCounted
  <2>3. CASE k # j
    BY <1>2, <2>1, <2>3 DEF AttemptsCounted
  <2> QED BY <2>2, <2>3
<1> QED BY <1>5, <1>6 DEF Counted

\* The rows the single-row operations write are rows with the same counters.
LEMMA WrittenRow ==
    ASSUME NEW r \in JobRow, NEW d \in Lags
    PROVE  /\ \A s \in Terminal :
                 /\ Released(r, s) \in JobRow
                 /\ [Released(r, s) EXCEPT !.cancel = TRUE] \in JobRow
                 /\ [Released(r, s) EXCEPT !.error = "worker_error"] \in JobRow
                 /\ \A f \in 1..MaxAttempts : [Released(r, s) EXCEPT !.result = f] \in JobRow
           /\ [r EXCEPT !.left = LeaseSeconds - d] \in JobRow
           /\ [r EXCEPT !.left = -d] \in JobRow
           /\ \A s \in Status : [r EXCEPT !.cancel = TRUE, !.status = s] \in JobRow
<1>1. /\ LeaseSeconds - d \in (-MaxLag)..LeaseSeconds
      /\ -d \in (-MaxLag)..LeaseSeconds
  BY DEF Lags
<1>2. \A s \in Terminal : Released(r, s) \in JobRow
  BY DEF Terminal, Status, JobRow, Released
<1>3. \A s \in Terminal : [Released(r, s) EXCEPT !.cancel = TRUE] \in JobRow
  BY <1>2 DEF JobRow
<1>4. \A s \in Terminal : [Released(r, s) EXCEPT !.error = "worker_error"] \in JobRow
  BY <1>2 DEF JobRow
<1>5. \A s \in Terminal, f \in 1..MaxAttempts : [Released(r, s) EXCEPT !.result = f] \in JobRow
  BY <1>2 DEF JobRow
<1>6. [r EXCEPT !.left = LeaseSeconds - d] \in JobRow
  BY <1>1 DEF JobRow
<1>7. [r EXCEPT !.left = -d] \in JobRow
  BY <1>1 DEF JobRow
<1>8. \A s \in Status : [r EXCEPT !.cancel = TRUE, !.status = s] \in JobRow
  BY DEF JobRow
<1> QED BY <1>2, <1>3, <1>4, <1>5, <1>6, <1>7, <1>8

\* What the holder of a lease may do with it keeps the counts.
LEMMA CountedHolder ==
    ASSUME Counted, NEW j \in Jobs, NEW f \in 1..Len(granted[j]), NEW d \in Lags,
           \/ Publish(j, f, d) \/ Heartbeat(j, f, d) \/ Complete(j, f, d)
           \/ Fail(j, f, d) \/ Abandon(j, f, d) \/ AcknowledgeCancel(j, f)
    PROVE  Counted'
<1>0. /\ job \in [Jobs -> JobRow] /\ job[j] \in JobRow
      /\ f \in 1..MaxAttempts
      /\ cancelling \in SUBSET (Jobs \X {"queued", "leased"})
  BY DEF Counted, QueueTypeOK, AttemptsCounted, JobRow
<1>e. "completed" \in Event /\ "failed" \in Event /\ "cancelled" \in Event
  BY DEF Event, Status
<1>t. "completed" \in Terminal /\ "failed" \in Terminal /\ "cancelled" \in Terminal
  BY DEF Terminal
<1>1. CASE Publish(j, f, d)
  <2>1. f = job[j].fence /\ lastEffect' = [lastEffect EXCEPT ![j] = job[j].fence]
    BY <1>1 DEF Publish, Active, Owns
  <2>2. job' = [job EXCEPT ![j] = job[j]] /\ job[j].status = "leased"
    BY <1>0, <1>1 DEF Publish, Active, Owns
  <2> QED BY <1>0, <1>1, <2>1, <2>2, CountedUpdate DEF Publish
<1>2. CASE Heartbeat(j, f, d)
  <2> DEFINE r == [job[j] EXCEPT !.left = LeaseSeconds - d]
  <2>1. r \in JobRow
    BY <1>0, <1>t, WrittenRow
  <2>2. /\ r.attempts = job[j].attempts /\ r.fence = job[j].fence
        /\ r.max = job[j].max /\ r.status = job[j].status /\ job[j].status = "leased"
        /\ job' = [job EXCEPT ![j] = r]
    BY <1>0, <1>2 DEF JobRow, Released, Heartbeat, Owns
  <2> HIDE DEF r
  <2> QED BY <1>0, <1>2, <2>1, <2>2, CountedUpdate DEF Heartbeat
<1>3. CASE Complete(j, f, d)
  <2> DEFINE r == [Released(job[j], "completed") EXCEPT !.result = f]
  <2>1. r \in JobRow
    BY <1>0, <1>t, WrittenRow
  <2>2. /\ r.attempts = job[j].attempts /\ r.fence = job[j].fence
        /\ r.max = job[j].max /\ r.status = "completed"
        /\ job' = [job EXCEPT ![j] = r]
    BY <1>0, <1>3 DEF JobRow, Released, Complete
  <2>3. \E e \in Event : Emit(j, e)
    BY <1>e, <1>3 DEF Complete
  <2>4. lastEffect' = [lastEffect EXCEPT ![j] = job[j].fence]
    BY <1>3 DEF Complete, Active, Owns
  <2> HIDE DEF r
  <2> QED BY <1>0, <1>3, <2>1, <2>2, <2>3, <2>4, CountedUpdate DEF Complete
<1>4. CASE Fail(j, f, d)
  <2> DEFINE r == [Released(job[j], "failed") EXCEPT !.error = "worker_error"]
  <2>1. r \in JobRow
    BY <1>0, <1>t, WrittenRow
  <2>2. /\ r.attempts = job[j].attempts /\ r.fence = job[j].fence
        /\ r.max = job[j].max /\ r.status = "failed"
        /\ job' = [job EXCEPT ![j] = r]
    BY <1>0, <1>4 DEF JobRow, Released, Fail
  <2>3. \E e \in Event : Emit(j, e)
    BY <1>e, <1>4 DEF Fail
  <2> HIDE DEF r
  <2> QED BY <1>0, <1>4, <2>1, <2>2, <2>3, CountedUpdate DEF Fail
<1>5. CASE Abandon(j, f, d)
  <2> DEFINE r == [job[j] EXCEPT !.left = -d]
  <2>1. r \in JobRow
    BY <1>0, <1>t, WrittenRow
  <2>2. /\ r.attempts = job[j].attempts /\ r.fence = job[j].fence
        /\ r.max = job[j].max /\ r.status = job[j].status /\ job[j].status = "leased"
        /\ job' = [job EXCEPT ![j] = r]
    BY <1>0, <1>5 DEF JobRow, Released, Abandon
  <2> HIDE DEF r
  <2> QED BY <1>0, <1>5, <2>1, <2>2, CountedUpdate DEF Abandon
<1>6. CASE AcknowledgeCancel(j, f)
  <2> DEFINE r == Released(job[j], "cancelled")
  <2>1. r \in JobRow
    BY <1>0, <1>t, WrittenRow
  <2>2. /\ r.attempts = job[j].attempts /\ r.fence = job[j].fence
        /\ r.max = job[j].max /\ r.status = "cancelled"
        /\ job' = [job EXCEPT ![j] = r]
    BY <1>0, <1>6 DEF JobRow, Released, AcknowledgeCancel
  <2>3. \E e \in Event : Emit(j, e)
    BY <1>e, <1>6 DEF AcknowledgeCancel
  <2> HIDE DEF r
  <2> QED BY <1>0, <1>6, <2>1, <2>2, <2>3, CountedUpdate DEF AcknowledgeCancel
<1> QED BY <1>1, <1>2, <1>3, <1>4, <1>5, <1>6

\* A cancellation request writes a flag, and on PostgreSQL also the status its
\* SELECT returned: the counters stay, and nothing goes back to the queue.
LEMMA CountedCancel ==
    ASSUME Counted, NEW j \in Jobs, NEW seen \in {"queued", "leased"},
           CancelUpdate(j, seen),
           cancelling' \in SUBSET (Jobs \X {"queued", "leased"})
    PROVE  Counted'
<1>1. job \in [Jobs -> JobRow] /\ job[j] \in JobRow /\ 0 \in Lags
  BY DEF Counted, QueueTypeOK, Lags
<1>2. \E e \in Event : Emit(j, e)
  BY DEF CancelUpdate, Event, Status
<1>3. CASE seen = "queued"
  <2> DEFINE r == [Released(job[j], "cancelled") EXCEPT !.cancel = TRUE]
  <2>1. r \in JobRow
    BY <1>1, WrittenRow DEF Terminal
  <2>2. /\ r.attempts = job[j].attempts /\ r.fence = job[j].fence
        /\ r.max = job[j].max /\ r.status = "cancelled"
        /\ job' = [job EXCEPT ![j] = r]
    BY <1>1, <1>3 DEF JobRow, Released, CancelUpdate
  <2> HIDE DEF r
  <2> QED BY <1>2, <2>1, <2>2, CountedUpdate DEF CancelUpdate
<1>4. CASE seen = "leased"
  <2> DEFINE r == [job[j] EXCEPT !.cancel = TRUE, !.status = "leased"]
  <2>1. r \in JobRow
    BY <1>1, WrittenRow DEF Status
  <2>2. /\ r.attempts = job[j].attempts /\ r.fence = job[j].fence
        /\ r.max = job[j].max /\ r.status = "leased"
        /\ job' = [job EXCEPT ![j] = r]
    BY <1>1, <1>4 DEF JobRow, CancelUpdate
  <2> HIDE DEF r
  <2> QED BY <1>2, <2>1, <2>2, CountedUpdate DEF CancelUpdate
<1> QED BY <1>3, <1>4

\* The clock only shortens leases.
LEMMA CountedTick == Counted /\ Tick => Counted'
<1> SUFFICES ASSUME Counted, Tick PROVE Counted'
  OBVIOUS
<1>1. ASSUME NEW k \in Jobs
      PROVE  /\ job'[k] \in JobRow /\ job'[k].status = job[k].status
             /\ job'[k].attempts = job[k].attempts /\ job'[k].max = job[k].max
             /\ job'[k].fence = job[k].fence
  <2>1. job[k] \in JobRow
    BY DEF Counted, QueueTypeOK
  <2>2. CASE job[k].left # NULL /\ job[k].left > -MaxLag
    <3>1. job[k].left - 1 \in (-MaxLag)..LeaseSeconds
      BY <2>1, <2>2 DEF JobRow
    <3>2. [job[k] EXCEPT !.left = job[k].left - 1] \in JobRow
      BY <2>1, <3>1 DEF JobRow
    <3>3. job'[k] = [job[k] EXCEPT !.left = job[k].left - 1]
      BY <2>2 DEF Tick
    <3> QED BY <2>1, <3>2, <3>3 DEF JobRow
  <2>3. CASE ~(job[k].left # NULL /\ job[k].left > -MaxLag)
    BY <2>1, <2>3 DEF Tick
  <2> QED BY <2>2, <2>3
<1>2. job' \in [Jobs -> JobRow]
  <2>1. job' = [k \in Jobs |-> job'[k]]
    BY DEF Tick
  <2> QED BY <1>1, <2>1
<1>3. ASSUME NEW k \in Jobs PROVE AttemptsCounted(k)'
  <2>1. AttemptsCounted(k)
    BY DEF Counted
  <2> QED BY <1>1, <2>1 DEF AttemptsCounted, Tick
<1> QED BY <1>2, <1>3 DEF Counted, QueueTypeOK, Tick

\* Every step of the queue keeps the types and the counts.
LEMMA CountedStep == Counted /\ [QueueNext]_queueVars => Counted'
<1> SUFFICES ASSUME Counted, [QueueNext]_queueVars PROVE Counted'
  OBVIOUS
<1>1. ASSUME NEW j \in Jobs, NEW max \in 1..MaxAttempts, Enqueue(j, max) PROVE Counted'
  BY <1>1, CountedEnqueue
<1>2. \A d \in Lags : Sweepable(d) \subseteq SUBSET Jobs
  BY DEF Sweepable, Expired
<1>3. ASSUME NEW w \in Workers, NEW d \in Lags, Claim(w, d) PROVE Counted'
  BY <1>2, <1>3, CountedLease, CountedSweep DEF Claim, ClaimJob, ClaimNothing
<1>4. ASSUME NEW j \in Jobs, NEW w \in Workers, NEW d \in Lags, ClaimSpecific(j, w, d)
      PROVE  Counted'
  BY <1>2, <1>4, CountedLease, CountedSweep DEF ClaimSpecific
<1>5. ASSUME NEW j \in Jobs, NEW f \in 1..Len(granted[j]), NEW d \in Lags,
             \/ Publish(j, f, d) \/ Heartbeat(j, f, d) \/ Complete(j, f, d)
             \/ Fail(j, f, d) \/ Abandon(j, f, d)
      PROVE  Counted'
  BY <1>5, CountedHolder
<1>6. ASSUME NEW j \in Jobs, NEW f \in 1..Len(granted[j]), AcknowledgeCancel(j, f)
      PROVE  Counted'
  <2>1. 0 \in Lags
    BY DEF Lags
  <2> QED BY <1>6, <2>1, CountedHolder
<1>7. ASSUME NEW j \in Jobs, RequestCancel(j) PROVE Counted'
  BY <1>7, CountedCancel DEF RequestCancel, Counted, QueueTypeOK
<1>8. ASSUME NEW j \in Jobs, CancelRead(j) PROVE Counted'
  <2>1. cancelling' \in SUBSET (Jobs \X {"queued", "leased"})
    BY <1>8 DEF CancelRead, Counted, QueueTypeOK
  <2> QED BY <1>8, <2>1 DEF CancelRead, Counted, QueueTypeOK, AttemptsCounted
<1>9. ASSUME NEW j \in Jobs, NEW seen \in {"queued", "leased"}, CancelWrite(j, seen)
      PROVE  Counted'
  <2>1. cancelling' \in SUBSET (Jobs \X {"queued", "leased"})
    BY <1>9 DEF CancelWrite, Counted, QueueTypeOK
  <2> QED BY <1>9, <2>1, CountedCancel DEF CancelWrite
<1>10. CASE UNCHANGED queueVars
  BY <1>10 DEF queueVars, Counted, QueueTypeOK, AttemptsCounted
<1> QED
  BY <1>1, <1>3, <1>4, <1>5, <1>6, <1>7, <1>8, <1>9, <1>10, CountedTick DEF QueueNext

\* However calls of jobs.py interleave, a job's attempts, its fence and the
\* number of leases granted agree, and never exceed its max_attempts.
THEOREM CountedAlways == QueueSpec => []Counted
  BY CountedInit, CountedStep, PTL DEF QueueSpec

\* The type invariant, on either backend: no operation of jobs.py takes a row
\* out of its type, and no job is started more than MaxAttempts times.
THEOREM QueueTypes == QueueSpec => []QueueTypeOK
  BY CountedAlways, PTL DEF Counted

\* The step of EffectsFenced, from the counting invariant.
LEMMA FencedStep ==
    ASSUME Counted, [QueueNext]_queueVars, NEW k \in Jobs, lastEffect'[k] # lastEffect[k]
    PROVE  /\ lastEffect'[k] > lastEffect[k]
           /\ lastEffect'[k] = Len(granted[k])
           /\ job[k].status \notin Terminal
           /\ ~job[k].cancel
<1>1. /\ AttemptsCounted(k) /\ lastEffect \in [Jobs -> 0..MaxAttempts]
      /\ job[k].fence \in Nat
  BY DEF Counted, QueueTypeOK, JobRow
<1>2. \A j \in Jobs, w \in Workers, d \in Lags :
         Claim(w, d) \/ ClaimSpecific(j, w, d) => lastEffect' = lastEffect
  BY DEF Claim, ClaimJob, ClaimNothing, ClaimSpecific, Lease, SweepOnly
<1>3. PICK j \in Jobs :
         \E f \in 1..Len(granted[j]), d \in Lags : Publish(j, f, d) \/ Complete(j, f, d)
  BY <1>2 DEF QueueNext, queueVars, Enqueue, Heartbeat, Fail, Abandon, AcknowledgeCancel,
              RequestCancel, CancelRead, CancelWrite, CancelUpdate, Tick
<1>3a. PICK f \in 1..Len(granted[j]), d \in Lags : Publish(j, f, d) \/ Complete(j, f, d)
  BY <1>3
<1>4. lastEffect' = [lastEffect EXCEPT ![j] = f] /\ Owns(j, f, d)
  BY <1>3a DEF Publish, Complete, Active
<1>5. j = k /\ f = job[k].fence
  BY <1>1, <1>4 DEF Owns
<1> QED BY <1>1, <1>4, <1>5 DEF Owns, AttemptsCounted, Terminal

\* Fencing holds on either backend, for any clock lag: a worker that was
\* presumed dead cannot write over its successor's work.
THEOREM QueueEffectsFenced == QueueSpec => EffectsFenced
<1>1. Counted /\ [QueueNext]_queueVars => [PublishesFenced]_queueVars
  BY FencedStep DEF PublishesFenced
<1> QED BY <1>1, CountedAlways, PTL DEF QueueSpec, EffectsFenced

-----------------------------------------------------------------------------
(***************************************************************************)
(* Either backend: a result is written once, by the last lease.            *)
(***************************************************************************)
\* A row that has a result is completed; or, on PostgreSQL, where a late
\* request_cancel may take a completed row back to leased, somebody asked to
\* cancel it, which no lease completes. Only a row that is there has a result.
Recorded(r) ==
    /\ r.result # NULL => r.status = "completed" \/ r.cancel
    /\ r.status = "absent" => r.result = NULL

\* What a step may do to a row and its result.
ResultKept(r, s) ==
    /\ s.result = r.result /\ (r.cancel => s.cancel)
    /\ r.status = "completed" => s.status = "completed" \/ s.cancel
    /\ s.status = "absent" => r.status = "absent"
ResultMade(r, s) ==
    \/ r.status = "absent" /\ s.result = NULL
    \/ r.status = "leased" /\ ~r.cancel /\ s.status = "completed" /\ s.result = r.fence

\* The sweep and the lease of a claim keep every result.
LEMMA ClaimKeepsResults ==
    ASSUME Counted, NEW S \in SUBSET {j \in Jobs : job[j].status = "leased"}, NEW k \in Jobs
    PROVE  /\ ResultKept(job[k], Swept(S)[k])
           /\ \A j \in Jobs, w \in Workers, d \in Lags :
                 Lease(j, w, d, S) => ResultKept(job[k], job'[k])
<1>1. job[k] \in JobRow
  BY DEF Counted, QueueTypeOK
<1>2. ResultKept(job[k], Swept(S)[k])
  <2>1. CASE k \in S
    <3>1. Swept(S)[k] = Lapse(job[k]) /\ job[k].status = "leased"
      BY <2>1 DEF Swept
    <3> QED BY <1>1, <3>1, LapseRow DEF ResultKept
  <2>2. CASE k \notin S
    BY <2>2 DEF Swept, ResultKept
  <2> QED BY <2>1, <2>2
<1>3. ASSUME NEW j \in Jobs, NEW w \in Workers, NEW d \in Lags, Lease(j, w, d, S)
      PROVE  ResultKept(job[k], job'[k])
  <2>1. Swept(S)[k] \in JobRow /\ Claimable(Swept(S)[j])
    BY <1>3, SweptRow DEF Lease
  <2>2. job'[k] = IF k = j THEN LeasedTo(Swept(S)[k], w, d) ELSE Swept(S)[k]
    BY <1>3 DEF Lease, Swept
  <2>3. CASE k # j
    BY <1>2, <2>2, <2>3
  <2>4. CASE k = j
    <3>1. /\ job'[k].status = "leased" /\ job'[k].cancel = Swept(S)[k].cancel
          /\ job'[k].result = Swept(S)[k].result
      BY <2>1, <2>2, <2>4 DEF LeasedTo, JobRow
    <3>2. Swept(S)[k].status = "queued" /\ ~Swept(S)[k].cancel
      BY <2>1, <2>4 DEF Claimable
    <3> QED BY <1>2, <3>1, <3>2 DEF ResultKept
  <2> QED BY <2>3, <2>4
<1> QED BY <1>2, <1>3

\* Every step keeps the result of a row, or records one for a row that is
\* leased and not to be cancelled.
LEMMA ResultStep ==
    ASSUME Counted, [QueueNext]_queueVars, NEW k \in Jobs
    PROVE  ResultKept(job[k], job'[k]) \/ ResultMade(job[k], job'[k])
<1>1. job \in [Jobs -> JobRow]
  BY DEF Counted, QueueTypeOK
<1>2. job[k] \in JobRow
  BY <1>1
<1>3. ASSUME NEW j \in Jobs, NEW max \in 1..MaxAttempts, Enqueue(j, max)
      PROVE  ResultKept(job[k], job'[k]) \/ ResultMade(job[k], job'[k])
  BY <1>1, <1>3 DEF Enqueue, NewRow, ResultKept, ResultMade
<1>4. \A d \in Lags : Sweepable(d) \subseteq SUBSET {j \in Jobs : job[j].status = "leased"}
  BY DEF Sweepable, Expired
<1>5. ASSUME NEW w \in Workers, NEW d \in Lags, NEW j \in Jobs, Claim(w, d) \/ ClaimSpecific(j, w, d)
      PROVE  ResultKept(job[k], job'[k])
  <2>1. PICK S \in Sweepable(d) : SweepOnly(S) \/ \E i \in Jobs : Lease(i, w, d, S)
    BY <1>5 DEF Claim, ClaimJob, ClaimNothing, ClaimSpecific
  <2> QED BY <1>4, <2>1, ClaimKeepsResults DEF SweepOnly
<1>6. ASSUME NEW j \in Jobs, NEW f \in 1..Len(granted[j]), NEW d \in Lags,
             \/ Publish(j, f, d) \/ Heartbeat(j, f, d) \/ Complete(j, f, d)
             \/ Fail(j, f, d) \/ Abandon(j, f, d) \/ AcknowledgeCancel(j, f)
      PROVE  ResultKept(job[k], job'[k]) \/ ResultMade(job[k], job'[k])
  <2>1. CASE job'[k] = job[k]
    BY <1>2, <2>1 DEF ResultKept
  <2>2. CASE /\ job[k].status = "leased"
             /\ \/ job'[k] = [job[k] EXCEPT !.left = LeaseSeconds - d]
                \/ job'[k] = [job[k] EXCEPT !.left = -d]
                \/ job'[k] = [Released(job[k], "failed") EXCEPT !.error = "worker_error"]
                \/ job'[k] = Released(job[k], "cancelled")
    <3>1. job'[k].result = job[k].result /\ job'[k].cancel = job[k].cancel
      BY <1>2, <2>2 DEF JobRow, Released
    <3>2. job'[k].status \in {"leased", "failed", "cancelled"}
      BY <1>2, <2>2 DEF JobRow, Released
    <3> QED BY <2>2, <3>1, <3>2 DEF ResultKept
  <2>3. CASE /\ job[k].status = "leased" /\ ~job[k].cancel
             /\ job'[k] = [Released(job[k], "completed") EXCEPT !.result = job[k].fence]
    BY <1>2, <2>3 DEF ResultMade, JobRow, Released
  <2>4. k # j => job'[k] = job[k]
    BY <1>1, <1>6 DEF Publish, Heartbeat, Complete, Fail, Abandon, AcknowledgeCancel
  <2>5. ASSUME k = j, Publish(j, f, d) PROVE job'[k] = job[k]
    BY <2>5 DEF Publish
  <2>6. ASSUME k = j, Complete(j, f, d)
        PROVE  /\ job[k].status = "leased" /\ ~job[k].cancel
               /\ job'[k] = [Released(job[k], "completed") EXCEPT !.result = job[k].fence]
    BY <1>1, <2>6 DEF Complete, Active, Owns
  <2>7. ASSUME k = j,
               Heartbeat(j, f, d) \/ Fail(j, f, d) \/ Abandon(j, f, d) \/ AcknowledgeCancel(j, f)
        PROVE  /\ job[k].status = "leased"
               /\ \/ job'[k] = [job[k] EXCEPT !.left = LeaseSeconds - d]
                  \/ job'[k] = [job[k] EXCEPT !.left = -d]
                  \/ job'[k] = [Released(job[k], "failed") EXCEPT !.error = "worker_error"]
                  \/ job'[k] = Released(job[k], "cancelled")
    BY <1>1, <2>7 DEF Heartbeat, Fail, Abandon, AcknowledgeCancel, Owns
  <2> QED BY <1>6, <2>1, <2>2, <2>3, <2>4, <2>5, <2>6, <2>7
<1>7. ASSUME NEW j \in Jobs, NEW seen \in {"queued", "leased"}, CancelUpdate(j, seen)
      PROVE  ResultKept(job[k], job'[k])
  <2>1. \/ job'[k] = job[k]
        \/ job'[k] = [Released(job[k], "cancelled") EXCEPT !.cancel = TRUE]
        \/ job'[k] = [job[k] EXCEPT !.cancel = TRUE, !.status = seen]
    BY <1>1, <1>7 DEF CancelUpdate
  <2> QED BY <1>2, <2>1 DEF ResultKept, JobRow, Released
<1>8. CASE Tick
  <2>1. job'[k] = job[k] \/ job'[k] = [job[k] EXCEPT !.left = @ - 1]
    BY <1>8 DEF Tick
  <2> QED BY <1>2, <2>1 DEF ResultKept, JobRow
<1>9. CASE UNCHANGED job
  BY <1>9 DEF ResultKept
<1>10. 0 \in Lags
  BY DEF Lags
<1>11. ASSUME NEW w \in Workers, NEW d \in Lags, Claim(w, d) PROVE ResultKept(job[k], job'[k])
  BY <1>5, <1>11
<1>12. ASSUME NEW j \in Jobs, RequestCancel(j) PROVE ResultKept(job[k], job'[k])
  BY <1>7, <1>12 DEF RequestCancel
<1> QED
  BY <1>3, <1>5, <1>6, <1>7, <1>8, <1>9, <1>10, <1>11, <1>12
     DEF QueueNext, CancelRead, CancelWrite, queueVars

\* Results are recorded as said above in every reachable state.
LEMMA RecordedStep ==
    ASSUME Counted, [QueueNext]_queueVars, \A k \in Jobs : Recorded(job[k])
    PROVE  \A k \in Jobs : Recorded(job'[k])
<1> SUFFICES ASSUME NEW k \in Jobs PROVE Recorded(job'[k])
  OBVIOUS
<1>1. ResultKept(job[k], job'[k]) \/ ResultMade(job[k], job'[k])
  BY ResultStep
<1>2. job[k] \in JobRow /\ job'[k] \in JobRow
  BY CountedStep DEF Counted, QueueTypeOK
<1> QED BY <1>1, <1>2 DEF Recorded, ResultKept, ResultMade

\* A result is never replaced or withdrawn, whatever the backend interleaves:
\* not by a lease that was presumed dead, nor by the cancel request that takes
\* a completed row back to leased (complete, request_cancel).
THEOREM QueueResultWrittenOnce == QueueSpec => ResultWrittenOnce
<1> DEFINE Once == \A j \in Jobs : job'[j].result # job[j].result =>
                      job[j].result = NULL /\ job'[j].result = Len(granted[j])
<1>1. Counted /\ (\A k \in Jobs : Recorded(job[k])) /\ [QueueNext]_queueVars => [Once]_queueVars
  <2> SUFFICES ASSUME Counted, \A k \in Jobs : Recorded(job[k]), [QueueNext]_queueVars,
                      NEW j \in Jobs, job'[j].result # job[j].result
               PROVE  job[j].result = NULL /\ job'[j].result = Len(granted[j])
    OBVIOUS
  <2>1. ResultMade(job[j], job'[j])
    BY ResultStep DEF ResultKept
  <2>2. job[j].fence = Len(granted[j])
    BY DEF Counted, AttemptsCounted
  <2> QED BY <2>1, <2>2 DEF ResultMade, Recorded
<1>2. QueueInit => \A k \in Jobs : Recorded(job[k])
  BY DEF QueueInit, Recorded, Absent, NewRow
<1>3. Counted /\ (\A k \in Jobs : Recorded(job[k])) /\ [QueueNext]_queueVars
         => (\A k \in Jobs : Recorded(job[k]))'
  BY RecordedStep
<1> QED BY <1>1, <1>2, <1>3, CountedAlways, PTL DEF QueueSpec, ResultWrittenOnce

-----------------------------------------------------------------------------
(***************************************************************************)
(* SQLite. Every step does one of these things to each job; the invariant, *)
(* the finality of outcomes and the refinement all follow job by job.      *)
(***************************************************************************)
Untouched(k) == UNCHANGED <<job[k], granted[k], lastEffect[k]>>

RowInserted(k) ==
    /\ job[k].status = "absent"
    /\ \E max \in 1..MaxAttempts : job'[k] = NewRow("queued", max)
    /\ UNCHANGED <<granted[k], lastEffect[k]>>

RowLapsed(k) ==
    /\ job[k].status = "leased" /\ job'[k] = Lapse(job[k])
    /\ UNCHANGED <<granted[k], lastEffect[k]>>

\* Leased from the queue, or lapsed back to it and leased again in one claim.
RowLeased(k) ==
    /\ \E w \in Workers, d \in Lags :
          /\ \/ Claimable(job[k]) /\ job'[k] = LeasedTo(job[k], w, d)
             \/ /\ job[k].status = "leased" /\ Claimable(Lapse(job[k]))
                /\ job'[k] = LeasedTo(Lapse(job[k]), w, d)
          /\ granted'[k] = Append(granted[k], w)
    /\ UNCHANGED lastEffect[k]

RowPublished(k) ==
    /\ job[k].status = "leased" /\ ~job[k].cancel
    /\ lastEffect'[k] = job[k].fence
    /\ UNCHANGED <<job[k], granted[k]>>

RowTimed(k) ==
    /\ job[k].status = "leased"
    /\ \E t \in (-MaxLag)..LeaseSeconds : job'[k] = [job[k] EXCEPT !.left = t]
    /\ UNCHANGED <<granted[k], lastEffect[k]>>

RowCompleted(k) ==
    /\ job[k].status = "leased" /\ ~job[k].cancel
    /\ job'[k] = [Released(job[k], "completed") EXCEPT !.result = job[k].fence]
    /\ lastEffect'[k] = job[k].fence
    /\ UNCHANGED granted[k]

RowFailed(k) ==
    /\ job[k].status = "leased" /\ ~job[k].cancel
    /\ job'[k] = [Released(job[k], "failed") EXCEPT !.error = "worker_error"]
    /\ UNCHANGED <<granted[k], lastEffect[k]>>

RowCancelled(k) ==
    /\ \/ /\ job[k].status = "leased" /\ job[k].cancel
          /\ job'[k] = Released(job[k], "cancelled")
       \/ /\ job[k].status = "queued"
          /\ job'[k] = [Released(job[k], "cancelled") EXCEPT !.cancel = TRUE]
    /\ UNCHANGED <<granted[k], lastEffect[k]>>

RowWanted(k) ==
    /\ job[k].status = "leased"
    /\ job'[k] = [job[k] EXCEPT !.cancel = TRUE]
    /\ UNCHANGED <<granted[k], lastEffect[k]>>

RowStep(k) ==
    \/ Untouched(k) \/ RowInserted(k) \/ RowLapsed(k) \/ RowLeased(k)
    \/ RowPublished(k) \/ RowTimed(k) \/ RowCompleted(k) \/ RowFailed(k)
    \/ RowCancelled(k) \/ RowWanted(k)

Sequential == Counted /\ RowsConsistent /\ cancelling = {}

\* A claim that leases a job (claim, claim_specific) sweeps some rows, leases
\* one that is then claimable and leaves the others alone.
LEMMA LeaseIsRowStep ==
    ASSUME Counted, NEW j \in Jobs, NEW w \in Workers, NEW d \in Lags,
           NEW S \in SUBSET {i \in Jobs : job[i].status = "leased"}, Lease(j, w, d, S),
           NEW k \in Jobs
    PROVE  RowStep(k)
<1>0. job \in [Jobs -> JobRow] /\ granted \in [Jobs -> Seq(Workers)] /\ lastEffect' = lastEffect
  BY DEF Counted, QueueTypeOK, Lease
<1>1. CASE k # j
  BY <1>0, <1>1 DEF Lease, Swept, RowStep, RowLapsed, Untouched
<1>2. CASE k = j
  <2>1. job'[k] = LeasedTo(Swept(S)[k], w, d) /\ granted'[k] = Append(granted[k], w)
        /\ Claimable(Swept(S)[k])
    BY <1>0, <1>2 DEF Lease, Swept
  <2> QED BY <1>0, <2>1 DEF Swept, RowStep, RowLeased
<1> QED BY <1>1, <1>2

\* A claim that finds nothing changes only the rows it sweeps.
LEMMA SweepIsRowStep ==
    ASSUME Counted, NEW S \in SUBSET {i \in Jobs : job[i].status = "leased"}, SweepOnly(S),
           NEW k \in Jobs
    PROVE  RowStep(k)
<1>0. job'[k] = Swept(S)[k] /\ granted'[k] = granted[k] /\ lastEffect'[k] = lastEffect[k]
  BY DEF SweepOnly
<1>1. CASE k \in S
  BY <1>0, <1>1 DEF Swept, RowStep, RowLapsed
<1>2. CASE k \notin S
  BY <1>0, <1>2 DEF Swept, RowStep, Untouched
<1> QED BY <1>1, <1>2

\* What a lease's holder does to its row is one of the row steps listed above.
LEMMA HolderIsRowStep ==
    ASSUME Counted, NEW j \in Jobs, NEW f \in 1..Len(granted[j]), NEW d \in Lags,
           \/ Publish(j, f, d) \/ Heartbeat(j, f, d) \/ Complete(j, f, d)
           \/ Fail(j, f, d) \/ Abandon(j, f, d) \/ AcknowledgeCancel(j, f),
           NEW k \in Jobs
    PROVE  RowStep(k)
<1>0. /\ job \in [Jobs -> JobRow] /\ lastEffect \in [Jobs -> 0..MaxAttempts]
      /\ LeaseSeconds - d \in (-MaxLag)..LeaseSeconds /\ -d \in (-MaxLag)..LeaseSeconds
  <2>1. job \in [Jobs -> JobRow] /\ lastEffect \in [Jobs -> 0..MaxAttempts]
    BY DEF Counted, QueueTypeOK
  <2>2. d \in 0..MaxLag
    BY DEF Lags
  <2>3. LeaseSeconds - d \in (-MaxLag)..LeaseSeconds /\ -d \in (-MaxLag)..LeaseSeconds
    BY <2>2
  <2> QED BY <2>1, <2>3
<1>1. CASE Publish(j, f, d)
  BY <1>0, <1>1 DEF Publish, Active, Owns, RowStep, RowPublished, Untouched
<1>2. CASE Heartbeat(j, f, d)
  BY <1>0, <1>2 DEF Heartbeat, Owns, RowStep, RowTimed, Untouched
<1>3. CASE Complete(j, f, d)
  BY <1>0, <1>3 DEF Complete, Active, Owns, RowStep, RowCompleted, Untouched
<1>4. CASE Fail(j, f, d)
  BY <1>0, <1>4 DEF Fail, Owns, RowStep, RowFailed, Untouched
<1>5. CASE Abandon(j, f, d)
  BY <1>0, <1>5 DEF Abandon, RowStep, RowTimed, Untouched
<1>6. CASE AcknowledgeCancel(j, f)
  BY <1>0, <1>6 DEF AcknowledgeCancel, RowStep, RowCancelled, Untouched
<1> QED BY <1>1, <1>2, <1>3, <1>4, <1>5, <1>6

\* The heart of the argument: with exclusive transactions, a step does to each
\* row one of the things listed above.
LEMMA StepIsRowStep ==
    ASSUME Backend = "sqlite", Sequential, [QueueNext]_queueVars
    PROVE  cancelling' = {} /\ \A k \in Jobs : RowStep(k)
<1>0. /\ job \in [Jobs -> JobRow] /\ Counted /\ cancelling = {} /\ 0 \in Lags
  BY DEF Sequential, Counted, QueueTypeOK, Lags
<1>1. \A d \in Lags : \A S \in Sweepable(d) : S \in SUBSET {i \in Jobs : job[i].status = "leased"}
  BY DEF Sweepable, Expired
<1>a. cancelling' = {}
  BY <1>0 DEF QueueNext, queueVars, Enqueue, Claim, ClaimJob, ClaimNothing, ClaimSpecific, Lease, SweepOnly, Publish,
              Heartbeat, Complete, Fail, Abandon, AcknowledgeCancel, RequestCancel, CancelRead,
              CancelWrite, Tick
<1> SUFFICES ASSUME NEW k \in Jobs PROVE RowStep(k)
  BY <1>a
<1>2. ASSUME NEW j \in Jobs, NEW max \in 1..MaxAttempts, Enqueue(j, max)
      PROVE  RowStep(k)
  BY <1>0, <1>2 DEF Enqueue, RowStep, RowInserted, Untouched
<1>3. ASSUME NEW w \in Workers, NEW d \in Lags, Claim(w, d)
      PROVE  RowStep(k)
  BY <1>0, <1>1, <1>3, LeaseIsRowStep, SweepIsRowStep DEF Claim, ClaimJob, ClaimNothing
<1>4. ASSUME NEW j \in Jobs, NEW w \in Workers, NEW d \in Lags, ClaimSpecific(j, w, d)
      PROVE  RowStep(k)
  BY <1>0, <1>1, <1>4, LeaseIsRowStep, SweepIsRowStep DEF ClaimSpecific
<1>5. ASSUME NEW j \in Jobs, NEW f \in 1..Len(granted[j]), NEW d \in Lags,
             \/ Publish(j, f, d) \/ Heartbeat(j, f, d) \/ Complete(j, f, d)
             \/ Fail(j, f, d) \/ Abandon(j, f, d) \/ AcknowledgeCancel(j, f)
      PROVE  RowStep(k)
  BY <1>0, <1>5, HolderIsRowStep
<1>6. ASSUME NEW j \in Jobs, RequestCancel(j) PROVE RowStep(k)
  <2>1. CASE job[j].status = "queued"
    BY <1>0, <1>6, <2>1 DEF RequestCancel, CancelUpdate, RowStep, RowCancelled, Untouched
  <2>2. CASE job[j].status = "leased"
    <3>1. [job[j] EXCEPT !.cancel = TRUE, !.status = job[j].status] = [job[j] EXCEPT !.cancel = TRUE]
      BY <1>0 DEF JobRow
    <3> QED
      BY <1>0, <1>6, <2>2, <3>1 DEF RequestCancel, CancelUpdate, RowStep, RowWanted, Untouched
  <2> QED BY <1>6, <2>1, <2>2 DEF RequestCancel
<1>7. ASSUME NEW j \in Jobs, NEW seen \in {"queued", "leased"}, CancelRead(j) \/ CancelWrite(j, seen)
      PROVE  FALSE
  BY <1>0, <1>7 DEF CancelRead, CancelWrite
<1>8. CASE Tick
  <2>1. job[k].left # NULL => job[k].status = "leased"
    BY DEF Sequential, RowsConsistent, LeaseColumns
  <2>2. CASE job[k].left # NULL /\ job[k].left > -MaxLag
    <3>1. job[k].left - 1 \in (-MaxLag)..LeaseSeconds
      BY <1>0, <2>2 DEF JobRow
    <3> QED BY <1>8, <2>1, <2>2, <3>1, <1>0 DEF Tick, RowStep, RowTimed
  <2>3. CASE ~(job[k].left # NULL /\ job[k].left > -MaxLag)
    BY <1>0, <1>8, <2>3 DEF Tick, RowStep, Untouched
  <2> QED BY <2>2, <2>3
<1>9. CASE UNCHANGED queueVars
  BY <1>0, <1>9 DEF queueVars, RowStep, Untouched
<1> QED BY <1>0, <1>2, <1>3, <1>4, <1>5, <1>6, <1>7, <1>8, <1>9 DEF QueueNext

-----------------------------------------------------------------------------
\* One row at a time, what a step does keeps the row consistent.
LEMMA RowKept ==
    ASSUME NEW k \in Jobs, job[k] \in JobRow, granted[k] \in Seq(Workers),
           lastEffect[k] \in 0..MaxAttempts,
           AttemptsCounted(k), LeaseColumns(k), OutcomeColumns(k), RowStep(k)
    PROVE  LeaseColumns(k)' /\ OutcomeColumns(k)'
<1> USE DEF LeaseColumns, OutcomeColumns
<1>1. CASE Untouched(k)
  BY <1>1 DEF Untouched
<1>2. CASE RowInserted(k)
  BY <1>2 DEF RowInserted, NewRow
<1>3. CASE RowLapsed(k)
  BY <1>3, LapseRow DEF RowLapsed
<1>4. CASE RowLeased(k)
  <2> DEFINE Base(r) == /\ r \in JobRow /\ Claimable(r) /\ r.attempts < r.max
                        /\ r.attempts = r.fence /\ r.fence = job[k].fence
                        /\ r.result = NULL /\ r.error = NULL
  <2>1. PICK w \in Workers, d \in Lags : \E r \in {job[k], Lapse(job[k])} :
          Base(r) /\ job'[k] = LeasedTo(r, w, d) /\ granted'[k] = Append(granted[k], w)
    BY <1>4, LapseRow DEF RowLeased, Claimable, AttemptsCounted
  <2>2. PICK r \in {job[k], Lapse(job[k])} : Base(r) /\ job'[k] = LeasedTo(r, w, d)
    BY <2>1
  <2>3. /\ job'[k].status = "leased" /\ job'[k].worker = w
        /\ job'[k].left = LeaseSeconds - d /\ ~job'[k].cancel
        /\ job'[k].fence = job[k].fence + 1
        /\ job'[k].result = NULL /\ job'[k].error = NULL
    BY <2>2, LeasedRow DEF Claimable
  <2>4. granted'[k][Len(granted[k]) + 1] = w /\ job[k].fence = Len(granted[k])
    BY <2>1 DEF AttemptsCounted
  <2>5. LeaseSeconds - d # NULL /\ w # NULL /\ Len(granted[k]) + 1 > 0
    BY DEF Lags
  <2> QED BY <2>3, <2>4, <2>5
<1>5. CASE RowPublished(k)
  BY <1>5 DEF RowPublished
<1>6. CASE RowTimed(k)
  BY <1>6 DEF RowTimed, JobRow
<1>7. CASE RowCompleted(k)
  <2>1. job[k].fence # NULL
    BY DEF JobRow
  <2> QED BY <1>7, <2>1 DEF RowCompleted, Released, JobRow
<1>8. CASE RowFailed(k)
  BY <1>8 DEF RowFailed, Released, JobRow
<1>9. CASE RowCancelled(k)
  <2>1. /\ job'[k].status = "cancelled" /\ job'[k].cancel
        /\ job'[k].worker = NULL /\ job'[k].left = NULL
        /\ job'[k].result = job[k].result /\ job'[k].error = job[k].error
    BY <1>9 DEF RowCancelled, Released, JobRow
  <2> QED BY <1>9, <2>1 DEF RowCancelled
<1>10. CASE RowWanted(k)
  BY <1>10 DEF RowWanted, JobRow
<1> QED BY <1>1, <1>2, <1>3, <1>4, <1>5, <1>6, <1>7, <1>8, <1>9, <1>10 DEF RowStep

\* A row that is settled is left alone.
LEMMA RowFinal ==
    ASSUME NEW k \in Jobs, RowStep(k), job[k].status \in Terminal
    PROVE  job'[k] = job[k] /\ granted'[k] = granted[k] /\ lastEffect'[k] = lastEffect[k]
  BY DEF RowStep, Untouched, RowInserted, RowLapsed, RowLeased, RowPublished, RowTimed,
         RowCompleted, RowFailed, RowCancelled, RowWanted, Terminal, Claimable

\* The empty table is consistent, and no cancellation is in flight.
LEMMA SequentialInit == QueueInit => Sequential
<1> SUFFICES ASSUME QueueInit PROVE RowsConsistent /\ cancelling = {}
  BY CountedInit DEF Sequential
<1>1. ASSUME NEW k \in Jobs PROVE LeaseColumns(k) /\ AttemptsCounted(k) /\ OutcomeColumns(k)
  BY CountedInit DEF QueueInit, Counted, LeaseColumns, OutcomeColumns, Absent, NewRow
<1> QED BY <1>1 DEF RowsConsistent, QueueInit

\* On SQLite every step keeps the rows consistent.
LEMMA SequentialStep ==
    ASSUME Backend = "sqlite", Sequential, [QueueNext]_queueVars
    PROVE  Sequential'
<1>1. Counted' /\ cancelling' = {}
  BY CountedStep, StepIsRowStep DEF Sequential
<1>2. ASSUME NEW k \in Jobs PROVE LeaseColumns(k)' /\ OutcomeColumns(k)'
  <2>1. /\ job[k] \in JobRow /\ granted[k] \in Seq(Workers)
        /\ lastEffect[k] \in 0..MaxAttempts
        /\ AttemptsCounted(k) /\ LeaseColumns(k) /\ OutcomeColumns(k)
    BY DEF Sequential, RowsConsistent, Counted, QueueTypeOK
  <2> QED BY <2>1, StepIsRowStep, RowKept
<1> QED BY <1>1, <1>2 DEF Sequential, RowsConsistent, Counted

\* On SQLite the strengthened invariant holds in every reachable state.
LEMMA SequentialAlways ==
    ASSUME Backend = "sqlite" PROVE QueueSpec => []Sequential
<1>1. Sequential /\ [QueueNext]_queueVars => Sequential'
  BY SequentialStep
<1> QED BY <1>1, SequentialInit, PTL DEF QueueSpec

\* With exclusive transactions the rows agree with the leases handed out and
\* with the recorded outcomes, whoever calls what and however late.
THEOREM QueueRowsConsistent ==
    ASSUME Backend = "sqlite" PROVE QueueSpec => []RowsConsistent
  BY SequentialAlways, PTL DEF Sequential

\* With exclusive transactions an outcome is final: no late complete, fail,
\* sweep or cancel changes it. (On PostgreSQL request_cancel does.)
THEOREM QueueTerminalIsFinal ==
    ASSUME Backend = "sqlite" PROVE QueueSpec => TerminalIsFinal
<1>1. Sequential /\ [QueueNext]_queueVars => [KeepsTerminal]_queueVars
  BY StepIsRowStep, RowFinal DEF KeepsTerminal
<1> QED BY <1>1, SequentialAlways, PTL DEF QueueSpec, TerminalIsFinal

-----------------------------------------------------------------------------
(***************************************************************************)
(* SQLite: the outbox tells the status of every job.                       *)
(***************************************************************************)
\* What has to be added to the rows n of a job when its row r becomes q.
LEMMA RowsFollow ==
    ASSUME NEW n \in [Event -> Nat], NEW r, NEW q, Tells(n, r),
           r.cancel \in BOOLEAN, q.cancel \in BOOLEAN, r.fence \in Nat
    PROVE  /\ q.status = r.status /\ q.fence = r.fence /\ q.cancel = r.cancel => Tells(n, q)
           /\ \A t \in Terminal :
                 r.status \notin Terminal /\ q.status = t /\ q.fence = r.fence
                    => Tells(More(n, t), q)
           /\ /\ r.status \in {"absent", "leased"} /\ q.status = "queued"
              /\ q.fence = r.fence /\ q.cancel = r.cancel
              /\ r.status = "absent" => r.fence = 0
              => Tells(More(n, "queued"), q)
           /\ r.status = "queued" /\ q.status = "leased" /\ q.fence = r.fence + 1
              /\ q.cancel = r.cancel => Tells(More(n, "leased"), q)
           /\ r.status = "leased" /\ q.status = "leased" /\ q.fence = r.fence /\ q.cancel
              => Tells(More(n, "cancellation_requested"), q)
<1>1. /\ Terminal = {"completed", "failed", "cancelled"} /\ Terminal \subseteq Event
      /\ {"queued", "leased", "cancellation_requested"} \subseteq Event
  BY DEF Terminal, Event, Status
<1>2. q.status = r.status /\ q.fence = r.fence /\ q.cancel = r.cancel => Tells(n, q)
  BY DEF Tells
<1>3. ASSUME NEW t \in Terminal, r.status \notin Terminal, q.status = t, q.fence = r.fence
      PROVE  Tells(More(n, t), q)
  BY <1>1, <1>3, MoreRows DEF Tells
<1>4. ASSUME r.status \in {"absent", "leased"}, q.status = "queued", q.fence = r.fence,
             q.cancel = r.cancel, r.status = "absent" => r.fence = 0
      PROVE  Tells(More(n, "queued"), q)
  BY <1>1, <1>4, MoreRows DEF Tells
<1>5. ASSUME r.status = "queued", q.status = "leased", q.fence = r.fence + 1, q.cancel = r.cancel
      PROVE  Tells(More(n, "leased"), q)
  BY <1>1, <1>5, MoreRows DEF Tells
<1>6. ASSUME r.status = "leased", q.status = "leased", q.fence = r.fence, q.cancel
      PROVE  Tells(More(n, "cancellation_requested"), q)
  BY <1>1, <1>6, MoreRows DEF Tells
<1> QED BY <1>2, <1>3, <1>4, <1>5, <1>6

\* After the step the rows of job k tell its status.
Told(k) == Tells(outbox'[k], job'[k])

\* What the lemmas below start from.
LEMMA TellingRow ==
    ASSUME Counted, OutboxTellsStatus, NEW k \in Jobs
    PROVE  /\ job[k] \in JobRow /\ job \in [Jobs -> JobRow]
           /\ outbox[k] \in [Event -> Nat] /\ outbox \in [Jobs -> [Event -> Nat]]
           /\ Tells(outbox[k], job[k])
           /\ job[k].cancel \in BOOLEAN /\ job[k].fence \in Nat
  BY DEF Counted, QueueTypeOK, OutboxTellsStatus, JobRow

\* A sweep tells the status its rows lapse to.
LEMMA SweepTells ==
    ASSUME Counted, OutboxTellsStatus, NEW S \in SUBSET Jobs, NEW k \in Jobs,
           k \in S => job[k].status = "leased"
    PROVE  Tells(SweptEvents(S)[k], Swept(S)[k]) /\ SweptEvents(S)[k] \in [Event -> Nat]
<1>0. SweptEvents(S) \in [Jobs -> [Event -> Nat]]
  BY SweptEventsType DEF Counted
<1>1. CASE k \in S
  <2>1. Swept(S)[k] = Lapse(job[k]) /\ SweptEvents(S)[k] = More(outbox[k], LapseStatus(job[k]))
    BY <1>1 DEF Swept, SweptEvents
  <2>2. /\ Lapse(job[k]).status = LapseStatus(job[k])
        /\ LapseStatus(job[k]) \in {"cancelled", "failed", "queued"}
        /\ Lapse(job[k]).fence = job[k].fence /\ Lapse(job[k]).cancel = job[k].cancel
    BY LapseRow, TellingRow
  <2>3. Tells(More(outbox[k], LapseStatus(job[k])), Lapse(job[k]))
    BY <1>1, <2>2, TellingRow, RowsFollow DEF Terminal
  <2> QED BY <1>0, <2>1, <2>3
<1>2. CASE k \notin S
  BY <1>0, <1>2, TellingRow DEF Swept, SweptEvents
<1> QED BY <1>1, <1>2

\* A sweep and a grant tell each status they set.
LEMMA LeaseTells ==
    ASSUME Counted, OutboxTellsStatus, NEW j \in Jobs, NEW w \in Workers, NEW d \in Lags,
           NEW S \in SUBSET Jobs, \A i \in S : job[i].status = "leased",
           Lease(j, w, d, S), NEW k \in Jobs
    PROVE  Told(k)
<1>0. /\ SweptEvents(S) \in [Jobs -> [Event -> Nat]] /\ Swept(S) \in [Jobs -> JobRow]
      /\ Tells(SweptEvents(S)[k], Swept(S)[k])
  BY SweptEventsType, SweptRow, SweepTells DEF Counted, Swept
<1>1. CASE k # j
  BY <1>0, <1>1 DEF Lease, Told
<1>2. CASE k = j
  <2>1. /\ job'[k] = LeasedTo(Swept(S)[k], w, d) /\ Claimable(Swept(S)[k])
        /\ outbox'[k] = More(SweptEvents(S)[k], "leased")
    BY <1>0, <1>2 DEF Lease
  <2>2. Swept(S)[k].attempts < Swept(S)[k].max /\ Swept(S)[k].attempts = Swept(S)[k].fence
    BY <2>1, SweptRow DEF Claimable, Counted, AttemptsCounted
  <2>3. /\ job'[k].status = "leased" /\ job'[k].fence = Swept(S)[k].fence + 1
        /\ job'[k].cancel = Swept(S)[k].cancel
    BY <1>0, <2>1, <2>2, LeasedRow
  <2>4. /\ Swept(S)[k].status = "queued" /\ Swept(S)[k].cancel \in BOOLEAN
        /\ Swept(S)[k].fence \in Nat /\ SweptEvents(S)[k] \in [Event -> Nat]
    BY <1>0, <2>1 DEF Claimable, JobRow
  <2> QED BY <1>0, <2>1, <2>3, <2>4, RowsFollow DEF Told
<1> QED BY <1>1, <1>2

\* So does a sweep that grants nothing.
LEMMA SweepOnlyTells ==
    ASSUME Counted, OutboxTellsStatus, NEW S \in SUBSET Jobs,
           \A i \in S : job[i].status = "leased", SweepOnly(S), NEW k \in Jobs
    PROVE  Told(k)
  BY SweepTells DEF SweepOnly, Told

\* An operation on one row has to tell of that row alone.
LEMMA EmitTells ==
    ASSUME Counted, OutboxTellsStatus, NEW j \in Jobs, NEW q, job' = [job EXCEPT ![j] = q],
           \/ outbox' = outbox /\ Tells(outbox[j], q)
           \/ \E e \in Event : Emit(j, e) /\ Tells(More(outbox[j], e), q),
           NEW k \in Jobs
    PROVE  Told(k)
<1>1. CASE k # j
  BY <1>1, TellingRow DEF Emit, Told
<1>2. CASE k = j
  BY <1>2, TellingRow DEF Emit, Told
<1> QED BY <1>1, <1>2

\* An outcome of a job that was open, told.
LEMMA SettlingTells ==
    ASSUME Counted, OutboxTellsStatus, NEW j \in Jobs, NEW q, NEW t \in Terminal,
           job' = [job EXCEPT ![j] = q], Emit(j, t), job[j].status \notin Terminal,
           q.status = t, q.fence = job[j].fence, q.cancel \in BOOLEAN,
           NEW k \in Jobs
    PROVE  Told(k)
<1>1. t \in Event
  BY DEF Terminal, Event, Status
<1>2. Tells(More(outbox[j], t), q)
  BY TellingRow, RowsFollow
<1> QED BY <1>1, <1>2, EmitTells

\* So does whatever the holder of a lease does.
LEMMA HolderTells ==
    ASSUME Counted, OutboxTellsStatus,
           NEW j \in Jobs, NEW f \in 1..Len(granted[j]), NEW d \in Lags,
           \/ Publish(j, f, d) \/ Heartbeat(j, f, d) \/ Complete(j, f, d)
           \/ Fail(j, f, d) \/ Abandon(j, f, d) \/ AcknowledgeCancel(j, f),
           NEW k \in Jobs
    PROVE  Told(k)
<1>0. /\ job \in [Jobs -> JobRow] /\ job[j] \in JobRow /\ job[j].cancel \in BOOLEAN
      /\ {"completed", "failed", "cancelled"} = Terminal
  BY TellingRow DEF Terminal
<1>1. CASE Publish(j, f, d)
  BY <1>1, TellingRow DEF Publish, Told
<1>2. CASE Heartbeat(j, f, d) \/ Abandon(j, f, d)
  <2>1. PICK left : job' = [job EXCEPT ![j].left = left] /\ outbox' = outbox
    BY <1>2 DEF Heartbeat, Abandon
  <2> DEFINE q == [job[j] EXCEPT !.left = left]
  <2>2. /\ job' = [job EXCEPT ![j] = q] /\ q.status = job[j].status
        /\ q.cancel = job[j].cancel /\ q.fence = job[j].fence
    BY <1>0, <2>1 DEF JobRow
  <2> HIDE DEF q
  <2>3. Tells(outbox[j], q)
    BY <2>2, TellingRow, RowsFollow
  <2> QED BY <2>1, <2>2, <2>3, EmitTells
<1>3. CASE Complete(j, f, d)
  <2> DEFINE q == [Released(job[j], "completed") EXCEPT !.result = f]
  <2>1. /\ job' = [job EXCEPT ![j] = q] /\ Emit(j, "completed") /\ q.status = "completed"
        /\ q.fence = job[j].fence /\ q.cancel = job[j].cancel /\ job[j].status = "leased"
    BY <1>0, <1>3 DEF Complete, Active, Owns, JobRow, Released
  <2> HIDE DEF q
  <2> QED BY <1>0, <2>1, SettlingTells
<1>4. CASE Fail(j, f, d)
  <2> DEFINE q == [Released(job[j], "failed") EXCEPT !.error = "worker_error"]
  <2>1. /\ job' = [job EXCEPT ![j] = q] /\ Emit(j, "failed") /\ q.status = "failed"
        /\ q.fence = job[j].fence /\ q.cancel = job[j].cancel /\ job[j].status = "leased"
    BY <1>0, <1>4 DEF Fail, Owns, JobRow, Released
  <2> HIDE DEF q
  <2> QED BY <1>0, <2>1, SettlingTells
<1>5. CASE AcknowledgeCancel(j, f)
  <2> DEFINE q == Released(job[j], "cancelled")
  <2>1. /\ job' = [job EXCEPT ![j] = q] /\ Emit(j, "cancelled") /\ q.status = "cancelled"
        /\ q.fence = job[j].fence /\ q.cancel = job[j].cancel /\ job[j].status = "leased"
    BY <1>0, <1>5 DEF AcknowledgeCancel, JobRow, Released
  <2> HIDE DEF q
  <2> QED BY <1>0, <2>1, SettlingTells
<1> QED BY <1>1, <1>2, <1>3, <1>4, <1>5

\* On SQLite the status a cancellation request read is the row's.
LEMMA CancelTells ==
    ASSUME Counted, OutboxTellsStatus, NEW j \in Jobs, RequestCancel(j), NEW k \in Jobs
    PROVE  Told(k)
<1>0. /\ job \in [Jobs -> JobRow] /\ job[j] \in JobRow /\ "cancelled" \in Terminal
      /\ "cancellation_requested" \in Event
  BY TellingRow DEF Terminal, Event
<1>1. CASE job[j].status = "queued"
  <2> DEFINE q == [Released(job[j], "cancelled") EXCEPT !.cancel = TRUE]
  <2>1. /\ job' = [job EXCEPT ![j] = q] /\ Emit(j, "cancelled") /\ q.status = "cancelled"
        /\ q.fence = job[j].fence /\ q.cancel = TRUE /\ job[j].status \notin Terminal
    BY <1>0, <1>1 DEF RequestCancel, CancelUpdate, JobRow, Released, Terminal
  <2> HIDE DEF q
  <2> QED BY <1>0, <2>1, SettlingTells
<1>2. CASE job[j].status = "leased"
  <2> DEFINE q == [job[j] EXCEPT !.cancel = TRUE, !.status = "leased"]
  <2>1. /\ job' = [job EXCEPT ![j] = q] /\ Emit(j, "cancellation_requested")
        /\ q.status = "leased" /\ q.fence = job[j].fence /\ q.cancel = TRUE
    BY <1>0, <1>2 DEF RequestCancel, CancelUpdate, JobRow
  <2> HIDE DEF q
  <2>2. Tells(More(outbox[j], "cancellation_requested"), q)
    BY <1>2, <2>1, TellingRow, RowsFollow
  <2> QED BY <1>0, <2>1, <2>2, EmitTells
<1> QED BY <1>1, <1>2 DEF RequestCancel

\* A new job has one row, and had none.
LEMMA EnqueueTells ==
    ASSUME Counted, OutboxTellsStatus, NEW j \in Jobs, OutcomeColumns(j),
           NEW max \in 1..MaxAttempts, Enqueue(j, max), NEW k \in Jobs
    PROVE  Told(k)
<1> DEFINE q == NewRow("queued", max)
<1>1. /\ job' = [job EXCEPT ![j] = q] /\ Emit(j, "queued") /\ job[j].status = "absent"
      /\ q.status = "queued" /\ q.fence = 0 /\ q.cancel = FALSE
      /\ job[j].fence = 0 /\ job[j].cancel = FALSE /\ "queued" \in Event
  BY DEF Enqueue, NewRow, OutcomeColumns, Absent, Event, Status
<1> HIDE DEF q
<1>2. Tells(More(outbox[j], "queued"), q)
  BY <1>1, TellingRow, RowsFollow
<1> QED BY <1>1, <1>2, EmitTells

\* Hence every step leaves rows that tell the status.
LEMMA OutboxKept ==
    ASSUME Backend = "sqlite", Sequential, OutboxTellsStatus, [QueueNext]_queueVars
    PROVE  OutboxTellsStatus'
<1> SUFFICES ASSUME NEW k \in Jobs PROVE Told(k)
  BY DEF OutboxTellsStatus, Told
<1>0. /\ job \in [Jobs -> JobRow] /\ Counted /\ cancelling = {} /\ 0 \in Lags
      /\ \A j \in Jobs : OutcomeColumns(j)
      /\ \A d \in Lags : \A S \in Sweepable(d) :
            S \in SUBSET Jobs /\ \A i \in S : job[i].status = "leased"
  BY DEF Sequential, RowsConsistent, Counted, QueueTypeOK, Lags, Sweepable, Expired
<1>1. ASSUME NEW j \in Jobs, NEW max \in 1..MaxAttempts, Enqueue(j, max) PROVE Told(k)
  BY <1>0, <1>1, EnqueueTells
<1>2. ASSUME NEW w \in Workers, NEW d \in Lags, Claim(w, d) PROVE Told(k)
  BY <1>0, <1>2, LeaseTells, SweepOnlyTells DEF Claim, ClaimJob, ClaimNothing
<1>3. ASSUME NEW j \in Jobs, NEW w \in Workers, NEW d \in Lags, ClaimSpecific(j, w, d)
      PROVE  Told(k)
  BY <1>0, <1>3, LeaseTells, SweepOnlyTells DEF ClaimSpecific
<1>4. ASSUME NEW j \in Jobs, NEW f \in 1..Len(granted[j]), NEW d \in Lags,
             \/ Publish(j, f, d) \/ Heartbeat(j, f, d) \/ Complete(j, f, d)
             \/ Fail(j, f, d) \/ Abandon(j, f, d) \/ AcknowledgeCancel(j, f)
      PROVE  Told(k)
  BY <1>0, <1>4, HolderTells
<1>5. ASSUME NEW j \in Jobs, RequestCancel(j) PROVE Told(k)
  BY <1>0, <1>5, CancelTells
<1>6. ASSUME NEW j \in Jobs, NEW seen \in {"queued", "leased"}, CancelRead(j) \/ CancelWrite(j, seen)
      PROVE  FALSE
  BY <1>0, <1>6 DEF CancelRead, CancelWrite
<1>7. CASE Tick
  <2>1. /\ job'[k].status = job[k].status /\ job'[k].cancel = job[k].cancel
        /\ job'[k].fence = job[k].fence /\ outbox' = outbox
    BY <1>0, <1>7 DEF Tick, JobRow
  <2> QED BY <1>0, <2>1, TellingRow, RowsFollow DEF Told
<1>8. CASE UNCHANGED queueVars
  BY <1>0, <1>8, TellingRow DEF queueVars, Told
<1> QED BY <1>0, <1>1, <1>2, <1>3, <1>4, <1>5, <1>6, <1>7, <1>8 DEF QueueNext

\* With exclusive transactions a consumer that has counted a job's outbox rows
\* knows its status, in whatever order it reads them: every change of it added
\* the row that tells it (jobs.py, _outbox).
THEOREM QueueOutboxTellsStatus ==
    ASSUME Backend = "sqlite" PROVE QueueSpec => []OutboxTellsStatus
<1>1. QueueInit => OutboxTellsStatus
  <2> SUFFICES ASSUME QueueInit, NEW j \in Jobs PROVE Tells(outbox[j], job[j])
    BY DEF OutboxTellsStatus
  <2>1. /\ job[j].status = "absent" /\ job[j].cancel = FALSE /\ job[j].fence = 0
        /\ \A e \in Event : outbox[j][e] = 0
    BY DEF QueueInit, Absent, NewRow
  <2>2. Terminal \subseteq Event /\ {"leased", "queued", "cancellation_requested"} \subseteq Event
    BY DEF Terminal, Event, Status
  <2>3. \A t \in Terminal : t # "absent"
    BY DEF Terminal
  <2> QED BY <2>1, <2>2, <2>3 DEF Tells
<1>2. Sequential /\ OutboxTellsStatus /\ [QueueNext]_queueVars => OutboxTellsStatus'
  BY OutboxKept
<1> QED BY <1>1, <1>2, SequentialAlways, PTL DEF QueueSpec

-----------------------------------------------------------------------------
(***************************************************************************)
(* Refinement: the queue on SQLite implements JobLifecycle.                *)
(***************************************************************************)
\* The empty jobs table maps to lives that have not begun.
LEMMA LifeInit == QueueInit => Lifecycle!Init
  BY DEF QueueInit, Lifecycle!Init, Lifecycle!Unborn, Lifecycle!At, LifeOf, Absent, NewRow

\* What a step does to a row is a step of its life, or none.
LEMMA LifeStep ==
    ASSUME NEW k \in Jobs, job[k] \in JobRow, lastEffect[k] \in 0..MaxAttempts,
           AttemptsCounted(k), LeaseColumns(k), OutcomeColumns(k), RowStep(k)
    PROVE  Lifecycle!Allowed(LifeOf(k), LifeOf(k)')
<1> USE DEF LifeOf, Lifecycle!Allowed, Lifecycle!At
<1>1. CASE Untouched(k)
  BY <1>1 DEF Untouched
<1>2. CASE RowInserted(k)
  <2>1. /\ job[k].status = "absent" /\ job[k].fence = 0 /\ lastEffect[k] = 0
        /\ job[k].cancel = FALSE
    BY <1>2 DEF RowInserted, OutcomeColumns, Absent, NewRow
  <2>2. /\ job'[k].status = "queued" /\ job'[k].fence = 0 /\ lastEffect'[k] = 0
        /\ job'[k].cancel = FALSE
    BY <1>2, <2>1 DEF RowInserted, NewRow
  <2> QED BY <2>1, <2>2 DEF Lifecycle!Submitted, Lifecycle!Unborn
<1>3. CASE RowLapsed(k)
  <2>1. /\ job'[k].status = LapseStatus(job[k]) /\ job'[k].fence = job[k].fence
        /\ job'[k].cancel = job[k].cancel /\ lastEffect'[k] = lastEffect[k]
    BY <1>3, LapseRow DEF RowLapsed
  <2>2. job[k].fence > 0 /\ job[k].status = "leased" /\ job[k].cancel \in BOOLEAN
    BY <1>3 DEF RowLapsed, LeaseColumns, JobRow
  <2> QED BY <2>1, <2>2, LapseRow DEF Lifecycle!Settled
<1>4. CASE RowLeased(k)
  <2>1. /\ job'[k].status = "leased" /\ ~job'[k].cancel /\ ~job[k].cancel
        /\ job'[k].fence = job[k].fence + 1
        /\ job[k].status \in {"queued", "leased"} /\ lastEffect'[k] = lastEffect[k]
        /\ job[k].cancel \in BOOLEAN /\ job'[k].cancel \in BOOLEAN
    <3>1. PICK w \in Workers, d \in Lags :
             \/ Claimable(job[k]) /\ job'[k] = LeasedTo(job[k], w, d)
             \/ /\ job[k].status = "leased" /\ Claimable(Lapse(job[k]))
                /\ job'[k] = LeasedTo(Lapse(job[k]), w, d)
      BY <1>4 DEF RowLeased
    <3>2. CASE Claimable(job[k]) /\ job'[k] = LeasedTo(job[k], w, d)
      BY <1>4, <3>2, LeasedRow DEF Claimable, AttemptsCounted, RowLeased, JobRow
    <3>3. CASE /\ job[k].status = "leased" /\ Claimable(Lapse(job[k]))
               /\ job'[k] = LeasedTo(Lapse(job[k]), w, d)
      <4>1. /\ Lapse(job[k]) \in JobRow /\ Lapse(job[k]).attempts = job[k].attempts
            /\ Lapse(job[k]).fence = job[k].fence /\ Lapse(job[k]).max = job[k].max
            /\ Lapse(job[k]).cancel = job[k].cancel
            /\ job[k].attempts < job[k].max /\ ~job[k].cancel
        BY <3>3, LapseRow DEF Claimable
      <4>2. /\ job'[k] \in JobRow /\ job'[k].status = "leased"
            /\ job'[k].cancel = job[k].cancel /\ job'[k].fence = job[k].fence + 1
        BY <3>3, <4>1, LeasedRow DEF AttemptsCounted
      <4> QED BY <1>4, <3>3, <4>1, <4>2 DEF RowLeased, JobRow
    <3> QED BY <3>1, <3>2, <3>3
  <2> QED BY <2>1 DEF Lifecycle!Started
<1>5. CASE RowPublished(k)
  BY <1>5 DEF RowPublished, LeaseColumns, JobRow, Lifecycle!Wrote
<1>6. CASE RowTimed(k)
  BY <1>6 DEF RowTimed, JobRow
<1>7. CASE RowCompleted(k)
  BY <1>7 DEF RowCompleted, Released, LeaseColumns, JobRow, Lifecycle!Settled
<1>8. CASE RowFailed(k)
  BY <1>8 DEF RowFailed, Released, LeaseColumns, JobRow, Lifecycle!Settled
<1>9. CASE RowCancelled(k)
  <2>1. /\ job'[k].status = "cancelled" /\ job'[k].cancel = TRUE
        /\ job'[k].fence = job[k].fence /\ lastEffect'[k] = lastEffect[k]
        /\ job[k].status \in {"queued", "leased"}
    <3>1. CASE job[k].status = "leased" /\ job[k].cancel /\ job'[k] = Released(job[k], "cancelled")
      BY <1>9, <3>1 DEF RowCancelled, Released, JobRow
    <3>2. CASE /\ job[k].status = "queued"
               /\ job'[k] = [Released(job[k], "cancelled") EXCEPT !.cancel = TRUE]
      BY <1>9, <3>2 DEF RowCancelled, Released, JobRow
    <3> QED BY <1>9, <3>1, <3>2 DEF RowCancelled
  <2> QED BY <2>1 DEF Lifecycle!Settled
<1>10. CASE RowWanted(k)
  BY <1>10 DEF RowWanted, JobRow, Lifecycle!CancelWanted
<1> QED BY <1>1, <1>2, <1>3, <1>4, <1>5, <1>6, <1>7, <1>8, <1>9, <1>10 DEF RowStep

\* The job queue on SQLite keeps the abstract promise of JobLifecycle.
THEOREM QueueImplementsLifecycle ==
    ASSUME Backend = "sqlite" PROVE QueueSpec => ImplementsLifecycle
<1>1. Sequential /\ Sequential' /\ [QueueNext]_queueVars
        => [Lifecycle!Next]_([j \in Jobs |-> LifeOf(j)])
  <2> SUFFICES ASSUME Sequential, Sequential', [QueueNext]_queueVars PROVE Lifecycle!Next
    OBVIOUS
  <2>1. ASSUME NEW k \in Jobs PROVE LifeOf(k)' \in Lifecycle!Life
    <3>1. job'[k] \in JobRow /\ lastEffect'[k] \in 0..MaxAttempts
      BY DEF Sequential, Counted, QueueTypeOK
    <3> QED BY <3>1 DEF LifeOf, Lifecycle!Life, Lifecycle!Outcomes, JobRow, Status
  <2>2. ASSUME NEW k \in Jobs PROVE Lifecycle!Allowed(LifeOf(k), LifeOf(k)')
    <3>1. /\ job[k] \in JobRow /\ lastEffect[k] \in 0..MaxAttempts
          /\ AttemptsCounted(k) /\ LeaseColumns(k) /\ OutcomeColumns(k)
      BY DEF Sequential, RowsConsistent, Counted, QueueTypeOK
    <3> QED BY <3>1, StepIsRowStep, LifeStep
  <2> QED BY <2>1, <2>2 DEF Lifecycle!Next
<1> QED
  BY <1>1, LifeInit, SequentialAlways, PTL DEF QueueSpec, ImplementsLifecycle, Lifecycle!Spec

-----------------------------------------------------------------------------
(***************************************************************************)
(* Worker processes (JobWorker), on either backend: whatever they do to    *)
(* the tables is something the queue allows, so that every theorem above   *)
(* holds of them; and no handler runs unwatched.                           *)
(***************************************************************************)
\* The lease a thread t of process w works with is one that w was granted.
HeldBy(w, t) ==
    /\ t.job \in Jobs /\ t.fence \in 1..Len(granted[t.job])
    /\ granted[t.job][t.fence] = w

Resting == {"idle", "down"}

\* What the processes keep: threads are where the code can be, and work with
\* leases they were granted. A thread may call with a lease that has lapsed,
\* but never with one that is another's.
Employed ==
    /\ Counted
    /\ main \in [Workers -> [pc : Pcs, job : Jobs \cup {NULL}, fence : 0..MaxAttempts]]
    /\ beats \in [Workers -> SUBSET [pc : {"wait", "beat"}, job : Jobs, fence : 0..MaxAttempts]]
    /\ stop \in [Workers -> BOOLEAN] /\ told \in [Workers -> BOOLEAN]
    /\ \A w \in Workers :
          /\ IF main[w].pc \in Resting THEN main[w].job = NULL ELSE HeldBy(w, main[w])
          /\ \A b \in beats[w] : HeldBy(w, b)

\* A step of the queue takes no lease back: the history of grants only grows.
LEMMA GrantsGrow ==
    ASSUME Counted, [QueueNext]_queueVars, NEW k \in Jobs
    PROVE  /\ Len(granted[k]) <= Len(granted'[k])
           /\ \A f \in 1..Len(granted[k]) : granted'[k][f] = granted[k][f]
<1>1. granted \in [Jobs -> Seq(Workers)]
  BY DEF Counted, QueueTypeOK
<1>2. ASSUME NEW j \in Jobs, NEW w \in Workers, granted' = [granted EXCEPT ![j] = Append(@, w)]
      PROVE  /\ Len(granted[k]) <= Len(granted'[k])
             /\ \A f \in 1..Len(granted[k]) : granted'[k][f] = granted[k][f]
  <2>1. granted[k] \in Seq(Workers) /\ granted[j] \in Seq(Workers)
    BY <1>1
  <2>2. granted'[k] = IF k = j THEN Append(granted[k], w) ELSE granted[k]
    BY <1>1, <1>2
  <2> QED BY <2>1, <2>2
<1>3. \/ UNCHANGED granted
      \/ \E j \in Jobs, w \in Workers : granted' = [granted EXCEPT ![j] = Append(@, w)]
  <2>1. ASSUME NEW j \in Jobs, NEW w \in Workers, NEW d \in Lags,
               Claim(w, d) \/ ClaimSpecific(j, w, d)
        PROVE  \/ UNCHANGED granted
               \/ \E i \in Jobs : granted' = [granted EXCEPT ![i] = Append(@, w)]
    BY <2>1 DEF Claim, ClaimJob, ClaimNothing, ClaimSpecific, Lease, SweepOnly
  <2>2. ASSUME NEW w \in Workers, NEW d \in Lags, Claim(w, d)
        PROVE  \/ UNCHANGED granted
               \/ \E i \in Jobs : granted' = [granted EXCEPT ![i] = Append(@, w)]
    BY <2>1, <2>2
  <2>3. ASSUME \/ \E j \in Jobs, max \in 1..MaxAttempts : Enqueue(j, max)
               \/ \E j \in Jobs : \E f \in 1..Len(granted[j]), d \in Lags :
                     \/ Publish(j, f, d) \/ Heartbeat(j, f, d) \/ Complete(j, f, d)
                     \/ Fail(j, f, d) \/ Abandon(j, f, d)
               \/ \E j \in Jobs : \E f \in 1..Len(granted[j]) : AcknowledgeCancel(j, f)
               \/ \E j \in Jobs : RequestCancel(j)
               \/ \E j \in Jobs : CancelRead(j)
               \/ \E j \in Jobs, seen \in {"queued", "leased"} : CancelWrite(j, seen)
               \/ Tick
               \/ UNCHANGED queueVars
        PROVE  UNCHANGED granted
    BY <2>3 DEF Enqueue, Publish, Heartbeat, Complete, Fail, Abandon, AcknowledgeCancel,
                RequestCancel, CancelRead, CancelWrite, CancelUpdate, Tick, queueVars
  <2> QED BY <2>1, <2>2, <2>3 DEF QueueNext
<1> QED BY <1>2, <1>3

\* So a lease that was granted stays granted.
LEMMA HeldStays ==
    ASSUME Counted, [QueueNext]_queueVars, NEW w \in Workers, NEW t, HeldBy(w, t)
    PROVE  /\ t.job \in Jobs /\ t.fence \in 1..Len(granted'[t.job])
           /\ granted'[t.job][t.fence] = w
<1>1. granted[t.job] \in Seq(Workers) /\ t.job \in Jobs
  BY DEF Counted, QueueTypeOK, HeldBy
<1>2. Counted'
  BY CountedStep
<1>3. granted'[t.job] \in Seq(Workers)
  BY <1>1, <1>2 DEF Counted, QueueTypeOK
<1> QED BY <1>1, <1>3, GrantsGrow DEF HeldBy

\* A process goes to the tables only with what the queue allows.
LEMMA WorkerMayCall ==
    ASSUME Employed, WorkerNext PROVE [QueueNext]_queueVars
<1>1. ASSUME NEW j \in Jobs, NEW max \in 1..MaxAttempts, Submit(j, max)
      PROVE  QueueNext
  BY <1>1 DEF Submit, QueueNext
<1>2. ASSUME NEW j \in Jobs, Cancel(j) PROVE QueueNext
  BY <1>2 DEF Cancel, QueueNext
<1>3. ASSUME NEW w \in Workers, NEW d \in Lags, Take(w, d) PROVE QueueNext
  <2>1. Claim(w, d)
    BY <1>3 DEF Take, Claim
  <2> QED BY <2>1 DEF QueueNext
<1>4. ASSUME NEW w \in Workers, NEW d \in Lags, Enter(w, d) \/ Exit(w, d) PROVE UNCHANGED queueVars
  BY <1>4 DEF Enter, Exit, Checkpoint
<1>5. ASSUME NEW w \in Workers, main[w].pc \notin Resting
      PROVE  main[w].job \in Jobs /\ main[w].fence \in 1..Len(granted[main[w].job])
  BY <1>5 DEF Employed, HeldBy
<1>6. ASSUME NEW w \in Workers, NEW d \in Lags,
             HandlerWrites(w, d) \/ Finish(w, d) \/ Report(w, d) \/ SettleLease(w, d)
      PROVE  [QueueNext]_queueVars
  <2>1. main[w].pc \notin Resting
    BY <1>6 DEF HandlerWrites, Finish, Report, SettleLease, Stands, Resting
  <2>2. main[w].job \in Jobs /\ main[w].fence \in 1..Len(granted[main[w].job])
    BY <2>1, <1>5
  <2>3. \/ Publish(main[w].job, main[w].fence, d) \/ Complete(main[w].job, main[w].fence, d)
        \/ Fail(main[w].job, main[w].fence, d) \/ Abandon(main[w].job, main[w].fence, d)
        \/ AcknowledgeCancel(main[w].job, main[w].fence)
        \/ UNCHANGED queueVars
    BY <1>6 DEF HandlerWrites, Finish, Report, SettleLease
  <2> QED BY <2>2, <2>3 DEF QueueNext
<1>7. ASSUME NEW w \in Workers, HandlerEnds(w) \/ Settle(w) \/ Restart(w) \/ RequestStop(w) \/ Crash(w)
      PROVE  UNCHANGED queueVars
  BY <1>7 DEF HandlerEnds, Settle, Restart, RequestStop, Crash
<1>8. ASSUME NEW w \in Workers, NEW b \in beats[w], NEW d \in Lags,
             Wake(w, b, d) \/ Beat(w, b, d) \/ BeatBreaks(w, b)
      PROVE  [QueueNext]_queueVars
  <2>1. b.job \in Jobs /\ b.fence \in 1..Len(granted[b.job])
    BY DEF Employed, HeldBy
  <2>2. Heartbeat(b.job, b.fence, d) \/ UNCHANGED queueVars
    BY <1>8 DEF Wake, Beat, BeatBreaks
  <2> QED BY <2>1, <2>2 DEF QueueNext
<1>8b. 0 \in Lags
  BY DEF Lags
<1>9. CASE Clock
  BY <1>9 DEF Clock, QueueNext
<1> QED
  BY <1>1, <1>2, <1>3, <1>4, <1>6, <1>7, <1>8, <1>8b, <1>9 DEF WorkerNext, Works, Beats

\* No thread runs before the first process is started.
LEMMA EmployedInit == WorkerInit => Employed
<1> SUFFICES ASSUME WorkerInit PROVE Employed
  OBVIOUS
<1>1. Counted
  BY CountedInit DEF WorkerInit
<1>2. /\ Idle \in [pc : Pcs, job : Jobs \cup {NULL}, fence : 0..MaxAttempts]
      /\ Idle.pc \in Resting /\ Idle.job = NULL
  BY DEF Idle, At, Pcs, Resting
<1> QED BY <1>1, <1>2 DEF Employed, WorkerInit

\* A thread that goes on, from where it works, keeps its lease.
LEMMA GoesOn ==
    ASSUME Employed, Counted', [QueueNext]_queueVars, UNCHANGED beats,
           stop' \in [Workers -> BOOLEAN], told' \in [Workers -> BOOLEAN],
           NEW w \in Workers, main[w].pc \notin Resting,
           \/ \E next \in Pcs \ Resting : Goto(w, next)
           \/ Return(w)
           \/ UNCHANGED main
    PROVE  Employed'
<1>1. \A x \in Workers : \A t : HeldBy(x, t) => HeldBy(x, t)'
  BY HeldStays DEF Employed, HeldBy
<1>2. /\ Idle \in [pc : Pcs, job : Jobs \cup {NULL}, fence : 0..MaxAttempts]
      /\ Idle.pc \in Resting /\ Idle.job = NULL
  BY DEF Idle, At, Pcs, Resting
<1>3. main' \in [Workers -> [pc : Pcs, job : Jobs \cup {NULL}, fence : 0..MaxAttempts]]
  BY <1>2 DEF Employed, Goto, Return
<1>4. ASSUME NEW x \in Workers
      PROVE  IF main'[x].pc \in Resting THEN main'[x].job = NULL
             ELSE /\ main'[x].job \in Jobs
                  /\ main'[x].fence \in 1..Len(granted'[main'[x].job])
                  /\ granted'[main'[x].job][main'[x].fence] = x
  <2>1. \/ main'[x] = main[x]
        \/ main'[x] = Idle
        \/ /\ x = w /\ main'[x].pc \notin Resting
           /\ main'[x].job = main[x].job /\ main'[x].fence = main[x].fence
    BY DEF Employed, Goto, Return
  <2>2. CASE main'[x] = main[x]
    BY <2>2, HeldStays DEF Employed
  <2>3. CASE main'[x] = Idle
    BY <2>3, <1>2
  <2>4. CASE /\ x = w /\ main'[x].pc \notin Resting
             /\ main'[x].job = main[x].job /\ main'[x].fence = main[x].fence
    BY <2>4, HeldStays DEF Employed
  <2> QED BY <2>1, <2>2, <2>3, <2>4
<1>5. ASSUME NEW x \in Workers, NEW b \in beats'[x]
      PROVE  /\ b.job \in Jobs /\ b.fence \in 1..Len(granted'[b.job])
             /\ granted'[b.job][b.fence] = x
  <2>1. HeldBy(x, b)
    BY DEF Employed
  <2> QED BY <2>1, HeldStays DEF Employed
<1> QED BY <1>3, <1>4, <1>5 DEF Employed, HeldBy

\* The same for the heartbeat threads of a process, which may come to an end.
LEMMA BeatsGoOn ==
    ASSUME Employed, Counted', [QueueNext]_queueVars, UNCHANGED <<main, stop>>,
           told' \in [Workers -> BOOLEAN],
           NEW w \in Workers, NEW b \in beats[w],
           \/ beats' = [beats EXCEPT ![w] = @ \ {b}]
           \/ \E pc \in {"wait", "beat"} :
                 beats' = [beats EXCEPT ![w] = (@ \ {b}) \cup {At(pc, b.job, b.fence)}]
    PROVE  Employed'
<1>1. b \in [pc : {"wait", "beat"}, job : Jobs, fence : 0..MaxAttempts]
  BY DEF Employed
<1>2. \A pc \in {"wait", "beat"} :
        /\ At(pc, b.job, b.fence) \in [pc : {"wait", "beat"}, job : Jobs, fence : 0..MaxAttempts]
        /\ At(pc, b.job, b.fence).job = b.job /\ At(pc, b.job, b.fence).fence = b.fence
  BY <1>1 DEF At
<1>3. beats' \in [Workers -> SUBSET [pc : {"wait", "beat"}, job : Jobs, fence : 0..MaxAttempts]]
  BY <1>2 DEF Employed
<1>4. ASSUME NEW x \in Workers, NEW c \in beats'[x]
      PROVE  /\ c.job \in Jobs /\ c.fence \in 1..Len(granted'[c.job])
             /\ granted'[c.job][c.fence] = x
  <2>1. c \in beats[x] \/ (x = w /\ c.job = b.job /\ c.fence = b.fence)
    BY <1>2 DEF Employed
  <2>2. HeldBy(x, c)
    BY <2>1 DEF Employed, HeldBy
  <2> QED BY <2>2, HeldStays DEF Employed
<1>5. ASSUME NEW x \in Workers
      PROVE  IF main'[x].pc \in Resting THEN main'[x].job = NULL
             ELSE /\ main'[x].job \in Jobs
                  /\ main'[x].fence \in 1..Len(granted'[main'[x].job])
                  /\ granted'[main'[x].job][main'[x].fence] = x
  BY HeldStays DEF Employed
<1> QED BY <1>3, <1>4, <1>5 DEF Employed, HeldBy

\* claim grants the lease that both threads of a new run_once start with.
LEMMA EmployedTake ==
    ASSUME Employed, NEW w \in Workers, NEW d \in Lags, Take(w, d) PROVE Employed'
<1>1. Claim(w, d)
  BY DEF Take, Claim
<1>2. Counted /\ [QueueNext]_queueVars
  BY <1>1 DEF QueueNext, Employed
<1>3. Counted'
  BY <1>2, CountedStep
<1>4. stop' \in [Workers -> BOOLEAN] /\ told' \in [Workers -> BOOLEAN]
  BY DEF Employed, Take
<1>5. CASE UNCHANGED <<main, beats>>
  <2>1. \A x \in Workers : \A t : HeldBy(x, t) =>
           /\ t.job \in Jobs /\ t.fence \in 1..Len(granted'[t.job])
           /\ granted'[t.job][t.fence] = x
    BY <1>2, HeldStays
  <2> QED BY <1>3, <1>4, <1>5, <2>1 DEF Employed, HeldBy
<1>6. ASSUME NEW j \in Jobs, ClaimJob(j, w, d),
             main' = [main EXCEPT ![w] = At("entry", j, job'[j].fence)],
             beats' = [beats EXCEPT ![w] = @ \cup {At("wait", j, job'[j].fence)}]
      PROVE  Employed'
  <2>1. granted' = [granted EXCEPT ![j] = Append(@, w)]
    BY <1>6 DEF ClaimJob, Lease
  <2>2. /\ granted \in [Jobs -> Seq(Workers)] /\ granted' \in [Jobs -> Seq(Workers)]
        /\ job'[j] \in JobRow /\ job'[j].fence = Len(granted'[j])
    BY <1>2, <1>3 DEF Counted, QueueTypeOK, AttemptsCounted
  <2>3. granted'[j] = Append(granted[j], w) /\ granted[j] \in Seq(Workers)
    BY <2>1, <2>2
  <2> DEFINE f == job'[j].fence
  <2>4. f \in 0..MaxAttempts /\ f \in 1..Len(granted'[j]) /\ granted'[j][f] = w
    BY <2>2, <2>3 DEF JobRow
  <2>5. /\ At("entry", j, f) \in [pc : Pcs, job : Jobs \cup {NULL}, fence : 0..MaxAttempts]
        /\ At("wait", j, f) \in [pc : {"wait", "beat"}, job : Jobs, fence : 0..MaxAttempts]
        /\ At("entry", j, f).pc \notin Resting
        /\ At("entry", j, f).job = j /\ At("entry", j, f).fence = f
        /\ At("wait", j, f).job = j /\ At("wait", j, f).fence = f
    BY <2>4 DEF At, Pcs, Resting
  <2> HIDE DEF f
  <2>6. /\ main' \in [Workers -> [pc : Pcs, job : Jobs \cup {NULL}, fence : 0..MaxAttempts]]
        /\ beats' \in [Workers -> SUBSET [pc : {"wait", "beat"}, job : Jobs, fence : 0..MaxAttempts]]
    BY <1>6, <2>5 DEF Employed, f
  <2>7. ASSUME NEW x \in Workers
        PROVE  IF main'[x].pc \in Resting THEN main'[x].job = NULL
               ELSE /\ main'[x].job \in Jobs
                    /\ main'[x].fence \in 1..Len(granted'[main'[x].job])
                    /\ granted'[main'[x].job][main'[x].fence] = x
    <3>1. CASE x = w
      <4>1. main'[x] = At("entry", j, f)
        BY <1>6, <3>1 DEF Employed, f
      <4> QED BY <4>1, <3>1, <2>4, <2>5
    <3>2. CASE x # w
      <4>1. main'[x] = main[x]
        BY <1>6, <3>2 DEF Employed
      <4> QED BY <4>1, <1>2, HeldStays DEF Employed
    <3> QED BY <3>1, <3>2
  <2>8. ASSUME NEW x \in Workers, NEW b \in beats'[x]
        PROVE  /\ b.job \in Jobs /\ b.fence \in 1..Len(granted'[b.job])
               /\ granted'[b.job][b.fence] = x
    <3>1. b \in beats[x] \/ (x = w /\ b = At("wait", j, f))
      BY <1>6 DEF Employed, f
    <3>2. CASE b \in beats[x]
      <4>1. HeldBy(x, b)
        BY <3>2 DEF Employed
      <4> QED BY <4>1, <1>2, HeldStays
    <3>3. CASE x = w /\ b = At("wait", j, f)
      BY <3>3, <2>4, <2>5
    <3> QED BY <3>1, <3>2, <3>3
  <2> QED BY <1>3, <1>4, <2>6, <2>7, <2>8 DEF Employed, HeldBy
<1> QED BY <1>5, <1>6 DEF Take

\* A process that stops, dies or is started again has no lease in hand.
LEMMA EmployedInterrupted ==
    ASSUME Employed, NEW w \in Workers, RequestStop(w) \/ Crash(w) \/ Restart(w)
    PROVE  Employed'
<1>1. /\ UNCHANGED queueVars
      /\ UNCHANGED main \/ main' = [main EXCEPT ![w] = Idle] \/ main' = [main EXCEPT ![w] = Down]
      /\ UNCHANGED beats \/ beats' = [beats EXCEPT ![w] = {}]
      /\ stop' \in [Workers -> BOOLEAN] /\ told' \in [Workers -> BOOLEAN]
  BY DEF Employed, RequestStop, Crash, Restart
<1>2. ASSUME NEW t \in {Idle, Down}
      PROVE  /\ t \in [pc : Pcs, job : Jobs \cup {NULL}, fence : 0..MaxAttempts]
             /\ t.pc \in Resting /\ t.job = NULL
  BY <1>2 DEF Idle, Down, At, Pcs, Resting
<1>3. /\ main' \in [Workers -> [pc : Pcs, job : Jobs \cup {NULL}, fence : 0..MaxAttempts]]
      /\ \A x \in Workers : main'[x] \in {main[x], Idle, Down}
  BY <1>1, <1>2 DEF Employed
<1>4. /\ beats' \in [Workers -> SUBSET [pc : {"wait", "beat"}, job : Jobs, fence : 0..MaxAttempts]]
      /\ \A x \in Workers : beats'[x] \subseteq beats[x]
  <2>1. beats \in [Workers -> SUBSET [pc : {"wait", "beat"}, job : Jobs, fence : 0..MaxAttempts]]
    BY DEF Employed
  <2> QED BY <1>1, <2>1
<1>5. Counted' /\ UNCHANGED granted
  BY <1>1, CountedStep DEF Employed, queueVars
<1>6. ASSUME NEW x \in Workers
      PROVE  /\ IF main'[x].pc \in Resting THEN main'[x].job = NULL
                ELSE /\ main'[x].job \in Jobs
                     /\ main'[x].fence \in 1..Len(granted[main'[x].job])
                     /\ granted[main'[x].job][main'[x].fence] = x
             /\ \A b \in beats'[x] : HeldBy(x, b)
  BY <1>2, <1>3, <1>4 DEF Employed, HeldBy
<1> QED BY <1>1, <1>3, <1>4, <1>5, <1>6 DEF Employed, HeldBy

\* Every step of a process keeps its threads employed as above.
LEMMA EmployedStep == Employed /\ [WorkerNext]_vars => Employed'
<1> SUFFICES ASSUME Employed, [WorkerNext]_vars PROVE Employed'
  OBVIOUS
<1>1. CASE UNCHANGED vars
  BY <1>1 DEF vars, workerVars, queueVars, Employed, HeldBy, Counted, QueueTypeOK, AttemptsCounted
<1>2. CASE WorkerNext
  <2>1. [QueueNext]_queueVars /\ Counted'
    BY <1>2, WorkerMayCall, CountedStep DEF Employed
  <2>2. CASE UNCHANGED workerVars
    <3>1. ASSUME NEW x \in Workers, NEW t, HeldBy(x, t)
          PROVE  /\ t.job \in Jobs /\ t.fence \in 1..Len(granted'[t.job])
                 /\ granted'[t.job][t.fence] = x
      BY <2>1, <3>1, HeldStays DEF Employed
    <3> QED BY <2>1, <2>2, <3>1 DEF workerVars, Employed, HeldBy
  <2>3. ASSUME NEW w \in Workers, NEW d \in Lags,
               \/ Enter(w, d) \/ Exit(w, d) \/ Finish(w, d) \/ Report(w, d)
               \/ SettleLease(w, d) \/ HandlerWrites(w, d) \/ HandlerEnds(w) \/ Settle(w)
        PROVE  Employed'
    <3>1. /\ UNCHANGED beats /\ main[w].pc \notin Resting
          /\ stop' \in [Workers -> BOOLEAN] /\ told' \in [Workers -> BOOLEAN]
      BY <2>3 DEF Employed, Enter, Exit, Checkpoint, Finish, Report, SettleLease, HandlerWrites,
                  HandlerEnds, Settle, Stands, Resting
    <3>2. \/ \E next \in Pcs \ Resting : Goto(w, next)
          \/ Return(w)
          \/ UNCHANGED main
      BY <2>3 DEF Enter, Exit, Checkpoint, Finish, Report, SettleLease, HandlerWrites,
                  HandlerEnds, Settle, Pcs, Resting
    <3> QED BY <2>1, <3>1, <3>2, GoesOn
  <2>4. ASSUME NEW w \in Workers, NEW b \in beats[w], NEW d \in Lags,
               Wake(w, b, d) \/ Beat(w, b, d) \/ BeatBreaks(w, b)
        PROVE  Employed'
    <3>1. UNCHANGED <<main, stop>> /\ told' \in [Workers -> BOOLEAN]
      BY <2>4 DEF Wake, Beat, BeatBreaks, BeatEnds, Employed
    <3>2. \/ beats' = [beats EXCEPT ![w] = @ \ {b}]
          \/ \E pc \in {"wait", "beat"} :
                beats' = [beats EXCEPT ![w] = (@ \ {b}) \cup {At(pc, b.job, b.fence)}]
      BY <2>4 DEF Wake, Beat, BeatBreaks, BeatEnds
    <3> QED BY <2>1, <3>1, <3>2, BeatsGoOn
  <2>5. 0 \in Lags
    BY DEF Lags
  <2> QED
    BY <1>2, <2>2, <2>3, <2>4, <2>5, EmployedTake, EmployedInterrupted
       DEF WorkerNext, Works, Beats, Submit, Cancel, Clock
<1> QED BY <1>1, <1>2

\* Threads are where the code can be and hold leases they were granted, in
\* every reachable state, on either backend (run_once, maintain_lease).
THEOREM WorkersEmployed == WorkerSpec => []Employed
  BY EmployedInit, EmployedStep, PTL DEF WorkerSpec

\* Whatever a thread holds is a lease of its own process (claim, maintain_lease).
THEOREM WorkerTypes == WorkerSpec => []WorkerTypeOK
<1>1. Employed => WorkerTypeOK
  BY DEF Employed, Counted, HeldBy, WorkerTypeOK, Resting
<1> QED BY <1>1, WorkersEmployed, PTL

\* However processes stop, crash and are started again, and however their
\* threads interleave, they use the queue as JobQueue allows: what is proved
\* of every use of the queue holds of theirs.
THEOREM WorkersUseTheQueue == WorkerSpec => QueueSpec
<1>1. Employed /\ [WorkerNext]_vars => [QueueNext]_queueVars
  BY WorkerMayCall DEF vars
<1>2. WorkerInit => QueueInit
  BY DEF WorkerInit
<1> QED BY <1>1, <1>2, WorkersEmployed, PTL DEF WorkerSpec, QueueSpec

\* So no process that stalls or comes back writes over its successor's work
\* (publication, complete, fail, abandon and acknowledge_cancel as run_once and
\* _settle call them).
THEOREM WorkersAreFenced == WorkerSpec => EffectsFenced
  BY WorkersUseTheQueue, QueueEffectsFenced, PTL

\* And on SQLite whatever they settle stays settled.
THEOREM WorkersSettleForGood ==
    ASSUME Backend = "sqlite" PROVE WorkerSpec => TerminalIsFinal
  BY WorkersUseTheQueue, QueueTerminalIsFinal, PTL

\* One step of the processes keeps every running handler watched.
LEMMA WatchedStep ==
    Employed /\ HandlerIsWatched /\ [WorkerNext]_vars => HandlerIsWatched'
<1> SUFFICES ASSUME Employed, HandlerIsWatched, [WorkerNext]_vars,
                    NEW x \in Workers,
                    main'[x].pc \in {"entry", "handling", "exit", "publishing", "error"}
             PROVE  told'[x] \/ \E c \in beats'[x] :
                       main'[x].job = c.job /\ main'[x].fence = c.fence
  BY DEF HandlerIsWatched, Finished
<1> DEFINE Watched == told[x] \/ \E c \in beats[x] : main[x].job = c.job /\ main[x].fence = c.fence
           Running == {"entry", "handling", "exit", "publishing", "error"}
<1>0. /\ main[x].pc \in Running => Watched
      /\ main \in [Workers -> [pc : Pcs, job : Jobs \cup {NULL}, fence : 0..MaxAttempts]]
      /\ beats \in [Workers -> SUBSET [pc : {"wait", "beat"}, job : Jobs, fence : 0..MaxAttempts]]
      /\ told \in [Workers -> BOOLEAN]
  BY DEF HandlerIsWatched, Finished, Employed
<1>1. CASE UNCHANGED <<main, beats, told>>
  BY <1>0, <1>1
<1>2. ASSUME NEW w \in Workers, NEW d \in Lags, Take(w, d)
      PROVE  told'[x] \/ \E c \in beats'[x] : main'[x].job = c.job /\ main'[x].fence = c.fence
  <2>1. CASE UNCHANGED <<main, beats, told>>
    BY <2>1, <1>1
  <2>2. ASSUME NEW j \in Jobs, NEW f,
               main' = [main EXCEPT ![w] = At("entry", j, f)],
               beats' = [beats EXCEPT ![w] = @ \cup {At("wait", j, f)}],
               told' = [told EXCEPT ![w] = FALSE]
        PROVE  told'[x] \/ \E c \in beats'[x] : main'[x].job = c.job /\ main'[x].fence = c.fence
    <3>1. CASE x = w
      <4>1. main'[x] = At("entry", j, f) /\ At("wait", j, f) \in beats'[x]
        BY <1>0, <2>2, <3>1
      <4> QED BY <4>1 DEF At
    <3>2. CASE x # w
      <4>1. main'[x] = main[x] /\ beats'[x] = beats[x] /\ told'[x] = told[x]
        BY <1>0, <2>2, <3>2
      <4> QED BY <1>0, <4>1
    <3> QED BY <3>1, <3>2
  <2> QED BY <1>2, <2>1, <2>2 DEF Take
<1>3. ASSUME NEW w \in Workers, NEW d \in Lags,
             \/ Enter(w, d) \/ Exit(w, d) \/ Finish(w, d) \/ Report(w, d)
             \/ SettleLease(w, d) \/ HandlerWrites(w, d) \/ HandlerEnds(w) \/ Settle(w)
      PROVE  told'[x] \/ \E c \in beats'[x] : main'[x].job = c.job /\ main'[x].fence = c.fence
  <2>1. UNCHANGED beats /\ told' \in [Workers -> BOOLEAN] /\ (told[x] => told'[x])
    BY <1>3, <1>0 DEF Enter, Exit, Checkpoint, Finish, Report, SettleLease, HandlerWrites,
                      HandlerEnds, Settle
  <2>2. \/ UNCHANGED main
        \/ Return(w)
        \/ main[w].pc \in Running /\ \E next \in Pcs : Goto(w, next)
        \/ \E next \in Pcs \ Running : Goto(w, next)
    BY <1>3 DEF Enter, Exit, Checkpoint, Finish, Report, SettleLease, HandlerWrites,
                HandlerEnds, Settle, Stands, Pcs
  <2>3. /\ main[x].pc \in Running
        /\ main'[x].job = main[x].job /\ main'[x].fence = main[x].fence
    BY <1>0, <2>2 DEF Goto, Return, Idle, At
  <2> QED BY <1>0, <2>1, <2>3
<1>4. ASSUME NEW w \in Workers, NEW b \in beats[w], BeatEnds(w, b), UNCHANGED main
      PROVE  told'[x] \/ \E c \in beats'[x] : main'[x].job = c.job /\ main'[x].fence = c.fence
  BY <1>0, <1>4 DEF BeatEnds, Finished
<1>5. ASSUME NEW w \in Workers, NEW b \in beats[w], NEW pc, UNCHANGED <<main, told>>,
             beats' = [beats EXCEPT ![w] = (@ \ {b}) \cup {At(pc, b.job, b.fence)}]
      PROVE  told'[x] \/ \E c \in beats'[x] : main'[x].job = c.job /\ main'[x].fence = c.fence
  <2>1. At(pc, b.job, b.fence).job = b.job /\ At(pc, b.job, b.fence).fence = b.fence
    BY DEF At
  <2> QED BY <1>0, <1>5, <2>1
<1>6. ASSUME NEW w \in Workers, NEW b \in beats[w], NEW d \in Lags,
             Wake(w, b, d) \/ Beat(w, b, d) \/ BeatBreaks(w, b)
      PROVE  told'[x] \/ \E c \in beats'[x] : main'[x].job = c.job /\ main'[x].fence = c.fence
  BY <1>4, <1>5, <1>6 DEF Wake, Beat, BeatBreaks
<1>7. ASSUME NEW w \in Workers, Crash(w) \/ Restart(w)
      PROVE  told'[x] \/ \E c \in beats'[x] : main'[x].job = c.job /\ main'[x].fence = c.fence
  <2>1. x # w /\ main'[x] = main[x] /\ beats'[x] = beats[x] /\ told' = told
    BY <1>0, <1>7 DEF Crash, Restart, Idle, Down, At
  <2> QED BY <1>0, <2>1
<1>8. ASSUME NEW w \in Workers, RequestStop(w) PROVE UNCHANGED <<main, beats, told>>
  BY <1>8 DEF RequestStop
<1>9. 0 \in Lags
  BY DEF Lags
<1> QED
  BY <1>1, <1>2, <1>3, <1>6, <1>7, <1>8, <1>9
     DEF WorkerNext, Works, Beats, Submit, Cancel, Clock, vars, workerVars

\* As long as run_once goes on, either a heartbeat thread keeps its lease or
\* its handler has been told to stop, for any number of processes and jobs and
\* wherever heartbeats fail (maintain_lease, JobContext.checkpoint).
THEOREM HandlersAreWatched == WorkerSpec => []HandlerIsWatched
<1>1. WorkerInit => HandlerIsWatched
  BY DEF WorkerInit, HandlerIsWatched, Idle, At
<1> QED BY <1>1, WatchedStep, WorkersEmployed, PTL DEF WorkerSpec
=============================================================================
