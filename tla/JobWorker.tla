----------------------------- MODULE JobWorker ------------------------------
(***************************************************************************)
(* Worker processes on top of the job queue (worker_service.py,            *)
(* WorkerService.run_once and run_forever). Each process has a main thread *)
(* that claims a job, runs its handler between checkpoints and completes,  *)
(* fails or settles it, and one heartbeat thread per run_once, which may   *)
(* outlive it: join waits two seconds only. Processes crash, are asked to  *)
(* stop, and are started again.                                            *)
(***************************************************************************)
EXTENDS JobQueue, FiniteSets

CONSTANT MaxInterruptions   \* bound on crashes, stops and heartbeat errors together

ASSUME WorkerAssumption == MaxInterruptions \in Nat

VARIABLES
    main,          \* per process, the main thread: pc and the lease it holds
    beats,         \* per process, its heartbeat threads
    stop,          \* per process, the stop event
    told,          \* per process, cancellation_event of its current run_once
    interruptions  \* crashes, stop requests and heartbeat errors so far

workerVars == <<main, beats, stop, told, interruptions>>
vars == <<queueVars, workerVars>>

At(pc, j, f) == [pc |-> pc, job |-> j, fence |-> f]
Idle == At("idle", NULL, 0)
Down == At("down", NULL, 0)

Pcs == {"idle", "down", "entry", "handling", "exit", "publishing", "error",
        "settle", "settleStopped", "acknowledge", "abandon"}

WorkerInit ==
    /\ QueueInit
    /\ main = [w \in Workers |-> Idle]
    /\ beats = [w \in Workers |-> {}]
    /\ stop = [w \in Workers |-> FALSE]
    /\ told = [w \in Workers |-> FALSE]
    /\ interruptions = 0

\* The main thread of w stands at pc; it goes on to next, keeping its lease.
Stands(w, pc) == main[w].pc = pc
Goto(w, next) == main' = [main EXCEPT ![w].pc = next]
Return(w) == main' = [main EXCEPT ![w] = Idle]

\* Active for the lease a main thread holds.
HoldsActive(w, d) == Active(main[w].job, main[w].fence, d)

-----------------------------------------------------------------------------
Submit(j, max) == Enqueue(j, max) /\ UNCHANGED workerVars

\* request_cancel is the api's call; on PostgreSQL its two statements have other
\* processes' transactions between them.
Cancel(j) ==
    /\ \/ RequestCancel(j)
       \/ CancelRead(j)
       \/ \E seen \in {"queued", "leased"} : CancelWrite(j, seen)
    /\ UNCHANGED workerVars

\* run_once: claim, then start the heartbeat thread.
Take(w, d) ==
    /\ Stands(w, "idle") /\ ~stop[w]
    /\ \/ \E j \in Jobs :
             /\ ClaimJob(j, w, d)
             /\ main' = [main EXCEPT ![w] = At("entry", j, job'[j].fence)]
             /\ beats' = [beats EXCEPT ![w] = @ \cup {At("wait", j, job'[j].fence)}]
             /\ told' = [told EXCEPT ![w] = FALSE]
       \/ ClaimNothing(d) /\ UNCHANGED <<main, beats, told>>
    /\ UNCHANGED <<stop, interruptions>>

\* checkpoint(): WorkerStopping, StaleLease or WorkerCancelled set the event
\* and leave for _settle; otherwise the thread goes on.
Checkpoint(w, d, next) ==
    /\ Goto(w, IF stop[w] THEN "settleStopped"
               ELSE IF HoldsActive(w, d) THEN next ELSE "settle")
    /\ told' = [told EXCEPT ![w] = @ \/ stop[w] \/ ~HoldsActive(w, d)]
    /\ UNCHANGED <<queueVars, beats, stop, interruptions>>

Enter(w, d) == Stands(w, "entry") /\ Checkpoint(w, d, "handling")

\* The handler writes through LeasedStorage; a refused write raises.
HandlerWrites(w, d) ==
    /\ Stands(w, "handling")
    /\ IF HoldsActive(w, d)
       THEN Publish(main[w].job, main[w].fence, d) /\ UNCHANGED main
       ELSE Goto(w, "settle") /\ UNCHANGED queueVars
    /\ UNCHANGED <<beats, stop, told, interruptions>>

\* The handler returns a result, raises, or honours context.checkpoint().
HandlerEnds(w) ==
    /\ Stands(w, "handling")
    /\ \E next \in {"exit", "error"} \cup (IF stop[w] THEN {"settleStopped"} ELSE {}) :
          Goto(w, next)
    /\ UNCHANGED <<queueVars, beats, stop, told, interruptions>>

Exit(w, d) == Stands(w, "exit") /\ Checkpoint(w, d, "publishing")

\* publication(completing=True): the checkpoint inside it sees a stop request;
\* a lease that is not active any more rolls everything back.
Finish(w, d) ==
    /\ Stands(w, "publishing")
    /\ IF stop[w] \/ ~HoldsActive(w, d)
       THEN /\ Goto(w, IF HoldsActive(w, d) THEN "settleStopped" ELSE "settle")
            /\ UNCHANGED queueVars
       ELSE /\ Complete(main[w].job, main[w].fence, d)
            /\ Return(w)
    /\ UNCHANGED <<beats, stop, told, interruptions>>

\* except Exception: checkpoint, then fail; both may find the lease gone.
Report(w, d) ==
    /\ Stands(w, "error")
    /\ IF stop[w] THEN Goto(w, "settleStopped") /\ UNCHANGED queueVars
       ELSE IF HoldsActive(w, d)
            THEN Fail(main[w].job, main[w].fence, d) /\ Return(w)
            ELSE Goto(w, "settle") /\ UNCHANGED queueVars
    /\ UNCHANGED <<beats, stop, told, interruptions>>

\* _settle: look at the row ...
Settle(w) ==
    /\ main[w].pc \in {"settle", "settleStopped"}
    /\ LET row == job[main[w].job] IN
       IF row.status # "leased" \/ row.fence # main[w].fence THEN Return(w)
       ELSE IF row.cancel THEN Goto(w, "acknowledge")
       ELSE IF Stands(w, "settleStopped") THEN Goto(w, "abandon")
       ELSE Return(w)
    /\ UNCHANGED <<queueVars, beats, stop, told, interruptions>>

\* ... then end the lease in a transaction of its own; a StaleLease is ignored.
SettleLease(w, d) ==
    LET j == main[w].job
        f == main[w].fence IN
    /\ main[w].pc \in {"acknowledge", "abandon"}
    /\ IF job[j].status # "leased" \/ job[j].fence # f THEN UNCHANGED queueVars
       ELSE IF Stands(w, "acknowledge") THEN AcknowledgeCancel(j, f) ELSE Abandon(j, f, d)
    /\ Return(w)
    /\ UNCHANGED <<beats, stop, told, interruptions>>

\* The heartbeat thread b serves a run_once that has returned.
Finished(w, b) == main[w].job # b.job \/ main[w].fence # b.fence

\* Mutant of BeatEnds: the thread ends without a word.
BeatEndsSilently(w, b) ==
    /\ beats' = [beats EXCEPT ![w] = @ \ {b}]
    /\ UNCHANGED told

\* except Exception in maintain_lease: set the event of its own run_once, end.
BeatEnds(w, b) ==
    /\ beats' = [beats EXCEPT ![w] = @ \ {b}]
    /\ told' = [told EXCEPT ![w] = @ \/ ~Finished(w, b)]

\* The heartbeat thread wakes; it ends if its run_once has finished or a
\* checkpoint raises, and goes on to renew the lease otherwise.
Wake(w, b, d) ==
    /\ b \in beats[w] /\ b.pc = "wait"
    /\ IF Finished(w, b) \/ stop[w] \/ ~Active(b.job, b.fence, d)
       THEN BeatEnds(w, b)
       ELSE /\ beats' = [beats EXCEPT ![w] = (@ \ {b}) \cup {At("beat", b.job, b.fence)}]
            /\ UNCHANGED told
    /\ UNCHANGED <<queueVars, main, stop, interruptions>>

Beat(w, b, d) ==
    /\ b \in beats[w] /\ b.pc = "beat"
    /\ IF Owns(b.job, b.fence, d)
       THEN /\ Heartbeat(b.job, b.fence, d)
            /\ beats' = [beats EXCEPT ![w] = (@ \ {b}) \cup {At("wait", b.job, b.fence)}]
            /\ UNCHANGED told
       ELSE BeatEnds(w, b) /\ UNCHANGED queueVars
    /\ UNCHANGED <<main, stop, interruptions>>

\* The database fails under the heartbeat thread ("an uncertain database
\* connection must never permit work to publish").
BeatBreaks(w, b) ==
    /\ b \in beats[w] /\ interruptions < MaxInterruptions
    /\ BeatEnds(w, b)
    /\ interruptions' = interruptions + 1
    /\ UNCHANGED <<queueVars, main, stop>>

-----------------------------------------------------------------------------
RequestStop(w) ==
    /\ ~stop[w] /\ main[w] # Down /\ interruptions < MaxInterruptions
    /\ stop' = [stop EXCEPT ![w] = TRUE]
    /\ interruptions' = interruptions + 1
    /\ UNCHANGED <<queueVars, main, beats, told>>

Crash(w) ==
    /\ main[w] # Down /\ interruptions < MaxInterruptions
    /\ main' = [main EXCEPT ![w] = Down]
    /\ beats' = [beats EXCEPT ![w] = {}]
    /\ interruptions' = interruptions + 1
    /\ UNCHANGED <<queueVars, stop, told>>

\* run_forever leaves its loop, or the process is gone; a supervisor starts a
\* new one in its place.
Restart(w) ==
    /\ main[w] = Down \/ (Stands(w, "idle") /\ stop[w])
    /\ main' = [main EXCEPT ![w] = Idle]
    /\ beats' = [beats EXCEPT ![w] = {}]
    /\ stop' = [stop EXCEPT ![w] = FALSE]
    /\ UNCHANGED <<queueVars, told, interruptions>>

Clock == Tick /\ UNCHANGED workerVars

\* What a process does on its own, once it is scheduled.
Works(w) ==
    \/ \E d \in Lags : \/ Take(w, d) \/ Enter(w, d) \/ Exit(w, d) \/ Finish(w, d)
                       \/ Report(w, d) \/ SettleLease(w, d)
    \/ HandlerEnds(w)
    \/ Settle(w)
    \/ Restart(w)

Beats(w) == \E b \in beats[w], d \in Lags : Wake(w, b, d) \/ Beat(w, b, d)

WorkerNext ==
    \/ \E j \in Jobs, max \in 1..MaxAttempts : Submit(j, max)
    \/ \E j \in Jobs : Cancel(j)
    \/ \E w \in Workers : Works(w) \/ Beats(w) \/ RequestStop(w) \/ Crash(w)
    \/ \E w \in Workers, d \in Lags : HandlerWrites(w, d)
    \/ \E w \in Workers : \E b \in beats[w] : BeatBreaks(w, b)
    \/ Clock

\* The clock advances, every scheduled thread runs, handlers end (their own
\* operations are bounded by timeouts) and processes are started again.
WorkerSpec ==
    /\ WorkerInit /\ [][WorkerNext]_vars
    /\ WF_vars(Clock)
    /\ \A w \in Workers : WF_vars(Works(w)) /\ WF_vars(Beats(w))

-----------------------------------------------------------------------------
\* Threads are where the code can be, and every lease a process acts on is one
\* it was granted.
WorkerTypeOK ==
    /\ QueueTypeOK
    /\ main \in [Workers -> [pc : Pcs, job : Jobs \cup {NULL}, fence : 0..MaxAttempts]]
    /\ \A w \in Workers :
          /\ \A b \in beats[w] : b.pc \in {"wait", "beat"} /\ granted[b.job][b.fence] = w
          /\ main[w].job # NULL => granted[main[w].job][main[w].fence] = w
    /\ stop \in [Workers -> BOOLEAN] /\ told \in [Workers -> BOOLEAN]

\* Every job somebody enqueued is settled in the end ("bounded retry and one
\* terminal transition"). The code violates it on PostgreSQL (README.md, 4).
JobsSettle ==
    \A j \in Jobs : (job[j].status # "absent") ~> (job[j].status \in Terminal)

\* It holds whatever crashes and stops happen in between (run_forever,
\* _expire_and_cancel), except of a job stranded by a cancellation
\* on PostgreSQL: a request_cancel that read a leased row and writes after the
\* sweep requeued the job leaves the row leased without an expiry, which no sweep
\* finds and no claim takes (jobs.py:144-168, 317-330).
Stranded(j) == Backend # "sqlite" /\ job[j].status = "leased" /\ job[j].left = NULL
EveryJobSettles ==
    \A j \in Jobs : (job[j].status # "absent") ~> (job[j].status \in Terminal \/ Stranded(j))

\* A running handler is watched: as long as run_once goes on, a heartbeat
\* thread keeps its lease, or its cancellation_event is set (maintain_lease
\* ends on any exception, and JobContext.checkpoint before it raises).
HandlerIsWatched ==
    \A w \in Workers :
        main[w].pc \in {"entry", "handling", "exit", "publishing", "error"} =>
            told[w] \/ \E b \in beats[w] : ~Finished(w, b)
=============================================================================
