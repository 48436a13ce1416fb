---------------------------- MODULE JobLifecycle ----------------------------
(***************************************************************************)
(* What the durable job queue promises its callers, without leases, clocks *)
(* or databases: a job is submitted once, is started at most MaxAttempts   *)
(* times, is written to only by its newest start, and is settled once.     *)
(* Several jobs may change in one step, because one claim transaction      *)
(* sweeps every lapsed lease (jobs.py, _expire_and_cancel) before it       *)
(* starts a job.                                                           *)
(***************************************************************************)
EXTENDS Naturals

CONSTANTS Jobs, MaxAttempts

VARIABLE life

Outcomes == {"completed", "failed", "cancelled"}

\* epoch: how often the job was started; wrote: the epoch of its last effect;
\* wanted: whether somebody asked for its cancellation.
Life == [phase : {"absent", "open"} \cup Outcomes, epoch : 0..MaxAttempts,
         wrote : 0..MaxAttempts, wanted : BOOLEAN]

At(phase, epoch, wrote, wanted) ==
    [phase |-> phase, epoch |-> epoch, wrote |-> wrote, wanted |-> wanted]

Unborn == At("absent", 0, 0, FALSE)

Init == life = [j \in Jobs |-> Unborn]

Submitted(a, b) == a = Unborn /\ b = At("open", 0, 0, FALSE)

Started(a, b) ==
    /\ a.phase = "open" /\ ~a.wanted
    /\ b = At("open", a.epoch + 1, a.wrote, FALSE)

Wrote(a, b) ==
    /\ a.phase = "open" /\ ~a.wanted /\ a.epoch > 0
    /\ b = At("open", a.epoch, a.epoch, FALSE)

CancelWanted(a, b) ==
    /\ a.phase = "open"
    /\ b = At("open", a.epoch, a.wrote, TRUE)

\* Completion publishes the result in the same step; it and failure need a
\* start. A job whose cancellation is wanted settles as cancelled and as
\* nothing else.
Settled(a, b) ==
    /\ a.phase = "open"
    /\ \/ ~a.wanted /\ a.epoch > 0 /\ b = At("completed", a.epoch, a.epoch, FALSE)
       \/ ~a.wanted /\ a.epoch > 0 /\ b = At("failed", a.epoch, a.wrote, FALSE)
       \/ b = At("cancelled", a.epoch, a.wrote, TRUE)

Allowed(a, b) ==
    \/ b = a
    \/ Submitted(a, b)
    \/ Started(a, b)
    \/ Wrote(a, b)
    \/ CancelWanted(a, b)
    \/ Settled(a, b)

Next ==
    /\ life' \in [Jobs -> Life]
    /\ \A j \in Jobs : Allowed(life[j], life'[j])

Spec == Init /\ [][Next]_life
=============================================================================
