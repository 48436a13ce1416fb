----------------------------- MODULE MCBackground -----------------------------
(***************************************************************************)
(* What happens behind the api, checked in one run: the queue, the sweeps  *)
(* of schedules and the runs they lead to, the conversations with remote   *)
(* agents and the material of the installation.                            *)
(* The components share no state: the initial state picks the one in       *)
(* focus, and the others rest in an initial state.                         *)
(***************************************************************************)
EXTENDS MCJobQueue, ScheduledRuns, Conversations, Installation

VARIABLE focus   \* the component that takes steps

backgroundVars == <<focus, queueVars, schedulingVars, conversationsVars, installVars>>

\* A request that may be planned, and those that differ from it in one point.
SoundProposal ==
    [project |-> "ours", required |-> TRUE, source |-> "none", target |-> "verified",
     evidence |-> "observed", evaluator |-> "approved", limits |-> "valid"]
MCProposals ==
    {[SoundProposal EXCEPT !.project = x] : x \in {"none", "ours", "foreign"}}
    \cup {[SoundProposal EXCEPT !.source = x] : x \in {"executable", "draft"}}
    \cup {[SoundProposal EXCEPT !.target = x] : x \in {"none", "wrong_kind", "unverified", "stale"}}
    \cup {[SoundProposal EXCEPT !.evaluator = "unfit"], [SoundProposal EXCEPT !.limits = "invalid"],
          [SoundProposal EXCEPT !.required = FALSE], [SoundProposal EXCEPT !.evidence = "lacking"]}

\* Scripts that are sound, that answer what was not asked, that wait twice.
MCScripts ==
    {<<>>, <<"turn", "turn">>, <<"wait", "answer">>, <<"wait", "answer", "wait", "answer">>,
     <<"answer">>, <<"wait", "wait">>}

BackgroundInit ==
    /\ focus \in {"queue", "scheduling", "conversations", "installation"}
    /\ QueueInit
    /\ SchedulingInit
    /\ ConversationsInit /\ (focus = "conversations" \/ stream = "open")
    /\ InstallInit /\ (focus = "installation" \/ (locked /\ keyFile = Nothing))

BackgroundNext ==
    /\ UNCHANGED focus
    /\ \/ /\ focus = "queue" /\ QueueNext
          /\ UNCHANGED <<schedulingVars, conversationsVars, installVars>>
       \/ /\ focus = "scheduling" /\ SchedulingNext
          /\ UNCHANGED <<queueVars, conversationsVars, installVars>>
       \/ /\ focus = "conversations" /\ ConversationsNext
          /\ UNCHANGED <<queueVars, schedulingVars, installVars>>
       \/ /\ focus = "installation" /\ InstallNext
          /\ UNCHANGED <<queueVars, schedulingVars, conversationsVars>>

BackgroundSpec == BackgroundInit /\ [][BackgroundNext]_backgroundVars
=============================================================================
