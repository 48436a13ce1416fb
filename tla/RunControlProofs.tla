-------------------------- MODULE RunControlProofs ---------------------------
(***************************************************************************)
(* Theorems about how runs come about. RunControl, for any requests and    *)
(* any number of leases and faults: types, one writer, a reachable worker, *)
(* a completed job. ScheduledRuns, for any days, sweepers, submissions and *)
(* any number of leases and mishaps: a due day is measured by one run of   *)
(* its own.                                                                *)
(***************************************************************************)
EXTENDS RunControl, ScheduledRuns, FiniteSetTheorems, TLAPS

CallAt == {"new", "read", "register", "queue", "launch", "started", "look", "fire",
           "pending", "direct", "cancelled", "refused"}

ExecRecord == [at : ExecAt, saw : RunStatus, event : BOOLEAN, stop : BOOLEAN]
CallRecord == [kind : {"none", "start", "cancel", "resume"}, at : CallAt, event : Calls \cup {NoCall}]

\* ControlTypeOK, with the domains of the functions.
Typed ==
    /\ release \in BOOLEAN /\ status \in RunStatus /\ slot \in Calls \cup {NoCall}
    /\ call \in [Calls -> CallRecord]
    /\ exec \in [Execs -> ExecRecord]
    /\ job \in [phase : {"none", "open", "completed", "failed"}, fence : 0..MaxStarts, held : BOOLEAN]

\* A release has no threads of the api, development no leases.
OneMode ==
    /\ release => \A c \in Calls : exec[c].at = "none" /\ call[c].kind \in {"none", "cancel"}
    /\ ~release => job.phase = "none" /\ \A f \in Leases : exec[f].at = "none"

\* A request that registers a thread starts or resumes the run; one that found
\* an event found a thread's.
KindsAgree ==
    \A c \in Calls :
        /\ call[c].at \in {"register", "queue", "launch", "started"} => call[c].kind \in {"start", "resume"}
        /\ call[c].at = "fire" => call[c].event # NoCall
        /\ call[c].kind = "none" => call[c].at = "new"

\* A request holds the registry from the moment it registered until its
\* thread is done; the thread begins last.
Registered ==
    \A c \in Calls :
        /\ Alive(c) => call[c].at = "started"
        /\ Alive(c) \/ call[c].at \in {"queue", "launch"} => slot = c

\* A lease that still counts returns only over an outcome.
ReturnsOverOutcome == \A f \in Leases : exec[f].at = "returns" /\ ~Fenced(f) => Settled

\* No lease outlives its job, and a completed one leaves an outcome.
JobOver ==
    /\ job.phase # "open" => ~job.held
    /\ job.phase = "completed" => Settled

\* The inductive invariant.
Supervised == Typed /\ OneMode /\ KindsAgree /\ Registered /\ ReturnsOverOutcome /\ JobOver

\* A request is no lease, and none stands for the empty registry.
LEMMA Apart == Calls \cap Leases = {} /\ NoCall \notin Calls /\ MaxStarts \in Nat
  BY ControlAssumption DEF Leases

\* The statuses of a run, listed.
LEMMA Statuses ==
  RunStatus = {"absent", "draft", "queued", "provisioning", "running", "aggregating",
               "complete", "failed", "cancelled", "incomplete"}
  BY DEF RunStatus, RunMoves

\* Nothing executes.
LEMMA SupervisedInit == ControlInit => Supervised
<1> SUFFICES ASSUME ControlInit PROVE Supervised
  OBVIOUS
<1>1. Typed
  BY Statuses, Apart DEF ControlInit, Typed, CallRecord, ExecRecord, CallAt, ExecAt
<1>2. OneMode /\ KindsAgree /\ Registered /\ ReturnsOverOutcome /\ JobOver
  BY DEF ControlInit, OneMode, KindsAgree, Registered, ReturnsOverOutcome, JobOver, Execs, Alive
<1> QED
  BY <1>1, <1>2 DEF Supervised

-----------------------------------------------------------------------------
(***************************************************************************)
(* Steps of an execution                                                   *)
(***************************************************************************)
\* The execution e, and no other, goes to the place at.
GoesTo(e, at) ==
    /\ exec' \in [Execs -> ExecRecord]
    /\ exec'[e].at = at
    /\ \A x \in Execs \ {e} : exec'[x] = exec[x]

\* The ways a record of an execution is written put it at a step and leave the
\* rest of it.
LEMMA ExecToGoes ==
  ASSUME Typed, NEW e \in Execs, NEW at \in ExecAt, ExecTo(e, at)
  PROVE  GoesTo(e, at)
  BY DEF Typed, ExecRecord, ExecTo, GoesTo

LEMMA ExecSeesGoes ==
  ASSUME Typed, NEW e \in Execs, NEW at \in ExecAt, NEW saw \in RunStatus,
         exec' = [exec EXCEPT ![e].at = at, ![e].saw = saw]
  PROVE  GoesTo(e, at)
  BY DEF Typed, ExecRecord, GoesTo

LEMMA ExecToldGoes ==
  ASSUME Typed, NEW e \in Execs,
         \/ exec' = [exec EXCEPT ![e].stop = TRUE]
         \/ exec' = [exec EXCEPT ![e].event = TRUE]
  PROVE  exec[e].at \in ExecAt /\ GoesTo(e, exec[e].at)
<1>1. exec[e].at \in ExecAt
  BY DEF Typed, ExecRecord
<1>2. CASE exec' = [exec EXCEPT ![e].stop = TRUE]
  <2>1. exec' \in [Execs -> ExecRecord]
    BY <1>2 DEF Typed, ExecRecord
  <2> QED BY <1>1, <1>2, <2>1 DEF Typed, ExecRecord, GoesTo
<1>3. CASE exec' = [exec EXCEPT ![e].event = TRUE]
  <2>1. exec' \in [Execs -> ExecRecord]
    BY <1>3 DEF Typed, ExecRecord
  <2> QED BY <1>1, <1>3, <2>1 DEF Typed, ExecRecord, GoesTo
<1> QED BY <1>1, <1>2, <1>3

\* An execution that lives moves on: it stores a status only with a lease that
\* counts, and returns only over an outcome.
LEMMA ExecutionMoves ==
  ASSUME Supervised, NEW e \in Execs, Alive(e),
         NEW at \in ExecAt \ {"none"}, GoesTo(e, at),
         UNCHANGED <<release, slot, call, job>>,
         status' \in RunStatus, status' # status => ~Fenced(e),
         e \in Leases /\ at = "returns" /\ ~Fenced(e) => Settled'
  PROVE  Supervised'
<1> USE DEF GoesTo
<1>1. Typed'
  BY DEF Supervised, Typed
<1>2. OneMode'
  BY Apart DEF Supervised, OneMode, Execs, Alive
<1>3. KindsAgree'
  BY DEF Supervised, KindsAgree
<1>4. Registered'
  BY DEF Supervised, Registered, Execs, Alive
<1>5. e \in Leases \/ (e \in Calls /\ ~release)
  BY DEF Supervised, OneMode, Execs, Alive
<1>6. ReturnsOverOutcome'
  <2> SUFFICES ASSUME NEW f \in Leases, exec'[f].at = "returns", ~Fenced(f)
               PROVE  Settled'
    BY DEF ReturnsOverOutcome, Fenced
  <2>1. CASE f = e
    BY <2>1
  <2>2. CASE f # e
    <3>1. exec[f].at = "returns" /\ release
      BY <2>2 DEF Execs, Supervised, OneMode
    <3>2. Fenced(e)
      BY <1>5, <2>2, <3>1 DEF Fenced
    <3> QED BY <3>1, <3>2 DEF Supervised, ReturnsOverOutcome, Settled
  <2> QED BY <2>1, <2>2
<1>7. JobOver'
  <2> SUFFICES ASSUME job.phase = "completed" PROVE Settled'
    BY DEF Supervised, JobOver
  <2>1. release /\ ~job.held
    BY DEF Supervised, OneMode, JobOver
  <2>2. Fenced(e)
    BY <1>5, <2>1 DEF Fenced
  <2> QED BY <2>2 DEF Supervised, JobOver, Settled
<1> QED
  BY <1>1, <1>2, <1>3, <1>4, <1>6, <1>7 DEF Supervised


\* Steps that store no status.
LEMMA QuietStep ==
  ASSUME Supervised, NEW e \in Execs,
         \/ EngineEnter(e) \/ BeginCaseOf(e) \/ EndCaseOf(e) \/ LastCaseOf(e) \/ EngineRaises(e)
  PROVE  Supervised'
<1> Typed
  BY DEF Supervised
<1>1. UNCHANGED <<release, status, slot, call, job>>
  BY DEF EngineEnter, BeginCaseOf, EndCaseOf, LastCaseOf, EngineRaises
<1>2. Alive(e)
  BY DEF EngineEnter, BeginCaseOf, EndCaseOf, LastCaseOf, EngineRaises, Alive
<1>3. PICK at \in ExecAt \ {"none", "returns"} : GoesTo(e, at)
  <2>1. CASE EngineEnter(e)
    <3>1. PICK at \in ExecAt \ {"none", "returns"}, saw \in RunStatus :
            exec' = [exec EXCEPT ![e].at = at, ![e].saw = saw]
      <4> DEFINE next == IF Fenced(e) \/ status \in {"complete", "failed"} THEN "fails"
                         ELSE IF status \in {"cancelled", "incomplete"} THEN "reopen"
                         ELSE IF status \in {"running", "aggregating"} THEN "loop"
                         ELSE "advance"
      <4>1. next \in ExecAt \ {"none", "returns"}
        BY DEF ExecAt
      <4>2. SeenIf(next, status) \in RunStatus
        BY Statuses DEF SeenIf, Typed
      <4>3. exec' = [exec EXCEPT ![e].at = next, ![e].saw = SeenIf(next, status)]
        BY <2>1 DEF EngineEnter
      <4> HIDE DEF next
      <4> QED BY <4>1, <4>2, <4>3
    <3> QED BY <3>1, ExecSeesGoes
  <2>2. CASE BeginCaseOf(e) \/ EndCaseOf(e) \/ LastCaseOf(e) \/ EngineRaises(e)
    <3>1. PICK at \in ExecAt \ {"none", "returns"} : ExecTo(e, at)
      BY <2>2 DEF BeginCaseOf, EndCaseOf, LastCaseOf, EngineRaises, ExecAt
    <3> QED BY <3>1, ExecToGoes
  <2> QED BY <2>1, <2>2
<1> QED
  BY <1>1, <1>2, <1>3, ExecutionMoves DEF Typed

\* Steps that store one, or fail to.
LEMMA WritingStep ==
  ASSUME Supervised, NEW e \in Execs, Alive(e),
         NEW to \in RunStatus, NEW next \in ExecAt \ {"none"}, NEW otherwise \in ExecAt \ {"none", "returns"},
         StatusWrite(e, to, next, otherwise),
         next = "returns" => to \in {"complete", "failed", "cancelled"}
  PROVE  Supervised'
<1> Typed
  BY DEF Supervised
<1>1. UNCHANGED <<release, slot, call, job>>
  BY DEF StatusWrite
<1>2. CASE MayBecome(to) /\ ~Fenced(e)
  <2>1. status' = to /\ exec' = [exec EXCEPT ![e].at = next, ![e].saw = SeenIf(next, to)]
    BY <1>2 DEF StatusWrite
  <2>2. SeenIf(next, to) \in RunStatus
    BY Statuses DEF SeenIf
  <2>3. GoesTo(e, next)
    BY <2>1, <2>2, ExecSeesGoes
  <2> QED
    BY <1>1, <1>2, <2>1, <2>3, ExecutionMoves DEF Settled
<1>3. CASE ~(MayBecome(to) /\ ~Fenced(e))
  <2>1. status' = status /\ exec' = [exec EXCEPT ![e].at = otherwise, ![e].saw = "absent"]
    BY <1>3 DEF StatusWrite
  <2>2. "absent" \in RunStatus
    BY Statuses
  <2>3. GoesTo(e, otherwise)
    BY <2>1, <2>2, ExecSeesGoes
  <2> QED
    BY <1>1, <2>1, <2>3, ExecutionMoves DEF Typed
<1> QED
  BY <1>2, <1>3

\* The engine's storage calls.
LEMMA EngineStep ==
  ASSUME Supervised, NEW e \in Execs,
         \/ EngineReopen(e) \/ EngineAdvance(e) \/ EngineCancel(e) \/ EngineFinalize(e)
         \/ EngineComplete(e) \/ EngineLand(e)
  PROVE  Supervised'
<1>1. Alive(e)
  BY DEF EngineReopen, EngineAdvance, EngineCancel, EngineFinalize, EngineComplete, EngineLand, Alive
<1>2. PICK to \in RunStatus, next \in ExecAt \ {"none"}, otherwise \in ExecAt \ {"none", "returns"} :
        /\ StatusWrite(e, to, next, otherwise)
        /\ next = "returns" => to \in {"complete", "failed", "cancelled"}
  BY Statuses DEF EngineReopen, EngineAdvance, EngineCancel, EngineFinalize, EngineComplete,
     EngineLand, ExecAt
<1> QED
  BY <1>1, <1>2, WritingStep

\* Steps of a worker that lives: it is told to stop, runs execute, or dies.
LEMMA WorkerStep ==
  ASSUME Supervised, NEW f \in Leases,
         StopWorker(f) \/ HeartbeatTells(f) \/ Execute(f) \/ CrashWorker(f)
  PROVE  Supervised'
<1> Typed /\ f \in Execs
  BY DEF Supervised, Execs
<1>1. UNCHANGED <<release, slot, call, job>> /\ Alive(f)
  BY DEF StopWorker, HeartbeatTells, Execute, CrashWorker, Alive
<1>2. CASE StopWorker(f) \/ HeartbeatTells(f)
  <2>1. exec[f].at \in ExecAt \ {"none"} /\ GoesTo(f, exec[f].at) /\ status' = status
    BY <1>1, <1>2, ExecToldGoes DEF StopWorker, HeartbeatTells, Alive
  <2>2. exec[f].at = "returns" /\ ~Fenced(f) => Settled'
    BY <2>1 DEF Supervised, ReturnsOverOutcome, Settled
  <2> QED
    BY <1>1, <2>1, <2>2, ExecutionMoves DEF Typed
<1>3. CASE CrashWorker(f)
  <2>1. GoesTo(f, "gone") /\ status' = status /\ "gone" \in ExecAt \ {"none"}
    BY <1>3, ExecToGoes DEF CrashWorker, ExecAt
  <2> QED
    BY <1>1, <2>1, ExecutionMoves DEF Typed
<1>4. CASE Execute(f)
  <2>1. CASE Fenced(f) \/ ~authorized
    <3>1. GoesTo(f, "fails") /\ status' = status /\ "fails" \in ExecAt \ {"none"}
      BY <1>4, <2>1, ExecToGoes DEF Execute, ExecAt
    <3> QED
      BY <1>1, <3>1, ExecutionMoves DEF Typed
  <2>2. CASE ~(Fenced(f) \/ ~authorized) /\ Settled
    <3>1. GoesTo(f, "returns") /\ status' = status /\ "returns" \in ExecAt \ {"none"}
      BY <1>4, <2>2, ExecToGoes DEF Execute, ExecAt
    <3> QED
      BY <1>1, <2>2, <3>1, ExecutionMoves DEF Typed, Settled
  <2>3. CASE ~(Fenced(f) \/ ~authorized) /\ ~Settled
    <3>1. GoesTo(f, "enter") /\ "enter" \in ExecAt \ {"none"}
      BY <1>4, <2>3, ExecToGoes DEF Execute, ExecAt
    <3>2. status' \in RunStatus
      BY <1>4, <2>3, Statuses DEF Execute, Typed
    <3> QED
      BY <1>1, <2>3, <3>1, <3>2, ExecutionMoves
  <2> QED BY <2>1, <2>2, <2>3
<1> QED
  BY <1>2, <1>3, <1>4

\* A thread is done, and leaves the registry.
LEMMA EndThreadStep ==
  ASSUME Supervised, NEW c \in Calls, EndThread(c)
  PROVE  Supervised'
<1> Typed /\ c \in Execs /\ Calls \subseteq Execs /\ Leases \subseteq Execs
  BY DEF Supervised, Execs
<1>1. UNCHANGED <<release, status, call, job>> /\ slot' = NoCall /\ Alive(c) /\ GoesTo(c, "gone")
  BY ExecToGoes DEF EndThread, Alive, ExecAt
<1>2. ~release /\ slot = c
  BY <1>1 DEF Supervised, OneMode, Registered, Alive
<1>3. \A x \in Calls : call[x].at \notin {"queue", "launch"} /\ ~ Alive(x)'
  <2> SUFFICES ASSUME NEW x \in Calls PROVE call[x].at \notin {"queue", "launch"} /\ ~ Alive(x)'
    OBVIOUS
  <2>1. CASE x = c
    BY <1>1, <2>1 DEF Supervised, Registered, Alive, GoesTo
  <2>2. CASE x # c
    BY <1>1, <1>2, <2>2 DEF Supervised, Registered, Alive, GoesTo
  <2> QED BY <2>1, <2>2
<1>4. Typed'
  BY <1>1 DEF Typed, GoesTo
<1>5. OneMode' /\ KindsAgree' /\ Registered'
  BY <1>1, <1>2, <1>3, Apart DEF Supervised, OneMode, KindsAgree, Registered, GoesTo, Execs
<1>6. ReturnsOverOutcome' /\ JobOver'
  BY <1>1, <1>2, <1>5 DEF OneMode, ReturnsOverOutcome, JobOver, Supervised
<1> QED
  BY <1>4, <1>5, <1>6 DEF Supervised

-----------------------------------------------------------------------------
(***************************************************************************)
(* Steps of a handler                                                      *)
(***************************************************************************)
\* A handler that has not begun a thread moves on: it takes the registry when
\* it is empty, and stores what is an outcome, or in development.
LEMMA HandlerMoves ==
  ASSUME Supervised, NEW c \in Calls, call[c].at # "started",
         call' \in [Calls -> CallRecord], \A x \in Calls \ {c} : call'[x] = call[x],
         UNCHANGED <<release, exec, job>>,
         slot' = slot \/ (slot = NoCall /\ slot' = c),
         call'[c].at \in {"queue", "launch"} => slot' = c,
         status' \in RunStatus, status' # status => ~release \/ Settled',
         release => call'[c].kind = "cancel",
         call'[c].at \in {"register", "queue", "launch", "started"} => call'[c].kind \in {"start", "resume"},
         call'[c].at = "fire" => call'[c].event # NoCall,
         call'[c].kind # "none"
  PROVE  Supervised'
<1> Typed
  BY DEF Supervised
<1>1. Typed'
  BY DEF Typed
<1>2. OneMode'
  BY DEF Supervised, OneMode
<1>3. KindsAgree'
  BY DEF Supervised, KindsAgree
<1>4. Registered'
  BY Apart DEF Supervised, Registered, Alive
<1>5. ReturnsOverOutcome' /\ JobOver'
  <2>1. CASE release
    BY <2>1 DEF Supervised, ReturnsOverOutcome, JobOver, Fenced, Settled
  <2>2. CASE ~release
    BY <1>2, <2>2 DEF Supervised, OneMode, ReturnsOverOutcome, JobOver
  <2> QED BY <2>1, <2>2
<1> QED
  BY <1>1, <1>2, <1>3, <1>4, <1>5 DEF Supervised

\* The request c, and no other, goes to the place at.
CallGoesTo(c, at) ==
    /\ call' \in [Calls -> CallRecord]
    /\ call'[c].at = at /\ call'[c].kind = call[c].kind
    /\ \A x \in Calls \ {c} : call'[x] = call[x]

\* The same of the record of a request.
LEMMA CallToGoes ==
  ASSUME Typed, NEW c \in Calls, NEW at \in CallAt, CallTo(c, at)
  PROVE  CallGoesTo(c, at) /\ call'[c].event = call[c].event
  BY DEF Typed, CallRecord, CallTo, CallGoesTo

\* A request up to the event it found.
LEMMA RequestStep ==
  ASSUME Supervised, NEW c \in Calls,
         \/ \E kind \in Served : Arrive(c, kind)
         \/ ReadRun(c) \/ LookForEvent(c)
  PROVE  Supervised'
<1> Typed
  BY DEF Supervised
<1>1. UNCHANGED <<release, status, slot, exec, job>>
  BY DEF Arrive, ReadRun, LookForEvent
<1>2. CASE \E kind \in Served : Arrive(c, kind)
  <2>1. PICK kind \in Served : Arrive(c, kind)
    BY <1>2
  <2>2. kind \in {"start", "resume", "cancel"} /\ (release => kind = "cancel")
    BY DEF Served
  <2>3. "read" \in CallAt
    BY DEF CallAt
  <2>4. /\ call[c].at = "new"
        /\ call' \in [Calls -> CallRecord]
        /\ call'[c].kind = kind /\ call'[c].at = "read"
        /\ \A x \in Calls \ {c} : call'[x] = call[x]
    BY <2>1, <2>2, <2>3 DEF Arrive, Typed, CallRecord
  <2> QED
    BY <1>1, <2>2, <2>4, HandlerMoves DEF Typed
<1>3. CASE ReadRun(c)
  <2>1. PICK at \in {"refused", "look", "register"} :
          /\ CallTo(c, at)
          /\ call[c].at = "read"
          /\ at = "register" => call[c].kind # "cancel"
    BY <1>3 DEF ReadRun
  <2>2. at \in CallAt
    BY DEF CallAt
  <2>3. CallGoesTo(c, at)
    BY <2>1, <2>2, CallToGoes
  <2>4. call[c].kind \in {"start", "resume", "cancel"} /\ (release => call[c].kind = "cancel")
    BY <2>1 DEF Supervised, KindsAgree, OneMode, Typed, CallRecord
  <2> QED
    BY <1>1, <2>1, <2>3, <2>4, HandlerMoves DEF Typed, CallGoesTo
<1>4. CASE LookForEvent(c)
  <2> DEFINE at == IF slot = NoCall THEN "direct" ELSE "fire"
  <2>1. at \in CallAt /\ at \in {"direct", "fire"} /\ (at = "fire" => slot # NoCall)
    BY DEF CallAt
  <2>2. call[c].at = "look" /\ call' = [call EXCEPT ![c].event = slot, ![c].at = at]
    BY <1>4 DEF LookForEvent
  <2> HIDE DEF at
  <2>3. call[c].kind \in {"start", "resume", "cancel"} /\ (release => call[c].kind = "cancel")
    BY <2>2 DEF Supervised, KindsAgree, OneMode, Typed, CallRecord
  <2>4. /\ call' \in [Calls -> CallRecord]
        /\ call'[c].at = at /\ call'[c].kind = call[c].kind /\ call'[c].event = slot
        /\ \A x \in Calls \ {c} : call'[x] = call[x]
    BY <2>1, <2>2 DEF Typed, CallRecord
  <2> QED
    BY <1>1, <2>1, <2>2, <2>3, <2>4, HandlerMoves DEF Typed
<1> QED
  BY <1>2, <1>3, <1>4

\* Registering a thread, queueing a job, cancelling at once.
LEMMA RegistryStep ==
  ASSUME Supervised, NEW c \in Calls, Register(c) \/ Queue(c) \/ CancelDirectly(c)
  PROVE  Supervised'
<1> Typed
  BY DEF Supervised
<1>1. UNCHANGED <<release, exec, job>> /\ call[c].at # "started"
  BY DEF Register, Queue, CancelDirectly
<1>2. call[c].kind \in {"start", "resume", "cancel"} /\ (release => call[c].kind = "cancel")
  BY DEF Supervised, KindsAgree, OneMode, Typed, CallRecord, Register, Queue, CancelDirectly
<1>3. PICK at \in {"queue", "launch", "refused", "cancelled"} :
        /\ CallTo(c, at)
        /\ slot' = slot \/ (slot = NoCall /\ slot' = c)
        /\ at \in {"queue", "launch"} => slot' = c /\ call[c].kind \in {"start", "resume"}
        /\ status' \in RunStatus
        /\ status' # status => ~release \/ Settled'
  <2>1. CASE Register(c)
    BY <2>1 DEF Register, RegistryFree, Supervised, KindsAgree, Typed
  <2>2. CASE Queue(c)
    BY <2>2, Statuses DEF Queue, Supervised, KindsAgree, Registered, OneMode, Typed
  <2>3. CASE CancelDirectly(c)
    BY <2>3, Statuses DEF CancelDirectly, Settled, Typed
  <2> QED BY <2>1, <2>2, <2>3
<1>4. at \in CallAt
  BY DEF CallAt
<1>5. CallGoesTo(c, at)
  BY <1>3, <1>4, CallToGoes
<1> QED
  BY <1>1, <1>2, <1>3, <1>5, HandlerMoves DEF CallGoesTo

\* The thread begins, in the registry under its request.
LEMMA LaunchStep ==
  ASSUME Supervised, NEW c \in Calls, Launch(c)
  PROVE  Supervised'
<1> Typed /\ c \in Execs /\ Leases \subseteq Execs
  BY DEF Supervised, Execs
<1>1. /\ UNCHANGED <<release, status, slot, job>> /\ call[c].at = "launch"
      /\ CallGoesTo(c, "started") /\ GoesTo(c, "enter")
  BY CallToGoes, ExecToGoes DEF Launch, CallAt, ExecAt
<1>2. ~release /\ slot = c /\ call[c].kind \in {"start", "resume"}
  BY <1>1 DEF Supervised, OneMode, KindsAgree, Registered
<1>3. Typed'
  BY <1>1 DEF Typed, CallGoesTo, GoesTo
<1>4. OneMode' /\ KindsAgree'
  BY <1>1, <1>2, Apart DEF Supervised, OneMode, KindsAgree, CallGoesTo, GoesTo
<1>5. Registered'
  BY <1>1, <1>2 DEF Supervised, Registered, Alive, CallGoesTo, GoesTo, Execs
<1>6. ReturnsOverOutcome' /\ JobOver'
  BY <1>1, <1>2, <1>4 DEF Supervised, OneMode, ReturnsOverOutcome, JobOver
<1> QED
  BY <1>3, <1>4, <1>5, <1>6 DEF Supervised

\* The event of the thread that was found is set, whatever it does by now.
LEMMA FireEventStep ==
  ASSUME Supervised, NEW c \in Calls, FireEvent(c)
  PROVE  Supervised'
<1> Typed
  BY DEF Supervised
<1> DEFINE e == call[c].event
<1>1. e \in Calls /\ e \in Execs
  BY DEF Supervised, KindsAgree, FireEvent, Typed, CallRecord, Execs
<1>2. /\ UNCHANGED <<release, status, slot, job>> /\ call[c].at = "fire"
      /\ CallGoesTo(c, "pending") /\ GoesTo(e, exec[e].at)
  BY <1>1, CallToGoes, ExecToldGoes DEF FireEvent, CallAt
<1> HIDE DEF e
<1>3. \A x \in Execs : exec'[x].at = exec[x].at
  BY <1>1, <1>2 DEF GoesTo
<1>4. Typed'
  BY <1>2 DEF Typed, CallGoesTo, GoesTo
<1>5. OneMode' /\ KindsAgree' /\ Registered'
  BY <1>2, <1>3 DEF Supervised, OneMode, KindsAgree, Registered, Alive, CallGoesTo, Execs
<1>6. ReturnsOverOutcome' /\ JobOver'
  BY <1>2, <1>3 DEF Supervised, ReturnsOverOutcome, JobOver, Fenced, Settled, Execs
<1> QED
  BY <1>4, <1>5, <1>6 DEF Supervised

-----------------------------------------------------------------------------
(***************************************************************************)
(* Steps of the job, and the death of the api                              *)
(***************************************************************************)
\* The next lease: nothing runs under it yet, and all others are fenced.
LEMMA GrantLeaseStep ==
  ASSUME Supervised, GrantLease
  PROVE  Supervised'
<1> Typed
  BY DEF Supervised
<1> DEFINE f == job.fence + 1
<1>1. f \in Leases /\ f \in Execs /\ f # job.fence /\ job.fence \in 0..MaxStarts
  BY Apart DEF GrantLease, StartsLeft, Typed, Leases, Execs
<1>2. /\ UNCHANGED <<release, status, slot, call>>
      /\ GoesTo(f, "execute")
  BY <1>1, ExecToGoes DEF GrantLease, ExecAt
<1>3. /\ job.phase = "open" /\ job'.phase = "open" /\ job'.fence = f
      /\ job' \in [phase : {"none", "open", "completed", "failed"}, fence : 0..MaxStarts, held : BOOLEAN]
  <2>1. f \in 0..MaxStarts
    BY <1>1, Apart DEF Leases
  <2>2. job.phase = "open" /\ job' = [job EXCEPT !.fence = f, !.held = TRUE]
    BY DEF GrantLease
  <2> HIDE DEF f
  <2> QED BY <2>1, <2>2 DEF Typed
<1> HIDE DEF f
<1>4. Typed'
  BY <1>2, <1>3 DEF Typed, GoesTo
<1>5. release
  BY <1>3 DEF Supervised, OneMode, Typed
<1>6. OneMode' /\ KindsAgree' /\ Registered'
  BY <1>1, <1>2, <1>5, Apart DEF Supervised, OneMode, KindsAgree, Registered, Alive, GoesTo, Execs
<1>7. ReturnsOverOutcome'
  BY <1>2, <1>3 DEF ReturnsOverOutcome, Fenced, GoesTo
<1>8. JobOver'
  BY <1>3 DEF JobOver
<1> QED
  BY <1>4, <1>6, <1>7, <1>8 DEF Supervised

\* The lease lapses, the job runs out of leases, or its authorization ends.
LEMMA JobStep ==
  ASSUME Supervised, LapseLease \/ ExhaustJob \/ Expire
  PROVE  Supervised'
<1> Typed
  BY DEF Supervised
<1>1. UNCHANGED <<release, status, slot, call, exec>>
  BY DEF LapseLease, ExhaustJob, Expire
<1>2. /\ job' \in [phase : {"none", "open", "completed", "failed"}, fence : 0..MaxStarts, held : BOOLEAN]
      /\ job'.fence = job.fence
      /\ job'.held => job.held
      /\ \/ job'.phase = job.phase
         \/ job.phase = "open" /\ job'.phase = "failed" /\ ~job'.held
  BY DEF LapseLease, ExhaustJob, Expire, Typed
<1>3. Typed' /\ OneMode' /\ KindsAgree' /\ Registered'
  BY <1>1, <1>2 DEF Supervised, Typed, OneMode, KindsAgree, Registered, Alive
<1>4. ReturnsOverOutcome' /\ JobOver'
  BY <1>1, <1>2 DEF Supervised, ReturnsOverOutcome, JobOver, Fenced, Settled
<1> QED
  BY <1>3, <1>4 DEF Supervised

\* A handler ends: its job completes only under a lease that counts.
LEMMA EndHandlerStep ==
  ASSUME Supervised, NEW f \in Leases, EndHandler(f)
  PROVE  Supervised'
<1> Typed /\ f \in Execs
  BY DEF Supervised, Execs
<1>1. /\ UNCHANGED <<release, status, slot, call>> /\ GoesTo(f, "gone")
      /\ exec[f].at \in {"returns", "fails"}
  BY ExecToGoes DEF EndHandler, ExecAt
<1>2. /\ job' \in [phase : {"none", "open", "completed", "failed"}, fence : 0..MaxStarts, held : BOOLEAN]
      /\ job'.fence = job.fence
      /\ job'.held => job.held
      /\ \/ job'.phase = job.phase
         \/ ~Fenced(f) /\ ~job'.held /\ job'.phase = "failed"
         \/ ~Fenced(f) /\ ~job'.held /\ job'.phase = "completed" /\ exec[f].at = "returns"
  <2>1. CASE Completes(f)
    BY <2>1 DEF EndHandler, Completes, Typed
  <2>2. CASE ~Completes(f)
    <3>1. job' = [job EXCEPT !.held = @ /\ Fenced(f)]
      BY <2>2 DEF EndHandler
    <3>2. (job.held /\ Fenced(f)) \in BOOLEAN
      OBVIOUS
    <3> QED
      BY <3>1, <3>2 DEF Typed
  <2> QED BY <2>1, <2>2
<1>3. release
  BY <1>1 DEF Supervised, OneMode, Typed
<1>4. Typed'
  BY <1>1, <1>2 DEF Typed, GoesTo
<1>5. OneMode' /\ KindsAgree' /\ Registered'
  BY <1>1, <1>3, Apart DEF Supervised, OneMode, KindsAgree, Registered, Alive, GoesTo, Execs
<1>6. ReturnsOverOutcome'
  BY <1>1, <1>2 DEF Supervised, ReturnsOverOutcome, Fenced, Settled, GoesTo, Execs
<1>7. JobOver'
  BY <1>1, <1>2 DEF Supervised, ReturnsOverOutcome, JobOver, Settled
<1> QED
  BY <1>4, <1>5, <1>6, <1>7 DEF Supervised

\* Every thread and handler ends, and the registry is empty.
LEMMA CrashApiStep ==
  ASSUME Supervised, CrashApi
  PROVE  Supervised'
<1> Typed
  BY DEF Supervised
<1>1. UNCHANGED <<release, status, job>> /\ slot' = NoCall /\ ~release
  BY DEF CrashApi
<1>2. /\ exec' \in [Execs -> ExecRecord]
      /\ \A e \in Execs : exec'[e].at \in {"none", "gone"} /\ (exec[e].at = "none" => exec'[e].at = "none")
  BY DEF CrashApi, Typed, ExecRecord, Alive, ExecAt
<1>3. /\ call' \in [Calls -> CallRecord]
      /\ \A c \in Calls : call'[c].at \in {"new", "refused"} /\ call'[c].kind = call[c].kind
                          /\ (call[c].at = "new" => call'[c].at = "new")
  BY DEF CrashApi, Typed, CallRecord, CallAt
<1>4. Typed' /\ OneMode' /\ KindsAgree' /\ Registered'
  BY <1>1, <1>2, <1>3 DEF Supervised, Typed, OneMode, KindsAgree, Registered, Alive, Execs
<1>5. ReturnsOverOutcome' /\ JobOver'
  BY <1>1, <1>4 DEF Supervised, OneMode, ReturnsOverOutcome, JobOver
<1> QED
  BY <1>4, <1>5 DEF Supervised

-----------------------------------------------------------------------------
\* Every step of requests, threads, leases and the engine keeps it.
LEMMA SupervisedStep == Supervised /\ [ControlNext]_controlVars => Supervised'
<1> SUFFICES ASSUME Supervised, [ControlNext]_controlVars PROVE Supervised'
  OBVIOUS
<1>1. CASE UNCHANGED controlVars
  BY <1>1 DEF controlVars, Supervised, Typed, OneMode, KindsAgree, Registered, ReturnsOverOutcome,
     JobOver, Alive, Fenced, Settled
<1>2. CASE ControlNext
  <2>1. ASSUME NEW c \in Calls,
               \/ \E kind \in Served : Arrive(c, kind)
               \/ ReadRun(c) \/ Register(c) \/ Queue(c) \/ Launch(c)
               \/ LookForEvent(c) \/ FireEvent(c) \/ CancelDirectly(c) \/ EndThread(c)
        PROVE  Supervised'
    BY <2>1, RequestStep, RegistryStep, LaunchStep, FireEventStep, EndThreadStep
  <2>2. CASE GrantLease \/ LapseLease \/ ExhaustJob \/ Expire \/ CrashApi
    BY <2>2, GrantLeaseStep, JobStep, CrashApiStep
  <2>3. ASSUME NEW f \in Leases,
               StopWorker(f) \/ HeartbeatTells(f) \/ Execute(f) \/ EndHandler(f) \/ CrashWorker(f)
        PROVE  Supervised'
    BY <2>3, WorkerStep, EndHandlerStep
  <2>4. ASSUME NEW e \in Execs,
               \/ EngineEnter(e) \/ EngineReopen(e) \/ EngineAdvance(e) \/ BeginCaseOf(e)
               \/ EndCaseOf(e) \/ LastCaseOf(e) \/ EngineRaises(e) \/ EngineCancel(e)
               \/ EngineFinalize(e) \/ EngineComplete(e) \/ EngineLand(e)
        PROVE  Supervised'
    BY <2>4, QuietStep, EngineStep
  <2> QED
    BY <1>2, <2>1, <2>2, <2>3, <2>4 DEF ControlNext
<1> QED
  BY <1>1, <1>2

\* The inductive invariant: in development every thread that lives is the one
\* registered; in a release a lease that counts returns only over an outcome,
\* and a completed job leaves one (api.py, _run_worker; execution.py, execute).
THEOREM ControlSupervised == ControlSpec => []Supervised
  BY SupervisedInit, SupervisedStep, PTL DEF ControlSpec

\* Nothing but what the routes of the mode serve is ever under way (create_app).
THEOREM ControlTypes == ControlSpec => []ControlTypeOK
<1>1. Supervised => ControlTypeOK
  BY DEF Supervised, Typed, OneMode, ControlTypeOK, Served, CallRecord, ExecRecord
<1> QED
  BY <1>1, ControlSupervised, PTL

\* OneWriter: at most one execution can store anything (api.py,
\* registry_lock; worker_service.py, LeasedStorage).
THEOREM OneWriterAlways == ControlSpec => []OneWriter
<1>1. ASSUME Supervised PROVE OneWriter
  <2> SUFFICES ASSUME NEW d \in Execs, NEW e \in Execs, InEngine(d), InEngine(e), ~Fenced(d), ~Fenced(e)
               PROVE  d = e
    BY DEF OneWriter
  <2>1. Alive(d) /\ Alive(e)
    BY DEF InEngine, Alive
  <2>2. CASE release
    <3>1. d \in Leases /\ e \in Leases
      BY <1>1, <2>1, <2>2 DEF Supervised, OneMode, Alive, Execs
    <3> QED BY <3>1 DEF Fenced
  <2>3. CASE ~release
    <3>1. d \in Calls /\ e \in Calls
      BY <1>1, <2>1, <2>3 DEF Supervised, OneMode, Alive, Execs
    <3> QED BY <1>1, <2>1, <3>1 DEF Supervised, Registered
  <2> QED BY <2>2, <2>3
<1> QED
  BY <1>1, ControlSupervised, PTL

\* WorkerReachable: a cancel request finds the event of every thread that
\* executes the run (api.py, cancel_run).
THEOREM WorkerReachableAlways == ControlSpec => []WorkerReachable
<1>1. Supervised => WorkerReachable
  BY DEF Supervised, Registered, WorkerReachable
<1> QED
  BY <1>1, ControlSupervised, PTL

\* CompletedJobHasOutcome: a job completes only over a run that has its
\* outcome, with nobody else storing (worker_service.py, run_once).
THEOREM CompletedJobHasOutcomeAlways == ControlSpec => []CompletedJobHasOutcome
<1>1. Supervised => CompletedJobHasOutcome
  BY DEF Supervised, JobOver, CompletedJobHasOutcome, Settled, Fenced
<1> QED
  BY <1>1, ControlSupervised, PTL

-----------------------------------------------------------------------------
(***************************************************************************)
(* A sweep goes through its days from the least one                        *)
(***************************************************************************)
\* What holds of a subset of a finite set when it holds of all smaller ones
\* holds of every subset; H is the set of those it holds of.
LEMMA SubsetInduction ==
  ASSUME NEW S, IsFiniteSet(S), NEW H,
         \A T \in SUBSET S : (\A U \in (SUBSET T) \ {T} : U \in H) => T \in H
  PROVE  \A T \in SUBSET S : T \in H
<1>1. IsWellFoundedOn(StrictSubsetOrdering(S), SUBSET S)
  BY FS_StrictSubsetOrderingWellFounded, FS_FiniteSubsetsOfFinite
<1> DEFINE C == (SUBSET S) \ H
<1>2. ASSUME C # {} PROVE FALSE
  <2>1. PICK T \in C : \A U \in C : ~ (<<U, T>> \in StrictSubsetOrdering(S))
    <3> HIDE DEF C
    <3>1. C \subseteq SUBSET S BY DEF C
    <3> QED BY <1>1, <1>2, <3>1, WFMin
  <2>2. \A U \in (SUBSET T) \ {T} : U \in H
    BY <2>1 DEF StrictSubsetOrdering
  <2> QED BY <2>1, <2>2
<1> QED BY <1>2

\* A set of naturals that is not empty has a least element.
LEMMA LeastExists ==
  ASSUME NEW S \in SUBSET Nat, NEW n \in S
  PROVE  \E m \in S : \A k \in S : m <= k
<1> DEFINE below == 0 .. n
           H == {T \in SUBSET below : T = {} \/ \E m \in T : \A k \in T : m <= k}
<1>1. IsFiniteSet(below)
  BY FS_Interval
<1>2. ASSUME NEW T \in SUBSET below, \A U \in (SUBSET T) \ {T} : U \in H
      PROVE  T \in H
  <2>1. CASE T = {}
    BY <2>1
  <2>2. ASSUME NEW x \in T PROVE T \in H
    <3>1. T \ {x} \in H
      BY <1>2
    <3>2. CASE T \ {x} = {}
      <4>1. x \in Nat /\ \A k \in T : k = x
        BY <3>2, <2>2
      <4> QED BY <4>1
    <3>3. ASSUME NEW y \in T \ {x}, \A k \in T \ {x} : y <= k PROVE T \in H
      <4>1. x \in Nat /\ y \in Nat /\ \A k \in T : k = x \/ y <= k
        BY <3>3
      <4>2. CASE x <= y
        <5>1. \A k \in T : k \in Nat
          OBVIOUS
        <5>2. \A k \in T : x <= k
          BY <4>1, <4>2, <5>1
        <5> QED BY <5>2
      <4>3. CASE y <= x
        <5>1. \A k \in T : y <= k
          BY <4>1, <4>3
        <5> QED BY <5>1, <3>3
      <4> QED BY <4>1, <4>2, <4>3
    <3> QED BY <3>1, <3>2, <3>3
  <2> QED BY <2>1, <2>2
<1>3. \A T \in SUBSET below : T \in H
  <2> HIDE DEF H, below
  <2> QED BY <1>1, <1>2, SubsetInduction
<1>4. {m \in S : m <= n} \in H
  <2>1. {m \in S : m <= n} \in SUBSET below
    <3> SUFFICES ASSUME NEW m \in S, m <= n PROVE m \in below
      OBVIOUS
    <3>1. m \in Nat /\ n \in Nat
      OBVIOUS
    <3> QED BY <3>1
  <2> HIDE DEF H, below
  <2> QED BY <1>3, <2>1
<1>5. PICK m \in {x \in S : x <= n} : \A k \in {x \in S : x <= n} : m <= k
  <2>1. n \in {x \in S : x <= n}
    OBVIOUS
  <2> QED BY <1>4, <2>1
<1>6. \A k \in S : m <= k
  <2>1. SUFFICES ASSUME NEW k \in S PROVE m <= k
    OBVIOUS
  <2>2. m \in Nat /\ k \in Nat /\ n \in Nat /\ m <= n
    OBVIOUS
  <2>3. CASE k <= n
    BY <1>5, <2>3
  <2> QED BY <2>2, <2>3
<1> QED BY <1>5, <1>6

\* Foremost takes one of the days it is given.
LEMMA ForemostIsDue ==
  ASSUME NEW S \in SUBSET Days, S # {}
  PROVE  Foremost(S) \in S
<1>1. S \in SUBSET Nat
  BY SchedulingAssumption
<1>2. PICK n \in S : TRUE
  OBVIOUS
<1>3. \E m \in S : \A k \in S : m <= k
  BY <1>1, LeastExists
<1> QED BY <1>3 DEF Foremost

-----------------------------------------------------------------------------
(***************************************************************************)
(* The inductive invariant                                                 *)
(***************************************************************************)
RunStatuses == {"none", "queued", "leased", "completed", "failed"}
RunnerStages == {"idle", "check", "create", "engine", "returned", "raised"}
ScheduleRecords == [state : {"none", "active", "paused"}, due : SUBSET Days, room : BOOLEAN]
SweepRecords == [at : {"new", "next", "enqueue", "record", "done"},
                 todo : SUBSET Days, counted : SUBSET Days]

PlanTyped ==
    /\ schedule \in ScheduleRecords
    /\ daySlot \in [Days -> {"free", "claimed", "queued", "failed"}]
    /\ sweeper \in [Sweepers -> SweepRecords]
    /\ runJob \in [Submissions -> [status : RunStatuses, leases : Nat]]
    /\ runner \in [Submissions -> RunnerStages]
    /\ planRun \in [RunKeys -> {"none", "live", "done"}]
    /\ inserted \in [RunKeys -> Nat]

\* A row was inserted for exactly the keys that have a run.
InsertedOnce == \A k \in RunKeys : inserted[k] = IF planRun[k] = "none" THEN 0 ELSE 1

\* A runner holds a leased job, and is no further than the run of its key.
Executes ==
    \A j \in Submissions :
        /\ runner[j] # "idle" => runJob[j].status = "leased"
        /\ runner[j] = "engine" => planRun[RunKey(j)] # "none"
        /\ runner[j] = "returned" => planRun[RunKey(j)] = "done"

\* A completed job of a day was answered by the run of that day.
AnsweredByOwnRun == \A d \in Days : runJob[d].status = "completed" => planRun[d] = "done"

\* A sweep between its claim and the record of the job.
Claiming(w) == sweeper[w].at \in {"enqueue", "record"}
Claimed(w) == Foremost(sweeper[w].todo)

\* The day in its hand is claimed, has its job from the enqueue on, and is in
\* no other hand.
ClaimsHeld ==
    \A w \in Sweepers : Claiming(w) =>
        /\ sweeper[w].todo # {}
        /\ daySlot[Claimed(w)] = "claimed"
        /\ sweeper[w].at = "enqueue" => runJob[Claimed(w)].status = "none"
        /\ sweeper[w].at = "record" => runJob[Claimed(w)].status # "none"
        /\ \A v \in Sweepers \ {w} : Claiming(v) => Claimed(v) # Claimed(w)

\* A slot called queued has its job, one that is free has none.
SlotsTell ==
    \A d \in Days :
        /\ daySlot[d] = "queued" => runJob[d].status # "none"
        /\ daySlot[d] = "free" => runJob[d].status = "none"

Tracked == PlanTyped /\ InsertedOnce /\ Executes /\ AnsweredByOwnRun /\ ClaimsHeld /\ SlotsTell

-----------------------------------------------------------------------------
(***************************************************************************)
(* What a step may leave alone, and what it has to tell of the rest        *)
(***************************************************************************)
LEMMA TrackedInit ==
  SchedulingInit => Tracked
<1> SUFFICES ASSUME SchedulingInit PROVE Tracked
  OBVIOUS
<1>1. PlanTyped
  BY DEF SchedulingInit, PlanTyped, RunStatuses, RunnerStages, SweepRecords, ScheduleRecords
<1>2. InsertedOnce
  BY DEF SchedulingInit, InsertedOnce
<1>3. Executes /\ AnsweredByOwnRun /\ SlotsTell
  BY DEF SchedulingInit, Executes, AnsweredByOwnRun, SlotsTell, Submissions
<1>4. ClaimsHeld
  BY DEF SchedulingInit, ClaimsHeld, Claiming
<1> QED BY <1>1, <1>2, <1>3, <1>4 DEF Tracked

\* The plan, its permit, the verification and the state of the schedule are
\* not spoken of.
LEMMA TrackedStays ==
  ASSUME Tracked, schedule' \in ScheduleRecords,
         UNCHANGED <<daySlot, sweeper, runJob, runner, planRun, inserted>>
  PROVE  Tracked'
<1>1. PlanTyped'
  BY DEF Tracked, PlanTyped
<1>2. InsertedOnce' /\ Executes' /\ AnsweredByOwnRun' /\ SlotsTell'
  BY DEF Tracked, InsertedOnce, Executes, AnsweredByOwnRun, SlotsTell
<1>3. ClaimsHeld'
  BY DEF Tracked, ClaimsHeld, Claiming, Claimed
<1> QED BY <1>1, <1>2, <1>3 DEF Tracked

\* The day a sweep is claiming is one of those it has to do.
LEMMA InHand ==
  ASSUME Tracked, NEW w \in Sweepers, Claiming(w)
  PROVE  Claimed(w) \in Days /\ Claimed(w) \in sweeper[w].todo
<1>1. sweeper[w].todo \in SUBSET Days /\ sweeper[w].todo # {}
  BY DEF Tracked, PlanTyped, SweepRecords, ClaimsHeld
<1> QED BY <1>1, ForemostIsDue DEF Claimed

\* A sweep w disturbs the slots and jobs of the days in D only, and no other
\* sweep has one of those in its hand.
LEMMA SweepMoves ==
  ASSUME Tracked, NEW w \in Sweepers, NEW D \in SUBSET Days,
         \A v \in Sweepers \ {w} : sweeper'[v] = sweeper[v],
         \A d \in Days \ D : daySlot'[d] = daySlot[d] /\ runJob'[d] = runJob[d],
         \A v \in Sweepers \ {w} : Claiming(v) => Claimed(v) \notin D,
         Claiming(w)' =>
             /\ sweeper'[w].todo # {}
             /\ daySlot'[Claimed(w)'] = "claimed"
             /\ sweeper'[w].at = "enqueue" => runJob'[Claimed(w)'].status = "none"
             /\ sweeper'[w].at = "record" => runJob'[Claimed(w)'].status # "none"
             /\ \A v \in Sweepers \ {w} : Claiming(v) => Claimed(v) # Claimed(w)',
         \A d \in D :
             /\ daySlot'[d] = "queued" => runJob'[d].status # "none"
             /\ daySlot'[d] = "free" => runJob'[d].status = "none"
  PROVE  ClaimsHeld' /\ SlotsTell'
<1>1. SlotsTell'
  BY DEF Tracked, SlotsTell
<1>2. \A v \in Sweepers \ {w} : Claiming(v)' = Claiming(v) /\ Claimed(v)' = Claimed(v)
  BY DEF Claiming, Claimed
<1>3. ASSUME NEW v \in Sweepers \ {w}, Claiming(v)
      PROVE  /\ sweeper'[v].todo # {}
             /\ daySlot'[Claimed(v)] = "claimed"
             /\ sweeper'[v].at = "enqueue" => runJob'[Claimed(v)].status = "none"
             /\ sweeper'[v].at = "record" => runJob'[Claimed(v)].status # "none"
             /\ \A u \in Sweepers \ {v} : Claiming(u) => Claimed(u) # Claimed(v)
  <2>1. Claimed(v) \in Days \ D
    BY <1>3, InHand
  <2> QED BY <1>3, <2>1 DEF Tracked, ClaimsHeld
<1>4. ClaimsHeld'
  <2>1. ASSUME NEW v \in Sweepers \ {w}, Claiming(v)'
        PROVE  \A u \in Sweepers \ {v} : Claiming(u)' => Claimed(u)' # Claimed(v)'
    BY <1>2, <1>3, <2>1
  <2>2. ASSUME Claiming(w)'
        PROVE  \A u \in Sweepers \ {w} : Claiming(u)' => Claimed(u)' # Claimed(w)'
    BY <1>2, <2>2
  <2> QED BY <1>2, <1>3, <2>1, <2>2 DEF ClaimsHeld
<1> QED BY <1>1, <1>4

\* Slots and sweeps see of the jobs of days only whether there is one.
LEMMA ClaimsStay ==
  ASSUME Tracked, UNCHANGED <<daySlot, sweeper>>,
         \A d \in Days : (runJob'[d].status = "none") <=> (runJob[d].status = "none")
  PROVE  ClaimsHeld' /\ SlotsTell'
<1>1. SlotsTell'
  BY DEF Tracked, SlotsTell
<1>2. \A w \in Sweepers : Claiming(w) => Claimed(w) \in Days
  BY InHand
<1>3. ClaimsHeld'
  BY <1>2 DEF Tracked, ClaimsHeld, Claiming, Claimed
<1> QED BY <1>1, <1>3

\* Jobs are enqueued and nothing is run.
LEMMA RunsStay ==
  ASSUME Tracked, UNCHANGED <<runner, planRun, inserted>>,
         \A j \in Submissions : \/ runJob'[j] = runJob[j]
                                \/ runJob[j].status = "none" /\ runJob'[j].status = "queued"
  PROVE  InsertedOnce' /\ Executes' /\ AnsweredByOwnRun'
<1>1. InsertedOnce'
  BY DEF Tracked, InsertedOnce
<1>2. Executes'
  BY DEF Tracked, Executes, RunKey, Scheduled
<1>3. AnsweredByOwnRun'
  BY DEF Tracked, AnsweredByOwnRun, Submissions
<1> QED BY <1>1, <1>2, <1>3

\* The runner of one job moves, and no run gets less done.
LEMMA RunnerMoves ==
  ASSUME Tracked, NEW j \in Submissions,
         \A i \in Submissions \ {j} : runner'[i] = runner[i] /\ runJob'[i] = runJob[i],
         \A k \in RunKeys : /\ planRun[k] # "none" => planRun'[k] # "none"
                            /\ planRun[k] = "done" => planRun'[k] = "done",
         runner'[j] # "idle" => runJob'[j].status = "leased",
         runner'[j] = "engine" => planRun'[RunKey(j)] # "none",
         runner'[j] = "returned" => planRun'[RunKey(j)] = "done",
         runJob'[j].status = "completed" => planRun'[RunKey(j)] = "done"
  PROVE  Executes' /\ AnsweredByOwnRun'
<1>1. \A i \in Submissions : RunKey(i) \in RunKeys /\ (i \in Days => RunKey(i) = i)
  BY DEF RunKey, RunKeys, Scheduled
<1>2. Executes'
  BY <1>1 DEF Tracked, Executes, RunKey, Scheduled
<1>3. AnsweredByOwnRun'
  BY <1>1 DEF Tracked, AnsweredByOwnRun, Submissions, RunKeys
<1> QED BY <1>2, <1>3

-----------------------------------------------------------------------------
(***************************************************************************)
(* The steps of a sweep                                                    *)
(***************************************************************************)
SweepStages == {"new", "next", "enqueue", "record", "done"}

\* After a step the sweep w is at a stage, with days to do; others are as before.
SweepAt(w, at, todo) ==
    /\ sweeper' \in [Sweepers -> SweepRecords]
    /\ sweeper'[w].at = at /\ sweeper'[w].todo = todo
    /\ \A v \in Sweepers \ {w} : sweeper'[v] = sweeper[v]

\* The ways the record of a sweep is written put it at a stage with days to do.
LEMMA StepIsAt ==
  ASSUME PlanTyped, NEW w \in Sweepers, NEW at \in SweepStages, SweepStep(w, at)
  PROVE  SweepAt(w, at, sweeper[w].todo)
<1>1. SweepRecords = [at : SweepStages, todo : SUBSET Days, counted : SUBSET Days]
  BY DEF SweepRecords, SweepStages
<1>2. sweeper \in [Sweepers -> [at : SweepStages, todo : SUBSET Days, counted : SUBSET Days]]
  BY <1>1 DEF PlanTyped
<1> QED BY <1>1, <1>2 DEF SweepAt, SweepStep

LEMMA RecordIsAt ==
  ASSUME PlanTyped, NEW w \in Sweepers, NEW at \in SweepStages, NEW todo \in SUBSET Days,
         NEW counted \in SUBSET Days,
         sweeper' = [sweeper EXCEPT ![w] = [at |-> at, todo |-> todo, counted |-> counted]]
  PROVE  SweepAt(w, at, todo)
<1>1. SweepRecords = [at : SweepStages, todo : SUBSET Days, counted : SUBSET Days]
  BY DEF SweepRecords, SweepStages
<1>2. sweeper \in [Sweepers -> [at : SweepStages, todo : SUBSET Days, counted : SUBSET Days]]
  BY <1>1 DEF PlanTyped
<1> QED BY <1>1, <1>2 DEF SweepAt

LEMMA OverIsAt ==
  ASSUME PlanTyped, NEW w \in Sweepers, SweepOver(w)
  PROVE  SweepAt(w, "done", {})
<1>1. "done" \in SweepStages /\ {} \in SUBSET Days
  BY DEF SweepStages
<1>2. sweeper' = [sweeper EXCEPT ![w] = [at |-> "done", todo |-> {}, counted |-> {}]]
  BY DEF SweepOver
<1> QED BY <1>1, <1>2, RecordIsAt

LEMMA LeavesDayIsAt ==
  ASSUME PlanTyped, NEW w \in Sweepers, NEW d,
         sweeper' = [sweeper EXCEPT ![w].todo = @ \ {d}]
  PROVE  SweepAt(w, sweeper[w].at, sweeper[w].todo \ {d})
<1>1. SweepRecords = [at : SweepStages, todo : SUBSET Days, counted : SUBSET Days]
  BY DEF SweepRecords, SweepStages
<1>2. sweeper \in [Sweepers -> [at : SweepStages, todo : SUBSET Days, counted : SUBSET Days]]
  BY <1>1 DEF PlanTyped
<1> QED BY <1>1, <1>2 DEF SweepAt

LEMMA RecordsDayIsAt ==
  ASSUME PlanTyped, NEW w \in Sweepers, NEW d, NEW at \in SweepStages,
         sweeper' = [sweeper EXCEPT ![w].at = at, ![w].todo = @ \ {d}]
  PROVE  SweepAt(w, at, sweeper[w].todo \ {d})
<1>1. SweepRecords = [at : SweepStages, todo : SUBSET Days, counted : SUBSET Days]
  BY DEF SweepRecords, SweepStages
<1>2. sweeper \in [Sweepers -> [at : SweepStages, todo : SUBSET Days, counted : SUBSET Days]]
  BY <1>1 DEF PlanTyped
<1> QED BY <1>1, <1>2 DEF SweepAt

\* A sweep that has and takes nothing in hand.
LEMMA SweepRests ==
  ASSUME Tracked, NEW w \in Sweepers, NEW at, NEW todo, SweepAt(w, at, todo),
         at \notin {"enqueue", "record"}, schedule' \in ScheduleRecords,
         UNCHANGED <<daySlot, runJob, runner, planRun, inserted>>
  PROVE  Tracked'
<1>1. PlanTyped'
  BY DEF Tracked, PlanTyped, SweepAt
<1>2. InsertedOnce' /\ Executes' /\ AnsweredByOwnRun'
  BY RunsStay
<1>3. ~ Claiming(w)'
  BY DEF Claiming, SweepAt
<1>4. ClaimsHeld' /\ SlotsTell'
  <2> DEFINE D == {}
  <2>1. D \in SUBSET Days /\ \A d : d \notin D
    OBVIOUS
  <2> HIDE DEF D
  <2>2. \A v \in Sweepers \ {w} : sweeper'[v] = sweeper[v]
    BY DEF SweepAt
  <2> QED BY <1>3, <2>1, <2>2, SweepMoves
<1> QED BY <1>1, <1>2, <1>4 DEF Tracked

\* One lemma for each step that claims, counts, enqueues or executes a slot.
LEMMA BeginSweepTracked ==
  ASSUME Tracked, NEW w \in Sweepers, BeginSweep(w)
  PROVE  Tracked'
<1>1. PlanTyped /\ UNCHANGED <<daySlot, runJob, runner, planRun, inserted>>
  BY DEF Tracked, BeginSweep
<1>2. schedule' = schedule \/ schedule' = [schedule EXCEPT !.state = "paused"]
  BY DEF BeginSweep
<1>3. schedule' \in ScheduleRecords
  BY <1>1, <1>2 DEF PlanTyped, ScheduleRecords
<1>4. CASE SweepOver(w)
  BY <1>1, <1>3, <1>4, OverIsAt, SweepRests
<1>5. CASE sweeper' = [sweeper EXCEPT ![w] =
                  [at |-> "next", todo |-> schedule.due,
                   counted |-> {d \in Days : daySlot[d] \in {"claimed", "queued"}}]]
  <2> DEFINE counted == {d \in Days : daySlot[d] \in {"claimed", "queued"}}
  <2>1. "next" \in SweepStages /\ schedule.due \in SUBSET Days /\ counted \in SUBSET Days
    BY <1>1 DEF PlanTyped, SweepStages, ScheduleRecords
  <2> HIDE DEF counted
  <2>2. SweepAt(w, "next", schedule.due)
    BY <1>1, <1>5, <2>1, RecordIsAt DEF counted
  <2> QED BY <1>1, <1>3, <2>2, SweepRests
<1> QED BY <1>4, <1>5 DEF BeginSweep

\* The slot was free: it has no job, and no other sweep has it in hand.
LEMMA ClaimSlotTracked ==
  ASSUME Tracked, NEW w \in Sweepers, ClaimSlot(w)
  PROVE  Tracked'
<1> DEFINE d == Claimed(w)
<1>1. /\ PlanTyped /\ sweeper[w].at = "next" /\ sweeper[w].todo # {} /\ d \in Days
      /\ UNCHANGED <<schedule, runJob, runner, planRun, inserted>>
  <2>1. sweeper[w].todo \in SUBSET Days
    BY DEF Tracked, PlanTyped, SweepRecords
  <2> QED BY <2>1, ForemostIsDue DEF ClaimSlot, Claimed, Tracked
<1>2. schedule' \in ScheduleRecords
  BY <1>1 DEF PlanTyped
<1>3. CASE daySlot' = daySlot /\ sweeper' = [sweeper EXCEPT ![w].todo = @ \ {d}]
  BY <1>1, <1>2, <1>3, LeavesDayIsAt, SweepRests
<1>4. CASE /\ SlotUnclaimed(d) /\ SweepStep(w, "enqueue")
           /\ daySlot' = [daySlot EXCEPT ![d] = "claimed"]
  <2>1. SweepAt(w, "enqueue", sweeper[w].todo)
    <3>1. "enqueue" \in SweepStages
      BY DEF SweepStages
    <3> QED BY <1>1, <1>4, <3>1, StepIsAt
  <2>2. /\ daySlot' \in [Days -> {"free", "claimed", "queued", "failed"}]
        /\ daySlot'[d] = "claimed" /\ \A e \in Days \ {d} : daySlot'[e] = daySlot[e]
    BY <1>1, <1>4 DEF PlanTyped
  <2>3. PlanTyped'
    BY <1>1, <1>2, <2>1, <2>2 DEF PlanTyped, SweepAt
  <2>4. Claimed(w)' = d
    BY <2>1 DEF Claimed, SweepAt
  <2>5. runJob[d].status = "none"
    BY <1>1, <1>4 DEF Tracked, SlotsTell, SlotUnclaimed
  <2>6. \A v \in Sweepers \ {w} : Claiming(v) => Claimed(v) # d
    BY <1>4 DEF Tracked, ClaimsHeld, SlotUnclaimed
  <2>7. ClaimsHeld' /\ SlotsTell'
    <3> DEFINE D == {d}
    <3>1. D \in SUBSET Days /\ \A e : e \in D <=> e = d
      BY <1>1
    <3> HIDE DEF D, d
    <3>2. /\ \A v \in Sweepers \ {w} : sweeper'[v] = sweeper[v]
          /\ sweeper'[w].todo # {} /\ sweeper'[w].at = "enqueue"
      BY <1>1, <2>1 DEF SweepAt
    <3>3. \A e \in Days \ D : daySlot'[e] = daySlot[e] /\ runJob'[e] = runJob[e]
      BY <1>1, <2>2, <3>1
    <3>4. \A v \in Sweepers \ {w} : Claiming(v) => Claimed(v) \notin D
      BY <2>6, <3>1
    <3>5. daySlot'[Claimed(w)'] = "claimed" /\ runJob'[Claimed(w)'].status = "none"
      BY <1>1, <2>2, <2>4, <2>5
    <3>6. \A v \in Sweepers \ {w} : Claiming(v) => Claimed(v) # Claimed(w)'
      BY <2>4, <2>6
    <3>7. \A e \in D : daySlot'[e] = "claimed"
      BY <2>2, <3>1
    <3> QED BY <1>1, <3>1, <3>2, <3>3, <3>4, <3>5, <3>6, <3>7, SweepMoves
  <2>8. InsertedOnce' /\ Executes' /\ AnsweredByOwnRun'
    BY <1>1, RunsStay
  <2> QED BY <2>3, <2>7, <2>8 DEF Tracked
<1> QED BY <1>3, <1>4 DEF ClaimSlot, Claimed

LEMMA EndSweepTracked ==
  ASSUME Tracked, NEW w \in Sweepers, EndSweep(w)
  PROVE  Tracked'
<1>1. /\ PlanTyped /\ SweepOver(w) /\ schedule' \in ScheduleRecords
      /\ UNCHANGED <<daySlot, runJob, runner, planRun, inserted>>
  BY DEF Tracked, EndSweep, PlanTyped
<1> QED BY <1>1, OverIsAt, SweepRests

\* The claimed slot stays claimed, and nobody claims it again.
LEMMA CrashSweepTracked ==
  ASSUME Tracked, NEW w \in Sweepers, CrashSweep(w)
  PROVE  Tracked'
<1>1. /\ PlanTyped /\ SweepOver(w) /\ schedule' \in ScheduleRecords
      /\ UNCHANGED <<daySlot, runJob, runner, planRun, inserted>>
  BY DEF Tracked, CrashSweep, PlanTyped
<1> QED BY <1>1, OverIsAt, SweepRests

\* What the three steps on the claimed day of w have in common: they change
\* its slot and its job at most.
LEMMA DayMoves ==
  ASSUME Tracked, NEW w \in Sweepers, Claiming(w), NEW at, NEW todo, SweepAt(w, at, todo),
         at = "record" => todo = sweeper[w].todo, at # "enqueue",
         UNCHANGED <<schedule, runner, planRun, inserted>>,
         daySlot' \in [Days -> {"free", "claimed", "queued", "failed"}],
         runJob' \in [Submissions -> [status : RunStatuses, leases : Nat]],
         \A e \in Days \ {Claimed(w)} : daySlot'[e] = daySlot[e],
         \A j \in Submissions \ {Claimed(w)} : runJob'[j] = runJob[j],
         \/ runJob'[Claimed(w)] = runJob[Claimed(w)]
         \/ runJob[Claimed(w)].status = "none" /\ runJob'[Claimed(w)].status = "queued",
         at = "record" => daySlot'[Claimed(w)] = "claimed" /\ runJob'[Claimed(w)].status # "none",
         daySlot'[Claimed(w)] = "queued" => runJob'[Claimed(w)].status # "none",
         daySlot'[Claimed(w)] = "free" => runJob'[Claimed(w)].status = "none"
  PROVE  Tracked'
<1> DEFINE d == Claimed(w)
<1>1. d \in Days /\ d \in sweeper[w].todo
  BY InHand
<1>2. PlanTyped'
  BY DEF Tracked, PlanTyped, SweepAt
<1>3. \A v \in Sweepers \ {w} : Claiming(v) => Claimed(v) # d
  BY DEF Tracked, ClaimsHeld
<1>4. /\ \A v \in Sweepers \ {w} : sweeper'[v] = sweeper[v]
      /\ Claiming(w)' => at = "record" /\ Claimed(w)' = d /\ sweeper'[w].todo # {}
      /\ sweeper'[w].at = at
  BY <1>1 DEF SweepAt, Claiming, Claimed
<1>5. ClaimsHeld' /\ SlotsTell'
  <2> DEFINE D == {d}
  <2>1. D \in SUBSET Days /\ \A e : e \in D <=> e = d
    BY <1>1
  <2>2. \A e \in Days \ D : daySlot'[e] = daySlot[e] /\ runJob'[e] = runJob[e]
    BY DEF Submissions
  <2> HIDE DEF D
  <2> QED BY <1>3, <1>4, <2>1, <2>2, SweepMoves
<1>6. InsertedOnce' /\ Executes' /\ AnsweredByOwnRun'
  BY RunsStay
<1> QED BY <1>2, <1>5, <1>6 DEF Tracked

LEMMA EnqueueSlotTracked ==
  ASSUME Tracked, NEW w \in Sweepers, EnqueueSlot(w)
  PROVE  Tracked'
<1> DEFINE d == Claimed(w)
<1>1. PlanTyped /\ Claiming(w) /\ sweeper[w].at = "enqueue"
  BY DEF Tracked, EnqueueSlot, Claiming
<1>2. d \in Days /\ d \in Submissions
  BY <1>1, InHand DEF Submissions
<1>3. runJob[d].status = "none" /\ daySlot[d] = "claimed"
  BY <1>1 DEF Tracked, ClaimsHeld
<1>4. SweepAt(w, "record", sweeper[w].todo)
  <2>1. "record" \in SweepStages
    BY DEF SweepStages
  <2> QED BY <1>1, <2>1, StepIsAt DEF EnqueueSlot
<1>5. runJob' = [runJob EXCEPT ![d].status = "queued"]
  BY <1>3 DEF EnqueueSlot, EnqueueRunJob, Claimed
<1>6. /\ runJob' \in [Submissions -> [status : RunStatuses, leases : Nat]]
      /\ runJob'[d].status = "queued"
      /\ \A j \in Submissions \ {d} : runJob'[j] = runJob[j]
  <2>1. "queued" \in RunStatuses
    BY DEF RunStatuses
  <2>2. runJob \in [Submissions -> [status : RunStatuses, leases : Nat]]
    BY <1>1 DEF PlanTyped
  <2> HIDE DEF d
  <2> QED BY <1>2, <1>5, <2>1, <2>2
<1>7. /\ UNCHANGED <<daySlot, schedule, runner, planRun, inserted>>
      /\ daySlot' \in [Days -> {"free", "claimed", "queued", "failed"}]
  BY <1>1 DEF EnqueueSlot, PlanTyped
<1> HIDE DEF d
<1> QED BY <1>1, <1>3, <1>4, <1>6, <1>7, DayMoves DEF d

LEMMA EnqueueFailsTracked ==
  ASSUME Tracked, NEW w \in Sweepers, EnqueueFails(w)
  PROVE  Tracked'
<1> DEFINE d == Claimed(w)
<1>1. PlanTyped /\ Claiming(w)
  BY DEF Tracked, EnqueueFails, Claiming
<1>2. d \in Days /\ d \in Submissions
  BY <1>1, InHand DEF Submissions
<1>4. SweepAt(w, "done", {})
  BY <1>1, OverIsAt DEF EnqueueFails
<1>5. daySlot' = [daySlot EXCEPT ![d] = "failed"]
  BY DEF EnqueueFails, Claimed
<1>6. /\ daySlot' \in [Days -> {"free", "claimed", "queued", "failed"}]
      /\ daySlot'[d] = "failed"
      /\ \A e \in Days \ {d} : daySlot'[e] = daySlot[e]
  BY <1>1, <1>2, <1>5 DEF PlanTyped
<1>7. /\ UNCHANGED <<runJob, schedule, runner, planRun, inserted>>
      /\ runJob' \in [Submissions -> [status : RunStatuses, leases : Nat]]
  BY <1>1 DEF EnqueueFails, PlanTyped
<1> HIDE DEF d
<1> QED BY <1>1, <1>4, <1>6, <1>7, DayMoves DEF d

LEMMA RecordSlotJobTracked ==
  ASSUME Tracked, NEW w \in Sweepers, RecordSlotJob(w)
  PROVE  Tracked'
<1> DEFINE d == Claimed(w)
<1>1. PlanTyped /\ Claiming(w) /\ sweeper[w].at = "record"
  BY DEF Tracked, RecordSlotJob, Claiming
<1>2. d \in Days /\ d \in Submissions
  BY <1>1, InHand DEF Submissions
<1>3. runJob[d].status # "none"
  BY <1>1 DEF Tracked, ClaimsHeld
<1>4. SweepAt(w, "next", sweeper[w].todo \ {d})
  <2>1. "next" \in SweepStages
    BY DEF SweepStages
  <2>2. sweeper' = [sweeper EXCEPT ![w].at = "next", ![w].todo = @ \ {d}]
    BY DEF RecordSlotJob, Claimed
  <2> QED BY <1>1, <2>1, <2>2, RecordsDayIsAt
<1>5. daySlot' = [daySlot EXCEPT ![d] = "queued"]
  BY DEF RecordSlotJob, Claimed
<1>6. /\ daySlot' \in [Days -> {"free", "claimed", "queued", "failed"}]
      /\ daySlot'[d] = "queued"
      /\ \A e \in Days \ {d} : daySlot'[e] = daySlot[e]
  BY <1>1, <1>2, <1>5 DEF PlanTyped
<1>7. /\ UNCHANGED <<runJob, schedule, runner, planRun, inserted>>
      /\ runJob' \in [Submissions -> [status : RunStatuses, leases : Nat]]
  BY <1>1 DEF RecordSlotJob, PlanTyped
<1> HIDE DEF d
<1> QED BY <1>1, <1>3, <1>4, <1>6, <1>7, DayMoves DEF d

-----------------------------------------------------------------------------
(***************************************************************************)
(* Submissions by hand, and the runners                                    *)
(***************************************************************************)
\* A header is no day: no slot sees the job.
LEMMA SubmitByHandTracked ==
  ASSUME Tracked, NEW j \in ByHand, SubmitByHand(j)
  PROVE  Tracked'
<1>1. PlanTyped /\ UNCHANGED <<schedule, daySlot, sweeper, runner, planRun, inserted>>
  BY DEF Tracked, SubmitByHand
<1>2. CASE runJob' = runJob
  BY <1>1, <1>2, TrackedStays DEF PlanTyped
<1>3. CASE runJob[j].status = "none" /\ runJob' = [runJob EXCEPT ![j].status = "queued"]
  <2>1. /\ runJob' \in [Submissions -> [status : RunStatuses, leases : Nat]]
        /\ runJob'[j].status = "queued"
        /\ \A i \in Submissions \ {j} : runJob'[i] = runJob[i]
    <3>1. "queued" \in RunStatuses /\ j \in Submissions
      BY DEF RunStatuses, Submissions
    <3>2. runJob \in [Submissions -> [status : RunStatuses, leases : Nat]]
      BY <1>1 DEF PlanTyped
    <3> QED BY <1>3, <3>1, <3>2
  <2>2. \A d \in Days : runJob'[d] = runJob[d]
    BY <2>1, SchedulingAssumption DEF Submissions
  <2>3. PlanTyped'
    BY <1>1, <2>1 DEF PlanTyped
  <2>4. ClaimsHeld' /\ SlotsTell'
    BY <1>1, <2>2, ClaimsStay
  <2>5. InsertedOnce' /\ Executes' /\ AnsweredByOwnRun'
    BY <1>1, <1>3, <2>1, RunsStay
  <2> QED BY <2>3, <2>4, <2>5 DEF Tracked
<1> QED BY <1>2, <1>3 DEF SubmitByHand, EnqueueRunJob

\* The runner of job j goes to a stage, the job to a status.
RunnerAt(j, at, becomes) ==
    /\ runner' \in [Submissions -> RunnerStages] /\ runner'[j] = at
    /\ runJob' \in [Submissions -> [status : RunStatuses, leases : Nat]] /\ runJob'[j].status = becomes
    /\ \A i \in Submissions \ {j} : runner'[i] = runner[i] /\ runJob'[i] = runJob[i]

\* The same of the record of a runner and its job.
LEMMA RunnerToIsAt ==
  ASSUME PlanTyped, NEW j \in Submissions, NEW at \in RunnerStages, RunnerTo(j, at), UNCHANGED runJob
  PROVE  RunnerAt(j, at, runJob[j].status)
<1> HIDE DEF RunnerStages
<1> QED BY DEF PlanTyped, RunnerTo, RunnerAt

LEMMA SettlesIsAt ==
  ASSUME PlanTyped, NEW j \in Submissions, NEW at \in RunnerStages, NEW becomes \in RunStatuses,
         RunnerTo(j, at), runJob' = [runJob EXCEPT ![j].status = becomes]
  PROVE  RunnerAt(j, at, becomes)
<1>1. runner' \in [Submissions -> RunnerStages] /\ runner'[j] = at
      /\ \A i \in Submissions \ {j} : runner'[i] = runner[i]
  BY DEF PlanTyped, RunnerTo
<1>2. runJob' \in [Submissions -> [status : RunStatuses, leases : Nat]]
      /\ runJob'[j].status = becomes
      /\ \A i \in Submissions \ {j} : runJob'[i] = runJob[i]
  BY DEF PlanTyped
<1> QED BY <1>1, <1>2 DEF RunnerAt

\* A runner moves on a job that exists, and inserts no run.
LEMMA RunnerKeeps ==
  ASSUME Tracked, NEW j \in Submissions, NEW at, NEW becomes, RunnerAt(j, at, becomes),
         runJob[j].status # "none", becomes # "none",
         UNCHANGED <<schedule, daySlot, sweeper, planRun, inserted>>,
         at # "idle" => becomes = "leased",
         at = "engine" => planRun[RunKey(j)] # "none",
         at = "returned" => planRun[RunKey(j)] = "done",
         becomes = "completed" => planRun[RunKey(j)] = "done"
  PROVE  Tracked'
<1>1. PlanTyped'
  BY DEF Tracked, PlanTyped, RunnerAt
<1>2. InsertedOnce'
  BY DEF Tracked, InsertedOnce
<1>3. Executes' /\ AnsweredByOwnRun'
  BY RunnerMoves DEF RunnerAt
<1>4. ClaimsHeld' /\ SlotsTell'
  <2>1. \A d \in Days : (runJob'[d].status = "none") <=> (runJob[d].status = "none")
    BY DEF RunnerAt, Submissions
  <2> QED BY <2>1, ClaimsStay
<1> QED BY <1>1, <1>2, <1>3, <1>4 DEF Tracked

\* A worker that leases the run of a slot, checks it, executes it and ends.
LEMMA LeaseRunTracked ==
  ASSUME Tracked, NEW j \in Submissions, LeaseRun(j)
  PROVE  Tracked'
<1>1. PlanTyped /\ runJob[j].status = "queued" /\ UNCHANGED <<schedule, daySlot, sweeper, planRun, inserted>>
  BY DEF Tracked, LeaseRun
<1>2. "check" \in RunnerStages /\ "leased" \in RunStatuses
  BY DEF RunnerStages, RunStatuses
<1>3. runner' \in [Submissions -> RunnerStages] /\ runner'[j] = "check"
      /\ \A i \in Submissions \ {j} : runner'[i] = runner[i]
  BY <1>1, <1>2 DEF PlanTyped, LeaseRun, RunnerTo
<1>4. runJob' \in [Submissions -> [status : RunStatuses, leases : Nat]]
      /\ runJob'[j].status = "leased"
      /\ \A i \in Submissions \ {j} : runJob'[i] = runJob[i]
  <2>1. runJob' = [runJob EXCEPT ![j].status = "leased", ![j].leases = @ + 1]
    BY DEF LeaseRun
  <2>2. runJob \in [Submissions -> [status : RunStatuses, leases : Nat]]
    BY <1>1 DEF PlanTyped
  <2> QED BY <1>2, <2>1, <2>2
<1>5. RunnerAt(j, "check", "leased")
  BY <1>3, <1>4 DEF RunnerAt
<1> QED BY <1>1, <1>5, RunnerKeeps

LEMMA CheckRunTracked ==
  ASSUME Tracked, NEW j \in Submissions, CheckRun(j)
  PROVE  Tracked'
<1>1. /\ PlanTyped /\ runner[j] = "check" /\ runJob[j].status = "leased"
      /\ UNCHANGED <<schedule, daySlot, sweeper, runJob, planRun, inserted>>
  BY DEF Tracked, CheckRun, Executes
<1>2. \/ RunnerTo(j, "raised")
      \/ planRun[RunKey(j)] = "done" /\ RunnerTo(j, "returned")
      \/ planRun[RunKey(j)] = "none" /\ RunnerTo(j, "create")
      \/ planRun[RunKey(j)] # "none" /\ RunnerTo(j, "engine")
  BY DEF CheckRun
<1>3. {"raised", "returned", "create", "engine"} \subseteq RunnerStages
  BY DEF RunnerStages
<1>4. PICK at \in RunnerStages :
          /\ RunnerTo(j, at)
          /\ at = "engine" => planRun[RunKey(j)] # "none"
          /\ at = "returned" => planRun[RunKey(j)] = "done"
  BY <1>2, <1>3
<1>5. RunnerAt(j, at, "leased")
  BY <1>1, <1>4, RunnerToIsAt
<1> QED BY <1>1, <1>4, <1>5, RunnerKeeps

\* The insert of a key that has a run changes nothing.
LEMMA InsertRunTracked ==
  ASSUME Tracked, NEW j \in Submissions, InsertRun(j)
  PROVE  Tracked'
<1> DEFINE k == RunKey(j)
<1>1. /\ PlanTyped /\ runner[j] = "create" /\ runJob[j].status = "leased"
      /\ RunnerTo(j, "engine") /\ UNCHANGED <<schedule, daySlot, sweeper, runJob>>
  BY DEF Tracked, InsertRun, Executes
<1>2. k \in RunKeys
  BY DEF RunKey, RunKeys, Scheduled
<1>3. RunnerAt(j, "engine", "leased")
  <2>1. "engine" \in RunnerStages
    BY DEF RunnerStages
  <2> QED BY <1>1, <2>1, RunnerToIsAt
<1>4. CASE planRun[k] # "none" /\ UNCHANGED <<planRun, inserted>>
  BY <1>1, <1>3, <1>4, RunnerKeeps
<1>5. CASE /\ planRun[k] = "none"
           /\ planRun' = [planRun EXCEPT ![k] = "live"]
           /\ inserted' = [inserted EXCEPT ![k] = @ + 1]
  <2>1. /\ planRun' \in [RunKeys -> {"none", "live", "done"}] /\ planRun'[k] = "live"
        /\ \A i \in RunKeys \ {k} : planRun'[i] = planRun[i]
        /\ inserted' \in [RunKeys -> Nat] /\ inserted'[k] = inserted[k] + 1
        /\ \A i \in RunKeys \ {k} : inserted'[i] = inserted[i]
    BY <1>1, <1>2, <1>5 DEF PlanTyped
  <2>2. PlanTyped'
    BY <1>1, <1>3, <2>1 DEF PlanTyped, RunnerAt
  <2>3. InsertedOnce'
    BY <1>2, <1>5, <2>1 DEF Tracked, InsertedOnce
  <2>4. Executes' /\ AnsweredByOwnRun'
    <3>1. \A i \in RunKeys : /\ planRun[i] # "none" => planRun'[i] # "none"
                             /\ planRun[i] = "done" => planRun'[i] = "done"
      BY <1>5, <2>1
    <3>2. planRun'[RunKey(j)] # "none"
      BY <2>1
    <3> QED BY <1>3, <3>1, <3>2, RunnerMoves DEF RunnerAt
  <2>5. ClaimsHeld' /\ SlotsTell'
    BY <1>1, ClaimsStay
  <2> QED BY <2>2, <2>3, <2>4, <2>5 DEF Tracked
<1> QED BY <1>4, <1>5 DEF InsertRun

LEMMA EngineEndsTracked ==
  ASSUME Tracked, NEW j \in Submissions, EngineEnds(j)
  PROVE  Tracked'
<1> DEFINE k == RunKey(j)
<1>1. /\ PlanTyped /\ runner[j] = "engine" /\ runJob[j].status = "leased" /\ planRun[k] # "none"
      /\ RunnerTo(j, "returned") /\ UNCHANGED <<schedule, daySlot, sweeper, runJob, inserted>>
      /\ planRun' = [planRun EXCEPT ![k] = "done"]
  BY DEF Tracked, EngineEnds, Executes
<1>2. k \in RunKeys
  BY DEF RunKey, RunKeys, Scheduled
<1>3. RunnerAt(j, "returned", "leased")
  <2>1. "returned" \in RunnerStages
    BY DEF RunnerStages
  <2> QED BY <1>1, <2>1, RunnerToIsAt
<1>4. /\ planRun' \in [RunKeys -> {"none", "live", "done"}] /\ planRun'[k] = "done"
      /\ \A i \in RunKeys \ {k} : planRun'[i] = planRun[i]
  BY <1>1, <1>2 DEF PlanTyped
<1>5. PlanTyped'
  BY <1>1, <1>3, <1>4 DEF PlanTyped, RunnerAt
<1>6. InsertedOnce'
  BY <1>1, <1>2, <1>4 DEF Tracked, InsertedOnce
<1>7. Executes' /\ AnsweredByOwnRun'
  <2>1. \A i \in RunKeys : /\ planRun[i] # "none" => planRun'[i] # "none"
                           /\ planRun[i] = "done" => planRun'[i] = "done"
    BY <1>4
  <2>2. planRun'[RunKey(j)] = "done"
    BY <1>4
  <2> QED BY <1>3, <2>1, <2>2, RunnerMoves DEF RunnerAt
<1>8. ClaimsHeld' /\ SlotsTell'
  BY <1>1, ClaimsStay
<1> QED BY <1>5, <1>6, <1>7, <1>8 DEF Tracked

\* Only a runner that has the answer of its own key completes the job.
LEMMA SettleRunJobTracked ==
  ASSUME Tracked, NEW j \in Submissions, SettleRunJob(j)
  PROVE  Tracked'
<1> DEFINE becomes == IF runner[j] = "returned" THEN "completed" ELSE "failed"
<1>1. /\ PlanTyped /\ runner[j] # "idle" /\ RunnerTo(j, "idle")
      /\ runJob' = [runJob EXCEPT ![j].status = becomes]
      /\ UNCHANGED <<schedule, daySlot, sweeper, planRun, inserted>>
  BY DEF Tracked, SettleRunJob
<1>2. runJob[j].status = "leased" /\ (becomes = "completed" => planRun[RunKey(j)] = "done")
  BY <1>1 DEF Tracked, Executes
<1>3. "idle" \in RunnerStages /\ becomes \in RunStatuses /\ becomes # "none"
  BY DEF RunnerStages, RunStatuses
<1> HIDE DEF becomes
<1>4. RunnerAt(j, "idle", becomes)
  BY <1>1, <1>3, SettlesIsAt
<1> QED BY <1>1, <1>2, <1>3, <1>4, RunnerKeeps

LEMMA CrashRunnerTracked ==
  ASSUME Tracked, NEW j \in Submissions, CrashRunner(j)
  PROVE  Tracked'
<1> DEFINE becomes == IF runJob[j].leases < MaxLeases THEN "queued" ELSE "failed"
<1>1. /\ PlanTyped /\ runner[j] # "idle" /\ RunnerTo(j, "idle")
      /\ runJob' = [runJob EXCEPT ![j].status = becomes]
      /\ UNCHANGED <<schedule, daySlot, sweeper, planRun, inserted>>
  BY DEF Tracked, CrashRunner
<1>2. runJob[j].status = "leased"
  BY <1>1 DEF Tracked, Executes
<1>3. "idle" \in RunnerStages /\ becomes \in RunStatuses /\ becomes \notin {"none", "completed"}
  BY DEF RunnerStages, RunStatuses
<1> HIDE DEF becomes
<1>4. RunnerAt(j, "idle", becomes)
  BY <1>1, <1>3, SettlesIsAt
<1> QED BY <1>1, <1>2, <1>3, <1>4, RunnerKeeps

-----------------------------------------------------------------------------
(***************************************************************************)
(* The theorems                                                            *)
(***************************************************************************)
\* Planning, authorizing, expiry and the state of the schedule leave slots,
\* jobs and runs alone.
LEMMA PlanningTracked ==
  ASSUME Tracked,
         \/ \E r \in Proposals : PlanRunOf(r)
         \/ Authorize \/ PermitRunsOut \/ VerificationRunsOut
         \/ \E dst \in {"first", "skip"}, daily \in {0, PlanCost - 1} : CreateSchedule(dst, daily)
         \/ \E state \in {"active", "paused"} : SetScheduleState(state)
  PROVE  Tracked'
<1>1. schedule \in ScheduleRecords
  BY DEF Tracked, PlanTyped
<1>2. CASE \/ \E r \in Proposals : PlanRunOf(r)
           \/ Authorize \/ PermitRunsOut \/ VerificationRunsOut
  BY <1>1, <1>2, TrackedStays DEF PlanRunOf, Authorize, PermitRunsOut, VerificationRunsOut
<1>3. ASSUME NEW dst \in {"first", "skip"}, NEW daily \in {0, PlanCost - 1},
             CreateSchedule(dst, daily)
      PROVE  Tracked'
  <2>1. DueSlots(dst) \in SUBSET Days /\ (daily = 0 \/ PlanCost <= daily) \in BOOLEAN
    BY DEF DueSlots
  <2>2. schedule' \in ScheduleRecords
    BY <1>3, <2>1 DEF CreateSchedule, ScheduleRecords
  <2> QED BY <1>3, <2>2, TrackedStays DEF CreateSchedule
<1>4. ASSUME NEW state \in {"active", "paused"}, SetScheduleState(state)
      PROVE  Tracked'
  <2>1. schedule' \in ScheduleRecords
    BY <1>1, <1>4 DEF SetScheduleState, ScheduleRecords
  <2> QED BY <1>4, <2>1, TrackedStays DEF SetScheduleState
<1> QED BY <1>2, <1>3, <1>4

\* Every step keeps it.
LEMMA TrackedStep ==
  ASSUME Tracked, [SchedulingNext]_schedulingVars
  PROVE  Tracked'
<1>1. CASE \E w \in Sweepers : \/ BeginSweep(w) \/ ClaimSlot(w) \/ EndSweep(w)
                               \/ EnqueueSlot(w) \/ EnqueueFails(w) \/ RecordSlotJob(w)
                               \/ CrashSweep(w)
  BY <1>1, BeginSweepTracked, ClaimSlotTracked, EndSweepTracked, EnqueueSlotTracked,
     EnqueueFailsTracked, RecordSlotJobTracked, CrashSweepTracked
<1>2. CASE \E j \in ByHand : SubmitByHand(j)
  BY <1>2, SubmitByHandTracked
<1>3. CASE \E j \in Submissions : \/ LeaseRun(j) \/ CheckRun(j) \/ InsertRun(j)
                                  \/ EngineEnds(j) \/ SettleRunJob(j) \/ CrashRunner(j)
  BY <1>3, LeaseRunTracked, CheckRunTracked, InsertRunTracked, EngineEndsTracked,
     SettleRunJobTracked, CrashRunnerTracked
<1>4. CASE UNCHANGED schedulingVars
  BY <1>4, TrackedStays DEF schedulingVars, Tracked, PlanTyped
<1> QED BY <1>1, <1>2, <1>3, <1>4, PlanningTracked DEF SchedulingNext

\* The inductive invariant of scheduling: whoever sweeps, retries, crashes or
\* submits by hand, a day in the hand of a sweep is in no other hand and has
\* its job from the enqueue on, a runner is no further than the run of its
\* key, and a key has as many rows as runs. (schedules.py:196-226,
\* execution.py:82-98)
THEOREM SchedulingTracked == SchedulingSpec => []Tracked
<1>1. SchedulingInit => Tracked
  BY TrackedInit
<1>2. Tracked /\ [SchedulingNext]_schedulingVars => Tracked'
  BY TrackedStep
<1> QED BY <1>1, <1>2, PTL DEF SchedulingSpec

\* A due day is measured by one run of its own, for any days, sweepers and
\* submissions, any number of workers, leases and crashes: SlotRunsOnce.
THEOREM SlotRunsOnceAlways == SchedulingSpec => []SlotRunsOnce
<1>1. Tracked => SlotRunsOnce
  BY DEF Tracked, PlanTyped, InsertedOnce, AnsweredByOwnRun, SlotsTell, SlotRunsOnce
<1> QED BY <1>1, SchedulingTracked, PTL
=============================================================================
