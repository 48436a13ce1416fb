---------------------------- MODULE FairDispatch ----------------------------
(***************************************************************************)
(* The fair dispatch of a worker pool over several workspaces (worker.py): *)
(* every pass of run_fair_once reserves a position to start from, asks     *)
(* the workspaces one after the other for a job, and runs the first it     *)
(* gets. On PostgreSQL the position is a row that all processes of a pool  *)
(* share; on SQLite it is the process's own and does not survive it.       *)
(* The processes of a pool are given the same workspaces in one order.     *)
(***************************************************************************)
EXTENDS Integers, FiniteSets

CONSTANTS
    Processes,    \* the processes of the pool
    Size,         \* the number of workspaces, at positions 0 .. Size - 1
    MaxWaiting,   \* bound on the jobs of a workspace that wait
    MaxLosses     \* bound on the deaths of processes

ASSUME DispatchAssumption ==
    /\ IsFiniteSet(Processes) /\ Processes # {}
    /\ Size \in Nat \ {0} /\ {MaxWaiting, MaxLosses} \subseteq Nat

VARIABLES
    durable,   \* whether the cursor is the row of worker_dispatch_cursors
    cursor,    \* that row's cursor
    pass,      \* a process's pass: its start, how many it asked, its own cursor
    waiting,   \* the jobs of a workspace that wait
    passed,    \* how often another was served while a workspace waits
    deaths     \* how many processes died

dispatchVars == <<durable, cursor, pass, waiting, passed, deaths>>

Positions == 0..(Size - 1)
After(position) == (position + 1) % Size
\* SQLite is for a single process.
Pool == IF durable THEN Processes ELSE {CHOOSE p \in Processes : TRUE}
NoPass == [at |-> "between", start |-> 0, asked |-> 0, own |-> 0]

DispatchInit ==
    /\ durable \in BOOLEAN
    /\ cursor = 0
    /\ pass = [p \in Processes |-> NoPass]
    /\ waiting = [w \in Positions |-> 0] /\ passed = [w \in Positions |-> 0]
    /\ deaths = 0

\* A job is submitted for the workspace at w.
SubmitTo(w) ==
    /\ waiting[w] < MaxWaiting
    /\ waiting' = [waiting EXCEPT ![w] = @ + 1]
    /\ UNCHANGED <<durable, cursor, pass, passed, deaths>>

\* Mutant of NextCursor: the row keeps the position that was taken.
CursorStays(start) == start

\* What the row holds once a pass has taken start from it.
NextCursor(start) == After(start)

\* _fair_start, under the advisory lock of the pool.
FairStart(p) ==
    /\ pass[p].at = "between"
    /\ LET start == IF durable THEN cursor ELSE pass[p].own IN
       /\ pass' = [pass EXCEPT ![p] = [@ EXCEPT !.at = "asking", !.start = start, !.asked = 0]]
       /\ cursor' = IF durable THEN NextCursor(start) ELSE cursor
    /\ UNCHANGED <<durable, waiting, passed, deaths>>

\* The workspace a pass asks next.
Asked(p) == (pass[p].start + pass[p].asked) % Size

\* run_once claims a job of the workspace: whoever else waits is passed over.
Serve(p) ==
    /\ pass[p].at = "asking" /\ waiting[Asked(p)] > 0
    /\ waiting' = [waiting EXCEPT ![Asked(p)] = @ - 1]
    /\ passed' = [w \in Positions |-> IF w = Asked(p) \/ waiting[w] = 0 THEN 0 ELSE passed[w] + 1]
    /\ pass' = [pass EXCEPT ![p].at = "running"]
    /\ UNCHANGED <<durable, cursor, deaths>>

\* It finds none: the next workspace is asked, and after the last the pass ends.
AskNext(p) ==
    /\ pass[p].at = "asking" /\ waiting[Asked(p)] = 0
    /\ pass' = [pass EXCEPT ![p] =
                  IF @.asked + 1 < Size THEN [@ EXCEPT !.asked = pass[p].asked + 1]
                  ELSE [NoPass EXCEPT !.own = After(pass[p].start)]]
    /\ UNCHANGED <<durable, cursor, waiting, passed, deaths>>

\* The job is done: the pass returns the position after the one it served.
Return(p) ==
    /\ pass[p].at = "running"
    /\ pass' = [pass EXCEPT ![p] = [NoPass EXCEPT !.own = After(Asked(p))]]
    /\ UNCHANGED <<durable, cursor, waiting, passed, deaths>>

\* A process dies anywhere, and another takes its place with a cursor of 0.
ProcessDies(p) ==
    /\ deaths < MaxLosses /\ pass[p] # NoPass
    /\ deaths' = deaths + 1
    /\ pass' = [pass EXCEPT ![p] = NoPass]
    /\ UNCHANGED <<durable, cursor, waiting, passed>>

DispatchNext ==
    \/ \E w \in Positions : SubmitTo(w)
    \/ \E p \in Pool : FairStart(p) \/ Serve(p) \/ AskNext(p) \/ Return(p) \/ ProcessDies(p)

DispatchSpec == DispatchInit /\ [][DispatchNext]_dispatchVars

-----------------------------------------------------------------------------
\* However busy the others are, a workspace that waits is passed over a bounded
\* number of times: a pass that starts at it is one in Size, and only one that
\* is held up elsewhere, was under way before, or died with its process can fail
\* to serve it (run_fair_once, _fair_start).
FairShare ==
    LET size == Cardinality(Pool) IN
    \A w \in Positions : passed[w] <= size + (size + deaths) * (Size - 1)
=============================================================================
