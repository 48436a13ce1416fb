---------------------------- MODULE AtomicEditing ----------------------------
(***************************************************************************)
(* What authoring does for its clients, seen without transactions, locks,  *)
(* leases or workers: a version is appended to the one it was derived      *)
(* from, and a turn lands whole, in one step, on the very session it was   *)
(* asked of, or is refused (versions.py, sessions.py, authoring.py). The   *)
(* exception is part of it: a session may be opened on a version of        *)
(* another evaluation, and lands that one's content where the revisions    *)
(* happen to agree.                                                        *)
(***************************************************************************)
EXTENDS Naturals, Sequences

CONSTANTS
    Editors, Sessions, Turns, Nobody,
    MaxVersions   \* bound on the length of chains, here and elsewhere

VARIABLES
    versions,   \* who made each version, and the one it was derived from; 0: none of these
    pointer,    \* per session: its revision, and whose version, of which revision, it points to
    request     \* per turn: its state, and what it was asked of

editingVars == <<versions, pointer, request>>

Request(state, s, revision) == [state |-> state, session |-> s, revision |-> revision]
Unasked == Request("new", Nobody, 0)
Pointer(revision, of, version) == [revision |-> revision, of |-> of, version |-> version]

Init ==
    /\ versions = <<[by |-> Nobody, base |-> 0]>>
    /\ pointer = [s \in Sessions |-> Pointer(0, "unopened", 0)]
    /\ request = [t \in Turns |-> Unasked]

Extended(who, base) == Append(versions, [by |-> who, base |-> base])

Edit(e) ==
    /\ versions' = Extended(e, Len(versions))
    /\ UNCHANGED <<pointer, request>>

Open(s, of, version) ==
    /\ pointer[s].of = "unopened"
    /\ of = "this" => version \in 1..Len(versions)
    /\ pointer' = [pointer EXCEPT ![s] = Pointer(0, of, version)]
    /\ UNCHANGED <<versions, request>>

Ask(t, s) ==
    /\ request[t] = Unasked /\ pointer[s].of # "unopened"
    /\ request' = [request EXCEPT ![t] = Request("open", s, pointer[s].revision)]
    /\ UNCHANGED <<versions, pointer>>

Refuse(t) ==
    /\ request[t].state = "open"
    /\ request' = [request EXCEPT ![t].state = "refused"]
    /\ UNCHANGED <<versions, pointer>>

\* The session is as the turn was asked of it, and points to the newest version,
\* or, if nothing has landed there yet, to one of as many versions elsewhere.
Land(t) ==
    LET s == request[t].session
        revision == request[t].revision
    IN /\ request[t].state = "open"
       /\ \/ /\ pointer[s] = Pointer(revision, "this", Len(versions))
             /\ versions' = Extended(t, Len(versions))
          \/ /\ pointer[s] = Pointer(revision, "other", Len(versions)) /\ revision = 0
             /\ versions' = Extended(t, 0)
       /\ pointer' = [pointer EXCEPT ![s] = Pointer(revision + 1, "this", Len(versions) + 1)]
       /\ request' = [request EXCEPT ![t].state = "published"]

Next ==
    \/ \E e \in Editors : Edit(e)
    \/ \E s \in Sessions, of \in {"nothing", "this", "other"}, version \in 0..MaxVersions :
          Open(s, of, version)
    \/ \E t \in Turns, s \in Sessions : Ask(t, s)
    \/ \E t \in Turns : Refuse(t) \/ Land(t)

Spec == Init /\ [][Next]_editingVars
=============================================================================
