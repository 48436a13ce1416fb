------------------------------ MODULE Authoring ------------------------------
(***************************************************************************)
(* The versions of one evaluation (versions.py), edited directly and by    *)
(* the turns of harness sessions (sessions.py, authoring.py, worker.py).   *)
(* Versions are immutable, the head is advanced by compare-and-swap, and a *)
(* session has a revision and a pointer of its own; one transaction        *)
(* publishes a version, moves the pointer and completes the turn's job.    *)
(*                                                                         *)
(* Transactions are those of PostgreSQL at READ COMMITTED, where the head  *)
(* is read FOR UPDATE and the session is not; on SQLite a transaction runs *)
(* alone, which is one of the interleavings below. The revision of a       *)
(* version is its place in the chain of its evaluation. The job of a turn  *)
(* is reduced to being taken up again, its fenced publication to the step  *)
(* that commits.                                                           *)
(***************************************************************************)
EXTENDS Naturals, Sequences

CONSTANTS
    Editors,      \* clients that save the evaluation directly
    Sessions,     \* harness sessions of the evaluation
    Turns,        \* session turns, one job each
    MaxVersions,  \* bound on the length of the chain, and of the chains of other evaluations
    Nobody        \* the head is not locked, a turn has no session

ASSUME AuthoringAssumption ==
    /\ MaxVersions \in Nat \ {0}
    /\ Nobody \notin Editors \cup Turns \cup Sessions
    /\ Editors \cap Turns = {}

VARIABLES
    chain,    \* object_versions: who made each, and the one its content is from; 0: none of these
    locked,   \* whose transaction holds the row of version_heads
    session,  \* harness_sessions: revision, and the version pointed to: whose, and its revision
    editor,   \* per editor: the revision it read, 0 when it holds none
    turn      \* per turn: its job's progress, session, expected revision and prepared base

authoringVars == <<chain, locked, session, editor, turn>>

\* What evaluation_version_id names: a version of this evaluation or of another,
\* or nothing that is an evaluation's version.
Origins == {"unopened", "nothing", "this", "other"}

TurnStages == {"new", "queued", "prepared", "create", "advance", "validated", "rejected", "conflict"}

AuthoringInit ==
    /\ chain = <<[by |-> Nobody, base |-> 0]>>
    /\ locked = Nobody
    /\ session = [s \in Sessions |-> [revision |-> 0, of |-> "unopened", version |-> 0]]
    /\ editor = [e \in Editors |-> 0]
    /\ turn = [t \in Turns |-> [at |-> "new", session |-> Nobody, expected |-> 0,
                               of |-> "nothing", base |-> 0]]

TurnTo(t, stage) == turn' = [turn EXCEPT ![t].at = stage]

\* Mutant of HeadFree: the head is read without FOR UPDATE.
HeadUnguarded == TRUE

HeadFree == locked = Nobody

HeadIs(revision) == Len(chain) = revision

Append1(who, base) == Append(chain, [by |-> who, base |-> base])

-----------------------------------------------------------------------------
(***************************************************************************)
(* Editors: GET, then POST with the revision read                          *)
(***************************************************************************)
ReadHead(e) ==
    /\ editor' = [editor EXCEPT ![e] = Len(chain)]
    /\ UNCHANGED <<chain, locked, session, turn>>

\* VersionStore.create in a transaction of its own, RevisionConflict included.
Save(e) ==
    /\ editor[e] # 0 /\ HeadFree
    /\ \/ HeadIs(editor[e]) /\ Len(chain) < MaxVersions /\ chain' = Append1(e, editor[e])
       \/ ~HeadIs(editor[e]) /\ UNCHANGED chain
    /\ editor' = [editor EXCEPT ![e] = 0]
    /\ UNCHANGED <<locked, session, turn>>

-----------------------------------------------------------------------------
(***************************************************************************)
(* Sessions and their turns                                                *)
(***************************************************************************)
\* What a client may name; it is stored as it comes.
Nameable(of, version) ==
    \/ of = "this" /\ version \in 1..Len(chain)
    \/ of = "other" /\ version \in 1..MaxVersions
    \/ of = "nothing" /\ version = 0

OpenSession(s, of, version) ==
    /\ session[s].of = "unopened" /\ Nameable(of, version)
    /\ session' = [session EXCEPT ![s] = [revision |-> 0, of |-> of, version |-> version]]
    /\ UNCHANGED <<chain, locked, editor, turn>>

\* submit_turn: the expected revision is the current one, and the job is
\* enqueued in the same transaction.
Submit(t, s) ==
    /\ turn[t].at = "new" /\ session[s].of # "unopened"
    /\ turn' = [turn EXCEPT ![t] = [at |-> "queued", session |-> s,
                                    expected |-> session[s].revision,
                                    of |-> "nothing", base |-> 0]]
    /\ UNCHANGED <<chain, locked, session, editor>>

Mine(t) == session[turn[t].session]

\* Mutant of SessionAsExpected: the session's revision is not compared.
SessionAnyRevision(t) == TRUE

SessionAsExpected(t) == Mine(t).revision = turn[t].expected

\* prepare: the session and the version it points to, which must be one, then
\* the provider; the answer may be rejected after the last repair, or fail.
Prepare(t) ==
    /\ turn[t].at = "queued"
    /\ \/ SessionAsExpected(t) /\ Mine(t).of # "nothing"
          /\ turn' = [turn EXCEPT ![t].at = "prepared", ![t].of = Mine(t).of,
                                  ![t].base = Mine(t).version]
       \/ SessionAsExpected(t) /\ TurnTo(t, "rejected")
       \/ ~SessionAsExpected(t) /\ TurnTo(t, "conflict")
    /\ UNCHANGED <<chain, locked, session, editor>>

StillPrepared(t) ==
    SessionAsExpected(t) /\ Mine(t).of = turn[t].of /\ Mine(t).version = turn[t].base

\* publish opens its transaction and reads the session without a lock.
OpenPublication(t) ==
    /\ turn[t].at = "prepared"
    /\ TurnTo(t, IF StillPrepared(t) THEN "create" ELSE "conflict")
    /\ UNCHANGED <<chain, locked, session, editor>>

\* VersionStore.create inside it: the head is locked until the transaction
\* ends; the new version is not visible before it commits.
LockHead(t) ==
    /\ turn[t].at = "create" /\ HeadFree
    /\ IF HeadIs(turn[t].base)
       THEN locked' = t /\ TurnTo(t, "advance")
       ELSE locked' = locked /\ TurnTo(t, "conflict")
    /\ UNCHANGED <<chain, session, editor>>

\* Mutant of Advanced: the pointer stays at the version the turn started from.
AdvancedInPlace(t) ==
    [revision |-> turn[t].expected + 1, of |-> turn[t].of, version |-> turn[t].base]

Advanced(t) == [revision |-> turn[t].expected + 1, of |-> "this", version |-> Len(chain) + 1]

\* The version of this evaluation that the proposal was applied to, if any.
DerivedFrom(t) == IF turn[t].of = "this" THEN turn[t].base ELSE 0

\* SessionStore.advance reads the session again and updates it where the
\* revision is still the expected one; the job completes; commit.
PublishTurn(t) ==
    /\ turn[t].at = "advance" /\ Len(chain) < MaxVersions
    /\ IF SessionAsExpected(t)
       THEN /\ chain' = Append1(t, DerivedFrom(t))
            /\ session' = [session EXCEPT ![turn[t].session] = Advanced(t)]
            /\ TurnTo(t, "validated")
       ELSE UNCHANGED <<chain, session>> /\ TurnTo(t, "conflict")
    /\ locked' = Nobody
    /\ UNCHANGED editor

\* The lease lapses or the worker dies at any point before the commit: the
\* transaction rolls back and the next holder starts over.
Reclaim(t) ==
    /\ turn[t].at \in {"prepared", "create", "advance"}
    /\ turn' = [turn EXCEPT ![t].at = "queued", ![t].of = "nothing", ![t].base = 0]
    /\ locked' = IF locked = t THEN Nobody ELSE locked
    /\ UNCHANGED <<chain, session, editor>>

AuthoringNext ==
    \/ \E e \in Editors : ReadHead(e) \/ Save(e)
    \/ \E s \in Sessions, of \in Origins, version \in 0..MaxVersions : OpenSession(s, of, version)
    \/ \E t \in Turns, s \in Sessions : Submit(t, s)
    \/ \E t \in Turns : \/ Prepare(t) \/ OpenPublication(t) \/ LockHead(t)
                        \/ PublishTurn(t) \/ Reclaim(t)

AuthoringSpec == AuthoringInit /\ [][AuthoringNext]_authoringVars

-----------------------------------------------------------------------------
(***************************************************************************)
(* Properties                                                              *)
(***************************************************************************)
Entry == [by : Editors \cup Turns \cup {Nobody}, base : Nat]

\* The rows of versions, heads, sessions and turns have their types; only a
\* turn in its transaction holds the head (versions.py, sessions.py).
AuthoringTypeOK ==
    /\ chain \in Seq(Entry) /\ Len(chain) \in 1..MaxVersions
    /\ session \in [Sessions -> [revision : Nat, of : Origins, version : Nat]]
    /\ editor \in [Editors -> Nat]
    /\ turn \in [Turns -> [at : TurnStages, session : Sessions \cup {Nobody},
                           expected : Nat, of : Origins, base : Nat]]
    /\ locked \in Turns \cup {Nobody}
    /\ \A t \in Turns : turn[t].at = "advance" <=> locked = t

\* A turn patches the evaluation it is asked about: the content of every version
\* was derived from the one right before it, whoever edits concurrently
\* (AuthoringService.publish, VersionStore.create). The code violates it
\* (README.md, 4) where the next two definitions say.
NoEditLost == \A v \in 2..Len(chain) : chain[v].base = v - 1

\* The version was published by the first turn of a session that was opened on
\* another evaluation's version (create_session compares the two in no way).
FromElsewhere(v) ==
    /\ chain[v].base = 0 /\ chain[v].by \in Turns
    /\ turn[chain[v].by].of = "other" /\ turn[chain[v].by].expected = 0

\* What is true: nothing else loses an edit, however editors and turns interleave
\* (VersionStore.create). Part of what ImplementsAtomicEditing, below, says.
EditsKept == \A v \in 2..Len(chain) : chain[v].base = v - 1 \/ FromElsewhere(v)

\* Versions published by the turns of a session.
PublishedBy(s) == {v \in 1..Len(chain) : chain[v].by \in {t \in Turns : turn[t].session = s}}

\* A turn's version, its session's pointer and its job are one outcome: the
\* pointer is at the last version the session's turns published, and a turn
\* is validated exactly when its version is in the chain (AuthoringService.publish).
TurnIsAtomic ==
    /\ \A s \in Sessions : PublishedBy(s) # {} =>
           /\ session[s].of = "this" /\ session[s].version \in PublishedBy(s)
           /\ \A v \in PublishedBy(s) : v <= session[s].version
    /\ \A t \in Turns : turn[t].at = "validated" <=> \E v \in 1..Len(chain) : chain[v].by = t

\* Every revision of a session is consumed by one turn: of the turns submitted
\* against it at most one publishes, retries included (SessionStore.advance).
OneTurnPerRevision ==
    \A t, u \in Turns :
        /\ turn[t].at = "validated" /\ turn[u].at = "validated"
        /\ turn[t].session = turn[u].session /\ turn[t].expected = turn[u].expected
        => t = u

\* The promise (AtomicEditing) as it reads here: a turn is open until it settles.
StateOf(t) ==
    CASE turn[t].at = "new" -> "new"
      [] turn[t].at = "validated" -> "published"
      [] turn[t].at \in {"rejected", "conflict"} -> "refused"
      [] OTHER -> "open"
RequestOf(t) == [state |-> StateOf(t), session |-> turn[t].session, revision |-> turn[t].expected]

Editing == INSTANCE AtomicEditing WITH
    versions <- chain, pointer <- session, request <- [t \in Turns |-> RequestOf(t)]

\* A turn reads its session twice without a lock, spends minutes at a provider,
\* and locks the head in between: for its clients it lands in one step, on the
\* session as it was asked and the newest version, or not at all
\* (AuthoringService.publish, SessionStore.advance, VersionStore.create).
ImplementsAtomicEditing == Editing!Spec
=============================================================================
