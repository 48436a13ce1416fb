--------------------------- MODULE RevisionProofs ----------------------------
(***************************************************************************)
(* Theorems about work started against a revision that moves under it:     *)
(* Authoring, for any editors, sessions, turns and any length of the       *)
(* chain (types, which edits are kept, one turn per revision, a turn's     *)
(* version, pointer and job as one outcome), Calibration, for any labels,  *)
(* resets and readers (which labels are counted after a reset), and        *)
(* Rescoring, for any cases, metrics and requests (old revisions stay).    *)
(***************************************************************************)
EXTENDS Authoring, Calibration, Rescoring, FiniteSetTheorems, TLAPS

\* A turn that was submitted has a session, which was opened.
Placed ==
    \A t \in Turns : turn[t].at # "new" =>
        turn[t].session \in Sessions /\ session[turn[t].session].of # "unopened"

\* The head a turn found when it locked it cannot move before it commits.
HeadHeld == \A t \in Turns : turn[t].at = "advance" => turn[t].base = Len(chain)

\* A session has left the revision behind that a published turn expected.
Consumed ==
    \A t \in Turns : turn[t].at = "validated" =>
        turn[t].expected < session[turn[t].session].revision

\* A session leaves the version it was opened on at its first publication, so
\* that a turn prepared on another evaluation's is the first of its session.
ElsewhereFirst ==
    /\ \A s \in Sessions : session[s].of # "this" => session[s].revision = 0
    /\ \A t \in Turns : turn[t].of = "other" => turn[t].expected = 0
    /\ \A t \in Turns : turn[t].at \in {"prepared", "create", "advance"}
                         => turn[t].of \in {"this", "other"}

\* A turn whose version is in the chain is through.
OnceThrough ==
    \A v \in 1..Len(chain) : chain[v].by \in Turns => turn[chain[v].by].at = "validated"

\* The inductive invariant: what the properties say, with what makes a
\* publication find the head and the session as it expects them.
Linear ==
    /\ AuthoringTypeOK
    /\ Placed
    /\ HeadHeld
    /\ ElsewhereFirst
    /\ OnceThrough
    /\ EditsKept
    /\ Consumed
    /\ OneTurnPerRevision

\* The first version has no predecessor, and nobody holds a revision.
LEMMA LinearInit == AuthoringInit => Linear
<1> SUFFICES ASSUME AuthoringInit PROVE Linear
  OBVIOUS
<1>1. /\ chain \in Seq(Entry) /\ Len(chain) = 1 /\ chain[1].by = Nobody
      /\ Nobody \notin Turns /\ 1 \in 1..MaxVersions
  BY AuthoringAssumption DEF AuthoringInit, Entry
<1>2. AuthoringTypeOK
  BY <1>1 DEF AuthoringInit, AuthoringTypeOK, TurnStages, Origins
<1>3. Placed /\ HeadHeld /\ ElsewhereFirst /\ Consumed /\ OneTurnPerRevision
  BY DEF AuthoringInit, Placed, HeadHeld, ElsewhereFirst, Consumed, OneTurnPerRevision
<1>4. OnceThrough /\ EditsKept
  BY <1>1 DEF OnceThrough, EditsKept
<1> QED
  BY <1>2, <1>3, <1>4 DEF Linear

\* A version extends the chain and leaves the others as they are.
LEMMA ChainGrows ==
  ASSUME NEW who \in Editors \cup Turns, NEW base \in Nat,
         chain \in Seq(Entry), Len(chain) \in 1..MaxVersions, Len(chain) < MaxVersions,
         chain' = Append1(who, base)
  PROVE  /\ chain' \in Seq(Entry)
         /\ Len(chain') \in 1..MaxVersions
         /\ Len(chain') = Len(chain) + 1
         /\ \A v \in 1..Len(chain) : chain'[v] = chain[v]
         /\ chain'[Len(chain')] = [by |-> who, base |-> base]
<1>1. [by |-> who, base |-> base] \in Entry
  BY DEF Entry
<1>2. /\ chain' \in Seq(Entry)
      /\ Len(chain') = Len(chain) + 1
      /\ \A v \in 1..Len(chain) : chain'[v] = chain[v]
      /\ chain'[Len(chain) + 1] = [by |-> who, base |-> base]
  BY <1>1 DEF Append1
<1>3. MaxVersions \in Nat
  BY AuthoringAssumption
<1> QED
  BY <1>2, <1>3

\* Steps that touch neither the chain nor a turn.
LEMMA AsideStep ==
  ASSUME Linear,
         UNCHANGED <<chain, locked, turn>>,
         session' \in [Sessions -> [revision : Nat, of : Origins, version : Nat]],
         \A s \in Sessions : /\ session'[s].revision = session[s].revision
                             /\ session'[s].of # "this" => session'[s].revision = 0
                             /\ session[s].of # "unopened" => session'[s].of # "unopened",
         editor' \in [Editors -> Nat]
  PROVE  Linear'
<1>1. AuthoringTypeOK' /\ Placed' /\ HeadHeld' /\ OneTurnPerRevision'
  BY DEF Linear, AuthoringTypeOK, Placed, HeadHeld, OneTurnPerRevision
<1>2. ElsewhereFirst' /\ OnceThrough' /\ EditsKept'
  BY DEF Linear, ElsewhereFirst, OnceThrough, EditsKept, FromElsewhere
<1>3. Consumed'
  BY DEF Linear, Consumed, Placed
<1> QED
  BY <1>1, <1>2, <1>3 DEF Linear

\* An editor appends to the head it read, or not at all.
LEMMA SaveStep ==
  ASSUME Linear, NEW e \in Editors, Save(e)
  PROVE  Linear'
<1>1. editor' \in [Editors -> Nat]
  BY DEF Linear, AuthoringTypeOK, Save
<1>2. CASE HeadIs(editor[e]) /\ Len(chain) < MaxVersions /\ chain' = Append1(e, editor[e])
  <2>1. chain' = Append1(e, Len(chain)) /\ Len(chain) \in Nat
    BY <1>2 DEF HeadIs, Linear, AuthoringTypeOK
  <2>2. /\ chain' \in Seq(Entry) /\ Len(chain') \in 1..MaxVersions
        /\ Len(chain') = Len(chain) + 1
        /\ \A v \in 1..Len(chain) : chain'[v] = chain[v]
        /\ chain'[Len(chain')] = [by |-> e, base |-> Len(chain)]
    BY <1>2, <2>1, ChainGrows DEF Linear, AuthoringTypeOK
  <2>3. AuthoringTypeOK'
    BY <1>1, <2>2 DEF Save, Linear, AuthoringTypeOK
  <2>4. HeadHeld'
    BY AuthoringAssumption DEF Save, HeadFree, Linear, AuthoringTypeOK, HeadHeld
  <2>5. Placed' /\ ElsewhereFirst' /\ Consumed' /\ OneTurnPerRevision'
    BY DEF Save, Linear, Placed, ElsewhereFirst, Consumed, OneTurnPerRevision
  <2>6. turn' = turn /\ e \notin Turns
    BY AuthoringAssumption DEF Save
  <2>7. OnceThrough'
    BY <2>1, <2>2, <2>6 DEF Linear, OnceThrough
  <2>8. EditsKept'
    BY <2>1, <2>2, <2>6 DEF Linear, EditsKept, FromElsewhere
  <2> QED
    BY <2>3, <2>4, <2>5, <2>7, <2>8 DEF Linear
<1>3. CASE UNCHANGED chain
  BY <1>1, <1>3, AsideStep DEF Save, Linear, AuthoringTypeOK, ElsewhereFirst
<1> QED
  BY <1>2, <1>3 DEF Save

\* The rows of turns.
TurnRow == [at : TurnStages, session : Sessions \cup {Nobody}, expected : Nat, of : Origins, base : Nat]

\* Steps of one turn that do not publish.
LEMMA TurnStep ==
  ASSUME Linear, NEW t \in Turns, turn[t].at # "validated",
         UNCHANGED <<chain, session, editor>>,
         turn' \in [Turns -> TurnRow],
         \A u \in Turns : u # t => turn'[u] = turn[u],
         turn'[t].at \notin {"new", "validated"},
         turn'[t].session \in Sessions, session[turn'[t].session].of # "unopened",
         turn'[t].of = "other" => turn'[t].expected = 0,
         turn'[t].at \in {"prepared", "create", "advance"} => turn'[t].of \in {"this", "other"},
         turn'[t].at = "advance" => turn'[t].base = Len(chain) /\ locked = Nobody /\ locked' = t,
         turn'[t].at # "advance" => locked' = IF locked = t THEN Nobody ELSE locked
  PROVE  Linear'
<1>1. \A u \in Turns : turn'[u].at = "advance" <=> locked' = u
  BY AuthoringAssumption DEF Linear, AuthoringTypeOK
<1>2. locked' \in Turns \cup {Nobody}
  BY DEF Linear, AuthoringTypeOK
<1>3. AuthoringTypeOK'
  BY <1>1, <1>2 DEF Linear, AuthoringTypeOK, TurnRow
<1>4. Placed' /\ HeadHeld' /\ ElsewhereFirst'
  BY DEF Linear, Placed, HeadHeld, ElsewhereFirst
<1>5. \A u \in Turns : turn'[u].at = "validated" => u # t /\ turn'[u] = turn[u]
  OBVIOUS
<1>6. Consumed' /\ OneTurnPerRevision'
  BY <1>5 DEF Linear, Consumed, OneTurnPerRevision
<1>7. \A v \in 1..Len(chain) : chain[v].by \in Turns
            => chain[v].by # t /\ turn'[chain[v].by] = turn[chain[v].by]
  BY DEF Linear, OnceThrough
<1>8. OnceThrough' /\ EditsKept'
  BY <1>7 DEF Linear, OnceThrough, EditsKept, FromElsewhere
<1> QED
  BY <1>3, <1>4, <1>6, <1>8 DEF Linear

\* A turn that was submitted goes to another stage, on the version it is on.
LEMMA StageStep ==
  ASSUME Linear, NEW t \in Turns, turn[t].at \notin {"new", "validated"},
         UNCHANGED <<chain, session, editor>>,
         NEW stage \in TurnStages \ {"new", "validated"}, TurnTo(t, stage),
         stage \in {"prepared", "create", "advance"} => turn[t].of \in {"this", "other"},
         stage = "advance" => turn[t].base = Len(chain) /\ locked = Nobody /\ locked' = t,
         stage # "advance" => locked' = IF locked = t THEN Nobody ELSE locked
  PROVE  Linear'
<1>1. turn \in [Turns -> TurnRow]
  BY DEF Linear, AuthoringTypeOK, TurnRow
<1>2. /\ turn' \in [Turns -> TurnRow]
      /\ \A u \in Turns : u # t => turn'[u] = turn[u]
      /\ turn'[t].at = stage /\ turn'[t].session = turn[t].session
      /\ turn'[t].expected = turn[t].expected /\ turn'[t].of = turn[t].of
      /\ turn'[t].base = turn[t].base
  BY <1>1 DEF TurnTo, TurnRow
<1>3. /\ turn'[t].session \in Sessions /\ session[turn'[t].session].of # "unopened"
      /\ turn'[t].of = "other" => turn'[t].expected = 0
  BY <1>2 DEF Linear, Placed, ElsewhereFirst
<1> QED
  BY <1>2, <1>3, TurnStep

\* A turn appends to the head it was prepared on, or not at all.
LEMMA PublishStep ==
  ASSUME Linear, NEW t \in Turns, PublishTurn(t)
  PROVE  Linear'
<1>1. /\ turn[t].at = "advance" /\ locked = t /\ turn[t].base = Len(chain)
      /\ turn[t].session \in Sessions
      /\ turn[t] \in [at : TurnStages, session : Sessions \cup {Nobody},
                      expected : Nat, of : Origins, base : Nat]
  BY DEF PublishTurn, Linear, AuthoringTypeOK, Placed, HeadHeld
<1>2. CASE ~SessionAsExpected(t)
  <2>1. "conflict" \in TurnStages \ {"new", "validated"}
    BY DEF TurnStages
  <2>2. TurnTo(t, "conflict") /\ UNCHANGED <<chain, session, editor>> /\ locked' = Nobody
    BY <1>2 DEF PublishTurn
  <2> QED
    BY <1>1, <2>1, <2>2, StageStep
<1>3. CASE SessionAsExpected(t)
  <2>1. /\ chain' = Append1(t, DerivedFrom(t)) /\ Len(chain) < MaxVersions
        /\ session' = [session EXCEPT ![turn[t].session] = Advanced(t)]
        /\ turn' = [turn EXCEPT ![t].at = "validated"]
        /\ locked' = Nobody /\ editor' = editor
        /\ DerivedFrom(t) \in Nat /\ Len(chain) \in Nat
    BY <1>1, <1>3 DEF PublishTurn, TurnTo, DerivedFrom
  <2>2. /\ chain' \in Seq(Entry) /\ Len(chain') \in 1..MaxVersions
        /\ Len(chain') = Len(chain) + 1
        /\ \A v \in 1..Len(chain) : chain'[v] = chain[v]
        /\ chain'[Len(chain')] = [by |-> t, base |-> DerivedFrom(t)]
    BY <2>1, ChainGrows DEF Linear, AuthoringTypeOK
  <2>3. /\ turn' \in [Turns -> [at : TurnStages, session : Sessions \cup {Nobody},
                                expected : Nat, of : Origins, base : Nat]]
        /\ turn'[t] = [turn[t] EXCEPT !.at = "validated"]
        /\ \A u \in Turns : u # t => turn'[u] = turn[u] /\ turn[u].at # "advance"
    BY <1>1, <2>1 DEF Linear, AuthoringTypeOK, TurnStages
  <2>4. /\ session' \in [Sessions -> [revision : Nat, of : Origins, version : Nat]]
        /\ session[turn[t].session].revision = turn[t].expected
        /\ session'[turn[t].session].revision = turn[t].expected + 1
        /\ \A s \in Sessions : s # turn[t].session => session'[s] = session[s]
    BY <1>1, <1>3, <2>1 DEF Linear, AuthoringTypeOK, Advanced, SessionAsExpected, Mine, Origins
  <2>5. AuthoringTypeOK'
    <3>1. \A u \in Turns : turn'[u].at = "advance" <=> locked' = u
      BY <2>1, <2>3, AuthoringAssumption
    <3>2. locked' \in Turns \cup {Nobody} /\ editor' \in [Editors -> Nat]
      BY <2>1 DEF Linear, AuthoringTypeOK
    <3> QED
      BY <2>2, <2>3, <2>4, <3>1, <3>2 DEF AuthoringTypeOK
  <2>6. Placed' /\ HeadHeld'
    <3>1. session'[turn[t].session].of = "this"
      BY <1>1, <2>1 DEF Linear, AuthoringTypeOK, Advanced
    <3>2. \A u \in Turns : /\ turn'[u].session = turn[u].session
                           /\ turn'[u].at # "new" => turn[u].at # "new"
      BY <1>1, <2>3
    <3>3. \A s \in Sessions : session[s].of # "unopened" => session'[s].of # "unopened"
      BY <2>4, <3>1
    <3>4. Placed'
      <4>1. ASSUME NEW u \in Turns, turn'[u].at # "new"
            PROVE  turn'[u].session \in Sessions /\ session'[turn'[u].session].of # "unopened"
        <5>1. turn[u].at # "new" /\ turn'[u].session = turn[u].session
          BY <3>2, <4>1
        <5>2. turn[u].session \in Sessions /\ session[turn[u].session].of # "unopened"
          BY <5>1 DEF Linear, Placed
        <5> QED
          BY <3>3, <5>1, <5>2
      <4> QED
        BY <4>1 DEF Placed
    <3>5. HeadHeld'
      BY <1>1, <2>3 DEF HeadHeld
    <3> QED
      BY <3>4, <3>5
  <2>7. Consumed'
    <3>1. ASSUME NEW u \in Turns, turn'[u].at = "validated"
          PROVE  turn'[u].expected < session'[turn'[u].session].revision
      <4>1. CASE u = t
        <5>1. turn'[t].expected = turn[t].expected /\ turn'[t].session = turn[t].session
          BY <1>1, <2>3
        <5>2. session'[turn[t].session].revision = turn[t].expected + 1 /\ turn[t].expected \in Nat
          BY <1>1, <2>4
        <5> QED BY <4>1, <5>1, <5>2
      <4>2. CASE u # t
        <5>1. turn[u].at = "validated" /\ turn[u].session \in Sessions
          BY <2>3, <3>1, <4>2 DEF Linear, Placed
        <5>2. turn[u].expected < session[turn[u].session].revision
          BY <5>1 DEF Linear, Consumed
        <5>3. turn[u].expected \in Nat /\ turn[t].expected \in Nat
          BY DEF Linear, AuthoringTypeOK
        <5> QED
          BY <2>3, <2>4, <4>2, <5>1, <5>2, <5>3
      <4> QED
        BY <4>1, <4>2
    <3> QED
      BY <3>1 DEF Consumed
  <2>8. OneTurnPerRevision'
    \* Against t itself: a turn of its session that was published before
    \* expected an earlier revision.
    <3>1. \A u \in Turns : /\ u # t /\ turn[u].at = "validated"
                           /\ turn[u].session = turn[t].session
                           => turn[u].expected # turn[t].expected
      BY <1>1, <2>4 DEF Linear, Consumed, AuthoringTypeOK
    <3>2. turn'[t].session = turn[t].session /\ turn'[t].expected = turn[t].expected
      BY <1>1, <2>3
    <3> QED
      BY <2>3, <3>1, <3>2 DEF Linear, OneTurnPerRevision
  <2>9. ElsewhereFirst'
    <3>1. session'[turn[t].session].of = "this"
      BY <1>1, <2>1 DEF Linear, AuthoringTypeOK, Advanced
    <3>2. \A u \in Turns : turn'[u].of = turn[u].of /\ turn'[u].expected = turn[u].expected
      BY <1>1, <2>3
    <3> QED
      BY <2>3, <2>4, <3>1, <3>2 DEF Linear, ElsewhereFirst
  <2>10. OnceThrough'
    BY <2>1, <2>2, <2>3 DEF Linear, OnceThrough
  <2>11. EditsKept'
    <3>1. \A u \in Turns : turn'[u].of = turn[u].of /\ turn'[u].expected = turn[u].expected
      BY <1>1, <2>3
    <3>2. \A v \in 2..Len(chain) : chain'[v].base = v - 1 \/ FromElsewhere(v)'
      BY <2>1, <2>2, <3>1 DEF Linear, EditsKept, FromElsewhere
    <3>3. CASE turn[t].of = "this"
      <4>1. chain'[Len(chain')].base = Len(chain') - 1
        BY <1>1, <2>1, <2>2, <3>3 DEF DerivedFrom
      <4> QED
        BY <2>1, <2>2, <3>2, <4>1 DEF EditsKept
    <3>4. CASE turn[t].of = "other"
      <4>1. /\ chain'[Len(chain')].base = 0 /\ chain'[Len(chain')].by = t
            /\ turn'[t].of = "other" /\ turn'[t].expected = 0
        BY <2>2, <3>1, <3>4 DEF DerivedFrom, Linear, ElsewhereFirst
      <4>2. \A v \in 2..Len(chain') : v \in 2..Len(chain) \/ v = Len(chain')
        BY <2>1, <2>2
      <4>3. \A v \in 2..Len(chain') : v = Len(chain') => FromElsewhere(v)'
        BY <4>1 DEF FromElsewhere
      <4> QED
        BY <3>2, <4>2, <4>3 DEF EditsKept
    <3> QED
      BY <1>1, <3>3, <3>4 DEF Linear, ElsewhereFirst
  <2> QED
    BY <2>5, <2>6, <2>7, <2>8, <2>9, <2>10, <2>11 DEF Linear
<1> QED
  BY <1>2, <1>3

\* Every step keeps the chain linear.
LEMMA LinearStep == Linear /\ [AuthoringNext]_authoringVars => Linear'
<1> SUFFICES ASSUME Linear, [AuthoringNext]_authoringVars PROVE Linear'
  OBVIOUS
<1>0. /\ Nobody \notin Turns
      /\ \A t \in Turns : turn[t].at = "advance" <=> locked = t
      /\ \A t \in Turns : turn[t].base \in Nat /\ turn[t].of \in Origins
      /\ \A t \in Turns : turn[t].of = "other" => turn[t].expected = 0
      /\ \A t \in Turns : turn[t].at \in {"prepared", "create", "advance"}
                            => turn[t].of \in {"this", "other"}
  BY AuthoringAssumption DEF Linear, AuthoringTypeOK, ElsewhereFirst
<1>00. turn \in [Turns -> TurnRow]
  BY DEF Linear, AuthoringTypeOK, TurnRow
<1>1. ASSUME NEW e \in Editors, ReadHead(e) PROVE Linear'
  BY <1>1, AsideStep DEF ReadHead, Linear, AuthoringTypeOK, ElsewhereFirst
<1>2. ASSUME NEW e \in Editors, Save(e) PROVE Linear'
  BY <1>2, SaveStep
<1>3. ASSUME NEW s \in Sessions, NEW of, NEW version, OpenSession(s, of, version)
      PROVE Linear'
  <2>1. version \in Nat /\ of \in Origins
    BY <1>3, AuthoringAssumption DEF OpenSession, Nameable, Origins, Linear, AuthoringTypeOK
  <2>2. session' \in [Sessions -> [revision : Nat, of : Origins, version : Nat]]
    BY <1>3, <2>1 DEF OpenSession, Linear, AuthoringTypeOK
  <2>3. \A r \in Sessions : /\ session'[r].revision = session[r].revision
                            /\ session'[r].of # "this" => session'[r].revision = 0
                            /\ session[r].of # "unopened" => session'[r].of # "unopened"
    BY <1>3 DEF OpenSession, Linear, AuthoringTypeOK, ElsewhereFirst
  <2> QED
    BY <1>3, <2>2, <2>3, AsideStep DEF OpenSession, Linear, AuthoringTypeOK
<1>4. ASSUME NEW t \in Turns, NEW s \in Sessions, Submit(t, s) PROVE Linear'
  <2>1. /\ turn[t].at = "new" /\ UNCHANGED <<chain, locked, session, editor>>
        /\ session[s].of # "unopened" /\ session[s].revision \in Nat
    BY <1>4 DEF Submit, Linear, AuthoringTypeOK
  <2>2. /\ turn' \in [Turns -> TurnRow]
        /\ \A u \in Turns : u # t => turn'[u] = turn[u]
        /\ turn'[t].at = "queued" /\ turn'[t].session = s /\ turn'[t].of = "nothing"
    BY <1>4, <1>00, <2>1 DEF Submit, TurnRow, TurnStages, Origins
  <2> QED
    BY <1>0, <2>1, <2>2, TurnStep
<1>5. ASSUME NEW t \in Turns, Prepare(t) PROVE Linear'
  <2>1. /\ Mine(t).version \in Nat /\ Mine(t).of \in Origins
        /\ Mine(t).of # "this" => Mine(t).revision = 0
    BY <1>5 DEF Prepare, Mine, Linear, AuthoringTypeOK, Placed, ElsewhereFirst
  <2>2. turn[t].at = "queued" /\ UNCHANGED <<chain, locked, session, editor>>
    BY <1>5 DEF Prepare
  <2>3. CASE /\ turn' = [turn EXCEPT ![t].at = "prepared", ![t].of = Mine(t).of,
                                       ![t].base = Mine(t).version]
             /\ SessionAsExpected(t) /\ Mine(t).of # "nothing"
    <3>1. /\ turn' \in [Turns -> TurnRow]
          /\ \A u \in Turns : u # t => turn'[u] = turn[u]
          /\ turn'[t].at = "prepared" /\ turn'[t].session = turn[t].session
          /\ turn'[t].expected = turn[t].expected /\ turn'[t].of = Mine(t).of
      BY <1>00, <2>1, <2>3 DEF TurnRow, TurnStages
    <3>2. turn[t].session \in Sessions /\ session[turn[t].session].of # "unopened"
      BY <2>2 DEF Linear, Placed
    <3>3. Mine(t).of # "unopened"
      BY <3>2 DEF Mine
    <3>4. Mine(t).of \in {"this", "other"}
      BY <2>1, <2>3, <3>3 DEF Origins
    <3>5. Mine(t).of = "other" => turn[t].expected = 0
      BY <2>1, <2>3 DEF SessionAsExpected
    <3> QED
      BY <1>0, <2>2, <3>1, <3>2, <3>4, <3>5, TurnStep
  <2>4. ASSUME NEW stage \in {"rejected", "conflict"}, TurnTo(t, stage) PROVE Linear'
    <3>1. stage \in TurnStages \ {"new", "validated"}
      BY DEF TurnStages
    <3> QED
      BY <1>0, <2>2, <2>4, <3>1, StageStep
  <2> QED
    BY <1>5, <2>3, <2>4 DEF Prepare
<1>6. ASSUME NEW t \in Turns, OpenPublication(t) PROVE Linear'
  <2>1. PICK stage \in {"create", "conflict"} : TurnTo(t, stage)
    BY <1>6 DEF OpenPublication
  <2>2. stage \in TurnStages \ {"new", "validated"} /\ stage # "advance"
    BY DEF TurnStages
  <2>3. turn[t].at = "prepared" /\ UNCHANGED <<chain, locked, session, editor>>
    BY <1>6 DEF OpenPublication
  <2> QED
    BY <1>0, <2>1, <2>2, <2>3, StageStep
<1>7. ASSUME NEW t \in Turns, LockHead(t) PROVE Linear'
  <2>1. /\ turn[t].at = "create" /\ locked = Nobody
        /\ UNCHANGED <<chain, session, editor>>
    BY <1>7 DEF LockHead, HeadFree
  <2>2. {"advance", "conflict"} \subseteq TurnStages \ {"new", "validated"}
    BY DEF TurnStages
  <2>3. CASE HeadIs(turn[t].base)
    <3>1. TurnTo(t, "advance") /\ locked' = t /\ turn[t].base = Len(chain)
      BY <1>7, <2>3 DEF LockHead, HeadIs
    <3> QED
      BY <1>0, <2>1, <2>2, <3>1, StageStep
  <2>4. CASE ~HeadIs(turn[t].base)
    <3>1. TurnTo(t, "conflict") /\ locked' = locked
      BY <1>7, <2>4 DEF LockHead
    <3> QED
      BY <1>0, <2>1, <2>2, <3>1, StageStep
  <2> QED
    BY <2>3, <2>4
<1>8. ASSUME NEW t \in Turns, PublishTurn(t) PROVE Linear'
  BY <1>8, PublishStep
<1>9. ASSUME NEW t \in Turns, Reclaim(t) PROVE Linear'
  <2>1. /\ turn[t].at \in {"prepared", "create", "advance"}
        /\ turn' = [turn EXCEPT ![t].at = "queued", ![t].of = "nothing", ![t].base = 0]
        /\ locked' = IF locked = t THEN Nobody ELSE locked
        /\ UNCHANGED <<chain, session, editor>>
    BY <1>9 DEF Reclaim
  <2>2. /\ turn' \in [Turns -> TurnRow]
        /\ \A u \in Turns : u # t => turn'[u] = turn[u]
        /\ turn'[t].at = "queued" /\ turn'[t].session = turn[t].session
        /\ turn'[t].of = "nothing"
    <3>1. turn[t] \in TurnRow
      BY <1>00
    <3>2. [[[turn[t] EXCEPT !.at = "queued"] EXCEPT !.of = "nothing"] EXCEPT !.base = 0] \in TurnRow
      BY <3>1 DEF TurnRow, TurnStages, Origins
    <3> QED
      BY <1>00, <2>1, <3>1, <3>2 DEF TurnRow
  <2>3. turn[t].session \in Sessions /\ session[turn[t].session].of # "unopened"
    BY <2>1 DEF Linear, Placed
  <2> QED
    BY <2>1, <2>2, <2>3, TurnStep
<1>10. CASE UNCHANGED authoringVars
  BY <1>10 DEF authoringVars, Linear, AuthoringTypeOK, Placed, HeadHeld,
     ElsewhereFirst, OnceThrough, EditsKept, FromElsewhere, Consumed, OneTurnPerRevision
<1> QED
  BY <1>1, <1>2, <1>3, <1>4, <1>5, <1>6, <1>7, <1>8, <1>9, <1>10 DEF AuthoringNext

\* The inductive invariant holds for any interleaving of editors and turns
\* (versions.py, sessions.py, authoring.py).
THEOREM AuthoringLinear == AuthoringSpec => []Linear
  BY LinearInit, LinearStep, PTL DEF AuthoringSpec

\* The rows of versions, heads, sessions and turns keep their types, and only
\* the turn that is in its transaction holds the head (versions.py).
THEOREM AuthoringTypes == AuthoringSpec => []AuthoringTypeOK
<1>1. Linear => AuthoringTypeOK
  BY DEF Linear
<1> QED
  BY <1>1, AuthoringLinear, PTL

\* Every version is derived from the one right before it, whoever edits
\* concurrently, but for the first of a session that was opened on another
\* evaluation's version (VersionStore.create, AuthoringService.publish).
THEOREM AuthoringEditsKept == AuthoringSpec => []EditsKept
<1>1. Linear => EditsKept
  BY DEF Linear
<1> QED
  BY <1>1, AuthoringLinear, PTL

\* A revision of a session is consumed by one turn (SessionStore.advance).
THEOREM AuthoringOneTurnPerRevision == AuthoringSpec => []OneTurnPerRevision
<1>1. Linear => OneTurnPerRevision
  BY DEF Linear
<1> QED
  BY <1>1, AuthoringLinear, PTL

-----------------------------------------------------------------------------
(***************************************************************************)
(* A turn's version, its session's pointer and its job are one outcome:    *)
(* TurnIsAtomic is inductive relative to Linear                            *)
(***************************************************************************)
LEMMA AtomicInit == AuthoringInit => TurnIsAtomic
  BY AuthoringAssumption DEF AuthoringInit, TurnIsAtomic, PublishedBy

\* Nothing is published, and a pointer moves at most when its session is opened.
LEMMA AtomicKept ==
  ASSUME TurnIsAtomic, chain' = chain,
         \A t \in Turns : (turn'[t].at = "validated") <=> (turn[t].at = "validated"),
         \A t \in Turns : turn[t].at = "validated" => turn'[t].session = turn[t].session,
         \A s \in Sessions : session'[s] = session[s] \/ session[s].of = "unopened"
  PROVE  TurnIsAtomic'
<1>1. \A t \in Turns : turn'[t].at = "validated" <=> \E v \in 1..Len(chain') : chain'[v].by = t
  BY DEF TurnIsAtomic
<1>2. \A s \in Sessions : PublishedBy(s)' = PublishedBy(s)
  <2> SUFFICES ASSUME NEW s \in Sessions, NEW v \in 1..Len(chain)
               PROVE  v \in PublishedBy(s)' <=> v \in PublishedBy(s)
    BY DEF PublishedBy
  <2>1. \A t \in Turns : chain[v].by = t => turn'[t].session = turn[t].session
    BY DEF TurnIsAtomic
  <2> QED BY <2>1 DEF PublishedBy
<1>3. \A s \in Sessions : PublishedBy(s) # {} => session[s].of # "unopened"
  BY DEF TurnIsAtomic
<1>4. ASSUME NEW s \in Sessions, PublishedBy(s)' # {}
      PROVE  /\ session'[s].of = "this" /\ session'[s].version \in PublishedBy(s)'
             /\ \A v \in PublishedBy(s)' : v <= session'[s].version
  <2>1. PublishedBy(s) # {} /\ session'[s] = session[s]
    BY <1>2, <1>3, <1>4
  <2> QED BY <1>2, <2>1 DEF TurnIsAtomic
<1> QED BY <1>1, <1>4 DEF TurnIsAtomic

\* A version is appended by a turn or by an editor.
LEMMA Appended ==
  ASSUME Linear, NEW who, NEW base, chain' = Append1(who, base),
         who \in Editors \cup Turns, base \in Nat
  PROVE  /\ Len(chain) \in Nat /\ Len(chain') = Len(chain) + 1
         /\ chain'[Len(chain')].by = who
         /\ \A v \in 1..Len(chain) : chain'[v] = chain[v]
<1>1. chain \in Seq(Entry) /\ [by |-> who, base |-> base] \in Entry
  BY DEF Linear, AuthoringTypeOK, Entry
<1> QED BY <1>1 DEF Append1

\* An editor touches no session.
LEMMA AtomicSave ==
  ASSUME Linear, TurnIsAtomic, NEW e \in Editors, Save(e)
  PROVE  TurnIsAtomic'
<1>1. CASE UNCHANGED chain
  BY <1>1, AtomicKept DEF Save
<1>2. CASE chain' = Append1(e, editor[e])
  <2>1. editor[e] \in Nat /\ e \notin Turns
    BY AuthoringAssumption DEF Linear, AuthoringTypeOK
  <2>2. /\ Len(chain) \in Nat /\ Len(chain') = Len(chain) + 1
        /\ chain'[Len(chain')].by = e
        /\ \A v \in 1..Len(chain) : chain'[v] = chain[v]
    BY <1>2, <2>1, Appended
  <2>3. turn' = turn /\ session' = session
    BY DEF Save
  <2>4. \A s \in Sessions : PublishedBy(s)' = PublishedBy(s)
    BY <2>1, <2>2, <2>3 DEF PublishedBy
  <2>5. \A t \in Turns : (\E v \in 1..Len(chain') : chain'[v].by = t)
                         <=> (\E v \in 1..Len(chain) : chain[v].by = t)
    BY <2>1, <2>2
  <2> QED BY <2>3, <2>4, <2>5 DEF TurnIsAtomic
<1> QED BY <1>1, <1>2 DEF Save

\* The one step that publishes: the version, the pointer and the turn at once.
LEMMA AtomicPublish ==
  ASSUME Linear, TurnIsAtomic, NEW t \in Turns, PublishTurn(t)
  PROVE  TurnIsAtomic'
<1>1. /\ turn[t].at = "advance" /\ turn[t].session \in Sessions /\ turn[t].base \in Nat
      /\ turn \in [Turns -> [at : TurnStages, session : Sessions \cup {Nobody},
                             expected : Nat, of : Origins, base : Nat]]
      /\ session \in [Sessions -> [revision : Nat, of : Origins, version : Nat]]
  BY DEF PublishTurn, Linear, AuthoringTypeOK, Placed
<1>2. CASE ~SessionAsExpected(t)
  <2>1. UNCHANGED <<chain, session>> /\ turn' = [turn EXCEPT ![t].at = "conflict"]
    BY <1>2 DEF PublishTurn, TurnTo
  <2>2. /\ turn'[t].at = "conflict" /\ \A u \in Turns : u # t => turn'[u] = turn[u]
    BY <1>1, <2>1
  <2> QED BY <1>1, <2>1, <2>2, AtomicKept
<1>3. CASE SessionAsExpected(t)
  <2> DEFINE mine == turn[t].session
             new == Len(chain) + 1
  <2>1. /\ chain' = Append1(t, DerivedFrom(t)) /\ DerivedFrom(t) \in Nat
        /\ session' = [session EXCEPT ![mine] = Advanced(t)]
        /\ turn' = [turn EXCEPT ![t].at = "validated"]
    BY <1>1, <1>3 DEF PublishTurn, TurnTo, DerivedFrom
  <2>2. /\ Len(chain) \in Nat /\ Len(chain') = new /\ chain'[new].by = t
        /\ \A v \in 1..Len(chain) : chain'[v] = chain[v]
    BY <1>1, <2>1, Appended
  <2>3. /\ turn'[t].at = "validated" /\ turn'[t].session = mine
        /\ \A u \in Turns : u # t => turn'[u] = turn[u]
    BY <1>1, <2>1
  <2>4. /\ session'[mine].version = new /\ session'[mine].of = "this"
        /\ \A s \in Sessions : s # mine => session'[s] = session[s]
    BY <1>1, <2>1 DEF Advanced
  <2>5. \A s \in Sessions : PublishedBy(s)' =
            IF s = mine THEN PublishedBy(s) \cup {new} ELSE PublishedBy(s)
    <3> SUFFICES ASSUME NEW s \in Sessions, NEW v \in 1..new
                 PROVE  v \in PublishedBy(s)' <=> (v \in PublishedBy(s) \/ (s = mine /\ v = new))
      BY <2>2 DEF PublishedBy
    <3>1. \A u \in Turns : turn'[u].session = turn[u].session
      BY <2>3
    <3>2. CASE v = new
      BY <2>2, <3>1, <3>2 DEF PublishedBy
    <3>3. CASE v # new
      <4>1. v \in 1..Len(chain)
        BY <2>2, <3>3
      <4> QED BY <2>2, <3>1, <3>3, <4>1 DEF PublishedBy
    <3> QED BY <3>2, <3>3
  <2>6. ASSUME NEW s \in Sessions, PublishedBy(s)' # {}
        PROVE  /\ session'[s].of = "this" /\ session'[s].version \in PublishedBy(s)'
               /\ \A v \in PublishedBy(s)' : v <= session'[s].version
    <3>1. CASE s = mine
      <4>1. \A v \in PublishedBy(s)' : v \in 1..new
        BY <2>2 DEF PublishedBy
      <4>2. new \in PublishedBy(s)' /\ session'[s].version = new /\ session'[s].of = "this"
        BY <2>4, <2>5, <3>1
      <4> QED BY <2>2, <4>1, <4>2
    <3>2. CASE s # mine
      <4>1. PublishedBy(s)' = PublishedBy(s) /\ session'[s] = session[s]
        BY <2>4, <2>5, <3>2
      <4> QED BY <2>6, <4>1 DEF TurnIsAtomic
    <3> QED BY <3>1, <3>2
  <2>7. \A u \in Turns : turn'[u].at = "validated" <=> \E v \in 1..Len(chain') : chain'[v].by = u
    <3> SUFFICES ASSUME NEW u \in Turns
                 PROVE turn'[u].at = "validated" <=> \E v \in 1..new : chain'[v].by = u
      BY <2>2
    <3>1. CASE u = t
      BY <2>2, <2>3, <3>1
    <3>2. CASE u # t
      <4>1. (\E v \in 1..new : chain'[v].by = u) <=> (\E v \in 1..Len(chain) : chain[v].by = u)
        BY <2>2, <3>2
      <4> QED BY <2>3, <3>2, <4>1 DEF TurnIsAtomic
    <3> QED BY <3>1, <3>2
  <2> QED BY <2>6, <2>7 DEF TurnIsAtomic
<1> QED BY <1>2, <1>3

\* Every step publishes a turn whole or leaves it.
LEMMA AtomicStep ==
  Linear /\ TurnIsAtomic /\ [AuthoringNext]_authoringVars => TurnIsAtomic'
<1> SUFFICES ASSUME Linear, TurnIsAtomic, [AuthoringNext]_authoringVars PROVE TurnIsAtomic'
  OBVIOUS
<1>0. /\ turn \in [Turns -> [at : TurnStages, session : Sessions \cup {Nobody},
                             expected : Nat, of : Origins, base : Nat]]
      /\ session \in [Sessions -> [revision : Nat, of : Origins, version : Nat]]
  BY DEF Linear, AuthoringTypeOK
<1>1. ASSUME NEW e \in Editors, ReadHead(e) PROVE TurnIsAtomic'
  BY <1>1, AtomicKept DEF ReadHead
<1>2. ASSUME NEW e \in Editors, Save(e) PROVE TurnIsAtomic'
  BY <1>2, AtomicSave
<1>3. ASSUME NEW s \in Sessions, NEW of, NEW version, OpenSession(s, of, version)
      PROVE TurnIsAtomic'
  <2>1. \A r \in Sessions : session'[r] = session[r] \/ session[r].of = "unopened"
    BY <1>0, <1>3 DEF OpenSession
  <2> QED BY <1>3, <2>1, AtomicKept DEF OpenSession
<1>4. ASSUME NEW t \in Turns, NEW s \in Sessions, Submit(t, s) PROVE TurnIsAtomic'
  <2>1. turn[t].at = "new" /\ turn'[t].at = "queued" /\ \A u \in Turns : u # t => turn'[u] = turn[u]
    BY <1>0, <1>4 DEF Submit
  <2> QED BY <1>4, <2>1, AtomicKept DEF Submit
<1>5. ASSUME NEW t \in Turns, Prepare(t) \/ OpenPublication(t) \/ LockHead(t) \/ Reclaim(t)
      PROVE TurnIsAtomic'
  <2>1. /\ UNCHANGED <<chain, session>> /\ turn[t].at # "validated"
        /\ \/ turn' = [turn EXCEPT ![t].at = "prepared", ![t].of = Mine(t).of,
                                       ![t].base = Mine(t).version]
           \/ turn' = [turn EXCEPT ![t].at = "rejected"]
           \/ turn' = [turn EXCEPT ![t].at = "conflict"]
           \/ turn' = [turn EXCEPT ![t].at = "create"]
           \/ turn' = [turn EXCEPT ![t].at = "advance"]
           \/ turn' = [turn EXCEPT ![t].at = "queued", ![t].of = "nothing", ![t].base = 0]
    BY <1>5 DEF Prepare, OpenPublication, LockHead, Reclaim, TurnTo
  <2>2. turn'[t].at # "validated" /\ \A u \in Turns : u # t => turn'[u] = turn[u]
    BY <1>0, <2>1
  <2> QED BY <2>1, <2>2, AtomicKept
<1>6. ASSUME NEW t \in Turns, PublishTurn(t) PROVE TurnIsAtomic'
  BY <1>6, AtomicPublish
<1>7. CASE UNCHANGED authoringVars
  BY <1>7, AtomicKept DEF authoringVars
<1> QED
  BY <1>1, <1>2, <1>3, <1>4, <1>5, <1>6, <1>7 DEF AuthoringNext

\* The pointer of a session is at the last version its turns published, and a
\* turn is validated exactly when its version is in the chain
\* (AuthoringService.publish): TurnIsAtomic.
THEOREM AuthoringTurnIsAtomic == AuthoringSpec => []TurnIsAtomic
  BY AtomicInit, AtomicStep, AuthoringLinear, PTL DEF AuthoringSpec

-----------------------------------------------------------------------------
(***************************************************************************)
(* Authoring implements AtomicEditing                                      *)
(***************************************************************************)
\* The session of a turn never returns to an earlier revision than the turn
\* expects, and while it is at that one, it points to the version the turn was
\* prepared on.
Attached ==
    \A t \in Turns : turn[t].at # "new" =>
        /\ turn[t].expected <= Mine(t).revision
        /\ turn[t].at \in {"prepared", "create", "advance"} /\ SessionAsExpected(t)
           => Mine(t).of = turn[t].of /\ Mine(t).version = turn[t].base

\* There are no sessions yet, and no turns.
LEMMA AttachedInit == AuthoringInit => Attached
  BY DEF AuthoringInit, Attached

\* Steps of one turn that leave its session, and everybody's sessions, alone.
LEMMA AttachedTurn ==
  ASSUME Linear, Attached, NEW t \in Turns, UNCHANGED session,
         turn[t].at # "new",
         \A u \in Turns : u # t => turn'[u] = turn[u],
         turn'[t].session = turn[t].session, turn'[t].expected = turn[t].expected,
         turn'[t].at \in {"prepared", "create", "advance"} =>
             \/ turn'[t].of = Mine(t).of /\ turn'[t].base = Mine(t).version
             \/ /\ turn'[t].of = turn[t].of /\ turn'[t].base = turn[t].base
                /\ turn[t].at \in {"prepared", "create", "advance"}
  PROVE  Attached'
<1>1. ASSUME NEW u \in Turns, turn'[u].at # "new"
      PROVE  /\ turn'[u].expected <= Mine(u)'.revision
             /\ turn'[u].at \in {"prepared", "create", "advance"} /\ SessionAsExpected(u)'
                => Mine(u)'.of = turn'[u].of /\ Mine(u)'.version = turn'[u].base
  <2>1. CASE u # t
    BY <1>1, <2>1 DEF Attached, Mine, SessionAsExpected
  <2>2. CASE u = t
    BY <2>2 DEF Attached, Mine, SessionAsExpected
  <2> QED BY <2>1, <2>2
<1> QED BY <1>1 DEF Attached

\* A turn that lands moves its session to the next revision, which leaves the
\* other turns of the session behind.
LEMMA AttachedLand ==
  ASSUME Linear, Attached, NEW t \in Turns, turn[t].at = "advance", SessionAsExpected(t),
         session' = [session EXCEPT ![turn[t].session] = Advanced(t)],
         turn' = [turn EXCEPT ![t].at = "validated"]
  PROVE  Attached'
<1>1. /\ turn[t].session \in Sessions /\ turn[t].expected \in Nat /\ Len(chain) \in Nat
      /\ session[turn[t].session].revision = turn[t].expected
  BY DEF Linear, Placed, AuthoringTypeOK, SessionAsExpected, Mine
<1>2. /\ session'[turn[t].session].revision = turn[t].expected + 1
      /\ session'[turn[t].session].version = Len(chain) + 1
      /\ \A s \in Sessions : s # turn[t].session => session'[s] = session[s]
  BY <1>1 DEF Linear, AuthoringTypeOK, Advanced
<1>3. /\ \A u \in Turns : turn'[u].session = turn[u].session /\ turn'[u].expected = turn[u].expected
                          /\ turn'[u].of = turn[u].of /\ turn'[u].base = turn[u].base
      /\ \A u \in Turns : u # t => turn'[u].at = turn[u].at
      /\ turn'[t].at = "validated"
  BY DEF Linear, AuthoringTypeOK
<1>4. ASSUME NEW u \in Turns, turn'[u].at # "new"
      PROVE  /\ turn'[u].expected <= Mine(u)'.revision
             /\ turn'[u].at \in {"prepared", "create", "advance"} /\ SessionAsExpected(u)'
                => Mine(u)'.of = turn'[u].of /\ Mine(u)'.version = turn'[u].base
  <2>1. /\ turn[u].at # "new" /\ turn[u].session \in Sessions /\ turn[u].expected \in Nat
        /\ turn[u].expected <= session[turn[u].session].revision
    BY <1>3, <1>4 DEF Linear, Placed, AuthoringTypeOK, Attached, Mine
  <2>2. CASE turn[u].session = turn[t].session
    <3>1. turn[u].expected < turn[t].expected + 1
      BY <1>1, <2>1, <2>2
    <3>2. ~SessionAsExpected(u)'
      BY <1>1, <1>2, <1>3, <2>1, <2>2, <3>1 DEF SessionAsExpected, Mine
    <3> QED BY <1>1, <1>2, <1>3, <2>1, <2>2, <3>1, <3>2 DEF Mine
  <2>3. CASE turn[u].session # turn[t].session
    <3>1. u # t /\ session'[turn[u].session] = session[turn[u].session]
      BY <1>2, <2>1, <2>3
    <3> QED BY <1>3, <2>1, <3>1 DEF Attached, Mine, SessionAsExpected
  <2> QED BY <2>2, <2>3
<1> QED BY <1>4 DEF Attached

\* Every step keeps turns and sessions attached.
LEMMA AttachedStep == Linear /\ Attached /\ [AuthoringNext]_authoringVars => Attached'
<1> SUFFICES ASSUME Linear, Attached, [AuthoringNext]_authoringVars PROVE Attached'
  OBVIOUS
<1> DEFINE Rows == [at : TurnStages, session : Sessions \cup {Nobody}, expected : Nat, of : Origins, base : Nat]
<1>0. turn \in [Turns -> Rows]
  BY DEF Linear, AuthoringTypeOK
<1>1. ASSUME UNCHANGED <<session, turn>> PROVE Attached'
  BY <1>1 DEF Attached, Mine, SessionAsExpected
<1>2. ASSUME NEW s \in Sessions, NEW of, NEW version, OpenSession(s, of, version)
      PROVE  Attached'
  <2>1. /\ session[s].of = "unopened" /\ UNCHANGED turn
        /\ \A r \in Sessions : r # s => session'[r] = session[r]
    BY <1>2 DEF OpenSession, Linear, AuthoringTypeOK
  <2>2. \A t \in Turns : turn[t].at # "new" => turn[t].session \in Sessions /\ turn[t].session # s
    BY <2>1 DEF Linear, Placed
  <2> QED BY <2>1, <2>2 DEF Attached, Mine, SessionAsExpected
<1>3. ASSUME NEW t \in Turns, NEW s \in Sessions, Submit(t, s) PROVE Attached'
  <2>1. /\ turn'[t].at = "queued" /\ turn'[t].session = s
        /\ turn'[t].expected = session[s].revision /\ session[s].revision \in Nat /\ UNCHANGED session
        /\ \A u \in Turns : u # t => turn'[u] = turn[u]
    BY <1>0, <1>3 DEF Submit, Linear, AuthoringTypeOK
  <2>2. ASSUME NEW u \in Turns, turn'[u].at # "new"
        PROVE  /\ turn'[u].expected <= Mine(u)'.revision
               /\ turn'[u].at \in {"prepared", "create", "advance"} /\ SessionAsExpected(u)'
                  => Mine(u)'.of = turn'[u].of /\ Mine(u)'.version = turn'[u].base
    <3>1. CASE u = t
      BY <2>1, <3>1 DEF Mine
    <3>2. CASE u # t
      BY <2>1, <2>2, <3>2 DEF Attached, Mine, SessionAsExpected
    <3> QED BY <3>1, <3>2
  <2> QED BY <2>2 DEF Attached
<1>4. ASSUME NEW t \in Turns, Prepare(t) PROVE Attached'
  <2>1. /\ turn[t].at = "queued" /\ UNCHANGED session
        /\ \E row \in {[turn[t] EXCEPT !.at = "prepared", !.of = Mine(t).of, !.base = Mine(t).version],
                       [turn[t] EXCEPT !.at = "rejected"], [turn[t] EXCEPT !.at = "conflict"]} :
              turn' = [turn EXCEPT ![t] = row]
    BY <1>0, <1>4 DEF Prepare, TurnTo
  <2>2. PICK row \in {[turn[t] EXCEPT !.at = "prepared", !.of = Mine(t).of, !.base = Mine(t).version],
                      [turn[t] EXCEPT !.at = "rejected"], [turn[t] EXCEPT !.at = "conflict"]} :
            turn' = [turn EXCEPT ![t] = row]
    BY <2>1
  <2>3. /\ row.session = turn[t].session /\ row.expected = turn[t].expected
        /\ row.at = "prepared" => row.of = Mine(t).of /\ row.base = Mine(t).version
        /\ row.at \in {"prepared", "rejected", "conflict"}
    BY <1>0
  <2>4. turn'[t] = row /\ \A u \in Turns : u # t => turn'[u] = turn[u]
    BY <1>0, <2>2
  <2> QED BY <2>1, <2>3, <2>4, AttachedTurn
<1>5. ASSUME NEW t \in Turns, OpenPublication(t) \/ LockHead(t) PROVE Attached'
  <2>1. /\ turn[t].at \in {"prepared", "create"} /\ UNCHANGED session
        /\ \E stage \in TurnStages : turn' = [turn EXCEPT ![t].at = stage]
    BY <1>0, <1>5 DEF OpenPublication, LockHead, TurnTo, TurnStages
  <2> QED BY <1>0, <2>1, AttachedTurn
<1>6. ASSUME NEW t \in Turns, PublishTurn(t) PROVE Attached'
  <2>1. CASE SessionAsExpected(t)
    BY <1>6, <2>1, AttachedLand DEF PublishTurn, TurnTo
  <2>2. CASE ~SessionAsExpected(t)
    <3>1. turn[t].at = "advance" /\ UNCHANGED session /\ turn' = [turn EXCEPT ![t].at = "conflict"]
      BY <1>6, <2>2 DEF PublishTurn, TurnTo
    <3> QED BY <1>0, <3>1, AttachedTurn
  <2> QED BY <2>1, <2>2
<1>7. ASSUME NEW t \in Turns, Reclaim(t) PROVE Attached'
  <2>1. /\ turn[t].at # "new" /\ UNCHANGED session
        /\ turn' = [turn EXCEPT ![t].at = "queued", ![t].of = "nothing", ![t].base = 0]
    BY <1>7 DEF Reclaim
  <2> QED BY <1>0, <2>1, AttachedTurn
<1>8. ASSUME NEW e \in Editors, ReadHead(e) \/ Save(e) PROVE Attached'
  BY <1>1, <1>8 DEF ReadHead, Save
<1>9. CASE UNCHANGED authoringVars
  BY <1>1, <1>9 DEF authoringVars
<1> QED BY <1>2, <1>3, <1>4, <1>5, <1>6, <1>7, <1>8, <1>9 DEF AuthoringNext

\* A turn that was not submitted was asked of nothing.
Fresh == \A t \in Turns : turn[t].at = "new" => turn[t].session = Nobody /\ turn[t].expected = 0

\* No turn ever returns to that.
LEMMA FreshStep == Linear /\ Fresh /\ [AuthoringNext]_authoringVars => Fresh'
<1> SUFFICES ASSUME Linear, Fresh, [AuthoringNext]_authoringVars PROVE Fresh'
  OBVIOUS
<1> DEFINE Rows == [at : TurnStages, session : Sessions \cup {Nobody}, expected : Nat, of : Origins, base : Nat]
<1>0. turn \in [Turns -> Rows]
  BY DEF Linear, AuthoringTypeOK
<1>1. ASSUME UNCHANGED turn PROVE Fresh'
  BY <1>1 DEF Fresh
<1>2. ASSUME NEW t \in Turns, turn'[t].at # "new", \A u \in Turns : u # t => turn'[u] = turn[u]
      PROVE  Fresh'
  BY <1>2 DEF Fresh
<1>3. ASSUME NEW t \in Turns, NEW s \in Sessions, Submit(t, s) PROVE Fresh'
  <2>1. turn'[t].at # "new" /\ \A u \in Turns : u # t => turn'[u] = turn[u]
    BY <1>0, <1>3 DEF Submit
  <2> QED BY <1>2, <2>1
<1>4. ASSUME NEW t \in Turns,
             Prepare(t) \/ OpenPublication(t) \/ LockHead(t) \/ PublishTurn(t) \/ Reclaim(t)
      PROVE  Fresh'
  <2>1. \/ turn' = [turn EXCEPT ![t].at = "prepared", ![t].of = Mine(t).of,
                                       ![t].base = Mine(t).version]
        \/ turn' = [turn EXCEPT ![t].at = "queued", ![t].of = "nothing", ![t].base = 0]
        \/ \E stage \in TurnStages \ {"new"} : turn' = [turn EXCEPT ![t].at = stage]
    BY <1>4 DEF Prepare, OpenPublication, LockHead, PublishTurn, Reclaim, TurnTo, TurnStages
  <2>2. turn'[t].at # "new" /\ \A u \in Turns : u # t => turn'[u] = turn[u]
    BY <1>0, <2>1
  <2> QED BY <1>2, <2>2
<1>5. ASSUME NEW s \in Sessions, NEW of, NEW version, OpenSession(s, of, version)
      PROVE  Fresh'
  BY <1>1, <1>5 DEF OpenSession
<1>6. ASSUME NEW e \in Editors, ReadHead(e) \/ Save(e) PROVE Fresh'
  BY <1>1, <1>6 DEF ReadHead, Save
<1>7. CASE UNCHANGED authoringVars
  BY <1>1, <1>7 DEF authoringVars
<1> QED BY <1>3, <1>4, <1>5, <1>6, <1>7 DEF AuthoringNext

-----------------------------------------------------------------------------
\* Nothing was asked of anybody.
LEMMA EditingInit == AuthoringInit => Editing!Init
<1> SUFFICES ASSUME AuthoringInit PROVE Editing!Init
  OBVIOUS
<1>1. \A t \in Turns : RequestOf(t) = Editing!Unasked
  BY DEF AuthoringInit, RequestOf, StateOf, Editing!Unasked, Editing!Request
<1> QED BY <1>1 DEF AuthoringInit, Editing!Init, Editing!Pointer

\* A step that changes the row of one turn changes at most its request.
LEMMA OneRequest ==
  ASSUME NEW t \in Turns, \A u \in Turns : u # t => turn'[u] = turn[u]
  PROVE  [u \in Turns |-> RequestOf(u)]'
         = [[u \in Turns |-> RequestOf(u)] EXCEPT ![t] = RequestOf(t)']
<1>1. \A u \in Turns : u # t => RequestOf(u)' = RequestOf(u)
  BY DEF RequestOf, StateOf
<1> QED BY <1>1

\* A turn that is open stays so, or is refused.
LEMMA OpenOrRefused ==
  ASSUME NEW t \in Turns, UNCHANGED <<chain, session>>,
         \A u \in Turns : u # t => turn'[u] = turn[u],
         turn'[t].session = turn[t].session, turn'[t].expected = turn[t].expected,
         turn[t].at \in {"queued", "prepared", "create", "advance"},
         turn'[t].at \in {"queued", "prepared", "create", "advance", "rejected", "conflict"}
  PROVE  [Editing!Next]_Editing!editingVars
<1> DEFINE request == [u \in Turns |-> RequestOf(u)]
<1>1. request' = [request EXCEPT ![t] = RequestOf(t)']
  BY OneRequest
<1>2. RequestOf(t) = [state |-> "open", session |-> turn[t].session, revision |-> turn[t].expected]
  BY DEF RequestOf, StateOf
<1>3. CASE turn'[t].at \notin {"rejected", "conflict"}
  <2>1. RequestOf(t)' = RequestOf(t)
    BY <1>2, <1>3 DEF RequestOf, StateOf
  <2>2. request' = request
    BY <1>1, <2>1
  <2> QED BY <2>2 DEF Editing!editingVars
<1>4. CASE turn'[t].at \in {"rejected", "conflict"}
  <2>1. RequestOf(t)' = [RequestOf(t) EXCEPT !.state = "refused"]
    BY <1>2, <1>4 DEF RequestOf, StateOf
  <2>2. request[t] = RequestOf(t) /\ request' = [request EXCEPT ![t].state = "refused"]
    BY <1>1, <2>1
  <2>3. request[t].state = "open"
    BY <1>2, <2>2
  <2>4. Editing!Refuse(t)
    BY <2>2, <2>3 DEF Editing!Refuse
  <2> QED BY <2>4 DEF Editing!Next
<1> QED BY <1>3, <1>4

\* A turn whose transaction commits lands on its session and the newest version.
LEMMA LandsWhole ==
  ASSUME Linear, Attached, NEW t \in Turns, PublishTurn(t), SessionAsExpected(t)
  PROVE  Editing!Land(t)
<1> DEFINE request == [u \in Turns |-> RequestOf(u)]
           s == turn[t].session
           revision == turn[t].expected
<1>1. /\ turn[t].at = "advance" /\ s \in Sessions /\ turn[t].base = Len(chain)
      /\ chain' = Append1(t, DerivedFrom(t)) /\ turn[t].of \in {"this", "other"}
      /\ turn[t].of = "other" => revision = 0
      /\ session' = [session EXCEPT ![s] = Advanced(t)]
      /\ turn' = [turn EXCEPT ![t].at = "validated"]
  BY DEF PublishTurn, TurnTo, Linear, Placed, HeadHeld, ElsewhereFirst
<1>2. session[s] = [revision |-> revision, of |-> turn[t].of, version |-> Len(chain)]
  <2>1. /\ session[s].revision = revision /\ session[s].version = Len(chain)
        /\ session[s].of = turn[t].of
    BY <1>1 DEF Attached, SessionAsExpected, Mine
  <2>2. session[s] \in [revision : Nat, of : Origins, version : Nat]
    BY <1>1 DEF Linear, AuthoringTypeOK
  <2> QED BY <2>1, <2>2
<1>3. RequestOf(t) = [state |-> "open", session |-> s, revision |-> revision]
  BY <1>1 DEF RequestOf, StateOf
<1>4. /\ turn'[t].at = "validated" /\ turn'[t].session = s /\ turn'[t].expected = revision
      /\ \A u \in Turns : u # t => turn'[u] = turn[u]
  BY <1>1 DEF Linear, AuthoringTypeOK
<1>5. RequestOf(t)' = [state |-> "published", session |-> s, revision |-> revision]
  BY <1>4 DEF RequestOf, StateOf
<1>6. request' = [request EXCEPT ![t] = RequestOf(t)']
  BY <1>4, OneRequest
<1>7. RequestOf(t)' = [RequestOf(t) EXCEPT !.state = "published"]
  BY <1>3, <1>5
<1>8. request[t] = RequestOf(t) /\ request' = [request EXCEPT ![t].state = "published"]
  BY <1>6, <1>7
<1>9. /\ request[t].state = "open" /\ request[t].session = s /\ request[t].revision = revision
  BY <1>3, <1>8
<1>10. /\ \/ /\ session[s] = Editing!Pointer(revision, "this", Len(chain))
             /\ chain' = Editing!Extended(t, Len(chain))
          \/ /\ session[s] = Editing!Pointer(revision, "other", Len(chain)) /\ revision = 0
             /\ chain' = Editing!Extended(t, 0)
       /\ session' = [session EXCEPT ![s] = Editing!Pointer(revision + 1, "this", Len(chain) + 1)]
  BY <1>1, <1>2 DEF Editing!Pointer, Editing!Extended, Append1, Advanced, DerivedFrom
<1> QED
  BY <1>8, <1>9, <1>10 DEF Editing!Land

\* Every step of authoring is one of atomic editing, or none.
LEMMA EditingStep ==
  Linear /\ Attached /\ Fresh /\ [AuthoringNext]_authoringVars
      => [Editing!Next]_Editing!editingVars
<1> SUFFICES ASSUME Linear, Attached, Fresh, [AuthoringNext]_authoringVars
             PROVE  [Editing!Next]_Editing!editingVars
  OBVIOUS
<1> DEFINE request == [u \in Turns |-> RequestOf(u)]
           Rows == [at : TurnStages, session : Sessions \cup {Nobody}, expected : Nat, of : Origins, base : Nat]
<1>0. turn \in [Turns -> Rows]
  BY DEF Linear, AuthoringTypeOK
<1>1. ASSUME UNCHANGED turn PROVE UNCHANGED request
  BY <1>1 DEF RequestOf, StateOf
<1>2. ASSUME NEW e \in Editors, ReadHead(e) PROVE UNCHANGED Editing!editingVars
  BY <1>1, <1>2 DEF ReadHead, Editing!editingVars
<1>3. ASSUME NEW e \in Editors, Save(e) PROVE [Editing!Next]_Editing!editingVars
  <2>1. UNCHANGED request /\ UNCHANGED session
    BY <1>1, <1>3 DEF Save
  <2>2. CASE UNCHANGED chain
    BY <2>1, <2>2 DEF Editing!editingVars
  <2>3. CASE HeadIs(editor[e]) /\ chain' = Append1(e, editor[e])
    <3>1. Editing!Edit(e)
      BY <2>1, <2>3 DEF HeadIs, Append1, Editing!Edit, Editing!Extended
    <3> QED BY <3>1 DEF Editing!Next
  <2> QED BY <1>3, <2>2, <2>3 DEF Save
<1>4. ASSUME NEW s \in Sessions, NEW of, NEW version, OpenSession(s, of, version)
      PROVE  Editing!Next
  <2>1. Editing!Open(s, of, version)
    BY <1>1, <1>4 DEF OpenSession, Nameable, Editing!Open, Editing!Pointer
  <2>2. of \in {"nothing", "this", "other"} /\ version \in 0..MaxVersions
    BY <1>4, AuthoringAssumption DEF OpenSession, Nameable, Linear, AuthoringTypeOK
  <2> QED BY <2>1, <2>2 DEF Editing!Next
<1>5. ASSUME NEW t \in Turns, NEW s \in Sessions, Submit(t, s) PROVE Editing!Next
  <2>1. /\ turn[t].at = "new" /\ session[s].of # "unopened" /\ UNCHANGED <<chain, session>>
        /\ turn'[t].at = "queued" /\ turn'[t].session = s /\ turn'[t].expected = session[s].revision
        /\ \A u \in Turns : u # t => turn'[u] = turn[u]
    BY <1>0, <1>5 DEF Submit
  <2>2. RequestOf(t) = [state |-> "new", session |-> Nobody, revision |-> 0]
    BY <2>1 DEF RequestOf, StateOf, Fresh
  <2>3. RequestOf(t)' = [state |-> "open", session |-> s, revision |-> session[s].revision]
    BY <2>1 DEF RequestOf, StateOf
  <2>4. request' = [request EXCEPT ![t] = RequestOf(t)'] /\ request[t] = RequestOf(t)
    BY <2>1, OneRequest
  <2>5. Editing!Ask(t, s)
    BY <2>1, <2>2, <2>3, <2>4 DEF Editing!Ask, Editing!Unasked, Editing!Request
  <2> QED BY <2>5 DEF Editing!Next
<1>6. ASSUME NEW t \in Turns, Prepare(t) PROVE [Editing!Next]_Editing!editingVars
  <2>1. /\ turn[t].at = "queued" /\ UNCHANGED <<chain, session>>
        /\ \E row \in {[turn[t] EXCEPT !.at = "prepared", !.of = Mine(t).of, !.base = Mine(t).version],
                       [turn[t] EXCEPT !.at = "rejected"], [turn[t] EXCEPT !.at = "conflict"]} :
              turn' = [turn EXCEPT ![t] = row]
    BY <1>0, <1>6 DEF Prepare, TurnTo
  <2>2. PICK row \in {[turn[t] EXCEPT !.at = "prepared", !.of = Mine(t).of, !.base = Mine(t).version],
                      [turn[t] EXCEPT !.at = "rejected"], [turn[t] EXCEPT !.at = "conflict"]} :
            turn' = [turn EXCEPT ![t] = row]
    BY <2>1
  <2>3. /\ row.session = turn[t].session /\ row.expected = turn[t].expected
        /\ row.at \in {"prepared", "rejected", "conflict"}
    BY <1>0
  <2>4. turn'[t] = row /\ \A u \in Turns : u # t => turn'[u] = turn[u]
    BY <1>0, <2>2
  <2> QED BY <2>1, <2>3, <2>4, OpenOrRefused
<1>7. ASSUME NEW t \in Turns, OpenPublication(t) \/ LockHead(t)
      PROVE  [Editing!Next]_Editing!editingVars
  <2>1. /\ turn[t].at \in {"prepared", "create"} /\ UNCHANGED <<chain, session>>
        /\ \E stage \in {"create", "advance", "conflict"} : turn' = [turn EXCEPT ![t].at = stage]
    BY <1>7 DEF OpenPublication, LockHead, TurnTo
  <2> QED BY <1>0, <2>1, OpenOrRefused
<1>8. ASSUME NEW t \in Turns, PublishTurn(t) PROVE [Editing!Next]_Editing!editingVars
  <2>1. CASE SessionAsExpected(t)
    BY <1>8, <2>1, LandsWhole DEF Editing!Next
  <2>2. CASE ~SessionAsExpected(t)
    <3>1. /\ turn[t].at = "advance" /\ UNCHANGED <<chain, session>>
          /\ turn' = [turn EXCEPT ![t].at = "conflict"]
      BY <1>8, <2>2 DEF PublishTurn, TurnTo
    <3> QED BY <1>0, <3>1, OpenOrRefused
  <2> QED BY <2>1, <2>2
<1>9. ASSUME NEW t \in Turns, Reclaim(t) PROVE [Editing!Next]_Editing!editingVars
  <2>1. /\ turn[t].at \in {"prepared", "create", "advance"} /\ UNCHANGED <<chain, session>>
        /\ turn' = [turn EXCEPT ![t].at = "queued", ![t].of = "nothing", ![t].base = 0]
    BY <1>9 DEF Reclaim
  <2> QED BY <1>0, <2>1, OpenOrRefused
<1>10. CASE UNCHANGED authoringVars
  BY <1>1, <1>10 DEF authoringVars, Editing!editingVars
<1> QED BY <1>2, <1>3, <1>4, <1>5, <1>6, <1>7, <1>8, <1>9, <1>10 DEF AuthoringNext

\* For its clients a turn lands in one step on the session as it was asked and
\* on the newest version, or is refused, although it locks the head between two
\* unlocked readings of the session (AuthoringService.publish,
\* SessionStore.advance, VersionStore.create): ImplementsAtomicEditing.
THEOREM AuthoringImplementsAtomicEditing == AuthoringSpec => ImplementsAtomicEditing
<1>1. AuthoringInit => Fresh
  BY DEF AuthoringInit, Fresh
<1> QED
  BY <1>1, AuthoringLinear, AttachedInit, AttachedStep, FreshStep, EditingInit, EditingStep, PTL
     DEF AuthoringSpec, ImplementsAtomicEditing, Editing!Spec

-----------------------------------------------------------------------------
\* What a label says, and where a call may be.
Said == (Verdicts \X Verdicts) \cup {<<>>}
Labelled == [id : Asker, pair : Said, since : Nat]
Recording == {"number", "append", "choose", "list", "again", "save"}
Holding == {"list", "again", "save"}
Step == {"ask", "create", "read", "reset", "done"} \cup Recording

\* Types of the record, the labels of each generation and the calls under way
\* (calibration.py).
CalibrationTypeOK ==
    /\ record \in [state : {"none", "UNCALIBRATED", "CALIBRATING", "CALIBRATED"},
                   generation : Generation, count : Nat]
    /\ labels \in [Generation -> Seq(Labelled)]
    /\ asking \in [Asker -> [step : Step, pair : Said, generation : Generation,
                             counted : Seq(Said)]]
    /\ lapses \in 0..MaxLapses
    /\ resets \in Nat
    /\ overtaken \in BOOLEAN

\* Only the calls that bring a label go through the steps of a recording.
Recorders == \A a \in Asker : asking[a].step \in Recording => a \in LabelIds

\* Until a reset overtakes another call, the record's generation has only labels
\* stored since the last reset, and no label is stored or about to be stored in a
\* later one.
OnlySinceReset ==
    ~overtaken =>
        /\ SinceReset(record.generation, Len(labels[record.generation]))
        /\ \A g \in Generation : g > record.generation => labels[g] = <<>>
        /\ \A a \in Asker :
              asking[a].step = "append" => asking[a].generation <= record.generation

\* Until a reset overtakes a recording, it holds the record's generation.
HoldsItsGeneration ==
    ~overtaken => \A a \in LabelIds :
        asking[a].step \in Holding => asking[a].generation = record.generation

\* The first labels of one generation, the record's own unless that changed
\* under a recording.
OfOneGeneration(pairs) ==
    \E g \in IF overtaken THEN Generation ELSE {record.generation} :
       \E n \in 0..Len(labels[g]) : pairs = SubSeq(Pairs(g), 1, n)

\* What a recording has counted is the labels of one generation.
CountedTogether ==
    \A a \in LabelIds : asking[a].step \in {"again", "save"} => OfOneGeneration(asking[a].counted)

\* The inductive invariant.
Calibrated ==
    /\ CalibrationTypeOK
    /\ Recorders
    /\ HoldsItsGeneration
    /\ CountedTogether
    /\ OnlySinceReset
    /\ JudgeEarnsItsCalibration

\* A run has finitely many resets, so there are finitely many generations.
LEMMA Generations == 0 \in Generation /\ Generation \subseteq Nat
<1>1. Cardinality(Resets) \in Nat
  BY FS_CardinalityType, CalibrationAssumption
<1> QED BY <1>1 DEF Generation

\* Nothing is labelled, counted or calibrated at the start.
LEMMA CalibrationStarts == CalibrationInit => Calibrated
<1> SUFFICES ASSUME CalibrationInit PROVE Calibrated
  OBVIOUS
<1>1. CalibrationTypeOK
  <2>1. record \in [state : {"none", "UNCALIBRATED", "CALIBRATING", "CALIBRATED"},
                    generation : Generation, count : Nat]
    BY Generations DEF CalibrationInit, NoRecord
  <2>2. labels \in [Generation -> Seq(Labelled)]
    BY DEF CalibrationInit
  <2>3. asking \in [Asker -> [step : Step, pair : Said, generation : Generation,
                              counted : Seq(Said)]]
    BY Generations DEF CalibrationInit, At, Step, Said
  <2>4. MaxLapses \in Nat
    BY CalibrationAssumption
  <2>5. lapses \in 0..MaxLapses
    BY <2>4 DEF CalibrationInit
  <2>6. overtaken \in BOOLEAN
    BY DEF CalibrationInit
  <2>7. resets \in Nat
    BY DEF CalibrationInit
  <2> QED BY <2>1, <2>2, <2>3, <2>5, <2>6, <2>7 DEF CalibrationTypeOK
<1>2. \A a \in Asker : asking[a].step = "ask"
  BY DEF CalibrationInit, At
<1>3. Recorders /\ HoldsItsGeneration /\ CountedTogether
  BY <1>2 DEF Recorders, HoldsItsGeneration, CountedTogether, Recording, Holding, Asker
<1>4. JudgeEarnsItsCalibration
  BY DEF CalibrationInit, NoRecord, JudgeEarnsItsCalibration
<1>5. OnlySinceReset
  <2>1. labels = [g \in Generation |-> <<>>] /\ record.generation \in Generation
    BY Generations DEF CalibrationInit, NoRecord
  <2>2. Len(labels[record.generation]) = 0
    BY <2>1
  <2> QED BY <1>2, <2>1, <2>2 DEF OnlySinceReset, SinceReset
<1> QED BY <1>1, <1>3, <1>4, <1>5 DEF Calibrated

\* The pairs of a generation are a sequence as long as its labels.
LEMMA PairsType ==
  ASSUME CalibrationTypeOK, NEW g \in Generation
  PROVE  Pairs(g) \in Seq(Said) /\ Len(Pairs(g)) = Len(labels[g])
<1>1. labels[g] \in Seq(Labelled)
  BY DEF CalibrationTypeOK
<1>2. \A i \in 1..Len(labels[g]) : labels[g][i] \in Labelled
  BY <1>1
<1>3. \A i \in 1..Len(labels[g]) : labels[g][i].pair \in Said
  BY <1>2 DEF Labelled
<1>4. DOMAIN labels[g] = 1..Len(labels[g]) /\ Len(labels[g]) \in Nat
  BY <1>1
<1> QED BY <1>3, <1>4 DEF Pairs

\* Sequences that agree up to n have the same first n elements.
LEMMA KeptPrefix ==
  ASSUME NEW s, NEW t, NEW n \in Nat, NEW T, s \in Seq(T), t \in Seq(T),
         n <= Len(s), n <= Len(t), \A i \in 1..n : s[i] = t[i]
  PROVE  SubSeq(s, 1, n) = SubSeq(t, 1, n)
  OBVIOUS

\* Labels are only added.
Grown == \A g \in Generation :
    /\ Len(labels[g]) <= Len(labels'[g])
    /\ \A i \in 1..Len(labels[g]) : labels'[g][i] = labels[g][i]

\* The first labels of a generation stay its first labels.
LEMMA PrefixStays ==
  ASSUME CalibrationTypeOK, CalibrationTypeOK', Grown,
         NEW g \in Generation, NEW n \in 0..Len(labels[g])
  PROVE  n \in 0..Len(labels'[g]) /\ SubSeq(Pairs(g), 1, n)' = SubSeq(Pairs(g), 1, n)
<1>0. labels[g] \in Seq(Labelled) /\ labels'[g] \in Seq(Labelled)
  BY DEF CalibrationTypeOK
<1>1. Pairs(g) \in Seq(Said) /\ Len(Pairs(g)) = Len(labels[g])
  BY PairsType
<1>2. Pairs(g)' \in Seq(Said) /\ Len(Pairs(g)') = Len(labels'[g])
  <2>1. \A i \in 1..Len(labels'[g]) : labels'[g][i] \in Labelled
    BY <1>0
  <2>2. \A i \in 1..Len(labels'[g]) : labels'[g][i].pair \in Said
    BY <2>1 DEF Labelled
  <2>3. DOMAIN labels'[g] = 1..Len(labels'[g]) /\ Len(labels'[g]) \in Nat
    BY <1>0
  <2> QED BY <2>2, <2>3 DEF Pairs
<1>3. n \in Nat /\ n <= Len(labels[g]) /\ n <= Len(labels'[g]) /\ Len(labels'[g]) \in Nat
  BY <1>0 DEF Grown
<1>4. \A i \in 1..n : Pairs(g)'[i] = Pairs(g)[i]
  BY <1>0, <1>3 DEF Pairs, Grown
<1> QED BY <1>1, <1>2, <1>3, <1>4, KeptPrefix

\* A record's generation moves under a recording only to overtake it.
Overtaken ==
    (overtaken => overtaken') /\ (~overtaken' => record'.generation = record.generation)

\* What was counted stays the labels of one generation.
LEMMA StaysTogether ==
  ASSUME CalibrationTypeOK, CalibrationTypeOK', Grown, Overtaken, NEW pairs,
         OfOneGeneration(pairs)
  PROVE  OfOneGeneration(pairs)'
<1>1. PICK g \in IF overtaken THEN Generation ELSE {record.generation} :
         \E n \in 0..Len(labels[g]) : pairs = SubSeq(Pairs(g), 1, n)
  BY DEF OfOneGeneration
<1>2. g \in Generation
  BY <1>1 DEF CalibrationTypeOK
<1>3. PICK n \in 0..Len(labels[g]) : pairs = SubSeq(Pairs(g), 1, n)
  BY <1>1
<1>4. n \in 0..Len(labels'[g]) /\ pairs = SubSeq(Pairs(g), 1, n)'
  BY <1>2, <1>3, PrefixStays
<1>5. g \in IF overtaken' THEN Generation ELSE {record'.generation}
  BY <1>1, <1>2 DEF Overtaken, CalibrationTypeOK
<1> QED BY <1>4, <1>5 DEF OfOneGeneration

\* A judge is calibrated only by enough of the labels it is given.
LEMMA DeriveEarned ==
  ASSUME NEW pairs
  PROVE  /\ Derive(pairs) \in {"UNCALIBRATED", "CALIBRATING", "CALIBRATED"}
         /\ Derive(pairs) = "CALIBRATED" => Sufficient(pairs)
  BY DEF Derive

\* What the property says of the stored record, by what was counted for it.
LEMMA EarnedTogether ==
  ASSUME JudgeEarnsItsCalibration, record.state = "CALIBRATED"
  PROVE  \E pairs : Sufficient(pairs) /\ OfOneGeneration(pairs)
<1>1. CASE overtaken
  BY <1>1 DEF JudgeEarnsItsCalibration, OfOneGeneration, Earned
<1>2. CASE ~overtaken
  BY <1>2 DEF JudgeEarnsItsCalibration, OfOneGeneration, Earned
<1> QED BY <1>1, <1>2

\* The same after a step, and for what the calls have counted.
LEMMA CountedAfter ==
  (\A b \in LabelIds : \A pairs :
     asking'[b].step \in {"again", "save"} /\ pairs = asking'[b].counted => OfOneGeneration(pairs)')
     => CountedTogether'
  BY DEF CountedTogether, OfOneGeneration

\* It is enough that the pairs of a calibrated record suffice.
LEMMA EarnedAfter ==
  ASSUME CalibrationTypeOK', OnlySinceReset',
         record'.state = "CALIBRATED" =>
            \E pairs : Sufficient(pairs) /\ OfOneGeneration(pairs)'
  PROVE  JudgeEarnsItsCalibration'
<1> SUFFICES ASSUME record'.state = "CALIBRATED" PROVE JudgeEarnsItsCalibration'
  BY DEF JudgeEarnsItsCalibration
<1>0. record'.generation \in Generation /\ labels' \in [Generation -> Seq(Labelled)]
  BY DEF CalibrationTypeOK
<1>1. PICK pairs : Sufficient(pairs) /\ OfOneGeneration(pairs)'
  OBVIOUS
<1>2. PICK g \in IF overtaken' THEN Generation ELSE {record'.generation} :
         \E n \in 0..Len(labels'[g]) : pairs = SubSeq(Pairs(g), 1, n)'
  BY <1>1 DEF OfOneGeneration
<1>3. PICK n \in 0..Len(labels'[g]) : pairs = SubSeq(Pairs(g), 1, n)'
  BY <1>2
<1>4. g \in Generation /\ Earned(g, n)'
  BY <1>0, <1>1, <1>2, <1>3 DEF Earned
<1>5. \E h \in Generation : \E k \in 0..Len(labels'[h]) : Earned(h, k)'
  BY <1>3, <1>4
<1>6. ASSUME ~overtaken'
      PROVE  \E k \in 0..Len(labels'[record'.generation]) :
                Earned(record.generation, k)' /\ SinceReset(record.generation, k)'
  <2>1. g = record'.generation
    BY <1>2, <1>6
  <2>2. Len(labels'[g]) \in Nat
    BY <1>0, <1>4
  <2>3. SinceReset(record.generation, n)'
    BY <1>3, <1>6, <2>1, <2>2 DEF OnlySinceReset, SinceReset
  <2> QED BY <1>3, <1>4, <2>1, <2>3
<1> QED BY <1>5, <1>6 DEF JudgeEarnsItsCalibration

-----------------------------------------------------------------------------
\* Every step keeps the types.
LEMMA CalibrationTypesStep ==
  CalibrationTypeOK /\ [CalibrationNext]_calibrationVars => CalibrationTypeOK'
<1> SUFFICES ASSUME CalibrationTypeOK, [CalibrationNext]_calibrationVars
             PROVE  CalibrationTypeOK'
  OBVIOUS
<1> DEFINE Call == [step : Step, pair : Said, generation : Generation, counted : Seq(Said)]
<1>0. /\ asking \in [Asker -> Call] /\ labels \in [Generation -> Seq(Labelled)]
      /\ record.generation \in Generation /\ overtaken \in BOOLEAN
      /\ MaxLapses \in Nat /\ 0 \in Generation /\ resets \in Nat
  BY CalibrationAssumption, Generations DEF CalibrationTypeOK
<1>1. ASSUME NEW a \in Asker, NEW pair \in Said, Get(a, pair) PROVE CalibrationTypeOK'
  <2>1. AfterGet(a) \in Step
    BY DEF AfterGet, Step, Recording
  <2>2. asking' \in [Asker -> Call]
    BY <1>0, <1>1, <2>1 DEF Get, Step
  <2> QED BY <1>1, <2>2 DEF Get, CalibrationTypeOK
<1>2. ASSUME NEW a \in Asker, CreateRecord(a) PROVE CalibrationTypeOK'
  <2>1. AfterGet(a) \in Step
    BY DEF AfterGet, Step, Recording
  <2>2. asking' \in [Asker -> Call]
    BY <1>0, <1>2, <2>1 DEF CreateRecord, Goes
  <2>3. overtaken' \in BOOLEAN
    BY <1>0, <1>2 DEF CreateRecord, StoreRecord
  <2>4. record' = Uncalibrated(0) /\ UNCHANGED <<labels, lapses, resets>>
    BY <1>2 DEF CreateRecord, StoreRecord
  <2>5. record' \in [state : {"none", "UNCALIBRATED", "CALIBRATING", "CALIBRATED"},
                     generation : Generation, count : Nat]
    BY <1>0, <2>4 DEF Uncalibrated
  <2> QED BY <2>2, <2>3, <2>4, <2>5 DEF CalibrationTypeOK
<1>3. ASSUME NEW a \in Asker, ReadGeneration(a) PROVE CalibrationTypeOK'
  <2>1. PICK step \in Step : asking' = [asking EXCEPT ![a].generation = record.generation,
                                                      ![a].step = step]
    <3> DEFINE step == CASE asking[a].step = "number" -> "append" [] asking[a].step = "choose" -> "list"
                         [] asking[a].step = "again" -> "save" [] OTHER -> "reset"
    <3>1. step \in Step
      BY DEF Step, Recording
    <3> QED BY <1>0, <1>3, <3>1 DEF ReadGeneration
  <2>2. asking' \in [Asker -> Call]
    BY <1>0, <2>1
  <2> QED BY <1>3, <2>2 DEF ReadGeneration, CalibrationTypeOK
<1>4. ASSUME NEW a \in Asker, AppendLabel(a) PROVE CalibrationTypeOK'
  <2> DEFINE g == asking[a].generation
             label == [id |-> a, pair |-> asking[a].pair, since |-> resets]
  <2>1. g \in Generation /\ label \in Labelled
    BY <1>0 DEF Labelled
  <2> HIDE DEF label
  <2>2. labels[g] \in Seq(Labelled) /\ Append(labels[g], label) \in Seq(Labelled)
    BY <1>0, <2>1
  <2>3. \/ labels' = [labels EXCEPT ![g] = labels[g]]
        \/ labels' = [labels EXCEPT ![g] = Append(labels[g], label)]
    BY <1>4 DEF AppendLabel, label
  <2>4. labels' \in [Generation -> Seq(Labelled)]
    BY <1>0, <2>1, <2>2, <2>3
  <2>5. asking' \in [Asker -> Call]
    BY <1>0, <1>4 DEF AppendLabel, Goes, Step, Recording
  <2> QED BY <1>4, <2>4, <2>5 DEF AppendLabel, CalibrationTypeOK
<1>5. ASSUME NEW a \in Asker, ListLabels(a) PROVE CalibrationTypeOK'
  <2>1. Pairs(asking[a].generation) \in Seq(Said)
    BY <1>0, PairsType
  <2>2. asking' \in [Asker -> Call]
    BY <1>0, <1>5, <2>1 DEF ListLabels, Listed, Step, Recording
  <2> QED BY <1>5, <2>2 DEF ListLabels, CalibrationTypeOK
<1>6. ASSUME NEW a \in Asker, SaveReadiness(a) PROVE CalibrationTypeOK'
  <2>1. asking' \in [Asker -> Call]
    BY <1>0, <1>6 DEF SaveReadiness, Goes, Step
  <2>2. overtaken' \in BOOLEAN
    BY <1>0, <1>6 DEF SaveReadiness, StoreRecord
  <2>3. asking[a].generation \in Generation /\ Len(asking[a].counted) \in Nat
    BY <1>0
  <2>4. record' \in [state : {"none", "UNCALIBRATED", "CALIBRATING", "CALIBRATED"},
                     generation : Generation, count : Nat]
    BY <1>6, <2>3, DeriveEarned DEF SaveReadiness, StoreRecord
  <2> QED BY <1>6, <2>1, <2>2, <2>4 DEF SaveReadiness, StoreRecord, CalibrationTypeOK
<1>7. ASSUME NEW a \in Asker, SaveReset(a) PROVE CalibrationTypeOK'
  <2>1. asking' \in [Asker -> Call]
    BY <1>0, <1>7 DEF SaveReset, Goes, Step
  <2>2. overtaken' \in BOOLEAN
    BY <1>0, <1>7 DEF SaveReset, StoreRecord
  <2>3. resets' \in Nat
    BY <1>0, <1>7 DEF SaveReset
  <2> QED BY <1>7, <2>1, <2>2, <2>3 DEF SaveReset, StoreRecord, Uncalibrated, CalibrationTypeOK
<1>8. ASSUME NEW a \in Asker, Lapse(a) PROVE CalibrationTypeOK'
  <2> DEFINE anew == [At("ask") EXCEPT !.pair = asking[a].pair]
  <2>0. anew \in Call
    <3>1. anew = [step |-> "ask", pair |-> asking[a].pair, generation |-> 0, counted |-> <<>>]
      BY DEF At
    <3>2. asking[a].pair \in Said /\ "ask" \in Step /\ <<>> \in Seq(Said)
      BY <1>0 DEF Step
    <3> QED BY <1>0, <3>1, <3>2
  <2>1. asking' \in [Asker -> Call]
    BY <1>0, <1>8, <2>0 DEF Lapse
  <2>2. lapses' \in 0..MaxLapses
    BY <1>0, <1>8 DEF Lapse, CalibrationTypeOK
  <2> QED BY <1>8, <2>1, <2>2 DEF Lapse, CalibrationTypeOK
<1>9. CASE UNCHANGED calibrationVars
  BY <1>9 DEF calibrationVars, CalibrationTypeOK
<1> QED
  BY <1>1, <1>2, <1>3, <1>4, <1>5, <1>6, <1>7, <1>8, <1>9 DEF CalibrationNext, Said

\* A call that stores no record keeps the invariant when it holds the record's
\* generation and what it has counted is of one generation.
LEMMA CallMoves ==
  ASSUME Calibrated, CalibrationTypeOK', OnlySinceReset', Grown,
         UNCHANGED <<record, overtaken>>, NEW a \in Asker,
         \A b \in Asker : b # a => asking'[b] = asking[b],
         asking'[a].step \in Recording => a \in LabelIds,
         asking'[a].step \in Holding /\ ~overtaken => asking'[a].generation = record.generation,
         asking'[a].step \in {"again", "save"} => OfOneGeneration(asking'[a].counted)
  PROVE  Calibrated'
<1>1. Overtaken
  BY DEF Overtaken
<1>2. \A pairs : OfOneGeneration(pairs) => OfOneGeneration(pairs)'
  BY <1>1, StaysTogether DEF Calibrated
<1>3. Recorders'
  BY DEF Calibrated, Recorders
<1>4. HoldsItsGeneration'
  BY DEF Calibrated, HoldsItsGeneration, Asker
<1>5. CountedTogether'
  <2> SUFFICES ASSUME NEW b \in LabelIds, asking'[b].step \in {"again", "save"},
                      NEW pairs, pairs = asking'[b].counted
               PROVE  OfOneGeneration(pairs)'
    BY CountedAfter
  <2>1. b \in Asker
    BY DEF Asker
  <2>2. OfOneGeneration(pairs)
    BY <2>1 DEF Calibrated, CountedTogether
  <2> QED BY <1>2, <2>2
<1>6. JudgeEarnsItsCalibration'
  <2> SUFFICES ASSUME record.state = "CALIBRATED"
               PROVE  \E pairs : Sufficient(pairs) /\ OfOneGeneration(pairs)'
    BY EarnedAfter
  <2> QED BY <1>2, EarnedTogether DEF Calibrated
<1> QED BY <1>3, <1>4, <1>5, <1>6 DEF Calibrated

\* A call that stores a record keeps the invariant: under a recording it leaves
\* the generation or overtakes it, and under none nothing counted is stored.
LEMMA StoreMoves ==
  ASSUME Calibrated, CalibrationTypeOK', OnlySinceReset', NEW a \in Asker,
         NEW r, NEW read, StoreRecord(r, read),
         \A b \in Asker : b # a => asking'[b] = asking[b],
         asking'[a].step \notin Holding,
         asking'[a].step \in Recording => a \in LabelIds,
         r.state = "CALIBRATED" =>
            \E b \in LabelIds : asking[b].step = "save" /\ Sufficient(asking[b].counted)
  PROVE  Calibrated'
<1>0. /\ overtaken \in BOOLEAN /\ record' = r /\ labels' = labels
      /\ overtaken' = (overtaken \/ read # record.generation
                         \/ (Counting /\ r.generation # record.generation))
      /\ LabelIds \subseteq Asker
  BY DEF StoreRecord, Calibrated, CalibrationTypeOK, Asker
<1>1. Recorders'
  BY DEF Calibrated, Recorders
<1>2. ASSUME NEW b \in Asker, asking'[b].step \in Holding
      PROVE  b # a /\ asking'[b] = asking[b]
  BY <1>2
<1>3. CASE Counting
  <2>1. Overtaken
    BY <1>0, <1>3 DEF Overtaken
  <2>2. Grown
    BY <1>0 DEF Grown, Calibrated, CalibrationTypeOK
  <2>3. \A pairs : OfOneGeneration(pairs) => OfOneGeneration(pairs)'
    BY <2>1, <2>2, StaysTogether DEF Calibrated
  <2>4. HoldsItsGeneration'
    BY <1>0, <1>2, <2>1 DEF Overtaken, Calibrated, HoldsItsGeneration
  <2>5. CountedTogether'
    <3> SUFFICES ASSUME NEW b \in LabelIds, asking'[b].step \in {"again", "save"},
                        NEW pairs, pairs = asking'[b].counted
                 PROVE  OfOneGeneration(pairs)'
      BY CountedAfter
    <3>1. asking'[b] = asking[b]
      BY <1>0, <1>2 DEF Holding
    <3> QED BY <2>3, <3>1 DEF Calibrated, CountedTogether
  <2>6. JudgeEarnsItsCalibration'
    <3> SUFFICES ASSUME r.state = "CALIBRATED"
                 PROVE  \E pairs : Sufficient(pairs) /\ OfOneGeneration(pairs)'
      BY <1>0, EarnedAfter
    <3>1. PICK b \in LabelIds : asking[b].step = "save" /\ Sufficient(asking[b].counted)
      OBVIOUS
    <3>2. OfOneGeneration(asking[b].counted)
      BY <3>1 DEF Calibrated, CountedTogether
    <3> QED BY <2>3, <3>1, <3>2
  <2> QED BY <1>1, <2>4, <2>5, <2>6 DEF Calibrated
<1>4. CASE ~Counting
  <2>1. \A b \in LabelIds : asking[b].step \notin Holding
    BY <1>4 DEF Counting, Holding
  <2>2. \A b \in LabelIds : asking'[b].step \notin Holding
    BY <1>0, <1>2, <2>1
  <2>3. HoldsItsGeneration' /\ CountedTogether'
    BY <2>2 DEF HoldsItsGeneration, CountedTogether, Holding
  <2>4. JudgeEarnsItsCalibration'
    BY <1>0, <2>1 DEF JudgeEarnsItsCalibration, Holding
  <2> QED BY <1>1, <2>3, <2>4 DEF Calibrated
<1> QED BY <1>3, <1>4

\* A stored record leaves the labels that its generation has since the reset.
LEMMA StoreSince ==
  ASSUME CalibrationTypeOK, CalibrationTypeOK', OnlySinceReset, NEW a \in Asker,
         NEW r, NEW read, StoreRecord(r, read),
         \A b \in Asker : b # a => asking'[b] = asking[b],
         asking'[a].step # "append",
         \/ r.generation = read /\ resets' = resets
         \/ r.generation = read + 1 /\ read \in Nat
  PROVE  OnlySinceReset'
<1> SUFFICES ASSUME ~overtaken' PROVE OnlySinceReset'
  BY DEF OnlySinceReset
<1>0. /\ record' = r /\ labels' = labels /\ ~overtaken /\ read = record.generation
      /\ record.generation \in Generation /\ r.generation \in Generation
      /\ Generation \subseteq Nat /\ labels \in [Generation -> Seq(Labelled)]
  BY Generations DEF StoreRecord, CalibrationTypeOK
<1>1. \A g \in Generation : g > r.generation => labels[g] = <<>>
  BY <1>0 DEF OnlySinceReset
<1>2. \A b \in Asker : asking'[b].step = "append" => asking'[b].generation <= r.generation
  <2> SUFFICES ASSUME NEW b \in Asker, asking'[b].step = "append"
               PROVE  asking'[b].generation <= r.generation
    OBVIOUS
  <2>1. asking[b].generation <= record.generation /\ asking'[b] = asking[b]
    BY <1>0 DEF OnlySinceReset
  <2>2. asking[b].generation \in Nat
    BY <1>0 DEF CalibrationTypeOK
  <2> QED BY <1>0, <2>1, <2>2
<1>3. CASE r.generation = read /\ resets' = resets
  <2>1. SinceReset(record.generation, Len(labels[record.generation]))'
    BY <1>0, <1>3 DEF OnlySinceReset, SinceReset
  <2> QED BY <1>0, <1>1, <1>2, <2>1 DEF OnlySinceReset
<1>4. CASE r.generation = read + 1
  <2>a. record.generation \in Nat /\ r.generation = record.generation + 1
    BY <1>0, <1>4
  <2>0. r.generation > record.generation /\ r.generation \in Generation
    BY <1>0, <2>a
  <2>1. labels[r.generation] = <<>>
    BY <1>0, <2>0 DEF OnlySinceReset
  <2>2. SinceReset(record.generation, Len(labels[record.generation]))'
    BY <1>0, <2>1 DEF SinceReset
  <2> QED BY <1>0, <1>1, <1>2, <2>2 DEF OnlySinceReset
<1> QED BY <1>3, <1>4

\* Every step keeps to the labels stored since the last reset.
LEMMA SinceResetStep ==
  CalibrationTypeOK /\ OnlySinceReset /\ [CalibrationNext]_calibrationVars => OnlySinceReset'
<1> SUFFICES ASSUME CalibrationTypeOK, OnlySinceReset, [CalibrationNext]_calibrationVars
             PROVE  OnlySinceReset'
  OBVIOUS
<1> DEFINE Call == [step : Step, pair : Said, generation : Generation, counted : Seq(Said)]
<1>0. /\ asking \in [Asker -> Call] /\ labels \in [Generation -> Seq(Labelled)]
      /\ CalibrationTypeOK' /\ record.generation \in Generation /\ Generation \subseteq Nat
  BY CalibrationTypesStep, Generations DEF CalibrationTypeOK
<1>q. ASSUME UNCHANGED <<record, labels, resets, overtaken>>,
             \A a \in Asker : asking'[a].step = "append" =>
                \/ asking'[a] = asking[a]
                \/ asking'[a].generation = record.generation
      PROVE  OnlySinceReset'
  <2> SUFFICES ASSUME ~overtaken PROVE OnlySinceReset'
    BY <1>q DEF OnlySinceReset
  <2>1. ASSUME NEW a \in Asker, asking'[a].step = "append"
        PROVE  asking'[a].generation <= record.generation
    <3>1. CASE asking'[a] = asking[a]
      BY <2>1, <3>1 DEF OnlySinceReset
    <3>2. CASE asking'[a].generation = record.generation
      <4>1. record.generation \in Nat
        BY <1>0
      <4> QED BY <3>2, <4>1
    <3> QED BY <1>q, <2>1, <3>1, <3>2
  <2>2. SinceReset(record.generation, Len(labels[record.generation]))'
    BY <1>q DEF OnlySinceReset, SinceReset
  <2> QED BY <1>q, <2>1, <2>2 DEF OnlySinceReset
<1>1. ASSUME NEW a \in Asker, NEW pair \in Said, Get(a, pair) PROVE OnlySinceReset'
  <2>1. /\ UNCHANGED <<record, labels, resets, overtaken>>
        /\ \A b \in Asker : b # a => asking'[b] = asking[b]
        /\ asking'[a].step # "append"
    BY <1>0, <1>1 DEF Get, AfterGet
  <2> QED BY <1>q, <2>1
<1>2. ASSUME NEW a \in Asker, CreateRecord(a) PROVE OnlySinceReset'
  <2>1. /\ StoreRecord(Uncalibrated(0), NoRecord.generation) /\ resets' = resets
        /\ \A b \in Asker : b # a => asking'[b] = asking[b]
        /\ asking'[a].step # "append"
    BY <1>0, <1>2 DEF CreateRecord, Goes, AfterGet
  <2>2. Uncalibrated(0).generation = NoRecord.generation
    BY DEF Uncalibrated, NoRecord
  <2> QED BY <1>0, <2>1, <2>2, StoreSince
<1>3. ASSUME NEW a \in Asker, ReadGeneration(a) PROVE OnlySinceReset'
  <2>1. /\ UNCHANGED <<record, labels, resets, overtaken>>
        /\ \A b \in Asker : b # a => asking'[b] = asking[b]
        /\ asking'[a].generation = record.generation
    BY <1>0, <1>3 DEF ReadGeneration
  <2> QED BY <1>q, <2>1
<1>4. ASSUME NEW a \in Asker, AppendLabel(a) PROVE OnlySinceReset'
  <2> DEFINE g == asking[a].generation
             label == [id |-> a, pair |-> asking[a].pair, since |-> resets]
  <2>1. g \in Generation /\ label.since = resets /\ label \in Labelled
    BY <1>0 DEF Labelled, CalibrationTypeOK
  <2> HIDE DEF label
  <2>2. \/ labels' = [labels EXCEPT ![g] = labels[g]]
        \/ labels' = [labels EXCEPT ![g] = Append(labels[g], label)]
    BY <1>4 DEF AppendLabel, label
  <2>3. /\ UNCHANGED <<record, resets, overtaken>>
        /\ \A b \in Asker : b # a => asking'[b] = asking[b]
        /\ asking[a].step = "append" /\ asking'[a].step = "choose"
    BY <1>0, <1>4 DEF AppendLabel, Goes
  <2> SUFFICES ASSUME ~overtaken PROVE OnlySinceReset'
    BY <2>3 DEF OnlySinceReset
  <2>4. g <= record.generation
    BY <2>3 DEF OnlySinceReset
  <2>5. ASSUME NEW h \in Generation, h > record.generation PROVE labels'[h] = <<>>
    <3>0. h \in Nat /\ g \in Nat /\ record.generation \in Nat
      BY <1>0, <2>1
    <3>1. h # g
      BY <2>4, <2>5, <3>0
    <3>2. labels'[h] = labels[h]
      BY <1>0, <2>2, <3>1
    <3> QED BY <2>5, <3>2 DEF OnlySinceReset
  <2>6. SinceReset(record.generation, Len(labels[record.generation]))'
    <3>1. labels[record.generation] \in Seq(Labelled)
      BY <1>0
    <3>2. \/ labels'[record.generation] = labels[record.generation]
          \/ labels'[record.generation] = Append(labels[record.generation], label)
      BY <1>0, <2>1, <2>2
    <3>3. \A i \in 1..Len(labels[record.generation]) :
             labels[record.generation][i].since = resets
      BY DEF OnlySinceReset, SinceReset
    <3> DEFINE kept == labels[record.generation]
    <3>4. \A i \in 1..Len(Append(kept, label)) : Append(kept, label)[i].since = resets
      <4> SUFFICES ASSUME NEW i \in 1..Len(Append(kept, label))
                   PROVE  Append(kept, label)[i].since = resets
        OBVIOUS
      <4>1. CASE i \in 1..Len(kept)
        BY <2>1, <3>1, <3>3, <4>1
      <4>2. CASE i = Len(kept) + 1
        BY <2>1, <3>1, <4>2
      <4> QED BY <2>1, <3>1, <4>1, <4>2
    <3>5. \A i \in 1..Len(labels'[record.generation]) :
             labels'[record.generation][i].since = resets
      BY <3>2, <3>3, <3>4
    <3> QED BY <2>3, <3>5 DEF SinceReset
  <2>7. \A b \in Asker : asking'[b].step = "append" => asking'[b].generation <= record.generation
    BY <2>3 DEF OnlySinceReset
  <2> QED BY <2>3, <2>5, <2>6, <2>7 DEF OnlySinceReset
<1>5. ASSUME NEW a \in Asker, ListLabels(a) PROVE OnlySinceReset'
  <2>1. /\ UNCHANGED <<record, labels, resets, overtaken>>
        /\ \A b \in Asker : b # a => asking'[b] = asking[b]
        /\ asking'[a].step # "append"
    BY <1>0, <1>5 DEF ListLabels
  <2> QED BY <1>q, <2>1
<1>6. ASSUME NEW a \in Asker, SaveReadiness(a) PROVE OnlySinceReset'
  <2> DEFINE r == [state |-> Derive(asking[a].counted), generation |-> asking[a].generation,
                   count |-> Len(asking[a].counted)]
  <2>1. /\ StoreRecord(r, asking[a].generation) /\ resets' = resets
        /\ \A b \in Asker : b # a => asking'[b] = asking[b]
        /\ asking'[a].step # "append" /\ r.generation = asking[a].generation
    BY <1>0, <1>6 DEF SaveReadiness, Goes
  <2> HIDE DEF r
  <2> QED BY <1>0, <2>1, StoreSince
<1>7. ASSUME NEW a \in Asker, SaveReset(a) PROVE OnlySinceReset'
  <2> DEFINE r == Uncalibrated(asking[a].generation + 1)
  <2>1. /\ StoreRecord(r, asking[a].generation)
        /\ \A b \in Asker : b # a => asking'[b] = asking[b]
        /\ asking'[a].step # "append" /\ r.generation = asking[a].generation + 1
    BY <1>0, <1>7 DEF SaveReset, Goes, Uncalibrated
  <2>2. asking[a].generation \in Nat
    BY <1>0
  <2> HIDE DEF r
  <2> QED BY <1>0, <2>1, <2>2, StoreSince
<1>8. ASSUME NEW a \in Asker, Lapse(a) PROVE OnlySinceReset'
  <2>1. /\ UNCHANGED <<record, labels, resets, overtaken>>
        /\ \A b \in Asker : b # a => asking'[b] = asking[b]
        /\ asking'[a].step # "append"
    BY <1>0, <1>8 DEF Lapse, At
  <2> QED BY <1>q, <2>1
<1>9. CASE UNCHANGED calibrationVars
  BY <1>q, <1>9 DEF calibrationVars
<1> QED
  BY <1>1, <1>2, <1>3, <1>4, <1>5, <1>6, <1>7, <1>8, <1>9 DEF CalibrationNext, Said

\* Every step keeps the inductive invariant.
LEMMA CalibratedStep ==
  Calibrated /\ [CalibrationNext]_calibrationVars => Calibrated'
<1> SUFFICES ASSUME Calibrated, [CalibrationNext]_calibrationVars PROVE Calibrated'
  OBVIOUS
<1> DEFINE Call == [step : Step, pair : Said, generation : Generation, counted : Seq(Said)]
<1>0. /\ asking \in [Asker -> Call] /\ labels \in [Generation -> Seq(Labelled)]
      /\ CalibrationTypeOK /\ CalibrationTypeOK' /\ 0 \in Generation
      /\ record.generation \in Generation /\ OnlySinceReset'
  BY CalibrationTypesStep, SinceResetStep, Generations DEF Calibrated, CalibrationTypeOK
<1>a. labels' = labels => Grown
  BY <1>0 DEF Grown
<1>b. \A a \in Asker : AfterGet(a) \notin Holding /\ (AfterGet(a) \in Recording => a \in LabelIds)
  BY DEF AfterGet, Holding, Recording
<1>1. ASSUME NEW a \in Asker, NEW pair \in Said, Get(a, pair) PROVE Calibrated'
  <2>1. /\ UNCHANGED <<record, labels, overtaken>>
        /\ \A b \in Asker : b # a => asking'[b] = asking[b]
        /\ asking'[a].step \in {"create", AfterGet(a)}
    BY <1>0, <1>1 DEF Get
  <2>2. asking'[a].step \notin Holding /\ (asking'[a].step \in Recording => a \in LabelIds)
    BY <1>b, <2>1 DEF Holding, Recording
  <2> QED BY <1>0, <1>a, <2>1, <2>2, CallMoves DEF Holding
<1>2. ASSUME NEW a \in Asker, CreateRecord(a) PROVE Calibrated'
  <2>1. /\ StoreRecord(Uncalibrated(0), NoRecord.generation)
        /\ \A b \in Asker : b # a => asking'[b] = asking[b]
        /\ asking'[a].step = AfterGet(a)
    BY <1>0, <1>2 DEF CreateRecord, Goes
  <2>2. Uncalibrated(0).state # "CALIBRATED"
    BY DEF Uncalibrated
  <2> QED BY <1>0, <1>b, <2>1, <2>2, StoreMoves
<1>3. ASSUME NEW a \in Asker, ReadGeneration(a) PROVE Calibrated'
  <2>1. /\ UNCHANGED <<record, labels, overtaken>>
        /\ \A b \in Asker : b # a => asking'[b] = asking[b]
        /\ asking'[a].generation = record.generation
        /\ asking'[a].counted = asking[a].counted
    BY <1>0, <1>3 DEF ReadGeneration
  <2>2. \/ asking[a].step = "number" /\ asking'[a].step = "append"
        \/ asking[a].step = "choose" /\ asking'[a].step = "list"
        \/ asking[a].step = "again" /\ asking'[a].step = "save"
        \/ asking[a].step = "read" /\ asking'[a].step = "reset"
    BY <1>0, <1>3 DEF ReadGeneration
  <2>3. asking'[a].step \in Recording => a \in LabelIds
    BY <2>2 DEF Calibrated, Recorders, Recording
  <2>4. asking'[a].step \in {"again", "save"} => OfOneGeneration(asking'[a].counted)
    BY <2>1, <2>2, <2>3 DEF Calibrated, CountedTogether, Recording
  <2> QED BY <1>0, <1>a, <2>1, <2>3, <2>4, CallMoves
<1>4. ASSUME NEW a \in Asker, AppendLabel(a) PROVE Calibrated'
  <2> DEFINE g == asking[a].generation
             label == [id |-> a, pair |-> asking[a].pair, since |-> resets]
  <2>1. g \in Generation /\ label \in Labelled
    BY <1>0 DEF Labelled, CalibrationTypeOK
  <2> HIDE DEF label
  <2>2. labels[g] \in Seq(Labelled)
    BY <1>0, <2>1
  <2>3. \/ labels' = [labels EXCEPT ![g] = labels[g]]
        \/ labels' = [labels EXCEPT ![g] = Append(labels[g], label)]
    BY <1>4 DEF AppendLabel, label
  <2>4. Grown
    <3> SUFFICES ASSUME NEW h \in Generation
                 PROVE  /\ Len(labels[h]) <= Len(labels'[h])
                        /\ \A i \in 1..Len(labels[h]) : labels'[h][i] = labels[h][i]
      BY DEF Grown
    <3>1. labels[h] \in Seq(Labelled)
      BY <1>0
    <3>2. labels'[h] = labels[h] \/ labels'[h] = Append(labels[h], label)
      BY <1>0, <2>1, <2>3
    <3> QED BY <3>1, <3>2
  <2>5. /\ UNCHANGED <<record, overtaken>>
        /\ \A b \in Asker : b # a => asking'[b] = asking[b]
        /\ asking[a].step = "append" /\ asking'[a].step = "choose"
    BY <1>0, <1>4 DEF AppendLabel, Goes
  <2>6. a \in LabelIds /\ asking'[a].step \notin Holding
    BY <2>5 DEF Calibrated, Recorders, Recording, Holding
  <2> QED BY <1>0, <2>4, <2>5, <2>6, CallMoves DEF Holding
<1>5. ASSUME NEW a \in Asker, ListLabels(a) PROVE Calibrated'
  <2> DEFINE g == asking[a].generation
  <2>1. /\ UNCHANGED <<record, labels, overtaken>>
        /\ \A b \in Asker : b # a => asking'[b] = asking[b]
        /\ asking[a].step = "list" /\ asking'[a].step = "again"
        /\ asking'[a].generation = g /\ asking'[a].counted = Pairs(g)
    BY <1>0, <1>5 DEF ListLabels, Listed
  <2>2. a \in LabelIds
    BY <2>1 DEF Calibrated, Recorders, Recording
  <2>3. ~overtaken => g = record.generation
    BY <2>1, <2>2 DEF Calibrated, HoldsItsGeneration, Holding
  <2>4. OfOneGeneration(Pairs(g))
    <3>1. g \in Generation
      BY <1>0
    <3>2. Pairs(g) \in Seq(Said) /\ Len(Pairs(g)) = Len(labels[g])
      BY <1>0, <3>1, PairsType
    <3>3. Pairs(g) = SubSeq(Pairs(g), 1, Len(labels[g])) /\ Len(labels[g]) \in 0..Len(labels[g])
      BY <3>2
    <3>4. g \in IF overtaken THEN Generation ELSE {record.generation}
      BY <2>3, <3>1
    <3> QED BY <3>3, <3>4 DEF OfOneGeneration
  <2> QED BY <1>0, <1>a, <2>1, <2>2, <2>3, <2>4, CallMoves
<1>6. ASSUME NEW a \in Asker, SaveReadiness(a) PROVE Calibrated'
  <2> DEFINE r == [state |-> Derive(asking[a].counted), generation |-> asking[a].generation,
                   count |-> Len(asking[a].counted)]
  <2>1. /\ StoreRecord(r, asking[a].generation)
        /\ \A b \in Asker : b # a => asking'[b] = asking[b]
        /\ asking[a].step = "save" /\ asking'[a].step = "done"
    BY <1>0, <1>6 DEF SaveReadiness, Goes
  <2>2. a \in LabelIds /\ asking'[a].step \notin Holding \cup Recording
    BY <2>1 DEF Calibrated, Recorders, Recording, Holding
  <2>3. r.state = "CALIBRATED" => Sufficient(asking[a].counted)
    BY DeriveEarned
  <2> HIDE DEF r
  <2> QED BY <1>0, <2>1, <2>2, <2>3, StoreMoves
<1>7. ASSUME NEW a \in Asker, SaveReset(a) PROVE Calibrated'
  <2> DEFINE r == Uncalibrated(asking[a].generation + 1)
  <2>1. /\ StoreRecord(r, asking[a].generation) /\ r.state # "CALIBRATED"
        /\ \A b \in Asker : b # a => asking'[b] = asking[b]
        /\ asking'[a].step = "done"
    BY <1>0, <1>7 DEF SaveReset, Goes, Uncalibrated
  <2>2. asking'[a].step \notin Holding \cup Recording
    BY <2>1 DEF Recording, Holding
  <2> HIDE DEF r
  <2> QED BY <1>0, <2>1, <2>2, StoreMoves
<1>8. ASSUME NEW a \in Asker, Lapse(a) PROVE Calibrated'
  <2>1. /\ UNCHANGED <<record, labels, overtaken>>
        /\ \A b \in Asker : b # a => asking'[b] = asking[b]
        /\ asking'[a].step = "ask"
    BY <1>0, <1>8 DEF Lapse, At
  <2>2. asking'[a].step \notin Holding \cup Recording
    BY <2>1 DEF Recording, Holding
  <2> QED BY <1>0, <1>a, <2>1, <2>2, CallMoves DEF Holding
<1>9. CASE UNCHANGED calibrationVars
  <2>1. Recorders' /\ HoldsItsGeneration'
    BY <1>9 DEF calibrationVars, Calibrated, Recorders, HoldsItsGeneration
  <2>2. CountedTogether'
    BY <1>9 DEF calibrationVars, Calibrated, CountedTogether, OfOneGeneration, Pairs
  <2>3. JudgeEarnsItsCalibration'
    BY <1>9 DEF calibrationVars, Calibrated, JudgeEarnsItsCalibration, Earned, SinceReset, Pairs
  <2> QED BY <1>0, <2>1, <2>2, <2>3 DEF Calibrated
<1> QED
  BY <1>1, <1>2, <1>3, <1>4, <1>5, <1>6, <1>7, <1>8, <1>9 DEF CalibrationNext, Said

\* The inductive invariant of calibration (calibration.py): until a reset comes
\* between its reading and its writing, a recording holds and has counted the
\* record's generation, whose labels were all stored since the last reset.
THEOREM CalibrationHolds == CalibrationSpec => []Calibrated
  BY CalibrationStarts, CalibratedStep, PTL DEF CalibrationSpec

\* Types of the record, the labels and the calls: CalibrationTypeOK
\* (calibration.py).
THEOREM CalibrationTypes == CalibrationSpec => []CalibrationTypeOK
<1>1. Calibrated => CalibrationTypeOK
  BY DEF Calibrated
<1> QED BY <1>1, CalibrationHolds, PTL

\* A judge is calibrated only by enough agreeing labels of one generation: its
\* record's own, all given since the last reset, unless a reset came between the
\* reading and the writing of another call (calibration.py:69-77, 110-154,
\* judge.py:243): JudgeEarnsItsCalibration.
THEOREM CalibrationEarned == CalibrationSpec => []JudgeEarnsItsCalibration
<1>1. Calibrated => JudgeEarnsItsCalibration
  BY DEF Calibrated
<1> QED BY <1>1, CalibrationHolds, PTL

-----------------------------------------------------------------------------
(***************************************************************************)
(* Rescoring                                                               *)
(***************************************************************************)
\* The scores that a re-scoring may have found.
AgainScores == {ScoreAgain(m, Stored[c]) : m \in Replacements, c \in StoredCase}

\* What a request that is under way has left to do.
UnderWay == [revision : Revision, metric : Replacements, left : SUBSET StoredCase,
             scores : UNION {[cs -> AgainScores] : cs \in SUBSET StoredCase}, late : BOOLEAN]

\* Types of score revisions and of the requests that write them (rescore.py).
RescoringTypeOK ==
    /\ rows = [v \in Revision |-> rows[v]] /\ totals = [v \in Revision |-> totals[v]]
    /\ rescoring \in [Rescorers -> UnderWay \cup {Resting}]

\* A request that is under way began before its revision was published, and has
\* stored a row of it or has one left to store.
BegunInTime ==
    \A w \in Rescorers : rescoring[w] # Resting =>
        LET r == rescoring[w] IN
        /\ r.revision > 1 /\ ~r.late
        /\ r.left # {} \/ DOMAIN rows[r.revision] # {}

\* A revision that was published by a re-scoring has rows, so it is taken.
PublishedHasRows == \A v \in Revision \ {1} : Ended(v) => DOMAIN rows[v] # {}

\* The inductive invariant.
Rescored == RescoringTypeOK /\ BegunInTime /\ PublishedHasRows

\* A request that rests is not one that is under way.
LEMMA RestingIsNot == Resting \notin UnderWay
<1>1. ASSUME NEW r \in UnderWay PROVE r.revision # Resting.revision
  BY <1>1 DEF UnderWay, Resting, Revision
<1> QED BY <1>1

\* Only the run's own scores are published at first.
LEMMA RescoredInit == RescoringInit => Rescored
<1> SUFFICES ASSUME RescoringInit PROVE Rescored
  OBVIOUS
<1>1. rows = [v \in Revision |-> rows[v]] /\ totals = [v \in Revision |-> totals[v]]
  BY DEF RescoringInit
<1>2. \A v \in Revision \ {1} : totals[v] = NoTotal
  BY DEF RescoringInit
<1> QED BY <1>1, <1>2 DEF RescoringInit, Rescored, RescoringTypeOK, BegunInTime, PublishedHasRows, Ended

\* Requests that are under way after the step were before, or the step began them in time.
LEMMA BeginStep ==
  ASSUME Rescored, NEW w \in Rescorers, NEW m \in Replacements, NEW v \in Revision,
         NEW cs \in SUBSET StoredCase, BeginRescore(w, m, v, cs)
  PROVE  Rescored'
<1> DEFINE selected == IF cs = {} THEN StoredCase ELSE cs
           late == \E u \in Revision : u >= v /\ Ended(u)
           r == [revision |-> v, metric |-> m, left |-> selected,
                 scores |-> [c \in selected |-> ScoreAgain(m, Stored[c])], late |-> late]
<1>1. /\ v > 1 /\ ~Taken(v) /\ UNCHANGED <<rows, totals>>
      /\ rescoring' = [rescoring EXCEPT ![w] = r]
  BY DEF BeginRescore
<1>2. selected \subseteq StoredCase /\ selected # {} /\ late \in BOOLEAN
  BY RescoringAssumption DEF RescoringAssumption
<1>3. ~late
  <2> SUFFICES ASSUME NEW u \in Revision, u >= v, Ended(u) PROVE FALSE
    OBVIOUS
  <2>1. u \in Revision \ {1}
    BY <1>1 DEF Revision
  <2>2. DOMAIN rows[u] # {}
    BY <2>1 DEF Rescored, PublishedHasRows
  <2> QED BY <1>1, <2>2 DEF Taken
<1> HIDE DEF selected, late
<1>4. [c \in selected |-> ScoreAgain(m, Stored[c])]
         \in UNION {[ds -> AgainScores] : ds \in SUBSET StoredCase}
  <2>1. \A c \in selected : ScoreAgain(m, Stored[c]) \in AgainScores
    BY <1>2 DEF AgainScores
  <2>2. [c \in selected |-> ScoreAgain(m, Stored[c])] \in [selected -> AgainScores]
    BY <2>1
  <2> QED BY <1>2, <2>2
<1>5. r \in UnderWay
  BY <1>2, <1>4 DEF UnderWay
<1>6. r.revision = v /\ r.left = selected /\ r.late = late
  OBVIOUS
<1> HIDE DEF r
<1>7. RescoringTypeOK'
  BY <1>1, <1>5 DEF Rescored, RescoringTypeOK
<1>8. BegunInTime'
  <2> SUFFICES ASSUME NEW x \in Rescorers, rescoring'[x] # Resting
               PROVE  /\ rescoring'[x].revision > 1 /\ ~rescoring'[x].late
                      /\ rescoring'[x].left # {} \/ DOMAIN rows'[rescoring'[x].revision] # {}
    BY DEF BegunInTime
  <2>1. CASE x = w
    BY <1>1, <1>2, <1>3, <1>6, <2>1 DEF Rescored, RescoringTypeOK
  <2>2. CASE x # w
    BY <1>1, <2>2 DEF Rescored, RescoringTypeOK, BegunInTime
  <2> QED BY <2>1, <2>2
<1>9. PublishedHasRows'
  BY <1>1 DEF Rescored, PublishedHasRows, Ended
<1> QED BY <1>7, <1>8, <1>9 DEF Rescored

\* A row is stored: the revision has one from then on.
LEMMA StoreScoreStep ==
  ASSUME Rescored, NEW w \in Rescorers, StoreScore(w)
  PROVE  Rescored'
<1> DEFINE r == rescoring[w]
           c == Min(r.left)
<1>1. /\ r # Resting /\ r.left # {} /\ UNCHANGED totals
      /\ rows' = [rows EXCEPT ![r.revision] = WithEntry(@, c, r.scores[c])]
      /\ rescoring' = [rescoring EXCEPT ![w].left = @ \ {c}]
  BY DEF StoreScore
<1>2. r \in UnderWay /\ r.revision \in Revision /\ r.left \in SUBSET StoredCase
  BY <1>1 DEF Rescored, RescoringTypeOK, UnderWay
<1> DEFINE k == r.revision
<1>3. /\ rescoring' \in [Rescorers -> UnderWay \cup {Resting}]
      /\ \A x \in Rescorers \ {w} : rescoring'[x] = rescoring[x]
      /\ rescoring'[w].revision = k /\ rescoring'[w].late = r.late
  <2>1. [r EXCEPT !.left = @ \ {c}] \in UnderWay
    BY <1>2 DEF UnderWay
  <2> QED BY <1>1, <1>2, <2>1 DEF Rescored, RescoringTypeOK, UnderWay
<1>4. /\ rows' = [v \in Revision |-> rows'[v]]
      /\ \A v \in Revision \ {k} : rows'[v] = rows[v]
      /\ DOMAIN rows'[k] # {}
  <2>1. \A f : DOMAIN WithEntry(f, c, r.scores[c]) # {}
    BY DEF WithEntry
  <2> HIDE DEF c
  <2>2. rows = [v \in Revision |-> rows[v]]
    BY DEF Rescored, RescoringTypeOK
  <2> QED BY <1>1, <1>2, <2>1, <2>2
<1>5. k > 1 /\ ~r.late
  BY <1>1 DEF Rescored, BegunInTime
<1> HIDE DEF r, k, c
<1>6. RescoringTypeOK'
  BY <1>1, <1>3, <1>4 DEF Rescored, RescoringTypeOK
<1>7. BegunInTime'
  <2> SUFFICES ASSUME NEW x \in Rescorers, rescoring'[x] # Resting
               PROVE  /\ rescoring'[x].revision > 1 /\ ~rescoring'[x].late
                      /\ rescoring'[x].left # {} \/ DOMAIN rows'[rescoring'[x].revision] # {}
    BY DEF BegunInTime
  <2>1. CASE x = w
    BY <1>3, <1>4, <1>5, <2>1
  <2>2. CASE x # w
    <3>1. rescoring'[x] = rescoring[x] /\ rescoring[x] \in UnderWay
      BY <1>3, <2>2 DEF Rescored, RescoringTypeOK
    <3>2. rescoring[x].revision \in Revision
      BY <3>1 DEF UnderWay
    <3> QED BY <1>4, <3>1, <3>2 DEF Rescored, BegunInTime
  <2> QED BY <2>1, <2>2
<1>8. PublishedHasRows'
  <2> SUFFICES ASSUME NEW v \in Revision \ {1}, totals'[v] # NoTotal PROVE DOMAIN rows'[v] # {}
    BY DEF PublishedHasRows, Ended
  <2> QED BY <1>1, <1>4 DEF Rescored, PublishedHasRows, Ended
<1> QED BY <1>6, <1>7, <1>8 DEF Rescored

\* The aggregate is stored when every row is, or the request dies.
LEMMA EndOfRequest ==
  ASSUME Rescored, NEW w \in Rescorers, StoreTotal(w) \/ RescorerDies(w)
  PROVE  Rescored'
<1> DEFINE r == rescoring[w]
<1>1. /\ r # Resting /\ rows' = rows
      /\ rescoring' = [rescoring EXCEPT ![w] = Resting]
      /\ \/ r.left = {} /\ totals' = [totals EXCEPT ![r.revision] = TotalOf(r.metric, r.scores)]
         \/ totals' = totals
  BY DEF StoreTotal, RescorerDies
<1>2. r.left # {} \/ DOMAIN rows[r.revision] # {}
  BY <1>1 DEF Rescored, BegunInTime
<1> HIDE DEF r
<1>3. RescoringTypeOK' /\ BegunInTime'
  <2>1. rescoring' \in [Rescorers -> UnderWay \cup {Resting}]
    BY <1>1 DEF Rescored, RescoringTypeOK
  <2>2. totals' = [v \in Revision |-> totals'[v]]
    BY <1>1 DEF Rescored, RescoringTypeOK
  <2>3. \A x \in Rescorers : rescoring'[x] # Resting => rescoring'[x] = rescoring[x]
    BY <1>1 DEF Rescored, RescoringTypeOK
  <2> QED BY <1>1, <2>1, <2>2, <2>3 DEF Rescored, RescoringTypeOK, BegunInTime
<1>4. PublishedHasRows'
  BY <1>1, <1>2 DEF Rescored, RescoringTypeOK, PublishedHasRows, Ended
<1> QED BY <1>3, <1>4 DEF Rescored

\* Overrides leave revisions and requests alone (api.py:1041-1046).
LEMMA RescoredStep == Rescored /\ [RescoringNext]_rescoringVars => Rescored'
<1> SUFFICES ASSUME Rescored, [RescoringNext]_rescoringVars PROVE Rescored'
  OBVIOUS
<1>1. ASSUME NEW w \in Rescorers, NEW m \in Replacements, NEW v \in Revision,
             NEW cs \in SUBSET StoredCase, BeginRescore(w, m, v, cs)
      PROVE  Rescored'
  BY <1>1, BeginStep
<1>2. ASSUME NEW w \in Rescorers, StoreScore(w) PROVE Rescored'
  BY <1>2, StoreScoreStep
<1>3. ASSUME NEW w \in Rescorers, StoreTotal(w) \/ RescorerDies(w) PROVE Rescored'
  BY <1>3, EndOfRequest
<1>4. ASSUME UNCHANGED <<rows, totals, rescoring>> PROVE Rescored'
  BY <1>4 DEF Rescored, RescoringTypeOK, BegunInTime, PublishedHasRows, Ended
<1>5. ASSUME NEW c \in StoredCase, NEW v \in Revision, BeginOverride(c, v) PROVE Rescored'
  BY <1>4, <1>5 DEF BeginOverride
<1>6. ASSUME NEW valued \in BOOLEAN, AppendOverride(valued) PROVE Rescored'
  BY <1>4, <1>6 DEF AppendOverride
<1>7. CASE UNCHANGED rescoringVars
  BY <1>4, <1>7 DEF rescoringVars
<1> QED BY <1>1, <1>2, <1>3, <1>5, <1>6, <1>7 DEF RescoringNext

\* Types of score revisions and requests, every published revision has rows, and
\* a request under way found the revision it writes unpublished (rescore.py:59-66).
THEOREM RescoringHolds == RescoringSpec => []Rescored
  BY RescoredInit, RescoredStep, PTL DEF RescoringSpec

\* A step that changes a published revision stores for a request begun in time.
LEMMA PublishedStays ==
  ASSUME Rescored, [RescoringNext]_rescoringVars, NEW v \in Revision,
         \E u \in Revision : u >= v /\ Ended(u),
         <<rows[v], totals[v]>>' # <<rows[v], totals[v]>>
  PROVE  \E w \in Rescorers : rescoring[w].revision = v /\ ~rescoring[w].late
<1>1. PICK w \in Rescorers : StoreScore(w) \/ StoreTotal(w)
  BY DEF RescoringNext, rescoringVars, BeginRescore, RescorerDies, BeginOverride, AppendOverride
<1>2. rescoring[w] # Resting /\ ~rescoring[w].late
  BY <1>1 DEF StoreScore, StoreTotal, Rescored, BegunInTime
<1>3. rescoring[w].revision \in Revision
  BY <1>2 DEF Rescored, RescoringTypeOK, UnderWay
<1>4. \A k \in Revision \ {rescoring[w].revision} : rows'[k] = rows[k] /\ totals'[k] = totals[k]
  BY <1>1, <1>3 DEF StoreScore, StoreTotal, Rescored, RescoringTypeOK
<1> QED BY <1>2, <1>3, <1>4

\* The run's own scores and a published revision are never written over, whatever
\* requests run beside each other or die (rescore.py:59-66, api.py:1041-1046).
THEOREM RescoringOldRevisionsStay == RescoringSpec => OldRevisionsStay
<1>1. Rescored /\ [RescoringNext]_rescoringVars =>
        [\A v \in Revision :
           (\E u \in Revision : u >= v /\ Ended(u)) /\ <<rows[v], totals[v]>>' # <<rows[v], totals[v]>> =>
              \E w \in Rescorers : rescoring[w].revision = v /\ ~rescoring[w].late]_rescoringVars
  BY PublishedStays
<1> QED BY <1>1, RescoringHolds, PTL DEF RescoringSpec, OldRevisionsStay
=============================================================================
