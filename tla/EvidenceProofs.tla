--------------------------- MODULE EvidenceProofs ---------------------------
(***************************************************************************)
(* Theorems about evidence: Artifacts, for any artifacts, versions and     *)
(* crashes (a committed row has its file, what is referenced exists, also  *)
(* restored), Capture, for a trace of any length, any clock and any caps   *)
(* (keys follow emission, evidence is whole), and TraceRules, for any      *)
(* events that are recorded (their order is decided, and with it every     *)
(* verdict).                                                               *)
(***************************************************************************)
EXTENDS Artifacts, Capture, TraceRules, FiniteSetTheorems, WellFoundedInduction, TLAPS

PutAt == {"new", "staged", "renamed", "ready", "cleanup", "lost", "unknown", "failed"}
RemovalAt == {"idle", "checked", "kept", "deleted", "unlink", "gone"}
CreateAt == {"new", "checked", "referenced", "refused", "created"}
ArchiveAt == {"none", "dumped", "copying", "sealed", "database", "restored", "failed"}

\* The types of the variables.
Typed ==
    /\ file \in [Artifact -> {"none", "stage", "final"}]
    /\ row \subseteq Artifact /\ refs \subseteq Version \X Artifact
    /\ lock \in Artifact \cup {"recover", Free}
    /\ put \in [Artifact -> PutAt]
    /\ remove \in [Artifact -> RemovalAt]
    /\ create \in [Version -> [at : CreateAt, uses : SUBSET Artifact]]
    /\ sweep \in [at : {"idle", "sweeping"}, committed : SUBSET Artifact]
    /\ archive \in [at : ArchiveAt, refs : SUBSET (Version \X Artifact),
                    todo : SUBSET Artifact, files : SUBSET Artifact]

\* Who is inside holds the lock, so that no row is added under a sweep.
Locked ==
    /\ \A a \in Artifact : put[a] \in {"staged", "renamed"} => lock = a
    /\ sweep.at = "sweeping" => lock = "recover" /\ row \subseteq sweep.committed

\* A row comes from a put that renamed its file, and its file stays.
PutBehindRow ==
    \A a \in Artifact :
        /\ a \in row => put[a] \in {"ready", "lost", "unknown"}
        /\ put[a] = "renamed" => file[a] = "final"
        /\ a \in row => file[a] = "final" \/ put[a] = "unknown"
        /\ put[a] = "new" => file[a] = "none"

\* An uncommitted deletion and a reference exclude each other, and the file
\* goes after the row.
RemovedBehindRow ==
    \A a \in Artifact :
        /\ remove[a] # "idle" => put[a] \in {"ready", "unknown"}
        /\ remove[a] = "deleted" => ~Referenced(a) /\ Referencing(a) = {}
        /\ remove[a] \in {"unlink", "gone"} => a \notin row

\* References, committed and not, are to rows.
RowsReferenced ==
    /\ \A v \in Version, a \in Artifact : <<v, a>> \in refs => a \in row
    /\ \A v \in Version : create[v].at = "checked" => \E a \in Artifact : create[v].uses = {a}
    /\ \A v \in Version : create[v].at = "referenced" => \E a \in row : create[v].uses = {a}

\* The archive references no more than was committed when its rows were
\* listed, each with its file or still to be copied.
ArchiveWhole ==
    /\ archive.refs \subseteq refs
    /\ archive.at \in {"copying", "sealed", "database", "restored"} =>
           \A v \in Version, a \in Artifact :
               <<v, a>> \in archive.refs => a \in archive.todo \cup archive.files
    /\ archive.at \in {"sealed", "database", "restored"} => archive.todo = {}

\* The inductive invariant.
Durable == Typed /\ Locked /\ PutBehindRow /\ RemovedBehindRow /\ RowsReferenced /\ ArchiveWhole

\* There are no artifacts.
LEMMA DurableInit == ArtifactsInit => Durable
<1> SUFFICES ASSUME ArtifactsInit PROVE Durable
  OBVIOUS
<1>1. Typed
  BY DEF ArtifactsInit, Typed, PutAt, RemovalAt, CreateAt, ArchiveAt
<1> QED
  BY <1>1 DEF ArtifactsInit, Durable, Locked, PutBehindRow, RemovedBehindRow, RowsReferenced, ArchiveWhole

\* Steps of one put.
LEMMA PutStep ==
  ASSUME Durable, NEW a \in Artifact,
         \/ Stage(a) \/ Rename(a) \/ CommitPut(a) \/ FailPut(a) \/ LoseAcknowledgment(a)
         \/ CleanUp(a) \/ CrashPut(a)
  PROVE  Durable'
<1> Typed /\ Free \notin Artifact
  BY ArtifactsAssumption DEF Durable
<1> USE DEF Stage, Rename, CommitPut, FailPut, LoseAcknowledgment, CleanUp, CrashPut, FileTo, PutTo
<1>1. Typed'
  BY DEF Typed, PutAt
<1>2. /\ \A x \in Artifact \ {a} : put'[x] = put[x] /\ file'[x] = file[x]
      /\ UNCHANGED <<refs, remove, create, sweep, archive>>
      /\ row \subseteq row' /\ row' \subseteq row \cup {a}
  BY DEF Typed
<1>3. Locked'
  BY <1>2, ArtifactsAssumption DEF Durable, Locked, LockFree, Typed
<1>4. PutBehindRow'
  BY <1>2 DEF Durable, PutBehindRow, Typed
<1>5. remove[a] = "idle"
  BY DEF Durable, RemovedBehindRow
<1>6. RemovedBehindRow'
  BY <1>2, <1>5 DEF Durable, RemovedBehindRow, Referenced, Referencing
<1>7. RowsReferenced'
  BY <1>2 DEF Durable, RowsReferenced
<1>8. ArchiveWhole'
  BY <1>2 DEF Durable, ArchiveWhole
<1> QED
  BY <1>1, <1>3, <1>4, <1>6, <1>7, <1>8 DEF Durable

\* Steps of recover.
LEMMA RecoverStep ==
  ASSUME Durable, ListRows \/ EndRecover \/ \E a \in Artifact : Unlink(a)
  PROVE  Durable'
<1> Typed
  BY DEF Durable
<1>1. UNCHANGED <<row, refs, put, remove, create, archive>>
  BY DEF ListRows, EndRecover, Unlink
<1>2. Typed'
  BY <1>1 DEF ListRows, EndRecover, Unlink, FileTo, Typed
<1>3. Locked'
  BY <1>1, ArtifactsAssumption DEF Durable, Locked, LockFree, ListRows, EndRecover, Unlink
<1>4. PutBehindRow'
  <2>1. CASE ListRows \/ EndRecover
    BY <1>1, <2>1 DEF ListRows, EndRecover, Durable, PutBehindRow
  <2>2. ASSUME NEW a \in Artifact, Unlink(a) PROVE PutBehindRow'
    <3>1. a \notin row /\ put[a] \notin {"staged", "renamed"} /\ file'[a] = "none"
      BY <2>2, ArtifactsAssumption DEF Unlink, FileTo, Durable, Locked, Typed
    <3>2. \A x \in Artifact \ {a} : file'[x] = file[x]
      BY <2>2 DEF Unlink, FileTo, Typed
    <3> QED BY <1>1, <3>1, <3>2 DEF Durable, PutBehindRow
  <2> QED BY <2>1, <2>2
<1>5. RemovedBehindRow' /\ RowsReferenced' /\ ArchiveWhole'
  BY <1>1 DEF Durable, RemovedBehindRow, RowsReferenced, ArchiveWhole, Referenced, Referencing
<1> QED
  BY <1>2, <1>3, <1>4, <1>5 DEF Durable

\* Steps of one version's creation: the foreign key is checked while no
\* deletion is in the way.
LEMMA CreateStep ==
  ASSUME Durable, NEW v \in Version,
         \/ CommitVersion(v) \/ AbortVersion(v)
         \/ \E a \in Artifact : CheckReady(v, a) \/ InsertReference(v, a)
  PROVE  Durable'
<1> Typed
  BY DEF Durable
<1>1. UNCHANGED <<file, row, lock, put, remove, sweep, archive>>
  BY DEF CommitVersion, AbortVersion, CheckReady, InsertReference
<1>2. CASE \E a \in Artifact : CheckReady(v, a) \/ InsertReference(v, a)
  <2>1. PICK a \in Artifact : CheckReady(v, a) \/ InsertReference(v, a)
    BY <1>2
  <2>2. UNCHANGED refs
    BY <2>1 DEF CheckReady, InsertReference
  <2>3. /\ create' \in [Version -> [at : CreateAt, uses : SUBSET Artifact]]
        /\ \A w \in Version \ {v} : create'[w] = create[w]
        /\ \/ create'[v].at = "checked" /\ create'[v].uses = {a}
           \/ create'[v].at = "referenced" /\ create'[v].uses = {a} /\ a \in row /\ ~Deleting(a)
           \/ create'[v].at = "refused"
    BY <2>1 DEF CheckReady, InsertReference, KeyHolds, Typed, CreateAt
  <2>4. Typed'
    BY <1>1, <2>2, <2>3 DEF Typed
  <2>5. RowsReferenced'
    BY <1>1, <2>2, <2>3 DEF Durable, RowsReferenced
  <2>6. RemovedBehindRow'
    <3>1. \A b \in Artifact : Referenced(b)' <=> Referenced(b)
      BY <2>2 DEF Referenced
    <3>2. \A b \in Artifact : Deleting(b) => Referencing(b) = {}
      BY DEF Durable, RemovedBehindRow, Deleting
    <3>3. \A b \in Artifact, w \in Version :
             Deleting(b) => ~(create'[w].at = "referenced" /\ create'[w].uses = {b})
      BY <2>3, <3>2 DEF Referencing
    <3>4. \A b \in Artifact : Deleting(b) => Referencing(b)' = {}
      BY <3>3 DEF Referencing
    <3> QED BY <1>1, <3>1, <3>4 DEF Durable, RemovedBehindRow, Deleting
  <2> QED
    BY <1>1, <2>2, <2>4, <2>5, <2>6 DEF Durable, Locked, PutBehindRow, ArchiveWhole
<1>3. CASE CommitVersion(v)
  <2>1. PICK a \in row : create[v].uses = {a} /\ create[v].at = "referenced"
    BY <1>3 DEF CommitVersion, Durable, RowsReferenced
  <2>2. refs' = refs \cup {<<v, a>>}
    BY <1>3, <2>1 DEF CommitVersion
  <2>3. /\ create' \in [Version -> [at : CreateAt, uses : SUBSET Artifact]]
        /\ \A w \in Version \ {v} : create'[w] = create[w]
        /\ create'[v].at = "created"
    BY <1>3 DEF CommitVersion, Typed, CreateAt
  <2>4. Typed'
    BY <1>1, <2>1, <2>2, <2>3 DEF Typed
  <2>5. RowsReferenced'
    BY <1>1, <2>1, <2>2, <2>3 DEF Durable, RowsReferenced
  <2>6. remove[a] # "deleted"
    BY <2>1 DEF Durable, RemovedBehindRow, Referencing, Typed
  <2>7. RemovedBehindRow'
    <3>1. \A x \in Artifact : Referencing(x)' \subseteq Referencing(x)
      BY <2>3 DEF Referencing
    <3>2. \A x \in Artifact : Referenced(x)' => Referenced(x) \/ x = a
      BY <2>2 DEF Referenced
    <3> QED
      BY <1>1, <2>6, <3>1, <3>2 DEF Durable, RemovedBehindRow
  <2>8. ArchiveWhole'
    BY <1>1, <2>2 DEF Durable, ArchiveWhole
  <2> QED
    BY <1>1, <2>4, <2>5, <2>7, <2>8 DEF Durable, Locked, PutBehindRow
<1>4. CASE AbortVersion(v)
  <2>1. /\ create' \in [Version -> [at : CreateAt, uses : SUBSET Artifact]]
        /\ \A w \in Version \ {v} : create'[w] = create[w]
        /\ create'[v].at = "refused" /\ refs' = refs
    BY <1>4 DEF AbortVersion, Typed, CreateAt
  <2>2. Typed'
    BY <1>1, <2>1 DEF Typed
  <2>3. RowsReferenced'
    BY <1>1, <2>1 DEF Durable, RowsReferenced
  <2>4. RemovedBehindRow'
    <3>1. \A x \in Artifact : Referencing(x)' \subseteq Referencing(x)
      BY <2>1 DEF Referencing
    <3>2. \A x \in Artifact : Referenced(x)' <=> Referenced(x)
      BY <2>1 DEF Referenced
    <3> QED
      BY <1>1, <3>1, <3>2 DEF Durable, RemovedBehindRow
  <2> QED
    BY <1>1, <2>1, <2>2, <2>3, <2>4 DEF Durable, Locked, PutBehindRow, ArchiveWhole
<1> QED
  BY <1>2, <1>3, <1>4

\* Steps of one deletion: the row goes only unreferenced, the file after it.
LEMMA RemoveStep ==
  ASSUME Durable, NEW a \in Artifact,
         \/ CheckReferences(a) \/ DeleteRow(a) \/ CommitDelete(a) \/ UnlinkDeleted(a) \/ CrashDelete(a)
  PROVE  Durable'
<1> Typed
  BY DEF Durable
<1> USE DEF CheckReferences, DeleteRow, CommitDelete, UnlinkDeleted, CrashDelete, RemoveTo, FileTo
<1>1. Typed'
  BY DEF Typed, RemovalAt
<1>2. /\ UNCHANGED <<refs, lock, put, create, sweep, archive>>
      /\ \A x \in Artifact \ {a} : remove'[x] = remove[x] /\ file'[x] = file[x]
      /\ row' = row \/ (remove[a] = "deleted" /\ row' = row \ {a})
      /\ file' = file \/ (remove[a] = "unlink" /\ file'[a] = "none")
      /\ put[a] \in {"ready", "unknown"}
  BY DEF Typed, Durable, RemovedBehindRow
<1>3. remove[a] = "deleted" => ~Referenced(a) /\ Referencing(a) = {}
  BY DEF Durable, RemovedBehindRow
<1>4. Locked'
  BY <1>2 DEF Durable, Locked
<1>5. PutBehindRow'
  BY <1>2 DEF Durable, PutBehindRow, RemovedBehindRow
<1>6. RemovedBehindRow'
  <2>1. \A x \in Artifact : (Referencing(x)' = Referencing(x)) /\ (Referenced(x)' <=> Referenced(x))
    BY <1>2 DEF Referencing, Referenced
  <2>2. \A x \in Artifact \ {a} : (remove[x] \in {"unlink", "gone"} => x \notin row')
                                  /\ remove'[x] = remove[x]
    BY <1>2 DEF Durable, RemovedBehindRow
  <2>3. /\ remove'[a] = "deleted" => ~Referenced(a) /\ Referencing(a) = {}
        /\ remove'[a] \in {"unlink", "gone"} => a \notin row'
    BY DEF Durable, RemovedBehindRow, Typed
  <2> HIDE DEF CheckReferences, DeleteRow, CommitDelete, UnlinkDeleted, CrashDelete
  <2> QED
    BY <1>2, <2>1, <2>2, <2>3 DEF Durable, RemovedBehindRow
<1>7. RowsReferenced'
  BY <1>2, <1>3 DEF Durable, RowsReferenced, Referenced, Referencing
<1>8. ArchiveWhole'
  BY <1>2 DEF Durable, ArchiveWhole
<1> QED
  BY <1>1, <1>4, <1>5, <1>6, <1>7, <1>8 DEF Durable

\* Steps of the backup and the restore.
LEMMA ArchiveStep ==
  ASSUME Durable,
         \/ DumpDatabase \/ ListArtifacts \/ SealArchive \/ RestoreDatabase \/ RestoreArtifacts
         \/ SpoilArchive \/ \E a \in Artifact : CopyArtifact(a)
  PROVE  Durable'
<1> Typed
  BY DEF Durable
<1> USE DEF OnlyArchive, ArchiveTo, SpoiledArchive
<1>1. UNCHANGED <<file, row, refs, lock, put, remove, create, sweep>>
  BY DEF DumpDatabase, ListArtifacts, SealArchive, RestoreDatabase, RestoreArtifacts, SpoilArchive,
     CopyArtifact
<1> DEFINE Archives == [at : ArchiveAt, refs : SUBSET (Version \X Artifact),
                        todo : SUBSET Artifact, files : SUBSET Artifact]
<1>2. archive' \in Archives /\ ArchiveWhole'
  <2>1. CASE DumpDatabase
    BY <1>1, <2>1 DEF DumpDatabase, Durable, ArchiveWhole, Typed, ArchiveAt
  <2>2. CASE ListArtifacts
    BY <1>1, <2>2 DEF ListArtifacts, Durable, ArchiveWhole, RowsReferenced, Typed, ArchiveAt
  <2>3. CASE SealArchive \/ RestoreDatabase \/ RestoreArtifacts
    BY <1>1, <2>3 DEF SealArchive, RestoreDatabase, RestoreArtifacts, Durable, ArchiveWhole, Typed, ArchiveAt
  <2>4. CASE SpoilArchive
    BY <1>1, <2>4 DEF SpoilArchive, Durable, ArchiveWhole, Typed, ArchiveAt
  <2>5. ASSUME NEW a \in Artifact, CopyArtifact(a) PROVE archive' \in Archives /\ ArchiveWhole'
    BY <1>1, <2>5 DEF CopyArtifact, Durable, ArchiveWhole, Typed, ArchiveAt
  <2> HIDE DEF Archives
  <2> QED BY <2>1, <2>2, <2>3, <2>4, <2>5
<1>3. Typed'
  BY <1>1, <1>2 DEF Typed
<1> QED
  BY <1>1, <1>2, <1>3 DEF Durable, Locked, PutBehindRow, RemovedBehindRow, RowsReferenced,
     Referenced, Referencing

\* Every step of a put, a deletion, a creation, a sweep and a backup keeps it.
LEMMA DurableStep == Durable /\ [ArtifactsNext]_artifactsVars => Durable'
<1> SUFFICES ASSUME Durable, [ArtifactsNext]_artifactsVars PROVE Durable'
  OBVIOUS
<1>1. CASE UNCHANGED artifactsVars
  BY <1>1 DEF artifactsVars, Durable, Typed, Locked, PutBehindRow, RemovedBehindRow, RowsReferenced,
     ArchiveWhole, Referenced, Referencing
<1>2. CASE ArtifactsNext
  BY <1>2, PutStep, RecoverStep, CreateStep, RemoveStep, ArchiveStep DEF ArtifactsNext
<1> QED
  BY <1>1, <1>2

\* The inductive invariant: rows come from puts that renamed their file, and
\* a reference, also uncommitted, keeps its row (artifacts.py, operations.py).
THEOREM ArtifactsDurable == ArtifactsSpec => []Durable
  BY DurableInit, DurableStep, PTL DEF ArtifactsSpec

\* ArtifactsTypeOK, the order of puts and the holder of the lock (ArtifactStore.put).
THEOREM ArtifactsTypes == ArtifactsSpec => []ArtifactsTypeOK
<1>1. Durable => ArtifactsTypeOK
  BY DEF Durable, Typed, Locked, PutBehindRow, RemovedBehindRow, ArtifactsTypeOK
<1> QED
  BY <1>1, ArtifactsDurable, PTL

\* CommittedHasFile: a committed artifact keeps its file (ArtifactStore,
\* recover), but for a put whose commit was not acknowledged.
THEOREM CommittedHasFileAlways == ArtifactsSpec => []CommittedHasFile
<1>1. Durable => CommittedHasFile
  BY DEF Durable, Typed, PutBehindRow, CommittedHasFile
<1> QED
  BY <1>1, ArtifactsDurable, PTL

\* ReferencedExists: whatever a version references exists, and is in the
\* restored backup (delete_unreferenced, backup_workspace).
THEOREM ReferencedExistsAlways == ArtifactsSpec => []ReferencedExists
<1>1. Durable => ReferencedExists
  BY DEF Durable, RowsReferenced, ArchiveWhole, ReferencedExists
<1> QED
  BY <1>1, ArtifactsDurable, PTL

-----------------------------------------------------------------------------
USE CaptureAssumption

\* A line of the trace.
TraceLine == [text : {"event", "foreign", "unmarked", "torn", "garbled"}, ts : Int,
              seq : Nat, large : BOOLEAN]

\* An event of the evidence, the agent's or the proxy's.
KeptLine == [text : {"event", "foreign", "unmarked", "wire"}, ts : Int, seq : Nat,
             large : BOOLEAN]

\* Types of the capture, the trace file, the proxy's records and the evidence
\* (capture.py, runner.py).
CaptureTypeOK ==
    /\ target \in {"command", "local"}
    /\ wall \in 0..MaxClock
    /\ capture \in [entry : Int, elapsed : Int, seq : Nat]
    /\ traceFile \in Seq(TraceLine)
    /\ wire \in Seq(0..MaxClock)
    /\ outcome \in {"running", "completed", "errored", "timed_out", "cancelled", "raised"}
    /\ kept \in Seq(KeptLine)

\* A large line stands between i and the line before j.
HiddenBetween(lines, i, j) == \E k \in i..(j - 1) : lines[k].large

\* What excuses an event j whose key is not above that of i: in a trace a large line
\* between them, in rebound events a clock that was set back.
Excused(lines, i, j) ==
    IF target = "command" THEN HiddenBetween(lines, i, j) ELSE lines[j].ts < lines[i].ts

\* The keys of the lines ascend but where a large line hides the clock.
Ascending(lines) ==
    \A i, j \in DOMAIN lines : i < j /\ ~HiddenBetween(lines, i, j) => KeyLess(lines[i], lines[j])

\* The open context is past the time of every line, but behind a large one.
PastAll ==
    capture # NoCapture =>
        \A i \in DOMAIN traceFile :
           HiddenBetween(traceFile, i, Len(traceFile) + 1)
              \/ traceFile[i].ts <= capture.entry + capture.elapsed

\* The inductive invariant: a trace that can be read at all is in order.
Traced ==
    /\ CaptureTypeOK
    /\ outcome = "running" => kept = <<>>
    /\ target = "command" => wire = <<>>
    /\ TraceReadable(traceFile) => Ascending(traceFile) /\ PastAll
    /\ KeysFollowEmission
    /\ EvidenceIsWhole

\* Nothing is written or kept at the start.
LEMMA TracedInit == CaptureInit => Traced
<1> SUFFICES ASSUME CaptureInit PROVE Traced
  OBVIOUS
<1>1. CaptureTypeOK
  BY DEF CaptureInit, CaptureTypeOK, NoCapture
<1>2. Ascending(traceFile) /\ PastAll
  BY DEF CaptureInit, Ascending, PastAll
<1>3. KeysFollowEmission /\ EvidenceIsWhole
  BY DEF CaptureInit, KeysFollowEmission, EvidenceIsWhole, AgentPlaces
<1> QED BY <1>1, <1>2, <1>3 DEF CaptureInit, Traced

\* While the attempt runs nothing was ingested, and the properties hold.
LEMMA NothingIngested ==
  ASSUME outcome' = "running", kept' = <<>>
  PROVE  KeysFollowEmission' /\ EvidenceIsWhole'
  BY DEF KeysFollowEmission, EvidenceIsWhole, AgentPlaces

\* A line that follows lines that can be read is appended as it is.
LEMMA AppendedReadable ==
  ASSUME NEW lines \in Seq(TraceLine), NEW line \in TraceLine
  PROVE  /\ Appended(lines, line) \in Seq(TraceLine)
         /\ TraceReadable(Appended(lines, line)) =>
              /\ TraceReadable(lines) /\ Readable(line)
              /\ Appended(lines, line) = Append(lines, line)
<1>0. Len(lines) \in Nat /\ DOMAIN lines = 1..Len(lines) /\ Garbled \in TraceLine
  BY DEF Garbled, Line, TraceLine
<1>1. CASE lines # <<>> /\ Last(lines) = Torn
  <2>1. Appended(lines, line) = Append(Front(lines), Garbled)
    BY <1>1 DEF Appended
  <2>2. Front(lines) \in Seq(TraceLine) /\ Len(Front(lines)) = Len(lines) - 1
    BY <1>0, <1>1 DEF Front
  <2>3. /\ Append(Front(lines), Garbled) \in Seq(TraceLine)
        /\ Len(lines) \in DOMAIN Append(Front(lines), Garbled)
        /\ Append(Front(lines), Garbled)[Len(lines)] = Garbled
    BY <1>0, <1>1, <2>2
  <2>4. ~Readable(Garbled)
    BY DEF Readable, Garbled, Line
  <2>5. ~TraceReadable(Appended(lines, line))
    BY <2>1, <2>3, <2>4 DEF TraceReadable
  <2> QED BY <2>1, <2>3, <2>5
<1>2. CASE ~(lines # <<>> /\ Last(lines) = Torn)
  <2>1. Appended(lines, line) = Append(lines, line)
    BY <1>2 DEF Appended
  <2>2. /\ Append(lines, line) \in Seq(TraceLine)
        /\ DOMAIN Append(lines, line) = 1..(Len(lines) + 1)
        /\ Append(lines, line)[Len(lines) + 1] = line
        /\ \A i \in 1..Len(lines) : Append(lines, line)[i] = lines[i]
    BY <1>0
  <2>3. TraceReadable(Append(lines, line)) => TraceReadable(lines) /\ Readable(line)
    BY <1>0, <2>2 DEF TraceReadable
  <2> QED BY <2>1, <2>2, <2>3
<1> QED BY <1>1, <1>2

\* The last stamp is at or past every line that no large one hides.
LEMMA LastStampPast ==
  ASSUME NEW lines \in Seq(TraceLine), TraceReadable(lines), Ascending(lines),
         NEW i \in DOMAIN lines, ~HiddenBetween(lines, i, Len(lines) + 1)
  PROVE  LastStamp(lines) \in Int /\ lines[i].ts <= LastStamp(lines)
<1> DEFINE n == Len(lines)
           tail == {k \in DOMAIN lines : \A j \in k..Len(lines) : ~lines[j].large}
           read == {k \in tail : Readable(lines[k])}
<1>0. /\ n \in Nat /\ DOMAIN lines = 1..n /\ i \in 1..n
      /\ lines[i] \in TraceLine /\ lines[n] \in TraceLine
  OBVIOUS
<1>1. \A k \in i..n : ~lines[k].large
  BY <1>0 DEF HiddenBetween
<1>2. n \in read /\ \A k \in read : k \in Nat /\ k <= n
  BY <1>0, <1>1 DEF TraceReadable
<1>3. Max(read) = n
  BY <1>0, <1>2 DEF Max
<1>4. LastStamp(lines) = lines[n].ts
  BY <1>2, <1>3 DEF LastStamp
<1>5. lines[i].ts \in Int /\ lines[n].ts \in Int
  BY <1>0 DEF TraceLine
<1>6. i < n => KeyLess(lines[i], lines[n])
  BY <1>0, <1>1 DEF Ascending, HiddenBetween
<1>7. lines[i].ts <= lines[n].ts
  BY <1>0, <1>5, <1>6 DEF KeyLess
<1> QED BY <1>4, <1>5, <1>7

-----------------------------------------------------------------------------
\* A sequence joined to another.
LEMMA Joined ==
  ASSUME NEW T, NEW s \in Seq(T), NEW t \in Seq(T)
  PROVE  /\ s \o t \in Seq(T) /\ Len(s \o t) = Len(s) + Len(t)
         /\ \A i \in 1..Len(s) : (s \o t)[i] = s[i]
         /\ \A i \in (Len(s) + 1)..Len(s \o t) : (s \o t)[i] = t[i - Len(s)]
  OBVIOUS

\* What an attempt that ends has as evidence: the agent's events, all or none of
\* them and in order, then the proxy's.
LEMMA EvidenceOf ==
  ASSUME Traced, NEW status, status = "completed" => TraceReadable(traceFile), NEW stamps,
         target = "local" /\ status = "completed" => stamps \in [DOMAIN traceFile -> 0..MaxClock]
  PROVE  LET agents == AgentEvents(status, stamps)
             events == Evidence(status, stamps)
         IN /\ events \in Seq(KeptLine) /\ Len(agents) \in Nat
            /\ Len(agents) = IF status = "completed" THEN Len(traceFile) ELSE 0
            /\ Len(events) = Len(agents) + Len(wire)
            /\ \A i \in 1..Len(agents) : events[i].text \in {"event", "foreign", "unmarked"}
            /\ \A i \in 1..Len(agents) :
                  /\ events[i].large = traceFile[i].large
                  /\ target = "command" => events[i] = traceFile[i]
            /\ \A i \in (Len(agents) + 1)..Len(events) : events[i].text = "wire"
            /\ \A i, j \in 1..Len(agents) :
                  i < j /\ ~Excused(events, i, j) => KeyLess(events[i], events[j])
            /\ ~Acceptable(events) => wire = <<>>
<1> DEFINE agents == AgentEvents(status, stamps)
           proxies == ProxyEvents(Len(agents))
           events == Evidence(status, stamps)
<1>0. /\ traceFile \in Seq(TraceLine) /\ Len(traceFile) \in Nat
      /\ DOMAIN traceFile = 1..Len(traceFile)
      /\ \A i \in 1..Len(traceFile) : traceFile[i] \in TraceLine
      /\ wire \in Seq(0..MaxClock) /\ Len(wire) \in Nat /\ DOMAIN wire = 1..Len(wire)
      /\ \A i \in 1..Len(wire) : wire[i] \in 0..MaxClock
      /\ target \in {"command", "local"} /\ MaxClock \in Nat
  <2>1. traceFile \in Seq(TraceLine) /\ wire \in Seq(0..MaxClock) /\ target \in {"command", "local"}
    BY DEF Traced, CaptureTypeOK
  <2>2. /\ Len(traceFile) \in Nat /\ DOMAIN traceFile = 1..Len(traceFile)
        /\ \A i \in 1..Len(traceFile) : traceFile[i] \in TraceLine
    BY <2>1
  <2>3. /\ Len(wire) \in Nat /\ DOMAIN wire = 1..Len(wire)
        /\ \A i \in 1..Len(wire) : wire[i] \in 0..MaxClock
    BY <2>1
  <2>4. MaxClock \in Nat
    OBVIOUS
  <2> QED BY <2>1, <2>2, <2>3, <2>4
<1>1. /\ agents \in Seq(KeptLine)
      /\ Len(agents) = IF status = "completed" THEN Len(traceFile) ELSE 0
      /\ \A i \in 1..Len(agents) : agents[i].text \in {"event", "foreign", "unmarked"}
      /\ \A i \in 1..Len(agents) :
            /\ agents[i].large = traceFile[i].large
            /\ target = "command" => agents[i] = traceFile[i]
      /\ \A i, j \in 1..Len(agents) :
            i < j /\ ~Excused(agents, i, j) => KeyLess(agents[i], agents[j])
      /\ target = "local" => \A i \in 1..Len(agents) : agents[i].text = "event"
  <2>1. CASE status # "completed"
    <3>1. agents = <<>>
      BY <2>1 DEF AgentEvents
    <3> HIDE DEF agents
    <3> QED BY <2>1, <3>1
  <2>2. CASE status = "completed" /\ target = "local"
    <3>1. agents = Rebind(traceFile, stamps)
      BY <2>2 DEF AgentEvents
    <3> HIDE DEF agents
    <3>2. /\ DOMAIN agents = 1..Len(traceFile)
          /\ \A i \in 1..Len(traceFile) :
                /\ agents[i] \in KeptLine /\ agents[i].text = "event"
                /\ agents[i].ts \in Int /\ agents[i].seq = i - 1 /\ agents[i].large = traceFile[i].large
      <4>1. DOMAIN agents = 1..Len(traceFile)
        BY <1>0, <3>1 DEF Rebind
      <4> SUFFICES ASSUME NEW i \in 1..Len(traceFile)
                   PROVE  /\ agents[i] \in KeptLine /\ agents[i].text = "event"
                          /\ agents[i].ts \in Int /\ agents[i].seq = i - 1
                          /\ agents[i].large = traceFile[i].large
        BY <4>1
      <4>2. agents[i] = [text |-> "event", ts |-> stamps[i], seq |-> i - 1, large |-> traceFile[i].large]
        BY <1>0, <3>1 DEF Rebind, Line
      <4>3. stamps[i] \in Int /\ traceFile[i].large \in BOOLEAN /\ i - 1 \in Nat
        <5>1. i \in DOMAIN traceFile /\ traceFile[i] \in TraceLine
          BY <1>0
        <5>2. stamps[i] \in 0..MaxClock
          BY <2>2, <5>1
        <5>3. traceFile[i].large \in BOOLEAN
          BY <5>1 DEF TraceLine
        <5> QED BY <1>0, <5>2, <5>3
      <4> QED BY <4>2, <4>3 DEF KeptLine
    <3>3. agents \in Seq(KeptLine) /\ Len(agents) = Len(traceFile)
      BY <1>0, <3>1, <3>2 DEF Rebind
    <3>4. \A i, j \in 1..Len(agents) :
             i < j /\ ~(agents[j].ts < agents[i].ts) => KeyLess(agents[i], agents[j])
      BY <1>0, <3>2, <3>3 DEF KeyLess
    <3> QED BY <2>2, <3>2, <3>3, <3>4 DEF Excused
  <2>3. CASE status = "completed" /\ target = "command"
    <3>1. agents = traceFile
      BY <2>3 DEF AgentEvents
    <3> HIDE DEF agents
    <3>2. \A i \in 1..Len(traceFile) :
             traceFile[i] \in KeptLine /\ traceFile[i].text \in {"event", "foreign", "unmarked"}
      BY <1>0, <2>3 DEF TraceReadable, Readable, KeptLine, TraceLine
    <3>3. agents \in Seq(KeptLine)
      BY <1>0, <3>1, <3>2
    <3>4. Ascending(agents)
      BY <2>3, <3>1 DEF Traced
    <3> QED BY <1>0, <2>3, <3>1, <3>2, <3>3, <3>4 DEF Ascending, Excused
  <2> QED BY <1>0, <2>1, <2>2, <2>3
<1>2. Len(agents) \in Nat /\ events = agents \o proxies
  BY <1>0, <1>1 DEF Evidence
<1> HIDE DEF agents, events
<1>3. /\ DOMAIN proxies = 1..Len(wire)
      /\ \A i \in 1..Len(wire) : proxies[i] \in KeptLine /\ proxies[i].text = "wire"
  BY <1>0, <1>2 DEF ProxyEvents, Line, KeptLine
<1>4. proxies \in Seq(KeptLine) /\ Len(proxies) = Len(wire)
  <2>1. proxies = [i \in 1..Len(wire) |-> proxies[i]]
    BY <1>0 DEF ProxyEvents
  <2> HIDE DEF proxies
  <2> QED BY <1>0, <1>3, <2>1
<1> HIDE DEF proxies
<1>5. /\ events \in Seq(KeptLine) /\ Len(events) = Len(agents) + Len(wire)
      /\ \A i \in 1..Len(agents) : events[i] = agents[i]
      /\ \A i \in (Len(agents) + 1)..Len(events) : events[i] = proxies[i - Len(agents)]
  <2>1. agents \in Seq(KeptLine) /\ proxies \in Seq(KeptLine)
    BY <1>1, <1>4
  <2>2. /\ agents \o proxies \in Seq(KeptLine)
        /\ Len(agents \o proxies) = Len(agents) + Len(proxies)
        /\ \A i \in 1..Len(agents) : (agents \o proxies)[i] = agents[i]
        /\ \A i \in (Len(agents) + 1)..Len(agents \o proxies) :
              (agents \o proxies)[i] = proxies[i - Len(agents)]
    BY <2>1, Joined
  <2>3. events = agents \o proxies /\ Len(proxies) = Len(wire)
    BY <1>2, <1>4
  <2> QED BY <2>2, <2>3
<1>6. \A i \in (Len(agents) + 1)..Len(events) : events[i].text = "wire"
  <2> SUFFICES ASSUME NEW i \in (Len(agents) + 1)..Len(events)
               PROVE  events[i].text = "wire"
    OBVIOUS
  <2>1. i - Len(agents) \in 1..Len(wire)
    BY <1>0, <1>2, <1>5
  <2>2. events[i] = proxies[i - Len(agents)]
    BY <1>5
  <2> QED BY <1>3, <2>1, <2>2
<1>7. \A i, j \in 1..Len(agents) :
         i < j /\ ~Excused(events, i, j) => KeyLess(events[i], events[j])
  <2> SUFFICES ASSUME NEW i \in 1..Len(agents), NEW j \in 1..Len(agents), i < j,
                      ~Excused(events, i, j)
               PROVE  KeyLess(events[i], events[j])
    OBVIOUS
  <2>1. \A k \in i..(j - 1) : k \in 1..Len(agents) /\ events[k] = agents[k]
    BY <1>2, <1>5
  <2>2. ~Excused(agents, i, j)
    BY <1>5, <2>1 DEF Excused, HiddenBetween
  <2>3. KeyLess(agents[i], agents[j])
    BY <1>1, <2>2
  <2> QED BY <1>5, <2>3
<1>8. ~Acceptable(events) => wire = <<>>
  <2>1. DOMAIN events = 1..Len(events)
    BY <1>5
  <2>2. ASSUME target = "local" PROVE Acceptable(events)
    <3> SUFFICES ASSUME NEW i \in 1..Len(events)
                 PROVE  events[i].text \in {"event", "wire"}
      BY <2>1 DEF Acceptable
    <3>1. CASE i <= Len(agents)
      BY <1>1, <1>2, <1>5, <2>2, <3>1
    <3>2. CASE i > Len(agents)
      BY <1>2, <1>6, <3>2
    <3> QED BY <1>2, <3>1, <3>2
  <2> QED BY <1>0, <2>2 DEF Traced
<1>9. \A i \in 1..Len(agents) :
         events[i].large = traceFile[i].large /\ (target = "command" => events[i] = traceFile[i])
  BY <1>1, <1>5
<1>10. \A i \in 1..Len(agents) : events[i].text \in {"event", "foreign", "unmarked"}
  BY <1>1, <1>5
<1>11. /\ events \in Seq(KeptLine) /\ Len(agents) \in Nat
       /\ Len(agents) = IF status = "completed" THEN Len(traceFile) ELSE 0
       /\ Len(events) = Len(agents) + Len(wire)
  BY <1>1, <1>2, <1>5
<1> QED BY <1>6, <1>7, <1>8, <1>9, <1>10, <1>11 DEF agents, events

\* The cap keeps the first events.
LEMMA IngestedFirst ==
  ASSUME NEW events \in Seq(KeptLine)
  PROVE  /\ Ingested(events) \in Seq(KeptLine)
         /\ Len(Ingested(events)) = IF Len(events) > EventCap THEN EventCap ELSE Len(events)
         /\ \A i \in 1..Len(Ingested(events)) : Ingested(events)[i] = events[i]
<1>1. EventCap \in Nat /\ Len(events) \in Nat
  OBVIOUS
<1> QED BY <1>1 DEF Ingested

-----------------------------------------------------------------------------
\* A status that is completed was read from a trace all of whose lines can be read.
LEMMA StatusRead ==
  ASSUME NEW end, NEW status,
         status = IF target = "command" THEN RunnerStatus(end) ELSE AdapterStatus(end)
  PROVE  /\ status \in {"completed", "no_trace"} => TraceReadable(traceFile)
         /\ status = "no_trace" => traceFile = <<>>
         /\ status \in {"timed_out", "cancelled", "invocation_failed", "provider_unreachable",
                        "no_trace", "completed"}
  BY DEF RunnerStatus, AdapterStatus

\* An attempt that ends keeps the first of its evidence, or nothing when that is refused.
LEMMA EndStep ==
  ASSUME Traced, NEW end, NEW stamps \in Stampings(end), EndAttempt(end, stamps)
  PROVE  Traced'
<1> DEFINE status == IF target = "command" THEN RunnerStatus(end) ELSE AdapterStatus(end)
           agents == AgentEvents(status, stamps)
           events == Evidence(status, stamps)
           n == Len(agents)
<1>1. /\ status \in {"completed", "no_trace"} => TraceReadable(traceFile)
      /\ status = "no_trace" => traceFile = <<>>
      /\ status \in {"timed_out", "cancelled", "invocation_failed", "provider_unreachable",
                     "no_trace", "completed"}
  BY StatusRead
<1>2. /\ outcome = "running" /\ capture' = NoCapture /\ UNCHANGED <<target, wall, traceFile, wire>>
      /\ outcome' = IF Acceptable(events) THEN AttemptStatusOf(status) ELSE "errored"
      /\ kept' = IF Acceptable(events) THEN Ingested(events) ELSE <<>>
  BY DEF EndAttempt
<1>0. target = "local" /\ status = "completed" => stamps \in [DOMAIN traceFile -> 0..MaxClock]
  BY DEF Stampings
<1> HIDE DEF status
<1>3. /\ events \in Seq(KeptLine) /\ n \in Nat
      /\ n = IF status = "completed" THEN Len(traceFile) ELSE 0
      /\ Len(events) = n + Len(wire)
      /\ \A i \in 1..n : events[i].text \in {"event", "foreign", "unmarked"}
      /\ \A i \in 1..n :
            events[i].large = traceFile[i].large /\ (target = "command" => events[i] = traceFile[i])
      /\ \A i \in (n + 1)..Len(events) : events[i].text = "wire"
      /\ \A i, j \in 1..n : i < j /\ ~Excused(events, i, j) => KeyLess(events[i], events[j])
      /\ ~Acceptable(events) => wire = <<>>
  BY <1>0, <1>1, EvidenceOf
<1> HIDE DEF agents, events, n
<1>4. /\ Ingested(events) \in Seq(KeptLine)
      /\ Len(Ingested(events)) = IF Len(events) > EventCap THEN EventCap ELSE Len(events)
      /\ \A i \in 1..Len(Ingested(events)) : Ingested(events)[i] = events[i]
  BY <1>3, IngestedFirst
<1>5. /\ traceFile \in Seq(TraceLine) /\ Len(traceFile) \in Nat
      /\ wire \in Seq(0..MaxClock) /\ Len(wire) \in Nat /\ EventCap \in Nat
  BY DEF Traced, CaptureTypeOK
<1>6. CaptureTypeOK'
  <2>1. outcome' \in {"completed", "errored", "timed_out", "cancelled"}
    BY <1>1, <1>2 DEF AttemptStatusOf
  <2>2. kept' \in Seq(KeptLine)
    BY <1>2, <1>4
  <2> QED BY <1>2, <2>1, <2>2 DEF Traced, CaptureTypeOK, NoCapture
<1>7. outcome' # "running"
  BY <1>1, <1>2 DEF AttemptStatusOf
<1>8. TraceReadable(traceFile') => Ascending(traceFile') /\ PastAll'
  BY <1>2 DEF Traced, PastAll
<1>9. CASE ~Acceptable(events)
  <2>1. kept' = <<>> /\ AgentPlaces' = {} /\ WirePlaces' = {} /\ outcome' = "errored"
    BY <1>2, <1>9 DEF AgentPlaces, WirePlaces
  <2>2. wire' = <<>>
    BY <1>2, <1>3, <1>9
  <2>3. KeysFollowEmission'
    BY <2>1 DEF KeysFollowEmission
  <2>4. EvidenceIsWhole'
    BY <2>1, <2>2, FS_EmptySet DEF EvidenceIsWhole
  <2> QED BY <1>2, <1>6, <1>7, <1>8, <2>3, <2>4 DEF Traced
<1>10. CASE Acceptable(events)
  <2> DEFINE m == Len(kept')
  <2>1. /\ kept' \in Seq(KeptLine) /\ m \in Nat /\ DOMAIN kept' = 1..m
        /\ m = IF Len(events) > EventCap THEN EventCap ELSE Len(events)
        /\ \A i \in 1..m : kept'[i] = events[i]
    BY <1>2, <1>4, <1>10
  <2>2. m <= Len(events) /\ Len(events) = n + Len(wire) /\ DOMAIN events = 1..Len(events)
    BY <1>3, <1>5, <2>1
  <2> HIDE DEF m
  <2>3. AgentPlaces' = {i \in 1..m : i <= n}
    <3>1. AgentPlaces' = {i \in 1..m : kept'[i].text # "wire"}
      BY <2>1 DEF AgentPlaces
    <3>2. \A i \in 1..m : kept'[i].text # "wire" <=> i <= n
      <4> SUFFICES ASSUME NEW i \in 1..m PROVE kept'[i].text # "wire" <=> i <= n
        OBVIOUS
      <4>1. kept'[i] = events[i] /\ i \in 1..Len(events)
        BY <1>3, <1>5, <2>1, <2>2
      <4>2. CASE i <= n
        <5>1. i \in 1..n
          BY <1>3, <4>1, <4>2
        <5>2. events[i].text # "wire"
          BY <1>3, <5>1
        <5> QED BY <4>1, <4>2, <5>2
      <4>3. CASE i > n
        <5>1. i \in (n + 1)..Len(events)
          BY <1>3, <1>5, <4>1, <4>3
        <5> QED BY <1>3, <4>1, <4>3, <5>1
      <4> QED BY <1>3, <4>2, <4>3
    <3> QED BY <3>1, <3>2
  <2>4. WirePlaces' = {i \in 1..m : i > n}
    BY <1>3, <2>1, <2>3 DEF WirePlaces
  <2>5. KeysFollowEmission'
    <3> SUFFICES ASSUME NEW i \in AgentPlaces', NEW j \in AgentPlaces', i < j,
                        ~IF target = "command" THEN \E k \in i..(j - 1) : kept'[k].large
                                               ELSE kept'[j].ts < kept'[i].ts
                 PROVE  KeyLess(kept'[i], kept'[j])
      BY <1>2 DEF KeysFollowEmission, KeyLess
    <3>1. i \in 1..n /\ j \in 1..n /\ i \in 1..m /\ j \in 1..m
      BY <1>3, <2>1, <2>3
    <3>2. \A k \in i..(j - 1) : k \in 1..m /\ kept'[k] = events[k]
      BY <2>1, <3>1
    <3>3. ~Excused(events, i, j)
      BY <2>1, <3>1, <3>2 DEF Excused, HiddenBetween
    <3> QED BY <1>3, <2>1, <3>1, <3>3
  <2> DEFINE Capped(k) == IF k > EventCap THEN EventCap ELSE k
  <2>6. outcome' = "completed" => AgentPlaces' = 1..Capped(Len(traceFile'))
    <3> SUFFICES ASSUME outcome' = "completed"
                 PROVE  AgentPlaces' = 1..Capped(Len(traceFile'))
      OBVIOUS
    <3>1. status \in {"completed", "no_trace"}
      BY <1>1, <1>2, <1>10 DEF AttemptStatusOf
    <3>2. n = Len(traceFile) /\ traceFile' = traceFile
      BY <1>1, <1>2, <1>3, <3>1
    <3>3. \A i \in Nat : i <= m /\ i <= n <=> i <= IF n > EventCap THEN EventCap ELSE n
      BY <1>3, <1>5, <2>1, <2>2
    <3> QED BY <1>3, <1>5, <2>1, <2>3, <3>2, <3>3
  <2>7. \A i \in AgentPlaces' :
           /\ kept'[i].text = "event" /\ kept'[i].large = traceFile'[i].large
           /\ target' = "command" => kept'[i] = traceFile'[i]
    <3> SUFFICES ASSUME NEW i \in AgentPlaces'
                 PROVE  /\ kept'[i].text = "event" /\ kept'[i].large = traceFile[i].large
                        /\ target = "command" => kept'[i] = traceFile[i]
      BY <1>2
    <3>1. i \in 1..m /\ i \in 1..n /\ i \in DOMAIN events /\ kept'[i] = events[i]
      BY <1>3, <2>1, <2>2, <2>3
    <3>2. events[i].text = "event"
      BY <1>3, <1>10, <3>1 DEF Acceptable
    <3> QED BY <1>3, <3>1, <3>2
  <2>8. outcome' \notin {"running", "completed"} => AgentPlaces' = {}
    <3> SUFFICES ASSUME outcome' # "completed" PROVE AgentPlaces' = {}
      OBVIOUS
    <3>1. status # "completed"
      BY <1>2, <1>10 DEF AttemptStatusOf
    <3> QED BY <1>3, <2>3, <3>1
  <2>9. Len(traceFile') + Len(wire') <= EventCap => Cardinality(WirePlaces') = Len(wire')
    <3> SUFFICES ASSUME Len(traceFile) + Len(wire) <= EventCap
                 PROVE  Cardinality(WirePlaces') = Len(wire)
      BY <1>2
    <3>1. m = n + Len(wire)
      BY <1>3, <1>5, <2>1, <2>2
    <3>2. WirePlaces' = (n + 1)..(n + Len(wire))
      BY <1>3, <1>5, <2>4, <3>1
    <3>3. Cardinality((n + 1)..(n + Len(wire))) = Len(wire)
      <4>1. n + 1 \in Int /\ n + Len(wire) \in Int
        BY <1>3, <1>5
      <4>2. Cardinality((n + 1)..(n + Len(wire)))
              = IF n + 1 > n + Len(wire) THEN 0 ELSE (n + Len(wire)) - (n + 1) + 1
        BY <4>1, FS_Interval
      <4> QED BY <1>3, <1>5, <4>2
    <3> QED BY <3>2, <3>3
  <2>10. EvidenceIsWhole'
    BY <2>6, <2>7, <2>8, <2>9 DEF EvidenceIsWhole
  <2> QED BY <1>2, <1>6, <1>7, <1>8, <2>5, <2>10 DEF Traced
<1> QED BY <1>9, <1>10

-----------------------------------------------------------------------------
\* A step of the running attempt that leaves the evidence alone.
LEMMA RunningStep ==
  ASSUME Traced, outcome = "running", UNCHANGED <<target, outcome, kept>>,
         CaptureTypeOK', target = "command" => wire' = <<>>,
         TraceReadable(traceFile') => Ascending(traceFile') /\ PastAll'
  PROVE  Traced'
<1>1. KeysFollowEmission' /\ EvidenceIsWhole'
  BY NothingIngested DEF Traced
<1> QED BY <1>1 DEF Traced

\* A finite set of numbers has a largest: one with the fewest above it.
LEMMA LargestOf ==
  ASSUME NEW S, IsFiniteSet(S), S \subseteq Int, S # {}
  PROVE  \E top \in S : \A i \in S : i <= top
<1> DEFINE Above(i) == {k \in S : k > i}
           C == {Above(i) : i \in S}
<1>1. IsWellFoundedOn(StrictSubsetOrdering(S), SUBSET S)
  BY FS_StrictSubsetOrderingWellFounded, FS_FiniteSubsetsOfFinite
<1>2. C \subseteq SUBSET S /\ C # {}
  OBVIOUS
<1>3. PICK T \in C : \A U \in C : ~ (<<U, T>> \in StrictSubsetOrdering(S))
  <2> HIDE DEF C
  <2> QED BY <1>1, <1>2, WFMin
<1>4. PICK top \in S : T = Above(top)
  OBVIOUS
<1>5. ASSUME NEW i \in S, i > top PROVE FALSE
  <2>1. Above(i) \subseteq Above(top) /\ i \in Above(top) /\ i \notin Above(i)
    <3>1. i \in Int /\ top \in Int /\ \A k \in S : k \in Int
      OBVIOUS
    <3>2. \A k \in S : k > i => k > top
      BY <1>5, <3>1
    <3>3. Above(i) \subseteq Above(top)
      BY <3>2
    <3>4. i \in Above(top)
      BY <1>5
    <3>5. ~(i > i)
      BY <3>1
    <3>6. i \notin Above(i)
      BY <3>5
    <3> QED BY <3>3, <3>4, <3>6
  <2>2. <<Above(i), T>> \in StrictSubsetOrdering(S)
    BY <1>4, <2>1 DEF StrictSubsetOrdering
  <2> QED BY <1>3, <2>2
<1> QED BY <1>5

\* A context that opens is past every line that no large one hides.
LEMMA EnterStep == Traced /\ EnterCapture => Traced'
<1> SUFFICES ASSUME Traced, EnterCapture PROVE Traced'
  OBVIOUS
<1> DEFINE last == LastStamp(traceFile)
<1>1. /\ outcome = "running" /\ UNCHANGED <<target, wall, traceFile, wire, outcome, kept>>
      /\ capture' = [NoCapture EXCEPT !.entry = IF wall <= last THEN last + 1 ELSE wall]
  BY DEF EnterCapture
<1>2. traceFile \in Seq(TraceLine) /\ wall \in Nat
  BY DEF Traced, CaptureTypeOK
<1>3. last \in Int
  <2> DEFINE tail == {i \in DOMAIN traceFile :
                        \A j \in i..Len(traceFile) : ~traceFile[j].large}
             read == {i \in tail : Readable(traceFile[i])}
  <2>1. \A i \in read : i \in 1..Len(traceFile) /\ Len(traceFile) \in Nat
    BY <1>2
  <2>2. \A i \in 1..Len(traceFile) : traceFile[i] \in TraceLine
    BY <1>2
  <2>3. CASE read = {}
    BY <2>3 DEF LastStamp
  <2>4. CASE read # {}
    <3>1. read \in SUBSET Int /\ \E top \in read : \A i \in read : i <= top
      <4>1. read \subseteq 1..Len(traceFile) /\ Len(traceFile) \in Nat
        BY <1>2
      <4>2. IsFiniteSet(1..Len(traceFile))
        BY <4>1, FS_Interval
      <4>3. IsFiniteSet(read)
        BY <4>1, <4>2, FS_Subset
      <4>4. read \subseteq Int
        BY <4>1
      <4> HIDE DEF read
      <4> QED BY <2>4, <4>3, <4>4, LargestOf
    <3>2. Max(read) \in read
      BY <3>1 DEF Max
    <3>3. traceFile[Max(read)].ts \in Int
      BY <2>1, <2>2, <3>2 DEF TraceLine
    <3> QED BY <2>4, <3>3 DEF LastStamp
  <2> QED BY <2>3, <2>4
<1> HIDE DEF last
<1>4. CaptureTypeOK'
  <2>1. (IF wall <= last THEN last + 1 ELSE wall) \in Int
    BY <1>2, <1>3
  <2>2. capture' \in [entry : Int, elapsed : Int, seq : Nat]
    BY <1>1, <2>1 DEF NoCapture
  <2> QED BY <1>1, <2>2 DEF Traced, CaptureTypeOK
<1>5. ASSUME TraceReadable(traceFile) PROVE Ascending(traceFile') /\ PastAll'
  <2>1. Ascending(traceFile)
    BY <1>5 DEF Traced
  <2>2. capture'.entry + capture'.elapsed >= last
    BY <1>1, <1>2, <1>3 DEF NoCapture
  <2>3. \A i \in DOMAIN traceFile :
           HiddenBetween(traceFile, i, Len(traceFile) + 1) \/ traceFile[i].ts <= last
    BY <1>2, <1>5, <2>1, LastStampPast DEF last
  <2>4. \A i \in DOMAIN traceFile : traceFile[i].ts \in Int
    <3>1. \A i \in DOMAIN traceFile : traceFile[i] \in TraceLine
      BY <1>2
    <3> QED BY <3>1 DEF TraceLine
  <2>5. capture'.entry + capture'.elapsed \in Int
    BY <1>4 DEF CaptureTypeOK
  <2>6. PastAll'
    BY <1>1, <1>3, <2>2, <2>3, <2>4, <2>5 DEF PastAll
  <2> QED BY <1>1, <2>1, <2>6
<1> QED BY <1>1, <1>4, <1>5, RunningStep DEF Traced

\* A line that is written at the context's time follows the lines before it.
LEMMA WrittenStep ==
  ASSUME Traced, outcome = "running", UNCHANGED <<target, wall, wire, outcome, kept>>,
         NEW line \in TraceLine, traceFile' = Appended(traceFile, line),
         capture' \in [entry : Int, elapsed : Int, seq : Nat],
         capture # NoCapture, Readable(line) => line.ts > capture.entry + capture.elapsed,
         Readable(line) /\ capture' # NoCapture => line.ts <= capture'.entry + capture'.elapsed
  PROVE  Traced'
<1> DEFINE n == Len(traceFile)
<1>0. /\ traceFile \in Seq(TraceLine) /\ n \in Nat /\ DOMAIN traceFile = 1..n
      /\ capture \in [entry : Int, elapsed : Int, seq : Nat]
  BY DEF Traced, CaptureTypeOK
<1>1. /\ traceFile' \in Seq(TraceLine)
      /\ TraceReadable(traceFile') =>
           TraceReadable(traceFile) /\ Readable(line) /\ traceFile' = Append(traceFile, line)
  BY <1>0, AppendedReadable
<1>2. CaptureTypeOK'
  BY <1>1 DEF Traced, CaptureTypeOK
<1>3. ASSUME TraceReadable(traceFile') PROVE Ascending(traceFile') /\ PastAll'
  <2>1. /\ TraceReadable(traceFile) /\ Readable(line) /\ traceFile' = Append(traceFile, line)
        /\ Ascending(traceFile) /\ PastAll
    BY <1>1, <1>3 DEF Traced
  <2>2. /\ Len(traceFile') = n + 1 /\ DOMAIN traceFile' = 1..(n + 1)
        /\ traceFile'[n + 1] = line /\ \A i \in 1..n : traceFile'[i] = traceFile[i]
    BY <1>0, <2>1
  <2>3. \A i \in 1..n : traceFile[i] \in TraceLine
    BY <1>0
  <2>4. /\ line.ts \in Int /\ capture.entry + capture.elapsed \in Int
        /\ \A i \in 1..n : traceFile[i].ts \in Int
    BY <1>0, <2>3 DEF TraceLine
  <2>5. \A i \in 1..n : HiddenBetween(traceFile, i, n + 1) \/ traceFile[i].ts < line.ts
    <3> SUFFICES ASSUME NEW i \in 1..n, ~HiddenBetween(traceFile, i, n + 1)
                 PROVE  traceFile[i].ts < line.ts
      OBVIOUS
    <3>1. traceFile[i].ts <= capture.entry + capture.elapsed
      BY <1>0, <2>1 DEF PastAll
    <3> QED BY <2>1, <2>4, <3>1
  <2>6. \A i \in 1..n : \A j \in 1..(n + 1) :
           HiddenBetween(traceFile', i, j) <=> HiddenBetween(traceFile, i, j)
    <3> SUFFICES ASSUME NEW i \in 1..n, NEW j \in 1..(n + 1)
                 PROVE  HiddenBetween(traceFile', i, j) <=> HiddenBetween(traceFile, i, j)
      OBVIOUS
    <3>1. \A k \in i..(j - 1) : k \in 1..n
      BY <1>0
    <3>2. \A k \in i..(j - 1) : traceFile'[k] = traceFile[k]
      BY <2>2, <3>1
    <3> QED BY <3>2 DEF HiddenBetween
  <2>7. Ascending(traceFile')
    <3> SUFFICES ASSUME NEW i \in 1..(n + 1), NEW j \in 1..(n + 1), i < j,
                        ~HiddenBetween(traceFile', i, j)
                 PROVE  KeyLess(traceFile'[i], traceFile'[j])
      BY <2>2 DEF Ascending
    <3>1. i \in 1..n /\ ~HiddenBetween(traceFile, i, j)
      BY <1>0, <2>6
    <3>2. CASE j \in 1..n
      <4>1. KeyLess(traceFile[i], traceFile[j])
        BY <1>0, <2>1, <3>1, <3>2 DEF Ascending
      <4> QED BY <2>2, <3>1, <3>2, <4>1
    <3>3. CASE j = n + 1
      BY <2>2, <2>5, <3>1, <3>3 DEF KeyLess
    <3> QED BY <1>0, <3>2, <3>3
  <2>8. PastAll'
    <3> SUFFICES ASSUME capture' # NoCapture, NEW i \in 1..(n + 1),
                        ~HiddenBetween(traceFile', i, n + 2)
                 PROVE  traceFile'[i].ts <= capture'.entry + capture'.elapsed
      BY <1>0, <2>2 DEF PastAll
    <3>1. line.ts <= capture'.entry + capture'.elapsed /\ capture'.entry + capture'.elapsed \in Int
      BY <2>1
    <3>2. CASE i = n + 1
      BY <2>2, <3>1, <3>2
    <3>3. CASE i \in 1..n
      <4>1. ~HiddenBetween(traceFile, i, n + 1)
        <5> SUFFICES ASSUME NEW k \in i..n, traceFile[k].large PROVE FALSE
          BY <1>0, <3>3 DEF HiddenBetween
        <5>1. k \in 1..n /\ k \in i..((n + 2) - 1)
          BY <1>0, <3>3
        <5>2. traceFile'[k].large
          BY <2>2, <5>1
        <5> QED BY <5>1, <5>2 DEF HiddenBetween
      <4>2. traceFile[i].ts < line.ts
        BY <2>5, <3>3, <4>1
      <4>3. traceFile'[i] = traceFile[i] /\ traceFile[i].ts \in Int /\ line.ts \in Int
        BY <2>2, <2>4, <3>3
      <4> QED BY <3>1, <4>2, <4>3
    <3>4. n \in Nat
      BY <1>0
    <3>5. i = n + 1 \/ i \in 1..n
      BY <3>4
    <3> QED BY <3>2, <3>3, <3>5
  <2> QED BY <2>7, <2>8
<1> QED BY <1>2, <1>3, RunningStep DEF Traced

\* Every step keeps the inductive invariant.
LEMMA TracedStep == Traced /\ [CaptureNext]_captureVars => Traced'
<1> SUFFICES ASSUME Traced, [CaptureNext]_captureVars PROVE Traced'
  OBVIOUS
<1>0. capture \in [entry : Int, elapsed : Int, seq : Nat]
  BY DEF Traced, CaptureTypeOK
<1>1. ASSUME NEW w \in 0..MaxClock, SetClock(w) PROVE Traced'
  <2>1. CaptureTypeOK'
    BY <1>1 DEF SetClock, Traced, CaptureTypeOK
  <2> QED BY <1>1, <2>1, RunningStep DEF SetClock, Traced, PastAll
<1>2. CASE EnterCapture
  BY <1>2, EnterStep
<1>3. CASE ExitCapture
  <2>1. CaptureTypeOK'
    BY <1>3 DEF ExitCapture, Traced, CaptureTypeOK, NoCapture
  <2> QED BY <1>3, <2>1, RunningStep DEF ExitCapture, Traced, PastAll
<1>4. CASE Tear
  <2>1. Torn \in TraceLine /\ ~Readable(Torn)
    BY DEF Torn, Line, TraceLine, Readable
  <2>2. capture' \in [entry : Int, elapsed : Int, seq : Nat]
    BY <1>4 DEF Tear, NoCapture
  <2> QED BY <1>4, <2>1, <2>2, WrittenStep DEF Tear
<1>5. CASE ProxyRecords
  <2>1. wire' \in Seq(0..MaxClock)
    BY <1>5 DEF ProxyRecords, Traced, CaptureTypeOK
  <2>2. CaptureTypeOK'
    BY <1>5, <2>1 DEF ProxyRecords, Traced, CaptureTypeOK
  <2> QED BY <1>5, <2>2, RunningStep DEF ProxyRecords, Traced, PastAll
<1>6. ASSUME NEW text \in {"event", "foreign", "unmarked"}, NEW step \in 1..2,
             NEW large \in BOOLEAN, Emit(text, step, large)
      PROVE  Traced'
  <2> DEFINE line == Line(text, capture.entry + capture.elapsed + step, capture.seq, large)
  <2>1. /\ outcome = "running" /\ capture # NoCapture
        /\ UNCHANGED <<target, wall, wire, outcome, kept>>
        /\ capture' = [capture EXCEPT !.elapsed = @ + step, !.seq = @ + 1]
        /\ traceFile' = Appended(traceFile, line)
    BY <1>6 DEF Emit
  <2>2. /\ capture' \in [entry : Int, elapsed : Int, seq : Nat]
        /\ capture'.entry = capture.entry /\ capture'.elapsed = capture.elapsed + step
    <3>1. capture.elapsed + step \in Int /\ capture.seq + 1 \in Nat
      BY <1>0
    <3>2. capture' = [capture EXCEPT !.elapsed = capture.elapsed + step, !.seq = capture.seq + 1]
      BY <2>1
    <3> QED BY <1>0, <3>1, <3>2
  <2>3. line \in TraceLine /\ line.ts = capture.entry + capture.elapsed + step
    BY <1>0 DEF Line, TraceLine
  <2> HIDE DEF line
  <2>4. line.ts > capture.entry + capture.elapsed /\ line.ts <= capture'.entry + capture'.elapsed
    BY <1>0, <2>2, <2>3
  <2> QED BY <2>1, <2>2, <2>3, <2>4, WrittenStep
<1>7. ASSUME NEW end, NEW stamps \in Stampings(end), EndAttempt(end, stamps)
      PROVE  Traced'
  BY <1>7, EndStep
<1>8. CASE UNCHANGED captureVars
  BY <1>8 DEF captureVars, Traced, CaptureTypeOK, PastAll, KeysFollowEmission, EvidenceIsWhole,
     AgentPlaces, WirePlaces
<1>9. CASE AttemptRaises
  <2>1. /\ outcome' = "raised" /\ capture' = NoCapture /\ kept' = <<>>
        /\ UNCHANGED <<target, wall, traceFile, wire>>
    BY <1>9 DEF AttemptRaises, Traced
  <2>2. CaptureTypeOK'
    BY <2>1 DEF Traced, CaptureTypeOK, NoCapture
  <2>3. KeysFollowEmission' /\ EvidenceIsWhole'
    BY <2>1 DEF KeysFollowEmission, EvidenceIsWhole, AgentPlaces
  <2> QED BY <2>1, <2>2, <2>3 DEF Traced, PastAll
<1>10. ASSUME CaptureNext PROVE Traced'
  <2>1. ASSUME NEW step \in 1..2, NEW large \in BOOLEAN, Emit("event", step, large) PROVE Traced'
    BY <1>6, <2>1
  <2>2. ASSUME NEW text \in {"foreign", "unmarked"}, Emit(text, 1, FALSE) PROVE Traced'
    <3>1. text \in {"event", "foreign", "unmarked"} /\ 1 \in 1..2 /\ FALSE \in BOOLEAN
      OBVIOUS
    <3> QED BY <1>6, <2>2, <3>1
  <2> QED BY <1>1, <1>2, <1>3, <1>4, <1>5, <1>7, <1>10, <1>9, <2>1, <2>2 DEF CaptureNext
<1> QED BY <1>8, <1>10

\* The inductive invariant of a captured trace (capture.py, runner.py): one that
\* can be read at all is in order, and the open context is past it.
THEOREM CaptureTraced == CaptureSpec => []Traced
  BY TracedInit, TracedStep, PTL DEF CaptureSpec

\* Types of the capture, the trace file and the evidence: CaptureTypeOK
\* (capture.py, engine.py).
THEOREM CaptureTypes == CaptureSpec => []CaptureTypeOK
<1>1. Traced => CaptureTypeOK
  BY DEF Traced
<1> QED BY <1>1, CaptureTraced, PTL

\* The keys of the agent's events follow the order it emitted them in, whatever
\* the wall clock does while it runs (capture.py:97-118, 172-183), or, for a local
\* target, while they are stamped anew (targets/local.py:198): KeysFollowEmission.
THEOREM CaptureKeysFollowEmission == CaptureSpec => []KeysFollowEmission
<1>1. Traced => KeysFollowEmission
  BY DEF Traced
<1> QED BY <1>1, CaptureTraced, PTL

\* A completed attempt has every event as evidence, up to the cap, any other has
\* none of them, and the proxy's records survive (engine.py:907-930, 1199-1240):
\* EvidenceIsWhole.
THEOREM CaptureEvidenceIsWhole == CaptureSpec => []EvidenceIsWhole
<1>1. Traced => EvidenceIsWhole
  BY DEF Traced
<1> QED BY <1>1, CaptureTraced, PTL

-----------------------------------------------------------------------------
(***************************************************************************)
(* Trace rules                                                             *)
(***************************************************************************)
\* What is stored is recorded, and what is recorded is stored or to come.
Stored ==
    \E S \in Recorded : trace \in Seq(S) /\ unseen \subseteq S /\ S = unseen \cup ToSet(trace)

\* Nothing is stored.
LEMMA StoredInit == TraceInit => Stored
<1> SUFFICES ASSUME TraceInit PROVE Stored
  OBVIOUS
<1>1. ToSet(trace) = {}
  BY DEF TraceInit, ToSet
<1>2. trace \in Seq(unseen)
  BY DEF TraceInit
<1> QED
  BY <1>1, <1>2 DEF TraceInit, Stored

\* An event inserted into a trace is one more of its events.
LEMMA InsertedAt ==
  ASSUME NEW S, NEW s, NEW e, NEW i, s \in Seq(S), e \in S, i \in 1..(Len(s) + 1)
  PROVE  InsertAt(s, i, e) \in Seq(S) /\ ToSet(InsertAt(s, i, e)) = ToSet(s) \cup {e}
<1> DEFINE a == SubSeq(s, 1, i - 1)
           b == SubSeq(s, i, Len(s))
           t == InsertAt(s, i, e)
<1>1. /\ a \in Seq(S) /\ Len(a) = i - 1
      /\ \A k \in 1..(i - 1) : a[k] = s[k]
  OBVIOUS
<1>2. /\ b \in Seq(S) /\ Len(b) = Len(s) - i + 1
      /\ \A k \in 1..(Len(s) - i + 1) : b[k] = s[i + k - 1]
  OBVIOUS
<1>3. t = (a \o <<e>>) \o b
  BY DEF InsertAt
<1> HIDE DEF a, b, t
<1>4. a \o <<e>> \in Seq(S) /\ Len(a \o <<e>>) = i /\ (a \o <<e>>)[i] = e
      /\ \A k \in 1..(i - 1) : (a \o <<e>>)[k] = s[k]
  BY <1>1
<1>5. /\ t \in Seq(S) /\ Len(t) = Len(s) + 1 /\ t[i] = e
      /\ \A k \in 1..(i - 1) : t[k] = s[k]
      /\ \A k \in i..Len(s) : t[k + 1] = s[k]
  <2>1. t \in Seq(S) /\ Len(t) = Len(s) + 1
    BY ONLY <1>2, <1>3, <1>4
  <2>2. \A k \in 1..i : t[k] = (a \o <<e>>)[k]
    BY <1>2, <1>3, <1>4
  <2>3. \A k \in i..Len(s) : t[k + 1] = b[k + 1 - i]
    BY <1>2, <1>3, <1>4
  <2> QED
    BY <2>1, <2>2, <2>3, <1>2, <1>4
<1>6. ASSUME NEW x \in ToSet(t) PROVE x \in ToSet(s) \cup {e}
  <2>1. PICK k \in 1..(Len(s) + 1) : x = t[k]
    BY <1>5 DEF ToSet
  <2>2. CASE k < i
    <3>1. k \in 1..Len(s) /\ s[k] = x
      BY <2>1, <2>2, <1>5
    <3> QED
      BY <3>1 DEF ToSet
  <2>3. CASE k = i
    BY <2>1, <2>3, <1>5
  <2>4. CASE k > i
    <3>1. k - 1 \in i..Len(s) /\ t[(k - 1) + 1] = s[k - 1]
      BY <2>4, <1>5
    <3> QED
      BY <3>1, <2>1 DEF ToSet
  <2> QED
    BY <2>2, <2>3, <2>4
<1>7. ASSUME NEW x \in ToSet(s) PROVE x \in ToSet(t)
  <2>1. PICK k \in 1..Len(s) : x = s[k]
    BY DEF ToSet
  <2>2. CASE k < i
    <3>1. k \in DOMAIN t /\ t[k] = x
      BY <2>1, <2>2, <1>5
    <3> QED
      BY <3>1 DEF ToSet
  <2>3. CASE k >= i
    <3>1. k + 1 \in DOMAIN t /\ t[k + 1] = x
      BY <2>1, <2>3, <1>5
    <3> QED
      BY <3>1 DEF ToSet
  <2> QED
    BY <2>2, <2>3
<1>8. e \in ToSet(t)
  BY <1>5 DEF ToSet
<1> QED
  BY <1>5, <1>6, <1>7, <1>8 DEF t

\* Storing an event moves it from the unseen ones to the trace.
LEMMA StoredStep == Stored /\ [TraceNext]_traceVars => Stored'
<1> SUFFICES ASSUME Stored, [TraceNext]_traceVars PROVE Stored'
  OBVIOUS
<1>1. PICK S \in Recorded : trace \in Seq(S) /\ unseen \subseteq S /\ S = unseen \cup ToSet(trace)
  BY DEF Stored
<1>2. CASE TraceNext
  <2>1. PICK e \in unseen, i \in 1..(Len(trace) + 1) : StoreEvent(e, i)
    BY <1>2 DEF TraceNext
  <2> DEFINE t == InsertAt(trace, i, e)
  <2>a. e \in S /\ trace' = t
    BY <2>1, <1>1 DEF StoreEvent
  <2>b. t \in Seq(S) /\ ToSet(t) = ToSet(trace) \cup {e}
    <3>1. trace \in Seq(S) /\ e \in S /\ i \in 1..(Len(trace) + 1)
      BY <2>a, <1>1
    <3> QED
      BY <3>1, InsertedAt
  <2>2. trace' \in Seq(S) /\ ToSet(trace') = ToSet(trace) \cup {e}
    BY <2>a, <2>b
  <2>3. unseen' = unseen \ {e} /\ e \in unseen
    BY <2>1 DEF StoreEvent
  <2>4. unseen' \subseteq S /\ S = unseen' \cup ToSet(trace')
    BY <2>2, <2>3, <1>1
  <2> QED
    BY <2>2, <2>4 DEF Stored
<1>3. CASE UNCHANGED traceVars
  BY <1>3, <1>1 DEF traceVars, Stored
<1> QED
  BY <1>2, <1>3

\* An ancestor other than the event itself ranks before it.
LEMMA AncestorsRank ==
  ASSUME NEW S, NEW rank \in [S -> 1..Cardinality(S)],
         \A e, p \in S : p.id = e.parent => p = e \/ rank[p] < rank[e],
         IsFiniteSet(S),
         NEW E \in SUBSET S, NEW e \in E, NEW f \in E, IsAncestor(E, e, f)
  PROVE  e = f \/ rank[e] < rank[f]
<1> DEFINE above == {x \in E : x = f \/ rank[x] < rank[f]}
<1>0. Cardinality(S) \in Nat
  BY FS_CardinalityType
<1>1. ASSUME NEW p \in E, NEW x \in {f} \cup above, p.id = x.parent PROVE p \in above
  <2>1. x \in S /\ p \in S /\ (p = x \/ rank[p] < rank[x])
    BY <1>1
  <2>2. \A y \in S : rank[y] \in Nat
    BY <1>0
  <2>3. x = f \/ rank[x] < rank[f]
    BY <1>1
  <2> QED
    BY <2>1, <2>2, <2>3
<1>2. e \in above
  BY <1>1 DEF IsAncestor
<1> QED
  BY <1>2

\* Precedes is total and antisymmetric on what is stored of an attempt.
LEMMA Decided ==
  ASSUME NEW S \in Recorded, NEW E \in SUBSET S, NEW e \in E, NEW f \in E, e # f
  PROVE  /\ Precedes(E, e, f) <=> ~Precedes(E, f, e)
         /\ Precedes(E, e, f) <=> Follows(E, f, e)
<1>1. /\ IsFiniteSet(S) /\ \A x \in S : x.ts \in Int /\ x.seq \in Nat
      /\ Numbered(S)
  BY TraceRulesAssumption
<1>2. PICK rank \in [S -> 1..Cardinality(S)] :
          \A x, p \in S : p.id = x.parent => p = x \/ rank[p] < rank[x]
  BY <1>1 DEF Numbered
<1>3. Cardinality(S) \in Nat /\ rank[e] \in Nat /\ rank[f] \in Nat
  BY <1>1, <1>2, FS_CardinalityType
<1>4. ~(IsAncestor(E, e, f) /\ IsAncestor(E, f, e))
  <2>1. IsAncestor(E, e, f) => rank[e] < rank[f]
    BY AncestorsRank, <1>1, <1>2
  <2>2. IsAncestor(E, f, e) => rank[f] < rank[e]
    BY AncestorsRank, <1>1, <1>2
  <2> QED
    BY <2>1, <2>2, <1>3
<1>5. KeyBefore(e, f) <=> ~KeyBefore(f, e)
  BY <1>1 DEF KeyBefore, Numbered
<1> QED
  BY <1>4, <1>5 DEF Precedes, Follows

\* Every rank is held: the keys order the events of a recording totally.
LEMMA Ranks ==
  ASSUME NEW S \in Recorded, NEW E \in SUBSET S, NEW i \in 1..Cardinality(E)
  PROVE  \E e \in E : Cardinality({f \in E : KeyBefore(f, e)}) = i - 1
<1> DEFINE before(e) == {f \in E : KeyBefore(f, e)}
           rank == [e \in E |-> Cardinality(before(e))]
           n == Cardinality(E)
<1>1. /\ IsFiniteSet(E) /\ n \in Nat
      /\ \A e \in E : e.ts \in Int /\ e.seq \in Nat
      /\ \A e, f \in E : e # f => KeyBefore(e, f) \/ KeyBefore(f, e)
  BY TraceRulesAssumption, FS_Subset, FS_CardinalityType DEF Numbered, KeyBefore
<1>2. \A e \in E : IsFiniteSet(before(e)) /\ Cardinality(before(e)) \in Nat
  BY <1>1, FS_Subset, FS_CardinalityType
<1>3. ASSUME NEW e \in E PROVE rank[e] \in 0..(n - 1)
  <2>1. e \notin before(e)
    BY <1>1 DEF KeyBefore
  <2>2. before(e) \subseteq E \ {e}
    BY <2>1
  <2>3. IsFiniteSet(E \ {e}) /\ Cardinality(E \ {e}) = n - 1
    BY <1>1, FS_RemoveElement
  <2>4. Cardinality(before(e)) <= n - 1
    BY <2>2, <2>3, FS_Subset
  <2>5. rank[e] = Cardinality(before(e)) /\ Cardinality(before(e)) \in Nat
    BY <1>2
  <2> HIDE DEF before, rank
  <2> QED
    BY <2>4, <2>5, <1>1
<1>4. ASSUME NEW e \in E, NEW f \in E, KeyBefore(e, f) PROVE rank[e] < rank[f]
  <2>1. before(e) \subseteq before(f) /\ e \in before(f) /\ e \notin before(e)
    BY <1>1, <1>4 DEF KeyBefore
  <2>2. before(e) # before(f)
    BY <2>1
  <2>3. Cardinality(before(e)) <= Cardinality(before(f))
        /\ Cardinality(before(e)) # Cardinality(before(f))
    BY <2>1, <2>2, <1>2, FS_Subset
  <2>4. /\ rank[e] = Cardinality(before(e)) /\ Cardinality(before(e)) \in Nat
        /\ rank[f] = Cardinality(before(f)) /\ Cardinality(before(f)) \in Nat
    BY <1>2
  <2> HIDE DEF before, rank
  <2> QED
    BY <2>3, <2>4
<1>5. \A e, f \in E : rank[e] = rank[f] => e = f
  <2> \A e \in E : rank[e] \in Nat
    BY <1>3, <1>1
  <2> HIDE DEF before, rank
  <2> QED
    BY <1>4, <1>1
<1>6. rank \in Injection(E, 0..(n - 1))
  BY <1>3, <1>5 DEF Injection, IsInjective
<1>7. IsFiniteSet(0..(n - 1)) /\ Cardinality(0..(n - 1)) = n
  <2>1. n - 1 \in Int /\ 0 \in Int /\ n - 1 - 0 + 1 = n
    BY <1>1
  <2> HIDE DEF n
  <2>2. (0 > n - 1 => n = 0) /\ (0 <= n - 1 => (n - 1) - 0 + 1 = n)
    BY <1>1
  <2> QED
    BY <2>1, <2>2, FS_Interval, FS_EmptySet
<1> HIDE DEF rank, n
<1>8. rank \in Surjection(E, 0..(n - 1))
  BY <1>6, <1>7, FS_Injection DEF n
<1>9. i - 1 \in 0..(n - 1)
  BY <1>1 DEF n
<1>10. PICK e \in E : rank[e] = i - 1
  BY <1>8, <1>9 DEF Surjection
<1> QED
  BY <1>10 DEF rank

\* Sorting by key loses nothing.
LEMMA InOrderHoldsAll ==
  ASSUME NEW S \in Recorded, NEW E \in SUBSET S
  PROVE  ToSet(InOrder(E)) = E
<1> DEFINE t == InOrder(E)
           before(e) == {f \in E : KeyBefore(f, e)}
<1>1. DOMAIN t = 1..Cardinality(E) /\ IsFiniteSet(E) /\ Cardinality(E) \in Nat
  BY TraceRulesAssumption, FS_Subset, FS_CardinalityType DEF InOrder
<1>2. \A i \in 1..Cardinality(E) : t[i] \in E /\ Cardinality(before(t[i])) = i - 1
  BY Ranks DEF InOrder
<1>3. ASSUME NEW e \in E PROVE e \in ToSet(t)
  <2> DEFINE k == Cardinality(before(e)) + 1
  <2>1. e \notin before(e)
    BY TraceRulesAssumption DEF KeyBefore
  <2>2. IsFiniteSet(E \ {e}) /\ Cardinality(E \ {e}) = Cardinality(E) - 1
    BY <1>1, FS_RemoveElement
  <2>3. Cardinality(before(e)) \in Nat /\ Cardinality(before(e)) <= Cardinality(E) - 1
    BY <2>1, <2>2, FS_Subset, FS_CardinalityType
  <2>4. k \in 1..Cardinality(E)
    BY <2>3, <1>1
  <2>5. t[k] \in E /\ Cardinality(before(t[k])) = Cardinality(before(e))
    BY <2>4, <1>2, <2>3
  <2>6. ASSUME NEW x \in E, NEW y \in E, KeyBefore(x, y)
        PROVE  Cardinality(before(x)) # Cardinality(before(y))
    <3>1. before(x) \subseteq before(y) /\ x \in before(y) /\ x \notin before(x)
      BY TraceRulesAssumption, <2>6 DEF KeyBefore
    <3>2. before(x) # before(y) /\ IsFiniteSet(before(y))
      BY <3>1, <1>1, FS_Subset
    <3> QED
      BY <3>1, <3>2, FS_Subset
  <2>7. t[k] = e
    BY <2>5, <2>6, TraceRulesAssumption DEF KeyBefore, Numbered
  <2> QED
    BY <2>7, <2>4, <1>1 DEF ToSet
<1> QED
  BY <1>1, <1>2, <1>3 DEF ToSet

\* The verdict on a trace depends on the set of its events.
LEMMA OnlyTheSet ==
  ASSUME NEW r, NEW s, NEW t, ToSet(s) = ToSet(t)
  PROVE  EvaluateRule(r, s) = EvaluateRule(r, t)
<1> DEFINE Places == NodesOf(r) \X (ToSet(t) \cup {RootAnchor}) \X Depths
           Evaluates(f, tr) == f = [place \in Places |-> EvalNode(f, place[1], tr, place[2], place[3])]
<1>1. \A m, anchor, window : Matches(m, s, anchor, window) = Matches(m, t, anchor, window)
  BY DEF Matches
<1>2. \A f, node, anchor, depth :
          EvalNode(f, node, s, anchor, depth) = EvalNode(f, node, t, anchor, depth)
  BY <1>1 DEF EvalNode
<1>3. \A f : Evaluates(f, s) <=> Evaluates(f, t)
  BY <1>2
<1> HIDE DEF Evaluates
<1>4. (CHOOSE f : Evaluates(f, s)) = (CHOOSE f : Evaluates(f, t))
  BY <1>3
<1> QED
  BY <1>4 DEF EvaluateRule, Evaluates

\* Whatever of a recording is stored, in whatever order it arrived, exactly one of
\* two events precedes the other (trace_rules.py:145-166): OrderIsDecided.
THEOREM OrderDecided == TraceSpec => []OrderIsDecided
<1>1. Stored => OrderIsDecided
  <2> SUFFICES ASSUME Stored PROVE OrderIsDecided
    OBVIOUS
  <2>1. PICK S \in Recorded : ToSet(trace) \subseteq S
    BY DEF Stored
  <2> QED
    BY <2>1, Decided DEF OrderIsDecided
<1> QED
  BY <1>1, StoredInit, StoredStep, PTL DEF TraceSpec

\* A rule has one result for a set of stored events, whatever order they arrived in
\* (trace_rules.py): ArrivalOrderIrrelevant.
THEOREM OrderIrrelevant == TraceSpec => []ArrivalOrderIrrelevant
<1>1. Stored => ArrivalOrderIrrelevant
  <2> SUFFICES ASSUME Stored PROVE ArrivalOrderIrrelevant
    OBVIOUS
  <2>1. PICK S \in Recorded : ToSet(trace) \subseteq S
    BY DEF Stored
  <2>2. ToSet(InOrder(ToSet(trace))) = ToSet(trace)
    BY <2>1, InOrderHoldsAll
  <2> QED
    BY <2>2, OnlyTheSet DEF ArrivalOrderIrrelevant
<1> QED
  BY <1>1, StoredInit, StoredStep, PTL DEF TraceSpec
=============================================================================
