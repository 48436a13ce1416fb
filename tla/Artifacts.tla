------------------------------ MODULE Artifacts ------------------------------
(***************************************************************************)
(* Artifacts of one workspace: a file and a row each, published together   *)
(* by put, swept by recover, deleted by delete_unreferenced (artifacts.py, *)
(* operations.py), and referenced by immutable versions (versions.py; the  *)
(* foreign key of migrations/0001_workflow_objects.sql); and one backup of *)
(* the workspace that is taken meanwhile and restored elsewhere.           *)
(*                                                                         *)
(* Transactions are PostgreSQL's, of several processes: put and recover    *)
(* hold an advisory lock to their end, version creation and deletion only  *)
(* the locks their statements take. Files change at once and outlive every *)
(* process. The stage file is part of the step that leaves it behind.      *)
(***************************************************************************)
EXTENDS Naturals

CONSTANTS
    Artifact,     \* artifact ids, each put once
    Version,      \* versions to be created, each with one artifact
    MaxCrashes,   \* bound on processes that die and acknowledgments lost
    Free          \* the advisory lock is not held

ASSUME ArtifactsAssumption ==
    MaxCrashes \in Nat /\ Free \notin Artifact \cup {"recover"} /\ "recover" \notin Artifact

VARIABLES
    file,      \* per artifact: no file, a stage file, or the file under its final name
    row,       \* the artifacts whose row is committed
    refs,      \* version_artifacts, committed
    lock,      \* who holds pg_advisory_xact_lock
    put,       \* per artifact: where its put is
    remove,    \* per artifact: where its deletion is
    create,    \* per version: where its creation is, and its artifact
    sweep,     \* recover: where it is, and the rows it listed
    archive,   \* the backup: its stage, the references dumped, the artifacts
               \* still to be copied, and those whose file it holds
    crashes

artifactsVars == <<file, row, refs, lock, put, remove, create, sweep, archive, crashes>>

ArtifactsInit ==
    /\ file = [a \in Artifact |-> "none"]
    /\ row = {} /\ refs = {} /\ lock = Free
    /\ put = [a \in Artifact |-> "new"]
    /\ remove = [a \in Artifact |-> "idle"]
    /\ create = [v \in Version |-> [at |-> "new", uses |-> {}]]
    /\ sweep = [at |-> "idle", committed |-> {}]
    /\ archive = [at |-> "none", refs |-> {}, todo |-> {}, files |-> {}]
    /\ crashes = 0

Mishap == crashes < MaxCrashes /\ crashes' = crashes + 1
FileTo(a, state) == file' = [file EXCEPT ![a] = state]
PutTo(a, stage) == put' = [put EXCEPT ![a] = stage]

-----------------------------------------------------------------------------
\* Mutant of LockFree: no advisory lock.
LockIgnored == TRUE

LockFree == lock = Free

\* The transaction opens, the lock is taken and the stage file is written.
Stage(a) ==
    /\ put[a] = "new" /\ LockFree
    /\ lock' = a
    /\ FileTo(a, "stage") /\ PutTo(a, "staged")
    /\ UNCHANGED <<row, refs, remove, create, sweep, crashes, archive>>

\* os.replace and the fsync of the directory.
Rename(a) ==
    /\ put[a] = "staged"
    /\ FileTo(a, "final") /\ PutTo(a, "renamed")
    /\ UNCHANGED <<row, refs, lock, remove, create, sweep, crashes, archive>>

CommitPut(a) ==
    /\ put[a] = "renamed"
    /\ row' = row \cup {a} /\ lock' = Free
    /\ PutTo(a, "ready")
    /\ UNCHANGED <<file, refs, remove, create, sweep, crashes, archive>>

\* Something raises inside the transaction, which rolls back; the except
\* clause comes after it.
FailPut(a) ==
    /\ put[a] \in {"staged", "renamed"} /\ Mishap
    /\ lock' = Free /\ PutTo(a, "cleanup")
    /\ UNCHANGED <<file, row, refs, remove, create, sweep, archive>>

\* The connection breaks during COMMIT: the server committed, the client raises.
LoseAcknowledgment(a) ==
    /\ put[a] = "renamed" /\ Mishap
    /\ row' = row \cup {a} /\ lock' = Free
    /\ PutTo(a, "lost")
    /\ UNCHANGED <<file, refs, remove, create, sweep, archive>>

\* except BaseException: both files are unlinked.
CleanUp(a) ==
    /\ put[a] \in {"cleanup", "lost"}
    /\ FileTo(a, "none")
    /\ PutTo(a, IF put[a] = "lost" THEN "unknown" ELSE "failed")
    /\ UNCHANGED <<row, refs, lock, remove, create, sweep, crashes, archive>>

CrashPut(a) ==
    /\ put[a] \in {"staged", "renamed", "cleanup"} /\ Mishap
    /\ lock' = IF lock = a THEN Free ELSE lock
    /\ PutTo(a, "failed")
    /\ UNCHANGED <<file, row, refs, remove, create, sweep, archive>>

-----------------------------------------------------------------------------
(***************************************************************************)
(* recover                                                                 *)
(***************************************************************************)
ListRows ==
    /\ sweep.at = "idle" /\ LockFree
    /\ lock' = "recover"
    /\ sweep' = [at |-> "sweeping", committed |-> row]
    /\ UNCHANGED <<file, row, refs, put, remove, create, crashes, archive>>

\* Files of no listed row, stage files first of all.
Unlink(a) ==
    /\ sweep.at = "sweeping" /\ file[a] # "none" /\ a \notin sweep.committed
    /\ FileTo(a, "none")
    /\ UNCHANGED <<row, refs, lock, put, remove, create, sweep, crashes, archive>>

EndRecover ==
    /\ sweep.at = "sweeping"
    /\ sweep' = [at |-> "idle", committed |-> {}]
    /\ lock' = IF lock = "recover" THEN Free ELSE lock
    /\ UNCHANGED <<file, row, refs, put, remove, create, crashes, archive>>

-----------------------------------------------------------------------------
(***************************************************************************)
(* VersionStore.create with an artifact, and delete_unreferenced           *)
(***************************************************************************)
\* The row lock of a: an uncommitted reference shares it, an uncommitted
\* deletion excludes it.
Referencing(a) == {v \in Version : create[v].at = "referenced" /\ create[v].uses = {a}}
Deleting(a) == remove[a] = "deleted"

Referenced(a) == \E v \in Version : <<v, a>> \in refs

CheckReady(v, a) ==
    /\ create[v].at = "new" /\ a \in row
    /\ create' = [create EXCEPT ![v] = [at |-> "checked", uses |-> {a}]]
    /\ UNCHANGED <<file, row, refs, lock, put, remove, sweep, crashes, archive>>

\* Mutant of KeyHolds: no foreign key.
KeyUnchecked(a) == TRUE

\* The foreign key of version_artifacts, once no deletion is in the way.
KeyHolds(a) == a \in row

InsertReference(v, a) ==
    /\ create[v].at = "checked" /\ create[v].uses = {a} /\ ~Deleting(a)
    /\ create' = [create EXCEPT ![v].at = IF KeyHolds(a) THEN "referenced" ELSE "refused"]
    /\ UNCHANGED <<file, row, refs, lock, put, remove, sweep, crashes, archive>>

CommitVersion(v) ==
    /\ create[v].at = "referenced"
    /\ create' = [create EXCEPT ![v].at = "created"]
    /\ refs' = refs \cup {<<v, a>> : a \in create[v].uses}
    /\ UNCHANGED <<file, row, lock, put, remove, sweep, crashes, archive>>

AbortVersion(v) ==
    /\ create[v].at \in {"checked", "referenced"} /\ Mishap
    /\ create' = [create EXCEPT ![v].at = "refused"]
    /\ UNCHANGED <<file, row, refs, lock, put, remove, sweep, archive>>

RemoveTo(a, stage) == remove' = [remove EXCEPT ![a] = stage]

CheckReferences(a) ==
    /\ remove[a] = "idle" /\ put[a] \in {"ready", "unknown"}
    /\ RemoveTo(a, IF Referenced(a) \/ a \notin row THEN "kept" ELSE "checked")
    /\ UNCHANGED <<file, row, refs, lock, put, create, sweep, crashes, archive>>

\* DELETE waits for uncommitted references; the foreign key refuses it when
\* one has been committed since.
DeleteRow(a) ==
    /\ remove[a] = "checked" /\ Referencing(a) = {}
    /\ RemoveTo(a, IF Referenced(a) THEN "kept" ELSE "deleted")
    /\ UNCHANGED <<file, row, refs, lock, put, create, sweep, crashes, archive>>

CommitDelete(a) ==
    /\ remove[a] = "deleted"
    /\ row' = row \ {a}
    /\ RemoveTo(a, "unlink")
    /\ UNCHANGED <<file, refs, lock, put, create, sweep, crashes, archive>>

\* Outside the transaction.
UnlinkDeleted(a) ==
    /\ remove[a] = "unlink"
    /\ FileTo(a, "none")
    /\ RemoveTo(a, "gone")
    /\ UNCHANGED <<row, refs, lock, put, create, sweep, crashes, archive>>

CrashDelete(a) ==
    /\ remove[a] \in {"checked", "deleted", "unlink"} /\ Mishap
    /\ RemoveTo(a, IF remove[a] = "unlink" THEN "gone" ELSE "idle")
    /\ UNCHANGED <<file, row, refs, lock, put, create, sweep, archive>>

-----------------------------------------------------------------------------
(***************************************************************************)
(* backup_workspace and restore (operations.py)                            *)
(***************************************************************************)
OnlyArchive == UNCHANGED <<file, row, refs, lock, put, remove, create, sweep>>
ArchiveTo(stage) == archive' = [archive EXCEPT !.at = stage]
SpoiledArchive == [at |-> "failed", refs |-> {}, todo |-> {}, files |-> {}]

\* The database is dumped first, the rows are listed after it.
DumpDatabase ==
    /\ archive.at = "none"
    /\ archive' = [archive EXCEPT !.at = "dumped", !.refs = refs]
    /\ OnlyArchive /\ UNCHANGED crashes

ListArtifacts ==
    /\ archive.at = "dumped"
    /\ archive' = [archive EXCEPT !.at = "copying", !.todo = row]
    /\ OnlyArchive /\ UNCHANGED crashes

\* get: the row is read again, then the file. One that is gone by now, or was
\* never there, ends the backup.
CopyArtifact(a) ==
    /\ archive.at = "copying" /\ a \in archive.todo
    /\ archive' = IF a \in row /\ file[a] = "final"
                  THEN [archive EXCEPT !.todo = @ \ {a}, !.files = @ \cup {a}]
                  ELSE SpoiledArchive
    /\ OnlyArchive /\ UNCHANGED crashes

SealArchive ==
    /\ archive.at = "copying" /\ archive.todo = {}
    /\ ArchiveTo("sealed") /\ OnlyArchive /\ UNCHANGED crashes

\* Every member of the manifest has its checksum, or nothing is restored; then
\* the database, then the files, into destinations that do not exist.
RestoreDatabase ==
    /\ archive.at = "sealed"
    /\ ArchiveTo("database") /\ OnlyArchive /\ UNCHANGED crashes

RestoreArtifacts ==
    /\ archive.at = "database"
    /\ ArchiveTo("restored") /\ OnlyArchive /\ UNCHANGED crashes

\* The backup or the restore dies, or the archive is damaged: a database that
\* was restored without its files stays, and refuses the next restore.
SpoilArchive ==
    /\ archive.at \in {"dumped", "copying", "sealed", "database"} /\ Mishap
    /\ archive' = SpoiledArchive /\ OnlyArchive

ArtifactsNext ==
    \/ \E a \in Artifact :
           \/ Stage(a) \/ Rename(a) \/ CommitPut(a) \/ FailPut(a) \/ LoseAcknowledgment(a)
           \/ CleanUp(a) \/ CrashPut(a) \/ Unlink(a)
           \/ CheckReferences(a) \/ DeleteRow(a) \/ CommitDelete(a) \/ UnlinkDeleted(a)
           \/ CrashDelete(a)
    \/ \E v \in Version : \/ CommitVersion(v) \/ AbortVersion(v)
                          \/ \E a \in Artifact : CheckReady(v, a) \/ InsertReference(v, a)
    \/ ListRows \/ EndRecover
    \/ DumpDatabase \/ ListArtifacts \/ SealArchive \/ RestoreDatabase \/ RestoreArtifacts
    \/ SpoilArchive
    \/ \E a \in Artifact : CopyArtifact(a)

ArtifactsSpec == ArtifactsInit /\ [][ArtifactsNext]_artifactsVars

-----------------------------------------------------------------------------
(***************************************************************************)
(* Properties                                                              *)
(***************************************************************************)
\* A row is committed only for an artifact that was put, a file under its
\* final name is as old, and the lock is held by who is inside (artifacts.py).
ArtifactsTypeOK ==
    /\ file \in [Artifact -> {"none", "stage", "final"}]
    /\ \A a \in Artifact :
          /\ a \in row => put[a] \in {"ready", "lost", "unknown"}
          /\ put[a] \in {"staged", "renamed"} => lock = a
          /\ put[a] = "new" => file[a] = "none" /\ remove[a] = "idle"
    /\ refs \subseteq Version \X Artifact
    /\ sweep.at = "sweeping" => lock = "recover"

\* "Recovery removes uncommitted files after a process crash while retaining
\* committed evidence": a committed artifact keeps its file through puts,
\* sweeps, deletions and crashes of other processes; only a put whose commit
\* was not acknowledged may have unlinked it (ArtifactStore).
CommittedHasFile == \A a \in row : file[a] = "final" \/ put[a] = "unknown"

\* Whatever a committed version references exists, although deletion checks
\* the references without the lock (delete_unreferenced); and a restored backup
\* has the file of whatever it references, although its files were listed and
\* read after its database was dumped (backup_postgres, backup_workspace).
ReferencedExists ==
    /\ \A v \in Version : \A a \in Artifact : <<v, a>> \in refs => a \in row
    /\ archive.at = "restored" =>
          \A v \in Version : \A a \in Artifact : <<v, a>> \in archive.refs => a \in archive.files
=============================================================================
