---------------------------- MODULE Installation ----------------------------
(***************************************************************************)
(* The secret material of one installation: the key of the secret store    *)
(* (install_state.py), the secrets encrypted with it (secrets.py), and the *)
(* certificate authority of the interception proxy (egress/ca.py). The     *)
(* processes of an installation load or create the material at any time,   *)
(* each at its own pace, and die at any point.                             *)
(***************************************************************************)
EXTENDS Integers, FiniteSets

CONSTANTS
    Installers,   \* the processes
    Secrets,      \* the secret references of one workspace
    MaxWrites,    \* bound on the values written to secrets
    MaxDeaths,    \* bound on the deaths of processes
    Nothing       \* no file, no key, no row

ASSUME InstallationAssumption ==
    /\ IsFiniteSet(Installers) /\ IsFiniteSet(Secrets)
    /\ {MaxWrites, MaxDeaths} \subseteq Nat
    /\ Nothing \notin Nat

VARIABLES
    keyFile,    \* secret.key: the key it holds
    certFile,   \* interception-ca.pem: whose certificate
    caKeyFile,  \* interception-ca.key: whose key, Empty before it is written
    process,    \* a process: its step, the key and authority it made or holds
    locked,     \* SQLite: a transaction that writes excludes the others
    rows,       \* secret_refs
    newest,     \* the value last written to a secret
    made,       \* how much key material was made
    died        \* how many processes died

installVars == <<keyFile, certFile, caKeyFile, process, locked, rows, newest, made, died>>
files == <<keyFile, certFile, caKeyFile>>
secretVars == <<locked, rows, newest>>

Empty == 0
Down == [at |-> "down", key |-> Nothing, cert |-> Nothing, caKey |-> Nothing,
         decoded |-> {}]

\* An installation of the prototype has a key file already, and rows that were
\* encrypted with it; one that is damaged does not verify.
LegacyRow(sound) == [form |-> "legacy", key |-> 0, value |-> 0, sound |-> sound]
Row(key, value) == [form |-> "v1", key |-> key, value |-> value, sound |-> TRUE]

InstallInit ==
    /\ locked \in BOOLEAN
    /\ keyFile \in {0, Nothing}
    /\ certFile = Nothing /\ caKeyFile = Nothing
    /\ process = [p \in Installers |-> Down]
    /\ rows \in IF keyFile = 0 THEN [Secrets -> {LegacyRow(TRUE), LegacyRow(FALSE), Nothing}]
                ELSE {[s \in Secrets |-> Nothing]}
    /\ newest = [s \in Secrets |-> 0]
    /\ made = 1 /\ died = 0

Doing(p, at) == process[p].at = at
Move(p, record) == process' = [process EXCEPT ![p] = record]

-----------------------------------------------------------------------------
(***************************************************************************)
(* install_state._load_or_create_key                                       *)
(***************************************************************************)
\* The key is read; without one a new key is made, which takes the process to
\* a temporary file that no other sees.
LoadKey(p) ==
    /\ Doing(p, "down")
    /\ IF keyFile = Nothing
       THEN Move(p, [process[p] EXCEPT !.at = "staged", !.key = made]) /\ made' = made + 1
       ELSE Move(p, [process[p] EXCEPT !.at = "keyed", !.key = keyFile]) /\ made' = made
    /\ UNCHANGED <<files, secretVars, died>>

\* Mutant of Published: the key takes the place of what is there (os.replace).
PublishedOver(key) == key

\* os.link fails when there is a key, and the winner's is adopted.
Published(key) == IF keyFile = Nothing THEN key ELSE keyFile

PublishKey(p) ==
    /\ Doing(p, "staged")
    /\ keyFile' = Published(process[p].key)
    /\ Move(p, [process[p] EXCEPT !.at = "keyed", !.key = Published(process[p].key)])
    /\ UNCHANGED <<certFile, caKeyFile, secretVars, made, died>>

-----------------------------------------------------------------------------
(***************************************************************************)
(* InstallCA.load_or_create                                                *)
(***************************************************************************)
\* Half of the material is refused; all of it is read, the certificate first.
LoadCA(p) ==
    /\ Doing(p, "keyed")
    /\ IF certFile = Nothing /\ caKeyFile = Nothing
       THEN Move(p, [process[p] EXCEPT !.at = "made", !.cert = made]) /\ made' = made + 1
       ELSE /\ Move(p, IF Nothing \in {certFile, caKeyFile}
                       THEN [process[p] EXCEPT !.at = "refused"]
                       ELSE [process[p] EXCEPT !.at = "read", !.cert = certFile])
            /\ made' = made
    /\ UNCHANGED <<files, secretVars, died>>

ReadCAKey(p) ==
    /\ Doing(p, "read")
    /\ Move(p, [process[p] EXCEPT !.at = "ready", !.caKey = caKeyFile])
    /\ UNCHANGED <<files, secretVars, made, died>>

\* Mutant of CreatesOver: the files are opened without O_EXCL.
CreatesAlways(file) == TRUE

\* _exclusive_write.
CreatesOver(file) == file = Nothing

WriteCert(p) ==
    /\ Doing(p, "made")
    /\ IF CreatesOver(certFile)
       THEN certFile' = process[p].cert /\ Move(p, [process[p] EXCEPT !.at = "certified"])
       ELSE certFile' = certFile /\ Move(p, [process[p] EXCEPT !.at = "refused", !.cert = Nothing])
    /\ UNCHANGED <<keyFile, caKeyFile, secretVars, made, died>>

\* The file of the key is there before its content is.
CreateCAKey(p) ==
    /\ Doing(p, "certified")
    /\ IF CreatesOver(caKeyFile)
       THEN caKeyFile' = Empty /\ Move(p, [process[p] EXCEPT !.at = "created"])
       ELSE caKeyFile' = caKeyFile /\ Move(p, [process[p] EXCEPT !.at = "refused", !.cert = Nothing])
    /\ UNCHANGED <<keyFile, certFile, secretVars, made, died>>

WriteCAKey(p) ==
    /\ Doing(p, "created")
    /\ caKeyFile' = process[p].cert
    /\ Move(p, [process[p] EXCEPT !.at = "ready", !.caKey = process[p].cert])
    /\ UNCHANGED <<keyFile, certFile, secretVars, made, died>>

-----------------------------------------------------------------------------
(***************************************************************************)
(* SecretStore: every process that has the key may write.                  *)
(***************************************************************************)
HasKey(p) == process[p].at \notin {"down", "staged", "migrating"}
Unlocked == ~locked \/ \A p \in Installers : ~Doing(p, "migrating")

\* put, for a reference that is new, and rotate, for one that is there.
PutOrRotate(p, s) ==
    /\ HasKey(p) /\ Unlocked /\ newest[s] < MaxWrites
    /\ newest' = [newest EXCEPT ![s] = @ + 1]
    /\ rows' = [rows EXCEPT ![s] = Row(process[p].key, newest[s] + 1)]
    /\ UNCHANGED <<files, process, locked, made, died>>

\* _decrypt_legacy authenticates a row before it decrypts it.
Verifies(p, s) == rows[s].sound /\ rows[s].key = process[p].key
LegacyRows == {s \in Secrets : rows[s] # Nothing /\ rows[s].form = "legacy"}

\* Mutant of Decoded: rows that do not verify are skipped.
DecodedSkipping(p) == {<<s, rows[s].value>> : s \in {t \in LegacyRows : Verifies(p, t)}}

\* migrate_legacy_secrets reads and decodes every row that is not of the
\* current form before it rewrites one; one that does not verify ends it.
Decoded(p) ==
    IF \A s \in LegacyRows : Verifies(p, s) THEN {<<s, rows[s].value>> : s \in LegacyRows} ELSE {}

StartMigration(p) ==
    /\ Doing(p, "ready") /\ Unlocked
    /\ Move(p, [process[p] EXCEPT !.at = "migrating", !.decoded = Decoded(p)])
    /\ UNCHANGED <<files, secretVars, made, died>>

\* What was decoded is written, whatever the rows hold by now.
Migrate(p) ==
    /\ Doing(p, "migrating")
    /\ rows' = [s \in Secrets |->
                  IF \E d \in process[p].decoded : d[1] = s
                  THEN Row(process[p].key, (CHOOSE d \in process[p].decoded : d[1] = s)[2])
                  ELSE rows[s]]
    /\ Move(p, [process[p] EXCEPT !.at = "ready", !.decoded = {}])
    /\ UNCHANGED <<files, locked, newest, made, died>>

\* resolve.
Resolved(p, s) ==
    IF rows[s].form = "legacy" THEN "secret_legacy_ciphertext"
    ELSE IF rows[s].key = process[p].key THEN "value" ELSE "secret_corrupt"

\* A process dies, what it staged is left behind; another may take its place.
InstallerDies(p) ==
    /\ ~Doing(p, "down") /\ died < MaxDeaths
    /\ Move(p, Down)
    /\ died' = died + 1
    /\ UNCHANGED <<files, secretVars, made>>

InstallNext ==
    \E p \in Installers :
        \/ LoadKey(p) \/ PublishKey(p) \/ LoadCA(p) \/ ReadCAKey(p)
        \/ WriteCert(p) \/ CreateCAKey(p) \/ WriteCAKey(p)
        \/ StartMigration(p) \/ Migrate(p) \/ InstallerDies(p)
        \/ \E s \in Secrets : PutOrRotate(p, s)

InstallSpec == InstallInit /\ [][InstallNext]_installVars

-----------------------------------------------------------------------------
(***************************************************************************)
(* What is promised                                                        *)
(***************************************************************************)
\* A row whose value is still that of the prototype.
Migrated(s) == rows[s] # Nothing /\ rows[s].value = 0

\* However many processes install at once and wherever they die, whoever holds
\* the key holds the one on disk, every secret of the current form resolves
\* for every one of them, and on SQLite, where a migration excludes the other
\* writers, to the value that was last written to it; and a migration leaves no
\* row of the old form behind (_load_or_create_key, SecretStore.put, rotate,
\* resolve, migrate_legacy_secrets).
SecretsReadable ==
    /\ \A p \in Installers : process[p].at \notin {"down", "staged"} =>
           /\ process[p].key = keyFile
           /\ \A s \in Secrets : rows[s] # Nothing =>
                 /\ Resolved(p, s) # "secret_corrupt"
                 /\ locked => rows[s].value = newest[s]
    /\ \A s \in Secrets \ LegacyRows : Migrated(s) => LegacyRows = {}

\* Every certificate authority in use is the one on disk, and its certificate
\* belongs to its key, but for a process that read the file of the key before
\* it was written (InstallCA.load_or_create).
OneAuthority ==
    /\ certFile # Nothing /\ caKeyFile \notin {Nothing, Empty} => caKeyFile = certFile
    /\ \A p \in Installers : Doing(p, "ready") =>
          process[p].cert = certFile /\ process[p].caKey \in {Empty, certFile}

\* The material of an installation agrees on disk, in the processes and in the
\* rows (install_state.py, secrets.py, egress/ca.py).
InstallationAgrees == SecretsReadable /\ OneAuthority
=============================================================================
