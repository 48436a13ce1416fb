-------------------------- MODULE BackgroundProofs --------------------------
(***************************************************************************)
(* Theorems about three components behind the api that share no state: the *)
(* containers, the installation, and the conversations with remote agents. *)
(***************************************************************************)
EXTENDS Containers, Installation, Conversations, FiniteSetTheorems, WellFoundedInduction, TLAPS

-----------------------------------------------------------------------------
(***************************************************************************)
(* The installation                                                        *)
(***************************************************************************)
InstallSteps == {"down", "staged", "keyed", "made", "read", "ready", "refused",
                 "certified", "created", "migrating"}
Material == Nat \cup {Nothing}
ProcessRecord == [at : InstallSteps, key : Material, cert : Material, caKey : Material,
                  decoded : SUBSET (Secrets \X Nat)]
StoredRow == {Nothing} \cup [form : {"legacy", "v1"}, key : Nat, value : Nat, sound : BOOLEAN]

\* What a process at its step knows of the files. A certificate is written by
\* whoever found none, so one that is past writing it holds the one on disk.
InformedBy(r) ==
    /\ r.at \notin {"down", "staged"} => r.key = keyFile /\ keyFile # Nothing
    /\ r.at \in {"staged"} => r.key # Nothing
    /\ r.at = "made" => r.cert # Nothing
    /\ r.at \in {"certified", "created", "read", "ready", "migrating"} =>
          r.cert = certFile /\ certFile # Nothing
    /\ r.at = "read" => caKeyFile # Nothing
    /\ r.at \in {"ready", "migrating"} => r.caKey \in {Empty, certFile}

\* What a process that migrates has read: every row that is of the old form
\* still, or nothing; and on SQLite what was last written.
DecodedBy(r) ==
    r.at = "migrating" =>
        /\ locked => \A d \in r.decoded : d[2] = newest[d[1]]
        /\ r.decoded = {} \/ \A s \in LegacyRows : \E d \in r.decoded : d[1] = s

\* The files: a certificate comes before its key.
FilesAgree ==
    /\ keyFile \in Material /\ certFile \in Material
    /\ caKeyFile \in {Nothing, Empty, certFile}
    /\ caKeyFile # Nothing => certFile # Nothing

\* The rows: encrypted with the key on disk, and once one was migrated none is
\* of the old form.
RowsAgree ==
    /\ rows \in [Secrets -> StoredRow] /\ newest \in [Secrets -> Nat]
    /\ \A s \in Secrets : rows[s] # Nothing =>
          /\ keyFile # Nothing /\ rows[s].key = keyFile
          /\ locked => rows[s].value = newest[s]
    /\ \A s \in Secrets \ LegacyRows : Migrated(s) => LegacyRows = {}

\* The inductive invariant of the installation.
Installed ==
    /\ made \in Nat
    /\ process \in [Installers -> ProcessRecord]
    /\ FilesAgree /\ RowsAgree
    /\ \A p \in Installers : InformedBy(process[p]) /\ DecodedBy(process[p])

USE InstallationAssumption

\* It holds of an installation that starts, an old one included.
LEMMA InstalledInit == InstallInit => Installed
<1> SUFFICES ASSUME InstallInit PROVE Installed
  OBVIOUS
<1>1. /\ Down \in ProcessRecord /\ Down.at = "down"
  BY DEF Down, ProcessRecord, InstallSteps, Material
<1>2. FilesAgree /\ made \in Nat
  BY DEF InstallInit, FilesAgree, Material
<1>3. \A b \in BOOLEAN : /\ LegacyRow(b) \in StoredRow /\ LegacyRow(b).key = 0
                         /\ LegacyRow(b).value = 0 /\ LegacyRow(b).form = "legacy"
  BY DEF LegacyRow, StoredRow
<1>4. /\ rows \in [Secrets -> StoredRow] /\ newest \in [Secrets -> Nat]
      /\ \A s \in Secrets : rows[s] # Nothing =>
            /\ keyFile = 0 /\ rows[s].key = 0 /\ rows[s].value = 0 /\ rows[s].form = "legacy"
            /\ newest[s] = 0
  BY <1>3 DEF InstallInit, StoredRow
<1>5. RowsAgree
  BY <1>4 DEF RowsAgree, Migrated, LegacyRows
<1>6. \A p \in Installers : process[p] = Down
  BY DEF InstallInit
<1>7. process \in [Installers -> ProcessRecord]
  BY <1>1 DEF InstallInit
<1> QED BY <1>1, <1>2, <1>5, <1>6, <1>7 DEF Installed, InformedBy, DecodedBy

\* A process that moves has to be informed where it goes; the others are still
\* informed when files only come into being, and the rows stay.
LEMMA Moves ==
    ASSUME Installed, NEW p \in Installers, NEW r \in ProcessRecord, Move(p, r),
           made' \in Nat, FilesAgree', UNCHANGED secretVars,
           keyFile \in {Nothing, keyFile'}, certFile \in {Nothing, certFile'},
           caKeyFile # Nothing => caKeyFile' # Nothing,
           r.at \notin {"down", "staged"} => r.key = keyFile' /\ keyFile' # Nothing,
           r.at \in {"staged"} => r.key # Nothing,
           r.at = "made" => r.cert # Nothing,
           r.at \in {"certified", "created", "read", "ready", "migrating"} =>
              r.cert = certFile' /\ certFile' # Nothing,
           r.at = "read" => caKeyFile' # Nothing,
           r.at \in {"ready", "migrating"} => r.caKey \in {Empty, certFile'},
           DecodedBy(r)
    PROVE  Installed'
<1>1. process' \in [Installers -> ProcessRecord]
  BY DEF Installed, Move
<1>2. ASSUME NEW q \in Installers
      PROVE  process'[q] = r \/ process'[q] = process[q]
  BY DEF Installed, Move
<1>3. RowsAgree'
  BY DEF Installed, RowsAgree, secretVars, LegacyRows, Migrated
<1>4. ASSUME NEW q \in Installers PROVE InformedBy(process[q])'
  <2>1. CASE process'[q] = r
    BY <2>1 DEF InformedBy
  <2>2. CASE process'[q] = process[q]
    <3>1. InformedBy(process[q])
      BY DEF Installed
    <3> QED BY <2>2, <3>1 DEF InformedBy
  <2> QED BY <1>2, <2>1, <2>2
<1>5. LegacyRows' = LegacyRows /\ locked' = locked /\ newest' = newest
  BY DEF LegacyRows, secretVars
<1>6. ASSUME NEW q \in Installers PROVE DecodedBy(process[q])'
  <2>1. CASE process'[q] = r
    BY <1>5, <2>1 DEF DecodedBy
  <2>2. CASE process'[q] = process[q]
    <3>1. DecodedBy(process[q])
      BY DEF Installed
    <3> QED BY <1>5, <2>2, <3>1 DEF DecodedBy
  <2> QED BY <1>2, <2>1, <2>2
<1> QED BY <1>1, <1>3, <1>4, <1>6 DEF Installed

\* install_state: a key is read or made, and published unless there is one.
LEMMA InstalledKey ==
    ASSUME Installed, NEW p \in Installers, LoadKey(p) \/ PublishKey(p) PROVE Installed'
<1>1. /\ process[p] \in ProcessRecord /\ made \in Nat /\ keyFile \in Material
      /\ made + 1 \in Nat /\ FilesAgree
  BY DEF Installed, FilesAgree
<1>2. UNCHANGED <<certFile, caKeyFile, secretVars>>
  BY DEF LoadKey, PublishKey, files
<1>3. CASE LoadKey(p) /\ keyFile = Nothing
  <2> DEFINE r == [process[p] EXCEPT !.at = "staged", !.key = made]
  <2>1. Move(p, r) /\ made' = made + 1 /\ UNCHANGED keyFile
    BY <1>3 DEF LoadKey, files
  <2>2. r \in ProcessRecord /\ r.at = "staged" /\ r.key = made
    BY <1>1 DEF ProcessRecord, InstallSteps, Material
  <2>3. made # Nothing
    BY <1>1
  <2>4. FilesAgree'
    BY <1>1, <1>2, <2>1 DEF FilesAgree
  <2>5. DecodedBy(r)
    BY <2>2 DEF DecodedBy
  <2> HIDE DEF r
  <2> QED BY <1>1, <1>2, <2>1, <2>2, <2>3, <2>4, <2>5, Moves
<1>4. CASE LoadKey(p) /\ keyFile # Nothing
  <2> DEFINE r == [process[p] EXCEPT !.at = "keyed", !.key = keyFile]
  <2>1. Move(p, r) /\ made' = made /\ UNCHANGED keyFile
    BY <1>4 DEF LoadKey, files
  <2>2. r \in ProcessRecord /\ r.at = "keyed" /\ r.key = keyFile
    BY <1>1 DEF ProcessRecord, InstallSteps
  <2>4. FilesAgree'
    BY <1>1, <1>2, <2>1 DEF FilesAgree
  <2>5. DecodedBy(r)
    BY <2>2 DEF DecodedBy
  <2> HIDE DEF r
  <2> QED BY <1>1, <1>2, <1>4, <2>1, <2>2, <2>4, <2>5, Moves
<1>5. CASE PublishKey(p)
  <2> DEFINE r == [process[p] EXCEPT !.at = "keyed", !.key = Published(process[p].key)]
  <2>1. /\ Move(p, r) /\ made' = made /\ keyFile' = Published(process[p].key)
        /\ process[p].at = "staged"
    BY <1>5 DEF PublishKey, Doing
  <2>2. process[p].key \in Material /\ process[p].key # Nothing
    BY <1>1, <2>1 DEF Installed, InformedBy, ProcessRecord
  <2>3. /\ keyFile' \in Material /\ keyFile' # Nothing /\ keyFile \in {Nothing, keyFile'}
    BY <1>1, <2>1, <2>2 DEF Published
  <2>4. r \in ProcessRecord /\ r.at = "keyed" /\ r.key = keyFile'
    BY <1>1, <2>1, <2>3 DEF ProcessRecord, InstallSteps
  <2>5. FilesAgree'
    BY <1>1, <1>2, <2>3 DEF FilesAgree
  <2>6. DecodedBy(r)
    BY <2>4 DEF DecodedBy
  <2> HIDE DEF r
  <2> QED BY <1>1, <1>2, <2>1, <2>3, <2>4, <2>5, <2>6, Moves
<1> QED BY <1>3, <1>4, <1>5

\* InstallCA: what is on disk is loaded, and half of it is refused.
LEMMA InstalledLoadCA ==
    ASSUME Installed, NEW p \in Installers, LoadCA(p) \/ ReadCAKey(p) PROVE Installed'
<1>1. /\ process[p] \in ProcessRecord /\ made \in Nat /\ made + 1 \in Nat /\ FilesAgree
      /\ certFile \in Material /\ caKeyFile \in {Nothing, Empty, certFile}
  BY DEF Installed, FilesAgree
<1>2. UNCHANGED <<keyFile, certFile, caKeyFile, secretVars>> /\ made' \in {made, made + 1}
  BY DEF LoadCA, ReadCAKey, files
<1>3. FilesAgree'
  BY <1>1, <1>2 DEF FilesAgree
<1>4. process[p].key = keyFile /\ keyFile # Nothing
  BY DEF LoadCA, ReadCAKey, Doing, Installed, InformedBy
<1>5. CASE LoadCA(p) /\ certFile = Nothing /\ caKeyFile = Nothing
  <2> DEFINE r == [process[p] EXCEPT !.at = "made", !.cert = made]
  <2>1. Move(p, r)
    BY <1>5 DEF LoadCA
  <2>2. r \in ProcessRecord /\ r.at = "made" /\ r.key = keyFile /\ r.cert = made
    BY <1>1, <1>4 DEF ProcessRecord, InstallSteps, Material
  <2>3. made # Nothing /\ made' \in Nat
    BY <1>1, <1>2
  <2>4. DecodedBy(r)
    BY <2>2 DEF DecodedBy
  <2> HIDE DEF r
  <2> QED BY <1>1, <1>2, <1>3, <1>4, <2>1, <2>2, <2>3, <2>4, Moves
<1>6. CASE LoadCA(p) /\ ~(certFile = Nothing /\ caKeyFile = Nothing) /\ Nothing \in {certFile, caKeyFile}
  <2> DEFINE r == [process[p] EXCEPT !.at = "refused"]
  <2>1. Move(p, r)
    BY <1>6 DEF LoadCA
  <2>2. r \in ProcessRecord /\ r.at = "refused" /\ r.key = keyFile
    BY <1>1, <1>4 DEF ProcessRecord, InstallSteps, Material
  <2>3. made' \in Nat
    BY <1>1, <1>2
  <2>4. DecodedBy(r)
    BY <2>2 DEF DecodedBy
  <2> HIDE DEF r
  <2> QED BY <1>1, <1>2, <1>3, <1>4, <2>1, <2>2, <2>3, <2>4, Moves
<1>7. CASE LoadCA(p) /\ Nothing \notin {certFile, caKeyFile}
  <2> DEFINE r == [process[p] EXCEPT !.at = "read", !.cert = certFile]
  <2>1. Move(p, r)
    BY <1>7 DEF LoadCA
  <2>2. r \in ProcessRecord /\ r.at = "read" /\ r.key = keyFile /\ r.cert = certFile
    BY <1>1, <1>4 DEF ProcessRecord, InstallSteps, Material
  <2>3. made' \in Nat
    BY <1>1, <1>2
  <2>4. DecodedBy(r)
    BY <2>2 DEF DecodedBy
  <2> HIDE DEF r
  <2> QED BY <1>1, <1>2, <1>3, <1>4, <1>7, <2>1, <2>2, <2>3, <2>4, Moves
<1>8. CASE ReadCAKey(p)
  <2> DEFINE r == [process[p] EXCEPT !.at = "ready", !.caKey = caKeyFile]
  <2>1. Move(p, r) /\ process[p].at = "read" /\ made' = made
    BY <1>8 DEF ReadCAKey, Doing
  <2>2. process[p].cert = certFile /\ certFile # Nothing /\ caKeyFile # Nothing
    BY <2>1 DEF Installed, InformedBy
  <2>2a. caKeyFile \in Material
    BY <1>1 DEF Material, Empty
  <2>3. /\ r \in ProcessRecord /\ r.at = "ready" /\ r.key = keyFile /\ r.cert = certFile
        /\ r.caKey = caKeyFile
    BY <1>1, <1>4, <2>2, <2>2a DEF ProcessRecord, InstallSteps
  <2>4. DecodedBy(r)
    BY <2>3 DEF DecodedBy
  <2> HIDE DEF r
  <2> QED BY <1>1, <1>2, <1>3, <1>4, <2>1, <2>2, <2>3, <2>4, Moves
<1> QED BY <1>5, <1>6, <1>7, <1>8

\* InstallCA: whoever found nothing writes the certificate and then its key,
\* each only where there is none.
LEMMA InstalledWriteCA ==
    ASSUME Installed, NEW p \in Installers, WriteCert(p) \/ CreateCAKey(p) \/ WriteCAKey(p)
    PROVE  Installed'
<1>1. /\ process[p] \in ProcessRecord /\ made \in Nat /\ FilesAgree
      /\ certFile \in Material /\ caKeyFile \in {Nothing, Empty, certFile}
  BY DEF Installed, FilesAgree
<1>2. UNCHANGED <<keyFile, secretVars, made>>
  BY DEF WriteCert, CreateCAKey, WriteCAKey
<1>3. process[p].key = keyFile /\ keyFile # Nothing
  BY DEF WriteCert, CreateCAKey, WriteCAKey, Doing, Installed, InformedBy
<1>4. ASSUME Move(p, [process[p] EXCEPT !.at = "refused", !.cert = Nothing]),
             UNCHANGED <<certFile, caKeyFile>>
      PROVE  Installed'
  <2> DEFINE r == [process[p] EXCEPT !.at = "refused", !.cert = Nothing]
  <2>1. r \in ProcessRecord /\ r.at = "refused" /\ r.key = keyFile
    BY <1>1, <1>3 DEF ProcessRecord, InstallSteps, Material
  <2>2. DecodedBy(r)
    BY <2>1 DEF DecodedBy
  <2>3. FilesAgree'
    BY <1>1, <1>2, <1>4 DEF FilesAgree
  <2>4. Move(p, r)
    BY <1>4
  <2> HIDE DEF r
  <2> QED BY <1>1, <1>2, <1>3, <1>4, <2>1, <2>2, <2>3, <2>4, Moves
<1>5. CASE WriteCert(p) /\ certFile = Nothing
  <2> DEFINE r == [process[p] EXCEPT !.at = "certified"]
  <2>1. /\ Move(p, r) /\ process[p].at = "made" /\ certFile' = process[p].cert
        /\ UNCHANGED caKeyFile
    BY <1>5 DEF WriteCert, Doing, CreatesOver
  <2>2. process[p].cert # Nothing /\ caKeyFile = Nothing
    BY <1>5, <2>1 DEF Installed, InformedBy, FilesAgree
  <2>3. /\ r \in ProcessRecord /\ r.at = "certified" /\ r.key = keyFile /\ r.cert = certFile'
    BY <1>1, <1>3, <2>1 DEF ProcessRecord, InstallSteps
  <2>4. certFile' \in Material /\ certFile' # Nothing
    BY <1>1, <2>1, <2>2 DEF ProcessRecord
  <2>5. FilesAgree'
    BY <1>1, <1>2, <2>1, <2>2, <2>4 DEF FilesAgree
  <2>6. DecodedBy(r)
    BY <2>3 DEF DecodedBy
  <2> HIDE DEF r
  <2> QED BY <1>1, <1>2, <1>3, <1>5, <2>1, <2>2, <2>3, <2>4, <2>5, <2>6, Moves
<1>6. CASE WriteCert(p) /\ certFile # Nothing
  BY <1>4, <1>6 DEF WriteCert, CreatesOver
<1>7. CASE CreateCAKey(p) /\ caKeyFile = Nothing
  <2> DEFINE r == [process[p] EXCEPT !.at = "created"]
  <2>1. /\ Move(p, r) /\ process[p].at = "certified" /\ caKeyFile' = Empty
        /\ UNCHANGED certFile
    BY <1>7 DEF CreateCAKey, Doing, CreatesOver
  <2>2. process[p].cert = certFile /\ certFile # Nothing
    BY <2>1 DEF Installed, InformedBy
  <2>3. /\ r \in ProcessRecord /\ r.at = "created" /\ r.key = keyFile /\ r.cert = certFile
    BY <1>1, <1>3, <2>2 DEF ProcessRecord, InstallSteps
  <2>5. FilesAgree'
    BY <1>1, <1>2, <2>1, <2>2 DEF FilesAgree
  <2>6. DecodedBy(r)
    BY <2>3 DEF DecodedBy
  <2> HIDE DEF r
  <2> QED BY <1>1, <1>2, <1>3, <1>7, <2>1, <2>2, <2>3, <2>5, <2>6, Moves
<1>8. CASE CreateCAKey(p) /\ caKeyFile # Nothing
  BY <1>4, <1>8 DEF CreateCAKey, CreatesOver
<1>9. CASE WriteCAKey(p)
  <2> DEFINE r == [process[p] EXCEPT !.at = "ready", !.caKey = process[p].cert]
  <2>1. /\ Move(p, r) /\ process[p].at = "created" /\ caKeyFile' = process[p].cert
        /\ UNCHANGED certFile
    BY <1>9 DEF WriteCAKey, Doing
  <2>2. process[p].cert = certFile /\ certFile # Nothing
    BY <2>1 DEF Installed, InformedBy
  <2>3. /\ r \in ProcessRecord /\ r.at = "ready" /\ r.key = keyFile /\ r.cert = certFile
        /\ r.caKey = certFile
    BY <1>1, <1>3, <2>2 DEF ProcessRecord, InstallSteps
  <2>5. FilesAgree'
    BY <1>1, <1>2, <2>1, <2>2 DEF FilesAgree
  <2>6. DecodedBy(r)
    BY <2>3 DEF DecodedBy
  <2> HIDE DEF r
  <2> QED BY <1>1, <1>2, <1>3, <2>1, <2>2, <2>3, <2>5, <2>6, Moves
<1> QED BY <1>5, <1>6, <1>7, <1>8, <1>9

\* SecretStore.put and rotate: the row is of the new form, with the key on disk.
LEMMA InstalledPut ==
    ASSUME Installed, NEW p \in Installers, NEW s \in Secrets, PutOrRotate(p, s)
    PROVE  Installed'
<1>1. /\ rows \in [Secrets -> StoredRow] /\ newest \in [Secrets -> Nat]
      /\ process[p] \in ProcessRecord /\ RowsAgree /\ FilesAgree
  BY DEF Installed, RowsAgree
<1>2. process[p].key = keyFile /\ keyFile # Nothing /\ keyFile \in Nat
  BY <1>1 DEF PutOrRotate, HasKey, Doing, Installed, InformedBy, FilesAgree, Material
<1> DEFINE r == Row(process[p].key, newest[s] + 1)
<1>3. /\ r \in StoredRow /\ r.form = "v1" /\ r.key = keyFile /\ r.value = newest[s] + 1
  BY <1>1, <1>2 DEF Row, StoredRow
<1>4. /\ rows' = [rows EXCEPT ![s] = r] /\ newest' = [newest EXCEPT ![s] = @ + 1]
      /\ UNCHANGED <<keyFile, certFile, caKeyFile, process, locked, made>>
  BY DEF PutOrRotate, files
<1> HIDE DEF r
<1>5. LegacyRows' \subseteq LegacyRows /\ s \notin LegacyRows'
  BY <1>1, <1>3, <1>4 DEF LegacyRows
<1>6. /\ rows' \in [Secrets -> StoredRow] /\ newest' \in [Secrets -> Nat]
      /\ \A t \in Secrets : t # s => rows'[t] = rows[t] /\ newest'[t] = newest[t]
      /\ rows'[s] = r /\ newest'[s] = newest[s] + 1
  BY <1>1, <1>3, <1>4
<1>7. RowsAgree'
  <2>1. ASSUME NEW t \in Secrets, rows'[t] # Nothing
        PROVE  /\ keyFile' # Nothing /\ rows'[t].key = keyFile'
               /\ locked' => rows'[t].value = newest'[t]
    BY <1>1, <1>2, <1>3, <1>4, <1>6, <2>1 DEF RowsAgree
  <2>2. ASSUME NEW t \in Secrets \ LegacyRows', rows'[t] # Nothing, rows'[t].value = 0
        PROVE  LegacyRows' = {}
    <3>1. t # s
      BY <1>1, <1>3, <1>6, <2>2
    <3>2. t \notin LegacyRows /\ Migrated(t)
      BY <1>6, <2>2, <3>1 DEF LegacyRows, Migrated
    <3> QED BY <1>1, <1>5, <3>2 DEF RowsAgree
  <2> QED BY <1>6, <2>1, <2>2 DEF RowsAgree, Migrated
<1>8. ASSUME NEW q \in Installers PROVE InformedBy(process[q])' /\ DecodedBy(process[q])'
  <2>1. InformedBy(process[q]) /\ DecodedBy(process[q])
    BY DEF Installed
  <2>2. process[q].at = "migrating" => ~locked
    BY DEF PutOrRotate, Unlocked, Doing
  <2> QED BY <1>4, <1>5, <2>1, <2>2 DEF InformedBy, DecodedBy
<1> QED BY <1>4, <1>7, <1>8, <1>1 DEF Installed, FilesAgree

\* A migration starts when no other writes, and reads every row of the old form.
LEMMA InstalledStartMigration ==
    ASSUME Installed, NEW p \in Installers, StartMigration(p) PROVE Installed'
<1>1. /\ process[p] \in ProcessRecord /\ process[p].at = "ready" /\ RowsAgree /\ FilesAgree
      /\ rows \in [Secrets -> StoredRow]
  BY DEF Installed, RowsAgree, StartMigration, Doing
<1>2. /\ process[p].key = keyFile /\ keyFile # Nothing
      /\ process[p].cert = certFile /\ certFile # Nothing /\ process[p].caKey \in {Empty, certFile}
  BY <1>1 DEF Installed, InformedBy
<1> DEFINE r == [process[p] EXCEPT !.at = "migrating", !.decoded = Decoded(p)]
<1>3. \A s \in LegacyRows : s \in Secrets /\ rows[s] # Nothing /\ rows[s].value \in Nat
  BY <1>1 DEF LegacyRows, StoredRow
<1>4. Decoded(p) = {} \/ Decoded(p) = {<<s, rows[s].value>> : s \in LegacyRows}
  BY DEF Decoded
<1>5. Decoded(p) \in SUBSET (Secrets \X Nat)
  BY <1>3, <1>4
<1>6. /\ r \in ProcessRecord /\ r.at = "migrating" /\ r.key = keyFile /\ r.cert = certFile
      /\ r.caKey = process[p].caKey /\ r.decoded = Decoded(p)
  BY <1>1, <1>2, <1>5 DEF ProcessRecord, InstallSteps
<1>7. locked => \A d \in Decoded(p) : d[2] = newest[d[1]]
  BY <1>1, <1>3, <1>4 DEF RowsAgree
<1>8. Decoded(p) = {} \/ \A s \in LegacyRows : \E d \in Decoded(p) : d[1] = s
  <2>1. ASSUME NEW s \in LegacyRows, Decoded(p) = {<<t, rows[t].value>> : t \in LegacyRows}
        PROVE  \E d \in Decoded(p) : d[1] = s
    <3>1. <<s, rows[s].value>> \in Decoded(p)
      BY <2>1
    <3> QED BY <3>1
  <2> QED BY <1>4, <2>1
<1>9. DecodedBy(r)
  BY <1>6, <1>7, <1>8 DEF DecodedBy
<1>10. Move(p, r) /\ UNCHANGED <<keyFile, certFile, caKeyFile, secretVars, made>>
  BY DEF StartMigration, files
<1> HIDE DEF r
<1>11. FilesAgree' /\ made' \in Nat
  BY <1>1, <1>10 DEF FilesAgree, Installed
<1> QED BY <1>2, <1>6, <1>9, <1>10, <1>11, Moves

\* What was decoded is written: all rows of the old form are gone, or none was
\* touched; and where a migration excludes other writers nothing newer is lost.
LEMMA InstalledMigrate ==
    ASSUME Installed, NEW p \in Installers, Migrate(p) PROVE Installed'
<1> DEFINE D == process[p].decoded
           r == [process[p] EXCEPT !.at = "ready", !.decoded = {}]
<1>1. /\ process[p] \in ProcessRecord /\ process[p].at = "migrating" /\ RowsAgree /\ FilesAgree
      /\ rows \in [Secrets -> StoredRow] /\ newest \in [Secrets -> Nat]
  BY DEF Installed, RowsAgree, Migrate, Doing
<1>2. /\ process[p].key = keyFile /\ keyFile # Nothing /\ keyFile \in Nat
      /\ process[p].cert = certFile /\ certFile # Nothing /\ process[p].caKey \in {Empty, certFile}
  BY <1>1 DEF Installed, InformedBy, FilesAgree, Material
<1>3. /\ D \in SUBSET (Secrets \X Nat)
      /\ locked => \A d \in D : d[2] = newest[d[1]]
      /\ D = {} \/ \A s \in LegacyRows : \E d \in D : d[1] = s
  BY <1>1 DEF Installed, DecodedBy, ProcessRecord
<1>4. /\ UNCHANGED <<keyFile, certFile, caKeyFile, locked, newest, made>>
      /\ Move(p, r)
  BY DEF Migrate, files
<1>5. /\ r \in ProcessRecord /\ r.at = "ready" /\ r.key = keyFile /\ r.cert = certFile
      /\ r.caKey = process[p].caKey
  BY <1>1, <1>2 DEF ProcessRecord, InstallSteps
<1>6. ASSUME NEW s \in Secrets
      PROVE  \/ rows'[s] = rows[s] /\ ~\E d \in D : d[1] = s
             \/ /\ D # {} /\ \E v \in Nat : rows'[s] = Row(keyFile, v) /\ (locked => v = newest[s])
  <2>1. CASE \E d \in D : d[1] = s
    <3> DEFINE e == CHOOSE d \in D : d[1] = s
    <3>1. e \in D /\ e[1] = s
      BY <2>1
    <3>2. rows'[s] = Row(keyFile, e[2])
      BY <1>2, <2>1 DEF Migrate
    <3> HIDE DEF e
    <3>3. e[2] \in Nat /\ (locked => e[2] = newest[s])
      BY <1>3, <3>1
    <3> QED BY <3>1, <3>2, <3>3
  <2>2. CASE ~\E d \in D : d[1] = s
    BY <2>2 DEF Migrate
  <2> QED BY <2>1, <2>2
<1>7. \A v \in Nat : /\ Row(keyFile, v) \in StoredRow /\ Row(keyFile, v).form = "v1"
                      /\ Row(keyFile, v).key = keyFile /\ Row(keyFile, v).value = v
  BY <1>2 DEF Row, StoredRow
<1>8. rows' \in [Secrets -> StoredRow]
  <2>1. \A s \in Secrets : rows'[s] \in StoredRow
    BY <1>1, <1>6, <1>7
  <2>2. DOMAIN rows' = Secrets /\ rows' = [s \in Secrets |-> rows'[s]]
    BY DEF Migrate
  <2> QED BY <2>1, <2>2
<1>9. IF D = {} THEN rows' = rows ELSE LegacyRows' = {}
  <2>1. CASE D = {}
    <3>1. \A s \in Secrets : rows'[s] = rows[s]
      BY <1>6, <2>1
    <3>2. rows' = rows
      BY <1>1, <1>8, <3>1
    <3> QED BY <2>1, <3>2
  <2>2. CASE D # {}
    <3>1. ASSUME NEW s \in Secrets, rows'[s] # Nothing, rows'[s].form = "legacy" PROVE FALSE
      <4>1. rows'[s] = rows[s] /\ ~\E d \in D : d[1] = s
        BY <1>6, <1>7, <3>1
      <4>2. s \in LegacyRows
        BY <3>1, <4>1 DEF LegacyRows
      <4> QED BY <1>3, <2>2, <4>1, <4>2
    <3> QED BY <2>2, <3>1 DEF LegacyRows
  <2> QED BY <2>1, <2>2
<1>10. LegacyRows' \subseteq LegacyRows
  BY <1>9 DEF LegacyRows
<1>11. RowsAgree'
  <2>1. ASSUME NEW s \in Secrets, rows'[s] # Nothing
        PROVE  /\ keyFile' # Nothing /\ rows'[s].key = keyFile'
               /\ locked' => rows'[s].value = newest'[s]
    <3>1. CASE rows'[s] = rows[s]
      BY <1>1, <1>4, <2>1, <3>1 DEF RowsAgree
    <3>2. CASE \E v \in Nat : rows'[s] = Row(keyFile, v) /\ (locked => v = newest[s])
      BY <1>2, <1>4, <1>7, <3>2
    <3> QED BY <1>6, <3>1, <3>2
  <2>2. ASSUME NEW s \in Secrets \ LegacyRows', rows'[s] # Nothing, rows'[s].value = 0
        PROVE  LegacyRows' = {}
    <3>1. CASE D # {}
      BY <1>9, <3>1
    <3>2. CASE D = {}
      <4>1. rows' = rows
        BY <1>9, <3>2
      <4>2. LegacyRows' = LegacyRows
        BY <4>1 DEF LegacyRows
      <4> QED BY <1>1, <2>2, <4>1, <4>2 DEF RowsAgree, Migrated
    <3> QED BY <3>1, <3>2
  <2> QED BY <1>1, <1>4, <1>8, <2>1, <2>2 DEF RowsAgree, Migrated
<1> HIDE DEF r
<1>12. ASSUME NEW q \in Installers PROVE InformedBy(process[q])' /\ DecodedBy(process[q])'
  <2>1. CASE process'[q] = process[q]
    <3>1. InformedBy(process[q]) /\ DecodedBy(process[q])
      BY DEF Installed
    <3> QED BY <1>4, <1>10, <2>1, <3>1 DEF InformedBy, DecodedBy
  <2>2. CASE process'[q] = r
    BY <1>2, <1>4, <1>5, <2>2 DEF InformedBy, DecodedBy
  <2>3. process'[q] \in {process[q], r}
    BY <1>4 DEF Move, Installed
  <2> QED BY <2>1, <2>2, <2>3
<1>13. process' \in [Installers -> ProcessRecord] /\ made' \in Nat /\ FilesAgree'
  BY <1>1, <1>4, <1>5 DEF Installed, Move, FilesAgree
<1> QED BY <1>11, <1>12, <1>13 DEF Installed

\* A process that dies leaves the files and the rows as they are.
LEMMA InstalledDies ==
    ASSUME Installed, NEW p \in Installers, InstallerDies(p) PROVE Installed'
<1>1. /\ Down \in ProcessRecord /\ Down.at = "down"
  BY DEF Down, ProcessRecord, InstallSteps, Material
<1>2. DecodedBy(Down)
  BY <1>1 DEF DecodedBy
<1>3. Move(p, Down) /\ UNCHANGED <<keyFile, certFile, caKeyFile, secretVars, made>>
  BY DEF InstallerDies, files
<1>4. FilesAgree' /\ made' \in Nat
  BY <1>3 DEF Installed, FilesAgree
<1> QED BY <1>1, <1>2, <1>3, <1>4, Moves

\* What the processes of an installation know and what is stored agree, in
\* every reachable state.
THEOREM InstallationInstalled == InstallSpec => []Installed
<1>1. Installed /\ [InstallNext]_installVars => Installed'
  <2> SUFFICES ASSUME Installed, [InstallNext]_installVars PROVE Installed'
    OBVIOUS
  <2>1. CASE UNCHANGED installVars
    BY <2>1 DEF installVars, Installed, FilesAgree, RowsAgree, InformedBy, DecodedBy, LegacyRows,
                Migrated
  <2> QED
    BY <2>1, InstalledKey, InstalledLoadCA, InstalledWriteCA, InstalledPut,
       InstalledStartMigration, InstalledMigrate, InstalledDies DEF InstallNext
<1> QED BY <1>1, InstalledInit, PTL DEF InstallSpec

\* For any number of processes that install at once, wherever they die: whoever
\* holds the key holds the one on disk, every secret resolves for each of them,
\* to the value written last where transactions exclude each other, and every
\* certificate authority in use is the one on disk (install_state.py,
\* secrets.py, egress/ca.py).
THEOREM InstallationAgreesAlways == InstallSpec => []InstallationAgrees
<1>1. Installed => SecretsReadable
  <2> SUFFICES ASSUME Installed PROVE SecretsReadable
    OBVIOUS
  <2>1. ASSUME NEW p \in Installers, process[p].at \notin {"down", "staged"}
        PROVE  /\ process[p].key = keyFile
               /\ \A s \in Secrets : rows[s] # Nothing =>
                     /\ Resolved(p, s) # "secret_corrupt"
                     /\ locked => rows[s].value = newest[s]
    <3>1. process[p].key = keyFile
      BY <2>1 DEF Installed, InformedBy
    <3> QED BY <3>1 DEF Installed, RowsAgree, Resolved
  <2> QED BY <2>1 DEF SecretsReadable, Installed, RowsAgree
<1>2. Installed => OneAuthority
  BY DEF Installed, OneAuthority, FilesAgree, InformedBy, Doing
<1> QED BY <1>1, <1>2, InstallationInstalled, PTL DEF InstallationAgrees

-----------------------------------------------------------------------------
(***************************************************************************)
(* The containers                                                          *)
(***************************************************************************)
Names == {Net, Relay} \cup (Hosts \X {"agent", "case", "pnet", "server", "client"})
ProbeParts == {"pnet", "server", "client"}
Steps ==
    {"idle", "net", "validate", "ready", "relay", "inspect", "open", "unrelay", "unnet",
     "check", "digest", "copy", "staged", "create", "start", "exec", "collect", "exists", "rm",
     "absent", "kept", "score", "engine", "build", "pnet", "server", "client", "dial", "clean",
     "done"}
Results ==
    {"none", "blocked", "failed", "completed", "denied", "scored", "prepared", "observed", "crashed"}
HostRecord ==
    [act : {"none", "session", "evaluate", "build", "probe"}, at : Steps,
     expected : {"none", "approved", "edited"},
     staged : {"none", "approved", "edited", "linked", "torn"}, result : Results,
     made : SUBSET Names, tried : Seq([what : ProbeParts, started : BOOLEAN])]

\* The process with record r has a session whose network, and whose relay, is
\* to be there.
Holds(r) == r.act = "session" /\ r.at \notin {"idle", "net", "done"}
Relays(r) ==
    /\ r.act = "session"
    /\ r.at \notin {"idle", "net", "validate", "ready", "relay", "unrelay", "unnet", "done"}

\* What the process h, with record r, made and is still going to remove.
BoxOf(h, r) == Own(h, IF r.act = "session" THEN "agent" ELSE "case")
Minds(h, r, t) ==
    /\ t \in r.made
    /\ \/ t = Net /\ Holds(r)
       \/ t = Relay /\ (Relays(r) \/ (r.act = "session" /\ r.at = "unrelay"))
       \/ t = BoxOf(h, r) /\ r.at \in {"start", "exec", "collect", "exists", "rm"}
       \/ /\ r.at \in {"pnet", "server", "client", "dial", "clean"}
          /\ \E i \in DOMAIN r.tried : t = Own(h, r.tried[i].what)

\* What is staged is compared with what is expected before it is used, and a
\* session does what sessions do.
Steady(r) ==
    /\ r.at \in {"create", "build", "start", "exec", "collect"} \/ r.result = "prepared" =>
          r.staged = r.expected
    /\ r.result = "prepared" => r.at = "done"
    /\ r.at \in {"net", "validate", "ready", "relay", "inspect", "open", "unrelay", "unnet"} =>
          r.act = "session"
    /\ r.act = "session" =>
          r.at \notin {"idle", "engine", "build", "score", "pnet", "server", "client", "dial", "clean"}

\* The inductive invariant of the containers. One process at a time holds the
\* network of the run, which is there until that process removes it; and every
\* thing that is there is minded by a process, or known to be left.
Contained ==
    /\ present \subseteq Names
    /\ source \in {"approved", "edited", "linked"}
    /\ host \in [Hosts -> HostRecord]
    /\ \A h \in Hosts : Steady(host[h])
    /\ \A h \in Hosts : Holds(host[h]) => Net \in present /\ Net \in host[h].made
    /\ \A h, k \in Hosts : Holds(host[h]) /\ Holds(host[k]) => h = k
    /\ \A h \in Hosts : Relays(host[h]) => Relay \in present /\ Relay \in host[h].made
    /\ arriving \subseteq Names
    /\ \A t \in present \ loose : \E h \in Hosts : Minds(h, host[h], t)

USE ContainersAssumption

\* Names of the run and names of a process are never the same.
LEMMA NamesApart ==
    /\ Net \in Names /\ Relay \in Names /\ Net # Relay
    /\ \A h \in Hosts, w \in {"agent", "case", "pnet", "server", "client"} :
          Own(h, w) \in Names /\ Own(h, w) \notin {Net, Relay}
  BY DEF Names, Net, Relay, Own

\* A process that goes on by a step keeps what it had.
LEMMA AtRecord ==
    ASSUME NEW h \in Hosts, host[h] \in HostRecord, NEW step \in Steps
    PROVE  /\ MovedTo(h, step) \in HostRecord
           /\ MovedTo(h, step).at = step /\ MovedTo(h, step).act = host[h].act
           /\ MovedTo(h, step).expected = host[h].expected /\ MovedTo(h, step).staged = host[h].staged
           /\ MovedTo(h, step).result = host[h].result /\ MovedTo(h, step).made = host[h].made
           /\ MovedTo(h, step).tried = host[h].tried
  BY DEF MovedTo, HostRecord

\* So does one that ends, with its result.
LEMMA EndsRecord ==
    ASSUME NEW h \in Hosts, host[h] \in HostRecord, NEW step \in Steps, NEW result \in Results
    PROVE  /\ LeftWith(h, step, result) \in HostRecord
           /\ LeftWith(h, step, result).at = step /\ LeftWith(h, step, result).act = host[h].act
           /\ LeftWith(h, step, result).expected = host[h].expected
           /\ LeftWith(h, step, result).staged = host[h].staged
           /\ LeftWith(h, step, result).result = result /\ LeftWith(h, step, result).made = host[h].made
           /\ LeftWith(h, step, result).tried = host[h].tried
  BY DEF LeftWith, HostRecord

\* A step of process h that leads to record new keeps the invariant if h holds
\* no more than before, or the network was not there; if the network and the
\* relay go only when h holds them; and if whatever is there is minded by h
\* after the step, or was minded before and h does not give it up.
LEMMA Progress ==
    ASSUME Contained, NEW h \in Hosts, NEW new \in HostRecord, Host(h, new), Steady(new),
           source' \in {"approved", "edited", "linked"}, present' \subseteq Names,
           arriving' \subseteq Names,
           Holds(new) => /\ Net \in new.made /\ Net \in present'
                         /\ Holds(host[h]) \/ Net \notin present,
           Relays(new) => Relay \in new.made /\ Relay \in present',
           {Net, Relay} \cap (present \ present') # {} => Holds(host[h]),
           \A t \in present' \ loose' :
              \/ Minds(h, new, t)
              \/ t \in present \ loose /\ (Minds(h, host[h], t) => Minds(h, new, t))
    PROVE  Contained'
<1>1. /\ host' \in [Hosts -> HostRecord] /\ host'[h] = new
      /\ \A k \in Hosts : k # h => host'[k] = host[k]
  BY DEF Contained, Host
<1>2. \A k \in Hosts : Steady(host'[k])
  BY <1>1 DEF Contained
<1>3. ASSUME NEW k \in Hosts, Holds(host'[k]) PROVE Net \in present' /\ Net \in host'[k].made
  <2>1. CASE k = h
    BY <1>1, <1>3, <2>1
  <2>2. CASE k # h
    <3>1. Holds(host[k]) /\ host'[k] = host[k]
      BY <1>1, <1>3, <2>2
    <3>2. Net \in present /\ Net \in host[k].made /\ ~Holds(host[h])
      BY <2>2, <3>1 DEF Contained
    <3> QED BY <3>1, <3>2
  <2> QED BY <2>1, <2>2
<1>4. ASSUME NEW k \in Hosts, NEW j \in Hosts, Holds(host'[k]), Holds(host'[j]) PROVE k = j
  <2>1. ASSUME NEW i \in Hosts, i # h, Holds(host'[i]), Holds(new) PROVE FALSE
    <3>1. Holds(host[i])
      BY <1>1, <2>1
    <3>2. Net \in present
      BY <3>1 DEF Contained
    <3>3. Holds(host[h])
      BY <2>1, <3>2
    <3> QED BY <2>1, <3>1, <3>3 DEF Contained
  <2>2. CASE k = h
    BY <1>1, <1>4, <2>1, <2>2
  <2>3. CASE j = h
    BY <1>1, <1>4, <2>1, <2>3
  <2>4. CASE k # h /\ j # h
    BY <1>1, <1>4, <2>4 DEF Contained
  <2> QED BY <2>2, <2>3, <2>4
<1>5. ASSUME NEW k \in Hosts, Relays(host'[k]) PROVE Relay \in present' /\ Relay \in host'[k].made
  <2>1. CASE k = h
    BY <1>1, <1>5, <2>1
  <2>2. CASE k # h
    <3>1. Relays(host[k]) /\ host'[k] = host[k]
      BY <1>1, <1>5, <2>2
    <3>2. Relay \in present /\ Relay \in host[k].made
      BY <3>1 DEF Contained
    <3>3. Holds(host[k])
      BY <3>1 DEF Relays, Holds
    <3>4. ~Holds(host[h])
      BY <2>2, <3>3 DEF Contained
    <3> QED BY <3>1, <3>2, <3>4
  <2> QED BY <2>1, <2>2
<1>6. ASSUME NEW t \in present' \ loose' PROVE \E k \in Hosts : Minds(k, host'[k], t)
  <2>1. CASE Minds(h, new, t)
    BY <1>1, <2>1
  <2>2. CASE t \in present \ loose /\ (Minds(h, host[h], t) => Minds(h, new, t))
    <3>1. PICK k \in Hosts : Minds(k, host[k], t)
      BY <2>2 DEF Contained
    <3>2. CASE k = h
      BY <1>1, <2>2, <3>1, <3>2
    <3>3. CASE k # h
      BY <1>1, <3>1, <3>3
    <3> QED BY <3>2, <3>3
  <2> QED BY <2>1, <2>2
<1>7. /\ (\A k \in Hosts : Steady(host[k]))'
      /\ (\A k \in Hosts : Holds(host[k]) => Net \in present /\ Net \in host[k].made)'
      /\ (\A k, j \in Hosts : Holds(host[k]) /\ Holds(host[j]) => k = j)'
      /\ (\A k \in Hosts : Relays(host[k]) => Relay \in present /\ Relay \in host[k].made)'
      /\ (\A t \in present \ loose : \E k \in Hosts : Minds(k, host[k], t))'
  BY <1>2, <1>3, <1>4, <1>5, <1>6 DEF Steady, Holds, Relays, Minds, BoxOf, Own, Net, Relay
<1> QED BY <1>1, <1>7 DEF Contained

\* A step of h that touches nothing, after which it holds and minds no less.
LEMMA QuietStep ==
    ASSUME Contained, NEW h \in Hosts, NEW new \in HostRecord, Host(h, new), Steady(new), OnlyHost,
           new.made = host[h].made,
           Holds(new) => Holds(host[h]), Relays(new) => Relays(host[h]),
           \A t : Minds(h, host[h], t) => Minds(h, new, t)
    PROVE  Contained'
<1>1. /\ present' = present /\ loose' = loose /\ source' = source /\ arriving' = arriving
      /\ present \subseteq Names /\ arriving \subseteq Names
      /\ source \in {"approved", "edited", "linked"}
  BY DEF OnlyHost, Contained
<1>2. /\ Holds(host[h]) => Net \in present /\ Net \in host[h].made
      /\ Relays(host[h]) => Relay \in present /\ Relay \in host[h].made
  BY DEF Contained
<1> QED BY <1>1, <1>2, Progress

\* A step of h that makes t: it is minded by h when it is made, is a network
\* that nobody has leased, or arrives later.
LEMMA MakesStep ==
    ASSUME Contained, NEW h \in Hosts, NEW t \in Names, NEW m \in HostRecord, NEW f \in HostRecord,
           Makes(h, t, m, f), UNCHANGED source,
           m.made = host[h].made, f.made = host[h].made,
           Steady(m), Steady(f),
           Holds(m) => Holds(host[h]) \/ t = Net, Holds(f) => Holds(host[h]),
           Relays(m) => Relays(host[h]) \/ t = Relay, Relays(f) => Relays(host[h]),
           \A x : Minds(h, host[h], x) => Minds(h, m, x) /\ Minds(h, f, x),
           Minds(h, [m EXCEPT !.made = @ \cup {t}], t),
           t = Net \/ Minds(h, [f EXCEPT !.made = @ \cup {t}], t)
    PROVE  Contained'
<1>1. /\ source' \in {"approved", "edited", "linked"}
      /\ present \subseteq Names /\ arriving \subseteq Names
      /\ Holds(host[h]) => Net \in present /\ Net \in host[h].made
      /\ Relays(host[h]) => Relay \in present /\ Relay \in host[h].made
  BY DEF Contained
<1>2. ASSUME NEW r \in {m, f}
      PROVE  LET n == [r EXCEPT !.made = @ \cup {t}] IN
             /\ n \in HostRecord /\ n.made = host[h].made \cup {t}
             /\ n.act = r.act /\ n.at = r.at /\ n.expected = r.expected /\ n.staged = r.staged
             /\ n.result = r.result /\ n.tried = r.tried
             /\ Steady(n) /\ (Holds(n) <=> Holds(r)) /\ (Relays(n) <=> Relays(r))
             /\ \A x : Minds(h, r, x) => Minds(h, n, x)
  <2> DEFINE n == [r EXCEPT !.made = @ \cup {t}]
  <2>1. r \in HostRecord /\ r.made = host[h].made
    BY <1>2
  <2>2. /\ n \in HostRecord /\ n.made = host[h].made \cup {t}
        /\ n.act = r.act /\ n.at = r.at /\ n.expected = r.expected /\ n.staged = r.staged
        /\ n.result = r.result /\ n.tried = r.tried
    BY <2>1 DEF HostRecord
  <2>3. Steady(r)
    BY <1>2
  <2> HIDE DEF n
  <2>4. Steady(n) /\ (Holds(n) <=> Holds(r)) /\ (Relays(n) <=> Relays(r))
    BY <2>2, <2>3 DEF Steady, Holds, Relays
  <2>5. \A x : Minds(h, r, x) => Minds(h, n, x)
    BY <2>1, <2>2, <2>4 DEF Minds, BoxOf
  <2> QED BY <2>2, <2>4, <2>5 DEF n
<1> DEFINE nm == [m EXCEPT !.made = @ \cup {t}]
           nf == [f EXCEPT !.made = @ \cup {t}]
<1>3. /\ nm \in HostRecord /\ nm.made = host[h].made \cup {t} /\ Steady(nm)
      /\ (Holds(nm) <=> Holds(m)) /\ (Relays(nm) <=> Relays(m))
      /\ \A x : Minds(h, m, x) => Minds(h, nm, x)
  BY <1>2
<1>4. /\ nf \in HostRecord /\ nf.made = host[h].made \cup {t} /\ Steady(nf)
      /\ (Holds(nf) <=> Holds(f)) /\ (Relays(nf) <=> Relays(f))
      /\ \A x : Minds(h, f, x) => Minds(h, nf, x)
  BY <1>2
<1>5. Minds(h, nm, t) /\ (t = Net \/ Minds(h, nf, t))
  OBVIOUS
<1> HIDE DEF nm, nf
<1>6. CASE /\ CanMake(t) /\ present' = present \cup {t} /\ loose' = loose \ {t}
           /\ Host(h, nm) /\ UNCHANGED arriving
  <2>1. t \notin present
    BY <1>6 DEF CanMake
  <2> QED BY <1>1, <1>3, <1>5, <1>6, <2>1, Progress
<1>7. CASE Host(h, f) /\ UNCHANGED <<present, loose>> /\ arriving' \in {arriving, arriving \cup {t}}
  BY <1>1, <1>7, Progress
<1>8. CASE /\ CanMake(t) /\ present' = present \cup {t}
           /\ loose' = IF t = Net THEN loose \cup {t} ELSE loose \ {t}
           /\ Host(h, nf) /\ UNCHANGED arriving
  <2>1. t \notin present
    BY <1>8 DEF CanMake
  <2> QED BY <1>1, <1>4, <1>5, <1>8, <2>1, Progress
<1> QED BY <1>6, <1>7, <1>8 DEF Makes, nm, nf

\* A step of h that removes t, or finds that it cannot: what stays is loose.
LEMMA RemovesStep ==
    ASSUME Contained, NEW h \in Hosts, NEW t, NEW m \in HostRecord, NEW f \in HostRecord,
           Removes(h, t, m, f), UNCHANGED <<arriving, source>>,
           t \in {Net, Relay} => Holds(host[h]),
           \A r \in {m, f} :
              /\ r.made = host[h].made /\ Steady(r)
              /\ Holds(r) => Holds(host[h]) /\ t # Net
              /\ Relays(r) => Relays(host[h]) /\ t # Relay
              /\ \A x : x # t /\ Minds(h, host[h], x) => Minds(h, r, x)
    PROVE  Contained'
<1>1. /\ source' \in {"approved", "edited", "linked"}
      /\ present \subseteq Names /\ arriving' \subseteq Names
      /\ Holds(host[h]) => Net \in present /\ Net \in host[h].made
      /\ Relays(host[h]) => Relay \in present /\ Relay \in host[h].made
  BY DEF Contained
<1>2. PICK r \in {m, f} : Host(h, r)
  BY DEF Removes
<1>3. /\ present' \in {present, present \ {t}}
      /\ \A x \in present' \ loose' : x \in present \ loose /\ x # t
  BY DEF Removes
<1>4. /\ r \in HostRecord /\ r.made = host[h].made /\ Steady(r)
      /\ Holds(r) => Holds(host[h]) /\ t # Net
      /\ Relays(r) => Relays(host[h]) /\ t # Relay
      /\ \A x : x # t /\ Minds(h, host[h], x) => Minds(h, r, x)
  BY <1>2
<1>5. /\ Holds(r) => Net \in r.made /\ Net \in present' /\ Holds(host[h])
      /\ Relays(r) => Relay \in r.made /\ Relay \in present'
      /\ {Net, Relay} \cap (present \ present') # {} => Holds(host[h])
  BY <1>1, <1>3, <1>4
<1>6. present' \subseteq Names
  BY <1>1, <1>3
<1> QED BY <1>1, <1>2, <1>3, <1>4, <1>5, <1>6, Progress

\* Nothing is there before the first process begins.
LEMMA ContainedInit == ContainersInit => Contained
<1> SUFFICES ASSUME ContainersInit PROVE Contained
  OBVIOUS
<1> DEFINE r == [act |-> "none", at |-> "idle", expected |-> "none",
                 staged |-> "none", result |-> "none", made |-> {}, tried |-> <<>>]
<1>1. r \in HostRecord
  BY DEF HostRecord, Steps, Results
<1>1a. Steady(r) /\ ~Holds(r) /\ ~Relays(r)
  BY DEF Steady, Holds, Relays
<1>2. host = [h \in Hosts |-> r]
  BY DEF ContainersInit
<1> HIDE DEF r
<1>3. /\ host \in [Hosts -> HostRecord]
      /\ \A h \in Hosts : Steady(host[h]) /\ ~Holds(host[h]) /\ ~Relays(host[h])
  BY <1>1, <1>1a, <1>2
<1> QED BY <1>3 DEF Contained, ContainersInit

\* ProxyRunSession opens and closes.
LEMMA ContainedSession ==
    ASSUME Contained, NEW h \in Hosts,
           BeginSession(h) \/ StartProxy(h) \/ InspectRelay(h) \/ CloseSession(h)
    PROVE  Contained'
<1>1. host[h] \in HostRecord /\ Steady(host[h]) /\ OnlyHost
  BY DEF Contained, BeginSession, StartProxy, InspectRelay, CloseSession
<1>2. CASE BeginSession(h)
  <2> DEFINE r == [host[h] EXCEPT !.act = "session", !.at = "net", !.expected = "approved"]
  <2>1. Host(h, r) /\ host[h].at = "idle"
    BY <1>2 DEF BeginSession
  <2>2. /\ r \in HostRecord /\ r.at = "net" /\ r.act = "session" /\ r.result = host[h].result
        /\ r.made = host[h].made
    <3>1. "net" \in Steps
      BY DEF Steps
    <3> QED BY <1>1, <3>1 DEF HostRecord
  <2> HIDE DEF r
  <2>3. Steady(r) /\ ~Holds(r) /\ ~Relays(r)
    BY <1>1, <2>1, <2>2 DEF Steady, Holds, Relays
  <2>4. \A t : ~Minds(h, host[h], t)
    BY <2>1 DEF Minds, Holds, Relays
  <2> QED BY <1>1, <2>1, <2>2, <2>3, <2>4, QuietStep
<1>3. ASSUME NEW step \in Steps, Host(h, MovedTo(h, step)),
             <<host[h].at, step>> \in {<<"ready", "relay">>, <<"ready", "unnet">>,
                 <<"inspect", "open">>, <<"inspect", "unrelay">>, <<"open", "unrelay">>}
      PROVE  Contained'
  <2> DEFINE r == MovedTo(h, step)
  <2>1. /\ r \in HostRecord /\ r.at = step /\ r.act = host[h].act /\ r.expected = host[h].expected
        /\ r.staged = host[h].staged /\ r.result = host[h].result
        /\ r.made = host[h].made /\ r.tried = host[h].tried
    BY <1>1, AtRecord
  <2> HIDE DEF r
  <2>2. Steady(r)
    BY <1>1, <1>3, <2>1 DEF Steady
  <2>3. (Holds(r) => Holds(host[h])) /\ (Relays(r) => Relays(host[h]))
    BY <1>3, <2>1 DEF Holds, Relays
  <2>4. \A t : Minds(h, host[h], t) => Minds(h, r, t)
    BY <1>3, <2>1 DEF Minds, Holds, Relays
  <2>5. Host(h, r)
    BY <1>3 DEF r
  <2> QED BY <1>1, <2>1, <2>2, <2>3, <2>4, <2>5, QuietStep
<1>4. CASE StartProxy(h)
  BY <1>3, <1>4 DEF StartProxy, Steps
<1>5. CASE InspectRelay(h)
  BY <1>3, <1>5 DEF InspectRelay, Steps
<1>6. CASE CloseSession(h)
  BY <1>3, <1>6 DEF CloseSession, Steps
<1> QED BY <1>2, <1>4, <1>5, <1>6

\* The network and the relay are made, and a network that does not validate is
\* left to the operator.
LEMMA ContainedNetwork ==
    ASSUME Contained, NEW h \in Hosts, CreateNetwork(h) \/ StartRelay(h) \/ ValidateNetwork(h)
    PROVE  Contained'
<1>1. host[h] \in HostRecord /\ Steady(host[h])
  BY DEF Contained
<1>2. \A step \in {"validate", "done", "inspect", "unrelay", "ready"} :
         /\ MovedTo(h, step) \in HostRecord
         /\ MovedTo(h, step).at = step /\ MovedTo(h, step).act = host[h].act
         /\ MovedTo(h, step).expected = host[h].expected /\ MovedTo(h, step).staged = host[h].staged
         /\ MovedTo(h, step).result = host[h].result /\ MovedTo(h, step).made = host[h].made
         /\ MovedTo(h, step).tried = host[h].tried
  BY <1>1, AtRecord DEF Steps
<1>3. CASE CreateNetwork(h) /\ host[h].act = "session"
  <2> DEFINE m == MovedTo(h, "validate")
             f == MovedTo(h, "done")
             n == [m EXCEPT !.made = @ \cup {Net}]
  <2>1. host[h].at = "net" /\ Makes(h, Net, m, f) /\ UNCHANGED source
    BY <1>3 DEF CreateNetwork
  <2>2. /\ m \in HostRecord /\ m.at = "validate" /\ m.act = "session" /\ m.made = host[h].made
        /\ m.result = host[h].result
        /\ f \in HostRecord /\ f.at = "done" /\ f.made = host[h].made /\ f.result = host[h].result
        /\ f.act = "session" /\ f.staged = host[h].staged /\ f.expected = host[h].expected
    BY <1>2, <1>3
  <2>3. n.made = m.made \cup {Net} /\ n.at = m.at /\ n.act = m.act
    BY <2>2 DEF HostRecord
  <2> HIDE DEF m, f, n
  <2>4. Steady(m) /\ Steady(f) /\ ~Holds(f) /\ ~Relays(f) /\ ~Relays(m)
    BY <1>1, <2>1, <2>2 DEF Steady, Holds, Relays
  <2>5. \A x : ~Minds(h, host[h], x)
    BY <2>1 DEF Minds, Holds, Relays
  <2>6. Minds(h, n, Net)
    BY <2>2, <2>3 DEF Minds, Holds
  <2> QED BY <2>1, <2>2, <2>4, <2>5, <2>6, NamesApart, MakesStep DEF n
<1>4. CASE StartRelay(h) /\ host[h].act = "session"
  <2> DEFINE m == MovedTo(h, "inspect")
             f == MovedTo(h, "unrelay")
             nm == [m EXCEPT !.made = @ \cup {Relay}]
             nf == [f EXCEPT !.made = @ \cup {Relay}]
  <2>1. host[h].at = "relay" /\ Makes(h, Relay, m, f) /\ UNCHANGED source
    BY <1>4 DEF StartRelay
  <2>2. /\ m \in HostRecord /\ m.at = "inspect" /\ m.act = "session" /\ m.made = host[h].made
        /\ m.result = host[h].result /\ m.tried = host[h].tried
        /\ f \in HostRecord /\ f.at = "unrelay" /\ f.act = "session" /\ f.made = host[h].made
        /\ f.result = host[h].result /\ f.tried = host[h].tried
    BY <1>2, <1>4
  <2>3. /\ nm.made = m.made \cup {Relay} /\ nm.at = m.at /\ nm.act = m.act
        /\ nf.made = f.made \cup {Relay} /\ nf.at = f.at /\ nf.act = f.act
    BY <2>2 DEF HostRecord
  <2> HIDE DEF m, f, nm, nf
  <2>4. /\ Steady(m) /\ Steady(f) /\ Holds(host[h]) /\ ~Relays(f)
    BY <1>1, <1>4, <2>1, <2>2 DEF Steady, Holds, Relays
  <2>5. \A x : Minds(h, host[h], x) => Minds(h, m, x) /\ Minds(h, f, x)
    BY <1>4, <2>1, <2>2 DEF Minds, Holds, Relays
  <2>6. Minds(h, nm, Relay) /\ Minds(h, nf, Relay)
    BY <2>2, <2>3 DEF Minds, Relays
  <2> QED BY <2>1, <2>2, <2>4, <2>5, <2>6, NamesApart, MakesStep DEF nm, nf
<1>5. CASE ValidateNetwork(h)
  <2>1. host[h].at = "validate" /\ UNCHANGED <<present, arriving, source>>
    BY <1>5 DEF ValidateNetwork
  <2>2. CASE Host(h, MovedTo(h, "ready")) /\ UNCHANGED <<loose, slips>>
    <3> DEFINE r == MovedTo(h, "ready")
    <3>1. /\ r \in HostRecord /\ r.at = "ready" /\ r.act = host[h].act /\ r.made = host[h].made
          /\ r.result = host[h].result
      BY <1>2
    <3> HIDE DEF r
    <3>2. /\ Steady(r) /\ (Holds(r) => Holds(host[h])) /\ ~Relays(r)
          /\ \A t : Minds(h, host[h], t) => Minds(h, r, t)
      BY <1>1, <2>1, <3>1 DEF Steady, Holds, Relays, Minds
    <3> QED BY <2>1, <2>2, <3>1, <3>2, QuietStep DEF OnlyHost, r
  <2>3. CASE Host(h, MovedTo(h, "done")) /\ loose' = loose \cup {Net}
    <3> DEFINE r == MovedTo(h, "done")
    <3>1. /\ r \in HostRecord /\ r.at = "done" /\ r.act = host[h].act /\ r.made = host[h].made
          /\ r.result = host[h].result /\ r.staged = host[h].staged
          /\ r.expected = host[h].expected
      BY <1>2
    <3> HIDE DEF r
    <3>2. Steady(r) /\ ~Holds(r) /\ ~Relays(r)
      BY <1>1, <2>1, <3>1 DEF Steady, Holds, Relays
    <3>3. \A t : Minds(h, host[h], t) => t = Net
      BY <2>1 DEF Minds, Holds, Relays
    <3>4. /\ present' \subseteq Names /\ arriving' \subseteq Names
          /\ source' \in {"approved", "edited", "linked"} /\ present' = present
      BY <2>1 DEF Contained
    <3> QED BY <2>3, <3>1, <3>2, <3>3, <3>4, Progress DEF r
  <2> QED BY <1>5, <2>2, <2>3 DEF ValidateNetwork
<1>6. CreateNetwork(h) \/ StartRelay(h) => host[h].act = "session"
  BY <1>1 DEF CreateNetwork, StartRelay, Steady
<1> QED BY <1>3, <1>4, <1>5, <1>6

\* The steps of a case within a session, or of an evaluation or a build.
CaseSteps == {"open", "check", "digest", "copy", "staged", "create", "start", "exec", "collect",
              "exists", "rm", "absent", "kept"}

\* A quiet step of a case stays within the case, or is no session's.
LEMMA CaseStep ==
    ASSUME Contained, NEW h \in Hosts, NEW new \in HostRecord, Host(h, new), OnlyHost, Steady(new),
           new.made = host[h].made, new.act = host[h].act,
           host[h].at \in CaseSteps, new.at \in CaseSteps \/ new.act # "session",
           host[h].at \in {"start", "exec", "collect"} =>
              new.at \in {"start", "exec", "collect", "exists", "rm"},
           host[h].at \notin {"exists", "rm"}
    PROVE  Contained'
<1>1. /\ Holds(new) => Holds(host[h])
      /\ Relays(new) => Relays(host[h])
  BY DEF Holds, Relays, CaseSteps
<1>2. ASSUME NEW t, Minds(h, host[h], t) PROVE Minds(h, new, t)
  <2>1. CASE t = Net /\ Holds(host[h])
    BY <1>2, <2>1 DEF Minds, Holds, CaseSteps
  <2>2. CASE t = Relay /\ Relays(host[h])
    BY <1>2, <2>2 DEF Minds, Relays, CaseSteps
  <2>3. CASE t = BoxOf(h, host[h]) /\ host[h].at \in {"start", "exec", "collect"}
    BY <1>2, <2>3 DEF Minds, BoxOf
  <2> QED BY <1>2, <2>1, <2>2, <2>3 DEF Minds, CaseSteps
<1> QED BY <1>1, <1>2, QuietStep

\* Where a case goes when it is over, and what a refusal of it leads to.
LEMMA AfterCaseStep ==
    ASSUME NEW h \in Hosts
    PROVE  /\ AfterCase(h) \in Steps
           /\ host[h].act = "session" => AfterCase(h) = "open"
           /\ host[h].act # "session" => AfterCase(h) \in {"score", "done"}
           /\ AfterCase(h) = "score" => host[h].act = "evaluate"
  BY DEF AfterCase, Steps

\* A step that leads to where the case is over, with no container.
LEMMA CaseOver ==
    ASSUME NEW h \in Hosts, host[h] \in HostRecord, Steady(host[h]), host[h].at \in CaseSteps,
           NEW result \in {"blocked", "failed"}
    PROVE  /\ LeftWith(h, AfterCase(h), result) \in HostRecord
           /\ LeftWith(h, AfterCase(h), result).at = AfterCase(h)
           /\ LeftWith(h, AfterCase(h), result).act = host[h].act
           /\ LeftWith(h, AfterCase(h), result).made = host[h].made
           /\ LeftWith(h, AfterCase(h), result).result = result
           /\ Steady(LeftWith(h, AfterCase(h), result))
<1>1. AfterCase(h) \in Steps /\ result \in Results
  BY AfterCaseStep DEF Results
<1> DEFINE r == LeftWith(h, AfterCase(h), result)
<1>2. /\ r \in HostRecord /\ r.at = AfterCase(h) /\ r.act = host[h].act /\ r.result = result
      /\ r.made = host[h].made
  BY <1>1, EndsRecord
<1> HIDE DEF r
<1>3. Steady(r)
  BY <1>2, AfterCaseStep DEF Steady
<1> QED BY <1>2, <1>3 DEF r

\* The quiet steps of PodmanSandbox.run before its container is there.
LEMMA ContainedBefore ==
    ASSUME Contained, NEW h \in Hosts,
           RunCase(h) \/ CheckEngine(h) \/ DigestSource(h) \/ CopySource(h) \/ CheckStaged(h)
    PROVE  Contained'
<1>1. /\ host[h] \in HostRecord /\ Steady(host[h]) /\ OnlyHost
      /\ source \in {"approved", "edited", "linked"}
  BY DEF Contained, RunCase, CheckEngine, DigestSource, CopySource, CheckStaged
<1>2. CASE RunCase(h)
  <2>1. host[h].at = "open" /\ host[h].result = "none"
    BY <1>2 DEF RunCase
  <2>2. \/ Host(h, MovedTo(h, "check"))
        \/ Host(h, LeftWith(h, "open", "blocked"))
    BY <1>2 DEF RunCase
  <2>3. CASE Host(h, MovedTo(h, "check"))
    <3> DEFINE r == MovedTo(h, "check")
    <3>1. /\ r \in HostRecord /\ r.at = "check" /\ r.act = host[h].act /\ r.made = host[h].made
          /\ r.result = host[h].result
      BY <1>1, AtRecord DEF Steps
    <3> HIDE DEF r
    <3>2. Steady(r)
      BY <1>1, <2>1, <3>1 DEF Steady
    <3> QED BY <1>1, <2>1, <2>3, <3>1, <3>2, CaseStep DEF CaseSteps, r
  <2>4. CASE Host(h, LeftWith(h, "open", "blocked"))
    <3> DEFINE r == LeftWith(h, "open", "blocked")
    <3>1. /\ r \in HostRecord /\ r.at = "open" /\ r.act = host[h].act /\ r.made = host[h].made
          /\ r.result = "blocked"
      <4>1. "open" \in Steps /\ "blocked" \in Results
        BY DEF Steps, Results
      <4> QED BY <1>1, <4>1, EndsRecord
    <3> HIDE DEF r
    <3>2. Steady(r)
      BY <1>1, <2>1, <3>1 DEF Steady
    <3> QED BY <1>1, <2>1, <2>4, <3>1, <3>2, CaseStep DEF CaseSteps, r
  <2> QED BY <2>2, <2>3, <2>4
<1>3. ASSUME Host(h, Blocked(h)), host[h].at \in {"check", "digest", "staged"} PROVE Contained'
  <2> DEFINE r == LeftWith(h, AfterCase(h), "blocked")
  <2>1. Host(h, r) /\ host[h].at \in CaseSteps
    BY <1>3 DEF Blocked, CaseSteps
  <2>2. /\ r \in HostRecord /\ r.at = AfterCase(h) /\ r.act = host[h].act /\ r.made = host[h].made
        /\ Steady(r)
    BY <1>1, <2>1, CaseOver
  <2> HIDE DEF r
  <2>3. r.at \in CaseSteps \/ r.act # "session"
    BY <2>2, AfterCaseStep DEF CaseSteps
  <2> QED BY <1>1, <1>3, <2>1, <2>2, <2>3, CaseStep
<1>4. ASSUME NEW step \in {"digest", "copy", "build", "create"}, Host(h, MovedTo(h, step)),
             host[h].at \in {"check", "digest", "staged"},
             step \in {"build", "create"} => host[h].staged = host[h].expected,
             step = "build" => host[h].act # "session"
      PROVE  Contained'
  <2> DEFINE r == MovedTo(h, step)
  <2>1. /\ r \in HostRecord /\ r.at = step /\ r.act = host[h].act /\ r.made = host[h].made
        /\ r.result = host[h].result /\ r.staged = host[h].staged /\ r.expected = host[h].expected
    BY <1>1, AtRecord DEF Steps
  <2>2. Host(h, r)
    BY <1>4
  <2> HIDE DEF r
  <2>3. Steady(r)
    BY <1>1, <1>4, <2>1 DEF Steady
  <2> QED BY <1>1, <1>4, <2>1, <2>2, <2>3, CaseStep DEF CaseSteps
<1>5. CASE CheckEngine(h)
  BY <1>3, <1>4, <1>5 DEF CheckEngine
<1>6. CASE DigestSource(h)
  <2>1. host[h].at = "digest" /\ (Host(h, MovedTo(h, "copy")) \/ Host(h, Blocked(h)))
    BY <1>6 DEF DigestSource
  <2> QED BY <1>3, <1>4, <2>1
<1>7. CASE CopySource(h)
  <2>1. PICK tree \in {source, "torn"} :
          Host(h, [host[h] EXCEPT !.staged = tree, !.at = "staged"])
    BY <1>7 DEF CopySource
  <2> DEFINE r == [host[h] EXCEPT !.staged = tree, !.at = "staged"]
  <2>2. /\ r \in HostRecord /\ r.at = "staged" /\ r.act = host[h].act /\ r.made = host[h].made
        /\ r.result = host[h].result
    BY <1>1, <2>1 DEF HostRecord, Steps
  <2>3. Host(h, r) /\ host[h].at = "copy"
    BY <1>7, <2>1 DEF CopySource
  <2> HIDE DEF r
  <2>4. Steady(r)
    BY <1>1, <2>2, <2>3 DEF Steady
  <2> QED BY <1>1, <2>2, <2>3, <2>4, CaseStep DEF CaseSteps
<1>8. CASE CheckStaged(h)
  <2>1. CASE StagedAsExpected(h)
    <3>1. host[h].staged = host[h].expected
      BY <1>1, <2>1 DEF StagedAsExpected, SnapshotDigest, HostRecord
    <3>2. /\ host[h].at = "staged"
          /\ \/ Host(h, MovedTo(h, "build")) /\ host[h].act = "build"
             \/ Host(h, MovedTo(h, "create"))
      BY <1>8, <2>1 DEF CheckStaged
    <3> QED BY <1>4, <3>1, <3>2
  <2>2. CASE ~StagedAsExpected(h)
    BY <1>3, <1>8, <2>2 DEF CheckStaged
  <2> QED BY <2>1, <2>2
<1> QED BY <1>2, <1>5, <1>6, <1>7, <1>8

\* The quiet steps while its container is there.
LEMMA ContainedDuring ==
    ASSUME Contained, NEW h \in Hosts, StartBox(h) \/ ExecBox(h) \/ CollectOutput(h)
    PROVE  Contained'
<1>1. /\ host[h] \in HostRecord /\ Steady(host[h]) /\ OnlyHost
  BY DEF Contained, StartBox, ExecBox, CollectOutput
<1>2. ASSUME NEW step \in {"exec", "collect", "exists"}, NEW new, Host(h, new),
             \/ new = MovedTo(h, step)
             \/ \E result \in {"blocked", "completed", "failed"} : new = LeftWith(h, step, result),
             host[h].at \in {"start", "exec", "collect"}
      PROVE  Contained'
  <2>1. step \in Steps /\ {"blocked", "completed", "failed"} \subseteq Results
    BY DEF Steps, Results
  <2>2. /\ new \in HostRecord /\ new.at = step /\ new.act = host[h].act
        /\ new.made = host[h].made /\ new.result \in {host[h].result, "blocked", "completed", "failed"}
        /\ new.staged = host[h].staged /\ new.expected = host[h].expected
    BY <1>1, <1>2, <2>1, AtRecord, EndsRecord
  <2>3. Steady(new)
    BY <1>1, <1>2, <2>2 DEF Steady
  <2> QED BY <1>1, <1>2, <2>2, <2>3, CaseStep DEF CaseSteps
<1>3. CASE StartBox(h)
  BY <1>2, <1>3 DEF StartBox
<1>4. CASE ExecBox(h)
  BY <1>2, <1>4 DEF ExecBox
<1>5. CASE CollectOutput(h)
  <2>1. /\ host[h].at = "collect"
        /\ \/ Host(h, MovedTo(h, "exists")) \/ Host(h, LeftWith(h, "exists", "blocked"))
           \/ Host(h, LeftWith(h, "exists", "failed"))
    BY <1>5 DEF CollectOutput
  <2> QED BY <1>2, <2>1
<1> QED BY <1>3, <1>4, <1>5

\* The container of a case is made, and minded even when that failed.
LEMMA ContainedCreateBox ==
    ASSUME Contained, NEW h \in Hosts, CreateBox(h) PROVE Contained'
<1> DEFINE m == MovedTo(h, "start")
           f == LeftWith(h, "exists", "blocked")
           nm == [m EXCEPT !.made = @ \cup {Box(h)}]
           nf == [f EXCEPT !.made = @ \cup {Box(h)}]
<1>1. /\ host[h] \in HostRecord /\ Steady(host[h]) /\ host[h].at = "create"
      /\ Makes(h, Box(h), m, f) /\ UNCHANGED source
  BY DEF Contained, CreateBox, Uncreated
<1>2. /\ m \in HostRecord /\ m.at = "start" /\ m.act = host[h].act /\ m.made = host[h].made
      /\ m.result = host[h].result /\ m.staged = host[h].staged /\ m.expected = host[h].expected
      /\ f \in HostRecord /\ f.at = "exists" /\ f.act = host[h].act /\ f.made = host[h].made
      /\ f.result = "blocked"
  <2>1. "start" \in Steps /\ "exists" \in Steps /\ "blocked" \in Results
    BY DEF Steps, Results
  <2>2. /\ m \in HostRecord /\ m.at = "start" /\ m.act = host[h].act /\ m.made = host[h].made
        /\ m.result = host[h].result /\ m.staged = host[h].staged /\ m.expected = host[h].expected
    BY <1>1, <2>1, AtRecord
  <2>3. /\ f \in HostRecord /\ f.at = "exists" /\ f.act = host[h].act /\ f.made = host[h].made
        /\ f.result = "blocked"
    BY <1>1, <2>1, EndsRecord
  <2> QED BY <2>2, <2>3
<1>3. /\ nm.made = m.made \cup {Box(h)} /\ nm.at = m.at /\ nm.act = m.act
      /\ nf.made = f.made \cup {Box(h)} /\ nf.at = f.at /\ nf.act = f.act
  BY <1>2 DEF HostRecord
<1> HIDE DEF m, f, nm, nf
<1>4. Steady(m) /\ Steady(f)
  BY <1>1, <1>2 DEF Steady
<1>5. /\ (Holds(m) => Holds(host[h])) /\ (Holds(f) => Holds(host[h]))
      /\ (Relays(m) => Relays(host[h])) /\ (Relays(f) => Relays(host[h]))
  BY <1>1, <1>2 DEF Holds, Relays
<1>6. \A x : Minds(h, host[h], x) => Minds(h, m, x) /\ Minds(h, f, x)
  BY <1>1, <1>2 DEF Minds, Holds, Relays
<1>7. Minds(h, nm, Box(h)) /\ Minds(h, nf, Box(h))
  BY <1>2, <1>3 DEF Minds, BoxOf, Box
<1>8. Box(h) \in Names
  BY NamesApart DEF Box
<1> QED BY <1>1, <1>2, <1>4, <1>5, <1>6, <1>7, <1>8, MakesStep DEF nm, nf

\* The cleanup of a container: whatever is not confirmed to be gone is loose.
LEMMA ContainedCleanup ==
    ASSUME Contained, NEW h \in Hosts, CheckExists(h) \/ ConfirmAbsent(h) PROVE Contained'
<1>1. /\ host[h] \in HostRecord /\ Steady(host[h])
      /\ host[h].at \in {"exists", "absent", "kept"} /\ host[h].at \in CaseSteps
      /\ present' = present /\ arriving' = arriving /\ source' = source
      /\ present' \subseteq Names /\ arriving' \subseteq Names
      /\ source' \in {"approved", "edited", "linked"}
      /\ Holds(host[h]) => Net \in present /\ Net \in host[h].made
      /\ Relays(host[h]) => Relay \in present /\ Relay \in host[h].made
  BY DEF Contained, CheckExists, ConfirmAbsent, CaseSteps
<1>2. Box(h) = BoxOf(h, host[h])
  BY DEF Box, BoxOf
<1>3. ASSUME NEW new \in HostRecord, Host(h, new), Steady(new), new.made = host[h].made,
             new.act = host[h].act, new.at \in CaseSteps \/ new.act # "session",
             loose \subseteq loose',
             \/ Box(h) \notin present \ loose'
             \/ new.at = "rm"
      PROVE  Contained'
  <2>1. (Holds(new) => Holds(host[h])) /\ (Relays(new) => Relays(host[h]))
    BY <1>1, <1>3 DEF Holds, Relays
  <2>2. ASSUME NEW t \in present' \ loose', Minds(h, host[h], t) PROVE Minds(h, new, t)
    <3>1. CASE t = Net /\ Holds(host[h])
      BY <1>1, <1>3, <2>2, <3>1 DEF Minds, Holds, CaseSteps
    <3>2. CASE t = Relay /\ Relays(host[h])
      BY <1>1, <1>3, <2>2, <3>2 DEF Minds, Relays, CaseSteps
    <3>3. CASE t = Box(h)
      <4>1. new.at = "rm" /\ t = BoxOf(h, new) /\ t \in new.made
        BY <1>1, <1>3, <2>2, <3>3 DEF Box, BoxOf, Minds
      <4> QED BY <4>1 DEF Minds
    <3> QED BY <1>1, <1>2, <2>2, <3>1, <3>2, <3>3 DEF Minds
  <2> QED BY <1>1, <1>3, <2>1, <2>2, Progress
<1>4. ASSUME Host(h, Unclean(h)), LeftHere(h) PROVE Contained'
  <2>1. /\ Unclean(h) \in HostRecord /\ Steady(Unclean(h)) /\ Unclean(h).made = host[h].made
        /\ Unclean(h).act = host[h].act /\ Unclean(h).at = AfterCase(h)
    BY <1>1, CaseOver DEF Unclean
  <2>2. AfterCase(h) \in CaseSteps \/ host[h].act # "session"
    BY AfterCaseStep DEF CaseSteps
  <2>3. loose \subseteq loose' /\ Box(h) \notin present \ loose'
    BY <1>4 DEF LeftHere
  <2> QED BY <1>3, <1>4, <2>1, <2>2, <2>3
<1>5. ASSUME NEW step \in {"rm", AfterCase(h)}, Host(h, MovedTo(h, step)), loose \subseteq loose',
             step = "rm" \/ Box(h) \notin present \ loose'
      PROVE  Contained'
  <2> DEFINE r == MovedTo(h, step)
  <2>1. step \in Steps
    BY AfterCaseStep DEF Steps
  <2>2. /\ r \in HostRecord /\ r.at = step /\ r.act = host[h].act /\ r.made = host[h].made
        /\ r.result = host[h].result
    BY <1>1, <2>1, AtRecord
  <2>3. Host(h, r)
    BY <1>5
  <2> HIDE DEF r
  <2>4. Steady(r)
    BY <1>1, <2>2, AfterCaseStep DEF Steady
  <2>5. r.at \in CaseSteps \/ r.act # "session"
    BY <2>2, AfterCaseStep DEF CaseSteps
  <2> QED BY <1>3, <1>5, <2>2, <2>3, <2>4, <2>5
<1>6. CASE CheckExists(h)
  <2>1. \/ /\ Box(h) \in present /\ Host(h, MovedTo(h, "rm")) /\ UNCHANGED loose
        \/ /\ Box(h) \notin present /\ Host(h, MovedTo(h, AfterCase(h))) /\ UNCHANGED loose
        \/ Host(h, Unclean(h)) /\ LeftHere(h)
    BY <1>6 DEF CheckExists
  <2> QED BY <1>4, <1>5, <2>1
<1>7. CASE ConfirmAbsent(h)
  <2>1. /\ LeftHere(h)
        /\ Host(h, MovedTo(h, AfterCase(h))) \/ Host(h, Unclean(h))
    BY <1>7 DEF ConfirmAbsent
  <2>2. loose \subseteq loose' /\ Box(h) \notin present \ loose'
    BY <2>1 DEF LeftHere
  <2> QED BY <1>4, <1>5, <2>1, <2>2
<1> QED BY <1>6, <1>7

\* The removals of a container, a relay and a network.
LEMMA ContainedRemoval ==
    ASSUME Contained, NEW h \in Hosts, RemoveBox(h) \/ StopRelay(h) \/ RemoveNetwork(h)
    PROVE  Contained'
<1>1. host[h] \in HostRecord /\ Steady(host[h]) /\ UNCHANGED <<arriving, source>>
  BY DEF Contained, RemoveBox, StopRelay, RemoveNetwork
<1>2. \A step \in {"absent", "kept", "unnet", "done"} :
         /\ MovedTo(h, step) \in HostRecord
         /\ MovedTo(h, step).at = step /\ MovedTo(h, step).act = host[h].act
         /\ MovedTo(h, step).expected = host[h].expected /\ MovedTo(h, step).staged = host[h].staged
         /\ MovedTo(h, step).result = host[h].result /\ MovedTo(h, step).made = host[h].made
  BY <1>1, AtRecord DEF Steps
<1>3. CASE RemoveBox(h)
  <2>1. host[h].at = "rm" /\ Removes(h, Box(h), MovedTo(h, "absent"), MovedTo(h, "kept"))
    BY <1>3 DEF RemoveBox
  <2>2. Box(h) \notin {Net, Relay} /\ Box(h) = BoxOf(h, host[h])
    BY NamesApart DEF Box, BoxOf
  <2>3. ASSUME NEW r \in {MovedTo(h, "absent"), MovedTo(h, "kept")}
        PROVE  /\ r.made = host[h].made /\ Steady(r)
               /\ Holds(r) => Holds(host[h])
               /\ Relays(r) => Relays(host[h])
               /\ \A x : x # Box(h) /\ Minds(h, host[h], x) => Minds(h, r, x)
    <3>1. /\ r.at \in {"absent", "kept"} /\ r.act = host[h].act /\ r.result = host[h].result
          /\ r.made = host[h].made
      BY <1>2
    <3>2. Steady(r) /\ (Holds(r) => Holds(host[h])) /\ (Relays(r) => Relays(host[h]))
      BY <1>1, <2>1, <3>1 DEF Steady, Holds, Relays
    <3>3. ASSUME NEW x, x # Box(h), Minds(h, host[h], x) PROVE Minds(h, r, x)
      BY <2>1, <2>2, <3>1, <3>3 DEF Minds, Holds, Relays
    <3> QED BY <3>1, <3>2, <3>3
  <2> QED BY <1>1, <1>2, <2>1, <2>2, <2>3, RemovesStep
<1>4. CASE StopRelay(h)
  <2>1. /\ host[h].at = "unrelay" /\ Removes(h, Relay, MovedTo(h, "unnet"), MovedTo(h, "unnet"))
        /\ host[h].act = "session"
    BY <1>1, <1>4 DEF StopRelay, Steady
  <2> DEFINE r == MovedTo(h, "unnet")
  <2>2. /\ r \in HostRecord /\ r.at = "unnet" /\ r.act = "session" /\ r.result = host[h].result
        /\ r.made = host[h].made /\ Removes(h, Relay, r, r)
    BY <1>2, <2>1
  <2> HIDE DEF r
  <2>3. Steady(r) /\ Holds(host[h]) /\ ~Relays(r)
    BY <1>1, <2>1, <2>2 DEF Steady, Holds, Relays
  <2>4. ASSUME NEW x, x # Relay, Minds(h, host[h], x) PROVE Minds(h, r, x)
    BY <2>1, <2>2, <2>4 DEF Minds, Holds
  <2> QED BY <1>1, <2>2, <2>3, <2>4, NamesApart, RemovesStep
<1>5. CASE RemoveNetwork(h)
  <2>1. /\ host[h].at = "unnet" /\ Removes(h, Net, MovedTo(h, "done"), MovedTo(h, "done"))
        /\ host[h].act = "session"
    BY <1>1, <1>5 DEF RemoveNetwork, Steady
  <2> DEFINE r == MovedTo(h, "done")
  <2>2. /\ r \in HostRecord /\ r.at = "done" /\ r.act = "session" /\ r.result = host[h].result
        /\ r.made = host[h].made /\ Removes(h, Net, r, r)
        /\ r.staged = host[h].staged /\ r.expected = host[h].expected
    BY <1>2, <2>1
  <2> HIDE DEF r
  <2>3. Steady(r) /\ Holds(host[h]) /\ ~Holds(r) /\ ~Relays(r)
    BY <1>1, <2>1, <2>2 DEF Steady, Holds, Relays
  <2>4. \A x : Minds(h, host[h], x) => x = Net
    BY <2>1 DEF Minds, Relays
  <2> QED BY <1>1, <2>2, <2>3, <2>4, NamesApart, RemovesStep
<1> QED BY <1>3, <1>4, <1>5

\* Steps of a process that minds nothing: where it begins an evaluation, a
\* build or a probe, and between what it does in its containers.
LEMMA ContainedIdle ==
    ASSUME Contained, NEW h \in Hosts,
           \/ TakeScore(h) \/ BeginEvaluation(h) \/ BeginBuild(h) \/ RequireEngine(h)
           \/ BuildImage(h) \/ BeginProbe(h) \/ EndProbe(h)
    PROVE  Contained'
<1>1. /\ host[h] \in HostRecord /\ Steady(host[h]) /\ OnlyHost
      /\ source \in {"approved", "edited", "linked"}
  BY DEF Contained, TakeScore, BeginEvaluation, BeginBuild, RequireEngine, BuildImage, BeginProbe,
         EndProbe
<1>2. /\ host[h].at \in {"idle", "score", "engine", "build", "clean"}
      /\ host[h].at = "clean" => host[h].tried = <<>>
  BY DEF TakeScore, BeginEvaluation, BeginBuild, RequireEngine, BuildImage, BeginProbe, EndProbe
<1>3. host[h].act # "session" /\ host[h].result # "prepared"
  BY <1>1, <1>2 DEF Steady
<1>4. \A x : ~Minds(h, host[h], x)
  BY <1>2, <1>3 DEF Minds, Holds, Relays
<1>5. ASSUME NEW new \in HostRecord, Host(h, new), Steady(new), new.made = host[h].made,
             new.act # "session"
      PROVE  Contained'
  BY <1>1, <1>4, <1>5, QuietStep DEF Holds, Relays
<1>6. ASSUME NEW result \in {"scored", "denied", "blocked", "prepared"},
             Host(h, LeftWith(h, "done", result)),
             result = "prepared" => host[h].staged = host[h].expected
      PROVE  Contained'
  <2> DEFINE r == LeftWith(h, "done", result)
  <2>1. /\ r \in HostRecord /\ r.at = "done" /\ r.act = host[h].act /\ r.result = result
        /\ r.made = host[h].made /\ r.staged = host[h].staged /\ r.expected = host[h].expected
    <3>1. "done" \in Steps /\ result \in Results
      BY <1>6 DEF Steps, Results
    <3> QED BY <1>1, <3>1, EndsRecord
  <2>2. Host(h, r)
    BY <1>6
  <2> HIDE DEF r
  <2>3. Steady(r)
    BY <1>3, <1>6, <2>1 DEF Steady
  <2> QED BY <1>3, <1>5, <2>1, <2>2, <2>3
<1>7. ASSUME NEW step \in {"copy", "done"}, Host(h, MovedTo(h, step)) PROVE Contained'
  <2> DEFINE r == MovedTo(h, step)
  <2>1. /\ r \in HostRecord /\ r.at = step /\ r.act = host[h].act /\ r.result = host[h].result
        /\ r.made = host[h].made
    BY <1>1, <1>7, AtRecord DEF Steps
  <2>2. Host(h, r)
    BY <1>7
  <2> HIDE DEF r
  <2>3. Steady(r)
    BY <1>3, <1>7, <2>1 DEF Steady
  <2> QED BY <1>3, <1>5, <2>1, <2>2, <2>3
<1>8. ASSUME NEW step \in {"check", "engine"}, NEW act \in {"evaluate", "build"},
             SnapshotDigest(source) # "denied",
             Host(h, [host[h] EXCEPT !.act = act, !.at = step, !.expected = source])
      PROVE  Contained'
  <2> DEFINE r == [host[h] EXCEPT !.act = act, !.at = step, !.expected = source]
  <2>1. source \in {"approved", "edited"}
    BY <1>1, <1>8 DEF SnapshotDigest
  <2>2. /\ r \in HostRecord /\ r.at = step /\ r.act = act /\ r.result = host[h].result
        /\ r.made = host[h].made
    <3>1. step \in Steps
      BY <1>8 DEF Steps
    <3> QED BY <1>1, <1>8, <2>1, <3>1 DEF HostRecord
  <2>3. Host(h, r)
    BY <1>8
  <2> HIDE DEF r
  <2>4. Steady(r)
    BY <1>3, <1>8, <2>2 DEF Steady
  <2> QED BY <1>5, <1>8, <2>2, <2>3, <2>4
<1>9. ASSUME Host(h, [host[h] EXCEPT !.act = "probe", !.at = "pnet", !.result = "failed"])
      PROVE  Contained'
  <2> DEFINE r == [host[h] EXCEPT !.act = "probe", !.at = "pnet", !.result = "failed"]
  <2>1. /\ r \in HostRecord /\ r.at = "pnet" /\ r.act = "probe" /\ r.result = "failed"
        /\ r.made = host[h].made
    <3>1. "pnet" \in Steps /\ "failed" \in Results
      BY DEF Steps, Results
    <3> QED BY <1>1, <3>1 DEF HostRecord
  <2>2. Host(h, r)
    BY <1>9
  <2> HIDE DEF r
  <2>3. Steady(r)
    BY <2>1 DEF Steady
  <2> QED BY <1>5, <2>1, <2>2, <2>3
<1>10. CASE TakeScore(h)
  BY <1>6, <1>10 DEF TakeScore
<1>11. CASE BeginEvaluation(h)
  BY <1>6, <1>8, <1>11 DEF BeginEvaluation
<1>12. CASE BeginBuild(h)
  BY <1>6, <1>8, <1>12 DEF BeginBuild
<1>13. CASE RequireEngine(h)
  BY <1>6, <1>7, <1>13 DEF RequireEngine
<1>14. CASE BuildImage(h)
  <2>1. host[h].at = "build" /\ host[h].staged = host[h].expected
    BY <1>1, <1>14 DEF BuildImage, Steady
  <2> QED BY <1>6, <1>14, <2>1 DEF BuildImage
<1>15. CASE BeginProbe(h)
  <2>1. \/ Host(h, [host[h] EXCEPT !.act = "probe", !.at = "pnet", !.result = "failed"])
        \/ Host(h, LeftWith(h, "done", "blocked"))
    BY <1>15 DEF BeginProbe
  <2> QED BY <1>6, <1>9, <2>1
<1>16. CASE EndProbe(h)
  BY <1>7, <1>16 DEF EndProbe
<1> QED BY <1>10, <1>11, <1>12, <1>13, <1>14, <1>15, <1>16

\* What a process tried in a probe, and how its record changes with it.
Tries(h, r, step, what) ==
    /\ r \in HostRecord /\ r.at = step /\ r.act = host[h].act /\ r.made = host[h].made
    /\ r.result = host[h].result
    /\ \E i \in DOMAIN r.tried : r.tried[i].what = what
    /\ \A i \in DOMAIN host[h].tried :
          i \in DOMAIN r.tried /\ r.tried[i] = host[h].tried[i]

\* A process that tries a part of a probe notes that it did.
LEMMA TriedRecord ==
    ASSUME NEW h \in Hosts, host[h] \in HostRecord, NEW step \in Steps, NEW what \in ProbeParts,
           NEW started \in BOOLEAN
    PROVE  Tries(h, Tried(h, step, what, started), step, what)
<1> DEFINE Entries == [what : ProbeParts, started : BOOLEAN]
           e == [what |-> what, started |-> started]
           r == Tried(h, step, what, started)
<1>1. host[h].tried \in Seq(Entries) /\ e \in Entries
  BY DEF HostRecord
<1>2. r = [host[h] EXCEPT !.at = step, !.tried = Append(host[h].tried, e)]
  BY DEF Tried, HostRecord
<1>3. Append(host[h].tried, e) \in Seq(Entries)
  BY <1>1
<1>4. /\ r \in HostRecord /\ r.at = step /\ r.act = host[h].act /\ r.made = host[h].made
      /\ r.result = host[h].result /\ r.tried = Append(host[h].tried, e)
  BY <1>2, <1>3 DEF HostRecord
<1> HIDE DEF r
<1>5. /\ Len(host[h].tried) + 1 \in DOMAIN r.tried /\ r.tried[Len(host[h].tried) + 1] = e
      /\ \A i \in DOMAIN host[h].tried : i \in DOMAIN r.tried /\ r.tried[i] = host[h].tried[i]
  BY <1>1, <1>4
<1> QED BY <1>4, <1>5 DEF Tries, r

\* The probe makes its topology, and dials.
LEMMA ContainedProbe ==
    ASSUME Contained, NEW h \in Hosts, StartTopology(h) \/ Dial(h) PROVE Contained'
<1>1. host[h] \in HostRecord /\ Steady(host[h])
  BY DEF Contained
<1>2. ASSUME NEW what \in ProbeParts, NEW next \in {"server", "client", "dial"},
             Attempt(h, what, next)
      PROVE  Contained'
  <2> DEFINE t == Own(h, what)
             m == Tried(h, next, what, TRUE)
             f == Tried(h, "clean", what, FALSE)
             nm == [m EXCEPT !.made = @ \cup {t}]
             nf == [f EXCEPT !.made = @ \cup {t}]
  <2>1. /\ host[h].at = what /\ Makes(h, t, m, f) /\ UNCHANGED source
        /\ what \in {"pnet", "server", "client"}
    BY <1>2 DEF Attempt, ProbeParts
  <2>2. host[h].act # "session" /\ host[h].result # "prepared"
    BY <1>1, <2>1 DEF Steady
  <2>3. next \in Steps /\ "clean" \in Steps
    BY DEF Steps
  <2>4. Tries(h, m, next, what) /\ Tries(h, f, "clean", what)
    BY <1>1, <2>3, TriedRecord
  <2>5. m \in HostRecord /\ f \in HostRecord
    BY <2>4 DEF Tries
  <2>6. /\ nm.made = m.made \cup {t} /\ nm.at = m.at /\ nm.tried = m.tried
        /\ nf.made = f.made \cup {t} /\ nf.at = f.at /\ nf.tried = f.tried
    BY <2>5 DEF HostRecord
  <2>7. t \in Names
    BY <2>1, NamesApart
  <2> HIDE DEF m, f, nm, nf
  <2>8. Steady(m) /\ Steady(f)
    BY <2>2, <2>4 DEF Steady, Tries
  <2>9. ~Holds(m) /\ ~Holds(f) /\ ~Relays(m) /\ ~Relays(f)
    BY <2>2, <2>4 DEF Holds, Relays, Tries
  <2>10. ASSUME NEW x, Minds(h, host[h], x) PROVE Minds(h, m, x) /\ Minds(h, f, x)
    <3>1. /\ x \in host[h].made
          /\ \E i \in DOMAIN host[h].tried : x = Own(h, host[h].tried[i].what)
      BY <2>1, <2>2, <2>10 DEF Minds, Holds, Relays
    <3> QED BY <2>4, <3>1 DEF Minds, Tries
  <2>11. Minds(h, nm, t) /\ Minds(h, nf, t)
    BY <2>4, <2>6 DEF Minds, Tries
  <2> HIDE DEF t
  <2>12. m.made = host[h].made /\ f.made = host[h].made
    BY <2>4 DEF Tries
  <2> QED BY <2>1, <2>5, <2>7, <2>8, <2>9, <2>10, <2>11, <2>12, MakesStep DEF nm, nf
<1>3. CASE StartTopology(h)
  BY <1>2, <1>3 DEF StartTopology, ProbeParts
<1>4. CASE Dial(h)
  <2>1. PICK r \in {LeftWith(h, "clean", "observed"), MovedTo(h, "clean")} : Host(h, r)
    BY <1>4 DEF Dial
  <2>2. /\ r \in HostRecord /\ r.at = "clean" /\ r.act = host[h].act /\ r.made = host[h].made
        /\ r.result \in {host[h].result, "observed"} /\ r.tried = host[h].tried
    <3>1. "clean" \in Steps /\ "observed" \in Results
      BY DEF Steps, Results
    <3> QED BY <1>1, <2>1, <3>1, AtRecord, EndsRecord
  <2>3. /\ host[h].at = "dial" /\ host[h].act # "session" /\ host[h].result # "prepared"
        /\ OnlyHost
    BY <1>1, <1>4 DEF Dial, Steady
  <2>4. Steady(r) /\ ~Holds(r) /\ ~Relays(r)
    BY <2>2, <2>3 DEF Steady, Holds, Relays
  <2>5. ASSUME NEW x, Minds(h, host[h], x) PROVE Minds(h, r, x)
    <3>1. /\ x \in host[h].made
          /\ \E i \in DOMAIN host[h].tried : x = Own(h, host[h].tried[i].what)
      BY <2>3, <2>5 DEF Minds, Holds, Relays
    <3> QED BY <2>2, <3>1 DEF Minds
  <2> QED BY <2>1, <2>2, <2>3, <2>4, <2>5, QuietStep
<1> QED BY <1>3, <1>4

\* A sequence without its last element, and that element.
LEMMA AllButLast ==
    ASSUME NEW S, NEW s \in Seq(S), s # <<>>
    PROVE  LET front == SubSeq(s, 1, Len(s) - 1) IN
           /\ front \in Seq(S) /\ s[Len(s)] \in S
           /\ \A i \in DOMAIN s : i = Len(s) \/ (i \in DOMAIN front /\ front[i] = s[i])
<1>1. PICK n \in Nat : n = Len(s) /\ n # 0 /\ DOMAIN s = 1 .. n
  <2>1. Len(s) \in Nat /\ Len(s) # 0 /\ DOMAIN s = 1 .. Len(s)
    OBVIOUS
  <2> QED BY <2>1, Zenon
<1> DEFINE front == SubSeq(s, 1, Len(s) - 1)
<1>2. n - 1 \in Nat /\ n \in 1 .. n /\ \A i \in 1 .. n : i = n \/ i \in 1 .. n - 1
  BY <1>1
<1>3. \A i \in 1 .. n : s[i] \in S
  BY <1>1
<1>4. front = [i \in 1 .. n - 1 |-> s[i]]
  BY <1>1, <1>2
<1>5. front \in Seq(S)
  <2>1. \A i \in 1 .. n - 1 : s[i] \in S
    BY <1>1, <1>3
  <2> QED BY <1>2, <1>4, <2>1
<1> HIDE DEF front
<1>6. DOMAIN front = 1 .. n - 1 /\ \A i \in 1 .. n - 1 : front[i] = s[i]
  BY <1>4
<1>7. \A i \in DOMAIN s : i = Len(s) \/ (i \in DOMAIN front /\ front[i] = s[i])
  BY <1>1, <1>2, <1>6, Zenon
<1> QED BY <1>1, <1>2, <1>3, <1>5, <1>7 DEF front

\* The probe cleans up: what it tried last is gone, or loose.
LEMMA ContainedCleanProbe ==
    ASSUME Contained, NEW h \in Hosts, CleanProbe(h) PROVE Contained'
<1> DEFINE Entries == [what : ProbeParts, started : BOOLEAN]
           tried == host[h].tried
           rest == SubSeq(tried, 1, Len(tried) - 1)
           last == LastTried(h)
           t == Own(h, last.what)
           gone == [host[h] EXCEPT !.tried = SubSeq(@, 1, Len(@) - 1)]
           kept == [gone EXCEPT !.result = "failed"]
<1>1. /\ host[h] \in HostRecord /\ Steady(host[h]) /\ UNCHANGED <<arriving, source>>
      /\ host[h].at = "clean" /\ tried # <<>>
      /\ source' \in {"approved", "edited", "linked"}
      /\ present \subseteq Names /\ arriving' \subseteq Names
  BY DEF Contained, CleanProbe
<1>2. tried \in Seq(Entries)
  BY <1>1 DEF HostRecord
<1>3. /\ rest \in Seq(Entries) /\ last \in Entries
      /\ \A i \in DOMAIN tried : i = Len(tried) \/ (i \in DOMAIN rest /\ rest[i] = tried[i])
      /\ last = tried[Len(tried)]
  BY <1>1, <1>2, AllButLast DEF LastTried
<1>4. /\ gone \in HostRecord /\ gone.at = "clean" /\ gone.act = host[h].act
      /\ gone.made = host[h].made /\ gone.result = host[h].result /\ gone.tried = rest
  BY <1>1, <1>3 DEF HostRecord
<1>5. /\ kept \in HostRecord /\ kept.at = "clean" /\ kept.act = host[h].act
      /\ kept.made = host[h].made /\ kept.result = "failed" /\ kept.tried = rest
  <2>1. "failed" \in Results
    BY DEF Results
  <2> HIDE DEF gone
  <2> QED BY <1>4, <2>1 DEF HostRecord
<1>6. \/ Removes(h, t, gone, kept)
      \/ t \notin present /\ Host(h, gone) /\ UNCHANGED <<present, loose>>
      \/ loose' = loose \cup ({t} \cap present) /\ Host(h, kept) /\ UNCHANGED present
  BY DEF CleanProbe
<1>7. t \notin {Net, Relay}
  BY <1>3, NamesApart DEF ProbeParts
<1>8. host[h].act # "session" /\ host[h].result # "prepared"
  BY <1>1 DEF Steady
<1> HIDE DEF tried, rest, last, gone, kept
<1>9. ASSUME NEW r \in {gone, kept}
      PROVE  /\ r \in HostRecord /\ r.made = host[h].made /\ Steady(r)
             /\ ~Holds(r) /\ ~Relays(r)
             /\ \A x : x # t /\ Minds(h, host[h], x) => Minds(h, r, x)
  <2>1. /\ r \in HostRecord /\ r.at = "clean" /\ r.act = host[h].act /\ r.made = host[h].made
        /\ r.result \in {host[h].result, "failed"} /\ r.tried = rest
    BY <1>4, <1>5, <1>9
  <2>2. Steady(r) /\ ~Holds(r) /\ ~Relays(r)
    BY <1>8, <2>1 DEF Steady, Holds, Relays
  <2>3. ASSUME NEW x, x # t, Minds(h, host[h], x) PROVE Minds(h, r, x)
    <3>1. x \in host[h].made /\ \E i \in DOMAIN tried : x = Own(h, tried[i].what)
      BY <1>1, <1>8, <2>3 DEF Minds, Holds, Relays, tried
    <3>2. PICK i \in DOMAIN tried : x = Own(h, tried[i].what)
      BY <3>1
    <3>3. i # Len(tried)
      BY <1>3, <2>3, <3>2
    <3>4. i \in DOMAIN rest /\ x = Own(h, rest[i].what)
      BY <1>3, <3>2, <3>3
    <3> QED BY <2>1, <3>1, <3>4 DEF Minds
  <2> QED BY <2>1, <2>2, <2>3
<1> HIDE DEF t
<1>10. CASE Removes(h, t, gone, kept)
  BY <1>1, <1>7, <1>9, <1>10, RemovesStep
<1>11. CASE t \notin present /\ Host(h, gone) /\ UNCHANGED <<present, loose>>
  BY <1>1, <1>9, <1>11, Progress
<1>12. CASE loose' = loose \cup ({t} \cap present) /\ Host(h, kept) /\ UNCHANGED present
  BY <1>1, <1>9, <1>12, Progress
<1> QED BY <1>6, <1>10, <1>11, <1>12

\* What dies leaves what it made, all of it loose, and what it was making.
LEMMA ContainedCrash ==
    ASSUME Contained, NEW h \in Hosts, CrashHost(h) PROVE Contained'
<1> DEFINE r == LeftWith(h, "done", "crashed")
<1>1. /\ host[h] \in HostRecord /\ Steady(host[h])
      /\ present' = present /\ present \subseteq Names /\ source' = source
      /\ source \in {"approved", "edited", "linked"} /\ arriving \subseteq Names
      /\ loose' = loose \cup (host[h].made \cap present) /\ Host(h, r)
      /\ arriving' \in {arriving, arriving \cup Making(h)}
  BY DEF Contained, CrashHost
<1>2. Making(h) \subseteq Names
  <2>1. Box(h) \in Names
    BY NamesApart DEF Box
  <2>2. host[h].at \in {"pnet", "server", "client"} => Own(h, host[h].at) \in Names
    BY NamesApart
  <2> QED BY <2>1, <2>2, NamesApart DEF Making
<1>3. /\ r \in HostRecord /\ r.at = "done" /\ r.act = host[h].act /\ r.made = host[h].made
      /\ r.result = "crashed"
  <2>1. "done" \in Steps /\ "crashed" \in Results
    BY DEF Steps, Results
  <2> QED BY <1>1, <2>1, EndsRecord
<1> HIDE DEF r
<1>4. Steady(r) /\ ~Holds(r) /\ ~Relays(r)
  BY <1>3 DEF Steady, Holds, Relays
<1>5. \A x \in present' \ loose' : x \in present \ loose /\ ~Minds(h, host[h], x)
  BY <1>1 DEF Minds
<1> QED BY <1>1, <1>2, <1>3, <1>4, <1>5, Progress

\* What others do: a source is edited, an interrupted creation takes place, an
\* operator removes what is loose, which no process still holds.
LEMMA ContainedAround ==
    ASSUME Contained,
           \/ EditSource
           \/ \E t \in arriving : TakesEffect(t)
           \/ \E t \in loose : Tidy(t)
    PROVE  Contained'
<1> USE DEF Steady, Holds, Relays, Minds, BoxOf, Own, Net, Relay
<1>1. host' = host
  BY DEF EditSource, TakesEffect, Tidy
<1>2. source' \in {"approved", "edited", "linked"}
  BY DEF Contained, EditSource, TakesEffect, Tidy
<1>3. arriving' \subseteq Names /\ present' \subseteq Names
  BY DEF Contained, EditSource, TakesEffect, Tidy
<1>4. present' \ loose' \subseteq present \ loose
  BY DEF EditSource, TakesEffect, Tidy
<1> USE DEF Contained
<1>5. ASSUME NEW t \in present, t \notin present' PROVE \A h \in Hosts : t \in host[h].made => host[h].at = "done"
  BY <1>5 DEF EditSource, TakesEffect, Tidy
<1>6. \A h \in Hosts : Holds(host[h]) => Net \in present' /\ Net \in host[h].made
  BY <1>5
<1>7. \A h \in Hosts : Relays(host[h]) => Relay \in present' /\ Relay \in host[h].made
  BY <1>5
<1> QED BY <1>1, <1>2, <1>3, <1>4, <1>6, <1>7

\* For any number of processes, interrupted commands and crashes: one session
\* at a time holds the network of a run, whose relay stays with it, and what is
\* there and not loose is minded by the process that made it (runtime/network.py,
\* egress/session.py, runtime/sandbox.py, runtime/podman.py).
THEOREM ContainersContained == ContainersSpec => []Contained
<1>1. ASSUME Contained, [ContainersNext]_containersVars PROVE Contained'
  <2>1. CASE UNCHANGED containersVars
    BY <1>1, <2>1 DEF containersVars, Contained, Steady, Holds, Relays, Minds, BoxOf, Own, Net, Relay
  <2>2. ASSUME NEW h \in Hosts,
               \/ BeginSession(h) \/ CreateNetwork(h) \/ ValidateNetwork(h) \/ StartProxy(h)
               \/ StartRelay(h) \/ InspectRelay(h) \/ CloseSession(h)
               \/ StopRelay(h) \/ RemoveNetwork(h)
        PROVE  Contained'
    BY <1>1, <2>2, ContainedSession, ContainedNetwork, ContainedRemoval
  <2>3. ASSUME NEW h \in Hosts,
               \/ RunCase(h) \/ CheckEngine(h) \/ DigestSource(h) \/ CopySource(h)
               \/ CheckStaged(h) \/ CreateBox(h) \/ StartBox(h) \/ ExecBox(h)
               \/ CollectOutput(h) \/ CheckExists(h) \/ RemoveBox(h) \/ ConfirmAbsent(h)
        PROVE  Contained'
    BY <1>1, <2>3, ContainedBefore, ContainedCreateBox, ContainedDuring, ContainedCleanup,
       ContainedRemoval
  <2>4. ASSUME NEW h \in Hosts,
               \/ BeginEvaluation(h) \/ TakeScore(h) \/ BeginBuild(h) \/ RequireEngine(h)
               \/ BuildImage(h) \/ BeginProbe(h) \/ EndProbe(h)
               \/ StartTopology(h) \/ Dial(h) \/ CleanProbe(h) \/ CrashHost(h)
        PROVE  Contained'
    BY <1>1, <2>4, ContainedIdle, ContainedProbe, ContainedCleanProbe, ContainedCrash
  <2> QED BY <1>1, <2>1, <2>2, <2>3, <2>4, ContainedAround DEF ContainersNext
<1> QED BY <1>1, ContainedInit, PTL DEF ContainersSpec

\* Whatever there is in Podman is known to be left, or was made by a process
\* that is not over and removes it, for any number of processes, failures and
\* crashes (the cleanups of sandbox.py, session.py and podman.py).
THEOREM NothingLeftBehindAlways == ContainersSpec => []NothingLeftBehind
<1>1. Contained => NothingLeftBehind
  <2> SUFFICES ASSUME Contained, NEW t \in present \ loose
               PROVE  \E h \in Hosts : t \in host[h].made /\ host[h].at # "done"
    BY DEF NothingLeftBehind
  <2>1. PICK h \in Hosts : Minds(h, host[h], t)
    BY DEF Contained
  <2> QED BY <2>1 DEF Minds, Holds, Relays
<1> QED BY <1>1, ContainersContained, PTL

\* The network and the relay of a session that is open are there, however many
\* processes execute the same run (network.py, session.py).
THEOREM UndisturbedSessionAlways == ContainersSpec => []UndisturbedSession
<1>1. Contained => UndisturbedSession
  <2> SUFFICES ASSUME Contained, NEW h \in Hosts, host[h].act = "session",
                      host[h].at \in {"open", "check", "create", "exec"}
               PROVE  {Net, Relay} \subseteq present
    BY DEF UndisturbedSession
  <2>1. Holds(host[h]) /\ Relays(host[h])
    BY DEF Holds, Relays
  <2> QED BY <2>1 DEF Contained
<1> QED BY <1>1, ContainersContained, PTL

\* What is mounted in a container or copied into an image is the snapshot that
\* was asked for, however often the source is edited (sandbox.py, build.py).
THEOREM ContainerRunsItsSnapshotAlways == ContainersSpec => []ContainerRunsItsSnapshot
<1>1. Contained => ContainerRunsItsSnapshot
  BY DEF Contained, Steady, ContainerRunsItsSnapshot
<1> QED BY <1>1, ContainersContained, PTL

-----------------------------------------------------------------------------
(***************************************************************************)
(* Conversations                                                           *)
(***************************************************************************)
\* The fields after the last blank line of the first d tokens, the blank lines
\* among these that end a frame, and those that end a final one.
OpenAt(s, d) == {i \in FieldLines(s) : i <= d /\ \A c \in BlankLines(s) : c > i => c > d}
Framed(s, d) == {b \in BlankLines(s) : b <= d /\ FieldsOf(s, b) # {}}
Finals(s, d) == {b \in BlankLines(s) : b <= d /\ IsFinal(s, b)}

\* fields are the tokens of s at the places F, in this order.
TokensAt(fields, s, F) ==
    \E at \in [1..Len(fields) -> F] :
        /\ \A i, j \in 1..Len(fields) : i < j => at[i] < at[j]
        /\ \A x \in F : \E i \in 1..Len(fields) : at[i] = x
        /\ \A i \in 1..Len(fields) : fields[i] = s[at[i]]

Frames == {Frame(fields) : fields \in Seq(Heads)}
Parsers == [buffer : Seq(Tokens), fields : Seq(Heads), frames : Nat, refused : BOOLEAN,
            out : Seq(Frames)]

\* The parser p has read the first d tokens of s, the last of which ended a
\* line; answer is what the frames before those of p.out came to.
HasRead(s, d, p, answer) ==
    /\ d \in 0..Len(s) /\ (d = 0 \/ s[d] = "n")
    /\ p.buffer = SubSeq(s, d + 1, Len(s))
    /\ TokensAt(p.fields, s, OpenAt(s, d))
    /\ IsFiniteSet(Framed(s, d)) /\ Cardinality(Framed(s, d)) <= p.frames /\ p.frames <= MaxFrames
    /\ answer = "json" \/ (\E i \in 1..Len(p.out) : p.out[i].event = "final") => Finals(s, d) # {}
    /\ \A b \in Finals(s, d) : HoldsJson(s, b) \/ \E i \in 1..Len(p.out) : NotJson(p.out[i])

-----------------------------------------------------------------------------
\* A non-empty set of natural numbers has a least one.
LEMMA LeastOf ==
  ASSUME NEW S, S \subseteq Nat, S # {}
  PROVE  \E m \in S : \A n \in S : m <= n
<1>1. PICK m \in S : \A n \in S : ~(<<n, m>> \in OpToRel(<, Nat))
  BY NatLessThanWellFounded, WFMin
<1>2. ASSUME NEW n \in S PROVE m <= n
  <2>1. m \in Nat /\ n \in Nat
    BY <1>1
  <2>2. n < m => <<n, m>> \in OpToRel(<, Nat)
    BY <2>1 DEF OpToRel
  <2>3. ~(n < m)
    BY <1>1, <2>2
  <2> QED
    BY <2>1, <2>3
<1> QED
  BY <1>2

\* Induction over the natural numbers in a set.
LEMMA NaturalsIn ==
  ASSUME NEW H, 0 \in H, \A n \in Nat : n \in H => n + 1 \in H
  PROVE  Nat \subseteq H
<1> SUFFICES ASSUME Nat \ H # {} PROVE FALSE
  OBVIOUS
<1>1. PICK m \in Nat \ H : \A n \in Nat \ H : m <= n
  BY LeastOf
<1>2. m - 1 \in Nat /\ m - 1 \notin Nat \ H
  BY <1>1
<1> QED
  BY <1>1, <1>2

\* The first newline of the buffer is one, and nothing before it is.
LEMMA FirstNewline ==
  ASSUME NEW s, s \in Seq(Tokens), HasNewline(s)
  PROVE  /\ Newline(s) \in 1..Len(s) /\ s[Newline(s)] = "n"
         /\ \A j \in 1..(Newline(s) - 1) : s[j] # "n"
<1> DEFINE S == {i \in 1..Len(s) : s[i] = "n"}
<1>0. DOMAIN s = 1..Len(s) /\ Len(s) \in Nat
  OBVIOUS
<1>a. S \subseteq Nat /\ S # {}
  BY <1>0 DEF HasNewline
<1>1. PICK k \in S : \A n \in S : k <= n
  <2> HIDE DEF S
  <2> QED
    BY <1>a, LeastOf
<1>2. k \in DOMAIN s /\ s[k] = "n" /\ \A j \in 1..(k - 1) : s[j] # "n"
  BY <1>1
<1> QED
  BY <1>2 DEF Newline

-----------------------------------------------------------------------------
\* A line of k tokens is read, the last one its newline: if it has no other, it
\* is a blank line, and otherwise a line of a field or none.
LEMMA OneLine ==
  ASSUME NEW s, s \in Seq(Tokens), NEW d, d \in 0..Len(s), d = 0 \/ s[d] = "n",
         NEW k, k \in 1..(Len(s) - d), s[d + k] = "n", \A j \in 1..(k - 1) : s[d + j] # "n"
  PROVE  /\ k = 1 => /\ d + 1 \in BlankLines(s)
                     /\ \A i \in BlankLines(s) : i <= d + 1 => i <= d \/ i = d + 1
                     /\ \A i \in FieldLines(s) : i <= d + 1 => i <= d
         /\ k # 1 => /\ \A i \in BlankLines(s) : i <= d + k => i <= d
                     /\ \A i \in FieldLines(s) : i <= d + k => i <= d \/ i = d + 1
                     /\ d + 1 \in FieldLines(s) <=> s[d + 1] \in Heads
<1>1. d \in Nat /\ Len(s) \in Nat /\ DOMAIN s = 1..Len(s) /\ k \in Nat
  OBVIOUS
<1>2. StartsLine(s, d + 1)
  BY <1>1 DEF StartsLine
<1>3. \A i \in (d + 2)..(d + k) : ~StartsLine(s, i)
  <2> TAKE i \in (d + 2)..(d + k)
  <2>1. i - d - 1 \in 1..(k - 1) /\ d + (i - d - 1) = i - 1
    BY <1>1
  <2>2. s[i - 1] # "n"
    BY <2>1
  <2> QED
    BY <2>2, <1>1 DEF StartsLine
<1>4. "n" \notin Heads
  BY DEF Heads
<1>5. CASE k = 1
  BY <1>5, <1>1, <1>2, <1>4 DEF BlankLines, FieldLines
<1>6. CASE k # 1
  <2>1. s[d + 1] # "n"
    BY <1>6, <1>1
  <2>2. \A i \in Nat : i <= d + k => i <= d \/ i = d + 1 \/ i \in (d + 2)..(d + k)
    BY <1>1
  <2>3. d + 1 \in DOMAIN s
    BY <1>1
  <2> QED
    BY <2>1, <2>2, <2>3, <1>1, <1>2, <1>3, <1>6 DEF BlankLines, FieldLines
<1> QED
  BY <1>5, <1>6

\* What a parser reads of the first d tokens does not depend on the rest.
LEMMA OnlyThePast ==
  ASSUME NEW s, s \in Seq(Tokens), NEW t, t \in Seq(Tokens), NEW d, d \in 0..Len(s),
         Len(s) <= Len(t), \A i \in 1..Len(s) : t[i] = s[i]
  PROVE  /\ OpenAt(s, d) = OpenAt(t, d) /\ Framed(s, d) = Framed(t, d)
         /\ Finals(s, d) = Finals(t, d)
         /\ \A b \in BlankLines(s) : HoldsJson(s, b) <=> HoldsJson(t, b)
         /\ \A i \in OpenAt(s, d) : s[i] = t[i]
<1>1. /\ DOMAIN s = 1..Len(s) /\ DOMAIN t = 1..Len(t) /\ Len(s) \in Nat /\ Len(t) \in Nat
      /\ d \in Nat
  OBVIOUS
<1>2. \A i \in 1..Len(s) : StartsLine(s, i) <=> StartsLine(t, i)
  <2> TAKE i \in 1..Len(s)
  <2>1. CASE i = 1
    BY <2>1 DEF StartsLine
  <2>2. CASE i # 1
    <3>1. i - 1 \in 1..Len(s)
      BY <2>2, <1>1
    <3> QED
      BY <3>1 DEF StartsLine
  <2> QED
    BY <2>1, <2>2
<1>3. \A i \in 1..Len(s) : /\ i \in BlankLines(s) <=> i \in BlankLines(t)
                           /\ i \in FieldLines(s) <=> i \in FieldLines(t)
  BY <1>1, <1>2 DEF BlankLines, FieldLines
<1>4. /\ BlankLines(s) \subseteq 1..Len(s) /\ FieldLines(s) \subseteq 1..Len(s)
      /\ BlankLines(t) \subseteq 1..Len(t) /\ FieldLines(t) \subseteq 1..Len(t)
  BY <1>1 DEF BlankLines, FieldLines
<1>5. \A b \in 1..Len(s) : FieldsOf(s, b) = FieldsOf(t, b)
  <2> TAKE b \in 1..Len(s)
  <2>1. ASSUME NEW i \in 1..Len(s), i < b
        PROVE  i \in FieldsOf(s, b) <=> i \in FieldsOf(t, b)
    <3>1. (\A c \in BlankLines(s) : c > i => c >= b) <=> (\A c \in BlankLines(t) : c > i => c >= b)
      <4>1. ASSUME NEW c \in BlankLines(t), c < b PROVE c \in BlankLines(s)
        BY <4>1, <1>1, <1>3, <1>4
      <4>2. ASSUME NEW c \in BlankLines(s) PROVE c \in BlankLines(t)
        BY <1>3, <1>4
      <4> QED
        BY <4>1, <4>2, <1>1, <1>4
    <3> QED
      BY <3>1, <1>3 DEF FieldsOf
  <2>2. \A i \in FieldsOf(s, b) \cup FieldsOf(t, b) : i \in 1..Len(s) /\ i < b
    BY <1>1, <1>4 DEF FieldsOf
  <2> QED
    BY <2>1, <2>2
<1>6. \A b \in 1..Len(s) : \A i \in FieldsOf(s, b) : i \in 1..Len(s) /\ s[i] = t[i]
  BY <1>4 DEF FieldsOf
<1>7. \A b \in 1..Len(s) : (IsFinal(s, b) <=> IsFinal(t, b)) /\ (HoldsJson(s, b) <=> HoldsJson(t, b))
  BY <1>5, <1>6 DEF IsFinal, HoldsJson
<1>8. \A b \in BlankLines(t) : b <= d => b \in 1..Len(s)
  BY <1>1, <1>4
<1>9. Framed(s, d) = Framed(t, d)
  BY <1>3, <1>4, <1>5, <1>8 DEF Framed
<1>10. Finals(s, d) = Finals(t, d)
  BY <1>3, <1>4, <1>7, <1>8 DEF Finals
<1>11. OpenAt(s, d) = OpenAt(t, d)
  <2>1. ASSUME NEW i \in 1..Len(s), i <= d
        PROVE  (\A c \in BlankLines(s) : c > i => c > d) <=> (\A c \in BlankLines(t) : c > i => c > d)
    <3>1. ASSUME NEW c \in BlankLines(t), c <= d PROVE c \in BlankLines(s)
      BY <3>1, <1>3, <1>8
    <3>2. ASSUME NEW c \in BlankLines(s) PROVE c \in BlankLines(t)
      BY <1>3, <1>4
    <3> QED
      BY <3>1, <3>2, <1>1, <1>4
  <2>2. \A i \in OpenAt(s, d) \cup OpenAt(t, d) : i \in 1..Len(s) /\ i <= d
    BY <1>1, <1>4 DEF OpenAt
  <2>3. \A i \in 1..Len(s) : i \in OpenAt(s, d) <=> i \in OpenAt(t, d)
    BY <2>1, <1>3 DEF OpenAt
  <2> QED
    BY <2>2, <2>3
<1>12. \A i \in OpenAt(s, d) : i \in 1..Len(s)
  BY <1>4 DEF OpenAt
<1> QED
  BY <1>4, <1>7, <1>9, <1>10, <1>11, <1>12

\* What the frame made of the fields that end at b says of it.
LEMMA FrameSays ==
  ASSUME NEW s, s \in Seq(Tokens), NEW fields, fields \in Seq(Heads), NEW b,
         TokensAt(fields, s, FieldsOf(s, b))
  PROVE  /\ Frame(fields).event = "final" <=> IsFinal(s, b)
         /\ IsFinal(s, b) /\ ~HoldsJson(s, b) => NotJson(Frame(fields))
<1> DEFINE F == FieldsOf(s, b)
           events == {i \in DOMAIN fields : fields[i] \in {"final", "note"}}
           data == [i \in {j \in DOMAIN fields : fields[j] \in {"json", "text"}} |-> fields[i]]
<1>0. DOMAIN fields = 1..Len(fields) /\ Len(fields) \in Nat
      /\ \A i \in 1..Len(fields) : fields[i] \in Heads
  OBVIOUS
<1>1. PICK at \in [1..Len(fields) -> F] :
        /\ \A i, j \in 1..Len(fields) : i < j => at[i] < at[j]
        /\ \A x \in F : \E i \in 1..Len(fields) : at[i] = x
        /\ \A i \in 1..Len(fields) : fields[i] = s[at[i]]
  BY DEF TokensAt
<1>2. F \subseteq Nat
  BY DEF FieldsOf, FieldLines
<1>3. /\ Frame(fields).event = IF events = {} THEN "message"
                               ELSE fields[CHOOSE i \in events : \A j \in events : i <= j]
      /\ Frame(fields).data = data
  BY DEF Frame
<1>4. ASSUME events # {}
      PROVE  \E m \in events : Frame(fields).event = fields[m] /\ \A j \in events : m <= j
  <2>1. events \subseteq Nat
    BY <1>0
  <2> HIDE DEF events
  <2>2. \E m \in events : \A j \in events : m <= j
    BY <2>1, <1>4, LeastOf
  <2> QED
    BY <2>2, <1>3, <1>4
<1>5. events \subseteq 1..Len(fields)
      /\ \A i \in 1..Len(fields) : i \in events <=> fields[i] \in {"final", "note"}
  BY <1>0
<1>6. ASSUME Frame(fields).event = "final" PROVE IsFinal(s, b)
  <2>1. events # {}
    BY <1>6, <1>3
  <2>2. PICK m \in events : fields[m] = "final" /\ \A j \in events : m <= j
    BY <2>1, <1>4, <1>6
  <2> HIDE DEF events
  <2>3. m \in 1..Len(fields) /\ at[m] \in F /\ s[at[m]] = "final"
    BY <2>2, <1>1, <1>5
  <2>4. ASSUME NEW j \in F, s[j] = "note" PROVE j > at[m]
    <3>1. PICK n \in 1..Len(fields) : at[n] = j
      BY <1>1
    <3>2. fields[n] = "note" /\ n \in events
      BY <3>1, <2>4, <1>1, <1>5
    <3>3. m <= n /\ n # m
      BY <3>2, <2>2
    <3>4. m < n
      BY <3>3, <2>3, <1>0
    <3> QED
      BY <3>1, <3>4, <2>3, <1>1
  <2> QED
    BY <2>3, <2>4 DEF IsFinal
<1>7. ASSUME IsFinal(s, b) PROVE Frame(fields).event = "final"
  <2>1. PICK x \in F : s[x] = "final" /\ \A j \in F : s[j] = "note" => j > x
    BY <1>7 DEF IsFinal
  <2>2. PICK k \in 1..Len(fields) : at[k] = x
    BY <1>1
  <2>3. fields[k] = "final" /\ k \in events
    BY <2>1, <2>2, <1>1, <1>5
  <2>4. PICK m \in events : Frame(fields).event = fields[m] /\ \A j \in events : m <= j
    BY <2>3, <1>4
  <2> HIDE DEF events
  <2>5. m \in 1..Len(fields) /\ m <= k /\ fields[m] \in {"final", "note"}
    BY <2>3, <2>4, <1>5
  <2>6. ASSUME fields[m] = "note" PROVE FALSE
    <3>1. at[m] \in F /\ s[at[m]] = "note"
      BY <2>5, <2>6, <1>1
    <3>2. at[m] > x
      BY <3>1, <2>1
    <3>3. m # k
      BY <2>3, <2>6
    <3>4. m < k
      BY <3>3, <2>5, <1>0
    <3>5. at[m] < x
      BY <3>4, <2>2, <2>5, <1>1
    <3> QED
      BY <3>1, <3>2, <3>5, <1>2
  <2> QED
    BY <2>4, <2>5, <2>6
<1>8. ASSUME NEW i \in DOMAIN data, DOMAIN data = {i}, data[i] = "json" PROVE HoldsJson(s, b)
  <2>1. i \in 1..Len(fields) /\ fields[i] = "json"
        /\ \A j \in 1..Len(fields) : fields[j] \in {"json", "text"} => j = i
    BY <1>0, <1>8
  <2>2. at[i] \in F /\ s[at[i]] = "json"
    BY <2>1, <1>1
  <2>3. ASSUME NEW j \in F, s[j] \in {"json", "text"} PROVE j = at[i]
    <3>1. PICK n \in 1..Len(fields) : at[n] = j
      BY <1>1
    <3>2. fields[n] \in {"json", "text"}
      BY <3>1, <2>3, <1>1
    <3> QED
      BY <3>1, <3>2, <2>1
  <2> QED
    BY <2>2, <2>3 DEF HoldsJson
<1> HIDE DEF events, data
<1>9. ASSUME IsFinal(s, b), ~HoldsJson(s, b) PROVE NotJson(Frame(fields))
  BY <1>3, <1>7, <1>8, <1>9 DEF NotJson
<1> QED
  BY <1>6, <1>7, <1>9

\* The fields grow by one that is behind them.
LEMMA OneField ==
  ASSUME NEW s, NEW fields, fields \in Seq(Heads), NEW F, F \subseteq Nat, NEW x, x \in Nat,
         s[x] \in Heads, TokensAt(fields, s, F), \A i \in F : i < x
  PROVE  TokensAt(Append(fields, s[x]), s, F \cup {x})
<1> DEFINE more == Append(fields, s[x])
           n == Len(fields)
<1>1. PICK at \in [1..n -> F] :
        /\ \A i, j \in 1..n : i < j => at[i] < at[j]
        /\ \A y \in F : \E i \in 1..n : at[i] = y
        /\ \A i \in 1..n : fields[i] = s[at[i]]
  BY DEF TokensAt
<1>2. n \in Nat /\ Len(more) = n + 1 /\ more[n + 1] = s[x] /\ \A i \in 1..n : more[i] = fields[i]
  OBVIOUS
<1> DEFINE upto == [i \in 1..(n + 1) |-> IF i <= n THEN at[i] ELSE x]
<1> HIDE DEF more, n
<1>3. \A i \in 1..(n + 1) : i \in 1..n \/ i = n + 1
  BY <1>2
<1>4. (\A i \in 1..n : upto[i] = at[i] /\ at[i] \in F /\ i \in 1..(n + 1)) /\ upto[n + 1] = x
      /\ n + 1 \in 1..(n + 1)
  BY <1>1, <1>2
<1>5. upto \in [1..(n + 1) -> F \cup {x}]
  BY <1>3, <1>4
<1> HIDE DEF upto
<1>6. \A i, j \in 1..(n + 1) : i < j => upto[i] < upto[j]
  <2> TAKE i, j \in 1..(n + 1)
  <2> HAVE i < j
  <2>1. i \in 1..n
    BY <1>2
  <2>2. CASE j \in 1..n
    BY <2>1, <2>2, <1>1, <1>4
  <2>3. CASE j = n + 1
    BY <2>1, <2>3, <1>4
  <2> QED
    BY <2>2, <2>3, <1>3
<1>7. \A y \in F \cup {x} : \E i \in 1..(n + 1) : upto[i] = y
  BY <1>1, <1>4
<1>8. \A i \in 1..(n + 1) : more[i] = s[upto[i]]
  BY <1>1, <1>2, <1>3, <1>4
<1> QED
  BY <1>2, <1>5, <1>6, <1>7, <1>8 DEF TokensAt, more

\* A blank line ends what is open.
LEMMA BlankReads ==
  ASSUME NEW s, s \in Seq(Tokens), NEW d, d \in 0..Len(s), d = 0 \/ s[d] = "n",
         d + 1 <= Len(s), s[d + 1] = "n"
  PROVE  /\ OpenAt(s, d + 1) = {} /\ FieldsOf(s, d + 1) = OpenAt(s, d)
         /\ Framed(s, d + 1) = Framed(s, d) \cup (IF OpenAt(s, d) = {} THEN {} ELSE {d + 1})
         /\ Finals(s, d + 1) = Finals(s, d) \cup (IF IsFinal(s, d + 1) THEN {d + 1} ELSE {})
<1>1. d \in Nat /\ Len(s) \in Nat /\ BlankLines(s) \subseteq Nat /\ FieldLines(s) \subseteq Nat
  BY DEF BlankLines, FieldLines
<1>2. /\ d + 1 \in BlankLines(s)
      /\ \A i \in BlankLines(s) : i <= d + 1 => i <= d \/ i = d + 1
      /\ \A i \in FieldLines(s) : i <= d + 1 => i <= d
  <2>1. 1 \in 1..(Len(s) - d) /\ \A j \in 1..(1 - 1) : s[d + j] # "n"
    BY <1>1
  <2> QED
    BY <2>1, OneLine
<1>3. OpenAt(s, d + 1) = {}
  BY <1>1, <1>2 DEF OpenAt
<1>4. FieldsOf(s, d + 1) = OpenAt(s, d)
  <2>1. \A i \in Nat : i < d + 1 <=> i <= d
    BY <1>1
  <2>2. \A c \in BlankLines(s) : c >= d + 1 <=> c > d
    BY <1>1
  <2> QED
    BY <2>1, <2>2, <1>1 DEF OpenAt, FieldsOf
<1>5. \A i \in BlankLines(s) : i <= d + 1 <=> i <= d \/ i = d + 1
  BY <1>1, <1>2
<1>6. Framed(s, d + 1) = Framed(s, d) \cup (IF OpenAt(s, d) = {} THEN {} ELSE {d + 1})
  BY <1>2, <1>4, <1>5 DEF Framed
<1>7. Finals(s, d + 1) = Finals(s, d) \cup (IF IsFinal(s, d + 1) THEN {d + 1} ELSE {})
  BY <1>2, <1>5 DEF Finals
<1> QED
  BY <1>3, <1>4, <1>6, <1>7

\* Any other line opens a field or none, and ends nothing.
LEMMA OtherReads ==
  ASSUME NEW s, s \in Seq(Tokens), NEW d, d \in 0..Len(s), d = 0 \/ s[d] = "n",
         NEW k, k \in 1..(Len(s) - d), s[d + k] = "n", \A j \in 1..(k - 1) : s[d + j] # "n",
         k # 1
  PROVE  /\ OpenAt(s, d + k) = OpenAt(s, d) \cup (IF s[d + 1] \in Heads THEN {d + 1} ELSE {})
         /\ Framed(s, d + k) = Framed(s, d) /\ Finals(s, d + k) = Finals(s, d)
<1>1. d \in Nat /\ Len(s) \in Nat /\ BlankLines(s) \subseteq Nat /\ FieldLines(s) \subseteq Nat
      /\ k \in Nat /\ k >= 2
  BY DEF BlankLines, FieldLines
<1>2. /\ \A i \in BlankLines(s) : i <= d + k => i <= d
      /\ \A i \in FieldLines(s) : i <= d + k => i <= d \/ i = d + 1
      /\ d + 1 \in FieldLines(s) <=> s[d + 1] \in Heads
  BY OneLine
<1>3. \A i \in BlankLines(s) : (i <= d + k <=> i <= d) /\ (i > d + k <=> i > d)
  BY <1>1, <1>2
<1>4. \A i \in FieldLines(s) : i <= d + k <=> i <= d \/ i = d + 1
  BY <1>1, <1>2
<1>5. \A c \in BlankLines(s) : c > d + 1 => c > d
  BY <1>1
<1>6. \A i \in OpenAt(s, d + k) : i \in OpenAt(s, d) \/ (i = d + 1 /\ s[d + 1] \in Heads)
  BY <1>2, <1>3, <1>4 DEF OpenAt
<1>7. \A i \in OpenAt(s, d) : i \in OpenAt(s, d + k)
  BY <1>3, <1>4 DEF OpenAt
<1>8. s[d + 1] \in Heads => d + 1 \in OpenAt(s, d + k)
  BY <1>2, <1>3, <1>4, <1>5 DEF OpenAt
<1>9. OpenAt(s, d + k) = OpenAt(s, d) \cup (IF s[d + 1] \in Heads THEN {d + 1} ELSE {})
  BY <1>6, <1>7, <1>8
<1>10. Framed(s, d + k) = Framed(s, d) /\ Finals(s, d + k) = Finals(s, d)
  BY <1>3 DEF Framed, Finals
<1> QED
  BY <1>9, <1>10

\* The rest of a sequence after its first m elements.
LEMMA RestOf ==
  ASSUME NEW S, NEW t, t \in Seq(S), NEW m, m \in 0..Len(t)
  PROVE  /\ SubSeq(t, m + 1, Len(t)) \in Seq(S)
         /\ Len(SubSeq(t, m + 1, Len(t))) = Len(t) - m
         /\ \A i \in 1..(Len(t) - m) : SubSeq(t, m + 1, Len(t))[i] = t[m + i]
<1> DEFINE r == SubSeq(t, m + 1, Len(t))
<1>1. Len(t) \in Nat /\ m \in Nat /\ m <= Len(t)
  OBVIOUS
<1>2. r \in Seq(S)
  BY <1>1
<1>3. Len(r) = Len(t) - m
  BY <1>1
<1>4. \A i \in 1..(Len(t) - m) : r[i] = t[m + i]
  BY <1>1
<1> QED
  BY <1>2, <1>3, <1>4

\* The rest of a rest.
LEMMA SameRest ==
  ASSUME NEW S, NEW s, s \in Seq(S), NEW d, d \in 0..Len(s), NEW k, k \in 1..(Len(s) - d)
  PROVE  LET t == SubSeq(s, d + 1, Len(s)) IN
         SubSeq(t, k + 1, Len(t)) = SubSeq(s, (d + k) + 1, Len(s))
<1> DEFINE t == SubSeq(s, d + 1, Len(s))
           a == SubSeq(t, k + 1, Len(t))
           b == SubSeq(s, (d + k) + 1, Len(s))
<1>0. Len(s) \in Nat /\ d \in Nat /\ k \in Nat /\ d + k \in 0..Len(s)
  OBVIOUS
<1>1. t \in Seq(S) /\ Len(t) = Len(s) - d /\ \A i \in 1..(Len(s) - d) : t[i] = s[d + i]
  BY ONLY s \in Seq(S), d \in 0..Len(s), <1>0, RestOf
<1>2. b \in Seq(S) /\ Len(b) = Len(s) - (d + k) /\ \A i \in 1..(Len(s) - (d + k)) : b[i] = s[(d + k) + i]
  BY ONLY s \in Seq(S), <1>0, RestOf
<1> HIDE DEF t, b
<1>3. a \in Seq(S) /\ Len(a) = Len(t) - k /\ \A i \in 1..(Len(t) - k) : a[i] = t[k + i]
  <2>1. k \in 0..Len(t)
    BY <1>0, <1>1
  <2>2. t \in Seq(S)
    BY <1>1
  <2> QED
    BY ONLY <2>1, <2>2, RestOf
<1> HIDE DEF a
<1>4. Len(a) = Len(b) /\ Len(a) \in Nat
  BY <1>0, <1>1, <1>2, <1>3
<1>5. \A i \in 1..Len(a) : a[i] = b[i]
  <2> TAKE i \in 1..Len(a)
  <2>1. k + i \in 1..(Len(s) - d) /\ i \in 1..(Len(t) - k) /\ i \in 1..(Len(s) - (d + k)) /\ d + (k + i) = (d + k) + i
    BY <1>0, <1>1, <1>3
  <2> QED
    <3>1. a[i] = t[k + i] /\ t[k + i] = s[d + (k + i)] /\ b[i] = s[(d + k) + i]
      BY ONLY <2>1, <1>1, <1>2, <1>3
    <3> QED
      BY ONLY <2>1, <3>1
<1>6. a = b
  BY ONLY <1>2, <1>3, <1>4, <1>5
<1> QED
  BY <1>6 DEF a, b, t
\* The line of k tokens that comes after d tokens of s is the first in a buffer.
LineIs(s, d, buffer, k) ==
    /\ k \in 1..(Len(s) - d) /\ s[d + k] = "n"
    /\ \A j \in 1..(k - 1) : s[d + j] # "n"
    /\ SubSeq(buffer, k + 1, Len(buffer)) = SubSeq(s, (d + k) + 1, Len(s))
    /\ SubSeq(buffer, 1, k - 1) = <<>> <=> k = 1
    /\ k # 1 => SubSeq(buffer, 1, k - 1)[1] = s[d + 1]

\* The next line in the buffer is the next line of the stream.
LEMMA NextLine ==
  ASSUME NEW s, s \in Seq(Tokens), NEW d, d \in 0..Len(s),
         NEW buffer, buffer = SubSeq(s, d + 1, Len(s)), HasNewline(buffer)
  PROVE  LineIs(s, d, buffer, Newline(buffer))
<1> DEFINE k == Newline(buffer)
           line == SubSeq(buffer, 1, k - 1)
<1>1. /\ buffer \in Seq(Tokens) /\ Len(buffer) = Len(s) - d /\ d \in Nat /\ Len(s) \in Nat
      /\ \A i \in 1..(Len(s) - d) : buffer[i] = s[d + i]
  OBVIOUS
<1>2. k \in 1..Len(buffer) /\ buffer[k] = "n" /\ \A j \in 1..(k - 1) : buffer[j] # "n"
  BY <1>1, FirstNewline
<1> HIDE DEF k
<1>3. k \in 1..(Len(s) - d) /\ s[d + k] = "n" /\ \A j \in 1..(k - 1) : s[d + j] # "n"
  <2>1. k \in 1..(Len(s) - d)
    BY <1>1, <1>2
  <2>2. ASSUME NEW j \in 1..(k - 1) PROVE s[d + j] # "n"
    <3>1. j \in 1..(Len(s) - d)
      BY <2>1, <1>1
    <3> QED
      BY <3>1, <1>1, <1>2
  <2> QED
    BY <2>1, <2>2, <1>1, <1>2
<1>4. SubSeq(buffer, k + 1, Len(buffer)) = SubSeq(s, (d + k) + 1, Len(s))
  BY ONLY <1>3, SameRest, s \in Seq(Tokens), d \in 0..Len(s), buffer = SubSeq(s, d + 1, Len(s))
<1>5. line \in Seq(Tokens) /\ Len(line) = k - 1 /\ (k # 1 => line[1] = buffer[1])
  <2>1. k - 1 \in 0..Len(buffer) /\ Len(buffer) \in Nat
    BY <1>1, <1>2
  <2>2. \A m \in 0..Len(buffer) :
            /\ SubSeq(buffer, 1, m) \in Seq(Tokens) /\ Len(SubSeq(buffer, 1, m)) = m
            /\ m # 0 => SubSeq(buffer, 1, m)[1] = buffer[1]
    BY <1>1
  <2>3. k - 1 # 0 <=> k # 1
    BY <1>2
  <2> QED
    BY <2>1, <2>2, <2>3
<1>6. k # 1 => buffer[1] = s[d + 1]
  BY <1>1, <1>3
<1> HIDE DEF line
<1>7. line = <<>> <=> k = 1
  BY <1>5, <1>2
<1> QED
  BY <1>3, <1>4, <1>5, <1>6, <1>7 DEF LineIs, k, line

\* A frame leaves the parser.
LEMMA Emitted ==
  ASSUME NEW u, u \in Parsers, NEW x, x \in Seq(Frames), u.frames + 1 \in Nat
  PROVE  LET v == [u EXCEPT !.frames = @ + 1, !.fields = <<>>, !.out = x] IN
         /\ v \in Parsers /\ v.buffer = u.buffer /\ v.fields = <<>> /\ v.frames = u.frames + 1
         /\ v.out = x /\ v.refused = u.refused
<1>1. <<>> \in Seq(Heads)
  OBVIOUS
<1>2. DOMAIN u = {"buffer", "fields", "frames", "refused", "out"}
  BY DEF Parsers
<1> DEFINE v == [u EXCEPT !.frames = @ + 1, !.fields = <<>>, !.out = x]
<1>3. v.buffer = u.buffer /\ v.fields = <<>> /\ v.frames = u.frames + 1
      /\ v.out = x /\ v.refused = u.refused
  BY <1>2
<1>4. v \in Parsers
  BY <1>1 DEF Parsers
<1> QED
  BY <1>3, <1>4

\* A blank line makes the frame that the reading of the whole finds at it
\* (streaming.py), or the parser refuses the stream.
LEMMA ReadsBlank ==
  ASSUME NEW s, s \in Seq(Tokens), NEW d, NEW p, NEW answer, p \in Parsers,
         HasRead(s, d, p, answer), ~p.refused,
         NEW q, q = [p EXCEPT !.buffer = SubSeq(s, (d + 1) + 1, Len(s))],
         d + 1 <= Len(s), s[d + 1] = "n"
  PROVE  /\ BlankLine(q) \in Parsers
         /\ BlankLine(q).refused \/ HasRead(s, d + 1, BlankLine(q), answer)
<1> DEFINE rest == SubSeq(s, (d + 1) + 1, Len(s))
           F == OpenAt(s, d)
<1>1. /\ d \in Nat /\ d \in 0..Len(s) /\ d + 1 \in 0..Len(s) /\ rest \in Seq(Tokens)
      /\ d = 0 \/ s[d] = "n"
  BY DEF HasRead
<1>2. /\ q \in Parsers /\ q.buffer = rest /\ q.fields = p.fields /\ q.frames = p.frames
      /\ q.out = p.out /\ q.refused = FALSE
  BY <1>1 DEF Parsers
<1>3. /\ OpenAt(s, d + 1) = {} /\ FieldsOf(s, d + 1) = F
      /\ Framed(s, d + 1) = Framed(s, d) \cup (IF F = {} THEN {} ELSE {d + 1})
      /\ Finals(s, d + 1) = Finals(s, d) \cup (IF IsFinal(s, d + 1) THEN {d + 1} ELSE {})
  BY <1>1, BlankReads
<1>4. /\ TokensAt(p.fields, s, F)
      /\ IsFiniteSet(Framed(s, d)) /\ Cardinality(Framed(s, d)) <= p.frames /\ p.frames <= MaxFrames
      /\ answer = "json" \/ (\E i \in 1..Len(p.out) : p.out[i].event = "final") => Finals(s, d) # {}
      /\ \A b \in Finals(s, d) : HoldsJson(s, b) \/ \E i \in 1..Len(p.out) : NotJson(p.out[i])
  BY DEF HasRead
<1>5. /\ p.fields \in Seq(Heads) /\ p.frames \in Nat /\ p.out \in Seq(Frames)
      /\ MaxFrames \in Nat
  BY ConversationsAssumption DEF Parsers
<1>6. TokensAt(<<>>, s, {})
  <2> DEFINE at == [i \in 1..Len(<<>>) |-> 0]
  <2>1. 1..Len(<<>>) = {}
    OBVIOUS
  <2>2. at \in [1..Len(<<>>) -> {}]
    BY <2>1
  <2> QED
    BY <2>1, <2>2 DEF TokensAt
<1>7. CASE p.fields = <<>>
  <2>1. F = {}
    BY <1>4, <1>7 DEF TokensAt
  <2>2. BlankLine(q) = q
    BY <1>2, <1>7 DEF BlankLine
  <2>3. ~IsFinal(s, d + 1)
    BY <2>1, <1>3 DEF IsFinal
  <2>4. Framed(s, d + 1) = Framed(s, d) /\ Finals(s, d + 1) = Finals(s, d)
    BY <2>1, <2>3, <1>3
  <2>5. HasRead(s, d + 1, q, answer)
    BY <2>4, <1>1, <1>2, <1>3, <1>4, <1>6, <1>7 DEF HasRead
  <2> QED
    BY <2>2, <2>5, <1>2
<1>8. CASE p.fields # <<>> /\ p.frames = MaxFrames
  BY <1>8, <1>2 DEF BlankLine, Refuse, Parsers
<1>9. CASE p.fields # <<>> /\ p.frames # MaxFrames
  <2> DEFINE frame == Frame(p.fields)
             out == Append(p.out, frame)
             r == [q EXCEPT !.frames = @ + 1, !.fields = <<>>, !.out = Append(@, Frame(q.fields))]
  <2>1. BlankLine(q) = r
    BY <1>2, <1>9 DEF BlankLine
  <2>2. frame \in Frames
    BY <1>5 DEF Frames
  <2>3. /\ out \in Seq(Frames) /\ Len(out) = Len(p.out) + 1 /\ out[Len(p.out) + 1] = frame
        /\ Len(p.out) \in Nat /\ \A i \in 1..Len(p.out) : out[i] = p.out[i]
    BY <2>2, <1>5
  <2> HIDE DEF frame, out
  <2>4. /\ r \in Parsers /\ r.buffer = rest /\ r.fields = <<>> /\ r.frames = p.frames + 1
        /\ r.out = out /\ r.refused = FALSE
    <3>1. Append(q.out, Frame(q.fields)) = out
      BY <1>2 DEF out, frame
    <3>2. out \in Seq(Frames) /\ q.frames + 1 \in Nat /\ q \in Parsers
      BY <2>3, <1>2, <1>5
    <3> DEFINE v == [q EXCEPT !.frames = @ + 1, !.fields = <<>>, !.out = out]
    <3>3. r = v
      BY ONLY <3>1
    <3>4. /\ v \in Parsers /\ v.buffer = q.buffer /\ v.fields = <<>> /\ v.frames = q.frames + 1
          /\ v.out = out /\ v.refused = q.refused
      BY ONLY <3>2, Emitted
    <3> HIDE DEF r, v
    <3> QED
      BY <3>3, <3>4, <1>2
  <2> HIDE DEF r
  <2>5. (frame.event = "final" <=> IsFinal(s, d + 1))
        /\ (IsFinal(s, d + 1) /\ ~HoldsJson(s, d + 1) => NotJson(frame))
    <3>1. TokensAt(p.fields, s, FieldsOf(s, d + 1))
      BY <1>3, <1>4
    <3> QED
      BY <3>1, <1>5, FrameSays DEF frame
  <2>6. /\ IsFiniteSet(Framed(s, d + 1))
        /\ Cardinality(Framed(s, d + 1)) <= p.frames + 1 /\ p.frames + 1 <= MaxFrames
    <3>1. p.frames + 1 <= MaxFrames /\ Cardinality(Framed(s, d)) \in Nat
      BY <1>4, <1>5, <1>9, FS_CardinalityType
    <3>2. IsFiniteSet(Framed(s, d) \cup {d + 1})
          /\ Cardinality(Framed(s, d) \cup {d + 1}) <= Cardinality(Framed(s, d)) + 1
      <4> DEFINE more == Framed(s, d) \cup {d + 1}
      <4>1. IsFiniteSet(more) /\ Cardinality(more) = IF d + 1 \in Framed(s, d) THEN Cardinality(Framed(s, d)) ELSE Cardinality(Framed(s, d)) + 1
        BY <1>4, FS_AddElement
      <4> HIDE DEF more
      <4>2. Cardinality(more) <= Cardinality(Framed(s, d)) + 1
        BY <4>1, <3>1
      <4> QED
        BY <4>1, <4>2 DEF more
    <3>3. Framed(s, d + 1) = Framed(s, d) \/ Framed(s, d + 1) = Framed(s, d) \cup {d + 1}
      BY <1>3
    <3>4. IsFiniteSet(Framed(s, d + 1)) /\ Cardinality(Framed(s, d + 1)) \in Nat
      BY <3>2, <3>3, <1>4, FS_CardinalityType
    <3>5. Cardinality(Framed(s, d + 1)) <= Cardinality(Framed(s, d)) + 1
      <4>1. CASE Framed(s, d + 1) = Framed(s, d)
        BY ONLY <4>1, <3>1
      <4>2. CASE Framed(s, d + 1) = Framed(s, d) \cup {d + 1}
        BY ONLY <4>2, <3>2
      <4> QED
        BY <4>1, <4>2, <3>3
    <3>6. Cardinality(Framed(s, d)) <= p.frames
      BY <1>4
    <3> QED
      BY <3>1, <3>4, <3>5, <3>6, <1>5
  <2>7. answer = "json" \/ (\E i \in 1..Len(out) : out[i].event = "final") => Finals(s, d + 1) # {}
    <3>1. CASE answer = "json" \/ (\E i \in 1..Len(p.out) : out[i].event = "final")
      BY <3>1, <2>3, <1>3, <1>4
    <3>2. CASE out[Len(p.out) + 1].event = "final"
      BY <3>2, <2>3, <2>5, <1>3
    <3>3. \A i \in 1..Len(out) : i \in 1..Len(p.out) \/ i = Len(p.out) + 1
      BY <2>3
    <3> QED
      BY <3>1, <3>2, <3>3
  <2>8. ASSUME NEW b \in Finals(s, d + 1)
        PROVE  HoldsJson(s, b) \/ \E i \in 1..Len(out) : NotJson(out[i])
    <3>1. CASE b \in Finals(s, d)
      <4>1. \A i \in 1..Len(p.out) : i \in 1..Len(out)
        BY <2>3
      <4> QED
        BY <4>1, <3>1, <1>4, <2>3
    <3>2. CASE b \notin Finals(s, d)
      <4>1. b = d + 1 /\ IsFinal(s, d + 1)
        BY <3>2, <1>3
      <4>2. Len(p.out) + 1 \in 1..Len(out)
        BY <2>3
      <4> QED
        BY <4>1, <4>2, <2>3, <2>5
    <3> QED
      BY <3>1, <3>2
  <2>9. HasRead(s, d + 1, r, answer)
    BY <2>4, <2>6, <2>7, <2>8, <1>1, <1>3, <1>6 DEF HasRead
  <2> QED
    BY <2>1, <2>4, <2>9 DEF r
<1> QED
  BY <1>7, <1>8, <1>9

\* Any other line opens a field or is passed over.
LEMMA ReadsOther ==
  ASSUME NEW s, s \in Seq(Tokens), NEW d, NEW p, NEW answer, p \in Parsers,
         HasRead(s, d, p, answer), ~p.refused,
         NEW k, k \in 1..(Len(s) - d), s[d + k] = "n", \A j \in 1..(k - 1) : s[d + j] # "n", k # 1,
         NEW q, q = [p EXCEPT !.buffer = SubSeq(s, (d + k) + 1, Len(s))],
         NEW line, line # <<>>, line[1] = s[d + 1]
  PROVE  /\ TakeLine(q, line) \in Parsers
         /\ TakeLine(q, line).refused \/ HasRead(s, d + k, TakeLine(q, line), answer)
<1> DEFINE rest == SubSeq(s, (d + k) + 1, Len(s))
           F == OpenAt(s, d)
           x == s[d + 1]
<1>1. /\ d \in Nat /\ d \in 0..Len(s) /\ d + k \in 0..Len(s) /\ rest \in Seq(Tokens)
      /\ d = 0 \/ s[d] = "n"
      /\ d + k = 0 \/ s[d + k] = "n"
  <2>1. d \in 0..Len(s) /\ (d = 0 \/ s[d] = "n") /\ Len(s) \in Nat
    BY DEF HasRead
  <2>2. d + k \in 0..Len(s) /\ rest \in Seq(Tokens)
    BY <2>1
  <2> QED
    BY <2>1, <2>2
<1>2. /\ q \in Parsers /\ q.buffer = rest /\ q.fields = p.fields /\ q.frames = p.frames
      /\ q.out = p.out /\ q.refused = FALSE
  BY <1>1 DEF Parsers
<1>3. /\ OpenAt(s, d + k) = F \cup (IF x \in Heads THEN {d + 1} ELSE {})
      /\ Framed(s, d + k) = Framed(s, d) /\ Finals(s, d + k) = Finals(s, d)
  BY <1>1, OtherReads
<1>4. /\ TokensAt(p.fields, s, F)
      /\ IsFiniteSet(Framed(s, d)) /\ Cardinality(Framed(s, d)) <= p.frames /\ p.frames <= MaxFrames
      /\ answer = "json" \/ (\E i \in 1..Len(p.out) : p.out[i].event = "final") => Finals(s, d) # {}
      /\ \A b \in Finals(s, d) : HoldsJson(s, b) \/ \E i \in 1..Len(p.out) : NotJson(p.out[i])
  BY DEF HasRead
<1>5. CASE x = "colon"
  <2>1. TakeLine(q, line) = q
    BY <1>5 DEF TakeLine
  <2>2. OpenAt(s, d + k) = F
    BY <1>3, <1>5 DEF Heads
  <2>3. HasRead(s, d + k, q, answer)
    BY <2>2, <1>1, <1>2, <1>3, <1>4 DEF HasRead
  <2> QED
    BY <2>1, <2>3, <1>2
<1>6. CASE x \in Heads
  <2> DEFINE more == Append(p.fields, x)
             r == [q EXCEPT !.fields = more]
  <2>1. TakeLine(q, line) = r
    BY <1>2, <1>6 DEF TakeLine, Heads
  <2>2. more \in Seq(Heads) /\ p.fields \in Seq(Heads)
    BY <1>6 DEF Parsers
  <2>3. /\ r \in Parsers /\ r.buffer = rest /\ r.fields = more /\ r.frames = p.frames
        /\ r.out = p.out /\ r.refused = FALSE
    <3> HIDE DEF more, rest
    <3> QED
      BY <2>2, <1>2 DEF Parsers
  <2>4. TokensAt(more, s, F \cup {d + 1})
    <3>1. F \subseteq Nat /\ \A i \in F : i < d + 1
      <4>1. F \subseteq 1..Len(s) /\ \A i \in F : i <= d
        BY DEF OpenAt, FieldLines
      <4> HIDE DEF F
      <4> QED
        BY <4>1, <1>1
    <3>2. /\ p.fields \in Seq(Heads) /\ d + 1 \in Nat /\ s[d + 1] \in Heads
          /\ TokensAt(p.fields, s, F)
      BY <2>2, <1>1, <1>4, <1>6
    <3> QED
      BY ONLY <3>1, <3>2, OneField
  <2> HIDE DEF r, more
  <2>5. HasRead(s, d + k, r, answer)
    BY <2>3, <2>4, <1>1, <1>3, <1>4, <1>6 DEF HasRead
  <2> QED
    BY <2>1, <2>3, <2>5
<1>7. CASE x # "colon" /\ x \notin Heads
  <2>1. TakeLine(q, line) = Refuse(q)
    BY <1>7 DEF TakeLine
  <2> QED
    BY <2>1, <1>2 DEF Refuse, Parsers
<1> QED
  BY <1>5, <1>6, <1>7

Reads(s, p, answer) == p \in Parsers /\ (p.refused \/ \E d \in Nat : HasRead(s, d, p, answer))

\* Taking the next line of the buffer leaves a parser that reads the stream.
LEMMA TakesNext ==
  ASSUME NEW s, s \in Seq(Tokens), NEW p, NEW answer, Reads(s, p, answer)
  PROVE  Reads(s, TakeNext(p), answer)
<1>1. CASE p.refused \/ ~HasNewline(p.buffer)
  BY <1>1 DEF TakeNext
<1>2. CASE ~p.refused /\ HasNewline(p.buffer)
  <2>1. PICK d \in Nat : HasRead(s, d, p, answer)
    BY <1>2 DEF Reads
  <2> DEFINE k == Newline(p.buffer)
             line == SubSeq(p.buffer, 1, k - 1)
             q == [p EXCEPT !.buffer = SubSeq(s, (d + k) + 1, Len(s))]
  <2>2. p \in Parsers /\ d \in 0..Len(s) /\ p.buffer = SubSeq(s, d + 1, Len(s))
    BY <2>1 DEF Reads, HasRead
  <2>a. LineIs(s, d, p.buffer, k)
    BY <2>2, <1>2, NextLine
  <2> HIDE DEF k
  <2>3. /\ k \in 1..(Len(s) - d) /\ s[d + k] = "n" /\ \A j \in 1..(k - 1) : s[d + j] # "n"
        /\ SubSeq(p.buffer, k + 1, Len(p.buffer)) = SubSeq(s, (d + k) + 1, Len(s))
        /\ line = <<>> <=> k = 1
        /\ k # 1 => line[1] = s[d + 1]
    BY <2>a DEF LineIs
  <2>4. TakeNext(p) = TakeLine(q, line)
    BY <2>3, <1>2 DEF TakeNext, k
  <2> HIDE DEF line, q
  <2>5. CASE k = 1
    <3>1. TakeLine(q, line) = BlankLine(q)
      BY <2>3, <2>5 DEF TakeLine
    <3>2. q = [p EXCEPT !.buffer = SubSeq(s, (d + 1) + 1, Len(s))] /\ d + 1 <= Len(s) /\ s[d + 1] = "n"
      BY <2>2, <2>3, <2>5 DEF q
    <3>3. BlankLine(q) \in Parsers /\ (BlankLine(q).refused \/ HasRead(s, d + 1, BlankLine(q), answer))
      BY <3>2, <2>1, <2>2, <1>2, ReadsBlank
    <3> QED
      BY <3>1, <3>3, <2>4 DEF Reads
  <2>6. CASE k # 1
    <3>1. /\ TakeLine(q, line) \in Parsers
          /\ TakeLine(q, line).refused \/ HasRead(s, d + k, TakeLine(q, line), answer)
      BY <2>1, <2>2, <2>3, <2>6, <1>2, ReadsOther DEF q
    <3>2. d + k \in Nat
      BY <2>3
    <3> QED
      BY <3>1, <3>2, <2>4 DEF Reads
  <2> QED
    BY <2>5, <2>6
<1> QED
  BY <1>1, <1>2

\* What Drain computes: as many lines are taken as there are tokens.
LEMMA DrainExists ==
  ASSUME NEW p
  PROVE  \A n \in Nat : \E f : f = [m \in 0..n |-> IF m = 0 THEN p ELSE TakeNext(f[m - 1])]
<1> DEFINE Solves(f, n) == f = [m \in 0..n |-> IF m = 0 THEN p ELSE TakeNext(f[m - 1])]
           H == {n \in Nat : \E f : Solves(f, n)}
<1>1. 0 \in H
  <2> DEFINE f == [m \in 0..0 |-> p]
  <2>1. Solves(f, 0)
    OBVIOUS
  <2> QED
    BY <2>1
<1>2. ASSUME NEW n \in Nat, n \in H PROVE n + 1 \in H
  <2>1. PICK f : Solves(f, n)
    BY <1>2
  <2> DEFINE g == [m \in 0..(n + 1) |-> IF m = n + 1 THEN TakeNext(f[n]) ELSE f[m]]
  <2>2. ASSUME NEW m \in 0..(n + 1) PROVE g[m] = IF m = 0 THEN p ELSE TakeNext(g[m - 1])
    <3>1. CASE m = n + 1
      <4>1. g[m] = TakeNext(f[n]) /\ m # 0 /\ m - 1 = n /\ n \in 0..(n + 1) /\ n # n + 1
        BY <3>1
      <4>2. g[n] = f[n]
        BY <4>1
      <4> QED
        BY <4>1, <4>2
    <3>2. CASE m # n + 1
      <4>1. m \in 0..n /\ g[m] = f[m]
        BY <3>2
      <4>2. f[m] = IF m = 0 THEN p ELSE TakeNext(f[m - 1])
        BY <2>1, <4>1
      <4>3. m # 0 => m - 1 \in 0..(n + 1) /\ m - 1 # n + 1
        BY <4>1
      <4>4. m # 0 => g[m - 1] = f[m - 1]
        BY <4>3
      <4> QED
        BY <4>1, <4>2, <4>4
    <3> QED
      BY <3>1, <3>2
  <2>3. Solves(g, n + 1)
    <3>1. g = [m \in 0..(n + 1) |-> g[m]]
      OBVIOUS
    <3> HIDE DEF g
    <3> QED
      BY <3>1, <2>2
  <2> HIDE DEF Solves
  <2> QED
    BY <2>3
<1> HIDE DEF H
<1>3. Nat \subseteq H
  BY <1>1, <1>2, NaturalsIn
<1> QED
  BY <1>3 DEF H

\* So does taking all of them, by induction on how many lines were taken.
LEMMA DrainReads ==
  ASSUME NEW s, s \in Seq(Tokens), NEW p, NEW answer, Reads(s, p, answer)
  PROVE  Reads(s, Drain(p), answer)
<1> DEFINE n == Len(p.buffer)
           Solves(f) == f = [m \in 0..n |-> IF m = 0 THEN p ELSE TakeNext(f[m - 1])]
           after == CHOOSE f : Solves(f)
           H == {m \in Nat : m <= n => Reads(s, after[m], answer)}
<1>1. n \in Nat
  BY DEF Reads, Parsers
<1>2. Solves(after)
  <2>1. \E f : Solves(f)
    <3> HIDE DEF n
    <3> QED
      BY ONLY <1>1, DrainExists
  <2> HIDE DEF Solves
  <2> QED
    BY <2>1
<1>3. Drain(p) = after[n]
  BY DEF Drain
<1> HIDE DEF after, n
<1>4. \A m \in 0..n : after[m] = IF m = 0 THEN p ELSE TakeNext(after[m - 1])
  BY <1>2
<1>5. 0 \in H
  BY <1>1, <1>4
<1>6. ASSUME NEW m \in Nat, m \in H PROVE m + 1 \in H
  <2> SUFFICES ASSUME m + 1 <= n PROVE Reads(s, after[m + 1], answer)
    OBVIOUS
  <2>1. Reads(s, after[m], answer) /\ m + 1 \in 0..n /\ m + 1 # 0 /\ (m + 1) - 1 = m
    BY <1>1, <1>6
  <2>2. after[m + 1] = TakeNext(after[m])
    BY <2>1, <1>4
  <2> QED
    BY <2>1, <2>2, TakesNext
<1> HIDE DEF H
<1>7. n \in H
  BY <1>1, <1>5, <1>6, NaturalsIn
<1> QED
  BY <1>1, <1>3, <1>7 DEF H

\* A chunk comes in: what was read of the stream stays read.
LEMMA MoreToRead ==
  ASSUME NEW s, s \in Seq(Tokens), NEW chunk, chunk \in Seq(Tokens), NEW d, NEW p, NEW answer,
         p \in Parsers, p.out = <<>>, HasRead(s, d, p, answer)
  PROVE  LET held == [p EXCEPT !.buffer = @ \o chunk, !.out = <<>>] IN
         held \in Parsers /\ HasRead(s \o chunk, d, held, answer)
<1> DEFINE t == s \o chunk
           held == [p EXCEPT !.buffer = @ \o chunk, !.out = <<>>]
<1>1. /\ t \in Seq(Tokens) /\ Len(t) = Len(s) + Len(chunk) /\ Len(s) \in Nat /\ Len(chunk) \in Nat
      /\ \A i \in 1..Len(s) : t[i] = s[i]
      /\ \A i \in 1..Len(chunk) : t[Len(s) + i] = chunk[i]
  OBVIOUS
<1>2. /\ d \in 0..Len(s) /\ (d = 0 \/ s[d] = "n") /\ p.buffer = SubSeq(s, d + 1, Len(s))
      /\ TokensAt(p.fields, s, OpenAt(s, d))
      /\ IsFiniteSet(Framed(s, d)) /\ Cardinality(Framed(s, d)) <= p.frames /\ p.frames <= MaxFrames
      /\ answer = "json" \/ (\E i \in 1..Len(p.out) : p.out[i].event = "final") => Finals(s, d) # {}
      /\ \A b \in Finals(s, d) : HoldsJson(s, b) \/ \E i \in 1..Len(p.out) : NotJson(p.out[i])
  BY DEF HasRead
<1> HIDE DEF t
<1>3. /\ OpenAt(s, d) = OpenAt(t, d) /\ Framed(s, d) = Framed(t, d)
      /\ Finals(s, d) = Finals(t, d)
      /\ \A b \in BlankLines(s) : HoldsJson(s, b) <=> HoldsJson(t, b)
      /\ \A i \in OpenAt(s, d) : s[i] = t[i]
  <2>1. Len(s) <= Len(t)
    BY <1>1
  <2> QED
    BY <2>1, <1>1, <1>2, OnlyThePast
<1>4. p.buffer \o chunk = SubSeq(t, d + 1, Len(t))
  <2> DEFINE a == p.buffer \o chunk
             b == SubSeq(t, d + 1, Len(t))
  <2>1. /\ p.buffer \in Seq(Tokens) /\ Len(p.buffer) = Len(s) - d
        /\ \A i \in 1..(Len(s) - d) : p.buffer[i] = s[d + i]
    <3>1. s \in Seq(Tokens) /\ d \in 0..Len(s)
      BY <1>2
    <3>2. /\ SubSeq(s, d + 1, Len(s)) \in Seq(Tokens)
          /\ Len(SubSeq(s, d + 1, Len(s))) = Len(s) - d
          /\ \A i \in 1..(Len(s) - d) : SubSeq(s, d + 1, Len(s))[i] = s[d + i]
      BY ONLY <3>1, RestOf
    <3> QED
      BY <3>2, <1>2
  <2>2. /\ b \in Seq(Tokens) /\ Len(b) = Len(t) - d
        /\ \A i \in 1..(Len(t) - d) : b[i] = t[d + i]
    <3>1. t \in Seq(Tokens) /\ d \in 0..Len(t)
      BY <1>1, <1>2
    <3> QED
      BY ONLY <3>1, RestOf
  <2>3. /\ a \in Seq(Tokens) /\ Len(a) = Len(p.buffer) + Len(chunk)
        /\ \A i \in 1..Len(p.buffer) : a[i] = p.buffer[i]
        /\ \A i \in 1..Len(chunk) : a[Len(p.buffer) + i] = chunk[i]
    BY <2>1
  <2> HIDE DEF a, b
  <2>4. Len(a) = Len(b) /\ Len(a) = Len(t) - d /\ d \in Nat /\ d <= Len(s)
    BY <1>1, <1>2, <2>1, <2>2, <2>3
  <2>5. \A i \in 1..Len(a) : a[i] = b[i]
    <3> TAKE i \in 1..Len(a)
    <3>1. b[i] = t[d + i]
      BY <2>2, <2>4
    <3>2. CASE i <= Len(s) - d
      <4>1. i \in 1..(Len(s) - d) /\ i \in 1..Len(p.buffer) /\ d + i \in 1..Len(s)
        BY <3>2, <1>1, <2>1, <2>4
      <4> QED
        BY ONLY <4>1, <3>1, <1>1, <2>1, <2>3
    <3>3. CASE i > Len(s) - d
      <4>1. PICK j \in 1..Len(chunk) : i = (Len(s) - d) + j /\ d + i = Len(s) + j
        <5> DEFINE j == i - (Len(s) - d)
        <5>1. j \in 1..Len(chunk) /\ i = (Len(s) - d) + j /\ d + i = Len(s) + j
          BY <3>3, <1>1, <2>4
        <5> QED
          BY <5>1
      <4> QED
        BY ONLY <4>1, <3>1, <1>1, <2>1, <2>3
    <3> QED
      BY <3>2, <3>3, <1>1, <2>4
  <2>6. a = b
    <3>1. a \in Seq(Tokens) /\ b \in Seq(Tokens) /\ Len(a) = Len(b)
      BY <2>2, <2>3, <2>4
    <3> QED
      BY ONLY <3>1, <2>5
  <2> QED
    BY <2>6 DEF a, b
<1>5. /\ held \in Parsers /\ held.buffer = p.buffer \o chunk /\ held.fields = p.fields
      /\ held.frames = p.frames /\ held.out = <<>>
  <2> DEFINE more == p.buffer \o chunk
             none == <<>>
  <2>1. more \in Seq(Tokens) /\ none \in Seq(Frames)
    BY DEF Parsers
  <2>2. held = [p EXCEPT !.buffer = more, !.out = none]
    OBVIOUS
  <2> HIDE DEF more, none, held
  <2>3. /\ held \in Parsers /\ held.buffer = more /\ held.fields = p.fields
        /\ held.frames = p.frames /\ held.out = none
    BY <2>1, <2>2 DEF Parsers
  <2> QED
    BY <2>3 DEF more, none
<1> HIDE DEF held
<1>6. TokensAt(p.fields, t, OpenAt(t, d))
  <2>1. PICK at \in [1..Len(p.fields) -> OpenAt(s, d)] :
          /\ \A i, j \in 1..Len(p.fields) : i < j => at[i] < at[j]
          /\ \A x \in OpenAt(s, d) : \E i \in 1..Len(p.fields) : at[i] = x
          /\ \A i \in 1..Len(p.fields) : p.fields[i] = s[at[i]]
    BY <1>2 DEF TokensAt
  <2>2. \A i \in 1..Len(p.fields) : p.fields[i] = t[at[i]]
    BY <2>1, <1>3
  <2> QED
    BY <2>1, <2>2, <1>3 DEF TokensAt
<1>7. answer = "json" \/ (\E i \in 1..Len(held.out) : held.out[i].event = "final") => Finals(t, d) # {}
  BY <1>2, <1>3, <1>5
<1>8. ASSUME NEW b \in Finals(t, d)
      PROVE  HoldsJson(t, b) \/ \E i \in 1..Len(held.out) : NotJson(held.out[i])
  <2>1. b \in BlankLines(s)
    BY <1>3 DEF Finals
  <2> QED
    BY <2>1, <1>2, <1>3
<1>9. d \in 0..Len(t) /\ (d = 0 \/ t[d] = "n")
  BY <1>1, <1>2
<1>10. held.buffer = SubSeq(t, d + 1, Len(t))
  BY <1>4, <1>5
<1>11. HasRead(t, d, held, answer)
  BY <1>2, <1>3, <1>5, <1>6, <1>7, <1>8, <1>9, <1>10 DEF HasRead
<1> QED
  BY <1>5, <1>11 DEF t, held

\* So does a chunk, wherever it ends: what was held is what of the longer stream
\* follows the tokens taken before.
LEMMA FeedReads ==
  ASSUME NEW s, s \in Seq(Tokens), NEW chunk, chunk \in Seq(Tokens), NEW d, d \in Nat,
         NEW p, NEW answer, p \in Parsers, p.out = <<>>, HasRead(s, d, p, answer)
  PROVE  Reads(s \o chunk, Feed(p, chunk), answer)
<1> DEFINE t == s \o chunk
           held == [p EXCEPT !.buffer = @ \o chunk, !.out = <<>>]
<1>1. held \in Parsers /\ HasRead(t, d, held, answer)
  BY MoreToRead
<1>2. t \in Seq(Tokens)
  OBVIOUS
<1>3. Feed(p, chunk) = IF Len(held.buffer) > MaxFrameBytes THEN Refuse(held) ELSE Drain(held)
  BY DEF Feed
<1> HIDE DEF t, held
<1>4. Refuse(held) \in Parsers /\ Refuse(held).refused
  BY <1>1 DEF Refuse, Parsers
<1>5. Reads(t, held, answer)
  BY <1>1 DEF Reads
<1>6. Reads(t, Drain(held), answer)
  BY <1>2, <1>5, DrainReads
<1> QED
  BY <1>3, <1>4, <1>6 DEF Reads, t

\* The frames of a chunk have been made an answer.
LEMMA Answered ==
  ASSUME NEW t, NEW d, NEW p, p \in Parsers, NEW answer, HasRead(t, d, p, answer),
         ~\E i \in 1..Len(p.out) : NotJson(p.out[i]),
         NEW now, now = IF \E i \in 1..Len(p.out) : p.out[i].event = "final" THEN "json" ELSE answer
  PROVE  LET q == [p EXCEPT !.out = <<>>] IN q \in Parsers /\ q.out = <<>> /\ HasRead(t, d, q, now)
<1> DEFINE q == [p EXCEPT !.out = <<>>]
<1>1. /\ q \in Parsers /\ q.out = <<>> /\ q.buffer = p.buffer /\ q.fields = p.fields
      /\ q.frames = p.frames
  <2>1. <<>> \in Seq(Frames)
    OBVIOUS
  <2> QED
    BY <2>1 DEF Parsers
<1> HIDE DEF q
<1>2. now = "json" \/ (\E i \in 1..Len(q.out) : q.out[i].event = "final") => Finals(t, d) # {}
  BY <1>1 DEF HasRead
<1>3. HasRead(t, d, q, now)
  BY <1>1, <1>2 DEF HasRead
<1> QED
  BY <1>1, <1>3 DEF q

-----------------------------------------------------------------------------
\* What is known of the stream while it is open, and when it is accepted.
StreamIsRead ==
    /\ received \in Seq(Tokens)
    /\ stream = "open" => /\ parser \in Parsers /\ parser.out = <<>> /\ ~parser.refused
                          /\ final \in {"none", "json"}
                          /\ \E d \in Nat : HasRead(received, d, parser, final)
    /\ AcceptedStreamIsWhole

\* Nothing of it has been read.
LEMMA NothingRead == HasRead(<<>>, 0, NoParser, "none") /\ NoParser \in Parsers
<1>1. FieldLines(<<>>) = {} /\ BlankLines(<<>>) = {}
  BY DEF FieldLines, BlankLines
<1>2. OpenAt(<<>>, 0) = {} /\ Framed(<<>>, 0) = {} /\ Finals(<<>>, 0) = {}
  BY <1>1 DEF OpenAt, Framed, Finals
<1>3. TokensAt(<<>>, <<>>, {})
  <2> DEFINE at == [i \in 1..Len(<<>>) |-> 0]
  <2>1. 1..Len(<<>>) = {}
    OBVIOUS
  <2>2. at \in [1..Len(<<>>) -> {}]
    BY <2>1
  <2> QED
    BY <2>1, <2>2 DEF TokensAt
<1>4. NoParser \in Parsers
  BY DEF NoParser, Parsers
<1>5. <<>> = SubSeq(<<>>, 1, 0) /\ Len(<<>>) = 0
  OBVIOUS
<1>6. IsFiniteSet({}) /\ Cardinality({}) = 0
  BY FS_EmptySet
<1>7. MaxFrames \in Nat
  BY ConversationsAssumption
<1>8. NoParser.buffer = <<>> /\ NoParser.fields = <<>> /\ NoParser.frames = 0 /\ NoParser.out = <<>>
  BY DEF NoParser
<1>9. ~\E i \in 1..Len(<<>>) : <<>>[i].event = "final"
  OBVIOUS
<1> DEFINE s == <<>>
<1>10. /\ s = <<>> /\ Len(s) = 0 /\ SubSeq(s, 0 + 1, Len(s)) = s
       /\ OpenAt(s, 0) = {} /\ Framed(s, 0) = {} /\ Finals(s, 0) = {} /\ TokensAt(s, s, {})
       /\ ~\E i \in 1..Len(s) : s[i].event = "final"
       /\ NoParser.buffer = s /\ NoParser.fields = s /\ NoParser.out = s
  BY <1>2, <1>3, <1>5, <1>8, <1>9
<1> HIDE DEF s
<1>11. HasRead(s, 0, NoParser, "none")
  <2>1. 0 \in 0..Len(s) /\ SubSeq(s, 0 + 1, Len(s)) = s /\ 0 <= MaxFrames
    BY ONLY <1>7, <1>10
  <2>2. NoParser.frames = 0 /\ Cardinality({}) <= 0
    BY ONLY <1>6, <1>8
  <2> QED
    BY ONLY <2>1, <2>2, <1>6, <1>10 DEF HasRead
<1> QED
  BY <1>4, <1>11 DEF s

\* Nothing has been received.
LEMMA StreamInit == ConversationsInit => StreamIsRead
<1> SUFFICES ASSUME ConversationsInit PROVE StreamIsRead
  OBVIOUS
<1>1. received = <<>> /\ parser = NoParser /\ final = "none" /\ stream \in {"unused", "open"}
  BY DEF ConversationsInit
<1>2. NoParser.out = <<>> /\ ~NoParser.refused
  BY DEF NoParser
<1>3. <<>> \in Seq(Tokens) /\ 0 \in Nat
  OBVIOUS
<1> QED
  BY <1>1, <1>2, <1>3, NothingRead DEF StreamIsRead, AcceptedStreamIsWhole

\* A chunk that is received is fed to the parser, whose frames the adapter reads
\* (targets/http_stream.py).
LEMMA ReceiveReads ==
  ASSUME StreamIsRead, NEW k, k \in 1..MaxChunk, NEW chunk, chunk \in [1..k -> Tokens], Receive(chunk)
  PROVE  StreamIsRead'
<1> DEFINE p == Feed(parser, chunk)
           answer == IF p.refused THEN final ELSE AnswerOf(p.out)
<1>1. /\ received \in Seq(Tokens) /\ parser \in Parsers /\ parser.out = <<>>
      /\ final \in {"none", "json"}
      /\ \E d \in Nat : HasRead(received, d, parser, final)
  BY DEF StreamIsRead, Receive
<1>2. /\ received' = received \o chunk /\ parser' = [p EXCEPT !.out = <<>>] /\ final' = answer
      /\ stream' = IF p.refused \/ answer = "not_json" THEN "stream_protocol_error" ELSE "open"
  BY DEF Receive
<1>3. chunk \in Seq(Tokens)
  <2>1. k \in Nat
    BY ConversationsAssumption
  <2> QED
    BY <2>1
<1>4. received' \in Seq(Tokens)
  BY <1>1, <1>2, <1>3
<1>5. Reads(received', p, final)
  BY <1>1, <1>2, <1>3, FeedReads
<1> HIDE DEF p
<1>6. ASSUME ~p.refused, answer # "not_json"
      PROVE  /\ parser' \in Parsers /\ parser'.out = <<>> /\ ~parser'.refused
             /\ final' \in {"none", "json"}
             /\ \E d \in Nat : HasRead(received', d, parser', final')
  <2>1. p \in Parsers
    BY <1>5 DEF Reads
  <2>2. PICK d \in Nat : HasRead(received', d, p, final)
    BY <1>5, <1>6 DEF Reads
  <2>3. DOMAIN p.out = 1..Len(p.out)
    BY <2>1 DEF Parsers
  <2>4. /\ ~\E i \in 1..Len(p.out) : NotJson(p.out[i])
        /\ answer = IF \E i \in 1..Len(p.out) : p.out[i].event = "final" THEN "json" ELSE final
    BY <2>3, <1>6 DEF AnswerOf
  <2> HIDE DEF answer
  <2>5. parser' \in Parsers /\ parser'.out = <<>> /\ HasRead(received', d, parser', answer)
    BY <2>1, <2>2, <2>4, <1>2, Answered
  <2>6. ~parser'.refused
    BY <2>1, <1>2, <1>6 DEF Parsers
  <2> QED
    BY <2>4, <2>5, <2>6, <1>1, <1>2
<1>7. stream' # "ok"
  BY <1>2
<1> QED
  BY <1>2, <1>4, <1>6, <1>7 DEF StreamIsRead, AcceptedStreamIsWhole

\* A stream that ends with nothing held of it has been read to its end.
LEMMA EndReads ==
  ASSUME StreamIsRead, StreamEnds
  PROVE  StreamIsRead'
<1>1. received' = received /\ parser' = parser /\ final' = final /\ stream = "open"
      /\ received \in Seq(Tokens)
  BY DEF StreamIsRead, StreamEnds
<1>2. stream' \in {"stream_protocol_error", "incomplete_stream", "ok"}
  BY DEF StreamEnds
<1>3. ASSUME stream' = "ok" PROVE AcceptedStreamIsWhole'
  <2> DEFINE s == received
             n == Len(received)
             framed == {b \in BlankLines(s) : FieldsOf(s, b) # {}}
             finals == {b \in BlankLines(s) : IsFinal(s, b)}
  <2>1. parser.buffer = <<>> /\ parser.fields = <<>> /\ final = "json" /\ parser.out = <<>>
    BY <1>3 DEF StreamIsRead, StreamEnds
  <2>2. PICK d \in Nat : HasRead(s, d, parser, final)
    BY <1>1 DEF StreamIsRead
  <2>3. n \in Nat /\ d \in 0..n
    BY <2>2, <1>1 DEF HasRead
  <2>4. d = n
    <3>1. SubSeq(s, d + 1, Len(s)) = <<>>
      BY <2>1, <2>2 DEF HasRead
    <3>2. Len(SubSeq(s, d + 1, Len(s))) = Len(s) - d
      BY <2>3, <1>1, RestOf
    <3>3. Len(<<>>) = 0
      OBVIOUS
    <3>4. n - d = 0
      BY ONLY <3>1, <3>2, <3>3
    <3> QED
      BY <3>4, <2>3
  <2>5. BlankLines(s) \subseteq 1..n /\ FieldLines(s) \subseteq 1..n
    BY <1>1 DEF BlankLines, FieldLines
  <2>6. \A b \in BlankLines(s) : b <= n
    BY <2>3, <2>5
  <2>7. Framed(s, n) = framed /\ Finals(s, n) = finals
    BY <2>6 DEF Framed, Finals
  <2>8. OpenAt(s, n) = {}
    <3>1. TokensAt(parser.fields, s, OpenAt(s, n))
      BY <2>2, <2>4 DEF HasRead
    <3>2. PICK at \in [1..Len(<<>>) -> OpenAt(s, n)] :
             \A x \in OpenAt(s, n) : \E i \in 1..Len(<<>>) : at[i] = x
      BY ONLY <3>1, <2>1 DEF TokensAt
    <3>3. 1..Len(<<>>) = {}
      OBVIOUS
    <3> QED
      BY <3>2, <3>3
  <2>9. ASSUME NEW i \in FieldLines(s) PROVE \E b \in BlankLines(s) : b > i
    <3>1. i <= n
      BY <2>3, <2>5
    <3> QED
      BY <3>1, <2>8 DEF OpenAt
  <2>10. Cardinality(framed) <= MaxFrames
    <3>1. IsFiniteSet(framed) /\ Cardinality(framed) <= parser.frames /\ parser.frames <= MaxFrames
      BY <2>2, <2>4, <2>7 DEF HasRead
    <3>2. Cardinality(framed) \in Nat
      BY <3>1, FS_CardinalityType
    <3>3. parser.frames \in Nat /\ MaxFrames \in Nat
      BY <1>1, ConversationsAssumption DEF StreamIsRead, Parsers
    <3> HIDE DEF framed
    <3> QED
      BY <3>1, <3>2, <3>3
  <2>11. finals # {} /\ \A b \in finals : HoldsJson(s, b)
    <3>1. \A i \in 1..Len(parser.out) : FALSE
      BY <2>1
    <3> QED
      BY <3>1, <2>1, <2>2, <2>4, <2>7 DEF HasRead
  <2>12. s[n] = "n"
    <3>1. n # 0
      BY <2>5, <2>11
    <3> QED
      BY <3>1, <2>2, <2>4 DEF HasRead
  <2> HIDE DEF framed, finals
  <2> QED
    BY <2>9, <2>10, <2>11, <2>12, <1>1 DEF AcceptedStreamIsWhole, framed, finals
<1> QED
  BY <1>1, <1>2, <1>3 DEF StreamIsRead, AcceptedStreamIsWhole

Outcomes == {"none", "ok", "script_required", "policy_rejected", "transport_error",
             "protocol_error", "cancelled", "approval_not_requested", "script_invalid",
             "cleanup_failed", "raised"}
RemoteStates == {"none", "unknown", "misnamed", "open", "closed"}

\* What is known of a session. Until it is closed it is at a step, and then
\* the agent has heard what was sent, and asked for what is answered.
TalkIsKnown ==
    /\ remote \in [state : RemoteStates, prompts : BOOLEAN,
                   heard : Nat, unasked : BOOLEAN]
    /\ talk \in [at : {"unused", "init", "step", "close", "finally", "over"}, outcome : Outcomes,
                 prompted : BOOLEAN, waiting : BOOLEAN, sent : Nat, closable : BOOLEAN,
                 released : BOOLEAN]
    /\ talk.at = "init" => remote.state = "none" /\ remote.heard = talk.sent /\ ~talk.waiting
    /\ talk.at \in {"step", "close"} => remote.heard = talk.sent
    /\ talk.at \in {"unused", "init", "step", "close"} => talk.outcome = "none"
    /\ talk.at = "step" => remote.prompts = talk.prompted /\ (talk.waiting => talk.prompted)
    /\ talk.at = "close" => script = <<>>
    /\ TalkIsComplete

\* No session is under way.
LEMMA TalkInit == ConversationsInit => TalkIsKnown
  BY DEF ConversationsInit, TalkIsKnown, TalkIsComplete, Outcomes, RemoteStates

\* Each step of a session and of its remote end keeps what is known of the talk.
LEMMA TalkStep ==
  ASSUME TalkIsKnown, [ConversationsNext]_conversationsVars PROVE TalkIsKnown'
<1>1. ASSUME UNCHANGED <<script, remote, talk>> PROVE TalkIsKnown'
  BY <1>1 DEF TalkIsKnown, TalkIsComplete, Outcomes, RemoteStates
<1>2. CASE UNCHANGED conversationsVars
  BY <1>1, <1>2 DEF conversationsVars
<1>3. CASE \E k \in 1..MaxChunk : \E chunk \in [1..k -> Tokens] : Receive(chunk)
  BY <1>1, <1>3 DEF Receive, StreamOnly
<1>4. CASE StreamEnds \/ StreamFails
  BY <1>1, <1>4 DEF StreamEnds, StreamFails, StreamOnly
<1>5. CASE RefuseTalk
  BY <1>5 DEF RefuseTalk, TalkIsKnown, TalkIsComplete, Outcomes, RemoteStates
<1>6. CASE OpenSession
  <2>1. PICK closable \in BOOLEAN, asks \in BOOLEAN :
        \/ /\ remote' = [remote EXCEPT !.state = "open", !.prompts = asks]
           /\ talk' = [talk EXCEPT !.at = "step", !.closable = closable, !.prompted = asks]
        \/ /\ \E state \in {"none", "unknown", "misnamed", "open"} : remote' = [remote EXCEPT !.state = state]
           /\ talk' = [talk EXCEPT !.at = "finally", !.closable = closable,
                                  !.outcome = IF remote'.state = "unknown" THEN "transport_error"
                                              ELSE "protocol_error"]
    BY <1>6 DEF OpenSession
  <2>2. talk.at = "init" /\ script' = script
    BY <1>6 DEF OpenSession
  <2>3. CASE /\ remote' = [remote EXCEPT !.state = "open", !.prompts = asks]
             /\ talk' = [talk EXCEPT !.at = "step", !.closable = closable, !.prompted = asks]
    BY <2>2, <2>3 DEF TalkIsKnown, TalkIsComplete, Outcomes, RemoteStates
  <2>4. ASSUME NEW state \in {"none", "unknown", "misnamed", "open"}, remote' = [remote EXCEPT !.state = state],
               NEW outcome \in {"transport_error", "protocol_error"},
               talk' = [talk EXCEPT !.at = "finally", !.closable = closable, !.outcome = outcome]
        PROVE  TalkIsKnown'
    BY <2>2, <2>4 DEF TalkIsKnown, TalkIsComplete, Outcomes, RemoteStates
  <2> QED
    BY <2>1, <2>3, <2>4
<1>7. CASE CancelTalk
  BY <1>7 DEF CancelTalk, Finished, TalkIsKnown, TalkIsComplete, Outcomes, RemoteStates
<1>8. CASE Wait
  BY <1>8 DEF Wait, Finished, TalkIsKnown, TalkIsComplete, Outcomes, RemoteStates
<1>9. CASE Answer
  <2>1. talk.at = "step" /\ script # <<>> /\ Head(script) # "wait"
    BY <1>9 DEF Answer
  <2>2. CASE ~Answerable
    BY <1>9, <2>2 DEF Answer, Finished, TalkIsKnown, TalkIsComplete, Outcomes, RemoteStates
  <2>3. CASE Answerable
    <3>1. PICK asks \in BOOLEAN :
            \/ /\ remote' = Hear(asks)
               /\ talk' = [talk EXCEPT !.sent = @ + 1, !.prompted = asks, !.waiting = FALSE]
            \/ /\ remote' \in {remote, Hear(asks)}
               /\ \E outcome \in {"protocol_error", "transport_error"} : Finished(outcome)
      BY <1>9, <2>3 DEF Answer, SendTurn
    <3>0. asks \in BOOLEAN /\ remote.heard + 1 \in Nat /\ talk.sent + 1 \in Nat
      BY <3>1 DEF TalkIsKnown
    <3>2. Head(script) = "answer" => remote.prompts
      BY <2>1, <2>3 DEF Answerable, TalkIsKnown
    <3>3. Hear(asks) = [remote EXCEPT !.heard = @ + 1, !.prompts = asks, !.unasked = FALSE]
      BY <3>2 DEF Hear, TalkIsKnown, TalkIsComplete, Outcomes, RemoteStates
    <3>4. CASE /\ remote' = Hear(asks)
               /\ talk' = [talk EXCEPT !.sent = @ + 1, !.prompted = asks, !.waiting = FALSE]
      <4>1. /\ talk'.at = "step" /\ talk'.outcome = "none" /\ talk'.sent = talk.sent + 1
            /\ ~talk'.waiting /\ talk'.closable = talk.closable
            /\ talk' \in [at : {"unused", "init", "step", "close", "finally", "over"},
                          outcome : Outcomes, prompted : BOOLEAN, waiting : BOOLEAN, sent : Nat,
                          closable : BOOLEAN, released : BOOLEAN]
        BY <2>1, <3>0, <3>4 DEF TalkIsKnown, Outcomes
      <4>2. /\ remote'.heard = remote.heard + 1 /\ ~remote'.unasked
            /\ remote' \in [state : RemoteStates, prompts : BOOLEAN,
                            heard : Nat, unasked : BOOLEAN]
        BY <3>0, <3>3, <3>4 DEF TalkIsKnown
      <4>3. remote.heard = talk.sent
        BY <2>1 DEF TalkIsKnown
      <4>4. remote'.prompts = talk'.prompted
        BY <3>3, <3>4 DEF TalkIsKnown
      <4> QED
        BY ONLY <4>1, <4>2, <4>3, <4>4 DEF TalkIsKnown, TalkIsComplete
    <3>5. ASSUME remote' \in {remote, Hear(asks)},
                 NEW outcome \in {"protocol_error", "transport_error"}, Finished(outcome)
          PROVE  TalkIsKnown'
      <4>1. /\ talk'.at = "finally" /\ talk'.outcome # "ok" /\ talk'.outcome # "none"
            /\ talk' \in [at : {"unused", "init", "step", "close", "finally", "over"},
                          outcome : Outcomes, prompted : BOOLEAN, waiting : BOOLEAN, sent : Nat,
                          closable : BOOLEAN, released : BOOLEAN]
        BY <3>5 DEF Finished, TalkIsKnown, Outcomes
      <4>2. /\ ~remote'.unasked
            /\ remote' \in [state : RemoteStates, prompts : BOOLEAN,
                            heard : Nat, unasked : BOOLEAN]
        <5>1. CASE remote' = remote
          BY <5>1 DEF TalkIsKnown, TalkIsComplete
        <5>2. CASE remote' = Hear(asks)
          BY <5>2, <3>0, <3>3 DEF TalkIsKnown
        <5> QED
          BY <5>1, <5>2, <3>5
      <4> QED
        BY ONLY <3>5, <4>1, <4>2 DEF TalkIsKnown, TalkIsComplete
    <3> QED
      BY <3>1, <3>4, <3>5
  <2> QED
    BY <2>2, <2>3
<1>10. CASE EndScript
  <2>1. /\ talk.at = "step" /\ script = <<>> /\ script' = script /\ remote' = remote
        /\ \/ \E outcome \in {"ok", "script_invalid"} : Finished(outcome)
           \/ TalkTo("close")
    BY <1>10 DEF EndScript
  <2>2. CASE TalkTo("close")
    BY <2>1, <2>2 DEF TalkTo, TalkIsKnown, TalkIsComplete
  <2>3. ASSUME NEW outcome \in {"ok", "script_invalid"}, Finished(outcome) PROVE TalkIsKnown'
    BY <2>1, <2>3 DEF Finished, TalkIsKnown, TalkIsComplete, Outcomes, RemoteStates
  <2> QED
    BY <2>1, <2>2, <2>3
<1>11. CASE CloseTalk
  <2>1. /\ talk.at = "close" /\ script' = script /\ remote.heard = talk.sent /\ script = <<>>
        /\ remote' = remote \/ remote' = [remote EXCEPT !.state = "closed"]
        /\ \/ talk' = [talk EXCEPT !.at = "finally", !.outcome = "ok", !.released = TRUE]
           \/ talk' = [talk EXCEPT !.at = "finally", !.outcome = "cleanup_failed", !.released = TRUE]
           \/ talk' = [talk EXCEPT !.at = "finally", !.outcome = "cleanup_failed"]
    BY <1>11 DEF CloseTalk, Close, TalkIsKnown
  <2>2. /\ ~remote'.unasked /\ remote'.heard = remote.heard
        /\ remote' \in [state : RemoteStates, prompts : BOOLEAN,
                        heard : Nat, unasked : BOOLEAN]
    BY <2>1 DEF TalkIsKnown, TalkIsComplete, RemoteStates
  <2>3. /\ talk'.at = "finally" /\ talk'.outcome \in {"ok", "cleanup_failed"}
        /\ talk'.sent = talk.sent
        /\ talk' \in [at : {"unused", "init", "step", "close", "finally", "over"},
                      outcome : Outcomes, prompted : BOOLEAN, waiting : BOOLEAN, sent : Nat,
                      closable : BOOLEAN, released : BOOLEAN]
    BY <2>1 DEF TalkIsKnown, Outcomes
  <2> QED
    BY ONLY <2>1, <2>2, <2>3 DEF TalkIsKnown, TalkIsComplete
<1>12. CASE EndTalk
  <2>1. talk.at = "finally" /\ script' = script
    BY <1>12 DEF EndTalk
  <2>2. CASE /\ ~Unclosed \/ remote.state \in {"none", "unknown"}
             /\ talk' = [talk EXCEPT !.at = "over"] /\ remote' = remote
    BY <2>1, <2>2 DEF TalkIsKnown, TalkIsComplete, Outcomes, RemoteStates, Unclosed
  <2>3. CASE /\ remote.state = "misnamed"
             /\ talk' = [talk EXCEPT !.at = "over", !.outcome = "raised"] /\ remote' = remote
    BY <2>1, <2>3 DEF TalkIsKnown, TalkIsComplete, Outcomes, RemoteStates
  <2>4. CASE /\ talk' = [talk EXCEPT !.at = "over", !.released = TRUE]
             /\ remote' = remote \/ remote' = [remote EXCEPT !.state = "closed"]
    BY <2>1, <2>4 DEF TalkIsKnown, TalkIsComplete, Outcomes, RemoteStates
  <2> QED
    BY <1>12, <2>2, <2>3, <2>4 DEF EndTalk, Close
<1> QED
  BY <1>2, <1>3, <1>4, <1>5, <1>6, <1>7, <1>8, <1>9, <1>10, <1>11, <1>12 DEF ConversationsNext

\* Each step of the streaming attempt keeps what has been read of the stream.
LEMMA StreamStep ==
  ASSUME StreamIsRead, [ConversationsNext]_conversationsVars PROVE StreamIsRead'
<1>1. ASSUME UNCHANGED <<received, parser, final, stream>> PROVE StreamIsRead'
  BY <1>1 DEF StreamIsRead, AcceptedStreamIsWhole
<1>2. CASE UNCHANGED conversationsVars
  BY <1>1, <1>2 DEF conversationsVars
<1>3. CASE \E k \in 1..MaxChunk : \E chunk \in [1..k -> Tokens] : Receive(chunk)
  BY <1>3, ReceiveReads
<1>4. CASE StreamEnds
  BY <1>4, EndReads
<1>5. CASE StreamFails
  <2>1. stream' \notin {"open", "ok"} /\ received' = received
    BY <1>5 DEF StreamFails
  <2> QED
    BY <2>1 DEF StreamIsRead, AcceptedStreamIsWhole
<1>6. CASE RefuseTalk \/ OpenSession \/ CancelTalk \/ Wait \/ Answer \/ EndScript \/ CloseTalk \/ EndTalk
  BY <1>1, <1>6 DEF SessionOnly, RefuseTalk, OpenSession, CancelTalk, Wait, Answer, EndScript,
                    CloseTalk, EndTalk
<1> QED
  BY <1>2, <1>3, <1>4, <1>5, <1>6 DEF ConversationsNext

\* What an adapter reports of a conversation is what took place, however the
\* stream is cut and wherever the session fails.
THEOREM ConversationsWhole == ConversationsSpec => []ConversationsAreWhole
<1> DEFINE IInv == StreamIsRead /\ TalkIsKnown
<1>1. ConversationsInit => IInv
  BY StreamInit, TalkInit
<1>2. IInv /\ [ConversationsNext]_conversationsVars => IInv'
  BY StreamStep, TalkStep
<1>3. IInv => ConversationsAreWhole
  BY DEF ConversationsAreWhole, StreamIsRead, TalkIsKnown
<1> QED
  BY <1>1, <1>2, <1>3, PTL DEF ConversationsSpec
=============================================================================
