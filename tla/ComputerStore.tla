--------------------------- MODULE ComputerStore ---------------------------
(***************************************************************************)
(* The machine list and what keeps it: ComputerModel over ConfigStore      *)
(* (computers.json, written whole and atomically after every edit, the     *)
(* edit taken back when the write fails), SecretCodec over KeyStore (how a *)
(* password is stored), CertModel over CertStore, the backup controller's  *)
(* export and two-step import, and the start-up of the application with    *)
(* its one-time migration.                                                 *)
(*                                                                         *)
(* All of it runs in the UI thread, one call at a time: a call is one      *)
(* action.  The application may be stopped (quit or killed) between any    *)
(* two, and inside the migration, the only writer that is not atomic.      *)
(*                                                                         *)
(* A machine's name and host are one value, its two lists of fingerprints  *)
(* the set of those that hold one, its three secrets one password.         *)
(***************************************************************************)
EXTENDS Integers, Sequences, FiniteSets, SequencesExt, FiniteSetsExt

CONSTANTS
    Menus   \* what the user, the disk and the key store may do, and what is there first

\* A menu: the calls the user makes and how many, the launches, the faults of the
\* disk, how the platform's key store may behave, computers.json and a backup file
\* as they are found, and whether a legacy profile is there to migrate.
Faults    == {"DiskFull", "Unreadable", "Stop", "LegacyDamaged"}
Platforms == {"Works", "Deaf", "Absent"}

VARIABLES
    menu, calls, launches,
    app,            \* "Down", "Migrating", "Loading" or "Up"
    rows,           \* ComputerModel::m_computers
    file,           \* computers.json
    certs,          \* CertStore::m_entries
    certFile,       \* certificates.json
    failed,         \* which of the two lists could not be read when it was last loaded
    step, stamp,    \* the migration: the file it writes next; its stamp file
    keys,           \* KeyStore's cache and the platform's store behind it
    nextId,         \* the next fresh identity: QUuid::createUuid()
    backup,         \* the machines of a backup file
    plan,           \* BackupController::m_pendingPlan
    backupState     \* BackupController::m_state

configVars == <<file, failed, keys, rows>>
certVars   == <<certs, certFile>>
backupVars == <<backup, plan, backupState>>
launchVars == <<menu, launches, app, step, stamp>>
storeVars  == <<configVars, certVars, backupVars, launchVars, calls, nextId>>

\* A file: not there, not a JSON array, or the list it holds.
Absent     == [state |-> "Absent", rows |-> <<>>]
Broken     == [state |-> "Broken", rows |-> <<>>]
Listing(s) == [state |-> "List", rows |-> s]

\* A sequence, whatever it holds.
IsList(s) == s \in Seq({s[i] : i \in DOMAIN s})

-----------------------------------------------------------------------------
(* Secrets.  A stored secret is empty or bare text, a v2 envelope that      *)
(* carries its key, or a v3 envelope under the key store's key.  A machine  *)
(* remembers what was meant: the password typed, and in which launch.       *)

Meant(w, n) == [word |-> w, launch |-> n]

Bare(t)  == [form |-> "Bare", key |-> 0, text |-> t]
V2(t)    == [form |-> "V2", key |-> 0, text |-> t]
V3(k, t) == [form |-> "V3", key |-> k, text |-> t]

MasterKeyFresh(k) ==
    CASE k.tried -> k
      [] ~k.tried /\ k.platform = "Absent" -> [k EXCEPT !.tried = TRUE]
      [] OTHER -> [k EXCEPT !.tried = TRUE, !.key = k.ring + 1, !.ring = k.ring + 1]

\* KeyStore::masterKey(): asked once per launch.  A store that answers gives the key
\* it holds; one that gives none is taken for one that has none, and gets a new key;
\* one that keeps none leaves the codec without.  `lost` is the last launch that did
\* harm: here, one whose new key took the place of the key secrets are stored under.
MasterKey(k) ==
    CASE k.tried -> k
      [] ~k.tried /\ k.platform = "Works" /\ k.ring # 0 ->
           [k EXCEPT !.tried = TRUE, !.key = k.ring]
      [] ~k.tried /\ k.platform = "Absent" -> [k EXCEPT !.tried = TRUE]
      [] OTHER -> [k EXCEPT !.tried = TRUE, !.key = k.ring + 1, !.ring = k.ring + 1,
                            !.lost = IF k.ring # 0 THEN launches ELSE @]

\* SecretCodec::encode() and decode(), under the key masterKey() gave (0: none).
Encode(t, key) == IF t = "" THEN Bare("") ELSE IF key # 0 THEN V3(key, t) ELSE V2(t)
Decode(s, key) == CASE s.form # "V3" -> s.text
                    [] s.form = "V3" /\ key = 0 -> ""
                    [] s.form = "V3" /\ key # 0 /\ key = s.key -> s.text
                    [] OTHER -> "garbled"

\* Computer::toJson() and fromJson(); an entry without an identity gets one.
Stored(c, key)    == [c EXCEPT !.pass = Encode(@, key)]
Parsed(s, key, n) == [s EXCEPT !.pass = Decode(@, key), !.id = IF @ = 0 THEN n ELSE @]

NextIdAfter(list) == IF \E i \in DOMAIN list : list[i].id = 0 THEN nextId + Len(list) ELSE nextId

\* No menu's files hold more than the program writes: entries of a machine's fields,
\* with the password that was typed, under no key of a key store that holds none yet.
IsMachine(c) ==
    c = [id |-> c.id, host |-> c.host, pass |-> c.pass, meant |-> c.meant, tls |-> c.tls,
         trusted |-> c.trusted, ssh |-> c.ssh]
AsTyped(c) == c.pass \in {Bare(c.meant.word), V2(c.meant.word)}

ASSUME MenuAssumption ==
    \A m \in Menus :
      /\ m.platforms \subseteq Platforms
      /\ IsList(m.file.rows) /\ IsList(m.backup)
      /\ \A i \in DOMAIN m.file.rows :
           LET c == m.file.rows[i] IN IsMachine(c) /\ c.meant.launch = 0 /\ AsTyped(c)
      /\ \A i \in DOMAIN m.backup :
           LET c == m.backup[i] IN IsMachine(c) /\ c.meant = Meant(c.pass, 0)

-----------------------------------------------------------------------------
(* ComputerModel.                                                          *)

\* A launch without the key store, which cannot read what is stored under its key.
Blind(k) == k.platform = "Absent" /\ k.ring # 0

\* `lost`, when the list is written down, into its file or a backup: a blind launch
\* writes nothing in the place of what it could not read.
Harm(k) == IF Blind(k) THEN launches ELSE k.lost

\* persist() with `new` in m_computers.  The list is written and the edit stands.
KeyFor(new) == IF \E i \in DOMAIN new : new[i].pass # "" THEN MasterKey(keys) ELSE keys
Saved(new) ==
    LET k == KeyFor(new)
    IN  /\ rows' = new
        /\ file' = Listing([i \in DOMAIN new |-> Stored(new[i], k.key)])
        /\ keys' = [k EXCEPT !.lost = Harm(k)]
        /\ failed' = failed \ {"Computers"}

\* Or the file stays as it was and the caller puts `back` in place of `new`.
SaveFails(new, back) ==
    /\ "DiskFull" \in menu.faults
    /\ rows' = back
    /\ keys' = KeyFor(new)
    /\ UNCHANGED <<file, failed>>

Persist(new, back) == Saved(new) \/ SaveFails(new, back)

\* The user makes a call the menu offers.
Call(op) ==
    /\ app = "Up" /\ op \in menu.ops /\ calls < menu.calls
    /\ calls' = calls + 1

\* A call that touches nothing but the machine list.
ListCall(op) == Call(op) /\ UNCHANGED <<certVars, backupVars, launchVars>>

Edited(i, c) == Persist(ReplaceAt(rows, i, c), rows)

\* setData() on the name, host, password or TLS role.
SetData(i) ==
    /\ ListCall("SetData")
    /\ \E c \in {[rows[i] EXCEPT !.host = h] : h \in menu.hosts}
                \cup {[rows[i] EXCEPT !.pass = w, !.meant = Meant(w, launches)] : w \in menu.words}
                \cup {[rows[i] EXCEPT !.tls = ~@]} : Edited(i, c)
    /\ UNCHANGED nextId

\* addTrustedFingerprint() and addTrustedSshHostKey(): nothing to do for one that is
\* already there.
AddTrusted(i) ==
    /\ ListCall("AddTrusted")
    /\ \E fp \in {"Cert", "HostKey"} :
         IF fp \in rows[i].trusted THEN UNCHANGED configVars
         ELSE Edited(i, [rows[i] EXCEPT !.trusted = @ \cup {fp}])
    /\ UNCHANGED nextId

\* setSshConfig(): the trusted host keys are not part of it.
SetSshConfig(i) ==
    /\ ListCall("SetSsh")
    /\ Edited(i, [rows[i] EXCEPT !.ssh = ~@])
    /\ UNCHANGED nextId

Computer(id, host, pass, tls, launch) ==
    [id |-> id, host |-> host, pass |-> pass, meant |-> Meant(pass, launch), tls |-> tls,
     trusted |-> {}, ssh |-> FALSE]

\* addComputer(): appended under a fresh identity, taken off again when the save fails.
Added(c) ==
    /\ Persist(Append(rows, c), Front(Append(rows, c)))
    /\ nextId' = nextId + 1

AddComputer ==
    /\ ListCall("Add")
    /\ \E host \in menu.hosts, pass \in menu.words :
         Added(Computer(nextId, host, pass, FALSE, launches))

RemoveComputerLosesPlace(i) ==
    /\ ListCall("Remove")
    /\ LET less == RemoveAt(rows, i) IN Persist(less, Append(less, rows[i]))
    /\ UNCHANGED nextId

\* removeAt(): taken out, and put back in its place when the save fails.
RemoveComputer(i) ==
    /\ ListCall("Remove")
    /\ LET less == RemoveAt(rows, i) IN Persist(less, InsertAt(less, i, rows[i]))
    /\ UNCHANGED nextId

-----------------------------------------------------------------------------
(* BackupController.  Each call runs to its end, so Working is never seen. *)

BackupCall(op) == Call(op) /\ UNCHANGED <<certVars, launchVars>>

\* exportTo(): refused without a password; else any preview is dropped and the file
\* is written, whole or not at all, with the passwords as this launch reads them.
ExportTo ==
    /\ BackupCall("Export")
    /\ \/ /\ backupState' = "Failed" /\ UNCHANGED <<backup, plan, keys>>
       \/ /\ plan' = <<>>
          /\ \/ /\ "DiskFull" \in menu.faults
                /\ backupState' = "Failed" /\ UNCHANGED <<backup, keys>>
             \/ /\ backupState' = "Done" /\ backup' = rows
                /\ keys' = [keys EXCEPT !.lost = Harm(keys)]
    /\ UNCHANGED <<file, failed, rows, nextId>>

PlanStepUnclaimed(acc, c) ==
    LET same  == {i \in DOMAIN rows : rows[i].id = c.id}
        alike == {i \in DOMAIN rows : rows[i].host = c.host}
        hit   == CASE same # {} -> Min(same) [] same = {} /\ alike # {} -> Min(alike) [] OTHER -> 0
    IN  [claimed |-> acc.claimed \cup {hit},
         plan    |-> Append(acc.plan, [incoming |-> c,
                                       existing |-> IF hit = 0 THEN 0 ELSE rows[hit].id])]

\* planImport(), one incoming machine: the first row with its identity, else the
\* first with its host and name, no row twice.
PlanStep(acc, c) ==
    LET free  == DOMAIN rows \ acc.claimed
        same  == {i \in free : rows[i].id = c.id}
        alike == {i \in free : rows[i].host = c.host}
        hit   == CASE same # {} -> Min(same) [] same = {} /\ alike # {} -> Min(alike) [] OTHER -> 0
    IN  [claimed |-> acc.claimed \cup {hit},
         plan    |-> Append(acc.plan, [incoming |-> c,
                                       existing |-> IF hit = 0 THEN 0 ELSE rows[hit].id])]

\* prepareImport(): a file or password that will not do ends in Failed; else the plan
\* is shown for confirmation.  Incoming machines without an identity get one.
PrepareImport ==
    /\ BackupCall("Prepare")
    /\ \/ /\ plan' = <<>> /\ backupState' = "Failed" /\ UNCHANGED nextId
       \/ LET incoming == [i \in DOMAIN backup |->
                             [backup[i] EXCEPT !.id = IF @ = 0 THEN nextId + i - 1 ELSE @]]
          IN  /\ plan' = FoldLeft(PlanStep, [claimed |-> {}, plan |-> <<>>], incoming).plan
              /\ backupState' = "NeedsConfirm"
              /\ nextId' = NextIdAfter(backup)
    /\ UNCHANGED <<configVars, backup>>

\* applyImport() of the model, one entry: the row that bears the identity now, else a
\* new row.
ApplyStep(list, e) ==
    LET hits == {i \in DOMAIN list : list[i].id = e.existing}
    IN  IF e.existing # 0 /\ hits # {}
        THEN ReplaceAt(list, Min(hits), [e.incoming EXCEPT !.id = e.existing])
        ELSE Append(list, e.incoming)

\* applyImport(): only a plan that was shown; all of it is saved, or none stands.
ApplyImport ==
    /\ BackupCall("Apply")
    /\ \/ /\ backupState # "NeedsConfirm"
          /\ backupState' = "Failed" /\ UNCHANGED <<configVars, plan>>
       \/ /\ backupState = "NeedsConfirm"
          /\ LET new == FoldLeft(ApplyStep, rows, plan)
             IN  \/ Saved(new) /\ backupState' = "Done"
                 \/ SaveFails(new, rows) /\ backupState' = "Failed"
          /\ plan' = <<>>
    /\ UNCHANGED <<backup, nextId>>

CancelImport ==
    /\ BackupCall("Cancel")
    /\ plan' = <<>> /\ backupState' = "Idle"
    /\ UNCHANGED <<configVars, backup, nextId>>

-----------------------------------------------------------------------------
(* CertModel: the list is saved first and only then shown.                 *)

CertCall(op) == Call(op) /\ UNCHANGED <<rows, file, keys, backupVars, launchVars, nextId>>

CertSave(new) ==
    \/ /\ certs' = new /\ certFile' = Listing(new) /\ failed' = failed \ {"Certs"}
    \/ /\ "DiskFull" \in menu.faults /\ UNCHANGED <<certs, certFile, failed>>

\* importFromFile(): a certificate whose identity is there replaces it.
ImportCert ==
    /\ CertCall("ImportCert")
    /\ \E id \in {1, 2}, key \in BOOLEAN :
         LET e   == [id |-> id, key |-> key]
             old == {i \in DOMAIN certs : certs[i].id = id}
         IN  CertSave(IF old = {} THEN Append(certs, e) ELSE ReplaceAt(certs, Min(old), e))

RemoveCert ==
    /\ CertCall("RemoveCert")
    /\ \E i \in DOMAIN certs : CertSave(RemoveAt(certs, i))

\* CertStore::load(): the entries are dropped before the file is looked at.
CertsRead(unreadable) ==
    /\ certs' = IF unreadable THEN <<>> ELSE certFile.rows
    /\ failed' = (failed \ {"Certs"}) \cup (IF unreadable THEN {"Certs"} ELSE {})

CannotRead(f) == f.state = "Broken" \/ (f.state = "List" /\ "Unreadable" \in menu.faults)
CanRead(f)    == f.state # "Broken"

ReloadCerts ==
    /\ CertCall("Reload")
    /\ \/ CanRead(certFile) /\ CertsRead(FALSE)
       \/ CannotRead(certFile) /\ CertsRead(TRUE)
    /\ UNCHANGED certFile

-----------------------------------------------------------------------------
(* main(): migration, then the two lists.                                  *)

\* A launch: KeyStore's cache is empty; a profile without computers.json is migrated.
Boot ==
    /\ app = "Down" /\ launches < menu.launches
    /\ launches' = launches + 1
    /\ \E p \in menu.platforms :
         keys' = [keys EXCEPT !.platform = p, !.tried = FALSE, !.key = 0]
    /\ app' = IF file.state = "Absent" /\ menu.legacy THEN "Migrating" ELSE "Loading"
    /\ step' = "Computers"
    /\ UNCHANGED <<menu, calls, rows, file, failed, certVars, backupVars, stamp, nextId>>

\* What the legacy profile holds: machines without an identity, passwords bare.
LegacyRows  == <<[Computer(0, 1, "p", TRUE, 0) EXCEPT !.pass = Bare("p")]>>
LegacyCerts == <<[id |-> 1, key |-> TRUE]>>

MigrationOver ==
    /\ app' = "Loading"
    /\ UNCHANGED <<menu, calls, launches, step, keys, rows, certs, failed, backupVars, nextId>>

\* Migrator::run() gives up before it writes: an earlier stamp, or data it cannot read.
MigrationRefused ==
    /\ app = "Migrating" /\ step = "Computers"
    /\ stamp \/ "LegacyDamaged" \in menu.faults
    /\ MigrationOver
    /\ UNCHANGED <<file, certFile, stamp>>

\* A write in place: the file is opened, which truncates it (a stamp counts from here
\* on), and then written, or cut short.
MigrateTo(list, certList) ==
    /\ file' = IF step = "Computers" THEN list ELSE file
    /\ certFile' = IF step = "Certs" THEN certList ELSE certFile
    /\ stamp' = (step = "Stamp")

CutShort == UNCHANGED <<file, certFile, stamp>> \/ MigrateTo(Broken, Broken)

\* writeFile(): each file in turn; the first that fails ends the migration.  QFile
\* buffers what is written, and close() is not asked: a full disk may go unnoticed.
MigrateFile ==
    /\ app = "Migrating" /\ ~stamp
    /\ \/ /\ \/ MigrateTo(Listing(LegacyRows), Listing(LegacyCerts))
             \/ "DiskFull" \in menu.faults /\ MigrateTo(Broken, Broken)
          /\ step' = CASE step = "Computers" -> "Certs" [] step = "Certs" -> "Settings"
                       [] OTHER -> "Stamp"
          /\ app' = IF step = "Stamp" THEN "Loading" ELSE app
          /\ UNCHANGED <<menu, calls, launches, keys, rows, certs, failed, backupVars, nextId>>
       \/ "DiskFull" \in menu.faults /\ CutShort /\ MigrationOver

\* ComputerModel::setStore() and CertModel::setStorePath(): a list that cannot be
\* read starts empty.
Load ==
    /\ app = "Loading"
    /\ app' = "Up"
    /\ \E noList \in BOOLEAN, noCerts \in BOOLEAN :
         /\ IF noList THEN CannotRead(file) ELSE CanRead(file)
         /\ IF noCerts THEN CannotRead(certFile) ELSE CanRead(certFile)
         /\ LET list == IF noList THEN <<>> ELSE file.rows
                k    == IF \E i \in DOMAIN list : list[i].pass.form = "V3"
                        THEN MasterKey(keys) ELSE keys
            IN  /\ keys' = k
                /\ rows' = [i \in DOMAIN list |-> Parsed(list[i], k.key, nextId + i - 1)]
                /\ nextId' = NextIdAfter(list)
         /\ certs' = IF noCerts THEN <<>> ELSE certFile.rows
         /\ failed' = (IF noList THEN {"Computers"} ELSE {})
                      \cup (IF noCerts THEN {"Certs"} ELSE {})
    /\ UNCHANGED <<menu, calls, launches, file, certFile, backupVars, step, stamp>>

\* The application quits or is killed.
Stop ==
    /\ app # "Down" /\ "Stop" \in menu.faults
    /\ app' = "Down"
    /\ IF app = "Migrating" /\ ~stamp THEN CutShort ELSE UNCHANGED <<file, certFile, stamp>>
    /\ rows' = <<>> /\ certs' = <<>> /\ failed' = {}
    /\ plan' = <<>> /\ backupState' = "Idle"
    /\ UNCHANGED <<menu, calls, launches, keys, backup, step, nextId>>

StoreInit ==
    /\ menu \in Menus
    /\ calls = 0 /\ launches = 0 /\ app = "Down"
    /\ rows = <<>> /\ file = menu.file /\ certs = <<>> /\ certFile = Absent /\ failed = {}
    /\ step = "Computers" /\ stamp = FALSE
    /\ keys = [platform |-> "Absent", tried |-> FALSE, key |-> 0, ring |-> 0, lost |-> 0]
    /\ nextId = menu.nextId
    /\ backup = menu.backup /\ plan = <<>> /\ backupState = "Idle"

\* One call of the user's on the list, a backup or the certificates.
StoreCall ==
    \/ AddComputer \/ ExportTo \/ PrepareImport \/ ApplyImport \/ CancelImport
    \/ ImportCert \/ RemoveCert \/ ReloadCerts
    \/ \E i \in DOMAIN rows :
         SetData(i) \/ AddTrusted(i) \/ SetSshConfig(i) \/ RemoveComputer(i)

-----------------------------------------------------------------------------
\* What the screen shows is what the next launch will find: after every call, failed
\* saves and their take-backs included, the files decode to the lists in memory, in
\* their order.  Not claimed for a list that could not be read when it was loaded, for
\* as long as nothing is saved: it is shown empty while its file holds what it held, be
\* it out of reach or cut short by the migration (migrate.cpp:177, whose full disk may
\* go unnoticed), and the next save puts the few machines shown in that file's place.
Durable ==
    app = "Up" =>
      /\ "Certs" \notin failed => certFile.rows = certs
      /\ "Computers" \notin failed =>
           /\ Len(file.rows) = Len(rows)
           /\ \A i \in DOMAIN rows :
                Parsed(file.rows[i], keys.key, rows[i].id) = rows[i]

\* A password comes back as it was typed, through every form it is stored in: v2 while
\* there is no key store, v3 from the first save with one, bare from a legacy profile,
\* plain in a backup.  keystore.h:18-21 has secrets stay readable whatever the platform
\* does; the code keeps only those of no launch before one that did harm, in one of two
\* ways.  A store that fails to give its key once is taken for empty: a fresh key is
\* stored over the old one (keystore.cpp:51-65), and every v3 secret is garbled for good.
\* And a launch that finds no store reads its v3 secrets as empty (secret_codec.cpp:126),
\* and its next save or export, of anything, writes them down so.  Passwords typed in
\* that launch or after it are kept, and a launch without a store that writes nothing
\* does no harm: it only shows the earlier ones as empty.
SecretsKept ==
    app = "Up" =>
      \A i \in DOMAIN rows :
        LET typed == rows[i].meant.launch
        IN  \/ rows[i].pass = rows[i].meant.word
            \/ typed < keys.lost
            \/ Blind(keys) /\ typed < launches /\ rows[i].pass = ""

\* An import changes what it was shown to change.  A preview of a list whose identities
\* differ names no row twice; and when an import that names none twice is done, every
\* machine it brought is in the list and every other row is where and what it was,
\* whatever the user did to the list between the preview and the confirmation.  An import
\* by host and name can leave two rows with one identity.  Of such a list nothing is said,
\* though computermodel.cpp:391-394 means each row to be updated by one entry at most:
\* its preview may name a row twice, and of the two machines the second overwrites the
\* first.
DistinctIds == \A i, j \in DOMAIN rows : rows[i].id = rows[j].id => i = j
NoneTwice(p) ==
    \A a, b \in DOMAIN p : p[a].existing # 0 /\ p[a].existing = p[b].existing => a = b
Imported ==
    /\ \A e \in ToSet(plan) : \E i \in DOMAIN rows' :
         [rows'[i] EXCEPT !.id = 0] = [e.incoming EXCEPT !.id = 0]
    /\ \A i \in DOMAIN rows :
         (\A e \in ToSet(plan) : e.existing # rows[i].id) => rows'[i] = rows[i]
ImportKeepsOthers ==
    [][/\ plan' # plan /\ DistinctIds => NoneTwice(plan')
       /\ /\ backupState = "NeedsConfirm" /\ backupState' = "Done"
          /\ rows' # rows /\ NoneTwice(plan)
          => Imported]_storeVars
=============================================================================
