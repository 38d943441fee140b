----------------------------- MODULE Maintenance -----------------------------
(***************************************************************************)
(* Keeping a deployment: backups of a live database and its content store  *)
(* (backup.py), restoring one into a new data root (restore.py), kernel    *)
(* migrations (migrations.py), release upgrades of the product schema      *)
(* (product_migrations.py, product_release_migrations.py, upgrade.py) and  *)
(* the daemon's start and stop (service_lifecycle.py).  Every process may  *)
(* die between two of its steps.                                           *)
(***************************************************************************)
EXTENDS Naturals, FiniteSets

CONSTANTS StoredArtifacts,   \* artifacts that research writes
          BackupRequests,    \* requests for a backup; each has a bundle artifact
          CasRequests,       \* those that include the content store
          BackupCallers,
          RestoreRequests,   \* requests to restore into the one new data root
          MigrationCount, Repeatable,  \* kernel migrations; those whose SQL runs twice
          Migrators, UpgradeRequests,
          Pids, Markers,     \* process ids; start times that tell processes apart
          NoDeployment

\* What the rows hold: a backup and a call for one, a restore with its staging directory,
\* a run of the migrations, and the service's processes and receipt.
Artifacts == StoredArtifacts \cup BackupRequests
BackupRow == [request : BackupRequests, cas : BOOLEAN, rows : SUBSET Artifacts, objects : SUBSET Artifacts]
BackupCall == [pc : {"copy", "register", "record"}, request : BackupRequests, cas : BOOLEAN,
               rows : SUBSET Artifacts, objects : SUBSET Artifacts]
Root == [by : RestoreRequests, rows : SUBSET Artifacts, objects : SUBSET Artifacts, upgraded : BOOLEAN]
RestoreCall == [pc : {"extract", "upgrade", "publish", "finish"}, backup : BackupRow \cup {NoDeployment},
                staging : Root \cup {NoDeployment}]
MigratorCall == [pc : {"apply", "ledger"}, applied : SUBSET (1..MigrationCount)]
Process == [kind : {"daemon", "other"}, marker : Markers]
ServiceReceipt == [status : {"STARTING", "RUNNING", "FAILED", "STOPPED"}, pid : Pids \cup {NoDeployment},
                   marker : Markers \cup {NoDeployment}]
ShellCall == [pid : Pids, marker : Markers]

\* A missing row is no row.
ASSUME MaintenanceInputs ==
    /\ MigrationCount \in Nat
    /\ Repeatable \subseteq 1..MigrationCount /\ CasRequests \subseteq BackupRequests
    /\ NoDeployment \notin BackupCall \cup Root \cup RestoreCall \cup MigratorCall
    /\ NoDeployment \notin Process \cup ServiceReceipt \cup ShellCall
    /\ NoDeployment \notin Pids /\ NoDeployment \notin Markers
    /\ NoDeployment \notin {"apply", "record"}

VARIABLES casFiles, registered,    \* files of the content store; rows of artifacts
          backups, backupCalls,    \* rows of product_backups; calls under way
          restores, restorers, dataRoot,  \* product_deployment_restores; calls; the new root
          schemaRuns, ledgerRows, migrators,  \* how often each SQL ran; schema_migrations
          installed, upgrades, upgraders,     \* release installed; upgrade rows; calls
          processes, stateFile, signalled,    \* processes; the service receipt; history
          shell                               \* what the shell that starts the daemon does

backupVars == <<casFiles, registered, backups, backupCalls, restores, restorers, dataRoot>>
schemaVars == <<schemaRuns, ledgerRows, migrators, installed, upgrades, upgraders>>
serviceVars == <<processes, stateFile, signalled, shell>>
maintenanceVars == <<backupVars, schemaVars, serviceVars>>

-----------------------------------------------------------------------------
(* Backup *)

\* The content store has the file before the row is committed, and loses neither.
StoreArtifact(x) ==
    /\ \/ x \notin casFiles /\ casFiles' = casFiles \cup {x} /\ UNCHANGED registered
       \/ x \in casFiles \ registered /\ registered' = registered \cup {x}
          /\ UNCHANGED casFiles
    /\ UNCHANGED <<backups, backupCalls, restores, restorers, dataRoot>>

BackedUp(r) == \E b \in backups : b.request = r

\* The online backup of SQLite is one snapshot of the committed rows.
OnlineSnapshot(c, r) ==
    /\ backupCalls[c] = NoDeployment /\ ~BackedUp(r)
    /\ backupCalls' = [backupCalls EXCEPT ![c] =
          [pc |-> "copy", request |-> r, cas |-> r \in CasRequests, rows |-> registered,
           objects |-> {}]]
    /\ UNCHANGED <<casFiles, registered, backups, restores, restorers, dataRoot>>

\* Mutant: the files to copy are looked up in the live database.
CasEntriesLive(c) == registered \ BackupRequests

\* Bundles of earlier backups are left out of a bundle.
CasEntries(c) == backupCalls[c].rows \ BackupRequests

\* A referenced file that is missing fails the backup.
CopyObjects(c) ==
    /\ backupCalls[c] # NoDeployment /\ backupCalls[c].pc = "copy"
    /\ LET objects == IF backupCalls[c].cas THEN CasEntries(c) ELSE {} IN
       /\ objects \subseteq casFiles
       /\ backupCalls' = [backupCalls EXCEPT ![c] =
                             [@ EXCEPT !.pc = "register", !.objects = objects]]
    /\ UNCHANGED <<casFiles, registered, backups, restores, restorers, dataRoot>>

\* The bundle is committed to the content store and registered, and only then recorded.
RegisterBundle(c) ==
    /\ backupCalls[c] # NoDeployment /\ backupCalls[c].pc = "register"
    /\ casFiles' = casFiles \cup {backupCalls[c].request}
    /\ registered' = registered \cup {backupCalls[c].request}
    /\ backupCalls' = [backupCalls EXCEPT ![c].pc = "record"]
    /\ UNCHANGED <<backups, restores, restorers, dataRoot>>

\* Of two calls for a request the first that records its bundle wins.
RecordBackup(c) ==
    /\ backupCalls[c] # NoDeployment /\ backupCalls[c].pc = "record"
    /\ LET b == backupCalls[c] IN
       backups' = IF BackedUp(b.request) THEN backups
                  ELSE backups \cup {[request |-> b.request, cas |-> b.cas, rows |-> b.rows,
                                      objects |-> b.objects]}
    /\ backupCalls' = [backupCalls EXCEPT ![c] = NoDeployment]
    /\ UNCHANGED <<casFiles, registered, restores, restorers, dataRoot>>

BackupDies(c) ==
    /\ backupCalls[c] # NoDeployment
    /\ backupCalls' = [backupCalls EXCEPT ![c] = NoDeployment]
    /\ UNCHANGED <<casFiles, registered, backups, restores, restorers, dataRoot>>

-----------------------------------------------------------------------------
(* Restore *)

RestorerAt(q, pc) == restorers[q] # NoDeployment /\ restorers[q].pc = pc

\* A request that is RUNNING is taken up again under its identity and staging directory;
\* one that is over is answered or refused.
RestoreStarts(q, b) ==
    /\ restorers[q] = NoDeployment
    /\ restores[q] \in {"none", "RUNNING"}
    /\ restores' = [restores EXCEPT ![q] = "RUNNING"]
    /\ restorers' = [restorers EXCEPT ![q] = [pc |-> "extract", backup |-> b,
                                              staging |-> NoDeployment]]
    /\ UNCHANGED <<casFiles, registered, backups, backupCalls, dataRoot>>

\* Every member is compared with the manifest before the staging directory is used.
ExtractVerified(q) ==
    /\ RestorerAt(q, "extract")
    /\ restorers' = [restorers EXCEPT ![q] =
          [pc |-> "upgrade", backup |-> NoDeployment,
           staging |-> [by |-> q, rows |-> @.backup.rows, objects |-> @.backup.objects,
                        upgraded |-> FALSE]]]
    /\ UNCHANGED <<casFiles, registered, backups, backupCalls, restores, dataRoot>>

UpgradeAndRebuild(q) ==
    /\ RestorerAt(q, "upgrade")
    /\ restorers' = [restorers EXCEPT ![q] =
                        [@ EXCEPT !.pc = "publish", !.staging.upgraded = TRUE]]
    /\ UNCHANGED <<casFiles, registered, backups, backupCalls, restores, dataRoot>>

\* A bundle that cannot be read, a migration that fails, a count that differs or a target
\* that exists; also an error after the rename, which leaves the published root.
RestoreFails(q) ==
    /\ restorers[q] # NoDeployment
    /\ restores' = [restores EXCEPT ![q] = "FAILED"]
    /\ restorers' = [restorers EXCEPT ![q] = NoDeployment]
    /\ UNCHANGED <<casFiles, registered, backups, backupCalls, dataRoot>>

\* Mutant: what is at the target is replaced.
PublishOver(q) ==
    /\ RestorerAt(q, "publish")
    /\ dataRoot' = restorers[q].staging
    /\ restorers' = [restorers EXCEPT ![q] = [@ EXCEPT !.pc = "finish"]]
    /\ UNCHANGED <<casFiles, registered, backups, backupCalls, restores>>

\* The staging directory becomes the data root by one rename; a target that exists fails
\* the restore, and a rename onto a directory with content does too.
PublishRoot(q) ==
    /\ RestorerAt(q, "publish")
    /\ dataRoot = NoDeployment
    /\ dataRoot' = restorers[q].staging
    /\ restorers' = [restorers EXCEPT ![q] = [@ EXCEPT !.pc = "finish"]]
    /\ UNCHANGED <<casFiles, registered, backups, backupCalls, restores>>

FinishSuccess(q) ==
    /\ RestorerAt(q, "finish")
    /\ restores' = [restores EXCEPT ![q] = "SUCCEEDED"]
    /\ restorers' = [restorers EXCEPT ![q] = NoDeployment]
    /\ UNCHANGED <<casFiles, registered, backups, backupCalls, dataRoot>>

\* The row stays RUNNING and the staging directory stays where it is.
RestoreDies(q) ==
    /\ restorers[q] # NoDeployment
    /\ restorers' = [restorers EXCEPT ![q] = NoDeployment]
    /\ UNCHANGED <<casFiles, registered, backups, backupCalls, restores, dataRoot>>

BackupNext ==
    \/ \E x \in StoredArtifacts : StoreArtifact(x)
    \/ \E c \in BackupCallers, r \in BackupRequests : OnlineSnapshot(c, r)
    \/ \E c \in BackupCallers : CopyObjects(c) \/ RegisterBundle(c) \/ RecordBackup(c)
                                \/ BackupDies(c)
    \/ \E q \in RestoreRequests, b \in backups : RestoreStarts(q, b)
    \/ \E q \in RestoreRequests :
          \/ ExtractVerified(q) \/ UpgradeAndRebuild(q) \/ RestoreFails(q) \/ PublishRoot(q)
          \/ FinishSuccess(q) \/ RestoreDies(q)

-----------------------------------------------------------------------------
(* Kernel migrations and the product schema *)

Schema == {v \in 1..MigrationCount : schemaRuns[v] > 0}
MigratorAt(m, pc) == migrators[m] # NoDeployment /\ migrators[m].pc = pc

\* A database with tables and no ledger row is refused; the first migration makes both.
ReadLedger(m) ==
    /\ migrators[m] = NoDeployment
    /\ ledgerRows = {} => Schema = {}
    /\ migrators' = [migrators EXCEPT ![m] = [pc |-> "apply", applied |-> ledgerRows]]
    /\ UNCHANGED <<schemaRuns, ledgerRows, installed, upgrades, upgraders>>

NextMigration(m) ==
    CHOOSE v \in 1..MigrationCount :
        /\ v \notin migrators[m].applied
        /\ \A w \in 1..MigrationCount : w \notin migrators[m].applied => v <= w

\* The SQL owns its transaction: statements that cannot run twice fail as a whole.
ApplySql(m) ==
    /\ MigratorAt(m, "apply") /\ migrators[m].applied # 1..MigrationCount
    /\ LET v == NextMigration(m) IN
       \/ /\ v \notin Schema \/ v \in Repeatable
          /\ schemaRuns[v] < 2
          /\ schemaRuns' = [schemaRuns EXCEPT ![v] = @ + 1]
          /\ migrators' = [migrators EXCEPT ![m].pc = "ledger"]
       \/ /\ v \in Schema \ Repeatable
          /\ migrators' = [migrators EXCEPT ![m] = NoDeployment]
          /\ UNCHANGED schemaRuns
    /\ UNCHANGED <<ledgerRows, installed, upgrades, upgraders>>

\* Mutant: the ledger row is written before the SQL has run.
WriteLedgerFirst(m) ==
    /\ migrators[m] # NoDeployment /\ migrators[m].applied # 1..MigrationCount
    /\ ledgerRows' = ledgerRows \cup {NextMigration(m)}
    /\ migrators' = [migrators EXCEPT ![m] = [@ EXCEPT !.pc = "apply",
                                              !.applied = @ \cup {NextMigration(m)}]]
    /\ UNCHANGED <<schemaRuns, installed, upgrades, upgraders>>

\* The ledger row of a version is unique: the second process to write it fails.
WriteLedger(m) ==
    /\ MigratorAt(m, "ledger")
    /\ LET v == NextMigration(m) IN
       /\ ledgerRows' = ledgerRows \cup {v}
       /\ migrators' = [migrators EXCEPT ![m] =
              IF v \in ledgerRows THEN NoDeployment
              ELSE [pc |-> "apply", applied |-> @.applied \cup {v}]]
    /\ UNCHANGED <<schemaRuns, installed, upgrades, upgraders>>

MigratorEnds(m) ==
    /\ migrators[m] # NoDeployment
    /\ migrators' = [migrators EXCEPT ![m] = NoDeployment]
    /\ UNCHANGED <<schemaRuns, ledgerRows, installed, upgrades, upgraders>>

\* A request that succeeded is answered from its row; an upgrade names a backup.
UpgradeStarts(u) ==
    /\ upgraders[u] = NoDeployment /\ upgrades[u] # "SUCCEEDED"
    /\ backups # {}
    /\ upgraders' = [upgraders EXCEPT ![u] = "apply"]
    /\ UNCHANGED <<schemaRuns, ledgerRows, migrators, installed, upgrades>>

\* The product schema is assembled in one transaction.
ReleaseApplied(u) ==
    /\ upgraders[u] = "apply"
    /\ installed' = TRUE
    /\ upgraders' = [upgraders EXCEPT ![u] = "record"]
    /\ UNCHANGED <<schemaRuns, ledgerRows, migrators, upgrades>>

\* A row of the request that exists is kept.
ReleaseFailed(u) ==
    /\ upgraders[u] = "apply"
    /\ upgrades' = [upgrades EXCEPT ![u] = IF @ = "none" THEN "FAILED" ELSE @]
    /\ upgraders' = [upgraders EXCEPT ![u] = NoDeployment]
    /\ UNCHANGED <<schemaRuns, ledgerRows, migrators, installed>>

\* A request that failed before has its row: recording its success then raises.
RecordUpgrade(u) ==
    /\ upgraders[u] = "record"
    /\ upgrades' = [upgrades EXCEPT ![u] = IF @ = "none" THEN "SUCCEEDED" ELSE @]
    /\ upgraders' = [upgraders EXCEPT ![u] = NoDeployment]
    /\ UNCHANGED <<schemaRuns, ledgerRows, migrators, installed>>

UpgradeDies(u) ==
    /\ upgraders[u] # NoDeployment
    /\ upgraders' = [upgraders EXCEPT ![u] = NoDeployment]
    /\ UNCHANGED <<schemaRuns, ledgerRows, migrators, installed, upgrades>>

SchemaNext ==
    \/ \E m \in Migrators : ReadLedger(m) \/ ApplySql(m) \/ WriteLedger(m) \/ MigratorEnds(m)
    \/ \E u \in UpgradeRequests : UpgradeStarts(u) \/ ReleaseApplied(u) \/ ReleaseFailed(u)
                                  \/ RecordUpgrade(u) \/ UpgradeDies(u)

-----------------------------------------------------------------------------
(* The daemon *)

Marker(p) == IF processes[p] = NoDeployment THEN NoDeployment ELSE processes[p].marker

\* Mutant: a process is recognised by its id alone.
SameProcessById(r) == r # NoDeployment /\ r.pid # NoDeployment /\ processes[r.pid] # NoDeployment

SameProcess(r) ==
    /\ r # NoDeployment /\ r.pid # NoDeployment
    /\ Marker(r.pid) = r.marker

Receipt(status, p, m) == [status |-> status, pid |-> p, marker |-> m]
MarkersInUse == {Marker(p) : p \in Pids}

\* One shell starts the daemon: what it read decides whether it may.
StartService(p, m) ==
    /\ shell = NoDeployment /\ ~SameProcess(stateFile)
    /\ processes[p] = NoDeployment /\ m \notin MarkersInUse
    /\ processes' = [processes EXCEPT ![p] = [kind |-> "daemon", marker |-> m]]
    /\ stateFile' = Receipt("STARTING", p, m)
    /\ shell' = [pid |-> p, marker |-> m]
    /\ UNCHANGED signalled

ServiceHealthy ==
    /\ shell # NoDeployment /\ Marker(shell.pid) = shell.marker
    /\ stateFile' = Receipt("RUNNING", shell.pid, shell.marker)
    /\ shell' = NoDeployment
    /\ UNCHANGED <<processes, signalled>>

\* The child exited, or it was not healthy in time and is told to end.
ServiceUnhealthy ==
    /\ shell # NoDeployment
    /\ stateFile' = Receipt("FAILED", NoDeployment, NoDeployment)
    /\ IF Marker(shell.pid) = shell.marker
       THEN /\ signalled' = signalled \cup {processes[shell.pid].kind}
            /\ processes' = [processes EXCEPT ![shell.pid] = NoDeployment]
       ELSE UNCHANGED <<signalled, processes>>
    /\ shell' = NoDeployment

\* The shell goes away while it waits: the receipt says STARTING.
ShellDies == shell # NoDeployment /\ shell' = NoDeployment
             /\ UNCHANGED <<processes, stateFile, signalled>>

\* The process ends in time or is killed.
StopService ==
    /\ shell = NoDeployment /\ SameProcess(stateFile)
    /\ signalled' = signalled \cup {processes[stateFile.pid].kind}
    /\ processes' = [processes EXCEPT ![stateFile.pid] = NoDeployment]
    /\ stateFile' = Receipt("STOPPED", NoDeployment, NoDeployment)
    /\ UNCHANGED shell

\* The system: processes end by themselves and their ids are given to others.
ProcessEnds(p) ==
    /\ processes[p] # NoDeployment
    /\ processes' = [processes EXCEPT ![p] = NoDeployment]
    /\ UNCHANGED <<stateFile, signalled, shell>>

OtherProcess(p, m) ==
    /\ processes[p] = NoDeployment /\ m \notin MarkersInUse
    /\ stateFile # NoDeployment => m # stateFile.marker
    /\ processes' = [processes EXCEPT ![p] = [kind |-> "other", marker |-> m]]
    /\ UNCHANGED <<stateFile, signalled, shell>>

ServiceNext ==
    \/ \E p \in Pids, m \in Markers : StartService(p, m) \/ OtherProcess(p, m)
    \/ \E p \in Pids : ProcessEnds(p)
    \/ ServiceHealthy \/ ServiceUnhealthy \/ ShellDies \/ StopService

-----------------------------------------------------------------------------
\* A new deployment, or one that holds the bundles of some earlier empty backups.
MaintenanceInit(held) ==
    /\ casFiles = held /\ registered = held /\ dataRoot = NoDeployment
    /\ backups = [request : held, cas : {FALSE}, rows : {{}}, objects : {{}}]
    /\ backupCalls = [c \in BackupCallers |-> NoDeployment]
    /\ restores = [q \in RestoreRequests |-> "none"]
    /\ restorers = [q \in RestoreRequests |-> NoDeployment]
    /\ schemaRuns = [v \in 1..MigrationCount |-> 0] /\ ledgerRows = {}
    /\ migrators = [m \in Migrators |-> NoDeployment]
    /\ installed = FALSE /\ upgrades = [u \in UpgradeRequests |-> "none"]
    /\ upgraders = [u \in UpgradeRequests |-> NoDeployment]
    /\ processes = [p \in Pids |-> NoDeployment] /\ stateFile = NoDeployment
    /\ signalled = {} /\ shell = NoDeployment

\* The three parts share only that an upgrade names a backup.
MaintenanceNext ==
    \/ BackupNext /\ UNCHANGED <<schemaVars, serviceVars>>
    \/ SchemaNext /\ UNCHANGED <<backupVars, serviceVars>>
    \/ ServiceNext /\ UNCHANGED <<backupVars, schemaVars>>

MaintenanceSpec ==
    /\ \E held \in SUBSET BackupRequests : MaintenanceInit(held)
    /\ [][MaintenanceNext]_maintenanceVars

\* The rows and files of the deployment have their types.
BackupTypeOK ==
    /\ registered \subseteq casFiles /\ casFiles \subseteq Artifacts
    /\ backups \subseteq BackupRow
    /\ backupCalls \in [BackupCallers -> BackupCall \cup {NoDeployment}]
    /\ restores \in [RestoreRequests -> {"none", "RUNNING", "SUCCEEDED", "FAILED"}]
    /\ restorers \in [RestoreRequests -> RestoreCall \cup {NoDeployment}]
    /\ dataRoot \in Root \cup {NoDeployment}
SchemaTypeOK ==
    /\ schemaRuns \in [1..MigrationCount -> 0..2] /\ ledgerRows \subseteq 1..MigrationCount
    /\ migrators \in [Migrators -> MigratorCall \cup {NoDeployment}]
    /\ installed \in BOOLEAN
    /\ upgrades \in [UpgradeRequests -> {"none", "SUCCEEDED", "FAILED"}]
    /\ upgraders \in [UpgradeRequests -> {"apply", "record", NoDeployment}]
ServiceTypeOK ==
    /\ processes \in [Pids -> Process \cup {NoDeployment}]
    /\ stateFile \in ServiceReceipt \cup {NoDeployment}
    /\ shell \in ShellCall \cup {NoDeployment}
    /\ signalled \subseteq {"daemon", "other"}
MaintenanceTypeOK == BackupTypeOK /\ SchemaTypeOK /\ ServiceTypeOK

\* A backup taken while research goes on holds exactly what its database refers to, and a
\* restored root is one whole backup brought to the current schema: a request has
\* SUCCEEDED only if the root is the one it published, so at most one has, however calls
\* die and are repeated.
RestoredRootIsOneBackup ==
    /\ MaintenanceTypeOK
    /\ \A b \in backups : b.objects = IF b.cas THEN b.rows \ BackupRequests ELSE {}
    /\ \A b, c \in backups : b.request = c.request => b = c
    /\ dataRoot # NoDeployment =>
          /\ dataRoot.upgraded
          /\ \E b \in backups : dataRoot.rows = b.rows /\ dataRoot.objects = b.objects
    /\ \A q \in RestoreRequests : restores[q] = "SUCCEEDED" =>
          dataRoot # NoDeployment /\ dataRoot.by = q

\* The ledger of migrations never claims more than the database has, runs from the first
\* version without a gap, and is behind by at most the one migration that a process died
\* in or is at; an upgrade is reported only of a database that has the release.
LedgerFollowsSchema ==
    /\ ledgerRows = 1..Cardinality(ledgerRows)
    /\ ledgerRows \subseteq Schema
    /\ Schema \subseteq 1..(Cardinality(ledgerRows) + 1)
    /\ \A u \in UpgradeRequests : upgrades[u] = "SUCCEEDED" => installed

\* What MigrationRunner says of a process that dies between the two commits: the next
\* startup refuses the database, so no migration is run a second time.
NoMigrationRunsTwice == \A v \in 1..MigrationCount : schemaRuns[v] <= 1

\* The service commands signal only a daemon they started: not a process that was given
\* the daemon's id after it had ended.
OnlyTheDaemonIsSignalled == "other" \notin signalled
=============================================================================
