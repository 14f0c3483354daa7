--------------------------- MODULE StoreMigration ---------------------------
(***************************************************************************)
(* Moving the job store.  Two pieces of code copy jobs between layouts:      *)
(* the start of a server on SQL, which carries the rows of the older numeric *)
(* tables into the UUID tables (migrate_legacy_jobs in                       *)
(* src/src/repository.rs, row by row, outside any transaction, at every      *)
(* start of every replica), and the migrate-store command                    *)
(* (src/src/store_migration.rs), which copies a snapshot of one back end     *)
(* into the other and verifies it.  Both may be interrupted at any write.    *)
(*                                                                         *)
(* Around them is the procedure of README.md, "Migrating the job store":     *)
(* servers are stopped during an attempt, and the deployment moves to the    *)
(* destination only after the command reported success.  Before, between and *)
(* after attempts the service works on the store it is deployed on.          *)
(***************************************************************************)
EXTENDS Naturals, FiniteSets

CONSTANTS
    Job,
    LegacyJob,          \* jobs that may stem from a numeric store
    None,               \* no record
    MaxAttempts,        \* bound on the runs of migrate-store
    MaxServed           \* bound on the operations of the service

Store == {"sqlx", "dynamodb"}

(* StoredJob: its progress and whether its notification was delivered.       *)
StoredJob == [status : {"queued", "solved"}, sent : BOOLEAN]

(* StoreSnapshot.  Timestamps of clients are counted; 0 is no record.        *)
(* beyond says that the store holds columns, attributes or items that this   *)
(* version does not know.                                                    *)
StoreSnapshot == [job : [Job -> StoredJob \cup {None}], donations : SUBSET Job,
                  client : Nat, beyond : BOOLEAN]

ASSUME StoreMigrationAssumptions ==
    /\ LegacyJob \subseteq Job
    /\ None \notin Store \cup {"queued", "solved"} \cup StoredJob \cup StoreSnapshot
    /\ MaxAttempts \in Nat /\ MaxServed \in Nat

VARIABLES
    old,        \* the numeric SQL tables, or none
    sql,        \* the UUID tables, client_service and queue_outbox_v2
    dyn,        \* the DynamoDB table
    home,       \* the store the deployment uses
    serving,    \* the store a running service has open, or None
    upgrade,    \* migrate_legacy_jobs: "off" or its current loop
    mig,        \* the running migrate-store command
    cleared,    \* the destination a command has reported verified, or None
    partial,    \* the destination that attempts have been writing to, or None
    attempts, served,
    overlooked, \* history: a half upgraded SQL store has been copied from
    truth       \* what the service and its users know to be stored

vars == <<old, sql, dyn, home, serving, upgrade, mig, cleared, partial, attempts,
          served, overlooked, truth>>

Other(store) == IF store = "sqlx" THEN "dynamodb" ELSE "sqlx"

JobsOf(f) == {j \in Job : f[j] # None}

NoJobs == [j \in Job |-> None]
Off == [pc |-> "off", to |-> None, resume |-> FALSE, dry |-> FALSE,
        snapshot |-> None, todo |-> {}]

(* A queued job of a numeric store is announced again under its UUID.        *)
Converted(job) ==
    IF job = None THEN None ELSE [job EXCEPT !.sent = @ /\ job.status # "queued"]

EmptySql == [ready |-> FALSE, job |-> NoJobs, outbox |-> [j \in Job |-> "none"],
             donations |-> {}, client |-> 0, beyond |-> FALSE]
EmptyDyn == [item |-> NoJobs, numeric |-> NoJobs, index |-> {}, donations |-> {},
             client |-> 0, beyond |-> FALSE]

(* The deployment starts on a numeric store of either kind, with any         *)
(* progress of its jobs, and an empty store of the other kind.               *)
Init ==
    \E jobs \in {f \in [Job -> StoredJob \cup {None}] : JobsOf(f) \subseteq LegacyJob},
       beyond \in BOOLEAN :
    \E donations \in SUBSET JobsOf(jobs) :
        /\ home \in Store
        /\ old = [tables |-> home = "sqlx",
                  job |-> IF home = "sqlx" THEN jobs ELSE NoJobs,
                  donations |-> IF home = "sqlx" THEN donations ELSE {}]
        /\ sql = [EmptySql EXCEPT !.client = IF home = "sqlx" THEN 1 ELSE 0,
                                  !.beyond = beyond /\ home = "sqlx"]
        /\ dyn = IF home = "sqlx" THEN EmptyDyn
                 ELSE [EmptyDyn EXCEPT !.numeric = jobs, !.index = JobsOf(jobs),
                            !.donations = donations, !.client = 1, !.beyond = beyond]
        /\ truth = [job |-> [j \in Job |-> Converted(jobs[j])], donations |-> donations,
                    client |-> 1, beyond |-> beyond]
        /\ serving = None /\ upgrade = "off" /\ mig = Off
        /\ cleared = None /\ partial = None /\ attempts = 0 /\ served = 0
        /\ overlooked = FALSE

-----------------------------------------------------------------------------
(* Starting a server on SQL: create the tables, then three loops over the    *)
(* numeric rows, each an INSERT ... ON CONFLICT DO NOTHING.                  *)

CreateTables ==
    /\ sql' = [sql EXCEPT !.ready = TRUE]
    /\ upgrade' = IF old.tables THEN "jobs" ELSE "done"

UpgradeJob(j) ==
    /\ upgrade = "jobs"
    /\ old.job[j] # None /\ sql.job[j] = None
    /\ sql' = [sql EXCEPT !.job[j] = old.job[j].status]
    /\ UNCHANGED <<old, dyn, home, serving, upgrade, mig, cleared, partial, attempts,
                   served, overlooked, truth>>

UpgradeDonation(j) ==
    /\ upgrade = "donations"
    /\ j \in old.donations \ sql.donations
    /\ sql' = [sql EXCEPT !.donations = @ \cup {j}]
    /\ UNCHANGED <<old, dyn, home, serving, upgrade, mig, cleared, partial, attempts,
                   served, overlooked, truth>>

(* Variant for the mutation runs: ON CONFLICT DO UPDATE.                      *)
UpgradeOutboxAgain(j) ==
    /\ upgrade = "outbox"
    /\ old.job[j] # None
    /\ sql' = [sql EXCEPT !.outbox[j] = IF Converted(old.job[j]).sent THEN "sent" ELSE "due"]
    /\ UNCHANGED <<old, dyn, home, serving, upgrade, mig, cleared, partial, attempts,
                   served, overlooked, truth>>

UpgradeOutbox(j) ==
    /\ upgrade = "outbox"
    /\ old.job[j] # None /\ sql.outbox[j] = "none"
    /\ sql' = [sql EXCEPT !.outbox[j] = IF Converted(old.job[j]).sent THEN "sent" ELSE "due"]
    /\ UNCHANGED <<old, dyn, home, serving, upgrade, mig, cleared, partial, attempts,
                   served, overlooked, truth>>

NextLoop ==
    /\ \/ /\ upgrade = "jobs" /\ \A j \in JobsOf(old.job) : sql.job[j] # None
          /\ upgrade' = "donations"
       \/ /\ upgrade = "donations" /\ old.donations \subseteq sql.donations
          /\ upgrade' = "outbox"
       \/ /\ upgrade = "outbox" /\ \A j \in JobsOf(old.job) : sql.outbox[j] # "none"
          /\ upgrade' = "done"
    /\ UNCHANGED <<old, sql, dyn, home, serving, mig, cleared, partial, attempts,
                   served, overlooked, truth>>

(* The connection is made: the server opens for business, or the command     *)
(* goes on.                                                                  *)
Connected ==
    /\ upgrade = "done"
    /\ upgrade' = "off"
    /\ IF mig.pc = "connect" THEN mig' = [mig EXCEPT !.pc = "plan"] /\ UNCHANGED serving
                             ELSE serving' = "sqlx" /\ UNCHANGED mig
    /\ UNCHANGED <<old, sql, dyn, home, cleared, partial, attempts,
                   served, overlooked, truth>>

-----------------------------------------------------------------------------
(* snapshot.  A store that cannot be read as a whole has no snapshot.        *)

(* ensure_no_orphan_outbox, and the join that gives each job its row.        *)
OutboxMatches == \A j \in Job : (sql.job[j] = None) <=> (sql.outbox[j] = "none")

SnapshotUuidSql ==
    IF OutboxMatches
      THEN [job |-> [j \in Job |-> IF sql.job[j] = None THEN None
                        ELSE [status |-> sql.job[j], sent |-> sql.outbox[j] = "sent"]],
            donations |-> sql.donations, client |-> sql.client, beyond |-> sql.beyond]
      ELSE None

SnapshotLegacySql ==
    [job |-> [j \in Job |-> Converted(old.job[j])], donations |-> old.donations,
     client |-> sql.client, beyond |-> sql.beyond]

(* ensure_sql_schema_supported: tables and columns of a later version make   *)
(* the store unreadable.                                                     *)
SqlSchemaSupported == ~sql.beyond

SnapshotSql == IF sql.ready THEN SnapshotUuidSql ELSE SnapshotLegacySql

(* job_from_item: the job under its UUID, or under its number.               *)
JobFromItem(j) == IF dyn.item[j] # None THEN dyn.item[j] ELSE Converted(dyn.numeric[j])

(* resolve_job_reference: every index item leads to a job that is there.     *)
ReferencesResolve == dyn.index \subseteq JobsOf(dyn.item) \cup JobsOf(dyn.numeric)

(* ensure_only_attributes.                                                   *)
ItemsSupported == ~dyn.beyond

(* A job is there under its UUID and under its number.                       *)
UnderBothKeys == JobsOf(dyn.item) \cap JobsOf(dyn.numeric) # {}

(* One scan; the same job must not be there under both keys.                 *)
SnapshotDyn ==
    IF ReferencesResolve /\ ~UnderBothKeys
      THEN [job |-> [j \in Job |-> JobFromItem(j)], donations |-> dyn.donations,
            client |-> dyn.client, beyond |-> dyn.beyond]
      ELSE None

(* validate.                                                                 *)
Validates(s) == s.donations \subseteq JobsOf(s.job)

(* What a reader of the store gets, or None.                                 *)
Snapshot(store) ==
    LET s == IF store = "sqlx" THEN SnapshotSql ELSE SnapshotDyn
        supported == IF store = "sqlx" THEN SqlSchemaSupported ELSE ItemsSupported
    IN  IF supported /\ s # None /\ Validates(s) THEN s ELSE None

IsEmpty(s) == JobsOf(s.job) = {} /\ s.donations = {} /\ s.client = 0

(* Variant for the mutation runs: the fairness records are not compared.     *)
SubsetButClients(s, source) ==
    /\ \A j \in JobsOf(s.job) : s.job[j] = source.job[j]
    /\ s.donations \subseteq source.donations

EnsureSubset(s, source) ==
    /\ \A j \in JobsOf(s.job) : s.job[j] = source.job[j]
    /\ s.donations \subseteq source.donations
    /\ s.client # 0 => s.client = source.client

-----------------------------------------------------------------------------
(* migrate-store.                                                            *)

(* A first start on SQL was interrupted before its rows were all copied.     *)
HalfUpgraded == sql.ready /\ \E j \in JobsOf(old.job) : sql.outbox[j] = "none"

(* Only an SQL destination is initialised.                                   *)
StartMigration(to, resume, dry) ==
    /\ mig.pc = "off" /\ serving = None /\ upgrade = "off"
    /\ attempts < MaxAttempts
    /\ attempts' = attempts + 1
    /\ mig' = [Off EXCEPT !.pc = IF to = "sqlx" THEN "connect" ELSE "plan",
                          !.to = to, !.resume = resume, !.dry = dry]
    /\ IF to = "sqlx" THEN CreateTables ELSE UNCHANGED <<sql, upgrade>>
    /\ UNCHANGED <<old, dyn, home, serving, cleared, partial, served, overlooked, truth>>

(* Both snapshots are read and compared before anything is written.  A       *)
(* source on SQL with UUID tables is read as if it had no others, also when  *)
(* the first start that copies the numeric rows was interrupted.             *)
Plan ==
    LET source == Snapshot(Other(mig.to))
        target == Snapshot(mig.to)
        goes_on == /\ source # None /\ target # None /\ ~mig.dry
                   /\ IF mig.resume THEN EnsureSubset(target, source) ELSE IsEmpty(target)
    IN  /\ mig.pc = "plan"
        /\ mig' = IF goes_on THEN [mig EXCEPT !.pc = "import", !.snapshot = source,
                                              !.todo = JobsOf(source.job)]
                             ELSE Off
        /\ overlooked' = (overlooked \/ (goes_on /\ mig.to = "dynamodb" /\ HalfUpgraded))
        /\ UNCHANGED <<old, sql, dyn, home, serving, upgrade, cleared, partial, attempts,
                       served, truth>>

(* Variant for the mutation runs: the index item goes first, on its own.     *)
ImportJobIndexFirst(j) ==
    /\ mig.pc = "import" /\ mig.to = "dynamodb" /\ j \in mig.todo
    /\ partial' = "dynamodb"
    /\ IF j \notin dyn.index
         THEN dyn' = [dyn EXCEPT !.index = @ \cup {j}] /\ UNCHANGED mig
         ELSE /\ dyn' = [dyn EXCEPT !.item[j] = mig.snapshot.job[j],
                            !.donations = @ \cup ({j} \cap mig.snapshot.donations)]
              /\ mig' = [mig EXCEPT !.todo = @ \ {j}]
    /\ UNCHANGED <<old, sql, home, serving, upgrade, cleared, attempts,
                   served, overlooked, truth>>

(* job_to_item: the item carries the donation.                               *)
WithItem(d, s, j) ==
    [d EXCEPT !.item[j] = s.job[j],
              !.donations = (@ \ {j}) \cup ({j} \cap s.donations)]

(* dynamo_put: unless resuming, nothing may be overwritten.                  *)
MayPut(j) == mig.resume \/ (dyn.item[j] = None /\ j \notin dyn.index)

(* import into DynamoDB: one transaction per job for its item and its index  *)
(* items.                                                                    *)
ImportJob(j) ==
    /\ mig.pc = "import" /\ mig.to = "dynamodb" /\ j \in mig.todo
    /\ partial' = "dynamodb"
    /\ IF MayPut(j)
         THEN /\ dyn' = [WithItem(dyn, mig.snapshot, j) EXCEPT !.index = @ \cup {j}]
              /\ mig' = [mig EXCEPT !.todo = @ \ {j}]
         ELSE mig' = Off /\ UNCHANGED dyn
    /\ UNCHANGED <<old, sql, home, serving, upgrade, cleared, attempts,
                   served, overlooked, truth>>

(* ... then the fairness records.                                            *)
ImportClients ==
    /\ mig.pc = "import" /\ mig.to = "dynamodb" /\ mig.todo = {}
    /\ partial' = "dynamodb"
    /\ IF mig.resume \/ dyn.client = 0 \/ mig.snapshot.client = 0
         THEN /\ dyn' = [dyn EXCEPT !.client = IF mig.snapshot.client = 0 THEN @
                                               ELSE mig.snapshot.client]
              /\ mig' = [mig EXCEPT !.pc = "verify"]
         ELSE mig' = Off /\ UNCHANGED dyn
    /\ UNCHANGED <<old, sql, home, serving, upgrade, cleared, attempts,
                   served, overlooked, truth>>

(* import into SQL: upserts in one transaction.                              *)
ImportSql ==
    LET s == mig.snapshot
    IN  /\ mig.pc = "import" /\ mig.to = "sqlx"
        /\ partial' = "sqlx"
        /\ sql' = [sql EXCEPT
                !.job = [j \in Job |-> IF s.job[j] = None THEN @[j] ELSE s.job[j].status],
                !.outbox = [j \in Job |-> IF s.job[j] = None THEN @[j]
                                ELSE IF s.job[j].sent THEN "sent" ELSE "due"],
                !.donations = @ \cup s.donations,
                !.client = IF s.client = 0 THEN @ ELSE s.client]
        /\ mig' = [mig EXCEPT !.pc = "verify", !.todo = {}]
        /\ UNCHANGED <<old, dyn, home, serving, upgrade, cleared, attempts,
                       served, overlooked, truth>>

(* The destination is read again and compared with the source snapshot.      *)
Verify ==
    /\ mig.pc = "verify"
    /\ cleared' = IF Snapshot(mig.to) = mig.snapshot THEN mig.to ELSE cleared
    /\ mig' = Off
    /\ UNCHANGED <<old, sql, dyn, home, serving, upgrade, partial, attempts,
                   served, overlooked, truth>>

(* The command, or the server that is starting, dies.                        *)
Crash ==
    /\ mig.pc # "off" \/ upgrade # "off"
    /\ mig' = Off /\ upgrade' = "off"
    /\ UNCHANGED <<old, sql, dyn, home, serving, cleared, partial, attempts,
                   served, overlooked, truth>>

-----------------------------------------------------------------------------
(* The deployment.                                                           *)

(* A numeric DynamoDB table has to be migrated before it can be served.      *)
StartServer ==
    /\ serving = None /\ mig.pc = "off" /\ upgrade = "off"
    /\ cleared' = None
    /\ IF home = "sqlx" THEN CreateTables /\ UNCHANGED serving
       ELSE /\ dyn.numeric = NoJobs
            /\ serving' = "dynamodb" /\ UNCHANGED <<sql, upgrade>>
    /\ UNCHANGED <<old, dyn, home, mig, partial, attempts,
                   served, overlooked, truth>>

(* Another replica starts while one is serving.                              *)
StartReplica ==
    /\ serving = "sqlx" /\ upgrade = "off"
    /\ CreateTables
    /\ UNCHANGED <<old, dyn, home, serving, mig, cleared, partial, attempts,
                   served, overlooked, truth>>

StopServer ==
    /\ serving # None
    /\ serving' = None /\ upgrade' = "off"
    /\ UNCHANGED <<old, sql, dyn, home, mig, cleared, partial, attempts,
                   served, overlooked, truth>>

Cutover ==
    /\ cleared # None /\ serving = None /\ mig.pc = "off" /\ upgrade = "off"
    /\ home' = cleared
    /\ cleared' = None
    /\ UNCHANGED <<old, sql, dyn, serving, upgrade, mig, partial, attempts,
                   served, overlooked, truth>>

(* What an operation of the service does to the content of a store: a new    *)
(* job, its notification, a claim and its result, a donation.                *)
Allowed(op, j, c) ==
    CASE op = "submit" -> c.job[j] = None /\ j \notin LegacyJob
      [] op = "notify" -> c.job[j] # None /\ ~c.job[j].sent
      [] op = "solve" -> c.job[j] # None /\ c.job[j].status = "queued"
      [] op = "donate" -> c.job[j] # None /\ j \notin c.donations

Applied(op, j, c) ==
    CASE op = "submit" -> [c EXCEPT !.job[j] = [status |-> "queued", sent |-> FALSE]]
      [] op = "notify" -> [c EXCEPT !.job[j].sent = TRUE]
      [] op = "solve" -> [c EXCEPT !.job[j].status = "solved", !.client = @ + 1]
      [] op = "donate" -> [c EXCEPT !.donations = @ \cup {j}]

Operation == {"submit", "notify", "solve", "donate"}

ServeSql(op, j) ==
    LET c == Applied(op, j, SnapshotUuidSql)
    IN  /\ serving = "sqlx" /\ served < MaxServed
        /\ SnapshotUuidSql # None /\ Allowed(op, j, SnapshotUuidSql)
        /\ sql' = [sql EXCEPT
                !.job = [i \in Job |-> IF c.job[i] = None THEN None ELSE c.job[i].status],
                !.outbox = [i \in Job |-> IF c.job[i] = None THEN "none"
                                ELSE IF c.job[i].sent THEN "sent" ELSE "due"],
                !.donations = c.donations, !.client = c.client]
        /\ truth' = Applied(op, j, truth)
        /\ served' = served + 1 /\ partial' = None
        /\ UNCHANGED <<old, dyn, home, serving, upgrade, mig, cleared, attempts, overlooked>>

ServeDyn(op, j) ==
    LET c == Applied(op, j, SnapshotDyn)
    IN  /\ serving = "dynamodb" /\ served < MaxServed
        /\ SnapshotDyn # None /\ Allowed(op, j, SnapshotDyn)
        /\ dyn' = [dyn EXCEPT !.item = c.job, !.donations = c.donations,
                      !.client = c.client, !.index = @ \cup {j}]
        /\ truth' = Applied(op, j, truth)
        /\ served' = served + 1 /\ partial' = None
        /\ UNCHANGED <<old, sql, home, serving, upgrade, mig, cleared, attempts, overlooked>>

-----------------------------------------------------------------------------
Upgrading ==
    \/ \E j \in Job : UpgradeJob(j) \/ UpgradeDonation(j) \/ UpgradeOutbox(j)
    \/ NextLoop \/ Connected

Migrating ==
    \/ \E to \in Store, resume, dry \in BOOLEAN : StartMigration(to, resume, dry)
    \/ Plan \/ (\E j \in Job : ImportJob(j)) \/ ImportClients \/ ImportSql \/ Verify

Deploying ==
    \/ StartServer \/ StartReplica \/ StopServer \/ Cutover
    \/ \E op \in Operation, j \in Job : ServeSql(op, j) \/ ServeDyn(op, j)

Next == Upgrading \/ Migrating \/ Crash \/ Deploying

Spec == Init /\ [][Next]_vars

-----------------------------------------------------------------------------
(* Properties.                                                             *)

(* Whatever upgrades, migrations in either direction, interruptions, resumed *)
(* attempts and cutovers came before, a running service finds exactly what   *)
(* was stored last: every job with its progress and its notification, every  *)
(* donation, the fairness records; and on DynamoDB every job in its indexes. *)
(* The promise ends where a first start on SQL is interrupted and its store  *)
(* is then copied before a server has finished the upgrade: migrate-store    *)
(* does not look at the numeric rows, and reports success without them.      *)
NothingIsLost ==
    overlooked \/
    /\ serving = "sqlx" => SnapshotUuidSql = truth
    /\ serving = "dynamodb" => SnapshotDyn = truth /\ dyn.index = JobsOf(truth.job)

(* No attempt changes or removes a record that its destination already has:  *)
(* a destination that was put into service, or that holds a copy of another  *)
(* state of the source, is left as it is.                                    *)
MigrationOnlyAdds ==
    [][mig.pc = "import" =>
        /\ \A j \in Job :
             /\ mig.to = "sqlx" /\ sql.job[j] # None =>
                    /\ sql'.job[j] = sql.job[j]
                    /\ sql.outbox[j] # "none" => sql'.outbox[j] = sql.outbox[j]
             /\ mig.to = "dynamodb" /\ dyn.item[j] # None => dyn'.item[j] = dyn.item[j]
        /\ sql.donations \subseteq sql'.donations /\ dyn.donations \subseteq dyn'.donations
        /\ sql.client # 0 => sql'.client = sql.client
        /\ dyn.client # 0 => dyn'.client = dyn.client]_vars

(* An interrupted attempt can be taken up again: as long as the service has  *)
(* written nothing since, both stores are readable and the destination holds *)
(* a part of what the source holds, so that --resume is not refused.  (Not   *)
(* so while a first start on SQL is left unfinished, nor once an import has  *)
(* gone back to a table of numeric items, where each job it wrote is then    *)
(* there under both keys and the table unreadable.)                          *)
InterruptedImportResumes ==
    /\ partial # None /\ mig.pc = "off" /\ upgrade = "off"
    /\ ~HalfUpgraded /\ ~UnderBothKeys
    =>
        LET source == Snapshot(Other(partial))
            target == Snapshot(partial)
        IN  source # None /\ target # None /\ EnsureSubset(target, source)
=============================================================================
