------------------------ MODULE StoreMigrationProofs ------------------------
(***************************************************************************)
(* Proofs about moving the job store, for any jobs, any number of attempts   *)
(* and interruptions, and any operations of the service in between.          *)
(***************************************************************************)
EXTENDS StoreMigration, TLAPS

-----------------------------------------------------------------------------
(* Types.                                                                    *)

Status == {"queued", "solved"}
Jobs == [Job -> StoredJob \cup {None}]

SqlTables == [ready : BOOLEAN, job : [Job -> Status \cup {None}],
              outbox : [Job -> {"none", "due", "sent"}], donations : SUBSET Job,
              client : Nat, beyond : BOOLEAN]
DynTable == [item : Jobs, numeric : Jobs, index : SUBSET Job, donations : SUBSET Job,
             client : Nat, beyond : BOOLEAN]
Command == [pc : {"off", "connect", "plan", "import", "verify"}, to : Store \cup {None},
            resume : BOOLEAN, dry : BOOLEAN, snapshot : StoreSnapshot \cup {None},
            todo : SUBSET Job]

(* Types of the variables.                                                   *)
TypeOK ==
    /\ old \in [tables : BOOLEAN, job : Jobs, donations : SUBSET Job]
    /\ sql \in SqlTables /\ dyn \in DynTable
    /\ home \in Store /\ serving \in Store \cup {None}
    /\ upgrade \in {"off", "jobs", "donations", "outbox", "done"}
    /\ mig \in Command
    /\ cleared \in Store \cup {None} /\ partial \in Store \cup {None}
    /\ attempts \in Nat /\ served \in Nat /\ overlooked \in BOOLEAN
    /\ truth \in StoreSnapshot

-----------------------------------------------------------------------------
(* What a store holds, however far its upgrade has come: a numeric row       *)
(* counts until the notification of its job has been carried over, which is  *)
(* the last thing that is.                                                   *)

SqlContent ==
    [job |-> [j \in Job |-> IF sql.outbox[j] = "none" THEN Converted(old.job[j])
                            ELSE [status |-> sql.job[j], sent |-> sql.outbox[j] = "sent"]],
     donations |-> sql.donations \cup old.donations,
     client |-> sql.client, beyond |-> sql.beyond]

DynContent ==
    [job |-> [j \in Job |-> JobFromItem(j)], donations |-> dyn.donations,
     client |-> dyn.client, beyond |-> dyn.beyond]

Content(store) == IF store = "sqlx" THEN SqlContent ELSE DynContent

-----------------------------------------------------------------------------
(* The invariant.                                                            *)

(* The numeric tables never change; what has not been copied from them yet   *)
(* is not there, and what has been is as it was until it is announced.       *)
JobsCopied == \A j \in Job : old.job[j] # None => sql.job[j] # None
DonationsCopied == old.donations \subseteq sql.donations
OutboxCopied == \A j \in Job : old.job[j] # None => sql.outbox[j] # "none"

OldSound ==
    /\ JobsOf(old.job) \subseteq LegacyJob /\ old.donations \subseteq JobsOf(old.job)
    /\ ~old.tables => old.job = NoJobs

SqlSound ==
    /\ \A j \in Job : sql.outbox[j] # "none" => sql.job[j] # None
    /\ \A j \in Job : sql.job[j] # None /\ sql.outbox[j] = "none" =>
         old.job[j] # None /\ sql.job[j] = old.job[j].status
    /\ sql.donations \subseteq JobsOf(sql.job)
    /\ (\E j \in Job : sql.outbox[j] # "none") => JobsCopied /\ DonationsCopied
    /\ ~sql.ready => sql.job = NoJobs

Upgraded == sql.ready /\ JobsCopied /\ DonationsCopied /\ OutboxCopied

(* The loops of migrate_legacy_jobs come one after the other.                *)
UpgradeInOrder ==
    /\ upgrade # "off" => sql.ready
    /\ upgrade \in {"donations", "outbox", "done"} => JobsCopied
    /\ upgrade \in {"outbox", "done"} => DonationsCopied
    /\ upgrade = "done" => OutboxCopied

(* An item and its index items appear together.                              *)
DynSound ==
    /\ dyn.index = JobsOf(dyn.item) \cup JobsOf(dyn.numeric)
    /\ dyn.donations \subseteq dyn.index

(* Servers and commands do not run at the same time, and a connection that   *)
(* is being opened belongs to one of them.                                   *)
OneAtATime ==
    /\ serving # None => serving = home /\ mig.pc = "off" /\ cleared = None
    /\ serving = "sqlx" => Upgraded
    /\ serving = "dynamodb" => upgrade = "off" /\ dyn.numeric = NoJobs
    /\ upgrade # "off" /\ mig.pc # "connect" => home = "sqlx" /\ mig.pc = "off" /\ cleared = None
    /\ mig.pc = "connect" => upgrade # "off" /\ mig.to = "sqlx"

(* The store in use holds the truth, and so does one that was verified,      *)
(* unless a half upgraded store was copied from; no store holds a job or a   *)
(* donation that is not part of the truth.                                   *)
HoldsTruth ==
    /\ ~overlooked => /\ Content(home) = truth
                      /\ cleared # None => Content(cleared) = truth
    /\ \A s \in Store : /\ JobsOf(Content(s).job) \subseteq JobsOf(truth.job)
                        /\ Content(s).donations \subseteq truth.donations
    /\ truth.client # 0

Readable == ~sql.beyond /\ ~dyn.beyond

(* While a command writes, its destination holds part of what it read, and   *)
(* that is part of what its source still holds; it is all of it but for a    *)
(* source that was half upgraded.                                            *)
CommandSound ==
    /\ mig.pc \in {"plan", "import", "verify"} =>
         mig.to \in Store /\ (mig.to = "sqlx" => Upgraded)
    /\ mig.pc \in {"import", "verify"} =>
         /\ mig.snapshot \in StoreSnapshot /\ Validates(mig.snapshot) /\ Readable
         /\ EnsureSubset(Content(mig.to), mig.snapshot)
         /\ EnsureSubset(mig.snapshot, Content(Other(mig.to)))
         /\ ~overlooked => mig.snapshot = Content(Other(mig.to))
         /\ mig.todo \subseteq JobsOf(mig.snapshot.job)

(* What an interrupted attempt left behind is part of what its source holds. *)
PartialSound ==
    /\ partial # None => Readable /\ EnsureSubset(Content(partial), Content(Other(partial)))
    /\ partial = "sqlx" => Upgraded

StoresSound == OldSound /\ SqlSound /\ UpgradeInOrder /\ DynSound

MigrationInv == StoresSound /\ OneAtATime /\ HoldsTruth /\ CommandSound /\ PartialSound

-----------------------------------------------------------------------------
(* Facts about records of jobs and about the content of the stores.          *)

LEMMA NoneApart ==
    /\ None \notin Store /\ None \notin Status /\ None \notin StoredJob /\ None \notin StoreSnapshot
BY StoreMigrationAssumptions DEF Status

LEMMA ConvertedTyped ==
    ASSUME NEW x \in StoredJob \cup {None}
    PROVE  /\ Converted(x) \in StoredJob \cup {None}
           /\ Converted(x) = None <=> x = None
           /\ x # None => Converted(x).status = x.status
<1>1. CASE x = None
  BY <1>1 DEF Converted
<1>2. CASE x # None
  <2>1. x \in StoredJob /\ Converted(x) = [x EXCEPT !.sent = @ /\ x.status # "queued"]
    BY <1>2 DEF Converted
  <2>2. (x.sent /\ x.status # "queued") \in BOOLEAN
    OBVIOUS
  <2>3. Converted(x) \in StoredJob /\ Converted(x).status = x.status
    BY <2>1, <2>2 DEF StoredJob
  <2>4. QED BY <1>2, <2>3, NoneApart
<1>3. QED BY <1>1, <1>2

LEMMA PairTyped ==
    ASSUME NEW x \in Status, NEW b \in BOOLEAN
    PROVE  [status |-> x, sent |-> b] \in StoredJob /\ [status |-> x, sent |-> b] # None
BY NoneApart DEF StoredJob, Status

LEMMA OldTyped ==
    ASSUME TypeOK, NEW j \in Job
    PROVE  /\ old.job[j] \in StoredJob \cup {None}
           /\ Converted(old.job[j]) \in StoredJob \cup {None}
           /\ Converted(old.job[j]) = None <=> old.job[j] = None
<1>1. old.job[j] \in StoredJob \cup {None}
  BY DEF TypeOK, Jobs
<1>2. QED BY <1>1, ConvertedTyped

LEMMA SqlFields ==
    ASSUME TypeOK
    PROVE  /\ sql \in SqlTables /\ sql.ready \in BOOLEAN /\ sql.job \in [Job -> Status \cup {None}]
           /\ sql.outbox \in [Job -> {"none", "due", "sent"}] /\ sql.donations \subseteq Job
           /\ sql.client \in Nat /\ sql.beyond \in BOOLEAN
BY DEF TypeOK, SqlTables

LEMMA DynFields ==
    ASSUME TypeOK
    PROVE  /\ dyn \in DynTable /\ dyn.item \in Jobs /\ dyn.numeric \in Jobs /\ dyn.index \subseteq Job
           /\ dyn.donations \subseteq Job /\ dyn.client \in Nat /\ dyn.beyond \in BOOLEAN
BY DEF TypeOK, DynTable

LEMMA SnapshotFields ==
    ASSUME NEW s \in StoreSnapshot
    PROVE  /\ s.job \in [Job -> StoredJob \cup {None}] /\ s.donations \subseteq Job
           /\ s.client \in Nat /\ s.beyond \in BOOLEAN
BY DEF StoreSnapshot

(* Two snapshots that agree in every field are one.                          *)
LEMMA SameSnapshot ==
    ASSUME NEW s \in StoreSnapshot, NEW t \in StoreSnapshot, \A j \in Job : s.job[j] = t.job[j],
           s.donations = t.donations, s.client = t.client, s.beyond = t.beyond
    PROVE  s = t
<1>1. s.job \in [Job -> StoredJob \cup {None}] /\ t.job \in [Job -> StoredJob \cup {None}]
  BY SnapshotFields
<1>2. s.job = t.job
  BY <1>1
<1>3. QED BY <1>2 DEF StoreSnapshot

(* The job of a number in the UUID tables.                                   *)
LEMMA SqlJob ==
    ASSUME TypeOK, SqlSound, NEW j \in Job
    PROVE  /\ SqlContent.job[j] \in StoredJob \cup {None}
           /\ sql.outbox[j] = "none" => SqlContent.job[j] = Converted(old.job[j])
           /\ sql.outbox[j] # "none" =>
                /\ SqlContent.job[j] = [status |-> sql.job[j], sent |-> sql.outbox[j] = "sent"]
                /\ SqlContent.job[j] # None
           /\ sql.job[j] # None => SqlContent.job[j] # None
<1>1. SqlContent.job[j] = IF sql.outbox[j] = "none" THEN Converted(old.job[j])
                          ELSE [status |-> sql.job[j], sent |-> sql.outbox[j] = "sent"]
  BY DEF SqlContent
<1>2. CASE sql.outbox[j] = "none"
  BY <1>1, <1>2, OldTyped DEF SqlSound
<1>3. CASE sql.outbox[j] # "none"
  <2>1. sql.job[j] \in Status
    BY <1>3, SqlFields DEF SqlSound
  <2>2. SqlContent.job[j] = [status |-> sql.job[j], sent |-> sql.outbox[j] = "sent"]
    BY <1>1, <1>3
  <2>3. (sql.outbox[j] = "sent") \in BOOLEAN
    OBVIOUS
  <2>4. /\ [status |-> sql.job[j], sent |-> sql.outbox[j] = "sent"] \in StoredJob
        /\ [status |-> sql.job[j], sent |-> sql.outbox[j] = "sent"] # None
    BY <2>1, <2>3, PairTyped
  <2>5. QED BY <1>3, <2>2, <2>4
<1>4. QED BY <1>2, <1>3

LEMMA SqlTyped ==
    ASSUME TypeOK, OldSound, SqlSound
    PROVE  /\ SqlContent \in StoreSnapshot /\ Validates(SqlContent)
           /\ SqlContent.donations = sql.donations \cup old.donations
           /\ SqlContent.client = sql.client /\ SqlContent.beyond = sql.beyond
<1>1. /\ SqlContent.donations = sql.donations \cup old.donations
      /\ SqlContent.client = sql.client /\ SqlContent.beyond = sql.beyond
  BY DEF SqlContent
<1>2. /\ sql.donations \subseteq Job /\ sql.client \in Nat /\ sql.beyond \in BOOLEAN
      /\ old.donations \subseteq Job
  BY SqlFields DEF TypeOK
<1>3. \A j \in Job : SqlContent.job[j] \in StoredJob \cup {None}
  BY SqlJob
<1>4. SqlContent.job \in [Job -> StoredJob \cup {None}]
  <2>1. SqlContent.job = [j \in Job |-> SqlContent.job[j]]
    BY DEF SqlContent
  <2>2. QED BY <1>3, <2>1
<1>5. SqlContent = [job |-> SqlContent.job, donations |-> SqlContent.donations,
                    client |-> SqlContent.client, beyond |-> SqlContent.beyond]
  BY DEF SqlContent
<1>6. SqlContent \in StoreSnapshot
  <2>1. SqlContent.donations \in SUBSET Job /\ SqlContent.client \in Nat /\ SqlContent.beyond \in BOOLEAN
    BY <1>1, <1>2
  <2>2. QED BY <1>4, <1>5, <2>1 DEF StoreSnapshot
<1>7. Validates(SqlContent)
  <2>1. ASSUME NEW j \in SqlContent.donations PROVE j \in Job /\ SqlContent.job[j] # None
    <3>1. j \in Job
      BY <1>1, <1>2, <2>1
    <3>2. CASE j \in sql.donations
      BY <3>1, <3>2, SqlJob DEF SqlSound, JobsOf
    <3>3. CASE j \in old.donations
      <4>1. old.job[j] # None
        BY <3>3 DEF OldSound, JobsOf
      <4>2. QED BY <3>1, <4>1, SqlJob, OldTyped
    <3>4. QED BY <1>1, <2>1, <3>1, <3>2, <3>3
  <2>2. QED BY <2>1 DEF Validates, JobsOf
<1>8. QED BY <1>1, <1>6, <1>7

LEMMA DynJob ==
    ASSUME TypeOK, DynSound, NEW j \in Job
    PROVE  /\ DynContent.job[j] \in StoredJob \cup {None}
           /\ DynContent.job[j] # None <=> j \in dyn.index
           /\ dyn.item[j] # None => DynContent.job[j] = dyn.item[j]
           /\ dyn.numeric = NoJobs => DynContent.job[j] = dyn.item[j]
<1>1. DynContent.job[j] = IF dyn.item[j] # None THEN dyn.item[j] ELSE Converted(dyn.numeric[j])
  BY DEF DynContent, JobFromItem
<1>2. dyn.item[j] \in StoredJob \cup {None} /\ dyn.numeric[j] \in StoredJob \cup {None}
  BY DynFields DEF Jobs
<1>3. /\ Converted(dyn.numeric[j]) \in StoredJob \cup {None}
      /\ Converted(dyn.numeric[j]) = None <=> dyn.numeric[j] = None
  BY <1>2, ConvertedTyped
<1>4. j \in dyn.index <=> dyn.item[j] # None \/ dyn.numeric[j] # None
  BY DEF DynSound, JobsOf
<1>5. dyn.numeric = NoJobs => dyn.numeric[j] = None
  BY DEF NoJobs
<1>6. QED BY <1>1, <1>2, <1>3, <1>4, <1>5

LEMMA DynTyped ==
    ASSUME TypeOK, DynSound
    PROVE  /\ DynContent \in StoreSnapshot /\ Validates(DynContent)
           /\ DynContent.donations = dyn.donations
           /\ DynContent.client = dyn.client /\ DynContent.beyond = dyn.beyond
<1>1. /\ DynContent.donations = dyn.donations
      /\ DynContent.client = dyn.client /\ DynContent.beyond = dyn.beyond
  BY DEF DynContent
<1>2. /\ DynContent.donations \in SUBSET Job /\ DynContent.client \in Nat
      /\ DynContent.beyond \in BOOLEAN
  BY <1>1, DynFields
<1>3. DynContent.job \in [Job -> StoredJob \cup {None}]
  <2>1. \A j \in Job : DynContent.job[j] \in StoredJob \cup {None}
    BY DynJob
  <2>2. DynContent.job = [j \in Job |-> DynContent.job[j]]
    BY DEF DynContent
  <2>3. QED BY <2>1, <2>2
<1>4. DynContent = [job |-> DynContent.job, donations |-> DynContent.donations,
                    client |-> DynContent.client, beyond |-> DynContent.beyond]
  BY DEF DynContent
<1>5. DynContent \in StoreSnapshot
  BY <1>2, <1>3, <1>4 DEF StoreSnapshot
<1>6. Validates(DynContent)
  BY <1>1, DynJob, DynFields DEF Validates, JobsOf, DynSound
<1>7. QED BY <1>1, <1>5, <1>6

-----------------------------------------------------------------------------
(* Reading a store gives its content.                                        *)

LEMMA UuidIsContent ==
    ASSUME TypeOK, OldSound, SqlSound, Upgraded
    PROVE  OutboxMatches /\ SnapshotUuidSql = SqlContent
<1>1. \A j \in Job : sql.job[j] = None <=> sql.outbox[j] = "none"
  BY DEF SqlSound, Upgraded, OutboxCopied
<1>2. OutboxMatches
  BY <1>1 DEF OutboxMatches
<1>3. \A j \in Job : SqlContent.job[j] = IF sql.job[j] = None THEN None
                        ELSE [status |-> sql.job[j], sent |-> sql.outbox[j] = "sent"]
  <2>1. ASSUME NEW j \in Job
        PROVE  SqlContent.job[j] = IF sql.job[j] = None THEN None
                        ELSE [status |-> sql.job[j], sent |-> sql.outbox[j] = "sent"]
    <3>1. sql.outbox[j] = "none" => Converted(old.job[j]) = None
      BY OldTyped DEF Upgraded, OutboxCopied
    <3>2. QED BY <1>1, <3>1, SqlJob
  <2>2. QED BY <2>1
<1>4. sql.donations \cup old.donations = sql.donations
  BY DEF Upgraded, DonationsCopied
<1>5. SqlContent = [job |-> [j \in Job |-> IF sql.job[j] = None THEN None
                        ELSE [status |-> sql.job[j], sent |-> sql.outbox[j] = "sent"]],
                    donations |-> sql.donations, client |-> sql.client, beyond |-> sql.beyond]
  <2>1. [j \in Job |-> SqlContent.job[j]] =
            [j \in Job |-> IF sql.job[j] = None THEN None
                        ELSE [status |-> sql.job[j], sent |-> sql.outbox[j] = "sent"]]
    BY <1>3
  <2>2. SqlContent.job = [j \in Job |-> SqlContent.job[j]]
    BY DEF SqlContent
  <2>3. SqlContent = [job |-> SqlContent.job, donations |-> sql.donations,
                      client |-> sql.client, beyond |-> sql.beyond]
    BY <1>4 DEF SqlContent
  <2>4. QED BY <2>1, <2>2, <2>3
<1>6. QED BY <1>2, <1>5 DEF SnapshotUuidSql

(* A copy that stopped half way is missing a notification.                   *)
LEMMA WholeOrHalf ==
    ASSUME TypeOK, OldSound, SqlSound, ~HalfUpgraded, sql.ready
    PROVE  Upgraded
<1>1. OutboxCopied
  BY DEF HalfUpgraded, OutboxCopied, JobsOf
<1>2. CASE \E j \in Job : old.job[j] # None
  BY <1>1, <1>2 DEF SqlSound, OutboxCopied, Upgraded
<1>3. CASE \A j \in Job : old.job[j] = None
  BY <1>1, <1>3 DEF Upgraded, JobsCopied, DonationsCopied, OldSound, JobsOf
<1>4. QED BY <1>2, <1>3

LEMMA UpgradedIsWhole ==
    ASSUME Upgraded
    PROVE  ~HalfUpgraded
BY DEF Upgraded, OutboxCopied, HalfUpgraded, JobsOf

LEMMA SqlIsContent ==
    ASSUME TypeOK, OldSound, SqlSound, ~HalfUpgraded
    PROVE  SnapshotSql = SqlContent
<1>1. CASE sql.ready
  BY <1>1, WholeOrHalf, UuidIsContent DEF SnapshotSql
<1>2. CASE ~sql.ready
  <2>1. \A j \in Job : sql.job[j] = None /\ sql.outbox[j] = "none"
    BY <1>2 DEF SqlSound, NoJobs
  <2>2. sql.donations = {}
    BY <2>1, SqlFields DEF SqlSound, JobsOf
  <2>3. SqlContent = SnapshotLegacySql
    BY <2>1, <2>2 DEF SqlContent, SnapshotLegacySql
  <2>4. QED BY <1>2, <2>3 DEF SnapshotSql
<1>3. QED BY <1>1, <1>2

LEMMA DynIsContent ==
    ASSUME TypeOK, DynSound
    PROVE  SnapshotDyn = IF UnderBothKeys THEN None ELSE DynContent
<1>1. ReferencesResolve
  BY DEF ReferencesResolve, DynSound
<1>2. QED BY <1>1 DEF SnapshotDyn, DynContent

LEMMA ContentTyped ==
    ASSUME TypeOK, StoresSound, NEW s \in Store
    PROVE  /\ Content(s) \in StoreSnapshot /\ Content(s) # None /\ Validates(Content(s))
           /\ Content(s).beyond = IF s = "sqlx" THEN sql.beyond ELSE dyn.beyond
<1>1. OldSound /\ SqlSound /\ DynSound
  BY DEF StoresSound
<1>2. CASE s = "sqlx"
  BY <1>1, <1>2, SqlTyped, NoneApart DEF Content
<1>3. CASE s # "sqlx"
  BY <1>1, <1>3, DynTyped, NoneApart DEF Content
<1>4. QED BY <1>2, <1>3

LEMMA SnapshotIsContent ==
    ASSUME TypeOK, StoresSound, NEW s \in Store, s = "sqlx" => ~HalfUpgraded
    PROVE  Snapshot(s) = IF Content(s).beyond \/ (s = "dynamodb" /\ UnderBothKeys) THEN None
                         ELSE Content(s)
<1>1. OldSound /\ SqlSound /\ DynSound
  BY DEF StoresSound
<1>2. Content(s) \in StoreSnapshot /\ Content(s) # None /\ Validates(Content(s))
  BY ContentTyped
<1>3. CASE s = "sqlx"
  <2>1. SnapshotSql = Content(s) /\ SqlSchemaSupported = ~Content(s).beyond
    BY <1>1, <1>3, SqlIsContent, SqlTyped DEF Content, SqlSchemaSupported
  <2>2. QED BY <1>2, <1>3, <2>1 DEF Snapshot
<1>4. CASE s = "dynamodb"
  <2>1. /\ SnapshotDyn = IF UnderBothKeys THEN None ELSE Content(s)
        /\ ItemsSupported = ~Content(s).beyond
    BY <1>1, <1>4, DynIsContent, DynTyped DEF Content, ItemsSupported
  <2>2. QED BY <1>2, <1>4, <2>1 DEF Snapshot
<1>5. QED BY <1>3, <1>4 DEF Store

(* The UUID tables of a half upgraded store, if they can be read, hold part  *)
(* of its content.                                                           *)
LEMMA HalfIsPart ==
    ASSUME TypeOK, OldSound, SqlSound, OutboxMatches
    PROVE  SnapshotUuidSql \in StoreSnapshot /\ EnsureSubset(SnapshotUuidSql, SqlContent)
<1> DEFINE u == SnapshotUuidSql
           row(j) == IF sql.job[j] = None THEN None
                     ELSE [status |-> sql.job[j], sent |-> sql.outbox[j] = "sent"]
<1>1. u = [job |-> [j \in Job |-> row(j)], donations |-> sql.donations,
           client |-> sql.client, beyond |-> sql.beyond]
  BY DEF SnapshotUuidSql
<1>2. \A j \in Job : row(j) \in StoredJob \cup {None}
  <2>1. ASSUME NEW j \in Job, sql.job[j] # None
        PROVE  [status |-> sql.job[j], sent |-> sql.outbox[j] = "sent"] \in StoredJob
    <3>1. sql.job[j] \in Status /\ (sql.outbox[j] = "sent") \in BOOLEAN
      BY <2>1, SqlFields
    <3>2. QED BY <3>1, PairTyped
  <2>2. QED BY <2>1
<1>3. \A j \in Job : row(j) # None => SqlContent.job[j] = row(j)
  <2>1. ASSUME NEW j \in Job, row(j) # None PROVE SqlContent.job[j] = row(j)
    <3>1. sql.job[j] # None /\ sql.outbox[j] # "none"
      BY <2>1 DEF OutboxMatches
    <3>2. QED BY <3>1, SqlJob
  <2>2. QED BY <2>1
<1>. HIDE DEF u, row
<1>4. [j \in Job |-> row(j)] \in [Job -> StoredJob \cup {None}]
  BY <1>2
<1>5. u \in StoreSnapshot
  BY <1>1, <1>4, SqlFields DEF StoreSnapshot
<1>6. /\ \A j \in Job : u.job[j] = row(j)
      /\ u.donations = sql.donations /\ u.client = sql.client
  BY <1>1
<1>7. EnsureSubset(u, SqlContent)
  BY <1>3, <1>6, SqlTyped DEF EnsureSubset, JobsOf
<1>8. QED BY <1>5, <1>7 DEF u

(* Whatever is read is part of what is there, and all of it unless the store *)
(* was half upgraded.                                                        *)
LEMMA ReadIsPart ==
    ASSUME TypeOK, StoresSound, NEW s \in Store, Snapshot(s) # None
    PROVE  /\ Snapshot(s) \in StoreSnapshot /\ Validates(Snapshot(s)) /\ ~Content(s).beyond
           /\ EnsureSubset(Snapshot(s), Content(s))
           /\ ~(s = "sqlx" /\ HalfUpgraded) => Snapshot(s) = Content(s)
<1>1. CASE s = "sqlx" /\ HalfUpgraded
  <2>1. sql.ready /\ OldSound /\ SqlSound
    BY <1>1 DEF HalfUpgraded, StoresSound
  <2>2. Snapshot(s) = SnapshotUuidSql /\ SqlSchemaSupported /\ Validates(Snapshot(s)) /\ OutboxMatches
    BY <1>1, <2>1 DEF Snapshot, SnapshotSql, SnapshotUuidSql
  <2>3. ~Content(s).beyond
    BY <1>1, <2>1, <2>2, SqlTyped DEF Content, SqlSchemaSupported
  <2>4. QED BY <1>1, <2>1, <2>2, <2>3, HalfIsPart DEF Content
<1>2. CASE ~(s = "sqlx" /\ HalfUpgraded)
  <2>1. Snapshot(s) = Content(s) /\ ~Content(s).beyond
    BY <1>2, SnapshotIsContent
  <2>2. EnsureSubset(Content(s), Content(s))
    BY DEF EnsureSubset
  <2>3. QED BY <2>1, <2>2, ContentTyped
<1>3. QED BY <1>1, <1>2

LEMMA SubsetTransitive ==
    ASSUME NEW a, NEW b, NEW c, EnsureSubset(a, b), EnsureSubset(b, c)
    PROVE  EnsureSubset(a, c)
<1>1. \A j \in JobsOf(a.job) : j \in JobsOf(b.job) /\ a.job[j] = c.job[j]
  BY DEF EnsureSubset, JobsOf
<1>2. QED BY <1>1 DEF EnsureSubset

LEMMA Others ==
    ASSUME NEW s \in Store
    PROVE  /\ Other(s) \in Store /\ Other(s) # s
           /\ s = "sqlx" => Other(s) = "dynamodb"
           /\ s = "dynamodb" => Other(s) = "sqlx"
           /\ \A t \in Store : t = s \/ t = Other(s)
BY DEF Store, Other

-----------------------------------------------------------------------------
(* Steps that leave the content of both stores alone.                        *)

SameContent == SqlContent' = SqlContent /\ DynContent' = DynContent
KeepsLayout == (Upgraded => Upgraded') /\ (Readable => Readable')

LEMMA TruthStays ==
    ASSUME HoldsTruth, SameContent, UNCHANGED <<home, truth>>, cleared' \in {cleared, None},
           overlooked => overlooked'
    PROVE  HoldsTruth'
<1>1. \A s : Content(s)' = Content(s)
  BY DEF SameContent, Content
<1>2. Content(home)' = Content(home) /\ (cleared' = cleared => Content(cleared)' = Content(cleared))
  BY DEF SameContent, Content
<1>3. \A s \in Store : /\ JobsOf(Content(s).job)' \subseteq JobsOf(truth.job)'
                       /\ Content(s).donations' \subseteq truth.donations'
  BY <1>1 DEF HoldsTruth, JobsOf
<1>4. QED BY <1>2, <1>3 DEF HoldsTruth

LEMMA PartialStays ==
    ASSUME TypeOK, PartialSound, SameContent, KeepsLayout, partial' = partial
    PROVE  PartialSound'
<1>1. /\ Content(partial)' = Content(partial)
      /\ Content(Other(partial))' = Content(Other(partial))
  BY DEF SameContent, Content, Other
<1>2. partial # None => EnsureSubset(Content(partial), Content(Other(partial)))'
  BY <1>1 DEF PartialSound, EnsureSubset, JobsOf
<1>3. QED BY <1>2 DEF PartialSound, KeepsLayout

LEMMA CommandIdle ==
    ASSUME mig'.pc \in {"off", "connect"}
    PROVE  CommandSound'
BY DEF CommandSound

LEMMA SameStores ==
    ASSUME StoresSound, UNCHANGED <<old, sql, dyn>>
    PROVE  /\ OldSound' /\ SqlSound' /\ DynSound' /\ SameContent /\ KeepsLayout
           /\ Upgraded' = Upgraded /\ HalfUpgraded' = HalfUpgraded /\ Readable' = Readable
           /\ JobsCopied' = JobsCopied /\ DonationsCopied' = DonationsCopied
           /\ OutboxCopied' = OutboxCopied
<1>1. OldSound' /\ DynSound'
  BY DEF StoresSound, OldSound, DynSound, JobsOf
<1>2. SqlContent' = SqlContent /\ DynContent' = DynContent
  BY DEF SqlContent, DynContent, JobFromItem
<1>3. JobsCopied' = JobsCopied /\ DonationsCopied' = DonationsCopied /\ OutboxCopied' = OutboxCopied
  BY DEF JobsCopied, DonationsCopied, OutboxCopied
<1>4. SqlSound'
  BY <1>3 DEF StoresSound, SqlSound, JobsOf
<1>5. Upgraded' = Upgraded /\ Readable' = Readable
  BY <1>3 DEF Upgraded, Readable
<1>6. HalfUpgraded' = HalfUpgraded
  BY DEF HalfUpgraded
<1>7. QED BY <1>1, <1>2, <1>3, <1>4, <1>5, <1>6 DEF SameContent, KeepsLayout

-----------------------------------------------------------------------------
(* Steps of the upgrade, the command and the deployment that write nothing.  *)

Sound == TypeOK /\ MigrationInv

LEMMA Parts ==
    ASSUME Sound
    PROVE  /\ TypeOK /\ StoresSound /\ OldSound /\ SqlSound /\ UpgradeInOrder /\ DynSound
           /\ OneAtATime /\ HoldsTruth /\ CommandSound /\ PartialSound
BY DEF Sound, MigrationInv, StoresSound

LEMMA Made ==
    ASSUME TypeOK', OldSound', SqlSound', UpgradeInOrder', DynSound', OneAtATime', HoldsTruth',
           CommandSound', PartialSound'
    PROVE  Sound'
BY DEF Sound, MigrationInv, StoresSound

LEMMA OffTyped ==
    ASSUME NEW x \in Command
    PROVE  /\ Off \in Command /\ Off.pc = "off" /\ Off.todo = {}
           /\ \A pc \in {"off", "connect", "plan", "import", "verify"} :
                [x EXCEPT !.pc = pc] \in Command
BY DEF Off, Command

LEMMA NextLoopSound ==
    ASSUME Sound, NextLoop
    PROVE  Sound'
<1>1. /\ upgrade # "off" /\ upgrade' # "off" /\ UNCHANGED <<old, sql, dyn, home, serving, mig>>
      /\ UNCHANGED <<cleared, partial, attempts, served, overlooked, truth>>
      /\ upgrade \in {"jobs", "donations", "outbox"} /\ upgrade' \in {"donations", "outbox", "done"}
  BY DEF NextLoop
<1>2. /\ OldSound' /\ SqlSound' /\ DynSound' /\ SameContent /\ KeepsLayout /\ Upgraded' = Upgraded
      /\ HalfUpgraded' = HalfUpgraded /\ JobsCopied' = JobsCopied
      /\ DonationsCopied' = DonationsCopied /\ OutboxCopied' = OutboxCopied
  BY <1>1, SameStores, Parts
<1>3. TypeOK'
  BY <1>1, Parts DEF TypeOK
<1>4. UpgradeInOrder'
  <2>1. /\ upgrade = "jobs" => upgrade' = "donations" /\ JobsCopied
        /\ upgrade = "donations" => upgrade' = "outbox" /\ DonationsCopied
        /\ upgrade = "outbox" => upgrade' = "done" /\ OutboxCopied
    BY DEF NextLoop, JobsCopied, DonationsCopied, OutboxCopied, JobsOf
  <2>2. UpgradeInOrder /\ sql' = sql
    BY <1>1, Parts
  <2>3. QED BY <1>1, <1>2, <2>1, <2>2 DEF UpgradeInOrder
<1>5. OneAtATime'
  BY <1>1, <1>2, Parts DEF OneAtATime
<1>6. CommandSound'
  <2>1. mig.pc \in {"off", "connect"}
    BY <1>1, Parts DEF OneAtATime
  <2>2. QED BY <1>1, <2>1, CommandIdle
<1>7. HoldsTruth' /\ PartialSound'
  BY <1>1, <1>2, TruthStays, PartialStays, Parts
<1>8. QED BY <1>2, <1>3, <1>4, <1>5, <1>6, <1>7, Made

LEMMA ConnectedSound ==
    ASSUME Sound, Connected
    PROVE  Sound'
<1>1. /\ upgrade = "done" /\ upgrade' = "off" /\ UNCHANGED <<old, sql, dyn, home, cleared, partial>>
      /\ UNCHANGED <<attempts, served, overlooked, truth>>
      /\ IF mig.pc = "connect" THEN mig' = [mig EXCEPT !.pc = "plan"] /\ serving' = serving
                               ELSE serving' = "sqlx" /\ mig' = mig
  BY DEF Connected
<1>2. /\ OldSound' /\ SqlSound' /\ DynSound' /\ SameContent /\ KeepsLayout /\ Upgraded' = Upgraded
  BY <1>1, SameStores, Parts
<1>3. mig \in Command
  BY Parts DEF TypeOK
<1>4. TypeOK'
  <2>1. mig' \in Command /\ serving' \in Store \cup {None}
    BY <1>1, <1>3, OffTyped, Parts DEF TypeOK, Store
  <2>2. QED BY <1>1, <2>1, Parts DEF TypeOK
<1>5. Upgraded
  BY <1>1, Parts DEF UpgradeInOrder, Upgraded
<1>6. UpgradeInOrder'
  BY <1>1 DEF UpgradeInOrder
<1>7. CASE mig.pc = "connect"
  <2>1. mig'.pc = "plan" /\ mig'.to = "sqlx" /\ serving' = serving /\ serving = None
    BY <1>1, <1>3, <1>7, Parts DEF OneAtATime, Command
  <2>2. OneAtATime'
    BY <1>1, <2>1, Parts, NoneApart DEF OneAtATime, Store
  <2>3. CommandSound'
    BY <1>2, <1>5, <2>1 DEF CommandSound, Store
  <2>4. QED BY <1>1, <1>2, <1>4, <1>6, <2>2, <2>3, TruthStays, PartialStays, Parts, Made
<1>8. CASE mig.pc # "connect"
  <2>1. /\ home = "sqlx" /\ mig.pc = "off" /\ cleared = None /\ serving' = "sqlx" /\ mig' = mig
    BY <1>1, <1>8, Parts DEF OneAtATime
  <2>2. OneAtATime'
    BY <1>1, <1>2, <1>5, <2>1 DEF OneAtATime
  <2>3. CommandSound'
    BY <2>1, CommandIdle
  <2>4. QED BY <1>1, <1>2, <1>4, <1>6, <2>2, <2>3, TruthStays, PartialStays, Parts, Made
<1>9. QED BY <1>7, <1>8

LEMMA CrashSound ==
    ASSUME Sound, Crash
    PROVE  Sound'
<1>1. /\ mig' = Off /\ upgrade' = "off" /\ UNCHANGED <<old, sql, dyn, home, serving>>
      /\ UNCHANGED <<cleared, partial, attempts, served, overlooked, truth>>
  BY DEF Crash
<1>2. /\ OldSound' /\ SqlSound' /\ DynSound' /\ SameContent /\ KeepsLayout /\ Upgraded' = Upgraded
  BY <1>1, SameStores, Parts
<1>3. mig' \in Command /\ mig'.pc = "off"
  BY <1>1, OffTyped, Parts DEF TypeOK
<1>4. TypeOK' /\ UpgradeInOrder' /\ CommandSound'
  BY <1>1, <1>3, CommandIdle, Parts DEF TypeOK, UpgradeInOrder
<1>5. OneAtATime'
  BY <1>1, <1>2, <1>3, Parts DEF OneAtATime
<1>6. QED BY <1>1, <1>2, <1>4, <1>5, TruthStays, PartialStays, Parts, Made

LEMMA StopSound ==
    ASSUME Sound, StopServer
    PROVE  Sound'
<1>1. /\ serving # None /\ serving' = None /\ upgrade' = "off"
      /\ UNCHANGED <<old, sql, dyn, home, mig, cleared, partial, attempts, served, overlooked, truth>>
  BY DEF StopServer
<1>2. /\ OldSound' /\ SqlSound' /\ DynSound' /\ SameContent /\ KeepsLayout /\ Upgraded' = Upgraded
  BY <1>1, SameStores, Parts
<1>3. mig'.pc = "off"
  BY <1>1, Parts DEF OneAtATime
<1>4. TypeOK' /\ UpgradeInOrder' /\ CommandSound'
  BY <1>1, <1>3, CommandIdle, Parts DEF TypeOK, UpgradeInOrder
<1>5. OneAtATime'
  BY <1>1, <1>3, NoneApart DEF OneAtATime, Store
<1>6. QED BY <1>1, <1>2, <1>4, <1>5, TruthStays, PartialStays, Parts, Made

LEMMA CutoverSound ==
    ASSUME Sound, Cutover
    PROVE  Sound'
<1>1. /\ cleared # None /\ serving = None /\ mig.pc = "off" /\ upgrade = "off"
      /\ home' = cleared /\ cleared' = None
      /\ UNCHANGED <<old, sql, dyn, serving, upgrade, mig, partial, attempts, served, overlooked, truth>>
  BY DEF Cutover
<1>2. /\ OldSound' /\ SqlSound' /\ DynSound' /\ SameContent /\ KeepsLayout /\ Upgraded' = Upgraded
  BY <1>1, SameStores, Parts
<1>3. TypeOK' /\ UpgradeInOrder' /\ CommandSound'
  BY <1>1, CommandIdle, Parts DEF TypeOK, UpgradeInOrder
<1>4. OneAtATime'
  BY <1>1, NoneApart DEF OneAtATime, Store
<1>5. HoldsTruth'
  <2>1. \A s : Content(s)' = Content(s)
    BY <1>2 DEF SameContent, Content
  <2>2. Content(home)' = Content(cleared)
    BY <1>1, <1>2 DEF SameContent, Content
  <2>3. \A s \in Store : /\ JobsOf(Content(s).job)' \subseteq JobsOf(truth.job)'
                         /\ Content(s).donations' \subseteq truth.donations'
    BY <1>1, <2>1, Parts DEF HoldsTruth, JobsOf
  <2>4. QED BY <1>1, <2>2, <2>3, Parts DEF HoldsTruth
<1>6. QED BY <1>1, <1>2, <1>3, <1>4, <1>5, PartialStays, Parts, Made

LEMMA IdleSound ==
    ASSUME Sound, UNCHANGED vars
    PROVE  Sound'
<1>1. /\ UNCHANGED <<old, sql, dyn, home, serving, upgrade, mig, cleared, partial, attempts>>
      /\ UNCHANGED <<served, overlooked, truth>>
  BY DEF vars
<1>2. /\ OldSound' /\ SqlSound' /\ DynSound' /\ SameContent /\ KeepsLayout /\ Upgraded' = Upgraded
      /\ HalfUpgraded' = HalfUpgraded /\ Readable' = Readable /\ JobsCopied' = JobsCopied
      /\ DonationsCopied' = DonationsCopied /\ OutboxCopied' = OutboxCopied
  BY <1>1, SameStores, Parts
<1>3. TypeOK'
  BY <1>1, Parts DEF TypeOK
<1>4. UpgradeInOrder' /\ OneAtATime'
  BY <1>1, <1>2, Parts DEF UpgradeInOrder, OneAtATime
<1>5. Content(mig.to)' = Content(mig.to) /\ Content(Other(mig.to))' = Content(Other(mig.to))
  BY <1>1, <1>2 DEF SameContent, Content, Other
<1>6. CommandSound'
  BY <1>1, <1>2, <1>5, Parts DEF CommandSound, EnsureSubset, JobsOf, Validates
<1>7. QED BY <1>1, <1>2, <1>3, <1>4, <1>6, TruthStays, PartialStays, Parts, Made

LEMMA VerifySound ==
    ASSUME Sound, Verify
    PROVE  Sound'
<1>1. /\ mig.pc = "verify" /\ mig' = Off
      /\ cleared' = (IF Snapshot(mig.to) = mig.snapshot THEN mig.to ELSE cleared)
      /\ UNCHANGED <<old, sql, dyn, home, serving, upgrade, partial, attempts, served, overlooked, truth>>
  BY DEF Verify
<1>2. /\ OldSound' /\ SqlSound' /\ DynSound' /\ SameContent /\ KeepsLayout /\ Upgraded' = Upgraded
  BY <1>1, SameStores, Parts
<1>3. /\ mig.to \in Store /\ mig.snapshot \in StoreSnapshot
      /\ ~overlooked => mig.snapshot = Content(Other(mig.to))
      /\ mig.to = "sqlx" => ~HalfUpgraded
  BY <1>1, UpgradedIsWhole, Parts DEF CommandSound
<1>4. serving = None /\ upgrade = "off"
  BY <1>1, Parts DEF OneAtATime
<1>5. mig' \in Command /\ mig'.pc = "off"
  BY <1>1, OffTyped, Parts DEF TypeOK
<1>6. TypeOK' /\ UpgradeInOrder' /\ CommandSound'
  <2>1. cleared' \in Store \cup {None}
    BY <1>1, <1>3, Parts DEF TypeOK
  <2>2. QED BY <1>1, <1>4, <1>5, <2>1, CommandIdle, Parts DEF TypeOK, UpgradeInOrder
<1>7. OneAtATime'
  BY <1>1, <1>4, <1>5, NoneApart DEF OneAtATime, Store
<1>8. CASE Snapshot(mig.to) = mig.snapshot
  <2>1. mig.snapshot # None
    BY <1>3, NoneApart
  <2>2. ~overlooked => Content(mig.to) = Content(Other(mig.to))
    BY <1>3, <1>8, <2>1, SnapshotIsContent, Parts
  <2>4. home = mig.to \/ home = Other(mig.to)
    BY <1>3, Others, Parts DEF TypeOK
  <2>5. ~overlooked => Content(mig.to) = truth
    BY <2>2, <2>4, Parts DEF HoldsTruth
  <2>6. \A s : Content(s)' = Content(s)
    BY <1>2 DEF SameContent, Content
  <2>7. Content(home)' = Content(home) /\ Content(cleared)' = Content(mig.to)
    BY <1>1, <1>2, <1>8 DEF SameContent, Content
  <2>8. \A s \in Store : /\ JobsOf(Content(s).job)' \subseteq JobsOf(truth.job)'
                         /\ Content(s).donations' \subseteq truth.donations'
    BY <1>1, <2>6, Parts DEF HoldsTruth, JobsOf
  <2>9. HoldsTruth'
    BY <1>1, <2>5, <2>7, <2>8, Parts DEF HoldsTruth
  <2>10. QED BY <1>1, <1>2, <1>6, <1>7, <2>9, PartialStays, Parts, Made
<1>9. CASE Snapshot(mig.to) # mig.snapshot
  BY <1>1, <1>2, <1>6, <1>7, <1>9, TruthStays, PartialStays, Parts, Made
<1>10. QED BY <1>8, <1>9

LEMMA PlanSound ==
    ASSUME Sound, Plan
    PROVE  Sound'
<1> DEFINE source == Snapshot(Other(mig.to))
           target == Snapshot(mig.to)
           agreed == /\ source # None /\ target # None /\ ~mig.dry
                     /\ IF mig.resume THEN EnsureSubset(target, source) ELSE IsEmpty(target)
<1>1. /\ mig.pc = "plan"
      /\ mig' = IF agreed THEN [mig EXCEPT !.pc = "import", !.snapshot = source,
                                     !.todo = JobsOf(source.job)]
                ELSE Off
      /\ overlooked' = (overlooked \/ (agreed /\ mig.to = "dynamodb" /\ HalfUpgraded))
      /\ UNCHANGED <<old, sql, dyn, home, serving, upgrade, cleared, partial, attempts>>
      /\ UNCHANGED <<served, truth>>
  BY DEF Plan
<1>2. /\ OldSound' /\ SqlSound' /\ DynSound' /\ SameContent /\ KeepsLayout /\ Upgraded' = Upgraded
      /\ Readable' = Readable
  BY <1>1, SameStores, Parts
<1>3. /\ mig.to \in Store /\ (mig.to = "sqlx" => Upgraded /\ ~HalfUpgraded)
      /\ (overlooked => overlooked') /\ overlooked' \in BOOLEAN
  BY <1>1, UpgradedIsWhole, Parts DEF CommandSound, TypeOK
<1>4. serving = None /\ upgrade = "off"
  BY <1>1, Parts DEF OneAtATime
<1>5. mig \in Command
  BY Parts DEF TypeOK
<1>6. UpgradeInOrder'
  BY <1>1, <1>4 DEF UpgradeInOrder
<1>7. OneAtATime'
  <2>1. mig'.pc # "connect"
    BY <1>1, <1>5 DEF Off, Command
  <2>2. QED BY <1>1, <1>2, <1>4, <2>1, NoneApart DEF OneAtATime, Store
<1>8. CASE ~agreed
  <2>1. mig' \in Command /\ mig'.pc = "off"
    BY <1>1, <1>5, <1>8, OffTyped
  <2>2. TypeOK' /\ CommandSound'
    BY <1>1, <1>3, <2>1, CommandIdle, Parts DEF TypeOK
  <2>3. QED BY <1>1, <1>2, <1>3, <1>6, <1>7, <2>2, TruthStays, PartialStays, Parts, Made
<1>9. CASE agreed
  <2>1. Other(mig.to) \in Store
    BY <1>3, Others
  <2>2. source # None /\ target # None
    BY <1>9
  <2>3. /\ source \in StoreSnapshot /\ Validates(source) /\ ~Content(Other(mig.to)).beyond
        /\ EnsureSubset(source, Content(Other(mig.to)))
        /\ ~(Other(mig.to) = "sqlx" /\ HalfUpgraded) => source = Content(Other(mig.to))
    BY <2>1, <2>2, ReadIsPart, Parts
  <2>4. target = Content(mig.to) /\ ~Content(mig.to).beyond
    BY <1>3, <2>2, ReadIsPart, Parts
  <2>5. Readable
    BY <1>3, <2>1, <2>3, <2>4, ContentTyped, Others, Parts DEF Readable, Store
  <2>6. EnsureSubset(target, source)
    BY <1>9 DEF EnsureSubset, IsEmpty
  <2>7. ~overlooked' => source = Content(Other(mig.to))
    BY <1>1, <1>3, <1>9, <2>3, Others
  <2>8. JobsOf(source.job) \subseteq Job
    BY DEF JobsOf
  <2>9. mig' = [mig EXCEPT !.pc = "import", !.snapshot = source, !.todo = JobsOf(source.job)]
    BY <1>1, <1>9
  <2>. HIDE DEF source, target, agreed
  <2>10. /\ mig' \in Command /\ mig'.pc = "import" /\ mig'.to = mig.to
         /\ mig'.snapshot = source /\ mig'.todo = JobsOf(source.job)
    BY <1>5, <2>3, <2>8, <2>9 DEF Command
  <2>11. TypeOK'
    BY <1>1, <1>3, <2>10, Parts DEF TypeOK
  <2>12. Content(mig.to)' = Content(mig.to) /\ Content(Other(mig.to))' = Content(Other(mig.to))
    BY <1>2, <2>10 DEF SameContent, Content, Other
  <2>13. /\ EnsureSubset(Content(mig.to), mig.snapshot)'
         /\ EnsureSubset(mig.snapshot, Content(Other(mig.to)))'
    BY <2>3, <2>4, <2>6, <2>10, <2>12 DEF EnsureSubset, JobsOf
  <2>14. mig'.snapshot \in StoreSnapshot' /\ Validates(mig.snapshot)'
    BY <2>3, <2>10 DEF Validates, JobsOf, StoreSnapshot, StoredJob
  <2>15. /\ ~overlooked' => mig'.snapshot = Content(Other(mig.to))'
         /\ mig'.todo \subseteq JobsOf(mig'.snapshot.job) /\ Readable'
         /\ mig'.to = "sqlx" => Upgraded'
    BY <1>2, <1>3, <2>5, <2>7, <2>10, <2>12
  <2>16. CommandSound'
    BY <1>3, <2>10, <2>13, <2>14, <2>15 DEF CommandSound, JobsOf
  <2>17. QED BY <1>1, <1>2, <1>3, <1>6, <1>7, <2>11, <2>16, TruthStays, PartialStays, Parts, Made
<1>10. QED BY <1>8, <1>9

-----------------------------------------------------------------------------
(* Starting: the tables are created, and nothing else is written.            *)

LEMMA Created ==
    ASSUME Sound, CreateTables, UNCHANGED <<old, dyn>>
    PROVE  /\ OldSound' /\ SqlSound' /\ DynSound' /\ SameContent /\ KeepsLayout /\ UpgradeInOrder'
           /\ sql' \in SqlTables /\ upgrade' \in {"jobs", "done"}
<1>1. sql \in SqlTables
  BY SqlFields, Parts
<1>2. /\ sql' \in SqlTables /\ sql'.ready = TRUE /\ sql'.job = sql.job /\ sql'.outbox = sql.outbox
      /\ sql'.donations = sql.donations /\ sql'.client = sql.client /\ sql'.beyond = sql.beyond
  <2>1. sql' = [sql EXCEPT !.ready = TRUE]
    BY DEF CreateTables
  <2>2. QED BY <1>1, <2>1 DEF SqlTables
<1>3. /\ JobsCopied' = JobsCopied /\ DonationsCopied' = DonationsCopied
      /\ OutboxCopied' = OutboxCopied
  BY <1>2 DEF JobsCopied, DonationsCopied, OutboxCopied
<1>4. OldSound' /\ DynSound'
  BY Parts DEF OldSound, DynSound, JobsOf
<1>5. SqlSound'
  BY <1>2, <1>3, Parts DEF SqlSound, JobsOf
<1>6. SameContent
  BY <1>2 DEF SameContent, SqlContent, DynContent, JobFromItem
<1>7. KeepsLayout
  BY <1>2, <1>3 DEF KeepsLayout, Upgraded, Readable
<1>8. upgrade' = IF old.tables THEN "jobs" ELSE "done"
  BY DEF CreateTables
<1>9. ~old.tables => JobsCopied /\ DonationsCopied /\ OutboxCopied
  BY Parts DEF OldSound, NoJobs, JobsOf, JobsCopied, DonationsCopied, OutboxCopied
<1>10. UpgradeInOrder'
  BY <1>2, <1>3, <1>8, <1>9 DEF UpgradeInOrder
<1>11. QED BY <1>2, <1>4, <1>5, <1>6, <1>7, <1>8, <1>10

LEMMA StartMigrationSound ==
    ASSUME Sound, NEW to \in Store, NEW resume \in BOOLEAN, NEW dry \in BOOLEAN,
           StartMigration(to, resume, dry)
    PROVE  Sound'
<1>1. /\ mig.pc = "off" /\ serving = None /\ upgrade = "off"
      /\ mig' = [Off EXCEPT !.pc = IF to = "sqlx" THEN "connect" ELSE "plan",
                            !.to = to, !.resume = resume, !.dry = dry]
      /\ attempts' = attempts + 1
      /\ IF to = "sqlx" THEN CreateTables ELSE sql' = sql /\ upgrade' = upgrade
      /\ UNCHANGED <<old, dyn, home, serving, cleared, partial, served, overlooked, truth>>
  BY DEF StartMigration
<1>2. /\ mig' \in Command /\ mig'.pc = (IF to = "sqlx" THEN "connect" ELSE "plan")
      /\ mig'.to = to
  BY <1>1 DEF Off, Command
<1>3. attempts' \in Nat
  BY <1>1, Parts DEF TypeOK
<1>4. CASE to = "sqlx"
  <2>1. CreateTables
    BY <1>1, <1>4
  <2>2. /\ OldSound' /\ SqlSound' /\ DynSound' /\ SameContent /\ KeepsLayout /\ UpgradeInOrder'
        /\ sql' \in SqlTables /\ upgrade' \in {"jobs", "done"}
    BY <1>1, <2>1, Created
  <2>3. TypeOK'
    BY <1>1, <1>2, <1>3, <2>2, Parts DEF TypeOK
  <2>4. OneAtATime' /\ CommandSound'
    <3>1. mig'.pc = "connect" /\ mig'.to = "sqlx" /\ upgrade' # "off" /\ serving' = None
      BY <1>1, <1>2, <1>4, <2>2
    <3>2. QED BY <3>1, CommandIdle, NoneApart DEF OneAtATime, Store
  <2>5. QED BY <1>1, <2>2, <2>3, <2>4, TruthStays, PartialStays, Parts, Made
<1>5. CASE to # "sqlx"
  <2>1. to = "dynamodb" /\ sql' = sql /\ upgrade' = "off" /\ mig'.pc = "plan"
    BY <1>1, <1>2, <1>5 DEF Store
  <2>2. /\ OldSound' /\ SqlSound' /\ DynSound' /\ SameContent /\ KeepsLayout
    BY <1>1, <2>1, SameStores, Parts
  <2>3. TypeOK' /\ UpgradeInOrder'
    BY <1>1, <1>2, <1>3, <2>1, Parts DEF TypeOK, UpgradeInOrder
  <2>4. OneAtATime'
    BY <1>1, <2>1, NoneApart DEF OneAtATime, Store
  <2>5. CommandSound'
    BY <1>1, <1>2, <2>1, <2>2 DEF CommandSound
  <2>6. QED BY <1>1, <2>2, <2>3, <2>4, <2>5, TruthStays, PartialStays, Parts, Made
<1>6. QED BY <1>4, <1>5

LEMMA StartServerSound ==
    ASSUME Sound, StartServer
    PROVE  Sound'
<1>1. /\ serving = None /\ mig.pc = "off" /\ upgrade = "off" /\ cleared' = None
      /\ IF home = "sqlx" THEN CreateTables /\ serving' = serving
         ELSE /\ dyn.numeric = NoJobs /\ serving' = "dynamodb" /\ sql' = sql /\ upgrade' = upgrade
      /\ UNCHANGED <<old, dyn, home, mig, partial, attempts, served, overlooked, truth>>
  BY DEF StartServer
<1>2. CommandSound'
  BY <1>1, CommandIdle
<1>3. CASE home = "sqlx"
  <2>1. /\ OldSound' /\ SqlSound' /\ DynSound' /\ SameContent /\ KeepsLayout /\ UpgradeInOrder'
        /\ sql' \in SqlTables /\ upgrade' \in {"jobs", "done"}
    BY <1>1, <1>3, Created
  <2>2. TypeOK'
    BY <1>1, <1>3, <2>1, Parts DEF TypeOK
  <2>3. OneAtATime'
    BY <1>1, <1>3, NoneApart DEF OneAtATime, Store
  <2>4. QED BY <1>1, <1>2, <2>1, <2>2, <2>3, TruthStays, PartialStays, Parts, Made
<1>4. CASE home # "sqlx"
  <2>1. home = "dynamodb"
    BY <1>4, Parts DEF TypeOK, Store
  <2>2. serving' = "dynamodb" /\ sql' = sql /\ upgrade' = "off" /\ dyn.numeric = NoJobs
    BY <1>1, <1>4
  <2>3. /\ OldSound' /\ SqlSound' /\ DynSound' /\ SameContent /\ KeepsLayout
    BY <1>1, <2>2, SameStores, Parts
  <2>4. TypeOK' /\ UpgradeInOrder'
    BY <1>1, <2>2, Parts DEF TypeOK, UpgradeInOrder, Store
  <2>5. OneAtATime'
    BY <1>1, <2>1, <2>2 DEF OneAtATime
  <2>6. QED BY <1>1, <1>2, <2>3, <2>4, <2>5, TruthStays, PartialStays, Parts, Made
<1>5. QED BY <1>3, <1>4

LEMMA StartReplicaSound ==
    ASSUME Sound, StartReplica
    PROVE  Sound'
<1>1. /\ serving = "sqlx" /\ CreateTables
      /\ UNCHANGED <<old, dyn, home, serving, mig, cleared, partial, attempts, served, overlooked, truth>>
  BY DEF StartReplica
<1>2. home = "sqlx" /\ mig.pc = "off" /\ cleared = None /\ Upgraded
  BY <1>1, NoneApart, Parts DEF OneAtATime, Store
<1>3. /\ OldSound' /\ SqlSound' /\ DynSound' /\ SameContent /\ KeepsLayout /\ UpgradeInOrder'
      /\ sql' \in SqlTables /\ upgrade' \in {"jobs", "done"}
  BY <1>1, Created
<1>4. TypeOK' /\ CommandSound'
  BY <1>1, <1>2, <1>3, CommandIdle, Parts DEF TypeOK
<1>5. OneAtATime'
  BY <1>1, <1>2, <1>3 DEF OneAtATime, KeepsLayout
<1>6. QED BY <1>1, <1>3, <1>4, <1>5, TruthStays, PartialStays, Parts, Made

-----------------------------------------------------------------------------
(* The writes of the upgrade: the content of the store stays as it is.       *)

LEMMA UpgradeWrite ==
    ASSUME Sound, upgrade # "off", sql' \in SqlTables, SqlSound', SqlContent' = SqlContent,
           sql'.ready = sql.ready, sql'.beyond = sql.beyond, JobsCopied => JobsCopied',
           DonationsCopied => DonationsCopied', OutboxCopied => OutboxCopied',
           UNCHANGED <<old, dyn, home, serving, upgrade, mig, cleared, partial, attempts,
                       served, overlooked, truth>>
    PROVE  Sound'
<1>1. mig.pc \in {"off", "connect"}
  BY Parts DEF OneAtATime
<1>2. TypeOK' /\ CommandSound'
  BY <1>1, CommandIdle, Parts DEF TypeOK
<1>3. OldSound' /\ DynSound' /\ DynContent' = DynContent
  BY Parts DEF OldSound, DynSound, JobsOf, DynContent, JobFromItem
<1>4. SameContent /\ KeepsLayout
  BY <1>3 DEF SameContent, KeepsLayout, Upgraded, Readable
<1>5. UpgradeInOrder'
  BY Parts DEF UpgradeInOrder
<1>6. OneAtATime'
  BY <1>4, Parts DEF OneAtATime, KeepsLayout
<1>7. QED BY <1>2, <1>3, <1>4, <1>5, <1>6, TruthStays, PartialStays, Parts, Made

LEMMA UpgradeJobSound ==
    ASSUME Sound, NEW j \in Job, UpgradeJob(j)
    PROVE  Sound'
<1>1. /\ upgrade = "jobs" /\ old.job[j] # None /\ sql.job[j] = None
      /\ sql' = [sql EXCEPT !.job[j] = old.job[j].status]
      /\ UNCHANGED <<old, dyn, home, serving, upgrade, mig, cleared, partial, attempts,
                     served, overlooked, truth>>
  BY DEF UpgradeJob
<1>2. old.job[j].status \in Status /\ old.job[j].status # None
  <2>1. old.job[j] \in StoredJob
    BY <1>1, OldTyped, Parts
  <2>2. QED BY <2>1, NoneApart DEF StoredJob, Status
<1>3. /\ sql' \in SqlTables /\ sql'.ready = sql.ready /\ sql'.outbox = sql.outbox
      /\ sql'.donations = sql.donations /\ sql'.client = sql.client /\ sql'.beyond = sql.beyond
      /\ \A i \in Job : sql'.job[i] = IF i = j THEN old.job[j].status ELSE sql.job[i]
  <2>1. sql \in SqlTables
    BY SqlFields, Parts
  <2>2. QED BY <1>1, <1>2, <2>1 DEF SqlTables
<1>4. SqlContent' = SqlContent
  <2>1. sql.outbox[j] = "none"
    BY <1>1, Parts DEF SqlSound
  <2>2. \A i \in Job : sql.outbox[i] # "none" => sql'.job[i] = sql.job[i]
    BY <1>3, <2>1
  <2>3. QED BY <1>1, <1>3, <2>2 DEF SqlContent
<1>5. /\ JobsCopied => JobsCopied'
      /\ DonationsCopied => DonationsCopied'
      /\ OutboxCopied => OutboxCopied'
      /\ JobsOf(sql.job) \subseteq JobsOf(sql'.job)
  BY <1>1, <1>2, <1>3 DEF JobsCopied, DonationsCopied, OutboxCopied, JobsOf
<1>6. SqlSound'
  <2>1. \A i \in Job : sql'.outbox[i] # "none" => sql'.job[i] # None
    BY <1>2, <1>3, Parts DEF SqlSound
  <2>2. \A i \in Job : sql'.job[i] # None /\ sql'.outbox[i] = "none" =>
          old'.job[i] # None /\ sql'.job[i] = old'.job[i].status
    BY <1>1, <1>3, Parts DEF SqlSound
  <2>3. sql'.donations \subseteq JobsOf(sql'.job)
    BY <1>3, <1>5, Parts DEF SqlSound
  <2>4. (\E i \in Job : sql'.outbox[i] # "none") => JobsCopied' /\ DonationsCopied'
    BY <1>3, <1>5, Parts DEF SqlSound
  <2>5. sql'.ready
    BY <1>1, <1>3, Parts DEF UpgradeInOrder
  <2>6. QED BY <2>1, <2>2, <2>3, <2>4, <2>5 DEF SqlSound, JobsOf
<1>7. QED BY <1>1, <1>3, <1>4, <1>5, <1>6, UpgradeWrite

LEMMA UpgradeDonationSound ==
    ASSUME Sound, NEW j \in Job, UpgradeDonation(j)
    PROVE  Sound'
<1>1. /\ upgrade = "donations" /\ j \in old.donations
      /\ sql' = [sql EXCEPT !.donations = @ \cup {j}]
      /\ UNCHANGED <<old, dyn, home, serving, upgrade, mig, cleared, partial, attempts,
                     served, overlooked, truth>>
  BY DEF UpgradeDonation
<1>2. /\ sql' \in SqlTables /\ sql'.ready = sql.ready /\ sql'.outbox = sql.outbox
      /\ sql'.job = sql.job /\ sql'.client = sql.client /\ sql'.beyond = sql.beyond
      /\ sql'.donations = sql.donations \cup {j}
  <2>1. sql \in SqlTables
    BY SqlFields, Parts
  <2>2. QED BY <1>1, <2>1 DEF SqlTables
<1>3. SqlContent' = SqlContent
  <2>1. sql'.donations \cup old.donations = sql.donations \cup old.donations
    BY <1>1, <1>2
  <2>2. QED BY <1>1, <1>2, <2>1 DEF SqlContent
<1>4. /\ JobsCopied => JobsCopied'
      /\ DonationsCopied => DonationsCopied'
      /\ OutboxCopied => OutboxCopied'
  BY <1>1, <1>2 DEF JobsCopied, DonationsCopied, OutboxCopied
<1>5. sql.job[j] # None
  BY <1>1, Parts DEF UpgradeInOrder, JobsCopied, OldSound, JobsOf
<1>6. SqlSound'
  <2>1. sql'.donations \subseteq JobsOf(sql'.job)
    BY <1>2, <1>5, Parts DEF SqlSound, JobsOf
  <2>2. (\E i \in Job : sql'.outbox[i] # "none") => JobsCopied' /\ DonationsCopied'
    BY <1>2, <1>4, Parts DEF SqlSound
  <2>3. QED BY <1>1, <1>2, <2>1, <2>2, Parts DEF SqlSound, JobsOf
<1>7. QED BY <1>1, <1>2, <1>3, <1>4, <1>6, UpgradeWrite

LEMMA UpgradeOutboxSound ==
    ASSUME Sound, NEW j \in Job, UpgradeOutbox(j)
    PROVE  Sound'
<1> DEFINE state == IF Converted(old.job[j]).sent THEN "sent" ELSE "due"
<1>1. /\ upgrade = "outbox" /\ old.job[j] # None /\ sql.outbox[j] = "none"
      /\ sql' = [sql EXCEPT !.outbox[j] = state]
      /\ UNCHANGED <<old, dyn, home, serving, upgrade, mig, cleared, partial, attempts,
                     served, overlooked, truth>>
  BY DEF UpgradeOutbox
<1>2. /\ Converted(old.job[j]) \in StoredJob
      /\ Converted(old.job[j]).status = old.job[j].status
  <2>1. old.job[j] \in StoredJob \cup {None}
    BY OldTyped, Parts
  <2>2. QED BY <1>1, <2>1, ConvertedTyped
<1>3. JobsCopied /\ DonationsCopied /\ sql.ready
  BY <1>1, Parts DEF UpgradeInOrder
<1>4. sql.job[j] # None /\ sql.job[j] = old.job[j].status
  BY <1>1, <1>3, Parts DEF JobsCopied, SqlSound
<1>5. Converted(old.job[j]) = [status |-> sql.job[j], sent |-> state = "sent"]
  <2>1. Converted(old.job[j]).sent = (state = "sent")
    BY <1>2 DEF StoredJob
  <2>2. QED BY <1>2, <1>4, <2>1 DEF StoredJob
<1>6. state \in {"due", "sent"}
  OBVIOUS
<1>. HIDE DEF state
<1>7. /\ sql' \in SqlTables /\ sql'.ready = sql.ready /\ sql'.job = sql.job
      /\ sql'.donations = sql.donations /\ sql'.client = sql.client /\ sql'.beyond = sql.beyond
      /\ \A i \in Job : sql'.outbox[i] = IF i = j THEN state ELSE sql.outbox[i]
  <2>1. sql \in SqlTables
    BY SqlFields, Parts
  <2>2. QED BY <1>1, <1>6, <2>1 DEF SqlTables
<1>8. SqlContent' = SqlContent
  <2>1. \A i \in Job :
           (IF sql'.outbox[i] = "none" THEN Converted(old'.job[i])
            ELSE [status |-> sql'.job[i], sent |-> sql'.outbox[i] = "sent"]) =
           (IF sql.outbox[i] = "none" THEN Converted(old.job[i])
            ELSE [status |-> sql.job[i], sent |-> sql.outbox[i] = "sent"])
    <3>1. ASSUME NEW i \in Job
          PROVE  (IF sql'.outbox[i] = "none" THEN Converted(old'.job[i])
                  ELSE [status |-> sql'.job[i], sent |-> sql'.outbox[i] = "sent"]) =
                 (IF sql.outbox[i] = "none" THEN Converted(old.job[i])
                  ELSE [status |-> sql.job[i], sent |-> sql.outbox[i] = "sent"])
      <4>1. CASE i = j
        BY <1>1, <1>5, <1>6, <1>7, <4>1
      <4>2. CASE i # j
        BY <1>1, <1>7, <4>2
      <4>3. QED BY <4>1, <4>2
    <3>2. QED BY <3>1
  <2>2. QED BY <1>1, <1>7, <2>1 DEF SqlContent
<1>9. JobsCopied' /\ DonationsCopied' /\ (OutboxCopied => OutboxCopied')
  BY <1>1, <1>3, <1>6, <1>7 DEF JobsCopied, DonationsCopied, OutboxCopied
<1>10. SqlSound'
  <2>1. \A i \in Job : sql'.outbox[i] # "none" => sql'.job[i] # None
    BY <1>4, <1>7, Parts DEF SqlSound
  <2>2. \A i \in Job : sql'.job[i] # None /\ sql'.outbox[i] = "none" =>
          old'.job[i] # None /\ sql'.job[i] = old'.job[i].status
    BY <1>1, <1>6, <1>7, Parts DEF SqlSound
  <2>3. sql'.donations \subseteq JobsOf(sql'.job)
    BY <1>7, Parts DEF SqlSound
  <2>4. QED BY <1>3, <1>7, <1>9, <2>1, <2>2, <2>3 DEF SqlSound, JobsOf
<1>11. QED BY <1>1, <1>7, <1>8, <1>9, <1>10, UpgradeWrite

-----------------------------------------------------------------------------
(* The writes of an import: each takes a field of the destination from the   *)
(* source or leaves it, and so they change nothing where both agree.         *)

Advances(new, c, s) ==
    /\ \A j \in Job : new.job[j] = c.job[j] \/ new.job[j] = s.job[j]
    /\ c.donations \subseteq new.donations /\ new.donations \subseteq s.donations
    /\ new.client = c.client \/ new.client = s.client
    /\ new.beyond = c.beyond

LEMMA AdvancedSubset ==
    ASSUME NEW c, NEW s, NEW new, EnsureSubset(c, s), Advances(new, c, s)
    PROVE  EnsureSubset(new, s)
<1>1. ASSUME NEW j \in Job, new.job[j] # None PROVE new.job[j] = s.job[j]
  BY <1>1 DEF Advances, EnsureSubset, JobsOf
<1>2. new.donations \subseteq s.donations /\ (new.client # 0 => new.client = s.client)
  BY DEF Advances, EnsureSubset
<1>3. QED BY <1>1, <1>2 DEF EnsureSubset, JobsOf

(* A destination that holds the truth already holds all of its source.       *)
LEMMA NothingToAdd ==
    ASSUME NEW c \in StoreSnapshot, NEW s \in StoreSnapshot, NEW new \in StoreSnapshot,
           EnsureSubset(c, s), Advances(new, c, s), JobsOf(s.job) \subseteq JobsOf(c.job),
           s.donations \subseteq c.donations, c.client # 0
    PROVE  new = c
<1>1. \A j \in Job : s.job[j] = c.job[j]
  BY DEF EnsureSubset, JobsOf
<1>2. \A j \in Job : new.job[j] = c.job[j]
  BY <1>1 DEF Advances
<1>3. new.donations = c.donations /\ new.client = c.client /\ new.beyond = c.beyond
  BY DEF Advances, EnsureSubset
<1>4. QED BY <1>2, <1>3, SameSnapshot

(* The command ends, or goes on with the same source.                        *)
StopsOrGoesOn ==
    \/ mig'.pc = "off"
    \/ /\ mig'.pc \in {"import", "verify"} /\ mig'.to = mig.to
       /\ mig'.snapshot = mig.snapshot /\ mig'.todo \subseteq mig.todo

(* Contents are typed, now and after a step.                                 *)
LEMMA ContentsTyped ==
    StoresSound /\ TypeOK => SqlContent \in StoreSnapshot /\ DynContent \in StoreSnapshot
BY SqlTyped, DynTyped DEF StoresSound

LEMMA ContentsTypedNext ==
    (StoresSound /\ TypeOK)' => (SqlContent \in StoreSnapshot /\ DynContent \in StoreSnapshot)'
BY ContentsTyped, PTL

LEMMA ImportWrite ==
    ASSUME Sound, NEW to \in Store, mig.pc = "import", mig.to = to,
           TypeOK', OldSound', SqlSound', DynSound', Readable', KeepsLayout,
           Content(Other(to))' = Content(Other(to)),
           Advances(Content(to)', Content(to), mig.snapshot),
           StopsOrGoesOn,
           partial' = to, UNCHANGED <<home, serving, upgrade, cleared, overlooked, truth>>
    PROVE  Sound'
<1>1. /\ mig.snapshot \in StoreSnapshot /\ Validates(mig.snapshot)
      /\ EnsureSubset(Content(to), mig.snapshot)
      /\ EnsureSubset(mig.snapshot, Content(Other(to)))
      /\ ~overlooked => mig.snapshot = Content(Other(to))
      /\ mig.todo \subseteq JobsOf(mig.snapshot.job)
      /\ to = "sqlx" => Upgraded
  BY Parts DEF CommandSound
<1>2. serving = None /\ upgrade = "off"
  BY Parts DEF OneAtATime
<1>3. UpgradeInOrder'
  BY <1>2 DEF UpgradeInOrder
<1>4. OneAtATime'
  BY <1>2, NoneApart DEF OneAtATime, Store, StopsOrGoesOn
<1>5. to = "sqlx" => Upgraded'
  BY <1>1 DEF KeepsLayout
<1>6. EnsureSubset(Content(to)', mig.snapshot)
  BY <1>1, AdvancedSubset
<1>7. CommandSound'
  <2>1. CASE mig'.pc = "off"
    BY <2>1, CommandIdle
  <2>2. CASE mig'.pc # "off"
    <3>1. /\ mig'.to = to /\ mig'.snapshot = mig.snapshot
          /\ mig'.todo \subseteq JobsOf(mig'.snapshot.job)
      BY <1>1, <2>2 DEF StopsOrGoesOn
    <3>2. /\ mig'.snapshot \in StoreSnapshot /\ Validates(mig.snapshot)'
          /\ EnsureSubset(Content(to), mig.snapshot)'
          /\ EnsureSubset(mig.snapshot, Content(Other(to)))'
          /\ ~overlooked' => mig'.snapshot = Content(Other(to))'
      BY <1>1, <1>6, <3>1 DEF EnsureSubset, JobsOf, Validates
    <3>3. /\ Content(mig.to)' = Content(to)' /\ Content(Other(mig.to))' = Content(Other(to))'
      BY <3>1 DEF Content, Other
    <3>4. /\ EnsureSubset(Content(mig.to), mig.snapshot)'
          /\ EnsureSubset(mig.snapshot, Content(Other(mig.to)))'
          /\ ~overlooked' => mig'.snapshot = Content(Other(mig.to))'
      BY <3>2, <3>3 DEF EnsureSubset, JobsOf
    <3>5. QED BY <1>5, <3>1, <3>2, <3>4 DEF CommandSound, JobsOf
  <2>3. QED BY <2>1, <2>2
<1>8. PartialSound'
  <2>1. Content(partial)' = Content(to)' /\ Content(Other(partial))' = Content(Other(to))'
    BY DEF Content, Other
  <2>2. EnsureSubset(Content(to)', Content(Other(to))')
    BY <1>1, <1>6, SubsetTransitive
  <2>4. EnsureSubset(Content(partial), Content(Other(partial)))'
    BY <2>1, <2>2 DEF EnsureSubset, JobsOf
  <2>3. QED BY <1>5, <2>4 DEF PartialSound
<1>9. HoldsTruth'
  <2>1. StoresSound'
    BY <1>3 DEF StoresSound
  <2>2. /\ Content(to) \in StoreSnapshot /\ Content(Other(to)) \in StoreSnapshot
        /\ Content(to)' \in StoreSnapshot
    <3>1. Content(to)' \in StoreSnapshot
      BY <2>1, ContentsTypedNext DEF Content
    <3>2. QED BY <3>1, Others, ContentTyped, Parts
  <2>9. /\ JobsOf(mig.snapshot.job) \subseteq JobsOf(truth.job)
        /\ mig.snapshot.donations \subseteq truth.donations
    BY <1>1, Others, Parts DEF HoldsTruth, EnsureSubset, JobsOf
  <2>3. Content(to) = truth => Content(to)' = truth
    <3>1. ASSUME Content(to) = truth PROVE Content(to)' = truth
      <4>1. /\ JobsOf(mig.snapshot.job) \subseteq JobsOf(Content(to).job)
            /\ mig.snapshot.donations \subseteq Content(to).donations
            /\ Content(to).client # 0
        BY <2>9, <3>1, Parts DEF HoldsTruth
      <4>2. QED BY <1>1, <2>2, <3>1, <4>1, NothingToAdd
    <3>2. QED BY <3>1
  <2>4. \A s \in Store : Content(s) = truth => Content(s)' = truth
    BY <2>3, Others
  <2>5. ~overlooked => Content(home)' = truth /\ (cleared # None => Content(cleared)' = truth)
    <3>1. home \in Store /\ (cleared # None => cleared \in Store)
      BY Parts DEF TypeOK
    <3>2. ~overlooked => Content(home) = truth /\ (cleared # None => Content(cleared) = truth)
      BY Parts DEF HoldsTruth
    <3>3. \A s : Content(s)' = IF s = "sqlx" THEN SqlContent' ELSE DynContent'
      BY DEF Content
    <3>4. /\ Content(home)' = IF home = "sqlx" THEN SqlContent' ELSE DynContent'
          /\ Content(cleared)' = IF cleared = "sqlx" THEN SqlContent' ELSE DynContent'
      BY DEF Content
    <3>5. QED BY <2>4, <3>1, <3>2, <3>3, <3>4
  <2>6. /\ JobsOf(Content(to).job)' \subseteq JobsOf(truth.job)
        /\ Content(to).donations' \subseteq truth.donations
    <3>1. /\ JobsOf(Content(to).job) \subseteq JobsOf(truth.job)
          /\ Content(to).donations \subseteq truth.donations
      BY Parts DEF HoldsTruth
    <3>2. QED BY <2>9, <3>1 DEF Advances, JobsOf
  <2>7. \A s \in Store : /\ JobsOf(Content(s).job)' \subseteq JobsOf(truth.job)'
                         /\ Content(s).donations' \subseteq truth.donations'
    <3>1. /\ JobsOf(Content(Other(to)).job)' \subseteq JobsOf(truth.job)
          /\ Content(Other(to)).donations' \subseteq truth.donations
      BY Others, Parts DEF HoldsTruth, JobsOf
    <3>2. QED BY <2>6, <3>1, Others
  <2>8. QED BY <2>5, <2>7, Parts DEF HoldsTruth
<1>10. QED BY <1>3, <1>4, <1>7, <1>8, <1>9, Made

(* What a command that writes knows of its source and its destination.       *)
LEMMA Importing ==
    ASSUME Sound, mig.pc = "import"
    PROVE  /\ mig \in Command /\ mig.to \in Store
           /\ mig.snapshot \in StoreSnapshot /\ Validates(mig.snapshot)
           /\ EnsureSubset(Content(mig.to), mig.snapshot)
           /\ mig.todo \subseteq JobsOf(mig.snapshot.job) /\ Readable
           /\ mig.to = "sqlx" => Upgraded /\ Content(mig.to) = SqlContent
           /\ mig.to = "dynamodb" => Content(mig.to) = DynContent
<1>1. mig \in Command
  BY Parts DEF TypeOK
<1>2. /\ mig.to \in Store /\ mig.snapshot \in StoreSnapshot /\ Validates(mig.snapshot) /\ Readable
      /\ EnsureSubset(Content(mig.to), mig.snapshot) /\ mig.todo \subseteq JobsOf(mig.snapshot.job)
      /\ mig.to = "sqlx" => Upgraded
  BY Parts DEF CommandSound
<1>3. QED BY <1>1, <1>2 DEF Content

LEMMA ImportJobSound ==
    ASSUME Sound, NEW j \in Job, ImportJob(j)
    PROVE  Sound'
<1> DEFINE s == mig.snapshot
<1>1. /\ mig.pc = "import" /\ mig.to = "dynamodb" /\ j \in mig.todo /\ partial' = "dynamodb"
      /\ IF MayPut(j)
           THEN /\ dyn' = [WithItem(dyn, s, j) EXCEPT !.index = @ \cup {j}]
                /\ mig' = [mig EXCEPT !.todo = @ \ {j}]
           ELSE mig' = Off /\ dyn' = dyn
      /\ UNCHANGED <<old, sql, home, serving, upgrade, cleared, attempts, served, overlooked, truth>>
  BY DEF ImportJob
<1>2. /\ mig \in Command /\ s \in StoreSnapshot /\ EnsureSubset(DynContent, s)
      /\ mig.todo \subseteq JobsOf(s.job) /\ Readable
  BY <1>1, Importing
<1>3. s.job[j] \in StoredJob /\ s.job[j] # None
  BY <1>1, <1>2, SnapshotFields DEF JobsOf
<1>4. mig' \in Command /\ StopsOrGoesOn
  <2>1. CASE MayPut(j)
    BY <1>1, <1>2, <2>1 DEF Command, StopsOrGoesOn
  <2>2. CASE ~MayPut(j)
    BY <1>1, <1>2, <2>2, OffTyped DEF StopsOrGoesOn
  <2>3. QED BY <2>1, <2>2
<1>5. /\ dyn' \in DynTable /\ dyn'.numeric = dyn.numeric /\ dyn'.beyond = dyn.beyond
      /\ dyn'.client = dyn.client
      /\ \A i \in Job : dyn'.item[i] = dyn.item[i] \/ (i = j /\ dyn'.item[i] = s.job[j])
      /\ \A i \in Job : i # j => dyn'.item[i] = dyn.item[i]
      /\ \/ dyn' = dyn
         \/ /\ dyn'.item[j] = s.job[j] /\ dyn'.index = dyn.index \cup {j}
            /\ dyn'.donations = (dyn.donations \ {j}) \cup ({j} \cap s.donations)
  <2>1. dyn \in DynTable
    BY DynFields, Parts
  <2>2. CASE MayPut(j)
    <3>1. dyn' = [dyn EXCEPT !.item[j] = s.job[j], !.index = dyn.index \cup {j},
                     !.donations = (dyn.donations \ {j}) \cup ({j} \cap s.donations)]
      BY <1>1, <2>1, <2>2 DEF WithItem, DynTable
    <3>2. QED BY <1>3, <2>1, <3>1 DEF DynTable, Jobs
  <2>3. CASE ~MayPut(j)
    BY <1>1, <2>1, <2>3
  <2>4. QED BY <2>2, <2>3
<1>6. TypeOK'
  BY <1>1, <1>4, <1>5, Parts DEF TypeOK, Store
<1>7. OldSound' /\ SqlSound' /\ SqlContent' = SqlContent /\ Upgraded' = Upgraded
  <2>1. /\ JobsCopied' = JobsCopied /\ DonationsCopied' = DonationsCopied
        /\ OutboxCopied' = OutboxCopied
    BY <1>1 DEF JobsCopied, DonationsCopied, OutboxCopied
  <2>2. OldSound' /\ SqlSound'
    BY <1>1, <2>1, Parts DEF OldSound, SqlSound, JobsOf
  <2>3. QED BY <1>1, <2>1, <2>2 DEF SqlContent, Upgraded
<1>8. DynSound'
  <2>1. CASE dyn' = dyn
    BY <2>1, Parts DEF DynSound, JobsOf
  <2>2. CASE dyn' # dyn
    <3>1. /\ dyn'.item[j] = s.job[j] /\ dyn'.index = dyn.index \cup {j}
          /\ dyn'.donations = (dyn.donations \ {j}) \cup ({j} \cap s.donations)
      BY <1>5, <2>2
    <3>2. dyn.index = JobsOf(dyn.item) \cup JobsOf(dyn.numeric) /\ dyn.donations \subseteq dyn.index
      BY Parts DEF DynSound
    <3>3. JobsOf(dyn'.item) = JobsOf(dyn.item) \cup {j}
      BY <1>3, <1>5, <3>1 DEF JobsOf
    <3>4. dyn'.index = JobsOf(dyn'.item) \cup JobsOf(dyn'.numeric) /\ dyn'.donations \subseteq dyn'.index
      BY <1>5, <3>1, <3>2, <3>3
    <3>5. QED BY <3>4 DEF DynSound, JobsOf
  <2>3. QED BY <2>1, <2>2
<1>9. Readable' /\ KeepsLayout
  BY <1>1, <1>2, <1>5, <1>7 DEF Readable, KeepsLayout
<1>10. Advances(DynContent', DynContent, s)
  <2>1. \A i \in Job : DynContent.job[i] =
            IF dyn.item[i] # None THEN dyn.item[i] ELSE Converted(dyn.numeric[i])
    BY DEF DynContent, JobFromItem
  <2>2. \A i \in Job : DynContent'.job[i] =
            IF dyn'.item[i] # None THEN dyn'.item[i] ELSE Converted(dyn.numeric[i])
    BY <1>5 DEF DynContent, JobFromItem
  <2>3. \A i \in Job : DynContent'.job[i] = DynContent.job[i] \/ DynContent'.job[i] = s.job[i]
    BY <1>3, <1>5, <2>1, <2>2
  <2>4. DynContent.donations \subseteq s.donations
    BY <1>2 DEF EnsureSubset
  <2>5. /\ DynContent.donations = dyn.donations /\ DynContent'.donations = dyn'.donations
        /\ DynContent'.client = DynContent.client /\ DynContent'.beyond = DynContent.beyond
    BY <1>5 DEF DynContent
  <2>6. DynContent.donations \subseteq DynContent'.donations /\ DynContent'.donations \subseteq s.donations
    BY <1>5, <2>4, <2>5
  <2>7. QED BY <2>3, <2>5, <2>6 DEF Advances
<1>11. /\ Content("dynamodb") = DynContent /\ Content("dynamodb")' = DynContent'
       /\ Content(Other("dynamodb"))' = Content(Other("dynamodb"))
  BY <1>7 DEF Content, Other
<1>12. "dynamodb" \in Store
  BY DEF Store
<1>13. QED BY <1>1, <1>4, <1>6, <1>7, <1>8, <1>9, <1>10, <1>11, <1>12, ImportWrite

LEMMA ImportClientsSound ==
    ASSUME Sound, ImportClients
    PROVE  Sound'
<1> DEFINE s == mig.snapshot
<1>1. /\ mig.pc = "import" /\ mig.to = "dynamodb" /\ partial' = "dynamodb"
      /\ IF mig.resume \/ dyn.client = 0 \/ s.client = 0
           THEN /\ dyn' = [dyn EXCEPT !.client = IF s.client = 0 THEN dyn.client ELSE s.client]
                /\ mig' = [mig EXCEPT !.pc = "verify"]
           ELSE mig' = Off /\ dyn' = dyn
      /\ UNCHANGED <<old, sql, home, serving, upgrade, cleared, attempts, served, overlooked, truth>>
  <2>1. dyn \in DynTable
    BY DynFields, Parts
  <2>2. QED BY <2>1 DEF ImportClients, DynTable
<1>2. /\ mig \in Command /\ s \in StoreSnapshot /\ EnsureSubset(DynContent, s)
      /\ Readable
  BY <1>1, Importing
<1>3. mig' \in Command /\ StopsOrGoesOn
  <2>1. CASE mig' = Off
    BY <1>2, <2>1, OffTyped DEF StopsOrGoesOn
  <2>2. CASE mig' = [mig EXCEPT !.pc = "verify"]
    BY <1>2, <2>2 DEF Command, StopsOrGoesOn
  <2>3. QED BY <1>1, <2>1, <2>2
<1>4. /\ dyn' \in DynTable /\ dyn'.numeric = dyn.numeric /\ dyn'.beyond = dyn.beyond
      /\ dyn'.item = dyn.item /\ dyn'.index = dyn.index /\ dyn'.donations = dyn.donations
      /\ dyn'.client = dyn.client \/ dyn'.client = s.client
  <2>1. dyn \in DynTable /\ s.client \in Nat
    BY <1>2, DynFields, SnapshotFields, Parts
  <2>2. CASE dyn' = dyn
    BY <2>1, <2>2
  <2>3. CASE dyn' # dyn
    <3>1. dyn' = [dyn EXCEPT !.client = IF s.client = 0 THEN dyn.client ELSE s.client]
      BY <1>1, <2>3
    <3>2. QED BY <2>1, <3>1 DEF DynTable
  <2>4. QED BY <2>2, <2>3
<1>5. TypeOK'
  BY <1>1, <1>3, <1>4, Parts DEF TypeOK, Store
<1>6. OldSound' /\ SqlSound' /\ SqlContent' = SqlContent /\ Upgraded' = Upgraded
  <2>1. /\ JobsCopied' = JobsCopied /\ DonationsCopied' = DonationsCopied
        /\ OutboxCopied' = OutboxCopied
    BY <1>1 DEF JobsCopied, DonationsCopied, OutboxCopied
  <2>2. OldSound' /\ SqlSound'
    BY <1>1, <2>1, Parts DEF OldSound, SqlSound, JobsOf
  <2>3. QED BY <1>1, <2>1, <2>2 DEF SqlContent, Upgraded
<1>7. DynSound'
  BY <1>4, Parts DEF DynSound, JobsOf
<1>8. Readable' /\ KeepsLayout
  BY <1>1, <1>2, <1>4, <1>6 DEF Readable, KeepsLayout
<1>9. Advances(DynContent', DynContent, s)
  <2>1. DynContent'.job = DynContent.job
    BY <1>4 DEF DynContent, JobFromItem
  <2>2. DynContent.donations \subseteq s.donations
    BY <1>2 DEF EnsureSubset
  <2>3. /\ DynContent'.donations = DynContent.donations /\ DynContent'.beyond = DynContent.beyond
        /\ DynContent.client = dyn.client /\ DynContent'.client = dyn'.client
    BY <1>4 DEF DynContent
  <2>4. QED BY <1>4, <2>1, <2>2, <2>3 DEF Advances
<1>10. /\ Content("dynamodb") = DynContent /\ Content("dynamodb")' = DynContent'
       /\ Content(Other("dynamodb"))' = Content(Other("dynamodb"))
  BY <1>6 DEF Content, Other
<1>11. "dynamodb" \in Store
  BY DEF Store
<1>12. QED BY <1>1, <1>3, <1>5, <1>6, <1>7, <1>8, <1>9, <1>10, <1>11, ImportWrite

(* ImportSql, field by field.                                                *)
LEMMA ImportSqlEffect ==
    ASSUME Sound, ImportSql
    PROVE  /\ mig.pc = "import" /\ mig.to = "sqlx" /\ partial' = "sqlx"
           /\ mig' = [mig EXCEPT !.pc = "verify", !.todo = {}]
           /\ UNCHANGED <<old, dyn, home, serving, upgrade, cleared, attempts, served, overlooked, truth>>
           /\ sql' \in SqlTables /\ sql'.ready = sql.ready /\ sql'.beyond = sql.beyond
           /\ sql'.donations = sql.donations \cup mig.snapshot.donations
           /\ sql'.client = sql.client \/ sql'.client = mig.snapshot.client
           /\ \A j \in Job : mig.snapshot.job[j] = None =>
                sql'.job[j] = sql.job[j] /\ sql'.outbox[j] = sql.outbox[j]
           /\ \A j \in Job : mig.snapshot.job[j] # None =>
                /\ sql'.job[j] = mig.snapshot.job[j].status /\ sql'.job[j] # None
                /\ sql'.outbox[j] = IF mig.snapshot.job[j].sent THEN "sent" ELSE "due"
<1> DEFINE s == mig.snapshot
           job == [j \in Job |-> IF s.job[j] = None THEN sql.job[j] ELSE s.job[j].status]
           outbox == [j \in Job |-> IF s.job[j] = None THEN sql.outbox[j]
                        ELSE IF s.job[j].sent THEN "sent" ELSE "due"]
           client == IF s.client = 0 THEN sql.client ELSE s.client
<1>1. /\ mig.pc = "import" /\ mig.to = "sqlx" /\ partial' = "sqlx"
      /\ mig' = [mig EXCEPT !.pc = "verify", !.todo = {}]
      /\ UNCHANGED <<old, dyn, home, serving, upgrade, cleared, attempts, served, overlooked, truth>>
  BY DEF ImportSql
<1>2. sql \in SqlTables /\ s \in StoreSnapshot
  BY <1>1, SqlFields, Importing, Parts
<1>3. sql' = [sql EXCEPT !.job = job, !.outbox = outbox,
                !.donations = sql.donations \cup s.donations, !.client = client]
  BY <1>2 DEF ImportSql, SqlTables
<1>4. \A j \in Job : s.job[j] # None => s.job[j].status \in Status /\ s.job[j].status # None
  <2>1. ASSUME NEW j \in Job, s.job[j] # None
        PROVE  s.job[j].status \in Status /\ s.job[j].status # None
    <3>1. s.job[j] \in StoredJob
      BY <1>2, <2>1, SnapshotFields
    <3>2. QED BY <3>1, NoneApart DEF StoredJob, Status
  <2>2. QED BY <2>1
<1>5. /\ sql.job \in [Job -> Status \cup {None}] /\ sql.outbox \in [Job -> {"none", "due", "sent"}]
      /\ sql.donations \subseteq Job /\ s.donations \subseteq Job
      /\ sql.client \in Nat /\ s.client \in Nat
  BY <1>2, SqlFields, SnapshotFields, Parts
<1>6. /\ job \in [Job -> Status \cup {None}] /\ outbox \in [Job -> {"none", "due", "sent"}]
      /\ sql.donations \cup s.donations \in SUBSET Job /\ client \in Nat
  BY <1>4, <1>5
<1>7. /\ \A j \in Job : s.job[j] = None => job[j] = sql.job[j] /\ outbox[j] = sql.outbox[j]
      /\ \A j \in Job : s.job[j] # None =>
           /\ job[j] = s.job[j].status /\ job[j] # None
           /\ outbox[j] = IF s.job[j].sent THEN "sent" ELSE "due"
  BY <1>4
<1>8. client = sql.client \/ client = s.client
  OBVIOUS
<1>. HIDE DEF job, outbox, client
<1>9. /\ sql' \in SqlTables /\ sql'.ready = sql.ready /\ sql'.beyond = sql.beyond
      /\ sql'.donations = sql.donations \cup s.donations /\ sql'.client = client
      /\ sql'.job = job /\ sql'.outbox = outbox
  BY <1>2, <1>3, <1>6 DEF SqlTables
<1>10. QED BY <1>1, <1>7, <1>8, <1>9

LEMMA ImportSqlSound ==
    ASSUME Sound, ImportSql
    PROVE  Sound'
<1> DEFINE s == mig.snapshot
<1>1. /\ mig.pc = "import" /\ mig.to = "sqlx" /\ partial' = "sqlx"
      /\ mig' = [mig EXCEPT !.pc = "verify", !.todo = {}]
      /\ UNCHANGED <<old, dyn, home, serving, upgrade, cleared, attempts, served, overlooked, truth>>
  BY ImportSqlEffect
<1>2. /\ mig \in Command /\ s \in StoreSnapshot /\ Validates(s) /\ EnsureSubset(SqlContent, s)
      /\ Readable /\ Upgraded
  BY <1>1, Importing
<1>3. /\ sql' \in SqlTables /\ sql'.ready = sql.ready /\ sql'.beyond = sql.beyond
      /\ sql'.donations = sql.donations \cup s.donations
      /\ sql'.client = sql.client \/ sql'.client = s.client
  BY ImportSqlEffect
<1>4. \A j \in Job : s.job[j] = None =>
        sql'.job[j] = sql.job[j] /\ sql'.outbox[j] = sql.outbox[j]
  BY ImportSqlEffect
<1>5. \A j \in Job : s.job[j] # None =>
        /\ sql'.job[j] = s.job[j].status /\ sql'.job[j] # None
        /\ sql'.outbox[j] = IF s.job[j].sent THEN "sent" ELSE "due"
  BY ImportSqlEffect
<1>6. mig' \in Command /\ StopsOrGoesOn
  BY <1>1, <1>2 DEF Command, StopsOrGoesOn
<1>7. TypeOK'
  BY <1>1, <1>3, <1>6, Parts DEF TypeOK, Store
<1>8. OldSound' /\ DynSound' /\ DynContent' = DynContent
  BY <1>1, Parts DEF OldSound, DynSound, JobsOf, DynContent, JobFromItem
<1>9. JobsCopied' /\ DonationsCopied' /\ OutboxCopied' /\ Upgraded'
  <2>1. JobsCopied'
    BY <1>1, <1>2, <1>4, <1>5 DEF Upgraded, JobsCopied
  <2>2. DonationsCopied'
    BY <1>1, <1>2, <1>3 DEF Upgraded, DonationsCopied
  <2>3. OutboxCopied'
    BY <1>1, <1>2, <1>4, <1>5 DEF Upgraded, OutboxCopied
  <2>4. QED BY <1>2, <1>3, <2>1, <2>2, <2>3 DEF Upgraded
<1>10. SqlSound'
  <2>1. \A j \in Job : sql'.outbox[j] # "none" => sql'.job[j] # None
    BY <1>4, <1>5, Parts DEF SqlSound
  <2>2. \A j \in Job : sql'.job[j] # None /\ sql'.outbox[j] = "none" =>
          old'.job[j] # None /\ sql'.job[j] = old'.job[j].status
    BY <1>1, <1>4, <1>5, Parts DEF SqlSound
  <2>3. sql'.donations \subseteq JobsOf(sql'.job)
    BY <1>2, <1>3, <1>4, <1>5, Parts DEF SqlSound, JobsOf, Validates
  <2>4. sql'.ready
    BY <1>2, <1>3 DEF Upgraded
  <2>5. QED BY <1>9, <2>1, <2>2, <2>3, <2>4 DEF SqlSound, JobsOf
<1>11. Readable' /\ KeepsLayout
  BY <1>1, <1>2, <1>3, <1>9 DEF Readable, KeepsLayout
<1>12. Advances(SqlContent', SqlContent, s)
  <2>1. \A j \in Job : SqlContent'.job[j] = SqlContent.job[j] \/ SqlContent'.job[j] = s.job[j]
    <3>1. ASSUME NEW j \in Job
          PROVE  SqlContent'.job[j] = SqlContent.job[j] \/ SqlContent'.job[j] = s.job[j]
      <4>1. /\ SqlContent.job[j] =
                 (IF sql.outbox[j] = "none" THEN Converted(old.job[j])
                  ELSE [status |-> sql.job[j], sent |-> sql.outbox[j] = "sent"])
            /\ SqlContent'.job[j] =
                 (IF sql'.outbox[j] = "none" THEN Converted(old.job[j])
                  ELSE [status |-> sql'.job[j], sent |-> sql'.outbox[j] = "sent"])
        BY <1>1 DEF SqlContent
      <4>2. CASE s.job[j] = None
        BY <1>4, <4>1, <4>2
      <4>3. CASE s.job[j] # None
        <5>1. s.job[j] \in StoredJob
          BY <1>2, <4>3, SnapshotFields
        <5>2. /\ sql'.job[j] = s.job[j].status
              /\ sql'.outbox[j] = IF s.job[j].sent THEN "sent" ELSE "due"
          BY <1>5, <4>3
        <5>3. (sql'.outbox[j] = "sent") = s.job[j].sent /\ sql'.outbox[j] # "none"
          BY <5>1, <5>2 DEF StoredJob
        <5>4. [status |-> s.job[j].status, sent |-> s.job[j].sent] = s.job[j]
          BY <5>1 DEF StoredJob
        <5>5. QED BY <4>1, <5>2, <5>3, <5>4
      <4>4. QED BY <4>2, <4>3
    <3>2. QED BY <3>1
  <2>2. SqlContent.donations \subseteq s.donations
    BY <1>2 DEF EnsureSubset
  <2>3. /\ SqlContent.donations = sql.donations \cup old.donations
        /\ SqlContent'.donations = sql'.donations \cup old.donations
        /\ SqlContent.client = sql.client /\ SqlContent'.client = sql'.client
        /\ SqlContent'.beyond = SqlContent.beyond
    BY <1>1, <1>3 DEF SqlContent
  <2>4. /\ SqlContent.donations \subseteq SqlContent'.donations
        /\ SqlContent'.donations \subseteq s.donations
    BY <1>3, <2>2, <2>3
  <2>5. SqlContent'.client = SqlContent.client \/ SqlContent'.client = s.client
    BY <1>3, <2>3
  <2>6. QED BY <2>1, <2>3, <2>4, <2>5 DEF Advances
<1>13. /\ Content("sqlx") = SqlContent /\ Content("sqlx")' = SqlContent'
       /\ Content(Other("sqlx"))' = Content(Other("sqlx"))
  BY <1>8 DEF Content, Other
<1>14. "sqlx" \in Store
  BY DEF Store
<1>15. QED
  BY <1>1, <1>6, <1>7, <1>8, <1>10, <1>11, <1>12, <1>13, <1>14, ImportWrite

-----------------------------------------------------------------------------
(* The operations of the service.                                            *)

LEMMA AppliedTyped ==
    ASSUME NEW c \in StoreSnapshot, NEW op \in Operation, NEW j \in Job,
           op # "submit" => c.job[j] # None
    PROVE  /\ Applied(op, j, c) \in StoreSnapshot
           /\ JobsOf(Applied(op, j, c).job) = JobsOf(c.job) \cup {j}
           /\ Applied(op, j, c).donations = c.donations \cup (IF op = "donate" THEN {j} ELSE {})
           /\ Applied(op, j, c).beyond = c.beyond
           /\ c.client # 0 => Applied(op, j, c).client # 0
<1> DEFINE a == Applied(op, j, c)
<1>1. /\ c.job \in [Job -> StoredJob \cup {None}] /\ c.donations \subseteq Job
      /\ c.client \in Nat /\ c.beyond \in BOOLEAN
  BY SnapshotFields
<1>2. CASE op = "submit"
  <2>1. a = [c EXCEPT !.job[j] = [status |-> "queued", sent |-> FALSE]]
    BY <1>2 DEF Applied
  <2>2. [status |-> "queued", sent |-> FALSE] \in StoredJob /\ [status |-> "queued", sent |-> FALSE] # None
    BY PairTyped DEF Status
  <2>. HIDE DEF a
  <2>3. a \in StoreSnapshot
    BY <1>1, <2>1, <2>2 DEF StoreSnapshot
  <2>4. /\ a.donations = c.donations /\ a.client = c.client /\ a.beyond = c.beyond
        /\ \A i \in Job : a.job[i] = IF i = j THEN [status |-> "queued", sent |-> FALSE] ELSE c.job[i]
    BY <1>1, <2>1 DEF StoreSnapshot
  <2>5. JobsOf(a.job) = JobsOf(c.job) \cup {j}
    BY <2>2, <2>4 DEF JobsOf
  <2>d. a.donations = c.donations \cup (IF op = "donate" THEN {j} ELSE {})
    BY <1>2, <2>4
  <2>6. QED BY <2>3, <2>4, <2>5, <2>d DEF a
<1>3. CASE op = "notify"
  <2>1. a = [c EXCEPT !.job[j].sent = TRUE] /\ c.job[j] # None
    BY <1>3 DEF Applied
  <2>2. c.job[j] \in StoredJob
    BY <1>1, <2>1
  <2>3. [c.job[j] EXCEPT !.sent = TRUE] \in StoredJob /\ [c.job[j] EXCEPT !.sent = TRUE] # None
    <3>1. [c.job[j] EXCEPT !.sent = TRUE] \in StoredJob
      BY <2>2 DEF StoredJob
    <3>2. QED BY <3>1, NoneApart
  <2>. HIDE DEF a
  <2>4. a = [c EXCEPT !.job[j] = [c.job[j] EXCEPT !.sent = TRUE]]
    BY <1>1, <2>1 DEF StoreSnapshot
  <2>5. a \in StoreSnapshot
    BY <1>1, <2>3, <2>4 DEF StoreSnapshot
  <2>6. /\ a.donations = c.donations /\ a.client = c.client /\ a.beyond = c.beyond
        /\ \A i \in Job : a.job[i] = IF i = j THEN [c.job[j] EXCEPT !.sent = TRUE] ELSE c.job[i]
    BY <1>1, <2>4 DEF StoreSnapshot
  <2>7. JobsOf(a.job) = JobsOf(c.job) \cup {j}
    BY <2>3, <2>6 DEF JobsOf
  <2>d. a.donations = c.donations \cup (IF op = "donate" THEN {j} ELSE {})
    BY <1>3, <2>6
  <2>8. QED BY <2>5, <2>6, <2>7, <2>d DEF a
<1>4. CASE op = "solve"
  <2>1. a = [c EXCEPT !.job[j].status = "solved", !.client = @ + 1] /\ c.job[j] # None
    BY <1>4 DEF Applied
  <2>2. c.job[j] \in StoredJob
    BY <1>1, <2>1
  <2>3. /\ [c.job[j] EXCEPT !.status = "solved"] \in StoredJob
        /\ [c.job[j] EXCEPT !.status = "solved"] # None
    <3>1. [c.job[j] EXCEPT !.status = "solved"] \in StoredJob
      BY <2>2 DEF StoredJob
    <3>2. QED BY <3>1, NoneApart
  <2>. HIDE DEF a
  <2>4. a = [c EXCEPT !.job[j] = [c.job[j] EXCEPT !.status = "solved"], !.client = c.client + 1]
    BY <1>1, <2>1 DEF StoreSnapshot
  <2>5. a \in StoreSnapshot
    <3>1. c.client + 1 \in Nat
      BY <1>1
    <3>2. QED BY <1>1, <2>3, <2>4, <3>1 DEF StoreSnapshot
  <2>6. /\ a.donations = c.donations /\ a.client = c.client + 1 /\ a.beyond = c.beyond
        /\ \A i \in Job : a.job[i] = IF i = j THEN [c.job[j] EXCEPT !.status = "solved"] ELSE c.job[i]
    BY <1>1, <2>4 DEF StoreSnapshot
  <2>7. JobsOf(a.job) = JobsOf(c.job) \cup {j}
    BY <2>3, <2>6 DEF JobsOf
  <2>8. a.client # 0
    BY <1>1, <2>6
  <2>d. a.donations = c.donations \cup (IF op = "donate" THEN {j} ELSE {})
    BY <1>4, <2>6
  <2>9. QED BY <2>5, <2>6, <2>7, <2>8, <2>d DEF a
<1>5. CASE op = "donate"
  <2>1. a = [c EXCEPT !.donations = @ \cup {j}] /\ c.job[j] # None
    BY <1>5 DEF Applied
  <2>. HIDE DEF a
  <2>2. /\ a \in StoreSnapshot /\ a.job = c.job /\ a.donations = c.donations \cup {j}
        /\ a.client = c.client /\ a.beyond = c.beyond
    BY <1>1, <2>1 DEF StoreSnapshot
  <2>3. JobsOf(a.job) = JobsOf(c.job) \cup {j}
    BY <2>1, <2>2 DEF JobsOf
  <2>d. a.donations = c.donations \cup (IF op = "donate" THEN {j} ELSE {})
    BY <1>5, <2>2
  <2>4. QED BY <2>2, <2>3, <2>d DEF a
<1>6. QED BY <1>2, <1>3, <1>4, <1>5 DEF Operation

(* What a service writes is what its users then know to be stored.           *)
LEMMA Served ==
    ASSUME Sound, NEW op \in Operation, NEW j \in Job, serving # None,
           Allowed(op, j, Content(serving)), truth' = Applied(op, j, truth)
    PROVE  /\ home = serving /\ mig.pc = "off" /\ cleared = None
           /\ Applied(op, j, Content(serving)) \in StoreSnapshot
           /\ JobsOf(Applied(op, j, Content(serving)).job) = JobsOf(Content(serving).job) \cup {j}
           /\ Content(serving).donations \subseteq Applied(op, j, Content(serving)).donations
           /\ Applied(op, j, Content(serving)).donations \subseteq
                JobsOf(Applied(op, j, Content(serving)).job)
           /\ Applied(op, j, Content(serving)).beyond = Content(serving).beyond
           /\ truth' \in StoreSnapshot /\ truth'.client # 0
           /\ JobsOf(truth.job) \subseteq JobsOf(truth'.job)
           /\ truth.donations \subseteq truth'.donations
           /\ JobsOf(Applied(op, j, Content(serving)).job) \subseteq JobsOf(truth'.job)
           /\ Applied(op, j, Content(serving)).donations \subseteq truth'.donations
           /\ ~overlooked => Applied(op, j, Content(serving)) = truth'
<1> DEFINE held == Content(serving)
           new == Applied(op, j, held)
<1>1. home = serving /\ mig.pc = "off" /\ cleared = None /\ serving \in Store
  BY Parts DEF OneAtATime, TypeOK
<1>2. /\ held \in StoreSnapshot /\ Validates(held)
      /\ JobsOf(held.job) \subseteq JobsOf(truth.job) /\ held.donations \subseteq truth.donations
      /\ ~overlooked => held = truth
      /\ truth \in StoreSnapshot /\ truth.client # 0
  BY <1>1, ContentTyped, Parts DEF HoldsTruth, TypeOK
<1>3. op # "submit" => held.job[j] # None
  BY DEF Allowed, Operation
<1>. HIDE DEF held
<1>4. op # "submit" => truth.job[j] # None
  BY <1>2, <1>3 DEF JobsOf
<1>5. /\ new \in StoreSnapshot /\ JobsOf(new.job) = JobsOf(held.job) \cup {j}
      /\ new.donations = held.donations \cup (IF op = "donate" THEN {j} ELSE {})
      /\ new.beyond = held.beyond
  BY <1>2, <1>3, AppliedTyped
<1>6. /\ truth' \in StoreSnapshot /\ JobsOf(truth'.job) = JobsOf(truth.job) \cup {j}
      /\ truth'.donations = truth.donations \cup (IF op = "donate" THEN {j} ELSE {})
      /\ truth'.client # 0
  BY <1>2, <1>4, AppliedTyped
<1>7. ~overlooked => new = truth'
  BY <1>2
<1>. HIDE DEF new
<1>8. /\ held.donations \subseteq new.donations /\ new.donations \subseteq JobsOf(new.job)
      /\ JobsOf(new.job) \subseteq JobsOf(truth'.job) /\ new.donations \subseteq truth'.donations
  BY <1>2, <1>5, <1>6 DEF Validates
<1>9. QED BY <1>1, <1>5, <1>6, <1>7, <1>8 DEF held, new

(* The other store keeps to what was true before.                            *)
LEMMA ServedTruth ==
    ASSUME Sound, NEW here \in Store, Content(Other(here))' = Content(Other(here)),
           ~overlooked => Content(here)' = truth',
           JobsOf(Content(here)'.job) \subseteq JobsOf(truth'.job),
           Content(here)'.donations \subseteq truth'.donations,
           home = here, UNCHANGED <<home, cleared, overlooked>>, cleared = None,
           JobsOf(truth.job) \subseteq JobsOf(truth'.job), truth.donations \subseteq truth'.donations,
           truth'.client # 0
    PROVE  HoldsTruth'
<1>1. ~overlooked => Content(home)' = truth'
  BY DEF Content
<1>2. /\ JobsOf(Content(Other(here)).job)' \subseteq JobsOf(truth.job)
      /\ Content(Other(here)).donations' \subseteq truth.donations
  BY Others, Parts DEF HoldsTruth, JobsOf
<1>3. \A s \in Store : /\ JobsOf(Content(s).job)' \subseteq JobsOf(truth.job)'
                       /\ Content(s).donations' \subseteq truth.donations'
  BY <1>2, Others DEF JobsOf
<1>4. QED BY <1>1, <1>3 DEF HoldsTruth

LEMMA ServeSqlSound ==
    ASSUME Sound, NEW op \in Operation, NEW j \in Job, ServeSql(op, j)
    PROVE  Sound'
<1> DEFINE c == Applied(op, j, SnapshotUuidSql)
           job == [i \in Job |-> IF c.job[i] = None THEN None ELSE c.job[i].status]
           outbox == [i \in Job |-> IF c.job[i] = None THEN "none"
                                ELSE IF c.job[i].sent THEN "sent" ELSE "due"]
<1>1. /\ serving = "sqlx" /\ Allowed(op, j, SnapshotUuidSql)
      /\ sql' = [sql EXCEPT !.job = job, !.outbox = outbox,
                   !.donations = c.donations, !.client = c.client]
      /\ truth' = Applied(op, j, truth) /\ served' = served + 1 /\ partial' = None
      /\ UNCHANGED <<old, dyn, home, serving, upgrade, mig, cleared, attempts, overlooked>>
  BY DEF ServeSql
<1>2. serving # None /\ home = "sqlx" /\ Upgraded
  BY <1>1, NoneApart, Parts DEF OneAtATime, Store
<1>3. SnapshotUuidSql = SqlContent
  BY <1>2, UuidIsContent, Parts
<1>4. /\ Content(serving) = SqlContent /\ c = Applied(op, j, Content(serving))
      /\ Allowed(op, j, Content(serving))
  BY <1>1, <1>3 DEF Content
<1>. HIDE DEF c
<1>7. /\ mig.pc = "off" /\ cleared = None /\ c \in StoreSnapshot
      /\ JobsOf(c.job) = JobsOf(SqlContent.job) \cup {j}
      /\ SqlContent.donations \subseteq c.donations /\ c.donations \subseteq JobsOf(c.job)
      /\ c.beyond = SqlContent.beyond
  BY <1>1, <1>2, <1>4, Served
<1>5. /\ truth' \in StoreSnapshot /\ truth'.client # 0
      /\ JobsOf(truth.job) \subseteq JobsOf(truth'.job) /\ truth.donations \subseteq truth'.donations
      /\ JobsOf(c.job) \subseteq JobsOf(truth'.job) /\ c.donations \subseteq truth'.donations
      /\ ~overlooked => c = truth'
  BY <1>1, <1>2, <1>4, Served
<1>8. /\ c.job \in [Job -> StoredJob \cup {None}] /\ c.donations \subseteq Job /\ c.client \in Nat
  BY <1>7, SnapshotFields
<1>9. \A i \in Job : c.job[i] # None =>
        /\ c.job[i].status \in Status /\ c.job[i].status # None
        /\ c.job[i] = [status |-> c.job[i].status, sent |-> c.job[i].sent]
        /\ c.job[i].sent \in BOOLEAN
  BY <1>8, NoneApart DEF StoredJob, Status
<1>10. job \in [Job -> Status \cup {None}] /\ outbox \in [Job -> {"none", "due", "sent"}]
  BY <1>9
<1>11. /\ \A i \in Job : c.job[i] = None => job[i] = None /\ outbox[i] = "none"
       /\ \A i \in Job : c.job[i] # None =>
            /\ job[i] = c.job[i].status /\ job[i] # None /\ outbox[i] # "none"
            /\ (outbox[i] = "sent") = c.job[i].sent
  BY <1>9
<1>. HIDE DEF job, outbox
<1>12. /\ sql' \in SqlTables /\ sql'.ready = sql.ready /\ sql'.beyond = sql.beyond
       /\ sql'.job = job /\ sql'.outbox = outbox
       /\ sql'.donations = c.donations /\ sql'.client = c.client
  <2>1. sql \in SqlTables
    BY SqlFields, Parts
  <2>2. QED BY <1>1, <1>8, <1>10, <2>1 DEF SqlTables
<1>13. TypeOK'
  <2>1. served' \in Nat /\ truth' \in StoreSnapshot
    BY <1>1, <1>5, <1>7, Parts DEF TypeOK
  <2>2. QED BY <1>1, <1>12, <2>1, Parts DEF TypeOK
<1>14. \A i \in Job : old.job[i] # None => c.job[i] # None
  <2>1. ASSUME NEW i \in Job, old.job[i] # None PROVE c.job[i] # None
    <3>1. SqlContent.job[i] # None
      BY <1>2, <2>1, SqlJob, Parts DEF Upgraded, JobsCopied
    <3>2. QED BY <1>7, <3>1 DEF JobsOf
  <2>2. QED BY <2>1
<1>15. JobsCopied' /\ DonationsCopied' /\ OutboxCopied' /\ Upgraded' /\ sql'.ready
  <2>1. JobsCopied' /\ OutboxCopied'
    BY <1>1, <1>11, <1>12, <1>14 DEF JobsCopied, OutboxCopied
  <2>2. old.donations \subseteq SqlContent.donations
    BY DEF SqlContent
  <2>3. DonationsCopied'
    BY <1>1, <1>7, <1>12, <2>2 DEF DonationsCopied
  <2>4. sql'.ready
    BY <1>2, <1>12 DEF Upgraded
  <2>5. QED BY <2>1, <2>3, <2>4 DEF Upgraded
<1>16. OldSound' /\ DynSound' /\ DynContent' = DynContent
  BY <1>1, Parts DEF OldSound, DynSound, JobsOf, DynContent, JobFromItem
<1>17. SqlSound'
  <2>1. \A i \in Job : sql'.outbox[i] # "none" <=> sql'.job[i] # None
    BY <1>11, <1>12
  <2>2. sql'.donations \subseteq JobsOf(sql'.job)
    <3>1. c.donations \subseteq JobsOf(c.job)
      BY <1>7
    <3>2. JobsOf(c.job) \subseteq JobsOf(job)
      BY <1>11 DEF JobsOf
    <3>3. QED BY <1>12, <3>1, <3>2
  <2>3. QED BY <1>15, <2>1, <2>2 DEF SqlSound, JobsOf
<1>18. UpgradeInOrder'
  BY <1>15 DEF UpgradeInOrder
<1>19. OneAtATime'
  BY <1>1, <1>15, Parts DEF OneAtATime
<1>20. CommandSound' /\ PartialSound'
  BY <1>1, <1>7, CommandIdle, NoneApart DEF PartialSound, Store
<1>21. SqlContent' = c
  <2>1. \A i \in Job : SqlContent'.job[i] = c.job[i]
    <3>1. ASSUME NEW i \in Job PROVE SqlContent'.job[i] = c.job[i]
      <4>1. SqlContent'.job[i] = (IF outbox[i] = "none" THEN Converted(old.job[i])
                                  ELSE [status |-> job[i], sent |-> outbox[i] = "sent"])
        BY <1>1, <1>12 DEF SqlContent
      <4>2. CASE c.job[i] = None
        <5>1. old.job[i] = None
          BY <1>14, <4>2
        <5>2. QED BY <1>11, <4>1, <4>2, <5>1 DEF Converted
      <4>3. CASE c.job[i] # None
        BY <1>9, <1>11, <4>1, <4>3
      <4>4. QED BY <4>2, <4>3
    <3>2. QED BY <3>1
  <2>2. SqlContent'.donations = c.donations
    <3>1. SqlContent'.donations = sql'.donations \cup old.donations
      BY <1>1 DEF SqlContent
    <3>2. old.donations \subseteq sql'.donations
      BY <1>1, <1>15 DEF DonationsCopied
    <3>3. QED BY <1>12, <3>1, <3>2
  <2>3. SqlContent'.client = c.client
    BY <1>12 DEF SqlContent
  <2>4. SqlContent'.beyond = c.beyond
    BY <1>7, <1>12 DEF SqlContent
  <2>5. SqlContent' \in StoreSnapshot
    BY <1>13, <1>16, <1>17, <1>18, ContentsTypedNext DEF StoresSound
  <2>6. QED BY <1>7, <2>1, <2>2, <2>3, <2>4, <2>5, SameSnapshot
<1>22. HoldsTruth'
  <2>1. /\ Content("sqlx")' = c /\ Content(Other("sqlx"))' = Content(Other("sqlx"))
        /\ "sqlx" \in Store
    BY <1>16, <1>21 DEF Content, Other, Store
  <2>2. QED BY <1>1, <1>2, <1>5, <1>7, <2>1, ServedTruth
<1>23. QED BY <1>13, <1>16, <1>17, <1>18, <1>19, <1>20, <1>22, Made

LEMMA ServeDynSound ==
    ASSUME Sound, NEW op \in Operation, NEW j \in Job, ServeDyn(op, j)
    PROVE  Sound'
<1> DEFINE c == Applied(op, j, SnapshotDyn)
<1>1. /\ serving = "dynamodb" /\ Allowed(op, j, SnapshotDyn)
      /\ dyn' = [dyn EXCEPT !.item = c.job, !.donations = c.donations,
                      !.client = c.client, !.index = @ \cup {j}]
      /\ truth' = Applied(op, j, truth) /\ served' = served + 1 /\ partial' = None
      /\ UNCHANGED <<old, sql, home, serving, upgrade, mig, cleared, attempts, overlooked>>
  BY DEF ServeDyn
<1>2. serving # None /\ home = "dynamodb" /\ dyn.numeric = NoJobs
  BY <1>1, NoneApart, Parts DEF OneAtATime, Store
<1>3. SnapshotDyn = DynContent
  <2>1. ~UnderBothKeys
    BY <1>2 DEF UnderBothKeys, JobsOf, NoJobs
  <2>2. QED BY <2>1, DynIsContent, Parts
<1>4. /\ Content(serving) = DynContent /\ c = Applied(op, j, Content(serving))
      /\ Allowed(op, j, Content(serving))
  <2>1. Content(serving) = DynContent
    BY <1>1 DEF Content
  <2>2. QED BY <1>1, <1>3, <2>1
<1>. HIDE DEF c
<1>6. /\ mig.pc = "off" /\ cleared = None /\ c \in StoreSnapshot
      /\ JobsOf(c.job) = JobsOf(DynContent.job) \cup {j}
      /\ DynContent.donations \subseteq c.donations /\ c.donations \subseteq JobsOf(c.job)
      /\ c.beyond = DynContent.beyond
  BY <1>1, <1>2, <1>4, Served
<1>5. /\ truth' \in StoreSnapshot /\ truth'.client # 0
      /\ JobsOf(truth.job) \subseteq JobsOf(truth'.job) /\ truth.donations \subseteq truth'.donations
      /\ JobsOf(c.job) \subseteq JobsOf(truth'.job) /\ c.donations \subseteq truth'.donations
      /\ ~overlooked => c = truth'
  BY <1>1, <1>2, <1>4, Served
<1>7. /\ c.job \in Jobs /\ c.donations \subseteq Job /\ c.client \in Nat
  BY <1>6, SnapshotFields DEF Jobs
<1>8. /\ dyn' \in DynTable /\ dyn'.item = c.job /\ dyn'.donations = c.donations
      /\ dyn'.client = c.client /\ dyn'.index = dyn.index \cup {j}
      /\ dyn'.numeric = dyn.numeric /\ dyn'.beyond = dyn.beyond
  <2>1. dyn \in DynTable
    BY DynFields, Parts
  <2>2. QED BY <1>1, <1>7, <2>1 DEF DynTable
<1>9. TypeOK'
  <2>1. served' \in Nat /\ truth' \in StoreSnapshot
    BY <1>1, <1>5, <1>6, Parts DEF TypeOK
  <2>2. QED BY <1>1, <1>8, <2>1, Parts DEF TypeOK
<1>10. dyn.index = JobsOf(DynContent.job)
  <2>1. \A i \in Job : DynContent.job[i] # None <=> i \in dyn.index
    BY DynJob, Parts
  <2>2. dyn.index \subseteq Job
    BY DynFields, Parts
  <2>3. QED BY <2>1, <2>2 DEF JobsOf
<1>11. DynSound'
  <2>1. dyn'.index = JobsOf(c.job)
    BY <1>6, <1>8, <1>10
  <2>2. JobsOf(dyn'.numeric) = {} /\ dyn'.numeric = NoJobs
    BY <1>2, <1>8 DEF JobsOf, NoJobs
  <2>3. JobsOf(dyn'.item) = JobsOf(c.job)
    BY <1>8
  <2>4. dyn'.donations \subseteq dyn'.index
    BY <1>6, <1>8, <2>1
  <2>5. NoJobs' = NoJobs /\ JobsOf(dyn.item)' = JobsOf(dyn'.item) /\ JobsOf(dyn.numeric)' = JobsOf(dyn'.numeric)
    BY DEF NoJobs, JobsOf
  <2>6. QED BY <2>1, <2>2, <2>3, <2>4, <2>5 DEF DynSound
<1>12. OldSound' /\ SqlSound' /\ SqlContent' = SqlContent /\ Upgraded' = Upgraded /\ UpgradeInOrder'
  <2>1. /\ JobsCopied' = JobsCopied /\ DonationsCopied' = DonationsCopied
        /\ OutboxCopied' = OutboxCopied
    BY <1>1 DEF JobsCopied, DonationsCopied, OutboxCopied
  <2>2. OldSound' /\ SqlSound' /\ UpgradeInOrder'
    BY <1>1, <2>1, Parts DEF OldSound, SqlSound, UpgradeInOrder, JobsOf
  <2>3. QED BY <1>1, <2>1, <2>2 DEF SqlContent, Upgraded
<1>13. OneAtATime'
  BY <1>1, <1>8, <1>12, Parts DEF OneAtATime
<1>14. CommandSound' /\ PartialSound'
  BY <1>1, <1>6, CommandIdle, NoneApart DEF PartialSound, Store
<1>15. DynContent' = c
  <2>1. \A i \in Job : DynContent'.job[i] = c.job[i]
    <3>1. \A i \in Job : Converted(dyn'.numeric[i]) = None
      BY <1>2, <1>8 DEF NoJobs, Converted
    <3>2. QED BY <1>8, <3>1 DEF DynContent, JobFromItem
  <2>2. DynContent'.donations = c.donations /\ DynContent'.client = c.client
    BY <1>8 DEF DynContent
  <2>3. DynContent'.beyond = c.beyond
    BY <1>6, <1>8 DEF DynContent
  <2>4. DynContent' \in StoreSnapshot
    BY <1>9, <1>11, <1>12, ContentsTypedNext DEF StoresSound
  <2>5. QED BY <1>6, <2>1, <2>2, <2>3, <2>4, SameSnapshot
<1>16. HoldsTruth'
  <2>1. /\ Content("dynamodb")' = c /\ Content(Other("dynamodb"))' = Content(Other("dynamodb"))
        /\ "dynamodb" \in Store
    BY <1>12, <1>15 DEF Content, Other, Store
  <2>2. QED BY <1>1, <1>2, <1>5, <1>6, <2>1, ServedTruth
<1>17. QED BY <1>9, <1>11, <1>12, <1>13, <1>14, <1>16, Made

-----------------------------------------------------------------------------
(* The invariant holds.                                                      *)

LEMMA Empty ==
    /\ NoJobs \in Jobs /\ JobsOf(NoJobs) = {} /\ Converted(None) = None
    /\ EmptySql \in SqlTables /\ EmptyDyn \in DynTable /\ Off \in Command /\ Off.pc = "off"
<1>1. NoJobs \in Jobs /\ NoJobs \in [Job -> Status \cup {None}] /\ JobsOf(NoJobs) = {}
  BY DEF NoJobs, Jobs, JobsOf
<1>2. EmptySql \in SqlTables
  BY <1>1 DEF EmptySql, SqlTables
<1>3. EmptyDyn \in DynTable
  BY <1>1 DEF EmptyDyn, DynTable
<1>4. QED BY <1>1, <1>2, <1>3 DEF Converted, Off, Command

LEMMA InitSound ==
    ASSUME Init
    PROVE  Sound
<1> PICK jobs \in {f \in [Job -> StoredJob \cup {None}] : JobsOf(f) \subseteq LegacyJob},
         beyond \in BOOLEAN :
    \E donations \in SUBSET JobsOf(jobs) :
        /\ home \in Store
        /\ old = [tables |-> home = "sqlx",
                  job |-> IF home = "sqlx" THEN jobs ELSE NoJobs,
                  donations |-> IF home = "sqlx" THEN donations ELSE {}]
        /\ sql = [EmptySql EXCEPT !.client = IF home = "sqlx" THEN 1 ELSE 0,
                                  !.beyond = beyond /\ home = "sqlx"]
        /\ dyn = IF home = "sqlx" THEN EmptyDyn
                 ELSE [EmptyDyn EXCEPT !.numeric = jobs, !.index = JobsOf(jobs),
                            !.donations = donations, !.client = 1, !.beyond = beyond]
        /\ truth = [job |-> [j \in Job |-> Converted(jobs[j])], donations |-> donations,
                    client |-> 1, beyond |-> beyond]
        /\ serving = None /\ upgrade = "off" /\ mig = Off
        /\ cleared = None /\ partial = None /\ attempts = 0 /\ served = 0
        /\ overlooked = FALSE
  BY DEF Init
<1>1. PICK donations \in SUBSET JobsOf(jobs) :
        /\ home \in Store
        /\ old = [tables |-> home = "sqlx",
                  job |-> IF home = "sqlx" THEN jobs ELSE NoJobs,
                  donations |-> IF home = "sqlx" THEN donations ELSE {}]
        /\ sql = [EmptySql EXCEPT !.client = IF home = "sqlx" THEN 1 ELSE 0,
                                  !.beyond = beyond /\ home = "sqlx"]
        /\ dyn = IF home = "sqlx" THEN EmptyDyn
                 ELSE [EmptyDyn EXCEPT !.numeric = jobs, !.index = JobsOf(jobs),
                            !.donations = donations, !.client = 1, !.beyond = beyond]
        /\ truth = [job |-> [j \in Job |-> Converted(jobs[j])], donations |-> donations,
                    client |-> 1, beyond |-> beyond]
        /\ serving = None /\ upgrade = "off" /\ mig = Off
        /\ cleared = None /\ partial = None /\ attempts = 0 /\ served = 0
        /\ overlooked = FALSE
  OBVIOUS
<1>2. /\ jobs \in Jobs /\ JobsOf(jobs) \subseteq LegacyJob /\ donations \subseteq JobsOf(jobs)
      /\ JobsOf(jobs) \subseteq Job
  BY <1>1 DEF Jobs, JobsOf
<1>3. /\ \A j \in Job : Converted(jobs[j]) \in StoredJob \cup {None}
      /\ \A j \in Job : Converted(jobs[j]) = None <=> jobs[j] = None
  <2>1. \A j \in Job : jobs[j] \in StoredJob \cup {None}
    BY <1>2 DEF Jobs
  <2>2. QED BY <2>1, ConvertedTyped
<1>4. /\ truth \in StoreSnapshot /\ truth.donations = donations /\ truth.client = 1
      /\ truth.beyond = beyond /\ JobsOf(truth.job) = JobsOf(jobs)
      /\ \A j \in Job : truth.job[j] = Converted(jobs[j])
  <2>1. [j \in Job |-> Converted(jobs[j])] \in [Job -> StoredJob \cup {None}]
    BY <1>3
  <2>2. truth \in StoreSnapshot
    BY <1>1, <1>2, <2>1 DEF StoreSnapshot
  <2>3. /\ truth.donations = donations /\ truth.client = 1 /\ truth.beyond = beyond
        /\ \A j \in Job : truth.job[j] = Converted(jobs[j])
    BY <1>1
  <2>4. QED BY <1>3, <2>2, <2>3 DEF JobsOf
<1>5. /\ old.tables = (home = "sqlx") /\ old.job = (IF home = "sqlx" THEN jobs ELSE NoJobs)
      /\ old.donations = IF home = "sqlx" THEN donations ELSE {}
      /\ old \in [tables : BOOLEAN, job : Jobs, donations : SUBSET Job]
  BY <1>1, <1>2, Empty
<1>6. /\ sql \in SqlTables /\ sql.ready = FALSE /\ sql.job = NoJobs
      /\ sql.outbox = [j \in Job |-> "none"] /\ sql.donations = {}
      /\ sql.client = (IF home = "sqlx" THEN 1 ELSE 0) /\ sql.beyond = (beyond /\ home = "sqlx")
  <2>1. EmptySql \in SqlTables /\ (beyond /\ home = "sqlx") \in BOOLEAN
    BY Empty
  <2>2. QED BY <1>1, <2>1 DEF EmptySql, SqlTables
<1>7. /\ dyn \in DynTable /\ dyn.item = NoJobs /\ dyn.index = JobsOf(dyn.numeric)
      /\ home = "sqlx" => dyn.numeric = NoJobs /\ dyn.donations = {}
      /\ home # "sqlx" => /\ dyn.numeric = jobs /\ dyn.donations = donations
                          /\ dyn.client = 1 /\ dyn.beyond = beyond
  <2>1. EmptyDyn \in DynTable
    BY Empty
  <2>2. CASE home = "sqlx"
    BY <1>1, <2>1, <2>2, Empty DEF EmptyDyn
  <2>3. CASE home # "sqlx"
    <3>1. dyn = [EmptyDyn EXCEPT !.numeric = jobs, !.index = JobsOf(jobs),
                            !.donations = donations, !.client = 1, !.beyond = beyond]
      BY <1>1, <2>3
    <3>2. dyn = [item |-> NoJobs, numeric |-> jobs, index |-> JobsOf(jobs),
                 donations |-> donations, client |-> 1, beyond |-> beyond]
      BY <3>1 DEF EmptyDyn
    <3>3. donations \in SUBSET Job /\ JobsOf(jobs) \in SUBSET Job /\ NoJobs \in Jobs
      BY <1>2, Empty
    <3>4. dyn \in DynTable
      BY <1>2, <3>2, <3>3 DEF DynTable
    <3>5. QED BY <2>3, <3>2, <3>4
  <2>4. QED BY <2>2, <2>3
<1>8. TypeOK
  BY <1>1, <1>4, <1>5, <1>6, <1>7, Empty DEF TypeOK
<1>9. OldSound
  BY <1>2, <1>5, Empty DEF OldSound
<1>10. SqlSound
  BY <1>6 DEF SqlSound, NoJobs, JobsOf
<1>11. DynSound
  BY <1>2, <1>7, Empty DEF DynSound
<1>12. UpgradeInOrder /\ OneAtATime /\ CommandSound /\ PartialSound
  BY <1>1, Empty, NoneApart DEF UpgradeInOrder, OneAtATime, CommandSound, PartialSound, Store
<1>13. /\ \A j \in Job : SqlContent.job[j] = Converted(old.job[j])
       /\ SqlContent.donations = old.donations /\ SqlContent.client = sql.client
       /\ SqlContent.beyond = sql.beyond
  BY <1>6 DEF SqlContent
<1>14. /\ \A j \in Job : DynContent.job[j] = Converted(dyn.numeric[j])
       /\ DynContent.donations = dyn.donations /\ DynContent.client = dyn.client
       /\ DynContent.beyond = dyn.beyond
  BY <1>7 DEF DynContent, JobFromItem, NoJobs
<1>15. SqlContent \in StoreSnapshot /\ DynContent \in StoreSnapshot
  BY <1>8, <1>9, <1>10, <1>11, SqlTyped, DynTyped
<1>16. HoldsTruth
  <2>1. CASE home = "sqlx"
    <3>1. SqlContent = truth
      BY <1>4, <1>5, <1>6, <1>13, <1>15, <2>1, SameSnapshot
    <3>2. JobsOf(DynContent.job) = {} /\ DynContent.donations = {}
      BY <1>7, <1>14, <2>1, Empty DEF JobsOf, NoJobs
    <3>3. QED BY <1>1, <1>4, <2>1, <3>1, <3>2 DEF HoldsTruth, Content
  <2>2. CASE home # "sqlx"
    <3>1. DynContent = truth
      BY <1>4, <1>7, <1>14, <1>15, <2>2, SameSnapshot
    <3>2. JobsOf(SqlContent.job) = {} /\ SqlContent.donations = {}
      BY <1>5, <1>13, <2>2, Empty DEF JobsOf, NoJobs
    <3>3. QED BY <1>1, <1>4, <2>2, <3>1, <3>2 DEF HoldsTruth, Content
  <2>3. QED BY <2>1, <2>2
<1>17. QED BY <1>8, <1>9, <1>10, <1>11, <1>12, <1>16 DEF Sound, MigrationInv, StoresSound

LEMMA StepSound ==
    ASSUME Sound, [Next]_vars
    PROVE  Sound'
<1>1. CASE Upgrading
  BY <1>1, UpgradeJobSound, UpgradeDonationSound, UpgradeOutboxSound, NextLoopSound,
     ConnectedSound DEF Upgrading
<1>2. CASE Migrating
  BY <1>2, StartMigrationSound, PlanSound, ImportJobSound, ImportClientsSound, ImportSqlSound,
     VerifySound DEF Migrating
<1>3. CASE Deploying
  BY <1>3, StartServerSound, StartReplicaSound, StopSound, CutoverSound, ServeSqlSound,
     ServeDynSound DEF Deploying
<1>4. CASE Crash
  BY <1>4, CrashSound
<1>5. CASE UNCHANGED vars
  BY <1>5, IdleSound
<1>6. QED BY <1>1, <1>2, <1>3, <1>4, <1>5 DEF Next

(* The stores, the upgrade and the command are as described above, at every  *)
(* moment.                                                                   *)
LEMMA SoundHolds == Spec => []Sound
<1>1. Init => Sound
  BY InitSound
<1>2. Sound /\ [Next]_vars => Sound'
  BY StepSound
<1>3. QED BY <1>1, <1>2, PTL DEF Spec

(* The variables keep their types.                                           *)
THEOREM TypeCorrect == Spec => []TypeOK
<1>1. Sound => TypeOK
  BY DEF Sound
<1>2. QED BY <1>1, SoundHolds, PTL

(* Unless a half upgraded store was copied from, the store in use, and one   *)
(* that a command has reported verified, hold all that was stored, however   *)
(* far an upgrade or an import has come.  Whatever was copied, a command     *)
(* that writes does so from a source that still holds all it read.           *)
THEOREM MigrationInvHolds == Spec => []MigrationInv
<1>1. Sound => MigrationInv
  BY DEF Sound
<1>2. QED BY <1>1, SoundHolds, PTL

(* A service that is started after any upgrades, imports, interruptions,     *)
(* resumed attempts and cutovers finds exactly what was stored last, unless  *)
(* an import overlooked the numeric rows of a first start left unfinished.   *)
THEOREM NothingIsLostHolds == Spec => []NothingIsLost
<1>1. Sound => NothingIsLost
  <2> SUFFICES ASSUME Sound, ~overlooked PROVE NothingIsLost
    BY DEF NothingIsLost
  <2>2. ASSUME serving = "sqlx" PROVE SnapshotUuidSql = truth
    <3>1. home = "sqlx" /\ Upgraded
      BY <2>2, NoneApart, Parts DEF OneAtATime, Store
    <3>2. SnapshotUuidSql = SqlContent
      BY <3>1, UuidIsContent, Parts
    <3>3. QED BY <3>1, <3>2, Parts DEF HoldsTruth, Content
  <2>3. ASSUME serving = "dynamodb"
        PROVE  SnapshotDyn = truth /\ dyn.index = JobsOf(truth.job)
    <3>1. home = "dynamodb" /\ ~UnderBothKeys
      BY <2>3, NoneApart, Parts DEF OneAtATime, Store, UnderBothKeys, JobsOf, NoJobs
    <3>2. DynContent = truth
      BY <3>1, Parts DEF HoldsTruth, Content
    <3>3. SnapshotDyn = truth
      BY <3>1, <3>2, DynIsContent, Parts
    <3>4. \A j \in Job : truth.job[j] # None <=> j \in dyn.index
      BY <3>2, DynJob, Parts
    <3>5. dyn.index \subseteq Job
      BY DynFields, Parts
    <3>6. QED BY <3>3, <3>4, <3>5 DEF JobsOf
  <2>4. QED BY <2>2, <2>3 DEF NothingIsLost
<1>2. QED BY <1>1, SoundHolds, PTL

(* An interrupted import can be resumed: as long as no service has written   *)
(* and no first start on SQL is left unfinished, its source and destination  *)
(* are readable, and --resume is not refused.                                *)
THEOREM InterruptedImportResumesHolds == Spec => []InterruptedImportResumes
<1>1. Sound => InterruptedImportResumes
  <2> SUFFICES ASSUME Sound, partial # None, ~HalfUpgraded, ~UnderBothKeys
                 PROVE  /\ Snapshot(Other(partial)) # None /\ Snapshot(partial) # None
                        /\ EnsureSubset(Snapshot(partial), Snapshot(Other(partial)))
    BY DEF InterruptedImportResumes
  <2>2. /\ Readable /\ EnsureSubset(Content(partial), Content(Other(partial)))
        /\ partial \in Store /\ Other(partial) \in Store
    BY Others, Parts DEF PartialSound, TypeOK
  <2>3. /\ Content(partial) # None /\ ~Content(partial).beyond
        /\ Content(Other(partial)) # None /\ ~Content(Other(partial)).beyond
    BY <2>2, ContentTyped, Parts DEF Readable
  <2>4. /\ Snapshot(partial) = Content(partial)
        /\ Snapshot(Other(partial)) = Content(Other(partial))
    BY <2>2, <2>3, SnapshotIsContent, Parts
  <2>5. QED BY <2>2, <2>3, <2>4
<1>2. QED BY <1>1, SoundHolds, PTL

(* No write of an import changes or removes what its destination holds.      *)
OnlyAdds ==
    mig.pc = "import" =>
        /\ \A j \in Job :
             /\ mig.to = "sqlx" /\ sql.job[j] # None =>
                    /\ sql'.job[j] = sql.job[j]
                    /\ sql.outbox[j] # "none" => sql'.outbox[j] = sql.outbox[j]
             /\ mig.to = "dynamodb" /\ dyn.item[j] # None => dyn'.item[j] = dyn.item[j]
        /\ sql.donations \subseteq sql'.donations /\ dyn.donations \subseteq dyn'.donations
        /\ sql.client # 0 => sql'.client = sql.client
        /\ dyn.client # 0 => dyn'.client = dyn.client

LEMMA ImportJobAdds ==
    ASSUME Sound, NEW j \in Job, ImportJob(j)
    PROVE  OnlyAdds
<1> DEFINE s == mig.snapshot
<1>1. /\ mig.pc = "import" /\ mig.to = "dynamodb" /\ j \in mig.todo /\ sql' = sql
      /\ IF MayPut(j) THEN dyn' = [WithItem(dyn, s, j) EXCEPT !.index = @ \cup {j}]
                      ELSE dyn' = dyn
  BY DEF ImportJob
<1>2. EnsureSubset(DynContent, s)
  BY <1>1, Importing
<1>3. dyn \in DynTable /\ dyn.item \in Jobs
  BY DynFields, Parts
<1>4. CASE ~MayPut(j)
  BY <1>1, <1>4 DEF OnlyAdds
<1>5. CASE MayPut(j)
  <2>1. dyn' = [dyn EXCEPT !.item[j] = s.job[j], !.index = dyn.index \cup {j},
                   !.donations = (dyn.donations \ {j}) \cup ({j} \cap s.donations)]
    BY <1>1, <1>3, <1>5 DEF WithItem, DynTable
  <2>2. /\ dyn'.item[j] = s.job[j] /\ dyn'.client = dyn.client
        /\ dyn'.donations = (dyn.donations \ {j}) \cup ({j} \cap s.donations)
        /\ \A i \in Job : i # j => dyn'.item[i] = dyn.item[i]
    BY <1>3, <2>1 DEF DynTable, Jobs
  <2>3. dyn.item[j] # None => s.job[j] = dyn.item[j]
    <3>1. dyn.item[j] # None => DynContent.job[j] = dyn.item[j]
      BY DynJob, Parts
    <3>2. QED BY <1>2, <3>1 DEF EnsureSubset, JobsOf
  <2>4. dyn.donations \subseteq s.donations
    BY <1>2 DEF EnsureSubset, DynContent
  <2>5. QED BY <1>1, <2>2, <2>3, <2>4 DEF OnlyAdds
<1>6. QED BY <1>4, <1>5

LEMMA ImportClientsAdds ==
    ASSUME Sound, ImportClients
    PROVE  OnlyAdds
<1> DEFINE s == mig.snapshot
<1>1. /\ mig.pc = "import" /\ mig.to = "dynamodb" /\ sql' = sql
      /\ dyn' = dyn \/ dyn' = [dyn EXCEPT !.client = IF s.client = 0 THEN @ ELSE s.client]
  BY DEF ImportClients
<1>2. EnsureSubset(DynContent, s)
  BY <1>1, Importing
<1>3. dyn \in DynTable
  BY DynFields, Parts
<1>4. dyn'.item = dyn.item /\ dyn'.donations = dyn.donations
  BY <1>1, <1>3 DEF DynTable
<1>5. dyn.client # 0 => dyn'.client = dyn.client
  <2>1. dyn.client # 0 => s.client = dyn.client
    BY <1>2 DEF EnsureSubset, DynContent
  <2>2. QED BY <1>1, <1>3, <2>1 DEF DynTable
<1>6. QED BY <1>1, <1>4, <1>5 DEF OnlyAdds

LEMMA ImportSqlAdds ==
    ASSUME Sound, ImportSql
    PROVE  OnlyAdds
<1> DEFINE s == mig.snapshot
<1>1. mig.pc = "import" /\ mig.to = "sqlx" /\ dyn' = dyn
  BY ImportSqlEffect
<1>2. /\ s \in StoreSnapshot /\ EnsureSubset(SqlContent, s) /\ Upgraded
  BY <1>1, Importing
<1>3. ASSUME NEW j \in Job, sql.job[j] # None
      PROVE  sql'.job[j] = sql.job[j] /\ (sql.outbox[j] # "none" => sql'.outbox[j] = sql.outbox[j])
  <2>1. sql.outbox[j] # "none"
    BY <1>2, <1>3, UuidIsContent, Parts DEF OutboxMatches
  <2>2. /\ SqlContent.job[j] = [status |-> sql.job[j], sent |-> sql.outbox[j] = "sent"]
        /\ SqlContent.job[j] # None
    BY <2>1, SqlJob, Parts
  <2>3. s.job[j] = SqlContent.job[j] /\ s.job[j] # None
    BY <1>2, <2>2 DEF EnsureSubset, JobsOf
  <2>4. /\ sql'.job[j] = s.job[j].status
        /\ sql'.outbox[j] = IF s.job[j].sent THEN "sent" ELSE "due"
    BY <2>3, ImportSqlEffect
  <2>5. s.job[j].status = sql.job[j] /\ s.job[j].sent = (sql.outbox[j] = "sent")
    BY <2>2, <2>3
  <2>6. sql.outbox[j] \in {"due", "sent"}
    BY <2>1, SqlFields, Parts
  <2>7. QED BY <2>4, <2>5, <2>6
<1>4. sql.donations \subseteq sql'.donations
  BY ImportSqlEffect
<1>5. sql.client # 0 => sql'.client = sql.client
  <2>1. sql.client # 0 => s.client = sql.client
    BY <1>2 DEF EnsureSubset, SqlContent
  <2>2. QED BY <2>1, ImportSqlEffect
<1>6. QED BY <1>1, <1>3, <1>4, <1>5 DEF OnlyAdds

(* A destination that was put into service, or that holds a copy of another  *)
(* state of the source, is left as it is by every attempt.                   *)
THEOREM MigrationOnlyAddsHolds == Spec => MigrationOnlyAdds
<1>1. Sound /\ [Next]_vars => [OnlyAdds]_vars
  <2> SUFFICES ASSUME Sound, Next, mig.pc = "import" PROVE OnlyAdds
    BY DEF OnlyAdds
  <2>1. serving = None /\ upgrade = "off"
    BY Parts DEF OneAtATime
  <2>2. CASE Upgrading
    BY <2>1, <2>2 DEF Upgrading, UpgradeJob, UpgradeDonation, UpgradeOutbox, NextLoop, Connected
  <2>3. CASE Migrating
    <3>1. ~Plan /\ ~Verify
      BY DEF Plan, Verify
    <3>2. ~ \E to \in Store, resume, dry \in BOOLEAN : StartMigration(to, resume, dry)
      BY DEF StartMigration
    <3>3. QED BY <2>3, <3>1, <3>2, ImportJobAdds, ImportClientsAdds, ImportSqlAdds DEF Migrating
  <2>4. CASE Deploying
    <3>1. "sqlx" # None /\ "dynamodb" # None
      BY NoneApart DEF Store
    <3>2. QED BY <2>1, <2>4, <3>1 DEF Deploying, StartServer, StartReplica, StopServer, Cutover,
                                      ServeSql, ServeDyn
  <2>5. CASE Crash
    BY <2>5 DEF Crash, OnlyAdds
  <2>6. QED BY <2>2, <2>3, <2>4, <2>5 DEF Next
<1>2. QED BY <1>1, SoundHolds, PTL DEF Spec, MigrationOnlyAdds, OnlyAdds
=============================================================================
