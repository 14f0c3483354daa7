------------------------------ MODULE JobQueue ------------------------------
(***************************************************************************)
(* The SQLx job store (src/src/repository.rs, SqlxJobRepository) on SQLite   *)
(* and on PostgreSQL, driven by every worker that ever received a lease,     *)
(* the stale ones included, and by the outbox dispatchers.                   *)
(*                                                                         *)
(*  - `clock' is the clock of the fastest API replica.  An operation reads  *)
(*    its `now' before it gets a pooled connection, a row or the advisory   *)
(*    lock, and on a replica whose clock may be behind: it uses any reading  *)
(*    at most Lag behind `clock'.                                           *)
(*  - claim and pending_notifications are transactions of two steps: select *)
(*    the expired leases, then update.  SQLite's write reservation (and its *)
(*    single pooled connection) lets no other write in between; PostgreSQL, *)
(*    at read committed, lets in everything that does not take the          *)
(*    advisory lock, which only claim takes.                                *)
(*  - `leases' remembers every lease handed out, with the expiry its holder *)
(*    was last told: any of those holders may call back at any time.         *)
(***************************************************************************)
EXTENDS WeightedLru, FiniteSets

CONSTANTS
    Job,            \* job ids; one private object key each
    Owner,          \* client ids
    OwnerOf,        \* Job -> Owner
    WeightOf,       \* Job -> queue_weight, in hundredths
    Conn,           \* pooled connections that run the two-step transactions
    Dialect,        \* "sqlite" or "postgres"
    AnyJob,         \* a claim that names no job
    Requested,      \* what claims ask for: a subset of Job \cup {AnyJob}
    License,        \* validation-licence versions, positive numbers
    LeaseSeconds,   \* configured lease
    Lag,            \* how far behind `clock' a reading of the time may be
    MaxTime,        \* bound: the clock stops here
    MaxLeases       \* bound: leases handed out in total

ASSUME JobQueueAssumptions ==
    /\ OwnerOf \in [Job -> Owner]
    /\ WeightOf \in [Job -> Nat]
    /\ Dialect \in {"sqlite", "postgres"}
    /\ AnyJob \notin Job
    /\ Requested \subseteq Job \cup {AnyJob}
    /\ License \subseteq Nat \ {0}
    /\ LeaseSeconds \in Nat
    /\ Lag \in Nat
    /\ MaxTime \in Nat \ {0}
    /\ MaxLeases \in Nat

VARIABLES
    clock,          \* Nat: see above
    status,         \* Job -> status column ("absent": no row)
    created,        \* Job -> created_at
    lease,          \* Job -> lease_token column, NoToken when NULL
    expires,        \* Job -> lease_expires_at column, 0 when NULL
    result,         \* Job -> token of the lease whose result is stored
    donation,       \* Job -> licence of the donation, NoLicense if none
    outbox,         \* jobs with an outbox row whose delivered_at is NULL
    lastServed,     \* Owner -> client_service.last_served_at
    leases,         \* every lease handed out
    tokens,         \* number of lease tokens drawn
    txn             \* Conn -> the open transaction of that connection

vars == <<clock, status, created, lease, expires, result, donation, outbox,
          lastServed, leases, tokens, txn>>

NoToken == 0
NoLicense == 0
Terminal == {"succeeded", "failed"}
Status == {"absent", "queued", "solving"} \cup Terminal

Lease == [job : Job, token : Nat, at : Nat, until : Nat]
Closed == [kind |-> "closed", now |-> 0, want |-> AnyJob, expired |-> {}]
Txn == [kind : {"closed", "claim", "pending"}, now : Nat,
        want : Job \cup {AnyJob}, expired : SUBSET Job]

Init ==
    /\ clock = 1
    /\ status = [j \in Job |-> "absent"]
    /\ created = [j \in Job |-> 0]
    /\ lease = [j \in Job |-> NoToken]
    /\ expires = [j \in Job |-> 0]
    /\ result = [j \in Job |-> NoToken]
    /\ donation = [j \in Job |-> NoLicense]
    /\ outbox = {}
    /\ lastServed = [o \in Owner |-> NeverServed]
    /\ leases = {}
    /\ tokens = 0
    /\ txn = [c \in Conn |-> Closed]

-----------------------------------------------------------------------------
(* Readings of the time, and who may write when.                           *)

Now == {t \in 1..clock : clock <= t + Lag}

LeaseSpan == IF LeaseSeconds > 1 THEN LeaseSeconds ELSE 1

Open(kind) == {c \in Conn : txn[c].kind = kind}

(* SQLite: one writer at a time.  PostgreSQL: writers do not exclude each   *)
(* other beyond the row they update.                                        *)
WriteReserved == Dialect = "sqlite" /\ \E c \in Conn : txn[c] # Closed

(* The expired leases as the SELECT of reclaim_expired sees them.           *)
Expired(now) == {j \in Job : status[j] = "solving" /\ expires[j] <= now}

(* The rows its UPDATE ... WHERE status = 'solving' then really changes:    *)
(* it does not look at lease_expires_at again.                              *)
Reclaimed(c) == {j \in txn[c].expired : status[j] = "solving"}

StatusAfterReclaim(c) ==
    [j \in Job |-> IF j \in Reclaimed(c) THEN "queued" ELSE status[j]]

(* Variant for the mutation runs: the outbox row is not reset.              *)
OutboxUntouched(c) == outbox

(* Every selected id has its outbox row reset, whether or not the UPDATE of *)
(* the job row matched.                                                     *)
OutboxAfterReclaim(c) == outbox \cup txn[c].expired

(* Variant for the mutation runs: the token is not compared.                *)
ActiveForAnyone(l, now) ==
    /\ status[l.job] = "solving"
    /\ expires[l.job] > now

(* The condition of every worker operation: WHERE status = 'solving' AND    *)
(* lease_token = ? AND lease_expires_at > now.                              *)
LeaseActive(l, now) ==
    /\ status[l.job] = "solving"
    /\ lease[l.job] = l.token
    /\ expires[l.job] > now

-----------------------------------------------------------------------------
(* enqueue (INSERT ... ON CONFLICT(object_key) DO NOTHING): a second        *)
(* enqueue of the same object finds the row and changes nothing.            *)
Enqueue(j, at) ==
    /\ ~WriteReserved
    /\ status[j] = "absent"
    /\ status' = [status EXCEPT ![j] = "queued"]
    /\ created' = [created EXCEPT ![j] = at]
    /\ outbox' = outbox \cup {j}
    /\ UNCHANGED <<clock, lease, expires, result, donation, lastServed, leases,
                   tokens, txn>>

(* claim, up to the SELECT of reclaim_expired.  SQLite reads `now' with the *)
(* write reservation already held; PostgreSQL reads it before it waits for  *)
(* the advisory lock.                                                       *)
BeginClaim(c, want, now) ==
    /\ txn[c] = Closed
    /\ ~WriteReserved
    /\ IF Dialect = "sqlite" THEN now = clock ELSE Open("claim") = {}
    /\ txn' = [txn EXCEPT ![c] = [kind |-> "claim", now |-> now, want |-> want,
                                  expired |-> Expired(now)]]
    /\ UNCHANGED <<clock, status, created, lease, expires, result, donation,
                   outbox, lastServed, leases, tokens>>

(* select_candidate, after the reclaim.                                     *)
Candidates(c) ==
    LET queued == {j \in Job : StatusAfterReclaim(c)[j] = "queued"}
        want == txn[c].want
    IN  IF want # AnyJob
          THEN queued \cap {want}
          ELSE Winners(queued, txn[c].now,
                       [j \in Job |-> lastServed[OwnerOf[j]]], WeightOf, created)

(* The rest of claim when a candidate was found: the lease and the owner's  *)
(* service time are written and the transaction commits.                    *)
GrantClaim(c, j) ==
    LET now == txn[c].now
        token == tokens + 1
    IN  /\ txn[c].kind = "claim"
        /\ tokens < MaxLeases
        /\ j \in Candidates(c)
        /\ status' = [StatusAfterReclaim(c) EXCEPT ![j] = "solving"]
        /\ lease' = [k \in Job |-> IF k = j THEN token
                                   ELSE IF k \in Reclaimed(c) THEN NoToken
                                   ELSE lease[k]]
        /\ expires' = [k \in Job |-> IF k = j THEN now + LeaseSpan
                                     ELSE IF k \in Reclaimed(c) THEN 0
                                     ELSE expires[k]]
        /\ outbox' = OutboxAfterReclaim(c)
        /\ lastServed' = [lastServed EXCEPT ![OwnerOf[j]] = now]
        /\ leases' = leases \cup {[job |-> j, token |-> token, at |-> now,
                                   until |-> now + LeaseSpan]}
        /\ tokens' = token
        /\ txn' = [txn EXCEPT ![c] = Closed]
        /\ UNCHANGED <<clock, created, result, donation>>

(* The reclaim alone is committed: by a claim that found no candidate, and  *)
(* by pending_notifications, which then returns the outbox.                 *)
CommitReclaim(c) ==
    /\ txn[c] # Closed
    /\ txn[c].kind = "claim" => Candidates(c) = {}
    /\ status' = StatusAfterReclaim(c)
    /\ lease' = [k \in Job |-> IF k \in Reclaimed(c) THEN NoToken ELSE lease[k]]
    /\ expires' = [k \in Job |-> IF k \in Reclaimed(c) THEN 0 ELSE expires[k]]
    /\ outbox' = OutboxAfterReclaim(c)
    /\ txn' = [txn EXCEPT ![c] = Closed]
    /\ UNCHANGED <<clock, created, result, donation, lastServed, leases, tokens>>

(* pending_notifications, up to the SELECT of reclaim_expired.              *)
BeginPending(c, now) ==
    /\ txn[c] = Closed
    /\ ~WriteReserved
    /\ Dialect = "sqlite" => now = clock
    /\ txn' = [txn EXCEPT ![c] = [kind |-> "pending", now |-> now,
                                  want |-> AnyJob, expired |-> Expired(now)]]
    /\ UNCHANGED <<clock, status, created, lease, expires, result, donation,
                   outbox, lastServed, leases, tokens>>

(* The process or its connection dies inside a transaction, or a statement  *)
(* fails and `?' drops it: the database rolls it back.                      *)
Rollback(c) ==
    /\ txn[c] # Closed
    /\ txn' = [txn EXCEPT ![c] = Closed]
    /\ UNCHANGED <<clock, status, created, lease, expires, result, donation,
                   outbox, lastServed, leases, tokens>>

(* heartbeat by the holder of lease l; it is told the new expiry.  When the *)
(* lease is not active the UPDATE matches no row.                           *)
Heartbeat(l, now) ==
    /\ ~WriteReserved
    /\ LeaseActive(l, now)
    /\ expires' = [expires EXCEPT ![l.job] = now + LeaseSpan]
    /\ leases' = (leases \ {l}) \cup {[l EXCEPT !.until = now + LeaseSpan]}
    /\ UNCHANGED <<clock, status, created, lease, result, donation, outbox,
                   lastServed, tokens, txn>>

(* complete with a solution (which wins when both are given) or an error.   *)
Complete(l, end, now) ==
    /\ ~WriteReserved
    /\ LeaseActive(l, now)
    /\ status' = [status EXCEPT ![l.job] = end]
    /\ result' = [result EXCEPT ![l.job] = l.token]
    /\ lease' = [lease EXCEPT ![l.job] = NoToken]
    /\ expires' = [expires EXCEPT ![l.job] = 0]
    /\ UNCHANGED <<clock, created, donation, outbox, lastServed, leases, tokens,
                   txn>>

(* Variant for the mutation runs: donation of a job that is not finished.   *)
DonateUnfinished(j, license) ==
    /\ ~WriteReserved
    /\ status[j] # "absent"
    /\ donation' = [donation EXCEPT ![j] = IF @ = NoLicense THEN license ELSE @]
    /\ UNCHANGED <<clock, status, created, lease, expires, result, outbox,
                   lastServed, leases, tokens, txn>>

(* donate_validation: a repeated donation keeps the licence first agreed to. *)
DonateValidation(j, license) ==
    /\ ~WriteReserved
    /\ status[j] \in Terminal
    /\ donation' = [donation EXCEPT ![j] = IF @ = NoLicense THEN license ELSE @]
    /\ UNCHANGED <<clock, status, created, lease, expires, result, outbox,
                   lastServed, leases, tokens, txn>>

MarkNotificationDelivered(j) ==
    /\ ~WriteReserved
    /\ outbox' = outbox \ {j}
    /\ UNCHANGED <<clock, status, created, lease, expires, result, donation,
                   lastServed, leases, tokens, txn>>

Tick ==
    /\ clock < MaxTime
    /\ clock' = clock + 1
    /\ UNCHANGED <<status, created, lease, expires, result, donation, outbox,
                   lastServed, leases, tokens, txn>>

Next ==
    \/ \E j \in Job, now \in Now : Enqueue(j, now)
    \/ \E c \in Conn, want \in Requested, now \in Now : BeginClaim(c, want, now)
    \/ \E c \in Conn, j \in Job : GrantClaim(c, j)
    \/ \E c \in Conn, now \in Now : BeginPending(c, now)
    \/ \E c \in Conn : CommitReclaim(c) \/ Rollback(c)
    \/ \E l \in leases, now \in Now : Heartbeat(l, now)
    \/ \E l \in leases, end \in Terminal, now \in Now : Complete(l, end, now)
    \/ \E j \in Job, license \in License : DonateValidation(j, license)
    \/ \E j \in Job : MarkNotificationDelivered(j)
    \/ Tick

Spec == Init /\ [][Next]_vars

-----------------------------------------------------------------------------
(* Properties.                                                             *)

(* Types: the columns, the transactions and the leases handed out.          *)
TypeOK ==
    /\ clock \in Nat \ {0}
    /\ status \in [Job -> Status]
    /\ created \in [Job -> Nat]
    /\ lease \in [Job -> Nat]
    /\ expires \in [Job -> Nat]
    /\ result \in [Job -> Nat]
    /\ donation \in [Job -> License \cup {NoLicense}]
    /\ outbox \subseteq Job
    /\ lastServed \in [Owner -> Nat]
    /\ leases \subseteq Lease
    /\ tokens \in Nat
    /\ txn \in [Conn -> Txn]

(* "A stale worker cannot ... overwrite a retried result": the stored result *)
(* of a job comes from the newest lease ever handed out for it, although     *)
(* holders of older leases keep calling heartbeat and complete.              *)
StaleWorkerNeverWins ==
    \A l \in leases : result[l.job] # NoToken => l.token <= result[l.job]

(* A finished job stays finished with the result it got: no reclaim, claim,  *)
(* late completion or donation takes it out of its terminal status.          *)
TerminalIsFinal ==
    [][\A j \in Job : status[j] \in Terminal =>
          status'[j] = status[j] /\ result'[j] = result[j]]_vars

(* Leases are exclusive: no two holders of leases of the same job were both  *)
(* told an expiry that has not passed yet.                                   *)
LeaseExclusive ==
    \A l, m \in leases :
        l.job = m.job /\ l.until > clock /\ m.until > clock => l = m

(* The times owner o was served ahead of job j: with a job of no greater     *)
(* weight, after j came and after the last service of the owner of j, at a   *)
(* time at which j was waiting or its lease had run out, so that the claim   *)
(* had j to choose from.  `After' is later by more than Lag: a claim reads   *)
(* its time before it waits for the advisory lock, so times closer than that *)
(* do not tell the order in which claims were served.                        *)
ServedAhead(o, j) ==
    {l \in leases : /\ OwnerOf[l.job] = o
                    /\ WeightOf[l.job] <= WeightOf[j]
                    /\ l.at > created[j] + Lag
                    /\ l.at > lastServed[OwnerOf[j]] + Lag
                    /\ \A m \in leases : m.job = j => m.until + Lag <= l.at}

(* "A single client cannot keep a backlog ahead of a client that has not     *)
(* recently received service": while a job waits, no other owner is served   *)
(* twice ahead of it, whatever claims were delayed between reading the time  *)
(* and getting the lock.                                                     *)
NoOwnerOvertakenTwice ==
    \A j \in Job, o \in Owner :
        status[j] = "queued" /\ o # OwnerOf[j] => Cardinality(ServedAhead(o, j)) <= 1

(* The input a worker is given is the uploaded original, never a donated     *)
(* copy (COALESCE in input_key): a donation never coexists with a lease.     *)
SolvesOnlyOriginals ==
    \A j \in Job : status[j] = "solving" => donation[j] = NoLicense

-----------------------------------------------------------------------------
(* The inductive invariants behind those properties.                       *)

(* On either dialect: a lease token is in the row exactly while the job is  *)
(* being solved, it is the newest token handed out for the job, and a       *)
(* stored result carries the newest token too.                              *)
LeaseDiscipline ==
    /\ \A j \in Job : /\ status[j] = "solving" <=> lease[j] # NoToken
                      /\ result[j] # NoToken => status[j] \in Terminal
                      /\ donation[j] # NoLicense => status[j] \in Terminal
    /\ \A l \in leases : /\ l.token \in 1..tokens
                         /\ status[l.job] = "solving" => l.token <= lease[l.job]
    /\ StaleWorkerNeverWins
    /\ \A c \in Conn : \A j \in txn[c].expired : status[j] # "absent"

(* On SQLite: at most one transaction is open, the leases it selected are    *)
(* still expired, tokens identify leases, and a lease whose holder counts on *)
(* it is the current one or the one that finished the job.                   *)
OneWriter ==
    \A c, d \in Conn : txn[c] # Closed /\ txn[d] # Closed => c = d

SelectedStillExpired ==
    \A c \in Conn : \A j \in txn[c].expired :
        status[j] = "solving" /\ expires[j] <= clock

TokensIdentify ==
    \A l, m \in leases : l.token = m.token => l = m

CountedOnIsCurrent ==
    \A l \in leases : l.until > clock =>
        \/ status[l.job] \in Terminal /\ result[l.job] = l.token
        \/ /\ status[l.job] = "solving"
           /\ lease[l.job] = l.token
           /\ expires[l.job] = l.until

ExclusionDiscipline ==
    OneWriter /\ SelectedStillExpired /\ TokensIdentify /\ CountedOnIsCurrent

(* The store implements the contract of the JobRepository trait.             *)
Lifecycle == INSTANCE JobLifecycle
LifecycleSpec == Lifecycle!Spec
=============================================================================
