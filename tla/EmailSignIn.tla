----------------------------- MODULE EmailSignIn ----------------------------
(***************************************************************************)
(* Signing in by email: start_email and complete_email of the account        *)
(* service (src/src/auth.rs) over the identity store, which is SQLite or     *)
(* PostgreSQL (sqlx_identity.rs) or DynamoDB (dynamodb_identity.rs).         *)
(*                                                                         *)
(* The module follows the challenges of ONE address; those of different      *)
(* addresses share no record.  A challenge stands for the link and the code  *)
(* of one message: a request either knows its secret or guesses wrongly.     *)
(* Each back end has its own actions, at the grain at which its calls can    *)
(* interleave: one transaction on SQLite (a pool of one connection), the     *)
(* statements of a READ COMMITTED transaction with their row locks on        *)
(* PostgreSQL, reads followed by one conditional transaction on DynamoDB.    *)
(***************************************************************************)
EXTENDS Naturals, FiniteSets, Sequences

CONSTANTS
    Challenge,      \* start_email calls, one challenge each
    Request,        \* complete_email calls
    Backends,       \* the stores to consider
    None,           \* no lock holder, no account
    MaxLive,        \* MAX_LIVE_EMAIL_CHALLENGES
    MaxAttempts,    \* MAX_CHALLENGE_ATTEMPTS
    Lifetime,       \* CHALLENGE_LIFETIME
    Retries,        \* attempts of an optimistic DynamoDB transaction
    MaxTime         \* bound on the clock

ASSUME EmailSignInAssumptions ==
    /\ Backends \subseteq {"sqlite", "postgres", "dynamodb"}
    /\ None \notin Request
    /\ MaxLive \in Nat \ {0} /\ MaxAttempts \in Nat \ {0}
    /\ Lifetime \in Nat \ {0} /\ Retries \in Nat \ {0} /\ MaxTime \in Nat

VARIABLES
    backend,        \* the configured store
    clock,          \* Utc::now()
    chal,           \* auth_challenges: Challenge -> row
    tracker,        \* DynamoDB: the address's CHALLENGES item, newest first
    accounts,       \* accounts with this address, named by who created them
    disabled,       \* the account is not active
    sessions,       \* browser sessions minted, [by, code, account]: each request
                    \* that signs in inserts a session of its own
    start,          \* Challenge -> progress of its start_email call
    req,            \* Request -> progress of its complete_email call
    lock,           \* PostgreSQL: Challenge -> holder of the row lock
    accountLock     \* PostgreSQL: holder of an uncommitted account insert

vars == <<backend, clock, chal, tracker, accounts, disabled, sessions,
          start, req, lock, accountLock>>
store == <<chal, tracker, accounts, sessions, lock, accountLock>>

(* An account that was there before any of these requests.                   *)
OldAccount == "old"

(* A call that holds nothing but its place.                                  *)
StartAt(pc) == [pc |-> pc, version |-> 0, ids |-> <<>>, evict |-> {}, tries |-> 0]
RequestAt(pc) == [pc |-> pc, code |-> None, now |-> 0, before |-> {}, version |-> 0,
                  kill |-> {}, account |-> None, tries |-> 0]

Init ==
    /\ backend \in Backends
    /\ clock = 0
    /\ chal = [c \in Challenge |-> [stored |-> FALSE, consumed |-> FALSE,
                                    attempts |-> 0, created |-> 0]]
    /\ tracker = [version |-> 0, ids |-> <<>>]
    /\ accounts \in {{}, {OldAccount}}
    /\ disabled \in BOOLEAN /\ (disabled => accounts # {})
    /\ sessions = {}
    /\ start = [c \in Challenge |-> StartAt("idle")]
    /\ req = [r \in Request |-> RequestAt("idle")]
    /\ lock = [c \in Challenge |-> None]
    /\ accountLock = None

-----------------------------------------------------------------------------
Live(c, t) ==
    /\ chal[c].stored /\ ~chal[c].consumed
    /\ t < chal[c].created + Lifetime

(* consumed_at IS NULL AND expires_at > now AND attempts < max_attempts.     *)
Usable(c, t) == Live(c, t) /\ chal[c].attempts < MaxAttempts

Issued == {c \in Challenge : start[c].pc = "done"}

Consume(S) == [c \in Challenge |-> IF c \in S THEN [chal[c] EXCEPT !.consumed = TRUE]
                                             ELSE chal[c]]

(* Rows past the MaxLive newest of S: ORDER BY created_at DESC, then         *)
(* skip(max_live); rows of the same instant come in any order.               *)
Surplus(S) ==
    {E \in SUBSET S :
        /\ Cardinality(E) = IF Cardinality(S) > MaxLive THEN Cardinality(S) - MaxLive ELSE 0
        /\ \A e \in E, k \in S \ E : chal[e].created <= chal[k].created}

Tick ==
    /\ clock < MaxTime
    /\ clock' = clock + 1
    /\ UNCHANGED <<backend, store, disabled, start, req>>

(* purge_expired and the DynamoDB TTL remove challenges some time after      *)
(* their expiry.                                                             *)
Purge(c) ==
    /\ chal[c].stored
    /\ clock >= chal[c].created + Lifetime
    /\ lock[c] = None
    /\ chal' = [chal EXCEPT ![c].stored = FALSE]
    /\ UNCHANGED <<backend, clock, tracker, accounts, disabled, sessions, start,
                   req, lock, accountLock>>

-----------------------------------------------------------------------------
(* start_email.  The time of creation is read before the store is called.    *)
(* A call that fails or whose process dies just stops where it is: until it  *)
(* commits it has changed nothing.                                           *)

BeginStart(c) ==
    /\ start[c].pc = "idle"
    /\ start' = [start EXCEPT ![c].pc = "store"]
    /\ chal' = [chal EXCEPT ![c].created = clock]
    /\ UNCHANGED <<backend, clock, tracker, accounts, disabled, sessions, req,
                   lock, accountLock>>

SqliteStart(c) ==
    /\ backend = "sqlite"
    /\ start[c].pc = "store"
    /\ \E E \in Surplus({d \in Challenge : Live(d, chal[c].created)} \cup {c}) :
         chal' = [Consume(E) EXCEPT ![c].stored = TRUE]
    /\ start' = [start EXCEPT ![c] = StartAt("done")]
    /\ UNCHANGED <<backend, clock, tracker, accounts, disabled, sessions, req,
                   lock, accountLock>>

(* The insert is not yet visible to others; the SELECT sees the committed    *)
(* challenges and this one.                                                  *)
PgStartSelect(c) ==
    /\ backend = "postgres"
    /\ start[c].pc = "store"
    /\ \E E \in Surplus({d \in Challenge : Live(d, chal[c].created)} \cup {c}) :
         start' = [start EXCEPT ![c].pc = "evict", ![c].evict = E]
    /\ UNCHANGED <<backend, clock, store, disabled, req>>

(* UPDATE ... WHERE consumed_at IS NULL waits for the holders of row locks.  *)
PgStartCommit(c) ==
    /\ start[c].pc = "evict"
    /\ \A d \in start[c].evict : lock[d] = None
    /\ chal' = [Consume(start[c].evict) EXCEPT ![c].stored = TRUE]
    /\ start' = [start EXCEPT ![c] = StartAt("done")]
    /\ UNCHANGED <<backend, clock, tracker, accounts, disabled, sessions, req,
                   lock, accountLock>>

DynStartRead(c) ==
    /\ backend = "dynamodb"
    /\ start[c].pc = "store"
    /\ start' = [start EXCEPT ![c].pc = "write", ![c].version = tracker.version,
                              ![c].ids = tracker.ids]
    /\ UNCHANGED <<backend, clock, store, disabled, req>>

IdsOf(s) == {s[i] : i \in 1..Len(s)}

(* retain(|id| *id != c): the list holds an id at most once.                 *)
Without(s, c) ==
    IF c \in IdsOf(s)
      THEN LET i == CHOOSE i \in 1..Len(s) : s[i] = c
           IN  SubSeq(s, 1, i - 1) \o SubSeq(s, i + 1, Len(s))
      ELSE s

(* The list of start_email: the new id first, then cut at max_live.          *)
WithNew(s, c) == <<c>> \o Without(s, c)
Newest(s) == SubSeq(s, 1, IF Len(s) < MaxLive THEN Len(s) ELSE MaxLive)

(* Variant for the mutation runs: the tracker is written unconditionally.    *)
TrackerIsNew(version) == TRUE

(* #version = :version, or attribute_not_exists(pk) for the first one.       *)
TrackerIs(version) == tracker.version = version

(* One transaction: the challenge, the tracker with at most MaxLive ids and  *)
(* the deletion of the ids that fell off.                                    *)
DynStartWrite(c) ==
    LET ids == WithNew(start[c].ids, c)
        kept == Newest(ids)
    IN  /\ backend = "dynamodb"
        /\ start[c].pc = "write"
        /\ TrackerIs(start[c].version)
        /\ tracker' = [version |-> start[c].version + 1, ids |-> kept]
        /\ chal' = [d \in Challenge |->
                [chal[d] EXCEPT !.stored = IF d = c THEN TRUE
                                           ELSE @ /\ d \notin IdsOf(ids) \ IdsOf(kept)]]
        /\ start' = [start EXCEPT ![c] = StartAt("done")]
        /\ UNCHANGED <<backend, clock, accounts, disabled, sessions, req, lock,
                       accountLock>>

(* The transaction is cancelled: the tracker changed, or another transaction *)
(* was writing at the same time.                                             *)
DynStartCancelled(c) ==
    /\ backend = "dynamodb"
    /\ start[c].pc = "write"
    /\ start' = [start EXCEPT ![c] =
            IF @.tries + 1 < Retries THEN [StartAt("store") EXCEPT !.tries = start[c].tries + 1]
                                     ELSE StartAt("failed")]
    /\ UNCHANGED <<backend, clock, store, disabled, req>>

-----------------------------------------------------------------------------
(* complete_email.  A request keeps the time at which it arrived.            *)

BeginComplete(r, c) ==
    /\ req[r].pc = "idle"
    /\ c \in Issued
    /\ req' = [req EXCEPT ![r].pc = "check", ![r].code = c, ![r].now = clock,
                          ![r].before = Issued]
    /\ UNCHANGED <<backend, clock, store, disabled, start>>

Refuse(r) == req' = [req EXCEPT ![r] = RequestAt("refused")]

(* challenge_by_id and the comparison of the secret, which matches or not.   *)
Check(r) ==
    /\ req[r].pc = "check"
    /\ IF Usable(req[r].code, req[r].now)
         THEN \E pc \in {"complete", "fail"} : req' = [req EXCEPT ![r].pc = pc]
         ELSE Refuse(r)
    /\ UNCHANGED <<backend, clock, store, disabled, start>>

(* record_challenge_failure: one conditional update on every back end.       *)
RecordFailure(r) ==
    LET c == req[r].code
    IN  /\ req[r].pc = "fail"
        /\ lock[c] = None
        /\ Refuse(r)
        /\ chal' = [chal EXCEPT ![c].attempts =
                        IF Usable(c, req[r].now) THEN @ + 1 ELSE @]
        /\ UNCHANGED <<backend, clock, tracker, accounts, disabled, sessions, start,
                       lock, accountLock>>

(* Variant for the mutation runs: the consuming write does not ask whether   *)
(* the challenge was consumed since it was read.                             *)
ConsumableAgain(r) ==
    LET c == req[r].code
    IN  /\ chal[c].stored /\ chal[c].attempts < MaxAttempts
        /\ req[r].now < chal[c].created + Lifetime

(* The condition of the consuming write.                                     *)
Consumable(r) == Usable(req[r].code, req[r].now)

Succeed(r) ==
    req' = [req EXCEPT ![r] = [RequestAt("done") EXCEPT !.before = req[r].before]]

(* The account the session will belong to: the address's, or a new one.      *)
AccountFor(r) == IF accounts = {} THEN r ELSE CHOOSE a \in accounts : TRUE

Mint(r, account) ==
    /\ sessions' = sessions \cup {[by |-> r, code |-> req[r].code, account |-> account]}
    /\ accounts' = accounts \cup {account}

(* Variant for the mutation runs: only the code that was used is consumed.   *)
OthersIgnored(r) == {}

(* Every other unconsumed challenge of the address.                          *)
Others(r) ==
    {d \in Challenge \ {req[r].code} : chal[d].stored /\ ~chal[d].consumed}

SqliteComplete(r) ==
    /\ backend = "sqlite"
    /\ req[r].pc = "complete"
    /\ IF Consumable(r) /\ ~disabled
         THEN /\ Mint(r, AccountFor(r))
              /\ chal' = Consume({req[r].code} \cup Others(r))
              /\ Succeed(r)
         ELSE Refuse(r) /\ UNCHANGED <<chal, accounts, sessions>>
    /\ UNCHANGED <<backend, clock, tracker, disabled, start, lock, accountLock>>

-----------------------------------------------------------------------------
(* complete_email_challenge on PostgreSQL, statement by statement.           *)

Unlock(r) ==
    /\ lock' = [c \in Challenge |-> IF lock[c] = r THEN None ELSE lock[c]]
    /\ accountLock' = IF accountLock = r THEN None ELSE accountLock

(* The conditional UPDATE waits for the row lock, then looks at the row.     *)
PgConsume(r) ==
    LET c == req[r].code
    IN  /\ backend = "postgres"
        /\ req[r].pc = "complete"
        /\ lock[c] = None
        /\ IF Consumable(r)
             THEN /\ lock' = [lock EXCEPT ![c] = r]
                  /\ req' = [req EXCEPT ![r].pc = "account"]
             ELSE Refuse(r) /\ UNCHANGED lock
        /\ UNCHANGED <<backend, clock, chal, tracker, accounts, disabled, sessions,
                       start, accountLock>>

(* Variant for the mutation runs: without the unique index nobody waits for  *)
(* another transaction's insert.                                             *)
PgAccountNoIndex(r) ==
    /\ backend = "postgres"
    /\ req[r].pc = "account"
    /\ req' = [req EXCEPT ![r].pc = "blanket", ![r].account = AccountFor(r)]
    /\ UNCHANGED <<backend, clock, store, disabled, start>>

(* SELECT the account, else INSERT ... ON CONFLICT DO NOTHING, which waits   *)
(* for another transaction's insert, and SELECT it again.                    *)
PgAccount(r) ==
    /\ backend = "postgres"
    /\ req[r].pc = "account"
    /\ accounts # {} \/ accountLock = None
    /\ IF disabled
         THEN Refuse(r) /\ Unlock(r)
         ELSE /\ req' = [req EXCEPT ![r].pc = "blanket", ![r].account = AccountFor(r)]
              /\ accountLock' = IF accounts = {} THEN r ELSE accountLock
              /\ UNCHANGED lock
    /\ UNCHANGED <<backend, clock, chal, tracker, accounts, disabled, sessions, start>>

(* The UPDATE of all other unconsumed challenges waits for their locks.      *)
PgBlanket(r) ==
    /\ req[r].pc = "blanket"
    /\ \A d \in Others(r) : lock[d] = None
    /\ lock' = [d \in Challenge |-> IF d \in Others(r) THEN r ELSE lock[d]]
    /\ req' = [req EXCEPT ![r].pc = "commit", ![r].kill = Others(r)]
    /\ UNCHANGED <<backend, clock, chal, tracker, accounts, disabled, sessions,
                   start, accountLock>>

PgCommit(r) ==
    /\ req[r].pc = "commit"
    /\ Mint(r, req[r].account)
    /\ chal' = Consume({req[r].code} \cup req[r].kill)
    /\ Succeed(r)
    /\ Unlock(r)
    /\ UNCHANGED <<backend, clock, tracker, disabled, start>>

(* The transaction is rolled back: two of them wait for each other and one   *)
(* is chosen as the victim, or the connection or the process fails.          *)
PgAbort(r) ==
    /\ req[r].pc \in {"account", "blanket", "commit"}
    /\ Refuse(r)
    /\ Unlock(r)
    /\ UNCHANGED <<backend, clock, chal, tracker, accounts, disabled, sessions, start>>

-----------------------------------------------------------------------------
(* complete_email_challenge on DynamoDB: three consistent reads, then one    *)
(* transaction that repeats what they were decided on as conditions.         *)

DynLoad(r) ==
    /\ backend = "dynamodb"
    /\ req[r].pc = "complete"
    /\ IF Usable(req[r].code, req[r].now) THEN req' = [req EXCEPT ![r].pc = "tracker"]
                                          ELSE Refuse(r)
    /\ UNCHANGED <<backend, clock, store, disabled, start>>

DynReadTracker(r) ==
    /\ req[r].pc = "tracker"
    /\ req' = [req EXCEPT ![r].pc = "lookup", ![r].version = tracker.version,
                          ![r].kill = IdsOf(tracker.ids) \ {req[r].code}]
    /\ UNCHANGED <<backend, clock, store, disabled, start>>

DynReadAccount(r) ==
    /\ req[r].pc = "lookup"
    /\ IF disabled THEN Refuse(r)
       ELSE req' = [req EXCEPT ![r].pc = "write", ![r].account = AccountFor(r)]
    /\ UNCHANGED <<backend, clock, store, disabled, start>>

DynWrite(r) ==
    /\ backend = "dynamodb"
    /\ req[r].pc = "write"
    /\ Consumable(r)
    /\ TrackerIs(req[r].version)
    /\ req[r].account = r => accounts = {}
    /\ Mint(r, req[r].account)
    /\ tracker' = [version |-> req[r].version + 1, ids |-> <<>>]
    /\ chal' = [d \in Challenge |->
            IF d = req[r].code THEN [chal[d] EXCEPT !.consumed = TRUE]
            ELSE [chal[d] EXCEPT !.stored = @ /\ d \notin req[r].kill]]
    /\ Succeed(r)
    /\ UNCHANGED <<backend, clock, disabled, start, lock, accountLock>>

(* The transaction is cancelled: read the challenge again, and start over    *)
(* only if it is still usable.                                               *)
DynCancelled(r) ==
    /\ backend = "dynamodb"
    /\ req[r].pc = "write"
    /\ IF Usable(req[r].code, req[r].now) /\ req[r].tries + 1 < Retries
         THEN req' = [req EXCEPT ![r].pc = "complete", ![r].tries = @ + 1]
         ELSE Refuse(r)
    /\ UNCHANGED <<backend, clock, store, disabled, start>>

-----------------------------------------------------------------------------
Starting(c) ==
    \/ BeginStart(c) \/ SqliteStart(c) \/ PgStartSelect(c)
    \/ PgStartCommit(c) \/ DynStartRead(c) \/ DynStartWrite(c)
    \/ DynStartCancelled(c)

Completing(r) ==
    \/ \E c \in Challenge : BeginComplete(r, c)
    \/ Check(r) \/ RecordFailure(r) \/ SqliteComplete(r)
    \/ PgConsume(r) \/ PgAccount(r) \/ PgBlanket(r) \/ PgCommit(r) \/ PgAbort(r)
    \/ DynLoad(r) \/ DynReadTracker(r) \/ DynReadAccount(r) \/ DynWrite(r)
    \/ DynCancelled(r)

Next ==
    \/ Tick
    \/ \E c \in Challenge : Purge(c) \/ Starting(c)
    \/ \E r \in Request : Completing(r)

Spec == Init /\ [][Next]_vars

-----------------------------------------------------------------------------
(* Properties.                                                             *)

WorkingCodes == {c \in Challenge : /\ chal[c].stored /\ ~chal[c].consumed
                                  /\ chal[c].attempts < MaxAttempts}
SignIns == {[by |-> s.by, code |-> s.code] : s \in sessions}
Codes == INSTANCE OneTimeCode WITH usable <- WorkingCodes, signIns <- SignIns

(* Every store implements one-time codes: however starts, completions and    *)
(* wrong guesses interleave, one code never mints two sessions, though two   *)
(* requests may both find it unused, and none after it                       *)
(* was locked by MaxAttempts failures, evicted or invalidated, and a code    *)
(* that stopped working does not come back.                                  *)
CodesAreOneTime == Codes!Spec

(* A completed sign-in leaves no code working that had been issued for the   *)
(* address before the request arrived, although each store finds those codes *)
(* in its own way (all unconsumed rows, or the ids in the tracker).          *)
SignInVoidsEarlierCodes ==
    \A r \in Request : req[r].pc = "done" =>
        \A c \in req[r].before : ~chal[c].stored \/ chal[c].consumed

(* An address never gets a second account, although several first sign-ins   *)
(* may each find none and create one; every session belongs to it, and an    *)
(* account that is not active gets none.                                     *)
OneAccountPerAddress ==
    /\ Cardinality(accounts) <= 1
    /\ disabled => sessions = {}

(* At most MaxLive codes of the address work at a time on SQLite and         *)
(* DynamoDB.  On PostgreSQL concurrent start_email calls do not see each     *)
(* other's challenge and may leave one more each, until the next call.       *)
LiveCodesBounded ==
    backend \in {"sqlite", "dynamodb"} =>
        Cardinality({c \in Challenge : Live(c, clock)}) <= MaxLive
=============================================================================
