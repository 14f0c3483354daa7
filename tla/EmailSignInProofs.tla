-------------------------- MODULE EmailSignInProofs -------------------------
(***************************************************************************)
(* Proofs about email sign-in, for any challenges, requests, limits and      *)
(* lifetimes, on each of the three back ends.                                *)
(***************************************************************************)
EXTENDS EmailSignIn, FiniteSetTheorems, SequenceTheorems, TLAPS

-----------------------------------------------------------------------------
(* The invariant.                                                            *)

StartPcs == {"idle", "store", "evict", "write", "done", "failed"}
OpenPcs == {"check", "complete", "fail", "account", "blanket", "commit",
            "tracker", "lookup", "write"}
RequestPcs == {"idle", "refused", "done"} \cup OpenPcs
Account == Request \cup {OldAccount}

Row == [stored : BOOLEAN, consumed : BOOLEAN, attempts : Nat, created : Nat]
StartState == [pc : StartPcs, version : Nat, ids : Seq(Challenge),
               evict : SUBSET Challenge, tries : Nat]
RequestState == [pc : RequestPcs, code : Challenge \cup {None}, now : Nat,
                 before : SUBSET Challenge, version : Nat, kill : SUBSET Challenge,
                 account : Account \cup {None}, tries : Nat]

StartTypes == start \in [Challenge -> StartState]

RequestTypes ==
    /\ req \in [Request -> RequestState]
    /\ \A r \in Request :
         /\ req[r].pc \in OpenPcs => req[r].code \in Challenge
         /\ req[r].pc \in {"blanket", "commit", "write"} => req[r].account \in Account

(* Types of the variables.                                                   *)
TypeOK ==
    /\ backend \in Backends
    /\ clock \in Nat
    /\ chal \in [Challenge -> Row]
    /\ tracker \in [version : Nat, ids : Seq(Challenge)]
    /\ accounts \subseteq Account
    /\ disabled \in BOOLEAN
    /\ sessions \subseteq [by : Request, code : Challenge, account : Account]
    /\ StartTypes /\ RequestTypes
    /\ lock \in [Challenge -> Request \cup {None}]
    /\ accountLock \in Request \cup {None}

(* A code that no longer works, whatever the time.                           *)
Void(c) == ~chal[c].stored \/ chal[c].consumed

(* A code that can still sign in, time permitting.                           *)
Working(c) == chal[c].stored /\ ~chal[c].consumed /\ chal[c].attempts < MaxAttempts

(* A row is stored by the last step of its own start_email; requests and     *)
(* sessions are about rows that were, and stay in the code of one back end.  *)
Stages ==
    /\ \A c \in Challenge :
         /\ start[c].pc = "evict" => backend = "postgres"
         /\ start[c].pc # "done" => ~chal[c].stored
    /\ \A r \in Request :
         /\ req[r].pc \in {"account", "blanket", "commit"} => backend = "postgres"
         /\ req[r].pc \in {"tracker", "lookup", "write"} => backend = "dynamodb"
         /\ req[r].pc \in OpenPcs => req[r].code \in Issued
         /\ req[r].before \subseteq Issued
    /\ \A s \in sessions : s.code \in Issued

(* PostgreSQL: from the conditional UPDATE to the commit the row lock keeps  *)
(* the code as the request found it.                                         *)
Locked ==
    \A r \in Request :
        /\ req[r].pc \in {"account", "blanket", "commit"} =>
             lock[req[r].code] = r /\ Working(req[r].code)
        /\ req[r].pc = "commit" => \A d \in req[r].kill : lock[d] = r

(* DynamoDB: the tracker lists every code that works, and who still holds    *)
(* its version holds its list.                                               *)
Tracked ==
    backend = "dynamodb" =>
        /\ \A c \in Challenge : ~Void(c) => c \in IdsOf(tracker.ids)
        /\ Len(tracker.ids) <= MaxLive
        /\ IdsOf(tracker.ids) \subseteq Issued
        /\ \A c \in Challenge : start[c].pc = "write" =>
             /\ start[c].version <= tracker.version
             /\ start[c].version = tracker.version => start[c].ids = tracker.ids
        /\ \A r \in Request : req[r].pc \in {"lookup", "write"} =>
             /\ req[r].version <= tracker.version
             /\ req[r].version = tracker.version =>
                    req[r].kill = IdsOf(tracker.ids) \ {req[r].code}

(* The codes issued before a request arrived are void once it is done, or    *)
(* among those its commit will consume.                                      *)
Voided ==
    \A r \in Request :
        /\ req[r].pc = "done" => \A c \in req[r].before : Void(c)
        /\ req[r].pc = "commit" =>
             \A c \in req[r].before : Void(c) \/ c \in req[r].kill \/ c = req[r].code

(* A request about to sign in has found the account, or found none and holds *)
(* the insert that keeps others from creating it (PostgreSQL).               *)
OneAccount ==
    /\ accounts = {} \/ \E a \in Account : accounts = {a}
    /\ disabled => sessions = {}
    /\ \A r \in Request :
         /\ req[r].pc \in {"blanket", "commit", "write"} => ~disabled
         /\ req[r].pc \in {"blanket", "commit"} =>
              \/ req[r].account \in accounts
              \/ req[r].account = r /\ accountLock = r /\ accounts = {}
         /\ req[r].pc = "write" => req[r].account \in accounts \/ req[r].account = r

SignInInv == Stages /\ Locked /\ Tracked /\ Voided /\ OneAccount

(* Every call to store a challenge leaves at most MaxLive of those that have *)
(* not expired when it began.                                                *)
FewLive ==
    /\ \A c \in Challenge : start[c].pc # "idle" => chal[c].created <= clock
    /\ IsFiniteSet({c \in Challenge : chal[c].stored})
    /\ backend = "sqlite" => Cardinality({c \in Challenge : Live(c, clock)}) <= MaxLive

-----------------------------------------------------------------------------
(* What the steps do to a call in progress, field by field.                  *)

OtherStarts(c) == \A d \in Challenge : d # c => start'[d] = start[d]
OtherRequests(r) == \A q \in Request : q # r => req'[q] = req[q]

StartGoesTo(c, p) == start'[c].pc = p

GoesTo(r, p) ==
    /\ req'[r].pc = p
    /\ req'[r].code = req[r].code /\ req'[r].before = req[r].before
    /\ req'[r].now = req[r].now

LEMMA StartUpdate ==
    ASSUME StartTypes, NEW c \in Challenge, NEW x \in StartState,
           start' = [start EXCEPT ![c] = x]
    PROVE  StartTypes' /\ OtherStarts(c) /\ start'[c] = x
BY DEF StartTypes, OtherStarts

(* A call of start_email that ends, or goes back to the beginning.           *)
LEMMA StartAtEffect ==
    ASSUME StartTypes, NEW c \in Challenge, NEW p \in StartPcs, NEW n \in Nat,
           start' = [start EXCEPT ![c] = [StartAt(p) EXCEPT !.tries = n]]
    PROVE  StartTypes' /\ OtherStarts(c) /\ start'[c].pc = p
<1>1. <<>> \in Seq(Challenge) /\ {} \in SUBSET Challenge
  OBVIOUS
<1>2. QED BY <1>1 DEF StartTypes, StartState, StartAt, OtherStarts, StartPcs

LEMMA StartEndEffect ==
    ASSUME StartTypes, NEW c \in Challenge, NEW p \in StartPcs,
           start' = [start EXCEPT ![c] = StartAt(p)]
    PROVE  StartTypes' /\ OtherStarts(c) /\ start'[c].pc = p
<1>1. <<>> \in Seq(Challenge) /\ {} \in SUBSET Challenge
  OBVIOUS
<1>2. QED BY <1>1 DEF StartTypes, StartState, StartAt, OtherStarts, StartPcs

LEMMA RefuseEffect ==
    ASSUME RequestTypes, NEW r \in Request, Refuse(r)
    PROVE  /\ RequestTypes' /\ OtherRequests(r)
           /\ req'[r].pc = "refused" /\ req'[r].before = {}
BY DEF RequestTypes, RequestState, RequestPcs, OpenPcs, Refuse, RequestAt, OtherRequests

LEMMA SucceedEffect ==
    ASSUME RequestTypes, NEW r \in Request, Succeed(r)
    PROVE  /\ RequestTypes' /\ OtherRequests(r)
           /\ req'[r].pc = "done" /\ req'[r].before = req[r].before
BY DEF RequestTypes, RequestState, RequestPcs, OpenPcs, Succeed, RequestAt, OtherRequests

(* A request that only moves on.                                             *)
LEMMA MoveEffect ==
    ASSUME RequestTypes, NEW r \in Request, req[r].pc \in OpenPcs, NEW p \in OpenPcs \ {"blanket", "commit", "write"},
           req' = [req EXCEPT ![r].pc = p]
    PROVE  /\ RequestTypes' /\ OtherRequests(r) /\ GoesTo(r, p)
           /\ req'[r].version = req[r].version /\ req'[r].kill = req[r].kill
           /\ req'[r].account = req[r].account
BY DEF RequestTypes, RequestState, RequestPcs, OtherRequests, GoesTo

LEMMA BeginEffect ==
    ASSUME TypeOK, NEW r \in Request, NEW c \in Challenge, BeginComplete(r, c)
    PROVE  /\ RequestTypes' /\ OtherRequests(r)
           /\ req'[r].pc = "check" /\ req'[r].code = c /\ req'[r].before = Issued
<1>1. RequestTypes /\ clock \in Nat /\ Issued \subseteq Challenge
  BY DEF TypeOK, Issued
<1>2. DEFINE x == [req[r] EXCEPT !.pc = "check", !.code = c, !.now = clock, !.before = Issued]
<1>3. req \in [Request -> RequestState] /\ req' = [req EXCEPT ![r] = x]
  BY <1>1 DEF BeginComplete, RequestTypes
<1>4. req[r] \in RequestState
  BY <1>3
<1>5. x \in RequestState /\ x.pc = "check" /\ x.code = c /\ x.before = Issued
  BY <1>1, <1>4 DEF RequestState, RequestPcs, OpenPcs
<1>6. req' \in [Request -> RequestState] /\ OtherRequests(r) /\ req'[r] = x
  BY <1>3, <1>5 DEF OtherRequests
<1>7. QED BY <1>1, <1>5, <1>6 DEF RequestTypes, OtherRequests

LEMMA AccountEffect ==
    ASSUME RequestTypes, NEW r \in Request, req[r].pc \in OpenPcs, NEW p \in OpenPcs,
           NEW a \in Account, req' = [req EXCEPT ![r].pc = p, ![r].account = a]
    PROVE  /\ RequestTypes' /\ OtherRequests(r) /\ GoesTo(r, p)
           /\ req'[r].version = req[r].version /\ req'[r].kill = req[r].kill
           /\ req'[r].account = a
BY DEF RequestTypes, RequestState, RequestPcs, OtherRequests, GoesTo

LEMMA KillEffect ==
    ASSUME RequestTypes, NEW r \in Request, req[r].pc = "blanket",
           NEW k \in SUBSET Challenge, req' = [req EXCEPT ![r].pc = "commit", ![r].kill = k]
    PROVE  /\ RequestTypes' /\ OtherRequests(r) /\ GoesTo(r, "commit")
           /\ req'[r].kill = k /\ req'[r].account = req[r].account
<1>1. DEFINE x == [req[r] EXCEPT !.pc = "commit", !.kill = k]
<1>2. req \in [Request -> RequestState] /\ req' = [req EXCEPT ![r] = x]
  BY DEF RequestTypes
<1>3. req[r] \in RequestState
  BY <1>2
<1>4. /\ x \in RequestState /\ x.pc = "commit" /\ x.code = req[r].code
      /\ x.before = req[r].before /\ x.now = req[r].now /\ x.kill = k
      /\ x.account = req[r].account
  BY <1>3 DEF RequestState, RequestPcs, OpenPcs
<1>5. req' \in [Request -> RequestState] /\ OtherRequests(r) /\ req'[r] = x
  BY <1>2, <1>4 DEF OtherRequests
<1>6. req[r].code \in Challenge /\ req[r].account \in Account
  BY DEF RequestTypes, OpenPcs
<1>7. QED BY <1>4, <1>5, <1>6 DEF RequestTypes, OtherRequests, GoesTo

LEMMA TrackerEffect ==
    ASSUME TypeOK, NEW r \in Request, DynReadTracker(r)
    PROVE  /\ RequestTypes' /\ OtherRequests(r) /\ GoesTo(r, "lookup")
           /\ req'[r].version = tracker.version
           /\ req'[r].kill = IdsOf(tracker.ids) \ {req[r].code}
<1>1. /\ RequestTypes /\ tracker.version \in Nat
      /\ IdsOf(tracker.ids) \ {req[r].code} \subseteq Challenge
  BY DEF TypeOK, IdsOf
<1>2. DEFINE k == IdsOf(tracker.ids) \ {req[r].code}
             x == [req[r] EXCEPT !.pc = "lookup", !.version = tracker.version, !.kill = k]
<1>3. /\ req \in [Request -> RequestState] /\ req' = [req EXCEPT ![r] = x]
      /\ req[r].pc \in OpenPcs /\ req[r].code \in Challenge
  BY <1>1 DEF DynReadTracker, RequestTypes, OpenPcs
<1>4. req[r] \in RequestState /\ k \in SUBSET Challenge
  BY <1>1, <1>3
<1>5. /\ x \in RequestState /\ x.pc = "lookup" /\ x.code = req[r].code
      /\ x.before = req[r].before /\ x.now = req[r].now
      /\ x.version = tracker.version /\ x.kill = k
  <2> HIDE DEF k
  <2>1. QED BY <1>1, <1>4 DEF RequestState, RequestPcs, OpenPcs
<1>6. req' \in [Request -> RequestState] /\ OtherRequests(r) /\ req'[r] = x
  <2> HIDE DEF x
  <2>1. QED BY <1>3, <1>5 DEF OtherRequests
<1>7. QED
  <2> HIDE DEF x
  <2>1. QED BY <1>1, <1>3, <1>5, <1>6 DEF RequestTypes, OtherRequests, GoesTo

LEMMA RetryEffect ==
    ASSUME RequestTypes, NEW r \in Request, req[r].pc \in OpenPcs,
           req' = [req EXCEPT ![r].pc = "complete", ![r].tries = @ + 1]
    PROVE  RequestTypes' /\ OtherRequests(r) /\ GoesTo(r, "complete")
BY DEF RequestTypes, RequestState, RequestPcs, OpenPcs, OtherRequests, GoesTo

(* What the steps do to the rows.                                            *)

RowTypes == chal \in [Challenge -> Row]

(* The fields of row c after the step.                                       *)
StoredIs(c, b) == chal'[c].stored <=> b
ConsumedIs(c, b) == chal'[c].consumed <=> b
SameAge(c) == chal'[c].created = chal[c].created
SameAttempts(c) == chal'[c].attempts = chal[c].attempts

LEMMA RowStored ==
    ASSUME NEW x \in Row, NEW b \in BOOLEAN
    PROVE  LET y == [x EXCEPT !.stored = b]
           IN  /\ y \in Row /\ y.stored = b /\ y.consumed = x.consumed
               /\ y.attempts = x.attempts /\ y.created = x.created
BY DEF Row

LEMMA ConsumeEffect ==
    ASSUME RowTypes, NEW S, chal' = Consume(S)
    PROVE  /\ RowTypes'
           /\ \A c \in Challenge :
                /\ StoredIs(c, chal[c].stored) /\ ConsumedIs(c, chal[c].consumed \/ c \in S)
                /\ SameAge(c) /\ SameAttempts(c)
<1> SUFFICES ASSUME NEW c \in Challenge
             PROVE  /\ chal'[c] \in Row
                    /\ StoredIs(c, chal[c].stored) /\ ConsumedIs(c, chal[c].consumed \/ c \in S)
                    /\ SameAge(c) /\ SameAttempts(c)
  BY DEF RowTypes, Consume
<1>1. chal[c] \in Row
  BY DEF RowTypes
<1>2. CASE c \in S
  <2>1. chal'[c] = [chal[c] EXCEPT !.consumed = TRUE]
    BY <1>2 DEF Consume
  <2>2. QED BY <1>1, <1>2, <2>1 DEF Row, StoredIs, ConsumedIs, SameAge, SameAttempts
<1>3. CASE c \notin S
  <2>1. chal'[c] = chal[c]
    BY <1>3 DEF Consume
  <2>2. QED BY <1>1, <1>3, <2>1 DEF Row, StoredIs, ConsumedIs, SameAge, SameAttempts
<1>4. QED BY <1>2, <1>3

(* A row is stored by its start_email, which may evict rows.                 *)
LEMMA StoreEffect ==
    ASSUME RowTypes, NEW c \in Challenge, NEW S, chal' = [Consume(S) EXCEPT ![c].stored = TRUE]
    PROVE  /\ RowTypes'
           /\ \A d \in Challenge :
                /\ StoredIs(d, d = c \/ chal[d].stored)
                /\ ConsumedIs(d, chal[d].consumed \/ d \in S)
                /\ SameAge(d) /\ SameAttempts(d)
<1>1. Consume(S) \in [Challenge -> Row]
  BY DEF RowTypes, Row, Consume
<1> SUFFICES ASSUME NEW d \in Challenge
             PROVE  /\ chal'[d] \in Row
                    /\ StoredIs(d, d = c \/ chal[d].stored)
                    /\ ConsumedIs(d, chal[d].consumed \/ d \in S)
                    /\ SameAge(d) /\ SameAttempts(d)
  BY <1>1 DEF RowTypes
<1>2. Consume(S)[d] \in Row /\ chal[d] \in Row
  BY <1>1 DEF RowTypes
<1>3. chal'[d] = IF d = c THEN [Consume(S)[d] EXCEPT !.stored = TRUE] ELSE Consume(S)[d]
  BY <1>1
<1>4. /\ Consume(S)[d].stored = chal[d].stored /\ Consume(S)[d].created = chal[d].created
      /\ Consume(S)[d].attempts = chal[d].attempts
      /\ Consume(S)[d].consumed <=> chal[d].consumed \/ d \in S
  BY <1>2 DEF Row, Consume
<1>5. /\ chal'[d] \in Row
      /\ chal'[d].stored <=> (d = c \/ Consume(S)[d].stored)
      /\ chal'[d].created = Consume(S)[d].created
      /\ chal'[d].attempts = Consume(S)[d].attempts
      /\ chal'[d].consumed = Consume(S)[d].consumed
  <2>1. CASE d = c
    <3>0. PICK x \in Row : x = Consume(S)[d]
      BY <1>2
    <3>1. chal'[d] = [x EXCEPT !.stored = TRUE]
      BY <1>3, <2>1, <3>0
    <3>2. /\ chal'[d] \in Row /\ chal'[d].stored = TRUE
          /\ chal'[d].created = x.created /\ chal'[d].attempts = x.attempts
          /\ chal'[d].consumed = x.consumed
      <4>1. \A y : y = [x EXCEPT !.stored = TRUE] =>
                /\ y \in Row /\ y.stored = TRUE /\ y.created = x.created
                /\ y.attempts = x.attempts /\ y.consumed = x.consumed
        BY RowStored
      <4>2. QED BY <3>1, <4>1
    <3>3. QED BY <2>1, <3>0, <3>2
  <2>2. CASE d # c
    BY <1>2, <1>3, <2>2 DEF Row
  <2>3. QED BY <2>1, <2>2
<1>6. QED BY <1>4, <1>5 DEF StoredIs, ConsumedIs, SameAge, SameAttempts

(* The two transactions on DynamoDB delete rows.                             *)
LEMMA DynStartEffect ==
    ASSUME RowTypes, NEW c \in Challenge, NEW S,
           chal' = [d \in Challenge |->
                [chal[d] EXCEPT !.stored = IF d = c THEN TRUE ELSE @ /\ d \notin S]]
    PROVE  /\ RowTypes'
           /\ \A d \in Challenge :
                /\ StoredIs(d, d = c \/ (chal[d].stored /\ d \notin S))
                /\ ConsumedIs(d, chal[d].consumed) /\ SameAge(d) /\ SameAttempts(d)
<1> SUFFICES ASSUME NEW d \in Challenge
             PROVE  /\ chal'[d] \in Row
                    /\ StoredIs(d, d = c \/ (chal[d].stored /\ d \notin S))
                    /\ ConsumedIs(d, chal[d].consumed) /\ SameAge(d) /\ SameAttempts(d)
  BY DEF RowTypes
<1>1. chal[d] \in Row
  BY DEF RowTypes
<1>2. DEFINE b == IF d = c THEN TRUE ELSE chal[d].stored /\ d \notin S
<1>3. b \in BOOLEAN /\ chal'[d] = [chal[d] EXCEPT !.stored = b]
  BY <1>1 DEF Row
<1>4. /\ chal'[d] \in Row /\ chal'[d].stored = b /\ chal'[d].consumed = chal[d].consumed
      /\ chal'[d].created = chal[d].created /\ chal'[d].attempts = chal[d].attempts
  <2> HIDE DEF b
  <2>1. QED BY <1>1, <1>3 DEF Row
<1>5. QED BY <1>4 DEF StoredIs, ConsumedIs, SameAge, SameAttempts

LEMMA DynWriteEffect ==
    ASSUME RowTypes, NEW c \in Challenge, NEW S,
           chal' = [d \in Challenge |->
                IF d = c THEN [chal[d] EXCEPT !.consumed = TRUE]
                         ELSE [chal[d] EXCEPT !.stored = @ /\ d \notin S]]
    PROVE  /\ RowTypes'
           /\ \A d \in Challenge :
                /\ StoredIs(d, chal[d].stored /\ (d = c \/ d \notin S))
                /\ ConsumedIs(d, chal[d].consumed \/ d = c) /\ SameAge(d) /\ SameAttempts(d)
<1> SUFFICES ASSUME NEW d \in Challenge
             PROVE  /\ chal'[d] \in Row
                    /\ StoredIs(d, chal[d].stored /\ (d = c \/ d \notin S))
                    /\ ConsumedIs(d, chal[d].consumed \/ d = c) /\ SameAge(d) /\ SameAttempts(d)
  BY DEF RowTypes
<1>1. chal[d] \in Row
  BY DEF RowTypes
<1>2. CASE d = c
  <2>1. chal'[d] = [chal[d] EXCEPT !.consumed = TRUE]
    BY <1>2
  <2>2. QED BY <1>1, <1>2, <2>1 DEF Row, StoredIs, ConsumedIs, SameAge, SameAttempts
<1>3. CASE d # c
  <2>1. DEFINE b == chal[d].stored /\ d \notin S
  <2>2. b \in BOOLEAN /\ chal'[d] = [chal[d] EXCEPT !.stored = b]
    BY <1>1, <1>3 DEF Row
  <2>3. /\ chal'[d] \in Row /\ chal'[d].stored = b /\ chal'[d].consumed = chal[d].consumed
        /\ chal'[d].created = chal[d].created /\ chal'[d].attempts = chal[d].attempts
    <3> HIDE DEF b
    <3>1. QED BY <1>1, <2>2 DEF Row
  <2>4. QED BY <1>3, <2>3 DEF StoredIs, ConsumedIs, SameAge, SameAttempts
<1>4. QED BY <1>2, <1>3

(* A failure is counted on one row, if it is usable.                         *)
LEMMA FailureEffect ==
    ASSUME RowTypes, RequestTypes, NEW r \in Request, RecordFailure(r)
    PROVE  /\ RowTypes' /\ RequestTypes' /\ OtherRequests(r)
           /\ req'[r].pc = "refused" /\ req'[r].before = {}
           /\ \A d \in Challenge :
                /\ StoredIs(d, chal[d].stored) /\ ConsumedIs(d, chal[d].consumed) /\ SameAge(d)
                /\ d # req[r].code => SameAttempts(d)
                /\ chal'[d].attempts >= chal[d].attempts
<1>1. /\ RequestTypes' /\ OtherRequests(r)
      /\ req'[r].pc = "refused" /\ req'[r].before = {}
  BY RefuseEffect DEF RecordFailure
<1>2. PICK n \in Nat : /\ chal' = [chal EXCEPT ![req[r].code].attempts = n]
                       /\ n >= chal[req[r].code].attempts
  <2>1. chal[req[r].code].attempts \in Nat
    BY DEF RecordFailure, RowTypes, RequestTypes, OpenPcs, Row
  <2>2. DEFINE k == IF Usable(req[r].code, req[r].now) THEN chal[req[r].code].attempts + 1
                                                        ELSE chal[req[r].code].attempts
  <2>3. k \in Nat /\ k >= chal[req[r].code].attempts
    BY <2>1
  <2>4. chal' = [chal EXCEPT ![req[r].code].attempts = k]
    BY DEF RecordFailure
  <2>5. QED
    <3> HIDE DEF k
    <3>1. QED BY <2>3, <2>4
<1>3. ASSUME NEW d \in Challenge
      PROVE  /\ chal'[d] \in Row
             /\ StoredIs(d, chal[d].stored) /\ ConsumedIs(d, chal[d].consumed) /\ SameAge(d)
             /\ d # req[r].code => SameAttempts(d)
             /\ chal'[d].attempts >= chal[d].attempts
  <2>1. chal[d] \in Row
    BY DEF RowTypes
  <2>2. QED BY <1>2, <2>1 DEF RowTypes, Row, StoredIs, ConsumedIs, SameAge, SameAttempts
<1>4. RowTypes'
  BY <1>2, <1>3 DEF RowTypes
<1>5. QED BY <1>1, <1>3, <1>4

(* The list of ids that start_email writes to the tracker.                   *)
LEMMA WithoutFacts ==
    ASSUME NEW s \in Seq(Challenge), NEW c \in Challenge
    PROVE  /\ Without(s, c) \in Seq(Challenge)
           /\ c \notin IdsOf(s) => Without(s, c) = s
<1>1. CASE c \notin IdsOf(s)
  BY <1>1 DEF Without
<1>2. CASE c \in IdsOf(s)
  <2>1. DEFINE i == CHOOSE i \in 1..Len(s) : s[i] = c
  <2>2. i \in 1..Len(s)
    BY <1>2 DEF IdsOf
  <2>3. Without(s, c) = SubSeq(s, 1, i - 1) \o SubSeq(s, i + 1, Len(s))
    BY <1>2 DEF Without
  <2>4. SubSeq(s, 1, i - 1) \in Seq(Challenge) /\ SubSeq(s, i + 1, Len(s)) \in Seq(Challenge)
    <3> HIDE DEF i
    <3>1. Len(s) \in Nat /\ \A k \in 1..Len(s) : s[k] \in Challenge
      OBVIOUS
    <3>2. i \in Int /\ 1 <= i /\ i <= Len(s)
      BY <2>2, <3>1
    <3>3. SubSeq(s, 1, i - 1) \in Seq(Challenge)
      BY <3>1, <3>2, SubSeqProperties
    <3>4. SubSeq(s, i + 1, Len(s)) \in Seq(Challenge)
      BY <3>1, <3>2, SubSeqProperties
    <3>5. QED BY <3>3, <3>4
  <2>5. QED BY <1>2, <2>3, <2>4
<1>3. QED BY <1>1, <1>2

LEMMA PrefixFacts ==
    ASSUME NEW s \in Seq(Challenge), NEW n \in 1..Len(s)
    PROVE  /\ SubSeq(s, 1, n) \in Seq(Challenge) /\ Len(SubSeq(s, 1, n)) = n
           /\ \A i \in 1..n : SubSeq(s, 1, n)[i] = s[i]
<1>1. n \in Int /\ 1 <= n /\ \A i \in 1..n : s[i] \in Challenge
  OBVIOUS
<1>2. /\ SubSeq(s, 1, n) \in Seq(Challenge)
      /\ Len(SubSeq(s, 1, n)) = IF 1 <= n THEN n - 1 + 1 ELSE 0
      /\ \A i \in 1..(n - 1 + 1) : SubSeq(s, 1, n)[i] = s[1 + i - 1]
  BY <1>1, SubSeqProperties
<1>3. QED BY <1>1, <1>2

LEMMA TrackedIds ==
    ASSUME NEW s \in Seq(Challenge), NEW c \in Challenge
    PROVE  /\ Newest(WithNew(s, c)) \in Seq(Challenge)
           /\ Len(Newest(WithNew(s, c))) <= MaxLive
           /\ IdsOf(Newest(WithNew(s, c))) \subseteq IdsOf(WithNew(s, c))
           /\ c \notin IdsOf(s) => IdsOf(WithNew(s, c)) = {c} \cup IdsOf(s)
           /\ c \in IdsOf(Newest(WithNew(s, c)))
<1>0. PICK ids, kept : ids = WithNew(s, c) /\ kept = Newest(ids)
  OBVIOUS
<1>1. ids \in Seq(Challenge) /\ Len(ids) >= 1 /\ ids[1] = c
  BY <1>0, WithoutFacts DEF WithNew
<1>2. DEFINE n == IF Len(ids) < MaxLive THEN Len(ids) ELSE MaxLive
<1>3. n \in 1..Len(ids) /\ n <= MaxLive
  BY <1>1, EmailSignInAssumptions
<1>4. /\ kept \in Seq(Challenge) /\ Len(kept) = n
      /\ \A i \in 1..n : kept[i] = ids[i]
  <2> HIDE DEF n
  <2>0. kept = SubSeq(ids, 1, n)
    BY <1>0 DEF n, Newest
  <2>1. QED BY <1>1, <1>3, <2>0, PrefixFacts
<1>5. IdsOf(kept) \subseteq IdsOf(ids) /\ c \in IdsOf(kept)
  BY <1>1, <1>3, <1>4 DEF IdsOf
<1>6. ASSUME c \notin IdsOf(s) PROVE IdsOf(ids) = {c} \cup IdsOf(s)
  <2>1. ids = <<c>> \o s
    BY <1>0, <1>6, WithoutFacts DEF WithNew
  <2>2. /\ Len(ids) = Len(s) + 1 /\ Len(s) \in Nat
        /\ \A i \in 1..Len(s) : ids[i + 1] = s[i]
        /\ \A i \in 2..Len(ids) : ids[i] = s[i - 1]
    BY <2>1
  <2>3. \A i \in 1..Len(ids) : ids[i] \in {c} \cup IdsOf(s)
    <3> SUFFICES ASSUME NEW i \in 1..Len(ids), i # 1 PROVE ids[i] \in IdsOf(s)
      BY <1>1
    <3>1. i - 1 \in 1..Len(s) /\ ids[i] = s[i - 1]
      BY <2>2
    <3>2. QED BY <3>1 DEF IdsOf
  <2>4. \A i \in 1..Len(s) : s[i] \in IdsOf(ids)
    <3> SUFFICES ASSUME NEW i \in 1..Len(s) PROVE s[i] \in IdsOf(ids)
      OBVIOUS
    <3>1. i + 1 \in 1..Len(ids) /\ ids[i + 1] = s[i]
      BY <2>2
    <3>2. QED BY <3>1 DEF IdsOf
  <2>5. c \in IdsOf(ids)
    BY <1>1 DEF IdsOf
  <2>6. QED BY <2>3, <2>4, <2>5 DEF IdsOf
<1>7. QED BY <1>0, <1>3, <1>4, <1>5, <1>6

-----------------------------------------------------------------------------
(* Type correctness: every row, call and account keeps its type.             *)
THEOREM TypeCorrect == Spec => []TypeOK
<1>1. Init => TypeOK
  <2> SUFFICES ASSUME Init PROVE TypeOK
    OBVIOUS
  <2>1. <<>> \in Seq(Challenge) /\ {} \in SUBSET Challenge
    OBVIOUS
  <2>2. StartTypes
    BY <2>1 DEF Init, StartTypes, StartState, StartAt, StartPcs
  <2>3. RequestTypes
    BY <2>1 DEF Init, RequestTypes, RequestState, RequestAt, RequestPcs, OpenPcs
  <2>4. chal \in [Challenge -> Row]
    BY DEF Init, Row
  <2>5. QED
    BY <2>1, <2>2, <2>3, <2>4 DEF Init, TypeOK, Account
<1>2. TypeOK /\ [Next]_vars => TypeOK'
  <2> SUFFICES ASSUME TypeOK, [Next]_vars PROVE TypeOK'
    OBVIOUS
  <2>0. StartTypes /\ RequestTypes /\ RowTypes
    BY DEF TypeOK, RowTypes
  <2> USE DEF store
  <2>1. ASSUME Tick \/ UNCHANGED vars PROVE TypeOK'
    BY <2>1 DEF Tick, vars, TypeOK, StartTypes, RequestTypes
  <2>2. ASSUME NEW c \in Challenge, Purge(c) PROVE TypeOK'
    <3>1. chal' \in [Challenge -> Row]
      BY <2>0, <2>2 DEF Purge, RowTypes, Row
    <3>2. QED BY <2>2, <3>1 DEF Purge, TypeOK, StartTypes, RequestTypes
  <2>3. ASSUME NEW c \in Challenge, BeginStart(c) PROVE TypeOK'
    <3>1. chal' \in [Challenge -> Row]
      BY <2>0, <2>3 DEF BeginStart, RowTypes, Row, TypeOK
    <3>2. StartTypes'
      <4>1. start[c] \in StartState
        BY <2>0 DEF StartTypes
      <4>2. [start[c] EXCEPT !.pc = "store"] \in StartState
        BY <4>1 DEF StartState, StartPcs
      <4>3. QED BY <2>0, <2>3, <4>2, StartUpdate DEF BeginStart
    <3>3. QED BY <2>3, <3>1, <3>2 DEF BeginStart, TypeOK, RequestTypes
  <2>4. ASSUME NEW c \in Challenge, SqliteStart(c) \/ PgStartCommit(c) PROVE TypeOK'
    <3>1. PICK S : chal' = [Consume(S) EXCEPT ![c].stored = TRUE]
      BY <2>4 DEF SqliteStart, PgStartCommit
    <3>2. chal' \in [Challenge -> Row]
      BY <2>0, <3>1, StoreEffect DEF RowTypes
    <3>3. start' = [start EXCEPT ![c] = StartAt("done")]
      BY <2>4 DEF SqliteStart, PgStartCommit
    <3>4. StartTypes'
      BY <2>0, <3>3, StartEndEffect DEF StartPcs
    <3>5. UNCHANGED <<backend, clock, tracker, accounts, disabled, sessions, req, lock, accountLock>>
      BY <2>4 DEF SqliteStart, PgStartCommit
    <3>6. QED BY <3>2, <3>4, <3>5 DEF TypeOK, RequestTypes
  <2>5. ASSUME NEW c \in Challenge, PgStartSelect(c) PROVE TypeOK'
    <3>1. PICK E \in SUBSET Challenge : start' = [start EXCEPT ![c].pc = "evict", ![c].evict = E]
      BY <2>5 DEF PgStartSelect, Surplus
    <3>2. StartTypes'
      <4>1. start[c] \in StartState
        BY <2>0 DEF StartTypes
      <4>2. [start[c] EXCEPT !.pc = "evict", !.evict = E] \in StartState
        BY <4>1 DEF StartState, StartPcs
      <4>3. QED BY <2>0, <3>1, <4>2, StartUpdate
    <3>3. QED BY <2>5, <3>2 DEF PgStartSelect, TypeOK, RequestTypes
  <2>6. ASSUME NEW c \in Challenge, DynStartRead(c) PROVE TypeOK'
    <3>1. tracker.version \in Nat /\ tracker.ids \in Seq(Challenge)
      BY DEF TypeOK
    <3>2. start[c] \in StartState
      BY <2>0 DEF StartTypes
    <3>3. [start[c] EXCEPT !.pc = "write", !.version = tracker.version, !.ids = tracker.ids] \in StartState
      BY <3>1, <3>2 DEF StartState, StartPcs
    <3>4. StartTypes'
      BY <2>0, <2>6, <3>3 DEF DynStartRead, StartTypes
    <3>5. QED BY <2>6, <3>4 DEF DynStartRead, TypeOK, RequestTypes
  <2>7. ASSUME NEW c \in Challenge, DynStartWrite(c) PROVE TypeOK'
    <3>1. PICK S : chal' = [d \in Challenge |->
                [chal[d] EXCEPT !.stored = IF d = c THEN TRUE ELSE @ /\ d \notin S]]
      BY <2>7 DEF DynStartWrite
    <3>2. chal' \in [Challenge -> Row]
      BY <2>0, <3>1, DynStartEffect DEF RowTypes
    <3>3. start' = [start EXCEPT ![c] = StartAt("done")]
      BY <2>7 DEF DynStartWrite
    <3>4. StartTypes'
      BY <2>0, <3>3, StartEndEffect DEF StartPcs
    <3>5. tracker' \in [version : Nat, ids : Seq(Challenge)]
      <4>1. start[c].ids \in Seq(Challenge) /\ start[c].version \in Nat
        BY <2>0 DEF StartTypes, StartState
      <4>2. Newest(WithNew(start[c].ids, c)) \in Seq(Challenge)
        BY <4>1, TrackedIds
      <4>3. QED BY <2>7, <4>1, <4>2 DEF DynStartWrite
    <3>6. QED BY <2>7, <3>2, <3>4, <3>5 DEF DynStartWrite, TypeOK, RequestTypes
  <2>8. ASSUME NEW c \in Challenge, DynStartCancelled(c) PROVE TypeOK'
    <3>1. start[c].tries + 1 \in Nat
      BY <2>0 DEF StartTypes, StartState
    <3>2. StartTypes'
      BY <2>0, <2>8, <3>1, StartAtEffect, StartEndEffect DEF DynStartCancelled, StartPcs
    <3>3. QED BY <2>8, <3>2 DEF DynStartCancelled, TypeOK, RequestTypes
  <2>9. ASSUME NEW r \in Request, NEW c \in Challenge, BeginComplete(r, c) PROVE TypeOK'
    <3>1. RequestTypes'
      BY <2>9, BeginEffect
    <3>2. QED BY <2>9, <3>1 DEF BeginComplete, TypeOK, StartTypes
  <2>10. ASSUME NEW r \in Request, Check(r) PROVE TypeOK'
    <3>1. RequestTypes'
      BY <2>0, <2>10, MoveEffect, RefuseEffect DEF Check, OpenPcs
    <3>2. QED BY <2>10, <3>1 DEF Check, TypeOK, StartTypes
  <2>11. ASSUME NEW r \in Request, RecordFailure(r) PROVE TypeOK'
    <3>1. chal' \in [Challenge -> Row] /\ RequestTypes'
      BY <2>0, <2>11, FailureEffect DEF RowTypes
    <3>2. QED BY <2>11, <3>1 DEF RecordFailure, TypeOK, StartTypes
  <2>12. ASSUME NEW r \in Request, SqliteComplete(r) PROVE TypeOK'
    <3>1. CASE Refuse(r) /\ UNCHANGED <<chal, accounts, sessions>>
      BY <2>0, <2>12, <3>1, RefuseEffect DEF SqliteComplete, TypeOK, StartTypes
    <3>2. CASE /\ Mint(r, AccountFor(r)) /\ Succeed(r)
               /\ chal' = Consume({req[r].code} \cup Others(r))
      <4>1. chal' \in [Challenge -> Row] /\ RequestTypes'
        BY <2>0, <3>2, SucceedEffect, ConsumeEffect DEF RowTypes
      <4>2. /\ accounts' \subseteq Account
            /\ sessions' \subseteq [by : Request, code : Challenge, account : Account]
        <5>1. req[r].code \in Challenge /\ AccountFor(r) \in Account
          BY <2>0, <2>12 DEF SqliteComplete, RequestTypes, OpenPcs, AccountFor, TypeOK, Account
        <5>2. QED BY <3>2, <5>1 DEF Mint, TypeOK
      <4>3. QED BY <2>12, <4>1, <4>2 DEF SqliteComplete, TypeOK, StartTypes
    <3>3. QED BY <2>12, <3>1, <3>2 DEF SqliteComplete
  <2>13. ASSUME NEW r \in Request, PgConsume(r) PROVE TypeOK'
    <3>1. RequestTypes'
      BY <2>0, <2>13, MoveEffect, RefuseEffect DEF PgConsume, OpenPcs
    <3>2. lock' \in [Challenge -> Request \cup {None}]
      BY <2>13 DEF PgConsume, TypeOK
    <3>3. QED BY <2>13, <3>1, <3>2 DEF PgConsume, TypeOK, StartTypes
  <2>14. ASSUME NEW r \in Request, PgAccount(r) PROVE TypeOK'
    <3>1. AccountFor(r) \in Account
      BY DEF AccountFor, TypeOK, Account
    <3>2. RequestTypes'
      BY <2>0, <2>14, <3>1, AccountEffect, RefuseEffect DEF PgAccount, OpenPcs
    <3>3. lock' \in [Challenge -> Request \cup {None}] /\ accountLock' \in Request \cup {None}
      BY <2>14 DEF PgAccount, Unlock, TypeOK
    <3>4. QED BY <2>14, <3>2, <3>3 DEF PgAccount, TypeOK, StartTypes
  <2>15. ASSUME NEW r \in Request, PgBlanket(r) PROVE TypeOK'
    <3>1. Others(r) \in SUBSET Challenge
      BY DEF Others
    <3>2. RequestTypes'
      BY <2>0, <2>15, <3>1, KillEffect DEF PgBlanket, OpenPcs
    <3>3. lock' \in [Challenge -> Request \cup {None}]
      BY <2>15 DEF PgBlanket, TypeOK
    <3>4. QED BY <2>15, <3>2, <3>3 DEF PgBlanket, TypeOK, StartTypes
  <2>16. ASSUME NEW r \in Request, PgCommit(r) PROVE TypeOK'
    <3>1. chal' \in [Challenge -> Row] /\ RequestTypes'
      BY <2>0, <2>16, SucceedEffect, ConsumeEffect DEF PgCommit, RowTypes
    <3>2. lock' \in [Challenge -> Request \cup {None}] /\ accountLock' \in Request \cup {None}
      BY <2>16 DEF PgCommit, Unlock, TypeOK
    <3>3. req[r].code \in Challenge /\ req[r].account \in Account
      BY <2>0, <2>16 DEF PgCommit, RequestTypes, OpenPcs
    <3>4. /\ accounts' \subseteq Account
          /\ sessions' \subseteq [by : Request, code : Challenge, account : Account]
      BY <2>16, <3>3 DEF PgCommit, Mint, TypeOK
    <3>5. QED BY <2>16, <3>1, <3>2, <3>4 DEF PgCommit, TypeOK, StartTypes
  <2>17. ASSUME NEW r \in Request, PgAbort(r) PROVE TypeOK'
    <3>1. RequestTypes'
      BY <2>0, <2>17, RefuseEffect DEF PgAbort
    <3>2. lock' \in [Challenge -> Request \cup {None}] /\ accountLock' \in Request \cup {None}
      BY <2>17 DEF PgAbort, Unlock, TypeOK
    <3>3. QED BY <2>17, <3>1, <3>2 DEF PgAbort, TypeOK, StartTypes
  <2>18. ASSUME NEW r \in Request, DynLoad(r) PROVE TypeOK'
    <3>1. RequestTypes'
      BY <2>0, <2>18, MoveEffect, RefuseEffect DEF DynLoad, OpenPcs
    <3>2. QED BY <2>18, <3>1 DEF DynLoad, TypeOK, StartTypes
  <2>19. ASSUME NEW r \in Request, DynReadTracker(r) PROVE TypeOK'
    <3>2. RequestTypes'
      BY <2>19, TrackerEffect
    <3>3. QED BY <2>19, <3>2 DEF DynReadTracker, TypeOK, StartTypes
  <2>20. ASSUME NEW r \in Request, DynReadAccount(r) PROVE TypeOK'
    <3>1. AccountFor(r) \in Account
      BY DEF AccountFor, TypeOK, Account
    <3>2. RequestTypes'
      BY <2>0, <2>20, <3>1, AccountEffect, RefuseEffect DEF DynReadAccount, OpenPcs
    <3>3. QED BY <2>20, <3>2 DEF DynReadAccount, TypeOK, StartTypes
  <2>21. ASSUME NEW r \in Request, DynWrite(r) PROVE TypeOK'
    <3>1. req[r].code \in Challenge /\ req[r].account \in Account /\ req[r].version + 1 \in Nat
      BY <2>0, <2>21 DEF DynWrite, RequestTypes, RequestState, OpenPcs
    <3>2. chal' \in [Challenge -> Row] /\ RequestTypes'
      BY <2>0, <2>21, <3>1, SucceedEffect, DynWriteEffect DEF DynWrite, RowTypes
    <3>3. tracker' \in [version : Nat, ids : Seq(Challenge)]
      BY <2>21, <3>1 DEF DynWrite
    <3>4. /\ accounts' \subseteq Account
          /\ sessions' \subseteq [by : Request, code : Challenge, account : Account]
      BY <2>21, <3>1 DEF DynWrite, Mint, TypeOK
    <3>5. QED BY <2>21, <3>2, <3>3, <3>4 DEF DynWrite, TypeOK, StartTypes
  <2>22. ASSUME NEW r \in Request, DynCancelled(r) PROVE TypeOK'
    <3>1. RequestTypes'
      BY <2>0, <2>22, RetryEffect, RefuseEffect DEF DynCancelled, OpenPcs
    <3>2. QED BY <2>22, <3>1 DEF DynCancelled, TypeOK, StartTypes
  <2>23. QED
    BY <2>1, <2>2, <2>3, <2>4, <2>5, <2>6, <2>7, <2>8, <2>9, <2>10, <2>11, <2>12, <2>13,
       <2>14, <2>15, <2>16, <2>17, <2>18, <2>19, <2>20, <2>21, <2>22
    DEF Next, Starting, Completing
<1>3. QED BY <1>1, <1>2, PTL DEF Spec

-----------------------------------------------------------------------------
(* What each step of start_email does.                                       *)

LEMMA PurgeEffect ==
    ASSUME RowTypes, NEW c \in Challenge, Purge(c)
    PROVE  \A d \in Challenge :
              /\ StoredIs(d, chal[d].stored /\ d # c) /\ ConsumedIs(d, chal[d].consumed)
              /\ SameAge(d) /\ SameAttempts(d)
<1> SUFFICES ASSUME NEW d \in Challenge
             PROVE  /\ StoredIs(d, chal[d].stored /\ d # c) /\ ConsumedIs(d, chal[d].consumed)
                    /\ SameAge(d) /\ SameAttempts(d)
  OBVIOUS
<1>1. chal[d] \in Row /\ chal' = [chal EXCEPT ![c].stored = FALSE]
  BY DEF Purge, RowTypes
<1>2. QED BY <1>1 DEF RowTypes, Row, StoredIs, ConsumedIs, SameAge, SameAttempts

LEMMA BeginStartEffect ==
    ASSUME TypeOK, NEW c \in Challenge, BeginStart(c)
    PROVE  /\ OtherStarts(c) /\ start'[c].pc = "store"
           /\ \A d \in Challenge :
                /\ StoredIs(d, chal[d].stored) /\ ConsumedIs(d, chal[d].consumed)
                /\ SameAttempts(d)
                /\ chal'[d].created = IF d = c THEN clock ELSE chal[d].created
<1>1. OtherStarts(c) /\ start'[c].pc = "store"
  <2>1. start \in [Challenge -> StartState] /\ start' = [start EXCEPT ![c].pc = "store"]
    BY DEF BeginStart, TypeOK, StartTypes
  <2>2. QED BY <2>1 DEF OtherStarts, StartState
<1>2. ASSUME NEW d \in Challenge
      PROVE  /\ StoredIs(d, chal[d].stored) /\ ConsumedIs(d, chal[d].consumed)
             /\ SameAttempts(d)
             /\ chal'[d].created = IF d = c THEN clock ELSE chal[d].created
  <2>1. chal \in [Challenge -> Row] /\ chal' = [chal EXCEPT ![c].created = clock]
    BY DEF BeginStart, TypeOK
  <2>2. QED BY <2>1 DEF Row, StoredIs, ConsumedIs, SameAttempts
<1>3. QED BY <1>1, <1>2

LEMMA SelectEffect ==
    ASSUME StartTypes, NEW c \in Challenge, PgStartSelect(c)
    PROVE  OtherStarts(c) /\ start'[c].pc = "evict"
<1>1. PICK E : start' = [start EXCEPT ![c].pc = "evict", ![c].evict = E]
  BY DEF PgStartSelect
<1>2. QED BY <1>1 DEF StartTypes, StartState, OtherStarts

LEMMA ReadEffect ==
    ASSUME StartTypes, NEW c \in Challenge, DynStartRead(c)
    PROVE  /\ OtherStarts(c) /\ start'[c].pc = "write"
           /\ start'[c].version = tracker.version /\ start'[c].ids = tracker.ids
BY DEF DynStartRead, StartTypes, StartState, OtherStarts

LEMMA CancelledEffect ==
    ASSUME StartTypes, NEW c \in Challenge, DynStartCancelled(c)
    PROVE  OtherStarts(c) /\ start'[c].pc \in {"store", "failed"}
<1>1. start[c].tries + 1 \in Nat
  BY DEF StartTypes, StartState
<1>2. QED BY <1>1, StartAtEffect, StartEndEffect DEF DynStartCancelled, StartPcs

(* On SQLite and PostgreSQL the row is stored and the surplus S consumed.    *)
LEMMA SqlStartEffect ==
    ASSUME TypeOK, NEW c \in Challenge, SqliteStart(c) \/ PgStartCommit(c)
    PROVE  /\ OtherStarts(c) /\ start'[c].pc = "done" /\ start[c].pc # "done"
           /\ \E S : /\ start[c].pc = "evict" => S = start[c].evict
                     /\ start[c].pc = "store" =>
                          S \in Surplus({d \in Challenge : Live(d, chal[c].created)} \cup {c})
                     /\ \A d \in Challenge :
                          /\ StoredIs(d, d = c \/ chal[d].stored)
                          /\ ConsumedIs(d, chal[d].consumed \/ d \in S)
                          /\ SameAge(d) /\ SameAttempts(d)
<1>0. StartTypes /\ RowTypes
  BY DEF TypeOK, RowTypes
<1>1. OtherStarts(c) /\ start'[c].pc = "done" /\ start[c].pc # "done"
  <2>1. start' = [start EXCEPT ![c] = StartAt("done")] /\ start[c].pc # "done"
    BY DEF SqliteStart, PgStartCommit
  <2>2. QED BY <1>0, <2>1, StartEndEffect DEF StartPcs
<1>2. CASE SqliteStart(c)
  <2>1. PICK S \in Surplus({d \in Challenge : Live(d, chal[c].created)} \cup {c}) :
             chal' = [Consume(S) EXCEPT ![c].stored = TRUE]
    BY <1>2 DEF SqliteStart
  <2>2. start[c].pc = "store"
    BY <1>2 DEF SqliteStart
  <2>3. \A d \in Challenge : /\ StoredIs(d, d = c \/ chal[d].stored)
                             /\ ConsumedIs(d, chal[d].consumed \/ d \in S)
                             /\ SameAge(d) /\ SameAttempts(d)
    BY <1>0, <2>1, StoreEffect
  <2>4. QED BY <1>1, <2>1, <2>2, <2>3
<1>3. CASE PgStartCommit(c)
  <2>1. /\ chal' = [Consume(start[c].evict) EXCEPT ![c].stored = TRUE]
        /\ start[c].pc = "evict"
    BY <1>3 DEF PgStartCommit
  <2>2. PICK S : S = start[c].evict
    OBVIOUS
  <2>3. \A d \in Challenge : /\ StoredIs(d, d = c \/ chal[d].stored)
                             /\ ConsumedIs(d, chal[d].consumed \/ d \in S)
                             /\ SameAge(d) /\ SameAttempts(d)
    BY <1>0, <2>1, <2>2, StoreEffect
  <2>4. QED BY <1>1, <2>1, <2>2, <2>3
<1>4. QED BY <1>2, <1>3

(* On DynamoDB the ids that fall off the list are deleted with the write.    *)
LEMMA WriteEffect ==
    ASSUME TypeOK, NEW c \in Challenge, DynStartWrite(c), c \notin IdsOf(start[c].ids)
    PROVE  /\ OtherStarts(c) /\ start'[c].pc = "done" /\ start[c].pc = "write"
           /\ tracker.version = start[c].version /\ tracker'.version = start[c].version + 1
           /\ Len(tracker'.ids) <= MaxLive
           /\ c \in IdsOf(tracker'.ids)
           /\ IdsOf(tracker'.ids) \subseteq {c} \cup IdsOf(start[c].ids)
           /\ \A d \in Challenge :
                /\ StoredIs(d, \/ d = c
                               \/ chal[d].stored /\ (d \in IdsOf(start[c].ids) =>
                                                         d \in IdsOf(tracker'.ids)))
                /\ ConsumedIs(d, chal[d].consumed) /\ SameAge(d) /\ SameAttempts(d)
<1>0. StartTypes /\ RowTypes /\ start[c].ids \in Seq(Challenge)
  BY DEF TypeOK, RowTypes, StartTypes, StartState
<1>1. OtherStarts(c) /\ start'[c].pc = "done" /\ start[c].pc = "write"
  <2>1. start' = [start EXCEPT ![c] = StartAt("done")] /\ start[c].pc = "write"
    BY DEF DynStartWrite
  <2>2. QED BY <1>0, <2>1, StartEndEffect DEF StartPcs
<1>2. DEFINE ids == WithNew(start[c].ids, c)
             kept == Newest(ids)
<1>3. /\ Len(kept) <= MaxLive /\ IdsOf(kept) \subseteq IdsOf(ids)
      /\ IdsOf(ids) = {c} \cup IdsOf(start[c].ids) /\ c \in IdsOf(kept)
  BY <1>0, TrackedIds
<1>4. /\ tracker' = [version |-> start[c].version + 1, ids |-> kept]
      /\ tracker.version = start[c].version
      /\ chal' = [d \in Challenge |->
             [chal[d] EXCEPT !.stored = IF d = c THEN TRUE
                                        ELSE @ /\ d \notin IdsOf(ids) \ IdsOf(kept)]]
  BY DEF DynStartWrite, TrackerIs
<1> HIDE DEF ids, kept
<1>5. PICK gone : gone = IdsOf(ids) \ IdsOf(kept)
  OBVIOUS
<1>6. \A d \in Challenge : /\ StoredIs(d, d = c \/ (chal[d].stored /\ d \notin gone))
                           /\ ConsumedIs(d, chal[d].consumed) /\ SameAge(d) /\ SameAttempts(d)
  BY <1>0, <1>4, <1>5, DynStartEffect
<1>7. tracker'.version = start[c].version + 1 /\ tracker'.ids = kept
  BY <1>4
<1>8. \A d \in Challenge :
        StoredIs(d, d = c \/ (chal[d].stored /\ (d \in IdsOf(start[c].ids) => d \in IdsOf(tracker'.ids))))
  BY <1>3, <1>5, <1>6, <1>7 DEF StoredIs
<1>9. QED BY <1>1, <1>3, <1>4, <1>6, <1>7, <1>8

-----------------------------------------------------------------------------
(* Rows only age: issued codes stay issued, and a row that is void stays so, *)
(* because only a start_email that is not done stores a row.  The failures   *)
(* counted do not shrink and the time of creation is set once.               *)

GrowsOld(c) ==
    /\ chal'[c].attempts >= chal[c].attempts
    /\ chal'[c].created = chal[c].created \/ start[c].pc = "idle"

RowsAge ==
    /\ Issued \subseteq Issued'
    /\ \A c \in Challenge :
         /\ chal'[c].stored => chal[c].stored \/ start[c].pc # "done"
         /\ start'[c].pc # "done" => start[c].pc # "done" /\ (chal'[c].stored => chal[c].stored)
         /\ chal[c].consumed => chal'[c].consumed
         /\ GrowsOld(c)

LEMMA SameGrowsOld ==
    ASSUME RowTypes, NEW c \in Challenge, SameAge(c), SameAttempts(c)
    PROVE  GrowsOld(c)
BY DEF RowTypes, Row, SameAge, SameAttempts, GrowsOld

LEMMA RowsFrame ==
    ASSUME RowTypes, UNCHANGED <<chal, start>>
    PROVE  RowsAge
BY DEF RowsAge, Issued, GrowsOld, RowTypes, Row

LEMMA StartsAge ==
    ASSUME StartTypes, NEW c \in Challenge, OtherStarts(c), start[c].pc # "done",
           \A d \in Challenge : (chal'[d].stored => chal[d].stored \/ (d = c /\ start'[c].pc = "done")),
           \A d \in Challenge : chal[d].consumed => chal'[d].consumed,
           \A d \in Challenge : GrowsOld(d)
    PROVE  RowsAge
BY DEF RowsAge, Issued, OtherStarts

LEMMA CompletesAge ==
    ASSUME start' = start,
           \A d \in Challenge : (chal'[d].stored => chal[d].stored),
           \A d \in Challenge : chal[d].consumed => chal'[d].consumed,
           \A d \in Challenge : GrowsOld(d)
    PROVE  RowsAge
BY DEF RowsAge, Issued

LEMMA DynWriteRows ==
    ASSUME TypeOK, NEW r \in Request, DynWrite(r)
    PROVE  /\ req[r].code \in Challenge
           /\ \A d \in Challenge :
                /\ StoredIs(d, chal[d].stored /\ (d = req[r].code \/ d \notin req[r].kill))
                /\ ConsumedIs(d, chal[d].consumed \/ d = req[r].code)
                /\ SameAge(d) /\ SameAttempts(d)
<1>1. req[r].code \in Challenge /\ RowTypes
  BY DEF TypeOK, RowTypes, RequestTypes, DynWrite, OpenPcs
<1>2. PICK c, S : c \in Challenge /\ c = req[r].code /\ S = req[r].kill
  BY <1>1
<1>3. chal' = [d \in Challenge |->
                IF d = c THEN [chal[d] EXCEPT !.consumed = TRUE]
                         ELSE [chal[d] EXCEPT !.stored = @ /\ d \notin S]]
  BY <1>2 DEF DynWrite
<1>4. QED BY <1>1, <1>2, <1>3, DynWriteEffect

LEMMA StepAges ==
    ASSUME TypeOK, Tracked, Stages, [Next]_vars
    PROVE  RowsAge
<1>0. StartTypes /\ RequestTypes /\ RowTypes
  BY DEF TypeOK, RowTypes
<1> USE DEF store
<1>1. ASSUME NEW c \in Challenge, Purge(c) PROVE RowsAge
  <2>1. start' = start
    BY <1>1 DEF Purge
  <2>2. QED BY <1>0, <1>1, <2>1, PurgeEffect, SameGrowsOld, CompletesAge DEF StoredIs, ConsumedIs
<1>2. ASSUME NEW c \in Challenge, BeginStart(c) PROVE RowsAge
  <2>1. start[c].pc # "done"
    BY <1>2 DEF BeginStart
  <2>2. \A d \in Challenge : GrowsOld(d)
    BY <1>0, <1>2, BeginStartEffect DEF BeginStart, GrowsOld, SameAttempts, RowTypes, Row
  <2>3. QED BY <1>0, <1>2, <2>1, <2>2, BeginStartEffect, StartsAge DEF StoredIs, ConsumedIs
<1>3. ASSUME NEW c \in Challenge, SqliteStart(c) \/ PgStartCommit(c) PROVE RowsAge
  <2>1. OtherStarts(c) /\ start'[c].pc = "done" /\ start[c].pc # "done"
    BY <1>3, SqlStartEffect
  <2>2. \A d \in Challenge : /\ StoredIs(d, d = c \/ chal[d].stored)
                             /\ chal[d].consumed => chal'[d].consumed
                             /\ SameAge(d) /\ SameAttempts(d)
    BY <1>3, SqlStartEffect DEF ConsumedIs
  <2>3. QED BY <1>0, <2>1, <2>2, SameGrowsOld, StartsAge DEF StoredIs
<1>4. ASSUME NEW c \in Challenge, PgStartSelect(c) \/ DynStartRead(c) \/ DynStartCancelled(c)
      PROVE  RowsAge
  <2>1. OtherStarts(c) /\ start[c].pc # "done" /\ chal' = chal
    <3>1. CASE PgStartSelect(c)
      <4>1. start[c].pc = "store" /\ chal' = chal
        BY <3>1, Zenon DEF PgStartSelect
      <4>2. QED BY <1>0, <3>1, <4>1, SelectEffect
    <3>2. CASE DynStartRead(c)
      <4>1. start[c].pc = "store" /\ chal' = chal
        BY <3>2, Zenon DEF DynStartRead
      <4>2. QED BY <1>0, <3>2, <4>1, ReadEffect
    <3>3. CASE DynStartCancelled(c)
      BY <1>0, <3>3, CancelledEffect DEF DynStartCancelled
    <3>4. QED BY <1>4, <3>1, <3>2, <3>3
  <2>2. \A d \in Challenge : GrowsOld(d)
    BY <1>0, <2>1, SameGrowsOld DEF SameAge, SameAttempts
  <2>3. QED BY <1>0, <2>1, <2>2, StartsAge
<1>5. ASSUME NEW c \in Challenge, DynStartWrite(c) PROVE RowsAge
  <2>1. c \notin IdsOf(start[c].ids)
    BY <1>5 DEF DynStartWrite, TrackerIs, Tracked, Issued
  <2>2. /\ OtherStarts(c) /\ start'[c].pc = "done" /\ start[c].pc = "write"
        /\ \A d \in Challenge :
                /\ StoredIs(d, \/ d = c
                               \/ chal[d].stored /\ (d \in IdsOf(start[c].ids) =>
                                                         d \in IdsOf(tracker'.ids)))
                /\ ConsumedIs(d, chal[d].consumed) /\ SameAge(d) /\ SameAttempts(d)
    BY <1>5, <2>1, WriteEffect
  <2>3. QED BY <1>0, <2>2, SameGrowsOld, StartsAge DEF StoredIs, ConsumedIs
<1>6. ASSUME NEW r \in Request, RecordFailure(r) PROVE RowsAge
  <2>1. start' = start
    BY <1>6 DEF RecordFailure
  <2>2. \A d \in Challenge : GrowsOld(d)
    BY <1>0, <1>6, FailureEffect DEF SameAge, GrowsOld
  <2>3. QED BY <1>0, <1>6, <2>1, <2>2, FailureEffect, CompletesAge DEF StoredIs, ConsumedIs
<1>7. ASSUME NEW S, chal' = Consume(S), start' = start PROVE RowsAge
  BY <1>0, <1>7, ConsumeEffect, SameGrowsOld, CompletesAge DEF StoredIs, ConsumedIs
<1>8. ASSUME NEW r \in Request, SqliteComplete(r) \/ PgCommit(r) PROVE RowsAge
  BY <1>0, <1>7, <1>8, RowsFrame DEF SqliteComplete, PgCommit
<1>9. ASSUME NEW r \in Request, DynWrite(r) PROVE RowsAge
  <2>1. start' = start
    BY <1>9 DEF DynWrite
  <2>2. QED BY <1>0, <1>9, <2>1, DynWriteRows, SameGrowsOld, CompletesAge DEF StoredIs, ConsumedIs
<1>10. ASSUME NEW r \in Request,
              \/ \E c \in Challenge : BeginComplete(r, c)
              \/ Check(r) \/ PgConsume(r) \/ PgAccount(r) \/ PgBlanket(r) \/ PgAbort(r)
              \/ DynLoad(r) \/ DynReadTracker(r) \/ DynReadAccount(r) \/ DynCancelled(r)
       PROVE  RowsAge
  <2>1. UNCHANGED <<chal, start>>
    <3>1. CASE (\E c \in Challenge : BeginComplete(r, c)) \/ Check(r)
      <4>1. ASSUME NEW c \in Challenge, BeginComplete(r, c) PROVE UNCHANGED <<chal, start>>
        BY <4>1 DEF BeginComplete
      <4>2. CASE Check(r)
        BY <4>2 DEF Check
      <4>3. QED BY <3>1, <4>1, <4>2
    <3>2. CASE PgConsume(r) \/ PgAccount(r) \/ PgBlanket(r) \/ PgAbort(r)
      BY <3>2 DEF PgConsume, PgAccount, PgBlanket, PgAbort
    <3>3. CASE DynLoad(r) \/ DynReadAccount(r) \/ DynCancelled(r)
      BY <3>3 DEF DynLoad, DynReadAccount, DynCancelled
    <3>4. CASE DynReadTracker(r)
      BY <3>4 DEF DynReadTracker
    <3>5. QED BY <1>10, <3>1, <3>2, <3>3, <3>4
  <2>2. QED BY <1>0, <2>1, RowsFrame
<1>11. ASSUME Tick \/ UNCHANGED vars PROVE RowsAge
  BY <1>0, <1>11, RowsFrame DEF Tick, vars
<1>12. QED
  BY <1>1, <1>2, <1>3, <1>4, <1>5, <1>6, <1>8, <1>9, <1>10, <1>11
  DEF Next, Starting, Completing

-----------------------------------------------------------------------------
(* What a step of complete_email does to its request, and where.             *)

RequestMoves(r) ==
    \/ req'[r].pc = "refused" /\ req'[r].before = {}
    \/ req'[r].pc = "check" /\ req'[r].code \in Issued /\ req'[r].before = Issued
    \/ req'[r].pc = "done" /\ req'[r].before = req[r].before
    \/ /\ req[r].pc \in OpenPcs /\ req'[r].pc \in OpenPcs /\ GoesTo(r, req'[r].pc)
       /\ req'[r].pc \in {"account", "blanket", "commit"} => backend = "postgres"
       /\ req'[r].pc \in {"tracker", "lookup", "write"} => backend = "dynamodb"

LEMMA RequestMoved ==
    ASSUME TypeOK, Stages, NEW r \in Request, Completing(r)
    PROVE  /\ OtherRequests(r) /\ RequestMoves(r) /\ start' = start /\ backend' = backend
           /\ disabled' = disabled /\ clock' = clock
<1>0. RequestTypes
  BY DEF TypeOK
<1>1. ASSUME NEW c \in Challenge, BeginComplete(r, c)
      PROVE  OtherRequests(r) /\ RequestMoves(r)
  <2>1. c \in Issued
    BY <1>1 DEF BeginComplete
  <2>2. QED BY <1>1, <2>1, BeginEffect DEF RequestMoves
<1>2. ASSUME Check(r)
      PROVE  OtherRequests(r) /\ RequestMoves(r)
  <2>1. req[r].pc = "check"
    BY <1>2 DEF Check
  <2>2. Refuse(r) \/ \E p \in {"complete", "fail"} : req' = [req EXCEPT ![r].pc = p]
    BY <1>2 DEF Check
  <2>3. CASE Refuse(r)
    BY <1>0, <2>3, RefuseEffect DEF RequestMoves
  <2>4. CASE \E p \in {"complete", "fail"} : req' = [req EXCEPT ![r].pc = p]
    BY <1>0, <2>1, <2>4, MoveEffect DEF RequestMoves, OpenPcs, GoesTo
  <2>5. QED BY <2>2, <2>3, <2>4
<1>3. ASSUME Refuse(r)
      PROVE  OtherRequests(r) /\ RequestMoves(r)
  BY <1>0, <1>3, RefuseEffect DEF RequestMoves
<1>4. ASSUME Succeed(r)
      PROVE  OtherRequests(r) /\ RequestMoves(r)
  BY <1>0, <1>4, SucceedEffect DEF RequestMoves
<1>5. ASSUME PgConsume(r)
      PROVE  OtherRequests(r) /\ RequestMoves(r)
  <2>1. CASE req' = [req EXCEPT ![r].pc = "account"]
    <3>1. req[r].pc = "complete" /\ backend = "postgres"
      BY <1>5 DEF PgConsume
    <3>2. req[r].pc \in OpenPcs /\ "account" \in OpenPcs \ {"blanket", "commit", "write"}
      BY <3>1 DEF OpenPcs
    <3>3. OtherRequests(r) /\ GoesTo(r, "account")
      BY <1>0, <2>1, <3>2, MoveEffect
    <3>4. QED BY <3>1, <3>2, <3>3 DEF RequestMoves, GoesTo
  <2>2. QED BY <1>3, <1>5, <2>1 DEF PgConsume
<1>6. ASSUME PgAccount(r)
      PROVE  OtherRequests(r) /\ RequestMoves(r)
  <2>1. CASE req' = [req EXCEPT ![r].pc = "blanket", ![r].account = AccountFor(r)]
    <3>1. req[r].pc = "account" /\ backend = "postgres" /\ AccountFor(r) \in Account
      BY <1>6 DEF PgAccount, AccountFor, TypeOK, Account
    <3>2. QED BY <1>0, <2>1, <3>1, AccountEffect DEF RequestMoves, OpenPcs, GoesTo
  <2>2. QED BY <1>3, <1>6, <2>1 DEF PgAccount
<1>7. ASSUME PgBlanket(r)
      PROVE  OtherRequests(r) /\ RequestMoves(r)
  <2>1. req[r].pc = "blanket" /\ backend = "postgres" /\ Others(r) \in SUBSET Challenge
    BY <1>7 DEF PgBlanket, Stages, Others
  <2>2. req' = [req EXCEPT ![r].pc = "commit", ![r].kill = Others(r)]
    BY <1>7 DEF PgBlanket
  <2>3. QED BY <1>0, <2>1, <2>2, KillEffect DEF RequestMoves, OpenPcs, GoesTo
<1>8. ASSUME DynLoad(r)
      PROVE  OtherRequests(r) /\ RequestMoves(r)
  <2>1. CASE req' = [req EXCEPT ![r].pc = "tracker"]
    <3>1. req[r].pc = "complete" /\ backend = "dynamodb"
      BY <1>8 DEF DynLoad
    <3>2. req[r].pc \in OpenPcs /\ "tracker" \in OpenPcs \ {"blanket", "commit", "write"}
      BY <3>1 DEF OpenPcs
    <3>3. OtherRequests(r) /\ GoesTo(r, "tracker")
      BY <1>0, <2>1, <3>2, MoveEffect
    <3>4. QED BY <3>1, <3>2, <3>3 DEF RequestMoves, GoesTo
  <2>2. QED BY <1>3, <1>8, <2>1 DEF DynLoad
<1>9. ASSUME DynReadTracker(r)
      PROVE  OtherRequests(r) /\ RequestMoves(r)
  <2>1. req[r].pc = "tracker" /\ backend = "dynamodb"
    BY <1>9 DEF DynReadTracker, Stages
  <2>2. QED BY <1>9, <2>1, TrackerEffect DEF RequestMoves, OpenPcs, GoesTo
<1>10. ASSUME DynReadAccount(r)
      PROVE  OtherRequests(r) /\ RequestMoves(r)
  <2>1. CASE req' = [req EXCEPT ![r].pc = "write", ![r].account = AccountFor(r)]
    <3>1. req[r].pc = "lookup" /\ backend = "dynamodb" /\ AccountFor(r) \in Account
      BY <1>10 DEF DynReadAccount, Stages, AccountFor, TypeOK, Account
    <3>2. QED BY <1>0, <2>1, <3>1, AccountEffect DEF RequestMoves, OpenPcs, GoesTo
  <2>2. QED BY <1>3, <1>10, <2>1 DEF DynReadAccount
<1>11. ASSUME DynCancelled(r)
      PROVE  OtherRequests(r) /\ RequestMoves(r)
  <2>1. CASE req' = [req EXCEPT ![r].pc = "complete", ![r].tries = @ + 1]
    <3>1. req[r].pc = "write"
      BY <1>11 DEF DynCancelled
    <3>2. QED BY <1>0, <2>1, <3>1, RetryEffect DEF RequestMoves, OpenPcs, GoesTo
  <2>2. QED BY <1>3, <1>11, <2>1 DEF DynCancelled
<1>12. ASSUME RecordFailure(r) \/ SqliteComplete(r) \/ PgCommit(r) \/ PgAbort(r) \/ DynWrite(r)
      PROVE  OtherRequests(r) /\ RequestMoves(r)
  BY <1>3, <1>4, <1>12 DEF RecordFailure, SqliteComplete, PgCommit, PgAbort, DynWrite
<1>13. OtherRequests(r) /\ RequestMoves(r)
  BY <1>1, <1>2, <1>5, <1>6, <1>7, <1>8, <1>9, <1>10, <1>11, <1>12 DEF Completing
<1>14. start' = start /\ backend' = backend /\ disabled' = disabled /\ clock' = clock
  <2> USE DEF store
  <2>1. ASSUME NEW c \in Challenge, BeginComplete(r, c)
        PROVE  start' = start /\ backend' = backend /\ disabled' = disabled /\ clock' = clock
    BY <2>1 DEF BeginComplete
  <2>2. CASE Check(r) \/ RecordFailure(r) \/ SqliteComplete(r)
    BY <2>2 DEF Check, RecordFailure, SqliteComplete
  <2>3. CASE PgConsume(r) \/ PgAccount(r) \/ PgBlanket(r) \/ PgCommit(r) \/ PgAbort(r)
    BY <2>3 DEF PgConsume, PgAccount, PgBlanket, PgCommit, PgAbort
  <2>4. CASE DynReadTracker(r)
    BY <2>4 DEF DynReadTracker
  <2>5. CASE DynLoad(r) \/ DynReadAccount(r) \/ DynWrite(r) \/ DynCancelled(r)
    BY <2>5 DEF DynLoad, DynReadAccount, DynWrite, DynCancelled
  <2>6. QED BY <2>1, <2>2, <2>3, <2>4, <2>5 DEF Completing
<1>15. QED BY <1>13, <1>14

(* A step of start_email leaves requests, accounts and sessions alone.       *)
LEMMA StartMoved ==
    ASSUME TypeOK, Tracked, NEW c \in Challenge, Starting(c)
    PROVE  /\ OtherStarts(c) /\ (start'[c].pc = "evict" => backend = "postgres")
           /\ UNCHANGED <<backend, clock, accounts, disabled, sessions, req, lock, accountLock>>
<1>0. StartTypes
  BY DEF TypeOK
<1> USE DEF store
<1>1. CASE BeginStart(c)
  BY <1>1, BeginStartEffect DEF BeginStart
<1>2. CASE SqliteStart(c)
  <2>1. OtherStarts(c) /\ start'[c].pc = "done"
    BY <1>2, SqlStartEffect
  <2>2. QED BY <1>2, <2>1 DEF SqliteStart
<1>3. CASE PgStartSelect(c)
  <2>1. OtherStarts(c) /\ start'[c].pc = "evict"
    BY <1>0, <1>3, SelectEffect
  <2>2. /\ backend = "postgres"
        /\ UNCHANGED <<backend, clock, accounts, disabled, sessions, req, lock, accountLock>>
    BY <1>3, Zenon DEF PgStartSelect
  <2>3. QED BY <2>1, <2>2
<1>4. CASE PgStartCommit(c)
  <2>1. OtherStarts(c) /\ start'[c].pc = "done"
    BY <1>4, SqlStartEffect
  <2>2. QED BY <1>4, <2>1 DEF PgStartCommit
<1>5. CASE DynStartRead(c)
  <2>1. OtherStarts(c) /\ start'[c].pc = "write"
    BY <1>0, <1>5, ReadEffect
  <2>2. UNCHANGED <<backend, clock, accounts, disabled, sessions, req, lock, accountLock>>
    BY <1>5, Zenon DEF DynStartRead
  <2>3. QED BY <2>1, <2>2
<1>6. CASE DynStartWrite(c)
  <2>1. c \notin IdsOf(start[c].ids)
    BY <1>6 DEF DynStartWrite, TrackerIs, Tracked, Issued
  <2>2. OtherStarts(c) /\ start'[c].pc = "done"
    BY <1>6, <2>1, WriteEffect
  <2>3. QED BY <1>6, <2>2 DEF DynStartWrite
<1>7. CASE DynStartCancelled(c)
  <2>1. OtherStarts(c) /\ start'[c].pc \in {"store", "failed"}
    BY <1>0, <1>7, CancelledEffect
  <2>2. QED BY <1>7, <2>1 DEF DynStartCancelled
<1>8. QED BY <1>1, <1>2, <1>3, <1>4, <1>5, <1>6, <1>7 DEF Starting

(* Only the three steps that mint a session change accounts and sessions.    *)
LEMMA SessionsMoved ==
    ASSUME TypeOK, NEW r \in Request, Completing(r)
    PROVE  \/ UNCHANGED <<accounts, sessions>>
           \/ /\ SqliteComplete(r) \/ PgCommit(r) \/ DynWrite(r)
              /\ req[r].pc \in OpenPcs
              /\ \E a \in Account :
                   /\ sessions' = sessions \cup {[by |-> r, code |-> req[r].code, account |-> a]}
                   /\ accounts' = accounts \cup {a}
                   /\ SqliteComplete(r) => a = AccountFor(r) /\ ~disabled
                   /\ PgCommit(r) \/ DynWrite(r) => a = req[r].account
<1> USE DEF store
<1>1. ASSUME NEW c \in Challenge, BeginComplete(r, c) PROVE UNCHANGED <<accounts, sessions>>
  BY <1>1 DEF BeginComplete
<1>2. CASE Check(r) \/ RecordFailure(r)
  BY <1>2 DEF Check, RecordFailure
<1>3. CASE SqliteComplete(r)
  <2>1. CASE UNCHANGED <<chal, accounts, sessions>>
    BY <2>1
  <2>2. CASE Mint(r, AccountFor(r)) /\ ~disabled
    <3>1. /\ AccountFor(r) \in Account /\ req[r].pc = "complete"
          /\ ~PgCommit(r) /\ ~DynWrite(r)
      BY <1>3 DEF AccountFor, TypeOK, Account, SqliteComplete, PgCommit, DynWrite
    <3>2. QED BY <1>3, <2>2, <3>1 DEF Mint, OpenPcs
  <2>3. QED BY <1>3, <2>1, <2>2 DEF SqliteComplete
<1>4. CASE PgCommit(r)
  <2>1. /\ req[r].account \in Account /\ req[r].pc = "commit" /\ Mint(r, req[r].account)
        /\ ~SqliteComplete(r)
    BY <1>4 DEF PgCommit, SqliteComplete, TypeOK, RequestTypes
  <2>2. QED BY <1>4, <2>1 DEF Mint, OpenPcs
<1>5. CASE DynWrite(r)
  <2>1. /\ req[r].account \in Account /\ req[r].pc = "write" /\ Mint(r, req[r].account)
        /\ ~SqliteComplete(r)
    BY <1>5 DEF DynWrite, SqliteComplete, TypeOK, RequestTypes
  <2>2. QED BY <1>5, <2>1 DEF Mint, OpenPcs
<1>6. CASE PgConsume(r) \/ PgAccount(r) \/ PgBlanket(r) \/ PgAbort(r)
  BY <1>6 DEF PgConsume, PgAccount, PgBlanket, PgAbort
<1>7. CASE DynLoad(r) \/ DynReadAccount(r) \/ DynCancelled(r)
  BY <1>7 DEF DynLoad, DynReadAccount, DynCancelled
<1>8. CASE DynReadTracker(r)
  BY <1>8 DEF DynReadTracker
<1>9. QED BY <1>1, <1>2, <1>3, <1>4, <1>5, <1>6, <1>7, <1>8 DEF Completing

LEMMA StagesStep ==
    ASSUME TypeOK, Tracked, Stages, [Next]_vars
    PROVE  Stages'
<1>0. RowsAge
  BY StepAges
<1> USE DEF store
<1>1. CASE Tick \/ UNCHANGED vars
  BY <1>1 DEF Stages, Tick, vars, Issued
<1>2. ASSUME NEW c \in Challenge, Purge(c) PROVE Stages'
  <2>1. UNCHANGED <<backend, start, req, sessions>>
    BY <1>2 DEF Purge
  <2>2. QED BY <1>0, <2>1 DEF Stages, RowsAge, Issued
<1>3. ASSUME NEW c \in Challenge, Starting(c) PROVE Stages'
  <2>1. /\ OtherStarts(c) /\ (start'[c].pc = "evict" => backend = "postgres")
        /\ UNCHANGED <<backend, req, sessions>>
    BY <1>3, StartMoved
  <2>2. \A d \in Challenge : /\ start'[d].pc = "evict" => backend' = "postgres"
                             /\ start'[d].pc # "done" => ~chal'[d].stored
    BY <1>0, <2>1 DEF Stages, RowsAge, OtherStarts
  <2>3. QED BY <1>0, <2>1, <2>2 DEF Stages, RowsAge
<1>4. ASSUME NEW r \in Request, Completing(r) PROVE Stages'
  <2>1. OtherRequests(r) /\ RequestMoves(r) /\ start' = start /\ backend' = backend
    BY <1>4, RequestMoved
  <2>2. \A c \in Challenge : /\ start'[c].pc = "evict" => backend' = "postgres"
                             /\ start'[c].pc # "done" => ~chal'[c].stored
    BY <1>0, <2>1 DEF Stages, RowsAge
  <2>3. Issued' = Issued
    BY <2>1 DEF Issued
  <2>4. \A q \in Request :
            /\ req'[q].pc \in {"account", "blanket", "commit"} => backend = "postgres"
            /\ req'[q].pc \in {"tracker", "lookup", "write"} => backend = "dynamodb"
            /\ req'[q].pc \in OpenPcs => req'[q].code \in Issued
            /\ req'[q].before \subseteq Issued
    BY <2>1 DEF Stages, OtherRequests, RequestMoves, GoesTo, OpenPcs
  <2>5. \A s \in sessions' : s.code \in Issued
    BY <1>4, SessionsMoved DEF Stages
  <2>6. QED BY <2>1, <2>2, <2>3, <2>4, <2>5 DEF Stages
<1>5. QED BY <1>1, <1>2, <1>3, <1>4 DEF Next

-----------------------------------------------------------------------------
(* Which step brings a request to the places the invariant speaks of.        *)

Arrivals(r) ==
    /\ req'[r].pc = "account" => PgConsume(r)
    /\ req'[r].pc = "blanket" => PgAccount(r)
    /\ req'[r].pc = "commit" => PgBlanket(r)
    /\ req'[r].pc = "lookup" => DynReadTracker(r)
    /\ req'[r].pc = "write" => DynReadAccount(r)
    /\ req'[r].pc = "done" => SqliteComplete(r) \/ PgCommit(r) \/ DynWrite(r)

LEMMA RequestArrives ==
    ASSUME TypeOK, NEW r \in Request, Completing(r)
    PROVE  Arrivals(r)
<1>0. RequestTypes
  BY DEF TypeOK
<1>1. ASSUME NEW c \in Challenge, BeginComplete(r, c) PROVE Arrivals(r)
  <2>1. req'[r].pc = "check"
    BY <1>1, BeginEffect
  <2>2. QED BY <2>1 DEF Arrivals
<1>2. CASE Refuse(r)
  <2>1. req'[r].pc = "refused"
    BY <1>0, <1>2, RefuseEffect
  <2>2. QED BY <2>1 DEF Arrivals
<1>3. ASSUME Succeed(r), SqliteComplete(r) \/ PgCommit(r) \/ DynWrite(r) PROVE Arrivals(r)
  <2>1. req'[r].pc = "done"
    BY <1>0, <1>3, SucceedEffect
  <2>2. QED BY <1>3, <2>1 DEF Arrivals
<1>4. ASSUME NEW p \in OpenPcs \ {"blanket", "commit", "write"}, req[r].pc \in OpenPcs,
             req' = [req EXCEPT ![r].pc = p], p = "account" => PgConsume(r), p # "lookup"
      PROVE  Arrivals(r)
  <2>1. req'[r].pc = p
    BY <1>0, <1>4, MoveEffect DEF GoesTo
  <2>2. QED BY <1>4, <2>1 DEF Arrivals, OpenPcs
<1>5. CASE Check(r)
  <2>1. req[r].pc \in OpenPcs
    BY <1>5 DEF Check, OpenPcs
  <2>2. CASE Refuse(r)
    BY <1>2, <2>2
  <2>3. ASSUME NEW p \in {"complete", "fail"}, req' = [req EXCEPT ![r].pc = p]
        PROVE  Arrivals(r)
    <3>1. p \in OpenPcs \ {"blanket", "commit", "write"} /\ p # "account" /\ p # "lookup"
      BY <2>3 DEF OpenPcs
    <3>2. QED BY <1>4, <2>1, <2>3, <3>1
  <2>4. QED BY <1>5, <2>2, <2>3 DEF Check
<1>6. CASE PgConsume(r)
  <2>1. req[r].pc \in OpenPcs /\ "account" \in OpenPcs \ {"blanket", "commit", "write"}
    BY <1>6 DEF PgConsume, OpenPcs
  <2>2. Refuse(r) \/ req' = [req EXCEPT ![r].pc = "account"]
    BY <1>6 DEF PgConsume
  <2>3. QED BY <1>2, <1>4, <1>6, <2>1, <2>2
<1>7. CASE DynLoad(r)
  <2>1. req[r].pc \in OpenPcs /\ "tracker" \in OpenPcs \ {"blanket", "commit", "write"}
    BY <1>7 DEF DynLoad, OpenPcs
  <2>2. Refuse(r) \/ req' = [req EXCEPT ![r].pc = "tracker"]
    BY <1>7 DEF DynLoad
  <2>3. QED BY <1>2, <1>4, <2>1, <2>2
<1>8. CASE PgAccount(r) \/ DynReadAccount(r)
  <2>1. req[r].pc \in OpenPcs /\ AccountFor(r) \in Account
    BY <1>8 DEF PgAccount, DynReadAccount, OpenPcs, AccountFor, TypeOK, Account
  <2>2. CASE Refuse(r)
    BY <1>2, <2>2
  <2>3. ASSUME NEW p \in {"blanket", "write"}, p = "blanket" => PgAccount(r),
               p = "write" => DynReadAccount(r),
               req' = [req EXCEPT ![r].pc = p, ![r].account = AccountFor(r)]
        PROVE  Arrivals(r)
    <3>1. p \in OpenPcs
      BY <2>3 DEF OpenPcs
    <3>2. req'[r].pc = p
      BY <1>0, <2>1, <2>3, <3>1, AccountEffect DEF GoesTo
    <3>3. QED BY <2>3, <3>2 DEF Arrivals
  <2>4. QED BY <1>8, <2>2, <2>3 DEF PgAccount, DynReadAccount
<1>9. CASE PgBlanket(r)
  <2>1. /\ req[r].pc = "blanket" /\ Others(r) \in SUBSET Challenge
        /\ req' = [req EXCEPT ![r].pc = "commit", ![r].kill = Others(r)]
    BY <1>9 DEF PgBlanket, Others
  <2>2. req'[r].pc = "commit"
    BY <1>0, <2>1, KillEffect DEF GoesTo
  <2>3. QED BY <1>9, <2>2 DEF Arrivals
<1>10. CASE DynReadTracker(r)
  <2>1. req'[r].pc = "lookup"
    BY <1>10, TrackerEffect DEF GoesTo
  <2>2. QED BY <1>10, <2>1 DEF Arrivals
<1>11. CASE DynCancelled(r)
  <2>1. CASE Refuse(r)
    BY <1>2, <2>1
  <2>2. CASE req' = [req EXCEPT ![r].pc = "complete", ![r].tries = @ + 1]
    <3>1. req[r].pc \in OpenPcs
      BY <1>11 DEF DynCancelled, OpenPcs
    <3>2. req'[r].pc = "complete"
      BY <1>0, <2>2, <3>1, RetryEffect DEF GoesTo
    <3>3. QED BY <3>2 DEF Arrivals
  <2>3. QED BY <1>11, <2>1, <2>2 DEF DynCancelled
<1>12. CASE RecordFailure(r) \/ PgAbort(r)
  BY <1>2, <1>12 DEF RecordFailure, PgAbort
<1>13. CASE SqliteComplete(r) \/ PgCommit(r) \/ DynWrite(r)
  BY <1>2, <1>3, <1>13 DEF SqliteComplete, PgCommit, DynWrite
<1>14. QED
  BY <1>1, <1>5, <1>6, <1>7, <1>8, <1>9, <1>10, <1>11, <1>12, <1>13 DEF Completing

-----------------------------------------------------------------------------
(* The codes issued before a sign-in.                                        *)

LEMMA VoidStays ==
    ASSUME RowsAge, NEW c \in Issued, Void(c)
    PROVE  Void(c)'
BY DEF RowsAge, Void, Issued

(* The step that signs in voids every code issued before its request.        *)
LEMMA SignInVoids ==
    ASSUME TypeOK, Stages, Locked, Tracked, Voided, NEW r \in Request,
           Completing(r), RowsAge, req'[r].pc = "done"
    PROVE  \A c \in req[r].before : Void(c)'
<1>0. RowTypes /\ RequestTypes /\ req[r].before \subseteq Issued
  BY DEF TypeOK, RowTypes, Stages
<1>1. SUFFICES ASSUME NEW c \in req[r].before, ~Void(c) PROVE Void(c)'
  BY <1>0, VoidStays
<1>2. c \in Challenge /\ c \in Issued
  BY <1>0, <1>1 DEF Issued
<1>3. CASE SqliteComplete(r)
  <2>1. CASE Refuse(r)
    <3>1. req'[r].pc = "refused"
      BY <1>0, <2>1, RefuseEffect
    <3>2. QED BY <3>1
  <2>2. CASE chal' = Consume({req[r].code} \cup Others(r))
    <3>1. c \in {req[r].code} \cup Others(r)
      BY <1>1, <1>2 DEF Others, Void
    <3>2. QED BY <1>0, <1>2, <2>2, <3>1, ConsumeEffect DEF ConsumedIs, Void
  <2>3. QED BY <1>3, <2>1, <2>2 DEF SqliteComplete
<1>4. CASE PgCommit(r)
  <2>1. c \in {req[r].code} \cup req[r].kill /\ chal' = Consume({req[r].code} \cup req[r].kill)
    BY <1>1, <1>4 DEF PgCommit, Voided
  <2>2. QED BY <1>0, <1>2, <2>1, ConsumeEffect DEF ConsumedIs, Void
<1>5. CASE DynWrite(r)
  <2>1. c = req[r].code \/ c \in req[r].kill
    BY <1>1, <1>2, <1>5 DEF DynWrite, TrackerIs, Tracked
  <2>2. QED BY <1>2, <1>5, <2>1, DynWriteRows DEF StoredIs, ConsumedIs, Void
<1>6. QED BY <1>3, <1>4, <1>5, RequestArrives DEF Arrivals

LEMMA VoidedStep ==
    ASSUME TypeOK, SignInInv, [Next]_vars
    PROVE  Voided'
<1>0. RowsAge /\ Stages /\ Locked /\ Tracked /\ Voided
  BY StepAges DEF SignInInv
<1>1. ASSUME NEW q \in Request, req'[q] = req[q]
      PROVE  /\ req'[q].pc = "done" => \A c \in req'[q].before : Void(c)'
             /\ req'[q].pc = "commit" =>
                  \A c \in req'[q].before : Void(c)' \/ c \in req'[q].kill \/ c = req'[q].code
  BY <1>0, <1>1, VoidStays DEF Voided, Stages
<1>2. CASE req' = req
  BY <1>1, <1>2 DEF Voided
<1>3. ASSUME NEW c \in Challenge, Purge(c) \/ Starting(c) PROVE req' = req
  BY <1>0, <1>3, StartMoved DEF Purge
<1>4. ASSUME NEW r \in Request, Completing(r) PROVE Voided'
  <2>1. OtherRequests(r) /\ RequestMoves(r) /\ Arrivals(r)
    BY <1>0, <1>4, RequestMoved, RequestArrives
  <2>2. CASE req'[r].pc = "done"
    <3>1. req'[r].before = req[r].before
      BY <2>1, <2>2 DEF RequestMoves, OpenPcs
    <3>2. \A c \in req[r].before : Void(c)'
      BY <1>0, <1>4, <2>2, SignInVoids
    <3>3. QED BY <1>1, <2>1, <2>2, <3>1, <3>2 DEF Voided, OtherRequests
  <2>3. CASE req'[r].pc = "commit"
    <3>1. PgBlanket(r)
      BY <2>1, <2>3 DEF Arrivals
    <3>2. /\ req[r].pc = "blanket" /\ Others(r) \in SUBSET Challenge /\ chal' = chal
          /\ req' = [req EXCEPT ![r].pc = "commit", ![r].kill = Others(r)]
      BY <3>1 DEF PgBlanket, Others
    <3>3. /\ req'[r].code = req[r].code /\ req'[r].before = req[r].before
          /\ req'[r].kill = Others(r)
      <4>1. RequestTypes
        BY DEF TypeOK
      <4>2. QED BY <3>2, <4>1, KillEffect DEF GoesTo
    <3>4. \A c \in req[r].before : Void(c)' \/ c \in Others(r) \/ c = req[r].code
      BY <1>0, <3>2 DEF Void, Others, Stages, Issued
    <3>5. QED BY <1>1, <2>1, <2>3, <3>3, <3>4 DEF Voided, OtherRequests
  <2>4. CASE req'[r].pc \notin {"done", "commit"}
    BY <1>1, <2>1, <2>4 DEF Voided, OtherRequests
  <2>5. QED BY <2>2, <2>3, <2>4
<1>5. CASE Tick \/ UNCHANGED vars
  BY <1>2, <1>5 DEF Tick, vars
<1>6. QED BY <1>2, <1>3, <1>4, <1>5 DEF Next

-----------------------------------------------------------------------------
(* PostgreSQL: the row locks.                                                *)

(* The step leaves alone what request q holds.                               *)
Held(q) ==
    \A d \in Challenge : lock[d] = q =>
        lock'[d] = q /\ (Working(d) => Working(d)')

HeldRow(d) ==
    /\ chal'[d].stored <=> chal[d].stored
    /\ chal'[d].consumed <=> chal[d].consumed
    /\ chal'[d].attempts = chal[d].attempts

LEMMA HeldRows ==
    ASSUME NEW q \in Request,
           \A d \in Challenge : lock[d] = q => lock'[d] = q /\ HeldRow(d)
    PROVE  Held(q)
BY DEF Held, HeldRow, Working

LEMMA HeldStays ==
    ASSUME TypeOK, Locked, NEW q \in Request, Held(q), req'[q] = req[q]
    PROVE  /\ req'[q].pc \in {"account", "blanket", "commit"} =>
                 lock'[req'[q].code] = q /\ Working(req[q].code)'
           /\ req'[q].pc = "commit" => \A d \in req'[q].kill : lock'[d] = q
<1>1. /\ req[q].pc \in {"account", "blanket", "commit"} => req[q].code \in Challenge
      /\ req[q].kill \subseteq Challenge
  BY DEF TypeOK, RequestTypes, RequestState, OpenPcs
<1>2. ASSUME req[q].pc \in {"account", "blanket", "commit"}
      PROVE  lock'[req[q].code] = q /\ Working(req[q].code)'
  BY <1>1, <1>2 DEF Locked, Held
<1>3. req'[q].pc = "commit" => \A d \in req'[q].kill : lock'[d] = q
  BY <1>1 DEF Locked, Held
<1>4. QED BY <1>2, <1>3

(* A challenge being started, or removed, is not one that a request holds.   *)
LEMMA StartHolds ==
    ASSUME TypeOK, Stages, Tracked, backend = "postgres", NEW c \in Challenge,
           Purge(c) \/ Starting(c), NEW q \in Request
    PROVE  Held(q)
<1> USE DEF store
<1>0. RowTypes /\ q # None
  BY EmailSignInAssumptions DEF TypeOK, RowTypes
<1>1. CASE Purge(c)
  <2>1. lock' = lock /\ lock[c] = None
    BY <1>1 DEF Purge
  <2>2. QED BY <1>0, <1>1, <2>1, PurgeEffect, HeldRows
            DEF HeldRow, StoredIs, ConsumedIs, SameAttempts
<1>2. CASE BeginStart(c)
  <2>1. lock' = lock
    BY <1>2 DEF BeginStart
  <2>2. QED BY <1>2, <2>1, BeginStartEffect, HeldRows
            DEF HeldRow, StoredIs, ConsumedIs, SameAttempts
<1>3. CASE PgStartCommit(c)
  <2>1. /\ lock' = lock /\ \A d \in start[c].evict : lock[d] = None
        /\ chal' = [Consume(start[c].evict) EXCEPT ![c].stored = TRUE]
        /\ start[c].pc = "evict" /\ ~chal[c].stored
    BY <1>3 DEF PgStartCommit, Stages
  <2>2. \A d \in Challenge :
            /\ StoredIs(d, d = c \/ chal[d].stored)
            /\ ConsumedIs(d, chal[d].consumed \/ d \in start[c].evict)
            /\ SameAttempts(d)
    BY <1>0, <2>1, StoreEffect
  <2>3. \A d \in Challenge : lock[d] = q => lock'[d] = q /\ (Working(d) => Working(d)')
    BY <1>0, <2>1, <2>2 DEF Working, StoredIs, ConsumedIs, SameAttempts
  <2>4. QED BY <2>3 DEF Held
<1>4. CASE PgStartSelect(c)
  <2>1. UNCHANGED <<lock, chal>>
    BY <1>4, Zenon DEF PgStartSelect
  <2>2. QED BY <2>1 DEF Held, Working
<1>5. ~SqliteStart(c) /\ ~DynStartRead(c) /\ ~DynStartWrite(c) /\ ~DynStartCancelled(c)
  <2>1. ~SqliteStart(c)
    BY DEF SqliteStart
  <2>2. ~DynStartRead(c)
    BY DEF DynStartRead
  <2>3. ~DynStartWrite(c) /\ ~DynStartCancelled(c)
    BY DEF DynStartWrite, DynStartCancelled
  <2>4. QED BY <2>1, <2>2, <2>3
<1>6. QED BY <1>1, <1>2, <1>3, <1>4, <1>5 DEF Starting

(* Another request's step waits for the locks, or releases only its own.     *)
LEMMA CompletionHolds ==
    ASSUME TypeOK, Stages, Locked, backend = "postgres", NEW r \in Request,
           Completing(r), NEW q \in Request \ {r}
    PROVE  Held(q)
<1> USE DEF store
<1>0. RowTypes /\ RequestTypes /\ q # None /\ q # r /\ lock \in [Challenge -> Request \cup {None}]
  BY EmailSignInAssumptions DEF TypeOK, RowTypes
<1>1. ASSUME UNCHANGED <<lock, chal>> PROVE Held(q)
  BY <1>1 DEF Held, Working
<1>2. ASSUME chal' = chal, Unlock(r) PROVE Held(q)
  BY <1>0, <1>2 DEF Held, Working, Unlock
<1>3. ASSUME NEW c \in Challenge, BeginComplete(r, c) PROVE Held(q)
  BY <1>1, <1>3 DEF BeginComplete
<1>4. CASE Check(r)
  BY <1>1, <1>4 DEF Check
<1>5. CASE RecordFailure(r)
  <2>1. lock' = lock /\ lock[req[r].code] = None
    BY <1>5 DEF RecordFailure
  <2>2. \A d \in Challenge : d # req[r].code => HeldRow(d)
    BY <1>0, <1>5, FailureEffect DEF HeldRow, StoredIs, ConsumedIs, SameAttempts
  <2>3. QED BY <1>0, <2>1, <2>2, HeldRows
<1>6. CASE PgConsume(r)
  <2>1. CASE lock' = lock
    BY <1>1, <1>6, <2>1 DEF PgConsume
  <2>2. CASE lock' = [lock EXCEPT ![req[r].code] = r]
    <3>1. chal' = chal /\ lock[req[r].code] = None
      BY <1>6 DEF PgConsume
    <3>2. QED BY <1>0, <2>2, <3>1 DEF Held, Working
  <2>3. QED BY <1>6, <2>1, <2>2 DEF PgConsume
<1>7. CASE PgAccount(r)
  BY <1>1, <1>2, <1>7 DEF PgAccount
<1>8. CASE PgBlanket(r)
  <2>1. /\ chal' = chal /\ \A d \in Others(r) : lock[d] = None
        /\ lock' = [d \in Challenge |-> IF d \in Others(r) THEN r ELSE lock[d]]
    BY <1>8 DEF PgBlanket
  <2>2. QED BY <1>0, <2>1 DEF Held, Working
<1>9. CASE PgAbort(r)
  BY <1>2, <1>9 DEF PgAbort
<1>10. CASE PgCommit(r)
  <2>1. /\ req[r].pc = "commit" /\ Unlock(r)
        /\ chal' = Consume({req[r].code} \cup req[r].kill)
    BY <1>10 DEF PgCommit
  <2>2. \A d \in {req[r].code} \cup req[r].kill : lock[d] = r
    BY <2>1 DEF Locked
  <2>3. \A d \in Challenge : /\ StoredIs(d, chal[d].stored) /\ SameAttempts(d)
                             /\ ConsumedIs(d, chal[d].consumed \/ d \in {req[r].code} \cup req[r].kill)
    BY <1>0, <2>1, ConsumeEffect
  <2>4. \A d \in Challenge : lock[d] = q => lock'[d] = q
    BY <1>0, <2>1 DEF Unlock
  <2>5. \A d \in Challenge : lock[d] = q => HeldRow(d)
    BY <1>0, <2>2, <2>3 DEF HeldRow, StoredIs, ConsumedIs, SameAttempts
  <2>6. QED BY <2>4, <2>5, HeldRows
<1>11. ~SqliteComplete(r) /\ ~DynLoad(r) /\ ~DynWrite(r) /\ ~DynCancelled(r)
  BY DEF SqliteComplete, DynLoad, DynWrite, DynCancelled
<1>12. ~DynReadTracker(r) /\ ~DynReadAccount(r)
  <2>1. req[r].pc \notin {"tracker", "lookup"}
    BY DEF Stages
  <2>2. QED BY <2>1 DEF DynReadTracker, DynReadAccount
<1>13. QED
  BY <1>3, <1>4, <1>5, <1>6, <1>7, <1>8, <1>9, <1>10, <1>11, <1>12 DEF Completing

(* What a request holds when it comes to a place behind its conditional      *)
(* UPDATE.                                                                   *)
LEMMA RequestLocks ==
    ASSUME TypeOK, Stages, Locked, backend = "postgres", NEW r \in Request, Completing(r)
    PROVE  /\ req'[r].pc \in {"account", "blanket", "commit"} =>
                lock'[req'[r].code] = r /\ Working(req[r].code)'
           /\ req'[r].pc = "commit" => \A d \in req'[r].kill : lock'[d] = r
<1>0. /\ RowTypes /\ RequestTypes /\ Arrivals(r) /\ RequestMoves(r)
      /\ lock \in [Challenge -> Request \cup {None}]
  BY RequestArrives, RequestMoved DEF TypeOK, RowTypes
<1>1. CASE req'[r].pc = "account"
  <2>1. PgConsume(r) /\ req'[r].code = req[r].code
    BY <1>0, <1>1 DEF Arrivals, RequestMoves, GoesTo
  <2>2. req[r].pc = "complete" /\ chal' = chal
    BY <2>1 DEF PgConsume
  <2>3. req[r].code \in Challenge
    BY <1>0, <2>2 DEF RequestTypes, OpenPcs
  <2>4. ~Refuse(r)
    BY <1>0, <1>1, RefuseEffect
  <2>5. lock' = [lock EXCEPT ![req[r].code] = r] /\ Consumable(r)
    BY <2>1, <2>4 DEF PgConsume
  <2>6. lock'[req[r].code] = r
    BY <1>0, <2>3, <2>5
  <2>7. Working(req[r].code)'
    BY <2>1, <2>2, <2>5 DEF Working, Consumable, Usable, Live
  <2>8. QED BY <1>1, <2>1, <2>6, <2>7
<1>2. CASE req'[r].pc = "blanket"
  <2>1. PgAccount(r) /\ req'[r].code = req[r].code
    BY <1>0, <1>2 DEF Arrivals, RequestMoves, GoesTo
  <2>2. ~Refuse(r)
    BY <1>0, <1>2, RefuseEffect
  <2>3. req[r].pc = "account" /\ UNCHANGED <<lock, chal>>
    BY <2>1, <2>2 DEF PgAccount
  <2>4. QED BY <1>2, <2>1, <2>3 DEF Locked, Working
<1>3. CASE req'[r].pc = "commit"
  <2>1. PgBlanket(r)
    BY <1>0, <1>3 DEF Arrivals
  <2>2. /\ req[r].pc = "blanket" /\ Others(r) \in SUBSET Challenge /\ chal' = chal
        /\ req' = [req EXCEPT ![r].pc = "commit", ![r].kill = Others(r)]
        /\ lock' = [d \in Challenge |-> IF d \in Others(r) THEN r ELSE lock[d]]
    BY <2>1 DEF PgBlanket, Others
  <2>3. req'[r].code = req[r].code /\ req'[r].kill = Others(r)
    BY <1>0, <2>2, KillEffect DEF GoesTo
  <2>4. lock[req[r].code] = r /\ Working(req[r].code) /\ req[r].code \in Challenge
    BY <1>0, <2>2 DEF Locked, RequestTypes, OpenPcs
  <2>5. lock'[req[r].code] = r /\ \A d \in Others(r) : lock'[d] = r
    BY <2>2, <2>4 DEF Others
  <2>6. Working(req[r].code)'
    BY <2>2, <2>3, <2>4 DEF Working
  <2>7. QED BY <2>3, <2>5, <2>6
<1>4. QED BY <1>1, <1>2, <1>3

LEMMA LockedStep ==
    ASSUME TypeOK, SignInInv, [Next]_vars
    PROVE  Locked'
<1>0. Stages /\ Locked /\ Tracked /\ Stages'
  BY StagesStep DEF SignInInv
<1>1. backend' = backend
  <2>1. ASSUME NEW c \in Challenge, Purge(c) \/ Starting(c) PROVE backend' = backend
    BY <1>0, <2>1, StartMoved DEF Purge
  <2>2. ASSUME NEW r \in Request, Completing(r) PROVE backend' = backend
    BY <1>0, <2>2, RequestMoved
  <2>3. QED BY <2>1, <2>2 DEF Next, Tick, vars
<1>2. CASE backend # "postgres"
  BY <1>0, <1>1, <1>2 DEF Stages, Locked
<1>3. CASE backend = "postgres"
  <2>1. ASSUME NEW c \in Challenge, Purge(c) \/ Starting(c) PROVE Locked'
    <3>1. req' = req
      BY <1>0, <2>1, StartMoved DEF Purge
    <3>2. \A q \in Request : Held(q)
      BY <1>0, <1>3, <2>1, StartHolds
    <3>3. QED BY <1>0, <3>1, <3>2, HeldStays DEF Locked
  <2>2. ASSUME NEW r \in Request, Completing(r) PROVE Locked'
    <3>1. OtherRequests(r)
      BY <1>0, <2>2, RequestMoved
    <3>2. \A q \in Request : q # r => Held(q)
      BY <1>0, <1>3, <2>2, CompletionHolds
    <3>3. QED BY <1>0, <1>3, <2>2, <3>1, <3>2, HeldStays, RequestLocks DEF Locked, OtherRequests
  <2>3. CASE Tick \/ UNCHANGED vars
    <3>1. UNCHANGED <<req, lock, chal>>
      BY <2>3 DEF Tick, vars, store
    <3>2. \A q \in Request : Held(q)
      BY <3>1 DEF Held, Working
    <3>3. QED BY <1>0, <3>1, <3>2, HeldStays DEF Locked
  <2>4. QED BY <2>1, <2>2, <2>3 DEF Next
<1>4. QED BY <1>2, <1>3

-----------------------------------------------------------------------------
(* DynamoDB: the tracker.                                                    *)

(* The call of start_email was reading, or is as it was.                     *)
StartReads(c) ==
    start'[c].pc = "write" =>
        \/ start[c].pc = "write" /\ start'[c] = start[c]
        \/ start'[c].version = tracker.version /\ start'[c].ids = tracker.ids

RequestReads(q) ==
    req'[q].pc \in {"lookup", "write"} =>
        \/ /\ req[q].pc \in {"lookup", "write"} /\ req'[q].version = req[q].version
           /\ req'[q].kill = req[q].kill /\ req'[q].code = req[q].code
        \/ /\ req'[q].version = tracker.version
           /\ req'[q].kill = IdsOf(tracker.ids) \ {req'[q].code}

LEMMA TrackedFrame ==
    ASSUME TypeOK, Tracked, RowsAge, tracker' = tracker, Issued' = Issued, backend' = backend,
           \A c \in Challenge : StartReads(c), \A q \in Request : RequestReads(q)
    PROVE  Tracked'
<1>1. SUFFICES ASSUME backend = "dynamodb" PROVE Tracked'
  BY DEF Tracked
<1>2. tracker.version \in Nat /\ IdsOf(tracker.ids)' = IdsOf(tracker.ids)
  BY DEF TypeOK, IdsOf
<1>3. \A c \in Challenge : ~Void(c)' => c \in IdsOf(tracker.ids)
  <2>1. SUFFICES ASSUME NEW c \in Challenge, ~Void(c)' PROVE ~Void(c)
    BY <1>1 DEF Tracked
  <2>2. start'[c].pc = "done" <=> start[c].pc = "done"
    BY DEF Issued
  <2>3. QED BY <2>1, <2>2 DEF RowsAge, Void
<1>4. \A c \in Challenge : start'[c].pc = "write" =>
             /\ start'[c].version <= tracker.version
             /\ start'[c].version = tracker.version => start'[c].ids = tracker.ids
  BY <1>1, <1>2 DEF Tracked, StartReads
<1>5. \A r \in Request : req'[r].pc \in {"lookup", "write"} =>
             /\ req'[r].version <= tracker.version
             /\ req'[r].version = tracker.version =>
                    req'[r].kill = IdsOf(tracker.ids) \ {req'[r].code}
  BY <1>1, <1>2 DEF Tracked, RequestReads
<1>6. QED BY <1>1, <1>2, <1>3, <1>4, <1>5 DEF Tracked

LEMMA TrackedByStart ==
    ASSUME TypeOK, Stages, Tracked, RowsAge, NEW c \in Challenge, Starting(c)
    PROVE  Tracked'
<1>0. StartTypes
  BY DEF TypeOK
<1>1. OtherStarts(c) /\ backend' = backend /\ req' = req
  BY StartMoved
<1>2. SUFFICES ASSUME backend = "dynamodb" PROVE Tracked'
  BY <1>1 DEF Tracked
<1>3. \A q \in Request : RequestReads(q)
  BY <1>1 DEF RequestReads
<1>4. ASSUME tracker' = tracker, start'[c].pc # "done", start[c].pc # "done", StartReads(c)
      PROVE  Tracked'
  <2>1. Issued' = Issued
    BY <1>1, <1>4 DEF Issued, OtherStarts
  <2>2. \A d \in Challenge : StartReads(d)
    BY <1>1, <1>4 DEF OtherStarts, StartReads
  <2>3. QED BY <1>1, <1>3, <1>4, <2>1, <2>2, TrackedFrame
<1>5. CASE BeginStart(c)
  <2>1. tracker' = tracker /\ start[c].pc = "idle"
    BY <1>5 DEF BeginStart
  <2>2. start'[c].pc = "store"
    BY <1>5, BeginStartEffect
  <2>3. QED BY <1>4, <2>1, <2>2 DEF StartReads
<1>6. CASE DynStartRead(c)
  <2>1. tracker' = tracker /\ start[c].pc = "store"
    BY <1>6, Zenon DEF DynStartRead, store
  <2>2. start'[c].pc = "write" /\ start'[c].version = tracker.version /\ start'[c].ids = tracker.ids
    BY <1>0, <1>6, ReadEffect
  <2>3. QED BY <1>4, <2>1, <2>2 DEF StartReads
<1>7. CASE DynStartCancelled(c)
  <2>1. tracker' = tracker /\ start[c].pc = "write"
    BY <1>7 DEF DynStartCancelled, store
  <2>2. start'[c].pc \in {"store", "failed"}
    BY <1>0, <1>7, CancelledEffect
  <2>3. QED BY <1>4, <2>1, <2>2 DEF StartReads
<1>8. CASE DynStartWrite(c)
  <2>1. start[c].pc = "write" /\ start[c].version = tracker.version
    BY <1>8 DEF DynStartWrite, TrackerIs
  <2>2. start[c].ids = tracker.ids
    BY <1>2, <2>1 DEF Tracked
  <2>3. IdsOf(tracker.ids) \subseteq Issued /\ c \notin IdsOf(start[c].ids)
    BY <1>2, <2>1, <2>2 DEF Tracked, Issued
  <2>4. /\ start'[c].pc = "done" /\ tracker'.version = tracker.version + 1
        /\ Len(tracker'.ids) <= MaxLive
        /\ IdsOf(tracker'.ids) \subseteq {c} \cup IdsOf(tracker.ids)
        /\ c \in IdsOf(tracker'.ids)
        /\ \A d \in Challenge :
             /\ StoredIs(d, \/ d = c
                            \/ chal[d].stored /\ (d \in IdsOf(tracker.ids) =>
                                                      d \in IdsOf(tracker'.ids)))
             /\ ConsumedIs(d, chal[d].consumed)
    BY <1>8, <2>1, <2>2, <2>3, WriteEffect
  <2>5. c \in Issued' /\ Issued \subseteq Issued'
    BY <2>4 DEF RowsAge, Issued
  <2>6. \A d \in Challenge : ~Void(d)' => d \in IdsOf(tracker'.ids)
    BY <1>2, <2>4 DEF Tracked, Void, StoredIs, ConsumedIs
  <2>7. tracker.version \in Nat
    BY DEF TypeOK
  <2>8. \A d \in Challenge : start'[d].pc = "write" =>
            start'[d].version <= tracker.version
    BY <1>1, <1>2, <2>4 DEF Tracked, OtherStarts
  <2>9. \A r \in Request : req'[r].pc \in {"lookup", "write"} => req'[r].version <= tracker.version
    BY <1>1, <1>2 DEF Tracked
  <2>10. \A d \in Challenge : start'[d].pc = "write" => start'[d].version \in Nat
    BY <1>0, <1>1, <2>4 DEF OtherStarts, StartTypes, StartState
  <2>11. \A r \in Request : req'[r].version \in Nat
    BY <1>1 DEF TypeOK, RequestTypes, RequestState
  <2>12. IdsOf(tracker.ids)' = IdsOf(tracker'.ids)
    BY DEF IdsOf
  <2>13. QED BY <2>3, <2>4, <2>5, <2>6, <2>7, <2>8, <2>9, <2>10, <2>11, <2>12 DEF Tracked
<1>9. ~SqliteStart(c) /\ ~PgStartSelect(c) /\ ~PgStartCommit(c)
  <2>1. ~SqliteStart(c)
    BY <1>2 DEF SqliteStart
  <2>2. ~PgStartSelect(c)
    BY <1>2 DEF PgStartSelect
  <2>3. ~PgStartCommit(c)
    BY <1>2 DEF PgStartCommit, Stages
  <2>4. QED BY <2>1, <2>2, <2>3
<1>10. QED BY <1>5, <1>6, <1>7, <1>8, <1>9 DEF Starting

(* Only the transaction that signs in writes the tracker, and none of the    *)
(* codes works afterwards.                                                   *)
LEMMA TrackedByRequest ==
    ASSUME TypeOK, Stages, Tracked, RowsAge, NEW r \in Request, Completing(r)
    PROVE  Tracked'
<1> USE DEF store
<1>0. RequestTypes /\ Arrivals(r)
  BY RequestArrives DEF TypeOK
<1>1. OtherRequests(r) /\ RequestMoves(r) /\ start' = start /\ backend' = backend
  BY RequestMoved
<1>2. SUFFICES ASSUME backend = "dynamodb" PROVE Tracked'
  BY <1>1 DEF Tracked
<1>3. Issued' = Issued /\ \A c \in Challenge : StartReads(c)
  BY <1>1 DEF Issued, StartReads
<1>4. CASE DynWrite(r)
  <2>1. /\ req[r].pc = "write" /\ req[r].version = tracker.version
        /\ tracker' = [version |-> req[r].version + 1, ids |-> <<>>] /\ Succeed(r)
    BY <1>4 DEF DynWrite, TrackerIs
  <2>2. req[r].kill = IdsOf(tracker.ids) \ {req[r].code}
    BY <1>2, <2>1 DEF Tracked
  <2>3. \A d \in Challenge : Void(d)'
    BY <1>2, <1>4, <2>2, DynWriteRows DEF Tracked, Void, StoredIs, ConsumedIs
  <2>4. /\ tracker'.version = tracker.version + 1 /\ tracker'.ids = <<>>
        /\ IdsOf(tracker.ids)' = {} /\ tracker.version \in Nat /\ Len(tracker'.ids) <= MaxLive
    BY <2>1, EmailSignInAssumptions DEF IdsOf, TypeOK
  <2>5. req'[r].pc = "done"
    BY <1>0, <2>1, SucceedEffect
  <2>6. \A c \in Challenge : start'[c].pc = "write" => start'[c].version <= tracker.version
    BY <1>1, <1>2 DEF Tracked
  <2>7. \A q \in Request : req'[q].pc \in {"lookup", "write"} =>
            req'[q].version <= tracker.version /\ req'[q].version \in Nat
    BY <1>0, <1>1, <1>2, <2>5 DEF Tracked, OtherRequests, RequestTypes, RequestState
  <2>8. \A c \in Challenge : start'[c].version \in Nat
    BY <1>1 DEF TypeOK, StartTypes, StartState
  <2>9. QED BY <2>3, <2>4, <2>6, <2>7, <2>8 DEF Tracked
<1>5. CASE ~DynWrite(r)
  <2>1. tracker' = tracker
    <3>1. ASSUME NEW c \in Challenge, BeginComplete(r, c) PROVE tracker' = tracker
      BY <3>1 DEF BeginComplete
    <3>2. CASE Check(r) \/ RecordFailure(r) \/ SqliteComplete(r)
      BY <3>2 DEF Check, RecordFailure, SqliteComplete
    <3>3. CASE PgConsume(r) \/ PgAccount(r) \/ PgBlanket(r) \/ PgCommit(r) \/ PgAbort(r)
      BY <3>3 DEF PgConsume, PgAccount, PgBlanket, PgCommit, PgAbort
    <3>4. CASE DynReadTracker(r)
      BY <3>4 DEF DynReadTracker
    <3>5. CASE DynLoad(r) \/ DynReadAccount(r) \/ DynCancelled(r)
      BY <3>5 DEF DynLoad, DynReadAccount, DynCancelled
    <3>6. QED BY <1>5, <3>1, <3>2, <3>3, <3>4, <3>5 DEF Completing
  <2>2. RequestReads(r)
    <3>1. CASE req'[r].pc = "lookup"
      <4>1. DynReadTracker(r)
        BY <1>0, <3>1 DEF Arrivals
      <4>2. QED BY <4>1, TrackerEffect DEF RequestReads, GoesTo
    <3>2. CASE req'[r].pc = "write"
      <4>1. DynReadAccount(r)
        BY <1>0, <3>2 DEF Arrivals
      <4>2. ~Refuse(r)
        BY <1>0, <3>2, RefuseEffect
      <4>3. /\ req[r].pc = "lookup" /\ AccountFor(r) \in Account
            /\ req' = [req EXCEPT ![r].pc = "write", ![r].account = AccountFor(r)]
        BY <4>1, <4>2 DEF DynReadAccount, AccountFor, TypeOK, Account
      <4>4. /\ req'[r].version = req[r].version /\ req'[r].kill = req[r].kill
            /\ req'[r].code = req[r].code
        BY <1>0, <4>3, AccountEffect DEF GoesTo, OpenPcs
      <4>5. QED BY <4>3, <4>4 DEF RequestReads
    <3>3. QED BY <3>1, <3>2 DEF RequestReads
  <2>3. \A q \in Request : RequestReads(q)
    BY <1>1, <2>2 DEF RequestReads, OtherRequests
  <2>4. QED BY <1>1, <1>3, <2>1, <2>3, TrackedFrame
<1>6. QED BY <1>4, <1>5

LEMMA TrackedStep ==
    ASSUME TypeOK, SignInInv, [Next]_vars
    PROVE  Tracked'
<1>0. RowsAge /\ Stages /\ Tracked
  BY StepAges DEF SignInInv
<1>1. ASSUME NEW c \in Challenge, Starting(c) PROVE Tracked'
  BY <1>0, <1>1, TrackedByStart
<1>2. ASSUME NEW r \in Request, Completing(r) PROVE Tracked'
  BY <1>0, <1>2, TrackedByRequest
<1>3. ASSUME UNCHANGED <<backend, tracker, start, req>> PROVE Tracked'
  <2>1. /\ Issued' = Issued /\ \A c \in Challenge : StartReads(c)
        /\ \A q \in Request : RequestReads(q)
    BY <1>3 DEF Issued, StartReads, RequestReads
  <2>2. QED BY <1>0, <1>3, <2>1, TrackedFrame
<1>4. ASSUME NEW c \in Challenge, Purge(c) PROVE Tracked'
  BY <1>3, <1>4 DEF Purge
<1>5. CASE Tick \/ UNCHANGED vars
  BY <1>3, <1>5 DEF Tick, vars, store
<1>6. QED BY <1>1, <1>2, <1>4, <1>5 DEF Next

-----------------------------------------------------------------------------
(* The account of the address.                                               *)

LEMMA FoundAccount ==
    ASSUME OneAccount, NEW r \in Request
    PROVE  \/ accounts = {} /\ AccountFor(r) = r
           \/ AccountFor(r) \in accounts /\ accounts = {AccountFor(r)}
BY DEF OneAccount, AccountFor

(* What a request about to sign in knows of the account.                     *)
Knows(q) ==
    /\ req[q].pc \in {"blanket", "commit", "write"} => ~disabled
    /\ req[q].pc \in {"blanket", "commit"} =>
          \/ req[q].account \in accounts
          \/ req[q].account = q /\ accountLock = q /\ accounts = {}
    /\ req[q].pc = "write" => req[q].account \in accounts \/ req[q].account = q

(* The insert of one request is not seen, and holds up every other.          *)
LEMMA OthersKnow ==
    ASSUME TypeOK, Stages, OneAccount, NEW r \in Request, Completing(r),
           NEW q \in Request \ {r}
    PROVE  Knows(q)'
<1> USE DEF store
<1>0. RequestTypes /\ req'[q] = req[q] /\ disabled' = disabled /\ Knows(q) /\ q # r /\ q # None
  BY RequestMoved, EmailSignInAssumptions DEF TypeOK, OtherRequests, OneAccount, Knows
<1>1. accounts \subseteq accounts'
  BY SessionsMoved
<1>2. CASE req[q].account \in accounts \/ req[q].pc \notin {"blanket", "commit"}
  BY <1>0, <1>1, <1>2 DEF Knows
<1>3. CASE /\ req[q].account \notin accounts /\ req[q].pc \in {"blanket", "commit"}
  <2>1. /\ req[q].account = q /\ accountLock = q /\ accounts = {} /\ ~disabled
        /\ backend = "postgres"
    BY <1>0, <1>3 DEF Knows, Stages
  <2>2. ~SqliteComplete(r) /\ ~DynLoad(r) /\ ~DynWrite(r) /\ ~DynCancelled(r)
    BY <2>1 DEF SqliteComplete, DynLoad, DynWrite, DynCancelled
  <2>3. ~PgCommit(r) /\ ~PgAccount(r)
    <3>1. CASE PgCommit(r)
      <4>1. req[r].pc = "commit"
        BY <3>1 DEF PgCommit
      <4>2. accountLock = r
        BY <2>1, <4>1 DEF OneAccount
      <4>3. QED BY <1>0, <2>1, <4>2
    <3>2. CASE PgAccount(r)
      BY <1>0, <2>1, <3>2 DEF PgAccount
    <3>3. QED BY <3>1, <3>2
  <2>4. accounts' = accounts
    BY <2>2, <2>3, SessionsMoved
  <2>5. accountLock' = accountLock
    <3>1. ASSUME NEW c \in Challenge, BeginComplete(r, c) PROVE accountLock' = accountLock
      BY <3>1 DEF BeginComplete
    <3>2. CASE Check(r) \/ RecordFailure(r) \/ PgConsume(r) \/ PgBlanket(r)
      BY <3>2 DEF Check, RecordFailure, PgConsume, PgBlanket
    <3>3. CASE PgAbort(r)
      BY <1>0, <2>1, <3>3 DEF PgAbort, Unlock
    <3>4. CASE DynReadTracker(r)
      BY <3>4 DEF DynReadTracker
    <3>5. CASE DynReadAccount(r)
      BY <3>5 DEF DynReadAccount
    <3>6. QED BY <2>2, <2>3, <3>1, <3>2, <3>3, <3>4, <3>5 DEF Completing
  <2>6. QED BY <1>0, <2>1, <2>4, <2>5 DEF Knows
<1>4. QED BY <1>2, <1>3

LEMMA RequestKnows ==
    ASSUME TypeOK, Stages, OneAccount, NEW r \in Request, Completing(r)
    PROVE  Knows(r)'
<1> USE DEF store
<1>0. RequestTypes /\ Arrivals(r) /\ disabled' = disabled
  BY RequestArrives, RequestMoved DEF TypeOK
<1>1. CASE req'[r].pc \in {"blanket", "write"}
  <2>1. ~Refuse(r)
    BY <1>0, <1>1, RefuseEffect
  <2>2. PgAccount(r) \/ DynReadAccount(r)
    BY <1>0, <1>1 DEF Arrivals
  <2>3. req[r].pc \in OpenPcs /\ AccountFor(r) \in Account
    BY <2>2 DEF PgAccount, DynReadAccount, OpenPcs, AccountFor, TypeOK, Account
  <2>4. ~disabled /\ accounts' = accounts
    BY <2>1, <2>2 DEF PgAccount, DynReadAccount
  <2>5. \E p \in {"blanket", "write"} :
            req' = [req EXCEPT ![r].pc = p, ![r].account = AccountFor(r)]
    BY <2>1, <2>2 DEF PgAccount, DynReadAccount
  <2>6. PICK p \in {"blanket", "write"} :
            req' = [req EXCEPT ![r].pc = p, ![r].account = AccountFor(r)]
    BY <2>5
  <2>7. req'[r].account = AccountFor(r)
    BY <1>0, <2>3, <2>6, AccountEffect DEF OpenPcs
  <2>8. req'[r].pc = "blanket" => (accounts = {} => accountLock' = r)
    <3>1. req'[r].pc = "blanket" => PgAccount(r)
      BY <1>0 DEF Arrivals
    <3>2. QED BY <2>1, <3>1 DEF PgAccount
  <2>9. QED BY <1>0, <1>1, <2>4, <2>7, <2>8, FoundAccount DEF Knows
<1>2. CASE req'[r].pc = "commit"
  <2>1. PgBlanket(r)
    BY <1>0, <1>2 DEF Arrivals
  <2>2. /\ req[r].pc = "blanket" /\ Others(r) \in SUBSET Challenge
        /\ req' = [req EXCEPT ![r].pc = "commit", ![r].kill = Others(r)]
        /\ UNCHANGED <<accounts, accountLock>>
    BY <2>1 DEF PgBlanket, Others
  <2>3. req'[r].account = req[r].account
    BY <1>0, <2>2, KillEffect
  <2>4. QED BY <1>0, <1>2, <2>2, <2>3 DEF OneAccount, Knows
<1>3. CASE req'[r].pc \notin {"blanket", "commit", "write"}
  BY <1>3 DEF Knows
<1>4. QED BY <1>1, <1>2, <1>3

LEMMA AccountStep ==
    ASSUME TypeOK, SignInInv, [Next]_vars
    PROVE  OneAccount'
<1>0. Stages /\ Tracked /\ OneAccount
  BY DEF SignInInv
<1>1. ASSUME UNCHANGED <<accounts, disabled, sessions, req, accountLock>> PROVE OneAccount'
  BY <1>0, <1>1 DEF OneAccount
<1>2. ASSUME NEW c \in Challenge, Purge(c) \/ Starting(c) PROVE OneAccount'
  BY <1>0, <1>1, <1>2, StartMoved DEF Purge
<1>3. ASSUME NEW r \in Request, Completing(r) PROVE OneAccount'
  <2>1. \A q \in Request : Knows(q)'
    BY <1>0, <1>3, OthersKnow, RequestKnows
  <2>2. /\ accounts' = {} \/ \E a \in Account : accounts' = {a}
        /\ disabled' => sessions' = {}
    <3>1. disabled' = disabled
      BY <1>0, <1>3, RequestMoved
    <3>2. CASE UNCHANGED <<accounts, sessions>>
      BY <1>0, <3>1, <3>2 DEF OneAccount
    <3>3. ASSUME NEW a \in Account, accounts' = accounts \cup {a}, ~disabled,
                 a \in accounts \/ accounts = {}
          PROVE  accounts' = {} \/ \E b \in Account : accounts' = {b}
      BY <1>0, <3>3 DEF OneAccount
    <3>4. CASE /\ SqliteComplete(r) \/ PgCommit(r) \/ DynWrite(r)
               /\ \E a \in Account :
                    /\ accounts' = accounts \cup {a}
                    /\ SqliteComplete(r) => a = AccountFor(r) /\ ~disabled
                    /\ PgCommit(r) \/ DynWrite(r) => a = req[r].account
      <4>1. PICK a \in Account : /\ accounts' = accounts \cup {a}
                                 /\ SqliteComplete(r) => a = AccountFor(r) /\ ~disabled
                                 /\ PgCommit(r) \/ DynWrite(r) => a = req[r].account
        BY <3>4
      <4>2. CASE SqliteComplete(r)
        <5>1. a \in accounts \/ accounts = {}
          BY <1>0, <4>1, <4>2, FoundAccount
        <5>2. QED BY <3>1, <3>3, <4>1, <4>2, <5>1
      <4>3. CASE PgCommit(r)
        <5>1. req[r].pc = "commit"
          BY <4>3 DEF PgCommit
        <5>2. ~disabled /\ (a \in accounts \/ accounts = {})
          BY <1>0, <4>1, <4>3, <5>1 DEF OneAccount
        <5>3. QED BY <3>1, <3>3, <4>1, <5>2
      <4>4. CASE DynWrite(r)
        <5>1. req[r].pc = "write" /\ (req[r].account = r => accounts = {})
          BY <4>4 DEF DynWrite
        <5>2. ~disabled /\ (a \in accounts \/ accounts = {})
          BY <1>0, <4>1, <4>4, <5>1 DEF OneAccount
        <5>3. QED BY <3>1, <3>3, <4>1, <5>2
      <4>5. QED BY <3>4, <4>2, <4>3, <4>4
    <3>5. QED BY <1>3, <3>2, <3>4, SessionsMoved
  <2>3. QED BY <2>1, <2>2 DEF OneAccount, Knows
<1>4. CASE Tick \/ UNCHANGED vars
  BY <1>1, <1>4 DEF Tick, vars, store
<1>5. QED BY <1>2, <1>3, <1>4 DEF Next

-----------------------------------------------------------------------------
(* The invariant behind sign-in holds on every back end.                     *)
THEOREM SignInInvHolds == Spec => []SignInInv
<1>1. Init => SignInInv
  <2> SUFFICES ASSUME Init PROVE SignInInv
    OBVIOUS
  <2>1. /\ \A c \in Challenge : start[c].pc = "idle" /\ ~chal[c].stored
        /\ \A r \in Request : req[r].pc = "idle" /\ req[r].before = {}
        /\ sessions = {} /\ tracker.ids = <<>>
    BY DEF Init, StartAt, RequestAt
  <2>2. Stages
    BY <2>1 DEF Stages, OpenPcs
  <2>3. Locked /\ Voided
    BY <2>1 DEF Locked, Voided
  <2>4. Tracked
    BY <2>1, EmailSignInAssumptions DEF Tracked, Void, IdsOf
  <2>5. OneAccount
    BY <2>1 DEF Init, OneAccount, Account
  <2>6. QED BY <2>2, <2>3, <2>4, <2>5 DEF SignInInv
<1>2. TypeOK /\ SignInInv /\ [Next]_vars => SignInInv'
  <2> SUFFICES ASSUME TypeOK, SignInInv, [Next]_vars PROVE SignInInv'
    OBVIOUS
  <2>1. Stages'
    BY StagesStep DEF SignInInv
  <2>2. QED BY <2>1, LockedStep, TrackedStep, VoidedStep, AccountStep DEF SignInInv
<1>3. QED BY <1>1, <1>2, TypeCorrect, PTL DEF Spec

(* A completed sign-in leaves no code working that had been issued for the   *)
(* address before complete_email was called.                                 *)
THEOREM SignInVoidsEarlierCodesHolds == Spec => []SignInVoidsEarlierCodes
<1>1. SignInInv => SignInVoidsEarlierCodes
  BY DEF SignInInv, Voided, SignInVoidsEarlierCodes, Void
<1>2. QED BY <1>1, SignInInvHolds, PTL

(* However many first sign-ins race, the address has one account, and one    *)
(* that is not active gets no session.                                       *)
THEOREM OneAccountPerAddressHolds == Spec => []OneAccountPerAddress
<1>1. SignInInv => OneAccountPerAddress
  <2> SUFFICES ASSUME SignInInv PROVE OneAccountPerAddress
    OBVIOUS
  <2>1. Cardinality(accounts) <= 1
    <3>1. CASE accounts = {}
      BY <3>1, FS_EmptySet
    <3>2. ASSUME NEW a \in Account, accounts = {a} PROVE Cardinality(accounts) <= 1
      <4>1. Cardinality({a}) = 1
        BY FS_Singleton
      <4>2. QED BY <3>2, <4>1
    <3>3. QED BY <3>1, <3>2 DEF SignInInv, OneAccount
  <2>2. QED BY <2>1 DEF SignInInv, OneAccount, OneAccountPerAddress
<1>2. QED BY <1>1, SignInInvHolds, PTL

-----------------------------------------------------------------------------
(* The number of codes that work at a time.                                  *)

LiveCodes == {c \in Challenge : Live(c, clock)}
StoredCodes == {c \in Challenge : chal[c].stored}

LEMMA LiveFinite ==
    ASSUME IsFiniteSet(StoredCodes)
    PROVE  \A t : IsFiniteSet({c \in Challenge : Live(c, t)})
<1>1. SUFFICES ASSUME NEW t PROVE IsFiniteSet({c \in Challenge : Live(c, t)})
  OBVIOUS
<1>2. {c \in Challenge : Live(c, t)} \in SUBSET StoredCodes
  BY DEF Live, StoredCodes
<1>3. QED BY <1>2, FS_Subset

(* Time passes and rows age: no step makes a code work again.                *)
LEMMA LiveShrinks ==
    ASSUME TypeOK, TypeOK', Stages, FewLive, RowsAge, Issued' = Issued, clock' >= clock
    PROVE  /\ LiveCodes' \subseteq LiveCodes /\ StoredCodes' \subseteq StoredCodes
<1>1. ASSUME NEW c \in Challenge, chal'[c].stored PROVE chal[c].stored
  <2>1. start'[c].pc = "done" <=> start[c].pc = "done"
    BY DEF Issued
  <2>2. QED BY <1>1, <2>1 DEF RowsAge
<1>2. ASSUME NEW c \in Challenge, Live(c, clock)' PROVE Live(c, clock)
  <2>1. chal[c].stored /\ ~chal[c].consumed
    BY <1>1, <1>2 DEF Live, RowsAge
  <2>2. chal'[c].created = chal[c].created
    BY <2>1 DEF Stages, RowsAge, GrowsOld
  <2>3. clock \in Nat /\ clock' \in Nat /\ chal[c].created \in Nat /\ Lifetime \in Nat
    BY EmailSignInAssumptions DEF TypeOK, Row
  <2>4. clock' < chal[c].created + Lifetime
    BY <1>2, <2>2 DEF Live
  <2>5. QED BY <2>1, <2>3, <2>4 DEF Live
<1>3. QED BY <1>1, <1>2 DEF LiveCodes, StoredCodes

(* create_email_challenge on SQLite: everything past the newest MaxLive is   *)
(* consumed in the transaction that stores the new row.                      *)
LEMMA SqliteStartBounds ==
    ASSUME TypeOK, Stages, FewLive, NEW c \in Challenge, SqliteStart(c)
    PROVE  Cardinality(LiveCodes') <= MaxLive
<1>1. /\ start[c].pc = "store" /\ clock' = clock
  BY DEF SqliteStart
<1>2. PICK S : /\ S \in Surplus({d \in Challenge : Live(d, chal[c].created)} \cup {c})
               /\ \A d \in Challenge :
                    /\ StoredIs(d, d = c \/ chal[d].stored)
                    /\ ConsumedIs(d, chal[d].consumed \/ d \in S)
                    /\ SameAge(d) /\ SameAttempts(d)
  BY <1>1, SqlStartEffect
<1>3. DEFINE L == {d \in Challenge : Live(d, chal[c].created)}
             T == L \cup {c}
<1>4. IsFiniteSet(L)
  BY LiveFinite DEF FewLive, StoredCodes
<1>5. IsFiniteSet(T) /\ Cardinality(T) \in Nat
  BY <1>4, FS_AddElement, FS_CardinalityType
<1>6. /\ S \in SUBSET T
      /\ Cardinality(S) = IF Cardinality(T) > MaxLive THEN Cardinality(T) - MaxLive ELSE 0
  BY <1>2 DEF Surplus
<1>7. LiveCodes' \subseteq T \ S
  <2>1. SUFFICES ASSUME NEW d \in Challenge, Live(d, clock)' PROVE d \in T /\ d \notin S
    BY DEF LiveCodes
  <2>2. d \notin S /\ ~chal[d].consumed /\ (d = c \/ chal[d].stored)
    BY <1>2, <2>1 DEF Live, StoredIs, ConsumedIs
  <2>3. /\ chal[c].created <= clock /\ clock \in Nat /\ chal[c].created \in Nat
        /\ chal[d].created \in Nat /\ Lifetime \in Nat
    BY <1>1, EmailSignInAssumptions DEF FewLive, TypeOK, Row
  <2>4. clock < chal[d].created + Lifetime
    BY <1>1, <1>2, <2>1 DEF Live, SameAge
  <2>5. d # c => Live(d, chal[c].created)
    BY <2>2, <2>3, <2>4 DEF Live
  <2>6. QED BY <2>2, <2>5
<1>8. IsFiniteSet(S) /\ Cardinality(S) \in Nat
  BY <1>5, <1>6, FS_Subset, FS_CardinalityType
<1>9. /\ IsFiniteSet(T \ S) /\ Cardinality(T \ S) = Cardinality(T) - Cardinality(S)
  <2> HIDE DEF T
  <2>1. T \cap S = S
    BY <1>6
  <2>2. QED BY <1>5, <2>1, FS_Difference
<1>10. MaxLive \in Nat
  BY EmailSignInAssumptions
<1>11. Cardinality(T \ S) <= MaxLive /\ Cardinality(T \ S) \in Nat
  <2> HIDE DEF T
  <2>1. QED BY <1>5, <1>6, <1>8, <1>9, <1>10
<1>12. Cardinality(LiveCodes') <= Cardinality(T \ S) /\ Cardinality(LiveCodes') \in Nat
  <2> HIDE DEF T
  <2>1. IsFiniteSet(LiveCodes')
    BY <1>7, <1>9, FS_Subset
  <2>2. QED BY <1>7, <1>9, <2>1, FS_Subset, FS_CardinalityType
<1>13. QED
  <2> HIDE DEF T
  <2>1. QED BY <1>10, <1>11, <1>12

(* Which steps issue a code.                                                 *)
LEMMA IssuedMoves ==
    ASSUME TypeOK, Stages, Tracked, [Next]_vars
    PROVE  \/ Issued' = Issued
           \/ \E c \in Challenge :
                /\ SqliteStart(c) \/ PgStartCommit(c) \/ DynStartWrite(c)
                /\ start[c].pc # "done" /\ Issued' = Issued \cup {c}
<1>0. StartTypes
  BY DEF TypeOK
<1>1. ASSUME start' = start PROVE Issued' = Issued
  BY <1>1 DEF Issued
<1>2. ASSUME NEW c \in Challenge, OtherStarts(c), start[c].pc # "done", start'[c].pc # "done"
      PROVE  Issued' = Issued
  BY <1>2 DEF Issued, OtherStarts
<1>3. ASSUME NEW c \in Challenge, OtherStarts(c), start'[c].pc = "done"
      PROVE  Issued' = Issued \cup {c}
  BY <1>3 DEF Issued, OtherStarts
<1>4. ASSUME NEW c \in Challenge, BeginStart(c) PROVE Issued' = Issued
  <2>1. start[c].pc = "idle"
    BY <1>4 DEF BeginStart
  <2>2. QED BY <1>2, <1>4, <2>1, BeginStartEffect
<1>5. ASSUME NEW c \in Challenge, PgStartSelect(c) PROVE Issued' = Issued
  <2>1. start[c].pc = "store"
    BY <1>5, Zenon DEF PgStartSelect
  <2>2. QED BY <1>0, <1>2, <1>5, <2>1, SelectEffect
<1>6. ASSUME NEW c \in Challenge, DynStartRead(c) PROVE Issued' = Issued
  <2>1. start[c].pc = "store"
    BY <1>6, Zenon DEF DynStartRead
  <2>2. QED BY <1>0, <1>2, <1>6, <2>1, ReadEffect
<1>7. ASSUME NEW c \in Challenge, DynStartCancelled(c) PROVE Issued' = Issued
  <2>1. start[c].pc = "write"
    BY <1>7 DEF DynStartCancelled
  <2>2. QED BY <1>0, <1>2, <1>7, <2>1, CancelledEffect
<1>8. ASSUME NEW c \in Challenge, SqliteStart(c) \/ PgStartCommit(c)
      PROVE  start[c].pc # "done" /\ Issued' = Issued \cup {c}
  BY <1>3, <1>8, SqlStartEffect
<1>9. ASSUME NEW c \in Challenge, DynStartWrite(c)
      PROVE  start[c].pc # "done" /\ Issued' = Issued \cup {c}
  <2>1. c \notin IdsOf(start[c].ids)
    BY <1>9 DEF DynStartWrite, TrackerIs, Tracked, Issued
  <2>2. QED BY <1>3, <1>9, <2>1, WriteEffect
<1>10. ASSUME NEW c \in Challenge, Purge(c) PROVE Issued' = Issued
  BY <1>1, <1>10 DEF Purge
<1>11. ASSUME NEW r \in Request, Completing(r) PROVE Issued' = Issued
  BY <1>1, <1>11, RequestMoved
<1>12. ASSUME Tick \/ UNCHANGED vars PROVE Issued' = Issued
  BY <1>1, <1>12 DEF Tick, vars
<1>13. QED
  BY <1>4, <1>5, <1>6, <1>7, <1>8, <1>9, <1>10, <1>11, <1>12 DEF Next, Starting

(* A call of start_email begins with its first step.                         *)
LEMMA OnlyBegins ==
    ASSUME TypeOK, Stages, Tracked, [Next]_vars, NEW c \in Challenge,
           start[c].pc = "idle", start'[c].pc # "idle"
    PROVE  BeginStart(c)
<1>1. start' # start
  OBVIOUS
<1>2. ASSUME NEW d \in Challenge, Starting(d) PROVE BeginStart(c)
  <2>1. OtherStarts(d)
    BY <1>2, StartMoved
  <2>2. d = c
    BY <2>1 DEF OtherStarts
  <2>3. ~SqliteStart(c) /\ ~PgStartCommit(c) /\ ~DynStartWrite(c) /\ ~DynStartCancelled(c)
    BY DEF SqliteStart, PgStartCommit, DynStartWrite, DynStartCancelled
  <2>4. ~PgStartSelect(c)
    BY DEF PgStartSelect
  <2>5. ~DynStartRead(c)
    BY DEF DynStartRead
  <2>6. QED BY <1>2, <2>2, <2>3, <2>4, <2>5 DEF Starting
<1>3. ASSUME NEW d \in Challenge, Purge(d) PROVE FALSE
  BY <1>1, <1>3 DEF Purge
<1>4. ASSUME NEW r \in Request, Completing(r) PROVE FALSE
  BY <1>1, <1>4, RequestMoved
<1>5. ~Tick /\ ~UNCHANGED vars
  BY <1>1 DEF Tick, vars
<1>6. QED BY <1>2, <1>3, <1>4, <1>5 DEF Next

LEMMA FewLiveStep ==
    ASSUME TypeOK, TypeOK', SignInInv, FewLive, [Next]_vars
    PROVE  FewLive'
<1>0. RowsAge /\ Stages /\ Tracked
  BY StepAges DEF SignInInv
<1>1. clock' >= clock /\ backend' = backend
  <2>1. clock \in Nat
    BY DEF TypeOK
  <2>2. ASSUME NEW c \in Challenge, Purge(c) \/ Starting(c)
        PROVE  clock' = clock /\ backend' = backend
    BY <1>0, <2>2, StartMoved DEF Purge
  <2>3. ASSUME NEW r \in Request, Completing(r) PROVE clock' = clock /\ backend' = backend
    BY <1>0, <2>3, RequestMoved
  <2>4. CASE Tick \/ UNCHANGED vars
    BY <2>1, <2>4 DEF Tick, vars
  <2>5. QED BY <2>1, <2>2, <2>3, <2>4 DEF Next
<1>2. \A c \in Challenge : start'[c].pc # "idle" => chal'[c].created <= clock'
  <2>1. SUFFICES ASSUME NEW c \in Challenge, start'[c].pc # "idle"
                 PROVE  chal'[c].created <= clock'
    OBVIOUS
  <2>2. /\ clock \in Nat /\ clock' \in Nat /\ chal[c].created \in Nat
        /\ chal'[c].created \in Nat
    BY DEF TypeOK, Row
  <2>3. CASE start[c].pc # "idle"
    BY <1>0, <1>1, <2>2, <2>3 DEF FewLive, RowsAge, GrowsOld
  <2>4. CASE start[c].pc = "idle"
    <3>1. BeginStart(c)
      BY <1>0, <2>1, <2>4, OnlyBegins
    <3>2. chal'[c].created = clock
      BY <3>1, BeginStartEffect
    <3>3. QED BY <1>1, <2>2, <3>2
  <2>5. QED BY <2>3, <2>4
<1>3. CASE Issued' = Issued
  <2>1. LiveCodes' \subseteq LiveCodes /\ StoredCodes' \subseteq StoredCodes
    BY <1>0, <1>1, <1>3, LiveShrinks
  <2>2. IsFiniteSet(StoredCodes') /\ IsFiniteSet(LiveCodes)
    BY <2>1, FS_Subset, LiveFinite DEF FewLive, StoredCodes, LiveCodes
  <2>3. /\ Cardinality(LiveCodes') <= Cardinality(LiveCodes)
        /\ Cardinality(LiveCodes) \in Nat /\ Cardinality(LiveCodes') \in Nat
    BY <2>1, <2>2, FS_Subset, FS_CardinalityType
  <2>4. backend = "sqlite" => Cardinality(LiveCodes') <= MaxLive
    BY <2>3, EmailSignInAssumptions DEF FewLive, LiveCodes
  <2>5. QED BY <1>1, <1>2, <2>2, <2>4 DEF FewLive, StoredCodes, LiveCodes
<1>4. ASSUME NEW c \in Challenge, SqliteStart(c) \/ PgStartCommit(c) \/ DynStartWrite(c),
             Issued' = Issued \cup {c}
      PROVE  FewLive'
  <2>1. StoredCodes' \subseteq StoredCodes \cup {c}
    <3>1. SUFFICES ASSUME NEW d \in Challenge, d # c, chal'[d].stored PROVE chal[d].stored
      BY DEF StoredCodes
    <3>2. start'[d].pc = "done" <=> start[d].pc = "done"
      BY <1>4, <3>1 DEF Issued
    <3>3. QED BY <1>0, <3>1, <3>2 DEF RowsAge
  <2>2. IsFiniteSet(StoredCodes \cup {c})
    BY FS_AddElement DEF FewLive, StoredCodes
  <2>3. IsFiniteSet(StoredCodes')
    BY <2>1, <2>2, FS_Subset
  <2>4. backend = "sqlite" => SqliteStart(c)
    BY <1>0, <1>4 DEF PgStartCommit, DynStartWrite, Stages
  <2>5. backend = "sqlite" => Cardinality(LiveCodes') <= MaxLive
    BY <1>0, <2>4, SqliteStartBounds
  <2>6. QED BY <1>1, <1>2, <2>3, <2>5 DEF FewLive, StoredCodes, LiveCodes
<1>5. QED BY <1>0, <1>3, <1>4, IssuedMoves

(* The bound on SQLite is inductive, once time and finiteness are known.     *)
THEOREM FewLiveHolds == Spec => []FewLive
<1>1. Init => FewLive
  <2> SUFFICES ASSUME Init PROVE FewLive
    OBVIOUS
  <2>1. /\ \A c \in Challenge : start[c].pc = "idle" /\ ~chal[c].stored
    BY DEF Init, StartAt
  <2>2. {c \in Challenge : chal[c].stored} = {} /\ {c \in Challenge : Live(c, clock)} = {}
    BY <2>1 DEF Live
  <2>3. IsFiniteSet({c \in Challenge : chal[c].stored})
    BY <2>2, FS_EmptySet
  <2>4. Cardinality({c \in Challenge : Live(c, clock)}) <= MaxLive
    BY <2>2, FS_EmptySet, EmailSignInAssumptions
  <2>5. QED BY <2>1, <2>3, <2>4 DEF FewLive
<1>2. TypeOK /\ TypeOK' /\ SignInInv /\ FewLive /\ [Next]_vars => FewLive'
  BY FewLiveStep
<1>3. QED BY <1>1, <1>2, TypeCorrect, SignInInvHolds, PTL DEF Spec

LEMMA IdsBounded ==
    ASSUME NEW s \in Seq(Challenge)
    PROVE  IsFiniteSet(IdsOf(s)) /\ Cardinality(IdsOf(s)) <= Len(s)
<1>1. Len(s) \in Nat
  OBVIOUS
<1>2. DEFINE f == [i \in 1..Len(s) |-> s[i]]
<1>3. f \in Surjection(1..Len(s), IdsOf(s))
  BY DEF Surjection, IdsOf
<1>4. ExistsSurjection(1..Len(s), IdsOf(s))
  BY <1>3 DEF ExistsSurjection
<1>5. QED BY <1>1, <1>4, FS_SurjCardinalityBound, FS_NatSurjection

(* On SQLite and DynamoDB at most MaxLive codes of an address work at any    *)
(* moment, however start_email calls interleave.                             *)
THEOREM LiveCodesBoundedHolds == Spec => []LiveCodesBounded
<1>1. TypeOK /\ SignInInv /\ FewLive => LiveCodesBounded
  <2> SUFFICES ASSUME TypeOK, SignInInv, FewLive, backend \in {"sqlite", "dynamodb"}
               PROVE  Cardinality(LiveCodes) <= MaxLive
    BY DEF LiveCodesBounded, LiveCodes
  <2>1. CASE backend = "sqlite"
    BY <2>1 DEF FewLive, LiveCodes
  <2>2. CASE backend = "dynamodb"
    <3>1. tracker.ids \in Seq(Challenge) /\ Len(tracker.ids) <= MaxLive
      BY <2>2 DEF TypeOK, SignInInv, Tracked
    <3>2. LiveCodes \subseteq IdsOf(tracker.ids)
      BY <2>2 DEF SignInInv, Tracked, LiveCodes, Live, Void
    <3>3. IsFiniteSet(IdsOf(tracker.ids)) /\ Cardinality(IdsOf(tracker.ids)) <= Len(tracker.ids)
      BY <3>1, IdsBounded
    <3>4. /\ Cardinality(LiveCodes) <= Cardinality(IdsOf(tracker.ids))
          /\ IsFiniteSet(LiveCodes)
      BY <3>2, <3>3, FS_Subset
    <3>5. Cardinality(LiveCodes) \in Nat /\ Cardinality(IdsOf(tracker.ids)) \in Nat
      BY <3>3, <3>4, FS_CardinalityType
    <3>6. Len(tracker.ids) \in Nat /\ MaxLive \in Nat
      BY <3>1, EmailSignInAssumptions
    <3>7. QED BY <3>1, <3>3, <3>4, <3>5, <3>6
  <2>3. QED BY <2>1, <2>2
<1>2. QED BY <1>1, TypeCorrect, SignInInvHolds, FewLiveHolds, PTL

-----------------------------------------------------------------------------
(* The refinement.                                                           *)

(* Codes stop working and never start again, except the one being issued.    *)
LEMMA WorkingMoves ==
    ASSUME TypeOK, TypeOK', RowsAge, NEW S, Issued' \subseteq Issued \cup S
    PROVE  WorkingCodes' \subseteq WorkingCodes \cup S
<1>1. SUFFICES ASSUME NEW c \in Challenge, c \notin S, c \in WorkingCodes'
               PROVE  c \in WorkingCodes
  BY DEF WorkingCodes
<1>2. chal'[c].stored /\ ~chal'[c].consumed /\ chal'[c].attempts < MaxAttempts
  BY <1>1 DEF WorkingCodes
<1>3. start'[c].pc = "done" => start[c].pc = "done"
  BY <1>1 DEF Issued
<1>4. chal[c].stored /\ ~chal[c].consumed
  BY <1>2, <1>3 DEF RowsAge
<1>5. chal[c].attempts \in Nat /\ chal'[c].attempts \in Nat /\ MaxAttempts \in Nat
  BY EmailSignInAssumptions DEF TypeOK, Row
<1>6. chal'[c].attempts >= chal[c].attempts
  BY DEF RowsAge, GrowsOld
<1>7. QED BY <1>2, <1>4, <1>5, <1>6 DEF WorkingCodes

(* The step that mints a session uses a code that works, and consumes it.    *)
LEMMA MintsOnce ==
    ASSUME TypeOK, Stages, Locked, NEW r \in Request, Completing(r), sessions' # sessions
    PROVE  /\ req[r].code \in WorkingCodes /\ req[r].code \notin WorkingCodes'
           /\ SignIns' = SignIns \cup {[by |-> r, code |-> req[r].code]}
<1>0. RowTypes
  BY DEF TypeOK, RowTypes
<1>1. /\ SqliteComplete(r) \/ PgCommit(r) \/ DynWrite(r)
      /\ req[r].pc \in OpenPcs
      /\ \E a \in Account : sessions' = sessions \cup {[by |-> r, code |-> req[r].code, account |-> a]}
  BY SessionsMoved
<1>2. SignIns' = SignIns \cup {[by |-> r, code |-> req[r].code]}
  <2>1. PICK a \in Account : sessions' = sessions \cup {[by |-> r, code |-> req[r].code, account |-> a]}
    BY <1>1
  <2>2. PICK x : x = [by |-> r, code |-> req[r].code, account |-> a]
    OBVIOUS
  <2>3. x.by = r /\ x.code = req[r].code /\ sessions' = sessions \cup {x}
    BY <2>1, <2>2
  <2>4. QED BY <2>3 DEF SignIns
<1>3. req[r].code \in Challenge
  BY <1>1 DEF TypeOK, RequestTypes
<1>4. ASSUME NEW S, req[r].code \in S, chal' = Consume(S)
      PROVE  req[r].code \notin WorkingCodes'
  BY <1>0, <1>3, <1>4, ConsumeEffect DEF WorkingCodes, ConsumedIs
<1>5. CASE SqliteComplete(r)
  <2>1. Consumable(r) /\ chal' = Consume({req[r].code} \cup Others(r))
    BY <1>5 DEF SqliteComplete
  <2>2. QED BY <1>2, <1>3, <1>4, <2>1 DEF Consumable, Usable, Live, WorkingCodes
<1>6. CASE PgCommit(r)
  <2>1. req[r].pc = "commit" /\ chal' = Consume({req[r].code} \cup req[r].kill)
    BY <1>6 DEF PgCommit
  <2>2. QED BY <1>2, <1>3, <1>4, <2>1 DEF Locked, Working, WorkingCodes
<1>7. CASE DynWrite(r)
  <2>1. Consumable(r)
    BY <1>7 DEF DynWrite
  <2>2. req[r].code \notin WorkingCodes'
    BY <1>3, <1>7, DynWriteRows DEF WorkingCodes, ConsumedIs
  <2>3. QED BY <1>2, <1>3, <2>1, <2>2 DEF Consumable, Usable, Live, WorkingCodes
<1>8. QED BY <1>1, <1>5, <1>6, <1>7

(* Who signed in is done, and the code that signed in works no more.         *)
SpentCodes ==
    \A s \in sessions : req[s.by].pc = "done" /\ s.code \notin WorkingCodes

LEMMA DoneStays ==
    ASSUME NEW r \in Request, Completing(r)
    PROVE  req[r].pc # "done"
<1>1. ASSUME NEW c \in Challenge, BeginComplete(r, c) PROVE req[r].pc # "done"
  BY <1>1 DEF BeginComplete
<1>2. CASE Check(r) \/ RecordFailure(r) \/ SqliteComplete(r)
  BY <1>2 DEF Check, RecordFailure, SqliteComplete
<1>3. CASE PgConsume(r) \/ PgAccount(r) \/ PgBlanket(r) \/ PgCommit(r) \/ PgAbort(r)
  BY <1>3 DEF PgConsume, PgAccount, PgBlanket, PgCommit, PgAbort
<1>4. CASE DynLoad(r) \/ DynReadAccount(r) \/ DynWrite(r) \/ DynCancelled(r)
  BY <1>4 DEF DynLoad, DynReadAccount, DynWrite, DynCancelled
<1>5. CASE DynReadTracker(r)
  BY <1>5 DEF DynReadTracker
<1>6. QED BY <1>1, <1>2, <1>3, <1>4, <1>5 DEF Completing

LEMMA SpentStep ==
    ASSUME TypeOK, TypeOK', SignInInv, SpentCodes, [Next]_vars
    PROVE  SpentCodes'
<1>0. RowsAge /\ Stages /\ Locked /\ Tracked /\ RequestTypes
  BY StepAges DEF SignInInv, TypeOK
<1>1. ASSUME NEW s \in sessions PROVE s.code \notin WorkingCodes'
  <2>1. s.code \in Issued /\ s.code \notin WorkingCodes
    BY <1>0 DEF Stages, SpentCodes
  <2>2. CASE Issued' = Issued
    <3>1. WorkingCodes' \subseteq WorkingCodes \cup {}
      BY <1>0, <2>2, WorkingMoves
    <3>2. QED BY <2>1, <3>1
  <2>3. ASSUME NEW c \in Challenge, start[c].pc # "done", Issued' = Issued \cup {c}
        PROVE  s.code \notin WorkingCodes'
    <3>1. WorkingCodes' \subseteq WorkingCodes \cup {c}
      BY <1>0, <2>3, WorkingMoves
    <3>2. s.code # c
      BY <2>1, <2>3 DEF Issued
    <3>3. QED BY <2>1, <3>1, <3>2
  <2>4. QED BY <1>0, <2>2, <2>3, IssuedMoves
<1>2. ASSUME NEW r \in Request, Completing(r) PROVE SpentCodes'
  <2>1. OtherRequests(r) /\ req[r].pc # "done"
    BY <1>0, <1>2, RequestMoved, DoneStays
  <2>2. \A s \in sessions : s.by \in Request /\ s.by # r
    BY <2>1 DEF SpentCodes, TypeOK
  <2>3. \A s \in sessions : req'[s.by].pc = "done"
    BY <2>1, <2>2 DEF SpentCodes, OtherRequests
  <2>4. CASE sessions' = sessions
    BY <1>1, <2>3, <2>4 DEF SpentCodes
  <2>5. CASE sessions' # sessions
    <3>1. PICK a \in Account : sessions' = sessions \cup {[by |-> r, code |-> req[r].code, account |-> a]}
      BY <1>2, <2>5, SessionsMoved
    <3>2. req[r].code \notin WorkingCodes'
      BY <1>0, <1>2, <2>5, MintsOnce
    <3>3. Succeed(r)
      <4>1. (Refuse(r) /\ UNCHANGED <<chal, accounts, sessions>>) \/ ~SqliteComplete(r) \/ Succeed(r)
        BY DEF SqliteComplete
      <4>2. QED BY <1>2, <2>5, <4>1, SessionsMoved DEF PgCommit, DynWrite
    <3>4. req'[r].pc = "done"
      BY <1>0, <3>3, SucceedEffect
    <3>5. QED BY <1>1, <2>3, <3>1, <3>2, <3>4 DEF SpentCodes
  <2>6. QED BY <2>4, <2>5
<1>3. ASSUME NEW c \in Challenge, Purge(c) \/ Starting(c) PROVE SpentCodes'
  <2>1. req' = req /\ sessions' = sessions
    BY <1>0, <1>3, StartMoved DEF Purge
  <2>2. QED BY <1>1, <2>1 DEF SpentCodes
<1>4. CASE Tick \/ UNCHANGED vars
  <2>1. req' = req /\ sessions' = sessions
    BY <1>4 DEF Tick, vars, store
  <2>2. QED BY <1>1, <2>1 DEF SpentCodes
<1>5. QED BY <1>2, <1>3, <1>4 DEF Next

(* A code that signed in works no more, on any store.                        *)
THEOREM SpentCodesHolds == Spec => []SpentCodes
<1>1. Init => SpentCodes
  BY DEF Init, SpentCodes
<1>2. TypeOK /\ TypeOK' /\ SignInInv /\ SpentCodes /\ [Next]_vars => SpentCodes'
  BY SpentStep
<1>3. QED BY <1>1, <1>2, TypeCorrect, SignInInvHolds, PTL DEF Spec

(* Every store implements one-time codes: a code is issued once, mints one   *)
(* session at most, and never works again once used, evicted, replaced or locked.  *)
THEOREM CodesAreOneTimeHolds == Spec => CodesAreOneTime
<1>1. Init => Codes!Init
  <2> SUFFICES ASSUME Init PROVE Codes!Init
    OBVIOUS
  <2>1. \A c \in Challenge : ~chal[c].stored
    BY DEF Init
  <2>2. sessions = {}
    BY DEF Init
  <2>3. QED BY <2>1, <2>2 DEF Codes!Init, WorkingCodes, SignIns
<1>2. TypeOK /\ TypeOK' /\ SignInInv /\ SpentCodes /\ [Next]_vars => [Codes!Next]_Codes!codeVars
  <2> SUFFICES ASSUME TypeOK, TypeOK', SignInInv, SpentCodes, [Next]_vars PROVE Codes!Next
    OBVIOUS
  <2>0. RowsAge /\ Stages /\ Locked /\ Tracked
    BY StepAges DEF SignInInv
  <2>1. ASSUME NEW r \in Request, Completing(r), sessions' # sessions PROVE Codes!Next
    <3>1. req[r].code \in WorkingCodes /\ req[r].code \notin WorkingCodes'
      BY <2>0, <2>1, MintsOnce
    <3>2. Issued' \subseteq Issued \cup {}
      BY <2>0, <2>1, RequestMoved DEF Issued
    <3>3. WorkingCodes' \subseteq WorkingCodes
      BY <2>0, <3>2, WorkingMoves
    <3>7. req[r].pc # "done"
      BY <2>1, DoneStays
    <3>8. \A s \in SignIns : s.by # r /\ s.code # req[r].code
      BY <3>1, <3>7 DEF SpentCodes, SignIns
    <3>4. Codes!SignIn(r, req[r].code)
      BY <2>0, <2>1, <3>1, <3>3, <3>8, MintsOnce DEF Codes!SignIn
    <3>5. req[r].code \in Challenge
      BY <3>1 DEF WorkingCodes
    <3>6. QED BY <3>4, <3>5 DEF Codes!Next
  <2>2. ASSUME sessions' = sessions PROVE Codes!Next
    <3>0. SignIns' = SignIns
      BY <2>2 DEF SignIns
    <3>1. CASE Issued' = Issued
      <4>1. WorkingCodes' \subseteq WorkingCodes
        BY <2>0, <3>1, WorkingMoves
      <4>2. QED BY <3>0, <4>1 DEF Codes!Next, Codes!Withdraw
    <3>2. ASSUME NEW c \in Challenge, start[c].pc # "done", Issued' = Issued \cup {c}
          PROVE  Codes!Next
      <4>1. WorkingCodes' \subseteq WorkingCodes \cup {c}
        BY <2>0, <3>2, WorkingMoves
      <4>2. c \notin WorkingCodes
        BY <2>0, <3>2 DEF Stages, WorkingCodes
      <4>3. \A s \in SignIns : s.code # c
        BY <2>0, <3>2 DEF Stages, SignIns, Issued
      <4>4. Codes!Issue(c)
        BY <3>0, <4>1, <4>2, <4>3 DEF Codes!Issue
      <4>5. QED BY <4>4 DEF Codes!Next
    <3>3. QED BY <2>0, <3>1, <3>2, IssuedMoves
  <2>3. ASSUME NEW c \in Challenge, Purge(c) \/ Starting(c) PROVE sessions' = sessions
    BY <2>0, <2>3, StartMoved DEF Purge
  <2>4. Tick \/ UNCHANGED vars => sessions' = sessions
    BY DEF Tick, vars, store
  <2>5. QED BY <2>1, <2>2, <2>3, <2>4 DEF Next
<1>3. QED BY <1>1, <1>2, TypeCorrect, SignInInvHolds, SpentCodesHolds, PTL
          DEF Spec, CodesAreOneTime, Codes!Spec
=============================================================================
