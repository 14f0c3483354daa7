------------------------ MODULE DynamoJobStoreProofs ------------------------
(***************************************************************************)
(* Proofs about the DynamoDB job store, for any jobs, concurrent calls,      *)
(* lease length, lag and bounds.                                             *)
(***************************************************************************)
EXTENDS DynamoJobStore, TLAPS

-----------------------------------------------------------------------------
(* Facts about the operators of the model.                                 *)

(* A lease lasts at least one second, whatever is configured.                *)
LEMMA LeaseSpanType == LeaseSpan \in Nat \ {0}
BY DynamoAssumptions DEF LeaseSpan

(* What the calls are made of.                                              *)
LEMMA CallType ==
    ASSUME TypeOK, NEW c \in Call
    PROVE  /\ call[c].now \in Nat
           /\ call[c].todo \subseteq Job
           /\ call[c].job \in Job \cup {NoJob}
           /\ call[c].pc \in {"queued", "expired"} => call[c].job \in Job
BY DEF TypeOK, CallState

(* The conditional write of a claim is only made for a job, and only when it *)
(* is queued or its lease has run out by the time the claim has read.         *)
LEMMA GrantTarget ==
    ASSUME TypeOK, NEW c \in Call, Grantable(c)
    PROVE  /\ call[c].job \in Job
           /\ \/ status[call[c].job] = "queued"
              \/ ExpiredLease(call[c].job, call[c].now)
BY CallType DEF Grantable

-----------------------------------------------------------------------------
(* Type correctness of the DynamoDB store: every reachable state has the      *)
(* types of its attributes, calls and leases.                                *)
THEOREM TypeCorrect == Spec => []TypeOK
<1>1. Init => TypeOK
  BY DynamoAssumptions
  DEF Init, TypeOK, Status, Idle, CallState, NoToken, NoLicense
<1>2. TypeOK /\ [Next]_vars => TypeOK'
  <2> SUFFICES ASSUME TypeOK, [Next]_vars PROVE TypeOK'
    OBVIOUS
  <2> USE DynamoAssumptions, LeaseSpanType
  <2>1. ASSUME NEW j \in Job, Enqueue(j) PROVE TypeOK'
    BY <2>1 DEF Enqueue, TypeOK, Status
  <2>2. ASSUME NEW j \in Job, CatchUp(j) PROVE TypeOK'
    BY <2>2 DEF CatchUp, TypeOK
  <2>3. ASSUME NEW j \in Job, MarkNotificationDelivered(j) PROVE TypeOK'
    BY <2>3 DEF MarkNotificationDelivered, TypeOK
  <2>4. ASSUME NEW c \in Call, NEW want \in Job \cup {NoJob}, NEW now \in Now,
               BeginClaim(c, want, now)
        PROVE TypeOK'
    <3>1. now \in Nat
      BY DEF Now, TypeOK
    <3>2. [Idle EXCEPT !.pc = "begun", !.now = now, !.job = want] \in CallState
      BY <3>1 DEF Idle, CallState
    <3>3. call' \in [Call -> CallState]
      BY <2>4, <3>2 DEF BeginClaim, TypeOK
    <3>4. QED BY <2>4, <3>3 DEF BeginClaim, TypeOK
  <2>5. ASSUME NEW c \in Call, ReadNamed(c) PROVE TypeOK'
    <3>1. call[c].job \in Job /\ call[c] \in CallState
      BY <2>5, CallType DEF ReadNamed, TypeOK
    <3>2. [call[c] EXCEPT !.pc = "queued"] \in CallState
      BY <3>1 DEF CallState
    <3>3. [call[c] EXCEPT !.pc = "expired"] \in CallState
      BY <3>1 DEF CallState
    <3>4. \/ call' = [call EXCEPT ![c] = [call[c] EXCEPT !.pc = "queued"]]
          \/ call' = [call EXCEPT ![c] = [call[c] EXCEPT !.pc = "expired"]]
      BY <2>5 DEF ReadNamed
    <3>5. call' \in [Call -> CallState]
      BY <3>2, <3>3, <3>4 DEF TypeOK
    <3>6. QED BY <2>5, <3>5 DEF ReadNamed, TypeOK
  <2>6. ASSUME NEW c \in Call, ListSolving(c) PROVE TypeOK'
    <3> DEFINE listing == [call[c] EXCEPT
                             !.pc = "reclaim",
                             !.todo = {j \in Job : view[j] = "solving"}]
    <3>1. listing \in CallState
      BY DEF TypeOK, CallState
    <3>2. call' = [call EXCEPT ![c] = listing]
      BY <2>6 DEF ListSolving, TypeOK
    <3>3. call' \in [Call -> CallState]
      BY <3>1, <3>2 DEF TypeOK
    <3>4. QED BY <2>6, <3>3 DEF ListSolving, TypeOK
  <2>7. ASSUME NEW c \in Call, NEW j \in Job, ReclaimOne(c, j) PROVE TypeOK'
    <3>1. call' \in [Call -> CallState]
      BY <2>7 DEF ReclaimOne, TypeOK, CallState
    <3>2. /\ status' \in [Job -> Status]
          /\ lease' \in [Job -> Nat] /\ expires' \in [Job -> Nat]
      BY <2>7 DEF ReclaimOne, TypeOK, Status, NoToken
    <3>3. QED BY <2>7, <3>1, <3>2 DEF ReclaimOne, TypeOK
  <2>8. ASSUME NEW c \in Call, NEW j \in Job, Pick(c, j) PROVE TypeOK'
    <3> DEFINE picked == [call[c] EXCEPT !.pc = "queued", !.job = j]
    <3>1. picked \in CallState
      BY DEF TypeOK, CallState
    <3>2. call' = [call EXCEPT ![c] = picked]
      BY <2>8 DEF Pick, TypeOK
    <3>3. call' \in [Call -> CallState]
      BY <3>1, <3>2 DEF TypeOK
    <3>4. QED BY <2>8, <3>3 DEF Pick, TypeOK
  <2>9. ASSUME NEW c \in Call, Grant(c) PROVE TypeOK'
    <3>1. call[c].job \in Job /\ call[c].now + LeaseSpan \in Nat
      BY <2>9, GrantTarget, CallType DEF Grant
    <3>2. call' \in [Call -> CallState]
      BY <2>9 DEF Grant, TypeOK, CallState, Idle
    <3>3. /\ status' \in [Job -> Status]
          /\ lease' \in [Job -> Nat] /\ expires' \in [Job -> Nat]
          /\ tokens' \in Nat
      BY <2>9, <3>1 DEF Grant, TypeOK, Status
    <3>4. leases' \subseteq Lease
      BY <2>9, <3>1 DEF Grant, TypeOK, Lease
    <3>5. QED BY <2>9, <3>2, <3>3, <3>4 DEF Grant, TypeOK
  <2>10. ASSUME NEW c \in Call, GiveUp(c) PROVE TypeOK'
    <3>1. call' \in [Call -> CallState]
      BY <2>10 DEF GiveUp, TypeOK, CallState, Idle
    <3>2. QED BY <2>10, <3>1 DEF GiveUp, TypeOK
  <2>11. ASSUME NEW l \in leases, NEW now \in Now, Heartbeat(l, now)
         PROVE TypeOK'
    BY <2>11 DEF Heartbeat, TypeOK, Lease, Now
  <2>12. ASSUME NEW l \in leases, NEW end \in Terminal, NEW now \in Now,
                Complete(l, end, now)
         PROVE TypeOK'
    BY <2>12 DEF Complete, TypeOK, Lease, Status, NoToken
  <2>13. ASSUME NEW j \in Job, NEW license \in License,
                DonateValidation(j, license)
         PROVE TypeOK'
    BY <2>13 DEF DonateValidation, TypeOK
  <2>14. CASE Tick
    BY <2>14 DEF Tick, TypeOK
  <2>15. CASE UNCHANGED vars
    BY <2>15 DEF vars, TypeOK
  <2>16. QED
    BY <2>1, <2>2, <2>3, <2>4, <2>5, <2>6, <2>7, <2>8, <2>9, <2>10, <2>11,
       <2>12, <2>13, <2>14, <2>15 DEF Next
<1>3. QED BY <1>1, <1>2, PTL DEF Spec

-----------------------------------------------------------------------------
(* The steps of the store that leave the items and the leases alone.         *)
Unseen ==
    \/ \E j \in Job : CatchUp(j)
    \/ \E c \in Call, want \in Job \cup {NoJob}, now \in Now :
         BeginClaim(c, want, now)
    \/ \E c \in Call : ReadNamed(c) \/ ListSolving(c) \/ GiveUp(c)
    \/ \E c \in Call, j \in Job : Pick(c, j)
    \/ Tick
    \/ UNCHANGED vars

(* Reading, giving up and the passing of time change no item and no lease.   *)
LEMMA UnseenStep ==
    Unseen => UNCHANGED <<status, lease, expires, result, donation, outbox,
                          leases, tokens>>
BY DEF Unseen, CatchUp, BeginClaim, ReadNamed, ListSolving, GiveUp, Pick, Tick, vars

(* Every step is unseen or one of the writes.                               *)
LEMMA StepCases ==
    ASSUME [Next]_vars
    PROVE  \/ Unseen
           \/ \E j \in Job : Enqueue(j) \/ MarkNotificationDelivered(j)
           \/ \E c \in Call, j \in Job : ReclaimOne(c, j)
           \/ \E c \in Call : Grant(c)
           \/ \E l \in leases, now \in Now : Heartbeat(l, now)
           \/ \E l \in leases, end \in Terminal, now \in Now : Complete(l, end, now)
           \/ \E j \in Job, license \in License : DonateValidation(j, license)
BY DEF Next, Unseen

-----------------------------------------------------------------------------
(* The lease discipline is preserved by every step: each write that touches  *)
(* what it relates is conditional on the item it replaces.                   *)
LEMMA LeaseDisciplineStep ==
    TypeOK /\ LeaseDiscipline /\ [Next]_vars => LeaseDiscipline'
<1> SUFFICES ASSUME TypeOK, LeaseDiscipline, [Next]_vars
             PROVE  LeaseDiscipline'
  OBVIOUS
<1> USE DEF StaleWorkerNeverWins, NoToken, NoLicense, Terminal
<1>a. \A l \in leases : l.job \in Job /\ l.token \in Nat
  BY DEF TypeOK, Lease
<1>1. CASE Unseen
  BY <1>1, UnseenStep DEF LeaseDiscipline
<1>2. ASSUME NEW j \in Job, Enqueue(j) PROVE LeaseDiscipline'
  BY <1>2, <1>a DEF Enqueue, TypeOK, LeaseDiscipline
<1>3. ASSUME NEW j \in Job, MarkNotificationDelivered(j) PROVE LeaseDiscipline'
  BY <1>3 DEF MarkNotificationDelivered, LeaseDiscipline
<1>4. ASSUME NEW c \in Call, NEW j \in Job, ReclaimOne(c, j)
      PROVE LeaseDiscipline'
  <2>1. CASE ExpiredLease(j, call[c].now)
    <3>1. /\ status[j] = "solving"
          /\ status' = [status EXCEPT ![j] = "queued"]
          /\ lease' = [lease EXCEPT ![j] = 0]
          /\ outbox' \subseteq outbox \cup {j}
          /\ UNCHANGED <<result, donation, leases, tokens>>
      BY <1>4, <2>1 DEF ReclaimOne, ExpiredLease
    <3>2. QED BY <1>a, <3>1 DEF LeaseDiscipline, TypeOK
  <2>2. CASE ~ExpiredLease(j, call[c].now)
    <3>1. UNCHANGED <<status, lease, outbox, result, donation, leases, tokens>>
      BY <1>4, <2>2 DEF ReclaimOne, TypeOK
    <3>2. QED BY <3>1 DEF LeaseDiscipline
  <2>3. QED BY <2>1, <2>2
<1>5. ASSUME NEW c \in Call, Grant(c) PROVE LeaseDiscipline'
  <2> DEFINE j == call[c].job
  <2>1. j \in Job /\ (status[j] = "queued" \/ status[j] = "solving")
    BY <1>5, GrantTarget DEF Grant, ExpiredLease
  <2>2. \A k \in Job :
          /\ status'[k] = IF k = j THEN "solving" ELSE status[k]
          /\ lease'[k] = IF k = j THEN tokens + 1 ELSE lease[k]
    BY <1>5 DEF Grant, TypeOK
  <2>3. /\ UNCHANGED <<result, donation, outbox>>
        /\ tokens' = tokens + 1 /\ tokens \in Nat
    BY <1>5 DEF Grant, TypeOK
  <2>4. \A l \in leases' :
          \/ l \in leases
          \/ l.job = j /\ l.token = tokens + 1
    BY <1>5 DEF Grant
  <2> HIDE DEF j
  <2>5. result[j] = 0 /\ donation[j] = 0
    BY <2>1 DEF LeaseDiscipline
  <2>6. \A k \in Job : /\ (status[k] = "solving" <=> lease[k] # 0)'
                       /\ (result[k] # 0 => status[k] \in Terminal)'
                       /\ (donation[k] # 0 => status[k] \in Terminal)'
    BY <2>2, <2>3, <2>5 DEF LeaseDiscipline
  <2>7. ASSUME NEW l \in leases'
        PROVE  /\ l.token \in 1..tokens'
               /\ status'[l.job] = "solving" => l.token <= lease'[l.job]
               /\ result'[l.job] # 0 => l.token <= result'[l.job]
    <3>1. CASE l \in leases
      <4>1. l.token \in 1..tokens
        BY <3>1 DEF LeaseDiscipline
      <4>2. l.token \in 1..tokens' /\ l.token <= tokens + 1
        BY <2>3, <4>1
      <4>3. status'[l.job] = "solving" => l.token <= lease'[l.job]
        BY <1>a, <2>2, <3>1, <4>2 DEF LeaseDiscipline
      <4>4. QED BY <2>3, <3>1, <4>2, <4>3 DEF LeaseDiscipline
    <3>2. CASE l.job = j /\ l.token = tokens + 1
      BY <2>1, <2>2, <2>3, <2>5, <3>2
    <3>3. QED BY <2>4, <3>1, <3>2
  <2>8. outbox' \subseteq {k \in Job : status'[k] # "absent"}
    BY <2>2, <2>3 DEF LeaseDiscipline
  <2>9. QED BY <2>6, <2>7, <2>8 DEF LeaseDiscipline
<1>6. ASSUME NEW l \in leases, NEW now \in Now, Heartbeat(l, now)
      PROVE LeaseDiscipline'
  <2>1. \A m \in leases' : \E k \in leases : m.job = k.job /\ m.token = k.token
    BY <1>6 DEF Heartbeat, TypeOK, Lease
  <2>2. UNCHANGED <<status, lease, result, donation, tokens, outbox>>
    BY <1>6 DEF Heartbeat
  <2>3. \A m \in leases' :
          /\ m.token \in 1..tokens
          /\ status[m.job] = "solving" => m.token <= lease[m.job]
          /\ result[m.job] # 0 => m.token <= result[m.job]
    BY <2>1 DEF LeaseDiscipline
  <2>4. QED BY <2>2, <2>3 DEF LeaseDiscipline
<1>7. ASSUME NEW l \in leases, NEW end \in Terminal, NEW now \in Now,
             Complete(l, end, now)
      PROVE LeaseDiscipline'
  <2>1. lease[l.job] = l.token /\ status[l.job] = "solving"
    BY <1>7 DEF Complete, LeaseActive
  <2>2. \A k \in Job :
          /\ status'[k] = IF k = l.job THEN end ELSE status[k]
          /\ lease'[k] = IF k = l.job THEN 0 ELSE lease[k]
          /\ result'[k] = IF k = l.job THEN l.token ELSE result[k]
    BY <1>7 DEF Complete, TypeOK
  <2>3. UNCHANGED <<donation, leases, tokens, outbox>>
    BY <1>7 DEF Complete
  <2>4. \A m \in leases :
          /\ m.token \in 1..tokens
          /\ status'[m.job] = "solving" => m.token <= lease'[m.job]
          /\ result'[m.job] # 0 => m.token <= result'[m.job]
    BY <1>a, <2>1, <2>2 DEF LeaseDiscipline
  <2>5. \A k \in Job : /\ (status[k] = "solving" <=> lease[k] # 0)'
                       /\ (result[k] # 0 => status[k] \in Terminal)'
                       /\ (donation[k] # 0 => status[k] \in Terminal)'
    BY <1>a, <2>1, <2>2, <2>3 DEF LeaseDiscipline
  <2>6. outbox \subseteq {k \in Job : status'[k] # "absent"}
    BY <2>2 DEF LeaseDiscipline
  <2>7. QED BY <2>3, <2>4, <2>5, <2>6 DEF LeaseDiscipline
<1>8. ASSUME NEW j \in Job, NEW license \in License,
             DonateValidation(j, license)
      PROVE LeaseDiscipline'
  BY <1>8 DEF DonateValidation, TypeOK, LeaseDiscipline
<1>9. QED
  BY <1>1, <1>2, <1>3, <1>4, <1>5, <1>6, <1>7, <1>8, StepCases

(* The lease discipline holds in every reachable state.                      *)
THEOREM LeaseDisciplineHolds == Spec => [](TypeOK /\ LeaseDiscipline)
<1>1. Init => LeaseDiscipline
  BY DEF Init, LeaseDiscipline, StaleWorkerNeverWins, NoToken, NoLicense
<1>2. QED
  BY <1>1, TypeCorrect, LeaseDisciplineStep, PTL DEF Spec

(* A stale worker never wins: although claims act on stale reads, the stored *)
(* result of a job is that of the newest lease handed out for it.            *)
THEOREM StaleWorkerNeverWinsHolds == Spec => []StaleWorkerNeverWins
BY LeaseDisciplineHolds, PTL DEF LeaseDiscipline

(* A worker never solves a donated copy: no job under a lease has a donation. *)
THEOREM SolvesOnlyOriginalsHolds == Spec => []SolvesOnlyOriginals
<1>1. LeaseDiscipline => SolvesOnlyOriginals
  BY DEF LeaseDiscipline, SolvesOnlyOriginals, Terminal
<1>2. QED BY <1>1, LeaseDisciplineHolds, PTL

-----------------------------------------------------------------------------
(* Exclusion.                                                              *)

(* Time does not go backwards.                                              *)
LEMMA ClockStep ==
    ASSUME TypeOK, [Next]_vars
    PROVE  clock \in Nat /\ clock <= clock' /\ clock' \in Nat
<1>1. clock \in Nat
  BY DEF TypeOK
<1>2. CASE Tick
  BY <1>1, <1>2 DEF Tick
<1>3. CASE ~Tick
  <2>1. clock' = clock
    BY <1>3, Zenon
    DEF Next, vars, Enqueue, CatchUp, MarkNotificationDelivered, BeginClaim,
        ReadNamed, ListSolving, ReclaimOne, Pick, Grant, GiveUp, Heartbeat,
        Complete, DonateValidation
  <2>2. QED BY <1>1, <2>1
<1>4. QED BY <1>2, <1>3

(* A claim never counts on a time that has not come.                         *)
LEMMA CallsReadThePast ==
    ASSUME TypeOK, [Next]_vars, \A c \in Call : call[c].now <= clock
    PROVE  \A c \in Call : call'[c].now <= clock'
<1>1. clock \in Nat /\ clock <= clock' /\ clock' \in Nat
  BY ClockStep
<1>2. \A c \in Call : \/ call'[c].now = call[c].now
                      \/ call'[c].now = 0
                      \/ call'[c].now \in Now
  <2>1. CASE \E c \in Call, want \in Job \cup {NoJob}, now \in Now :
               BeginClaim(c, want, now)
    BY <2>1 DEF BeginClaim, TypeOK, CallState, Idle
  <2>2. CASE \E c \in Call : ReadNamed(c)
    BY <2>2 DEF ReadNamed, TypeOK, CallState
  <2>3. CASE \E c \in Call : ListSolving(c)
    BY <2>3 DEF ListSolving, TypeOK, CallState
  <2>4. CASE \E c \in Call, j \in Job : ReclaimOne(c, j)
    BY <2>4 DEF ReclaimOne, TypeOK, CallState
  <2>5. CASE \E c \in Call, j \in Job : Pick(c, j)
    BY <2>5 DEF Pick, TypeOK, CallState
  <2>6. CASE \E c \in Call : Grant(c)
    BY <2>6 DEF Grant, TypeOK, Idle
  <2>7. CASE \E c \in Call : GiveUp(c)
    BY <2>7 DEF GiveUp, TypeOK, Idle
  <2>8. CASE UNCHANGED call
    BY <2>8
  <2>9. QED
    BY <2>1, <2>2, <2>3, <2>4, <2>5, <2>6, <2>7, <2>8
    DEF Next, vars, Enqueue, CatchUp, MarkNotificationDelivered, Heartbeat,
        Complete, DonateValidation, Tick
<1>3. \A t \in Now : t \in Nat /\ t <= clock
  BY <1>1 DEF Now
<1>4. \A c \in Call : call[c].now \in Nat
  BY CallType
<1>5. QED BY <1>1, <1>2, <1>3, <1>4

(* ExclusionDiscipline is preserved: an item is only taken from its holder    *)
(* once the expiry in the item has passed, and the holder was told that very  *)
(* expiry.                                                                   *)
LEMMA ExclusionStep ==
    TypeOK /\ LeaseDiscipline /\ ExclusionDiscipline /\ [Next]_vars
      => ExclusionDiscipline'
<1> DEFINE Current(l) ==
      \/ status[l.job] \in Terminal /\ result[l.job] = l.token
      \/ /\ status[l.job] = "solving"
         /\ lease[l.job] = l.token
         /\ expires[l.job] = l.until
<1> SUFFICES ASSUME TypeOK, LeaseDiscipline, ExclusionDiscipline, [Next]_vars
             PROVE  /\ \A l, m \in leases' : l.token = m.token => l = m
                    /\ \A l \in leases' : l.until > clock' => Current(l)'
  BY CallsReadThePast DEF ExclusionDiscipline
<1> DEFINE Goal == /\ \A l, m \in leases' : l.token = m.token => l = m
                   /\ \A l \in leases' : l.until > clock' => Current(l)'
<1> USE DEF Terminal
<1>a. /\ clock \in Nat
      /\ \A l \in leases : l.job \in Job /\ l.token \in Nat /\ l.until \in Nat
  BY DEF TypeOK, Lease
<1>b. /\ \A l, m \in leases : l.token = m.token => l = m
      /\ \A l \in leases : l.until > clock => Current(l)
  BY DEF ExclusionDiscipline
<1>1. CASE Unseen
  BY <1>1, <1>a, <1>b, ClockStep, UnseenStep
<1>2. ASSUME NEW j \in Job, Enqueue(j) PROVE Goal
  BY <1>2, <1>a, <1>b DEF Enqueue, TypeOK
<1>3. ASSUME NEW j \in Job, MarkNotificationDelivered(j) PROVE Goal
  BY <1>3, <1>b DEF MarkNotificationDelivered
<1>4. ASSUME NEW c \in Call, NEW j \in Job, ReclaimOne(c, j) PROVE Goal
  <2>1. \A k \in Job :
          \/ ExpiredLease(j, call[c].now) /\ k = j
          \/ /\ status'[k] = status[k] /\ lease'[k] = lease[k]
             /\ expires'[k] = expires[k]
    BY <1>4 DEF ReclaimOne, TypeOK
  <2>2. UNCHANGED <<clock, result, leases>>
    BY <1>4 DEF ReclaimOne
  <2>3. ExpiredLease(j, call[c].now) =>
          status[j] = "solving" /\ expires[j] <= clock
    BY <1>a, CallType DEF ExpiredLease, ExclusionDiscipline, TypeOK
  <2>4. QED BY <1>a, <1>b, <2>1, <2>2, <2>3
<1>5. ASSUME NEW c \in Call, Grant(c) PROVE Goal
  <2> DEFINE j == call[c].job
             new == [job |-> j, token |-> tokens + 1,
                     until |-> call[c].now + LeaseSpan]
  <2>1. j \in Job /\ (status[j] = "queued" \/ ExpiredLease(j, call[c].now))
    BY <1>5, GrantTarget DEF Grant
  <2>2. \/ status[j] = "queued"
        \/ status[j] = "solving" /\ expires[j] <= clock
    BY <1>a, <2>1, CallType DEF ExpiredLease, ExclusionDiscipline, TypeOK
  <2>3. leases' = leases \cup {new}
    BY <1>5 DEF Grant
  <2>4. /\ UNCHANGED <<clock, result>>
        /\ \A k \in Job : k # j => /\ status'[k] = status[k]
                                   /\ lease'[k] = lease[k]
                                   /\ expires'[k] = expires[k]
    BY <1>5, <2>1 DEF Grant, TypeOK
  <2>5. \A l \in {new} : Current(l)'
    BY <1>5, <2>1 DEF Grant, TypeOK
  <2>6. new.job = j /\ new.token = tokens + 1 /\ tokens \in Nat
    BY DEF TypeOK
  <2>7. \A l \in leases : l.token # new.token
    BY <1>a, <2>6 DEF LeaseDiscipline
  <2> HIDE DEF new, j
  <2>8. \A l \in leases : l.until > clock => l.job # j
    BY <1>a, <1>b, <2>1, <2>2 DEF TypeOK
  <2>9. \A l \in leases : l.until > clock' => Current(l)'
    BY <1>a, <1>b, <2>4, <2>8
  <2>10. QED BY <1>b, <2>3, <2>5, <2>7, <2>9
<1>6. ASSUME NEW l \in leases, NEW now \in Now, Heartbeat(l, now) PROVE Goal
  <2> DEFINE renewed == [l EXCEPT !.until = now + LeaseSpan]
  <2>1. /\ renewed.job = l.job /\ renewed.token = l.token
        /\ renewed.until = now + LeaseSpan
    BY DEF TypeOK, Lease
  <2>2. /\ leases' = (leases \ {l}) \cup {renewed}
        /\ UNCHANGED <<clock, status, lease, result>>
    BY <1>6 DEF Heartbeat
  <2>3. /\ status[l.job] = "solving" /\ lease[l.job] = l.token
        /\ expires' = [expires EXCEPT ![l.job] = now + LeaseSpan]
    BY <1>6 DEF Heartbeat, LeaseActive
  <2> HIDE DEF renewed
  <2>4. \A x, y \in leases' : x.token = y.token => x = y
    BY <1>b, <2>1, <2>2
  <2>5. ASSUME NEW x \in leases', x.until > clock' PROVE Current(x)'
    <3>1. CASE x \in leases /\ x # l
      <4>1. x.job # l.job
        BY <1>b, <2>2, <2>3, <2>5, <3>1
      <4>2. expires'[x.job] = expires[x.job]
        BY <1>a, <2>3, <3>1, <4>1 DEF TypeOK
      <4>3. QED BY <1>b, <2>2, <2>5, <3>1, <4>2
    <3>2. CASE x = renewed
      BY <1>a, <2>1, <2>2, <2>3, <3>2 DEF TypeOK
    <3>3. QED BY <2>2, <3>1, <3>2
  <2>6. QED BY <2>4, <2>5
<1>7. ASSUME NEW l \in leases, NEW end \in Terminal, NEW now \in Now,
             Complete(l, end, now)
      PROVE Goal
  <2>1. status[l.job] = "solving" /\ lease[l.job] = l.token
    BY <1>7 DEF Complete, LeaseActive
  <2>2. /\ UNCHANGED <<leases, clock>>
        /\ \A k \in Job : k # l.job =>
             /\ status'[k] = status[k] /\ lease'[k] = lease[k]
             /\ expires'[k] = expires[k] /\ result'[k] = result[k]
    BY <1>7 DEF Complete, TypeOK
  <2>3. status'[l.job] \in Terminal /\ result'[l.job] = l.token
    BY <1>a, <1>7 DEF Complete, TypeOK
  <2>4. \A m \in leases : m.until > clock /\ m.job = l.job => m.token = l.token
    BY <1>b, <2>1
  <2>5. QED BY <1>a, <1>b, <2>2, <2>3, <2>4
<1>8. ASSUME NEW j \in Job, NEW license \in License,
             DonateValidation(j, license)
      PROVE Goal
  BY <1>8, <1>b DEF DonateValidation
<1>9. QED
  BY <1>1, <1>2, <1>3, <1>4, <1>5, <1>6, <1>7, <1>8, StepCases

(* Leases are exclusive on DynamoDB, however stale the reads behind a claim:  *)
(* no two workers hold leases of the same job that have not run out.         *)
THEOREM LeaseExclusiveHolds == Spec => []LeaseExclusive
<1>1. Init => ExclusionDiscipline
  BY DEF Init, ExclusionDiscipline, Idle
<1>2. TypeOK /\ ExclusionDiscipline => LeaseExclusive
  <2> SUFFICES ASSUME TypeOK, ExclusionDiscipline, NEW l \in leases,
                      NEW m \in leases, l.job = m.job,
                      l.until > clock, m.until > clock
               PROVE  l = m
    BY DEF LeaseExclusive
  <2>1. l.token = m.token
    BY DEF ExclusionDiscipline, Terminal
  <2>2. QED BY <2>1 DEF ExclusionDiscipline
<1>3. QED
  BY <1>1, <1>2, ExclusionStep, LeaseDisciplineHolds, PTL DEF Spec

-----------------------------------------------------------------------------
(* The DynamoDB store implements the contract of the JobRepository trait: a   *)
(* conditional write that finds its condition true is a submission, a         *)
(* requeue, a grant or a result, and everything else is invisible.            *)
THEOREM ImplementsLifecycle == Spec => LifecycleSpec
<1> USE DEF NoToken, Lifecycle!NoToken, Terminal, Lifecycle!Terminal
<1>1. Init => Lifecycle!Init
  BY DEF Init, Lifecycle!Init
<1>2. TypeOK /\ LeaseDiscipline /\ [Next]_vars
        => [Lifecycle!Next]_Lifecycle!lifecycleVars
  <2> SUFFICES ASSUME TypeOK, LeaseDiscipline, [Next]_vars
               PROVE  \/ Lifecycle!Next
                      \/ UNCHANGED Lifecycle!lifecycleVars
    OBVIOUS
  <2>1. CASE Unseen
    BY <2>1, UnseenStep DEF Lifecycle!lifecycleVars
  <2>2. ASSUME NEW j \in Job, Enqueue(j) PROVE Lifecycle!Next
    <3>1. Lifecycle!Submit(j)
      BY <2>2 DEF Enqueue, Lifecycle!Submit
    <3>2. QED BY <3>1 DEF Lifecycle!Next
  <2>3. ASSUME NEW j \in Job, MarkNotificationDelivered(j) PROVE Lifecycle!Next
    <3>1. Lifecycle!Acknowledge(j)
      BY <2>3 DEF MarkNotificationDelivered, Lifecycle!Acknowledge
    <3>2. QED BY <3>1 DEF Lifecycle!Next
  <2>4. ASSUME NEW c \in Call, NEW j \in Job, ReclaimOne(c, j)
        PROVE  Lifecycle!Next \/ UNCHANGED Lifecycle!lifecycleVars
    <3>1. CASE ExpiredLease(j, call[c].now)
      <4>1. /\ status[j] = "solving"
            /\ status' = [k \in Job |-> IF k \in {j} THEN "queued" ELSE status[k]]
            /\ lease' = [k \in Job |-> IF k \in {j} THEN 0 ELSE lease[k]]
            /\ outbox' = outbox \cup {j}
            /\ UNCHANGED <<result, tokens>>
        BY <2>4, <3>1 DEF ReclaimOne, ExpiredLease, TypeOK
      <4>2. Lifecycle!Requeue({j}, {j})
        BY <4>1 DEF Lifecycle!Requeue
      <4>3. {j} \in SUBSET Job
        OBVIOUS
      <4>4. QED BY <4>2, <4>3 DEF Lifecycle!Next
    <3>2. CASE ~ExpiredLease(j, call[c].now)
      BY <2>4, <3>2 DEF ReclaimOne, TypeOK, Lifecycle!lifecycleVars
    <3>3. QED BY <3>1, <3>2
  <2>5. ASSUME NEW c \in Call, Grant(c) PROVE Lifecycle!Next
    <3> DEFINE j == call[c].job
               lost == {k \in {j} : status[k] = "solving"}
    <3>1. j \in Job /\ (status[j] = "queued" \/ status[j] = "solving")
      BY <2>5, GrantTarget DEF Grant, ExpiredLease
    <3>2. /\ status' = [k \in Job |-> IF k = j THEN "solving"
                                      ELSE IF k \in lost THEN "queued"
                                      ELSE status[k]]
          /\ lease' = [k \in Job |-> IF k = j THEN tokens + 1
                                     ELSE IF k \in lost THEN 0 ELSE lease[k]]
          /\ tokens' = tokens + 1
          /\ UNCHANGED <<outbox, result>>
      BY <2>5 DEF Grant, TypeOK
    <3> HIDE DEF j
    <3>3. Lifecycle!Grant(lost, {}, j)
      BY <3>1, <3>2 DEF Lifecycle!Grant
    <3>4. lost \in SUBSET Job /\ {} \in SUBSET Job
      BY <3>1
    <3>5. QED BY <3>1, <3>3, <3>4 DEF Lifecycle!Next
  <2>6. ASSUME NEW l \in leases, NEW now \in Now, Heartbeat(l, now)
        PROVE  UNCHANGED Lifecycle!lifecycleVars
    BY <2>6 DEF Heartbeat, Lifecycle!lifecycleVars
  <2>7. ASSUME NEW l \in leases, NEW end \in Terminal, NEW now \in Now,
               Complete(l, end, now)
        PROVE  Lifecycle!Next
    <3>1. l.job \in Job
      BY DEF TypeOK, Lease
    <3>2. Lifecycle!Finish(l.job, end)
      BY <2>7 DEF Complete, LeaseActive, Lifecycle!Finish
    <3>3. QED BY <3>1, <3>2 DEF Lifecycle!Next
  <2>8. ASSUME NEW j \in Job, NEW license \in License,
               DonateValidation(j, license)
        PROVE  UNCHANGED Lifecycle!lifecycleVars
    BY <2>8 DEF DonateValidation, Lifecycle!lifecycleVars
  <2>9. QED
    BY <2>1, <2>2, <2>3, <2>4, <2>5, <2>6, <2>7, <2>8, StepCases
<1>3. QED
  BY <1>1, <1>2, LeaseDisciplineHolds, PTL
  DEF Spec, LifecycleSpec, Lifecycle!Spec
=============================================================================
