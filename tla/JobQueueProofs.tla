--------------------------- MODULE JobQueueProofs ---------------------------
(***************************************************************************)
(* Proofs about the SQLx job store, for any jobs, owners, connections, lease *)
(* length, lag and bounds.  Each invariance proof has one step per action.   *)
(***************************************************************************)
EXTENDS JobQueue, FiniteSetTheorems, TLAPS

-----------------------------------------------------------------------------
(* Facts about the operators of the model.                                 *)

(* A claim only ever picks a job that is queued once the reclaim of the same *)
(* transaction is applied: it was queued already or is being reclaimed.      *)
LEMMA CandidateIsQueued ==
    ASSUME NEW c \in Conn, NEW j \in Candidates(c)
    PROVE  j \in Job /\ (status[j] = "queued" \/ j \in Reclaimed(c))
BY DEF Candidates, Winners, StatusAfterReclaim, Reclaimed

(* A reclaim only touches jobs that are being solved.                        *)
LEMMA ReclaimedIsSolving ==
    ASSUME NEW c \in Conn, TypeOK
    PROVE  /\ Reclaimed(c) \subseteq Job
           /\ Reclaimed(c) \subseteq txn[c].expired
           /\ \A j \in Reclaimed(c) : status[j] = "solving"
BY DEF Reclaimed, TypeOK, Txn

(* A lease lasts at least one second, whatever is configured.                *)
LEMMA LeaseSpanType == LeaseSpan \in Nat \ {0}
BY JobQueueAssumptions DEF LeaseSpan

-----------------------------------------------------------------------------
(* Type correctness of the job store: every reachable state has the types    *)
(* of its columns, transactions and leases.                                  *)
THEOREM TypeCorrect == Spec => []TypeOK
<1>1. Init => TypeOK
  BY JobQueueAssumptions
  DEF Init, TypeOK, Status, Closed, Txn, NoToken, NoLicense, NeverServed
<1>2. TypeOK /\ [Next]_vars => TypeOK'
  <2> SUFFICES ASSUME TypeOK, [Next]_vars PROVE TypeOK'
    OBVIOUS
  <2> USE JobQueueAssumptions, LeaseSpanType
  <2>1. ASSUME NEW j \in Job, NEW now \in Now, Enqueue(j, now) PROVE TypeOK'
    BY <2>1 DEF Enqueue, TypeOK, Status, Now
  <2>2. ASSUME NEW c \in Conn, NEW want \in Requested, NEW now \in Now,
               BeginClaim(c, want, now)
        PROVE TypeOK'
    <3>1. txn' \in [Conn -> Txn]
      BY <2>2 DEF BeginClaim, TypeOK, Txn, Expired, Now
    <3>2. QED BY <2>2, <3>1 DEF BeginClaim, TypeOK
  <2>3. ASSUME NEW c \in Conn, NEW j \in Job, GrantClaim(c, j) PROVE TypeOK'
    <3>1. txn[c].now \in Nat
      BY DEF TypeOK, Txn
    <3>2. txn' \in [Conn -> Txn]
      BY <2>3 DEF GrantClaim, TypeOK, Txn, Closed
    <3>3. status' \in [Job -> Status]
      BY <2>3 DEF GrantClaim, TypeOK, StatusAfterReclaim, Status
    <3>4. /\ lease' \in [Job -> Nat]
          /\ expires' \in [Job -> Nat]
          /\ tokens' \in Nat
      BY <2>3, <3>1 DEF GrantClaim, TypeOK, NoToken
    <3>5. outbox' \subseteq Job
      BY <2>3 DEF GrantClaim, TypeOK, OutboxAfterReclaim, Txn
    <3>6. lastServed' \in [Owner -> Nat]
      BY <2>3, <3>1 DEF GrantClaim, TypeOK
    <3>7. leases' \subseteq Lease
      BY <2>3, <3>1 DEF GrantClaim, TypeOK, Lease
    <3>8. QED
      BY <2>3, <3>2, <3>3, <3>4, <3>5, <3>6, <3>7 DEF GrantClaim, TypeOK
  <2>4. ASSUME NEW c \in Conn, NEW now \in Now, BeginPending(c, now)
        PROVE TypeOK'
    <3>1. txn' \in [Conn -> Txn]
      BY <2>4 DEF BeginPending, TypeOK, Txn, Expired, Now
    <3>2. QED BY <2>4, <3>1 DEF BeginPending, TypeOK
  <2>5. ASSUME NEW c \in Conn, CommitReclaim(c) PROVE TypeOK'
    <3>1. txn' \in [Conn -> Txn]
      BY <2>5 DEF CommitReclaim, TypeOK, Txn, Closed
    <3>2. status' \in [Job -> Status]
      BY <2>5 DEF CommitReclaim, TypeOK, StatusAfterReclaim, Status
    <3>3. lease' \in [Job -> Nat] /\ expires' \in [Job -> Nat]
      BY <2>5 DEF CommitReclaim, TypeOK, NoToken
    <3>4. outbox' \subseteq Job
      BY <2>5 DEF CommitReclaim, TypeOK, OutboxAfterReclaim, Txn
    <3>5. QED BY <2>5, <3>1, <3>2, <3>3, <3>4 DEF CommitReclaim, TypeOK
  <2>6. ASSUME NEW c \in Conn, Rollback(c) PROVE TypeOK'
    BY <2>6 DEF Rollback, TypeOK, Txn, Closed
  <2>7. ASSUME NEW l \in leases, NEW now \in Now, Heartbeat(l, now)
        PROVE TypeOK'
    BY <2>7 DEF Heartbeat, TypeOK, Lease, Now
  <2>8. ASSUME NEW l \in leases, NEW end \in Terminal, NEW now \in Now,
               Complete(l, end, now)
        PROVE TypeOK'
    BY <2>8 DEF Complete, TypeOK, Lease, Status, NoToken
  <2>9. ASSUME NEW j \in Job, NEW license \in License,
               DonateValidation(j, license)
        PROVE TypeOK'
    BY <2>9 DEF DonateValidation, TypeOK
  <2>10. ASSUME NEW j \in Job, MarkNotificationDelivered(j) PROVE TypeOK'
    BY <2>10 DEF MarkNotificationDelivered, TypeOK
  <2>11. CASE Tick
    BY <2>11 DEF Tick, TypeOK
  <2>12. CASE UNCHANGED vars
    BY <2>12 DEF vars, TypeOK
  <2>13. QED
    BY <2>1, <2>2, <2>3, <2>4, <2>5, <2>6, <2>7, <2>8, <2>9, <2>10, <2>11,
       <2>12 DEF Next
<1>3. QED
  BY <1>1, <1>2, PTL DEF Spec

-----------------------------------------------------------------------------
(* The lease discipline is preserved by every step, on either dialect.  Only *)
(* claim, reclaim and complete touch the columns it relates.                 *)
LEMMA LeaseDisciplineStep ==
    TypeOK /\ LeaseDiscipline /\ [Next]_vars => LeaseDiscipline'
<1> SUFFICES ASSUME TypeOK, LeaseDiscipline, [Next]_vars
             PROVE  LeaseDiscipline'
  OBVIOUS
<1> USE DEF StaleWorkerNeverWins, NoToken, NoLicense, Terminal
<1>1. ASSUME NEW j \in Job, NEW now \in Now, Enqueue(j, now)
      PROVE LeaseDiscipline'
  BY <1>1 DEF Enqueue, TypeOK, LeaseDiscipline, Lease, Txn
<1>2. ASSUME NEW c \in Conn, NEW want \in Requested, NEW now \in Now,
             BeginClaim(c, want, now)
      PROVE LeaseDiscipline'
  BY <1>2 DEF BeginClaim, TypeOK, LeaseDiscipline, Expired
<1>3. ASSUME NEW c \in Conn, NEW j \in Job, GrantClaim(c, j)
      PROVE LeaseDiscipline'
  <2>1. /\ Reclaimed(c) \subseteq Job
        /\ \A k \in Reclaimed(c) : status[k] = "solving"
    BY ReclaimedIsSolving
  <2>2. status[j] = "queued" \/ j \in Reclaimed(c)
    BY <1>3, CandidateIsQueued DEF GrantClaim
  <2>3. \A k \in Job :
          /\ status'[k] = IF k = j THEN "solving"
                          ELSE IF k \in Reclaimed(c) THEN "queued" ELSE status[k]
          /\ lease'[k] = IF k = j THEN tokens + 1
                         ELSE IF k \in Reclaimed(c) THEN 0 ELSE lease[k]
    BY <1>3 DEF GrantClaim, StatusAfterReclaim, TypeOK
  <2>4. result' = result /\ donation' = donation /\ tokens' = tokens + 1
    BY <1>3 DEF GrantClaim
  <2>5. result[j] = 0 /\ donation[j] = 0
    BY <2>1, <2>2 DEF LeaseDiscipline
  <2>6. \A k \in Job : /\ (status[k] = "solving" <=> lease[k] # 0)'
                       /\ (result[k] # 0 => status[k] \in Terminal)'
                       /\ (donation[k] # 0 => status[k] \in Terminal)'
    BY <2>1, <2>3, <2>4, <2>5 DEF LeaseDiscipline, TypeOK
  <2>7. \A l \in leases' :
          \/ l \in leases
          \/ l.job = j /\ l.token = tokens + 1
    BY <1>3 DEF GrantClaim
  <2>8. ASSUME NEW l \in leases'
        PROVE  /\ l.token \in 1..tokens'
               /\ status'[l.job] = "solving" => l.token <= lease'[l.job]
               /\ result'[l.job] # 0 => l.token <= result'[l.job]
    <3>1. CASE l \in leases
      <4>1. l.job \in Job /\ l.token \in Nat /\ tokens \in Nat
        BY <3>1 DEF TypeOK, Lease
      <4>2. l.token \in 1..tokens
        BY <3>1 DEF LeaseDiscipline
      <4>3. l.token \in 1..tokens' /\ l.token <= tokens + 1
        BY <2>4, <4>1, <4>2
      <4>4. status'[l.job] = "solving" => l.token <= lease'[l.job]
        BY <2>3, <3>1, <4>1, <4>3 DEF LeaseDiscipline
      <4>5. QED BY <2>4, <3>1, <4>3, <4>4 DEF LeaseDiscipline
    <3>2. CASE l.job = j /\ l.token = tokens + 1
      BY <2>3, <2>4, <2>5, <3>2 DEF TypeOK
    <3>3. QED BY <2>7, <3>1, <3>2
  <2>9. \A d \in Conn : \A k \in txn'[d].expired : status'[k] # "absent"
    <3>1. SUFFICES ASSUME NEW d \in Conn, NEW k \in txn'[d].expired
                   PROVE  status'[k] # "absent"
      OBVIOUS
    <3>2. k \in txn[d].expired /\ k \in Job
      BY <1>3 DEF GrantClaim, Closed, TypeOK, Txn
    <3>3. QED BY <2>3, <3>2 DEF LeaseDiscipline
  <2>10. QED
    BY <2>6, <2>8, <2>9 DEF LeaseDiscipline
<1>4. ASSUME NEW c \in Conn, NEW now \in Now, BeginPending(c, now)
      PROVE LeaseDiscipline'
  BY <1>4 DEF BeginPending, TypeOK, LeaseDiscipline, Expired
<1>5. ASSUME NEW c \in Conn, CommitReclaim(c) PROVE LeaseDiscipline'
  <2>1. /\ Reclaimed(c) \subseteq Job
        /\ \A k \in Reclaimed(c) : status[k] = "solving"
    BY ReclaimedIsSolving
  <2>2. \A k \in Job :
          /\ status'[k] = IF k \in Reclaimed(c) THEN "queued" ELSE status[k]
          /\ lease'[k] = IF k \in Reclaimed(c) THEN 0 ELSE lease[k]
    BY <1>5 DEF CommitReclaim, StatusAfterReclaim
  <2>3. /\ result' = result /\ donation' = donation
        /\ tokens' = tokens /\ leases' = leases
    BY <1>5 DEF CommitReclaim
  <2>4. \A k \in Job : /\ (status[k] = "solving" <=> lease[k] # 0)'
                       /\ (result[k] # 0 => status[k] \in Terminal)'
                       /\ (donation[k] # 0 => status[k] \in Terminal)'
    BY <2>1, <2>2, <2>3 DEF LeaseDiscipline
  <2>5. \A l \in leases' :
          /\ l.token \in 1..tokens'
          /\ status'[l.job] = "solving" => l.token <= lease'[l.job]
          /\ result'[l.job] # 0 => l.token <= result'[l.job]
    BY <2>2, <2>3 DEF LeaseDiscipline, TypeOK, Lease
  <2>6. \A d \in Conn : \A k \in txn'[d].expired : status'[k] # "absent"
    <3>1. SUFFICES ASSUME NEW d \in Conn, NEW k \in txn'[d].expired
                   PROVE  status'[k] # "absent"
      OBVIOUS
    <3>2. k \in txn[d].expired /\ k \in Job
      BY <1>5 DEF CommitReclaim, Closed, TypeOK, Txn
    <3>3. QED BY <2>2, <3>2 DEF LeaseDiscipline
  <2>7. QED BY <2>4, <2>5, <2>6 DEF LeaseDiscipline
<1>6. ASSUME NEW c \in Conn, Rollback(c) PROVE LeaseDiscipline'
  BY <1>6 DEF Rollback, TypeOK, LeaseDiscipline, Closed
<1>7. ASSUME NEW l \in leases, NEW now \in Now, Heartbeat(l, now)
      PROVE LeaseDiscipline'
  <2>1. \A m \in leases' : \E k \in leases : m.job = k.job /\ m.token = k.token
    BY <1>7 DEF Heartbeat, TypeOK, Lease
  <2>2. UNCHANGED <<status, lease, result, donation, tokens, txn>>
    BY <1>7 DEF Heartbeat
  <2>3. \A m \in leases' :
          /\ m.token \in 1..tokens
          /\ status[m.job] = "solving" => m.token <= lease[m.job]
          /\ result[m.job] # 0 => m.token <= result[m.job]
    BY <2>1 DEF LeaseDiscipline
  <2>4. QED BY <2>2, <2>3 DEF LeaseDiscipline
<1>8. ASSUME NEW l \in leases, NEW end \in Terminal, NEW now \in Now,
             Complete(l, end, now)
      PROVE LeaseDiscipline'
  <2>1. /\ l.job \in Job /\ lease[l.job] = l.token
        /\ status[l.job] = "solving"
    BY <1>8 DEF Complete, LeaseActive, TypeOK, Lease
  <2>2. \A k \in Job :
          /\ status'[k] = IF k = l.job THEN end ELSE status[k]
          /\ lease'[k] = IF k = l.job THEN 0 ELSE lease[k]
          /\ result'[k] = IF k = l.job THEN l.token ELSE result[k]
    BY <1>8, <2>1 DEF Complete, TypeOK
  <2>3. UNCHANGED <<donation, leases, tokens, txn>>
    BY <1>8 DEF Complete
  <2>4. \A m \in leases : m.job \in Job /\ m.token \in Nat
    BY DEF TypeOK, Lease
  <2>5. \A m \in leases :
          /\ m.token \in 1..tokens
          /\ status'[m.job] = "solving" => m.token <= lease'[m.job]
          /\ result'[m.job] # 0 => m.token <= result'[m.job]
    BY <2>1, <2>2, <2>4 DEF LeaseDiscipline
  <2>6. \A k \in Job : /\ (status[k] = "solving" <=> lease[k] # 0)'
                       /\ (result[k] # 0 => status[k] \in Terminal)'
                       /\ (donation[k] # 0 => status[k] \in Terminal)'
    BY <2>1, <2>2, <2>3 DEF LeaseDiscipline
  <2>7. \A d \in Conn : \A k \in txn[d].expired : status'[k] # "absent"
    BY <2>2 DEF LeaseDiscipline, TypeOK, Txn
  <2>8. QED BY <2>3, <2>5, <2>6, <2>7 DEF LeaseDiscipline
<1>9. ASSUME NEW j \in Job, NEW license \in License,
             DonateValidation(j, license)
      PROVE LeaseDiscipline'
  BY <1>9 DEF DonateValidation, TypeOK, LeaseDiscipline
<1>10. ASSUME NEW j \in Job, MarkNotificationDelivered(j)
       PROVE LeaseDiscipline'
  BY <1>10 DEF MarkNotificationDelivered, LeaseDiscipline
<1>11. CASE Tick
  BY <1>11 DEF Tick, LeaseDiscipline
<1>12. CASE UNCHANGED vars
  BY <1>12 DEF vars, LeaseDiscipline
<1>13. QED
  BY <1>1, <1>2, <1>3, <1>4, <1>5, <1>6, <1>7, <1>8, <1>9, <1>10, <1>11,
     <1>12 DEF Next

(* The lease discipline holds in every reachable state.                      *)
THEOREM LeaseDisciplineHolds == Spec => [](TypeOK /\ LeaseDiscipline)
<1>1. Init => LeaseDiscipline
  BY DEF Init, LeaseDiscipline, StaleWorkerNeverWins, NoToken, NoLicense, Closed
<1>2. QED
  BY <1>1, TypeCorrect, LeaseDisciplineStep, PTL DEF Spec

(* A stale worker never wins, on SQLite or PostgreSQL: the stored result of a *)
(* job is that of the newest lease handed out for it.                        *)
THEOREM StaleWorkerNeverWinsHolds == Spec => []StaleWorkerNeverWins
BY LeaseDisciplineHolds, PTL DEF LeaseDiscipline

(* A worker never solves a donated copy: no job under a lease has a donation. *)
THEOREM SolvesOnlyOriginalsHolds == Spec => []SolvesOnlyOriginals
<1>1. LeaseDiscipline => SolvesOnlyOriginals
  BY DEF LeaseDiscipline, SolvesOnlyOriginals, Terminal
<1>2. QED BY <1>1, LeaseDisciplineHolds, PTL

-----------------------------------------------------------------------------
(* A finished job stays finished with its result: what claim, reclaim and    *)
(* complete write requires the job to be queued or under a lease.            *)
THEOREM TerminalIsFinalHolds == Spec => TerminalIsFinal
<1> DEFINE Kept == \A j \in Job : status[j] \in Terminal =>
                      status'[j] = status[j] /\ result'[j] = result[j]
<1>1. TypeOK /\ [Next]_vars => [Kept]_vars
  <2> SUFFICES ASSUME TypeOK, Next PROVE Kept
    OBVIOUS
  <2> USE DEF Terminal
  <2>1. ASSUME NEW c \in Conn, NEW j \in Job, GrantClaim(c, j) PROVE Kept
    <3>1. \A k \in Reclaimed(c) : status[k] = "solving"
      BY ReclaimedIsSolving
    <3>2. status[j] = "queued" \/ status[j] = "solving"
      BY <2>1, <3>1, CandidateIsQueued DEF GrantClaim
    <3>3. QED BY <2>1, <3>1, <3>2 DEF GrantClaim, StatusAfterReclaim, TypeOK
  <2>2. ASSUME NEW c \in Conn, CommitReclaim(c) PROVE Kept
    BY <2>2, ReclaimedIsSolving DEF CommitReclaim, StatusAfterReclaim, TypeOK
  <2>3. ASSUME NEW l \in leases, NEW end \in Terminal, NEW now \in Now,
               Complete(l, end, now)
        PROVE Kept
    BY <2>3 DEF Complete, LeaseActive, TypeOK, Lease
  <2>4. ASSUME NEW j \in Job, NEW now \in Now, Enqueue(j, now) PROVE Kept
    BY <2>4 DEF Enqueue, TypeOK
  <2>5. QED
    BY <2>1, <2>2, <2>3, <2>4
    DEF Next, BeginClaim, BeginPending, Rollback, Heartbeat,
        DonateValidation, MarkNotificationDelivered, Tick
<1>2. QED BY <1>1, TypeCorrect, PTL DEF Spec, TerminalIsFinal

-----------------------------------------------------------------------------
(* On SQLite the write reservation makes reclaim and claim atomic, and the   *)
(* exclusion discipline is preserved.                                        *)
LEMMA ExclusionStep ==
    /\ Dialect = "sqlite"
    /\ TypeOK /\ LeaseDiscipline /\ ExclusionDiscipline /\ [Next]_vars
    => ExclusionDiscipline'
<1> SUFFICES ASSUME Dialect = "sqlite", TypeOK, LeaseDiscipline,
                    ExclusionDiscipline, [Next]_vars
             PROVE  ExclusionDiscipline'
  OBVIOUS
<1> USE DEF Terminal, NoToken, ExclusionDiscipline
<1>a. /\ \A l \in leases : /\ l.job \in Job /\ l.token \in Nat /\ l.until \in Nat
                           /\ l.token \in 1..tokens
      /\ clock \in Nat /\ tokens \in Nat
      /\ \A t \in Now : t \in Nat /\ t <= clock
  BY DEF TypeOK, Lease, LeaseDiscipline, Now
<1>b. ASSUME ~WriteReserved PROVE \A c \in Conn : txn[c] = Closed
  BY <1>b DEF WriteReserved
<1>c. ASSUME \A c \in Conn : txn'[c] = Closed
      PROVE  OneWriter' /\ SelectedStillExpired'
  BY <1>c DEF OneWriter, SelectedStillExpired, Closed
<1>1. ASSUME NEW j \in Job, NEW now \in Now, Enqueue(j, now)
      PROVE ExclusionDiscipline'
  <2>1. \A c \in Conn : txn'[c] = Closed
    BY <1>1, <1>b DEF Enqueue
  <2>2. \A k \in Job : k # j => status'[k] = status[k]
    BY <1>1 DEF Enqueue, TypeOK
  <2>3. UNCHANGED <<lease, expires, result, leases, clock>>
    BY <1>1 DEF Enqueue
  <2>4. \A l \in leases : l.until > clock => l.job # j
    BY <1>a, <1>1 DEF Enqueue, CountedOnIsCurrent
  <2>5. CountedOnIsCurrent'
    BY <1>a, <2>2, <2>3, <2>4 DEF CountedOnIsCurrent
  <2>6. QED BY <1>c, <2>1, <2>3, <2>5 DEF TokensIdentify
<1>2. ASSUME NEW c \in Conn, NEW want \in Requested, NEW now \in Now,
             BeginClaim(c, want, now)
      PROVE ExclusionDiscipline'
  <2>1. \A d \in Conn : d # c => txn'[d] = Closed
    BY <1>2, <1>b DEF BeginClaim, TypeOK
  <2>2. txn'[c].expired = Expired(now) /\ now <= clock
    BY <1>2, <1>a DEF BeginClaim, TypeOK
  <2>3. UNCHANGED <<clock, status, lease, expires, result, leases>>
    BY <1>2 DEF BeginClaim
  <2>4. \A j \in Expired(now) : status[j] = "solving" /\ expires[j] <= clock
    BY <1>a, <2>2 DEF Expired, TypeOK
  <2>5. OneWriter' /\ SelectedStillExpired'
    BY <2>1, <2>2, <2>3, <2>4 DEF OneWriter, SelectedStillExpired, Closed
  <2>6. QED BY <2>3, <2>5 DEF TokensIdentify, CountedOnIsCurrent
<1>3. ASSUME NEW c \in Conn, NEW j \in Job, GrantClaim(c, j)
      PROVE ExclusionDiscipline'
  <2>1. /\ Reclaimed(c) \subseteq Job
        /\ \A k \in Reclaimed(c) : status[k] = "solving" /\ expires[k] <= clock
        /\ txn[c] # Closed
    BY <1>3, ReclaimedIsSolving DEF SelectedStillExpired, GrantClaim, Closed
  <2>2. status[j] = "queued" \/ j \in Reclaimed(c)
    BY <1>3, CandidateIsQueued DEF GrantClaim
  <2>3. \A l \in leases : l.until > clock =>
          l.job # j /\ l.job \notin Reclaimed(c)
    BY <1>a, <2>1, <2>2 DEF CountedOnIsCurrent, TypeOK
  <2>4. \A k \in Job : k # j /\ k \notin Reclaimed(c) =>
          status'[k] = status[k] /\ lease'[k] = lease[k] /\ expires'[k] = expires[k]
    BY <1>3 DEF GrantClaim, StatusAfterReclaim, TypeOK
  <2>5. \A d \in Conn : txn'[d] = Closed
    BY <1>3, <2>1 DEF GrantClaim, OneWriter, TypeOK
  <2> DEFINE new == [job |-> j, token |-> tokens + 1, at |-> txn[c].now,
                     until |-> txn[c].now + LeaseSpan]
  <2>6. leases' = leases \cup {new} /\ clock' = clock /\ result' = result
    BY <1>3 DEF GrantClaim
  <2>7. /\ status'[j] = "solving"
        /\ lease'[j] = tokens + 1
        /\ expires'[j] = txn[c].now + LeaseSpan
    BY <1>3 DEF GrantClaim, StatusAfterReclaim, TypeOK
  <2>8. \A l \in leases : l.token # tokens + 1
    BY <1>a
  <2>9. TokensIdentify'
    BY <2>6, <2>8 DEF TokensIdentify
  <2>10. ASSUME NEW l \in leases', l.until > clock'
         PROVE  \/ status'[l.job] \in Terminal /\ result'[l.job] = l.token
                \/ /\ status'[l.job] = "solving"
                   /\ lease'[l.job] = l.token
                   /\ expires'[l.job] = l.until
    <3>1. CASE l \in leases
      BY <1>a, <2>3, <2>4, <2>6, <2>10, <3>1 DEF CountedOnIsCurrent
    <3>2. CASE l = new
      BY <2>7, <3>2
    <3>3. QED BY <2>6, <3>1, <3>2
  <2>11. QED BY <1>c, <2>5, <2>9, <2>10 DEF CountedOnIsCurrent
<1>4. ASSUME NEW c \in Conn, NEW now \in Now, BeginPending(c, now)
      PROVE ExclusionDiscipline'
  <2>1. \A d \in Conn : d # c => txn'[d] = Closed
    BY <1>4, <1>b DEF BeginPending, TypeOK
  <2>2. txn'[c].expired = Expired(now) /\ now <= clock
    BY <1>4, <1>a DEF BeginPending, TypeOK
  <2>3. UNCHANGED <<clock, status, lease, expires, result, leases>>
    BY <1>4 DEF BeginPending
  <2>4. \A j \in Expired(now) : status[j] = "solving" /\ expires[j] <= clock
    BY <1>a, <2>2 DEF Expired, TypeOK
  <2>5. OneWriter' /\ SelectedStillExpired'
    BY <2>1, <2>2, <2>3, <2>4 DEF OneWriter, SelectedStillExpired, Closed
  <2>6. QED BY <2>3, <2>5 DEF TokensIdentify, CountedOnIsCurrent
<1>5. ASSUME NEW c \in Conn, CommitReclaim(c) PROVE ExclusionDiscipline'
  <2>1. /\ Reclaimed(c) \subseteq Job
        /\ \A k \in Reclaimed(c) : status[k] = "solving" /\ expires[k] <= clock
    BY <1>5, ReclaimedIsSolving DEF SelectedStillExpired
  <2>2. \A l \in leases : l.until > clock => l.job \notin Reclaimed(c)
    BY <1>a, <2>1 DEF CountedOnIsCurrent, TypeOK
  <2>3. \A k \in Job : k \notin Reclaimed(c) =>
          status'[k] = status[k] /\ lease'[k] = lease[k] /\ expires'[k] = expires[k]
    BY <1>5 DEF CommitReclaim, StatusAfterReclaim
  <2>4. \A d \in Conn : txn'[d] = Closed
    BY <1>5 DEF CommitReclaim, OneWriter, TypeOK
  <2>5. UNCHANGED <<clock, result, leases>>
    BY <1>5 DEF CommitReclaim
  <2>6. CountedOnIsCurrent'
    BY <1>a, <2>2, <2>3, <2>5 DEF CountedOnIsCurrent
  <2>7. QED BY <1>c, <2>4, <2>5, <2>6 DEF TokensIdentify
<1>6. ASSUME NEW c \in Conn, Rollback(c) PROVE ExclusionDiscipline'
  BY <1>6 DEF Rollback, TypeOK, OneWriter, SelectedStillExpired,
              TokensIdentify, CountedOnIsCurrent, Closed
<1>7. ASSUME NEW l \in leases, NEW now \in Now, Heartbeat(l, now)
      PROVE ExclusionDiscipline'
  <2> DEFINE renewed == [l EXCEPT !.until = now + LeaseSpan]
  <2>1. /\ renewed.job = l.job /\ renewed.token = l.token
        /\ renewed.until = now + LeaseSpan
    BY DEF TypeOK, Lease
  <2>2. leases' = (leases \ {l}) \cup {renewed}
    BY <1>7 DEF Heartbeat
  <2>3. UNCHANGED <<clock, status, lease, result, txn>>
    BY <1>7 DEF Heartbeat
  <2>4. /\ status[l.job] = "solving" /\ lease[l.job] = l.token
        /\ expires' = [expires EXCEPT ![l.job] = now + LeaseSpan]
    BY <1>7 DEF Heartbeat, LeaseActive
  <2>5. \A c \in Conn : txn'[c] = Closed
    BY <1>7, <1>b, <2>3 DEF Heartbeat
  <2> HIDE DEF renewed
  <2>6. TokensIdentify'
    BY <2>1, <2>2 DEF TokensIdentify
  <2>7. ASSUME NEW x \in leases', x.until > clock'
        PROVE  \/ status'[x.job] \in Terminal /\ result'[x.job] = x.token
               \/ /\ status'[x.job] = "solving"
                  /\ lease'[x.job] = x.token
                  /\ expires'[x.job] = x.until
    <3>1. CASE x \in leases /\ x # l
      <4>1. x.job # l.job
        BY <1>a, <2>3, <2>4, <2>7, <3>1 DEF TokensIdentify, CountedOnIsCurrent
      <4>2. expires'[x.job] = expires[x.job]
        BY <1>a, <2>4, <3>1, <4>1 DEF TypeOK
      <4>3. QED BY <2>3, <2>7, <3>1, <4>2 DEF CountedOnIsCurrent
    <3>2. CASE x = renewed
      BY <1>a, <2>1, <2>3, <2>4, <3>2 DEF TypeOK
    <3>3. QED BY <2>2, <3>1, <3>2
  <2>8. QED BY <1>c, <2>5, <2>6, <2>7 DEF CountedOnIsCurrent
<1>8. ASSUME NEW l \in leases, NEW end \in Terminal, NEW now \in Now,
             Complete(l, end, now)
      PROVE ExclusionDiscipline'
  <2>1. \A c \in Conn : txn'[c] = Closed
    BY <1>8, <1>b DEF Complete
  <2>2. status[l.job] = "solving" /\ lease[l.job] = l.token
    BY <1>8 DEF Complete, LeaseActive
  <2>3. \A k \in Job : k # l.job =>
          /\ status'[k] = status[k] /\ lease'[k] = lease[k]
          /\ expires'[k] = expires[k] /\ result'[k] = result[k]
    BY <1>8 DEF Complete, TypeOK
  <2>4. status'[l.job] \in Terminal /\ result'[l.job] = l.token
    BY <1>a, <1>8 DEF Complete, TypeOK
  <2>5. UNCHANGED <<leases, clock>>
    BY <1>8 DEF Complete
  <2>6. \A m \in leases : m.until > clock /\ m.job = l.job => m.token = l.token
    BY <2>2 DEF CountedOnIsCurrent
  <2>7. CountedOnIsCurrent'
    BY <1>a, <2>3, <2>4, <2>5, <2>6 DEF CountedOnIsCurrent
  <2>8. QED BY <1>c, <2>1, <2>5, <2>7 DEF TokensIdentify
<1>9. ASSUME NEW j \in Job, NEW license \in License,
             DonateValidation(j, license)
      PROVE ExclusionDiscipline'
  BY <1>9 DEF DonateValidation, OneWriter, SelectedStillExpired,
              TokensIdentify, CountedOnIsCurrent
<1>10. ASSUME NEW j \in Job, MarkNotificationDelivered(j)
       PROVE ExclusionDiscipline'
  BY <1>10 DEF MarkNotificationDelivered, OneWriter, SelectedStillExpired,
               TokensIdentify, CountedOnIsCurrent
<1>11. CASE Tick
  <2>1. /\ clock' = clock + 1
        /\ UNCHANGED <<status, lease, expires, result, leases, txn>>
    BY <1>11 DEF Tick
  <2>2. SelectedStillExpired'
    BY <1>a, <2>1 DEF SelectedStillExpired, TypeOK, Txn
  <2>3. \A l \in leases : l.until > clock' => l.until > clock
    BY <1>a, <2>1
  <2>4. QED
    BY <2>1, <2>2, <2>3 DEF OneWriter, TokensIdentify, CountedOnIsCurrent
<1>12. CASE UNCHANGED vars
  BY <1>12 DEF vars, OneWriter, SelectedStillExpired, TokensIdentify,
               CountedOnIsCurrent
<1>13. QED
  BY <1>1, <1>2, <1>3, <1>4, <1>5, <1>6, <1>7, <1>8, <1>9, <1>10, <1>11,
     <1>12 DEF Next

(* On SQLite leases are exclusive: no two workers hold unexpired leases of   *)
(* the same job.  (On PostgreSQL this is refuted by model checking.)         *)
THEOREM LeaseExclusiveHolds ==
    ASSUME Dialect = "sqlite"
    PROVE  Spec => []LeaseExclusive
<1>1. Init => ExclusionDiscipline
  BY DEF Init, ExclusionDiscipline, OneWriter, SelectedStillExpired,
         TokensIdentify, CountedOnIsCurrent, Closed
<1>2. TypeOK /\ LeaseDiscipline /\ ExclusionDiscipline /\ [Next]_vars
        => ExclusionDiscipline'
  BY ExclusionStep
<1>3. TypeOK /\ ExclusionDiscipline => LeaseExclusive
  <2> SUFFICES ASSUME TypeOK, ExclusionDiscipline, NEW l \in leases,
                      NEW m \in leases, l.job = m.job,
                      l.until > clock, m.until > clock
               PROVE  l = m
    BY DEF LeaseExclusive
  <2>1. l.token = m.token
    BY DEF ExclusionDiscipline, CountedOnIsCurrent, Terminal
  <2>2. QED BY <2>1 DEF ExclusionDiscipline, TokensIdentify
<1>4. QED
  BY <1>1, <1>2, <1>3, LeaseDisciplineHolds, PTL DEF Spec

-----------------------------------------------------------------------------
(* The job store implements the contract of the JobRepository trait, on      *)
(* either dialect: a claim is a grant preceded by the loss of the reclaimed  *)
(* leases, a committed reclaim is a requeue, and heartbeats, donations, the  *)
(* clock and the opening or rolling back of a transaction are invisible.     *)
THEOREM ImplementsLifecycle == Spec => LifecycleSpec
<1> USE DEF NoToken, Lifecycle!NoToken, Terminal, Lifecycle!Terminal
<1>1. Init => Lifecycle!Init
  BY DEF Init, Lifecycle!Init
<1>2. TypeOK /\ LeaseDiscipline /\ [Next]_vars
        => [Lifecycle!Next]_Lifecycle!lifecycleVars
  <2> SUFFICES ASSUME TypeOK, LeaseDiscipline, [Next]_vars
               PROVE  \/ Lifecycle!Next
                      \/ UNCHANGED Lifecycle!lifecycleVars
    OBVIOUS
  <2>1. ASSUME NEW j \in Job, NEW now \in Now, Enqueue(j, now)
        PROVE  Lifecycle!Next
    <3>1. Lifecycle!Submit(j)
      BY <2>1 DEF Enqueue, Lifecycle!Submit
    <3>2. QED BY <3>1 DEF Lifecycle!Next
  <2>2. ASSUME NEW c \in Conn
        PROVE  /\ Reclaimed(c) \in SUBSET Job
               /\ txn[c].expired \in SUBSET Job
               /\ Reclaimed(c) \subseteq txn[c].expired
               /\ txn[c].expired \subseteq {j \in Job : status[j] # "absent"}
               /\ \A j \in Reclaimed(c) : status[j] = "solving"
    BY ReclaimedIsSolving DEF TypeOK, Txn, LeaseDiscipline
  <2>3. ASSUME NEW c \in Conn, NEW j \in Job, GrantClaim(c, j)
        PROVE  Lifecycle!Next
    <3>1. status[j] = "queued" \/ j \in Reclaimed(c)
      BY <2>3, CandidateIsQueued DEF GrantClaim
    <3>2. status' = [k \in Job |-> IF k = j THEN "solving"
                                   ELSE IF k \in Reclaimed(c) THEN "queued"
                                   ELSE status[k]]
      BY <2>3 DEF GrantClaim, StatusAfterReclaim
    <3>3. Lifecycle!Grant(Reclaimed(c), txn[c].expired, j)
      BY <2>2, <2>3, <3>1, <3>2
      DEF GrantClaim, OutboxAfterReclaim, Lifecycle!Grant
    <3>4. QED BY <2>2, <3>3 DEF Lifecycle!Next
  <2>4. ASSUME NEW c \in Conn, CommitReclaim(c) PROVE Lifecycle!Next
    <3>1. Lifecycle!Requeue(Reclaimed(c), txn[c].expired)
      BY <2>2, <2>4
      DEF CommitReclaim, StatusAfterReclaim, OutboxAfterReclaim, Lifecycle!Requeue
    <3>2. QED BY <2>2, <3>1 DEF Lifecycle!Next
  <2>5. ASSUME NEW l \in leases, NEW end \in Terminal, NEW now \in Now,
               Complete(l, end, now)
        PROVE  Lifecycle!Next
    <3>1. l.job \in Job
      BY DEF TypeOK, Lease
    <3>2. Lifecycle!Finish(l.job, end)
      BY <2>5 DEF Complete, LeaseActive, Lifecycle!Finish
    <3>3. QED BY <3>1, <3>2 DEF Lifecycle!Next
  <2>6. ASSUME NEW j \in Job, MarkNotificationDelivered(j)
        PROVE  Lifecycle!Next
    <3>1. Lifecycle!Acknowledge(j)
      BY <2>6 DEF MarkNotificationDelivered, Lifecycle!Acknowledge
    <3>2. QED BY <3>1 DEF Lifecycle!Next
  <2>7. ASSUME \/ \E c \in Conn, want \in Requested, now \in Now :
                    BeginClaim(c, want, now)
               \/ \E c \in Conn, now \in Now : BeginPending(c, now)
               \/ \E c \in Conn : Rollback(c)
               \/ \E l \in leases, now \in Now : Heartbeat(l, now)
               \/ \E j \in Job, license \in License :
                    DonateValidation(j, license)
               \/ Tick
               \/ UNCHANGED vars
        PROVE  UNCHANGED Lifecycle!lifecycleVars
    BY <2>7 DEF BeginClaim, BeginPending, Rollback, Heartbeat, DonateValidation,
                Tick, vars, Lifecycle!lifecycleVars
  <2>8. QED
    BY <2>1, <2>3, <2>4, <2>5, <2>6, <2>7 DEF Next
<1>3. QED
  BY <1>1, <1>2, LeaseDisciplineHolds, PTL
  DEF Spec, LifecycleSpec, Lifecycle!Spec

-----------------------------------------------------------------------------
(* Fair scheduling: the invariant.                                           *)

(* Claims leave the choice of the job to the store.                          *)
Scheduled == Requested \subseteq {AnyJob}

(* One claim is open at a time.                                              *)
ClaimsInOrder ==
    /\ \A c \in Conn : txn[c].now <= clock
    /\ \A c \in Open("claim") : txn[c].want = AnyJob
    /\ \A c, d \in Open("claim") : c = d

(* A lease was granted at most Lag after the last service of its owner, and  *)
(* at most Lag after the time an open claim uses; a job under a lease that    *)
(* ran out Lag before that time is one of those the claim will reclaim.       *)
LeasesInOrder ==
    /\ \A l \in leases : /\ l.at <= clock
                         /\ l.at <= lastServed[OwnerOf[l.job]] + Lag
                         /\ \A c \in Open("claim") : l.at <= txn[c].now + Lag
    /\ \A j \in Job : status[j] = "solving" =>
          \E m \in leases : m.job = j /\ m.until = expires[j]
    /\ \A c \in Open("claim"), j \in Job :
          status[j] = "solving" /\ expires[j] + Lag <= txn[c].now => j \in txn[c].expired

(* No owner was served ahead of an unfinished job by two leases, whether the *)
(* job waits or is being solved on a lease that may still run out.           *)
ServedAheadOnce ==
    \A j \in Job, o \in Owner :
        status[j] \in {"queued", "solving"} /\ o # OwnerOf[j] =>
            \A l, m \in ServedAhead(o, j) : l = m

-----------------------------------------------------------------------------
(* A reading of the time is at most Lag old.                                 *)
LEMMA FreshReading ==
    ASSUME TypeOK, NEW now \in Now
    PROVE  now \in Nat /\ now <= clock /\ clock <= now + Lag
BY DEF TypeOK, Now

(* An owner that has waited strictly longer, with a job of at least the same *)
(* weight, outscores the other, even one served after the time in use.        *)
LEMMA LongerWaitOutscores ==
    ASSUME NEW now \in Nat, NEW la \in Nat, NEW lb \in Nat, NEW wa \in Nat, NEW wb \in Nat,
           la < lb, la <= now, wb <= wa
    PROVE  Outscores(now, la, wa, lb, wb)
<1> DEFINE u == IF wa > MinWeight THEN wa ELSE MinWeight
           v == IF wb > MinWeight THEN wb ELSE MinWeight
<1>1. u \in Nat /\ v \in Nat /\ v >= 1 /\ u >= v
  BY DEF MinWeight
<1>2. now - la \in Nat /\ now - lb \in Int /\ now - la > now - lb
  OBVIOUS
<1>3. ASSUME NEW a \in Nat, NEW b \in Nat, NEW x \in Nat, NEW y \in Nat, a > b, x >= y, y >= 1
      PROVE  a * x > b * y
  <2>1. a * x >= a * y
    BY <1>3
  <2>2. a * y >= (b + 1) * y
    BY <1>3
  <2>3. (b + 1) * y = b * y + y
    BY <1>3
  <2>4. a * x \in Nat /\ a * y \in Nat /\ b * y \in Nat
    BY <1>3
  <2>5. QED BY <1>3, <2>1, <2>2, <2>3, <2>4
<1>4. ASSUME NEW a \in Nat, NEW b \in Int, NEW x \in Nat, NEW y \in Nat, b < 0, y >= 1
      PROVE  a * x > b * y
  <2>1. a * x \in Nat /\ b * y \in Int
    BY <1>4
  <2>2. b * y <= b
    BY <1>4
  <2>3. QED BY <1>4, <2>1, <2>2
<1>5. (now - la) * u > (now - lb) * v
  <2> HIDE DEF u, v
  <2>1. CASE lb <= now
    <3>1. now - lb \in Nat
      BY <2>1
    <3>2. QED BY <1>1, <1>2, <1>3, <3>1
  <2>2. CASE lb > now
    <3>1. now - lb < 0
      BY <2>2
    <3>2. QED BY <1>1, <1>2, <1>4, <3>1
  <2>3. QED BY <2>1, <2>2
<1>6. lb # NeverServed
  BY DEF NeverServed
<1>7. QED BY <1>5, <1>6 DEF Outscores, Score

(* A claim does not pass over a waiting job for one whose owner was served   *)
(* more recently and whose weight is no greater.                             *)
LEMMA LongerWaitGoesFirst ==
    ASSUME TypeOK, ClaimsInOrder, NEW c \in Open("claim"),
           NEW k \in Candidates(c), NEW j \in Job,
           StatusAfterReclaim(c)[j] = "queued", WeightOf[k] <= WeightOf[j],
           lastServed[OwnerOf[j]] < lastServed[OwnerOf[k]],
           lastServed[OwnerOf[j]] <= txn[c].now
    PROVE  FALSE
<1>1. c \in Conn /\ txn[c].want = AnyJob
  BY DEF ClaimsInOrder, Open
<1>2. k \in Job
  BY <1>1, CandidateIsQueued
<1>3. /\ OwnerOf[j] \in Owner /\ OwnerOf[k] \in Owner
      /\ WeightOf[j] \in Nat /\ WeightOf[k] \in Nat
      /\ lastServed[OwnerOf[j]] \in Nat /\ lastServed[OwnerOf[k]] \in Nat
      /\ txn[c].now \in Nat
  BY <1>1, <1>2, JobQueueAssumptions DEF TypeOK, Txn
<1>5. Outscores(txn[c].now, lastServed[OwnerOf[j]], WeightOf[j],
                lastServed[OwnerOf[k]], WeightOf[k])
  BY <1>3, LongerWaitOutscores
<1>6. ~Outscores(txn[c].now, lastServed[OwnerOf[j]], WeightOf[j],
                 lastServed[OwnerOf[k]], WeightOf[k])
  BY <1>1, <1>2 DEF Candidates, Winners
<1>7. QED BY <1>5, <1>6

-----------------------------------------------------------------------------
(* Claims stay in order: on either dialect no other claim opens while one is  *)
(* open.                                                                     *)
LEMMA ClaimsInOrderStep ==
    ASSUME Scheduled, TypeOK, ClaimsInOrder, [Next]_vars
    PROVE  ClaimsInOrder'
<1>a. /\ clock \in Nat /\ Closed.kind = "closed" /\ Closed.now = 0
      /\ txn \in [Conn -> Txn] /\ \A c \in Conn : txn[c].now \in Nat
  BY DEF TypeOK, Txn, Closed
<1>b. ASSUME UNCHANGED <<clock, txn>> PROVE ClaimsInOrder'
  BY <1>b DEF ClaimsInOrder, Open
(* Closing a transaction. *)
<1>c. ASSUME NEW c \in Conn, txn' = [txn EXCEPT ![c] = Closed], clock' = clock
      PROVE  ClaimsInOrder'
  <2>1. \A d \in Conn : d # c => txn'[d] = txn[d]
    BY <1>a, <1>c
  <2>2. txn'[c] = Closed
    BY <1>a, <1>c
  <2>3. \A d \in Open("claim")' : d # c /\ d \in Open("claim") /\ txn'[d] = txn[d]
    BY <1>a, <2>1, <2>2 DEF Open
  <2>4. \A d \in Conn : txn'[d].now <= clock'
    BY <1>a, <1>c, <2>1, <2>2 DEF ClaimsInOrder
  <2>5. QED BY <1>c, <2>3, <2>4 DEF ClaimsInOrder
<1>1. ASSUME NEW j \in Job, NEW now \in Now, Enqueue(j, now) PROVE ClaimsInOrder'
  BY <1>1, <1>b DEF Enqueue
<1>2. ASSUME NEW c \in Conn, NEW want \in Requested, NEW now \in Now, BeginClaim(c, want, now)
      PROVE ClaimsInOrder'
  <2>1. now \in Nat /\ now <= clock /\ want = AnyJob
    BY FreshReading DEF Scheduled
  <2>2. \A d \in Conn : d # c => txn'[d] = txn[d]
    BY <1>2, <1>a DEF BeginClaim
  <2>3. txn'[c].now <= clock /\ txn'[c].want = AnyJob
    BY <1>2, <1>a, <2>1 DEF BeginClaim
  <2>4. Open("claim") = {}
    <3>1. CASE Dialect = "sqlite"
      BY <1>2, <1>a, <3>1 DEF BeginClaim, WriteReserved, Open
    <3>2. CASE Dialect # "sqlite"
      BY <1>2, <3>2 DEF BeginClaim
    <3>3. QED BY <3>1, <3>2
  <2>5. \A d \in Open("claim")' : d = c
    BY <2>2, <2>4 DEF Open
  <2>6. clock' = clock
    BY <1>2 DEF BeginClaim
  <2>7. \A d \in Conn : txn'[d].now <= clock
    BY <1>a, <2>2, <2>3 DEF ClaimsInOrder
  <2>8. QED BY <2>3, <2>5, <2>6, <2>7 DEF ClaimsInOrder
<1>3. ASSUME NEW c \in Conn, NEW j \in Job, GrantClaim(c, j) PROVE ClaimsInOrder'
  <2>1. c \in Open("claim")
    BY <1>3 DEF GrantClaim, Open
  <2>2. /\ \A d \in Conn : d # c => txn'[d] = txn[d]
        /\ txn'[c] = Closed /\ clock' = clock
    BY <1>3, <1>a DEF GrantClaim
  <2>3. Open("claim")' = {}
    BY <1>a, <2>1, <2>2 DEF ClaimsInOrder, Open
  <2>5. \A d \in Conn : txn'[d].now <= clock
    BY <1>a, <2>2 DEF ClaimsInOrder
  <2>6. QED BY <2>2, <2>3, <2>5 DEF ClaimsInOrder
<1>4. ASSUME NEW c \in Conn, NEW now \in Now, BeginPending(c, now) PROVE ClaimsInOrder'
  <2>1. now \in Nat /\ now <= clock
    BY FreshReading
  <2>2. /\ \A d \in Conn : d # c => txn'[d] = txn[d]
        /\ txn'[c].now <= clock /\ txn'[c].kind = "pending"
    BY <1>4, <1>a, <2>1 DEF BeginPending
  <2>3. \A d \in Open("claim")' : d # c /\ d \in Open("claim") /\ txn'[d] = txn[d]
    BY <2>2 DEF Open
  <2>4. \A d \in Conn : txn'[d].now <= clock
    BY <1>a, <2>2 DEF ClaimsInOrder
  <2>5. clock' = clock
    BY <1>4 DEF BeginPending
  <2>6. QED BY <2>3, <2>4, <2>5 DEF ClaimsInOrder
<1>5. ASSUME NEW c \in Conn, CommitReclaim(c) PROVE ClaimsInOrder'
  BY <1>5, <1>c DEF CommitReclaim
<1>6. ASSUME NEW c \in Conn, Rollback(c) PROVE ClaimsInOrder'
  BY <1>6, <1>c DEF Rollback
<1>7. ASSUME NEW l \in leases, NEW now \in Now, Heartbeat(l, now) PROVE ClaimsInOrder'
  BY <1>7, <1>b DEF Heartbeat
<1>8. ASSUME NEW l \in leases, NEW end \in Terminal, NEW now \in Now, Complete(l, end, now)
      PROVE ClaimsInOrder'
  BY <1>8, <1>b DEF Complete
<1>9. ASSUME NEW j \in Job, NEW license \in License, DonateValidation(j, license)
      PROVE ClaimsInOrder'
  BY <1>9, <1>b DEF DonateValidation
<1>10. ASSUME NEW j \in Job, MarkNotificationDelivered(j) PROVE ClaimsInOrder'
  BY <1>10, <1>b DEF MarkNotificationDelivered
<1>11. CASE Tick
  <2>1. clock' = clock + 1 /\ txn' = txn
    BY <1>11 DEF Tick
  <2>2. \A c \in Conn : txn[c].now <= clock + 1
    BY <1>a DEF ClaimsInOrder
  <2>3. QED BY <2>1, <2>2 DEF ClaimsInOrder, Open
<1>12. CASE UNCHANGED vars
  BY <1>12, <1>b DEF vars
<1>13. QED
  BY <1>1, <1>2, <1>3, <1>4, <1>5, <1>6, <1>7, <1>8, <1>9, <1>10, <1>11, <1>12 DEF Next

(* Leases stay in order: a heartbeat writes an expiry that, with Lag added,   *)
(* is later than the time any open claim uses.                               *)
LEMMA LeasesInOrderStep ==
    ASSUME Scheduled, TypeOK, ClaimsInOrder, LeasesInOrder, [Next]_vars
    PROVE  LeasesInOrder'
<1> USE JobQueueAssumptions
<1>a. /\ clock \in Nat /\ lastServed \in [Owner -> Nat] /\ Closed.kind = "closed"
      /\ txn \in [Conn -> Txn] /\ \A c \in Conn : txn[c].now \in Nat
      /\ LeaseSpan \in Nat \ {0} /\ expires \in [Job -> Nat]
      /\ \A l \in leases : l.job \in Job /\ l.at \in Nat /\ l.until \in Nat
  BY LeaseSpanType DEF TypeOK, Txn, Closed, Lease
(* Steps that touch neither leases nor times, requeue or finish some jobs,   *)
(* and open no claim.                                                        *)
<1>b. ASSUME UNCHANGED <<clock, leases, lastServed>>,
             \A j \in Job : status'[j] = "solving" =>
                status[j] = "solving" /\ expires'[j] = expires[j],
             \A c \in Open("claim")' : c \in Open("claim") /\ txn'[c] = txn[c]
      PROVE  LeasesInOrder'
  BY <1>b DEF LeasesInOrder
<1>1. ASSUME NEW j \in Job, NEW now \in Now, Enqueue(j, now) PROVE LeasesInOrder'
  BY <1>1, <1>b DEF Enqueue, TypeOK, Open
<1>2. ASSUME NEW c \in Conn, NEW want \in Requested, NEW now \in Now, BeginClaim(c, want, now)
      PROVE LeasesInOrder'
  <2>1. txn'[c].now = now /\ txn'[c].expired = Expired(now)
    BY <1>2, <1>a DEF BeginClaim
  <2>2. \A d \in Conn : d # c => txn'[d] = txn[d]
    BY <1>2, <1>a DEF BeginClaim
  <2>3. UNCHANGED <<clock, status, expires, leases, lastServed>>
    BY <1>2 DEF BeginClaim
  <2>6. now \in Nat /\ clock <= now + Lag
    BY FreshReading
  <2>4. ASSUME NEW d \in Open("claim")', NEW j \in Job, status[j] = "solving",
               expires[j] + Lag <= txn'[d].now
        PROVE  j \in txn'[d].expired
    <3>1. CASE d = c
      <4>1. expires[j] <= now
        BY <1>a, <2>1, <2>4, <2>6, <3>1
      <4>2. QED BY <2>1, <2>4, <3>1, <4>1 DEF Expired
    <3>2. CASE d # c
      BY <2>2, <2>4, <3>2 DEF Open, LeasesInOrder
    <3>3. QED BY <3>1, <3>2
  <2>5. ASSUME NEW d \in Open("claim")', NEW l \in leases
        PROVE  l.at <= txn'[d].now + Lag
    <3>1. CASE d = c
      <4>1. l.at <= clock
        BY DEF LeasesInOrder
      <4>2. QED BY <1>a, <2>1, <2>6, <3>1, <4>1
    <3>2. CASE d # c
      BY <2>2, <2>5, <3>2 DEF Open, LeasesInOrder
    <3>3. QED BY <3>1, <3>2
  <2>7. QED BY <2>3, <2>4, <2>5 DEF LeasesInOrder
<1>3. ASSUME NEW c \in Conn, NEW j \in Job, GrantClaim(c, j) PROVE LeasesInOrder'
  <2>1. c \in Open("claim") /\ OwnerOf[j] \in Owner
    BY <1>3 DEF GrantClaim, Open
  <2>2. /\ \A d \in Conn : d # c => txn'[d] = txn[d]
        /\ txn'[c] = Closed /\ clock' = clock
    BY <1>3, <1>a DEF GrantClaim
  <2>3. Open("claim")' = {}
    BY <1>a, <2>1, <2>2 DEF ClaimsInOrder, Open
  <2>4. PICK now : now = txn[c].now
    OBVIOUS
  <2>5. now \in Nat /\ now <= clock
    BY <1>a, <2>1, <2>4 DEF ClaimsInOrder, Open
  <2>6. PICK new : new = [job |-> j, token |-> tokens + 1, at |-> now, until |-> now + LeaseSpan]
    OBVIOUS
  <2>7. new.job = j /\ new.at = now /\ new.until = now + LeaseSpan
    BY <2>6
  <2>8. leases' = leases \cup {new} /\ lastServed' = [lastServed EXCEPT ![OwnerOf[j]] = now]
    BY <1>3, <2>4, <2>6 DEF GrantClaim
  <2>10. ASSUME NEW l \in leases'
         PROVE  l.at <= clock /\ l.at <= lastServed'[OwnerOf[l.job]] + Lag
    <3>1. CASE l \in leases
      <4>1. /\ OwnerOf[l.job] \in Owner /\ l.at \in Nat /\ l.at <= clock
            /\ l.at <= lastServed[OwnerOf[l.job]] + Lag /\ l.at <= now + Lag
        BY <1>a, <2>1, <2>4, <3>1 DEF LeasesInOrder
      <4>2. CASE OwnerOf[l.job] = OwnerOf[j]
        <5>1. lastServed'[OwnerOf[l.job]] = now
          BY <1>a, <2>1, <2>8, <4>2
        <5>2. QED BY <4>1, <5>1
      <4>3. CASE OwnerOf[l.job] # OwnerOf[j]
        <5>1. lastServed'[OwnerOf[l.job]] = lastServed[OwnerOf[l.job]]
          BY <1>a, <2>8, <4>1, <4>3
        <5>2. QED BY <4>1, <5>1
      <4>4. QED BY <4>2, <4>3
    <3>2. CASE l = new
      <4>1. lastServed'[OwnerOf[j]] = now
        BY <1>a, <2>1, <2>8
      <4>2. QED BY <1>a, <2>5, <2>7, <3>2, <4>1
    <3>3. QED BY <2>8, <3>1, <3>2
  <2>11. ASSUME NEW k \in Job, status'[k] = "solving"
         PROVE  \E m \in leases' : m.job = k /\ m.until = expires'[k]
    <3>1. CASE k = j
      <4>1. expires'[j] = now + LeaseSpan
        BY <1>3, <2>4 DEF GrantClaim
      <4>2. QED BY <2>7, <2>8, <3>1, <4>1
    <3>2. CASE k # j
      <4>1. status[k] = "solving" /\ k \notin Reclaimed(c)
        BY <1>3, <2>11, <3>2 DEF GrantClaim, StatusAfterReclaim
      <4>2. expires'[k] = expires[k]
        BY <1>3, <3>2, <4>1 DEF GrantClaim
      <4>3. QED BY <2>8, <4>1, <4>2 DEF LeasesInOrder
    <3>3. QED BY <3>1, <3>2
  <2>12. QED BY <2>2, <2>3, <2>10, <2>11 DEF LeasesInOrder
<1>4. ASSUME NEW c \in Conn, NEW now \in Now, BeginPending(c, now) PROVE LeasesInOrder'
  <2>1. /\ \A d \in Conn : d # c => txn'[d] = txn[d]
        /\ txn'[c].kind = "pending"
    BY <1>4, <1>a DEF BeginPending
  <2>2. \A d \in Open("claim")' : d \in Open("claim") /\ txn'[d] = txn[d]
    BY <2>1 DEF Open
  <2>3. QED BY <1>4, <1>b, <2>2 DEF BeginPending
<1>5. ASSUME NEW c \in Conn, CommitReclaim(c) PROVE LeasesInOrder'
  <2>1. /\ \A d \in Conn : d # c => txn'[d] = txn[d]
        /\ txn'[c].kind = "closed"
    BY <1>5, <1>a DEF CommitReclaim
  <2>2. \A d \in Open("claim")' : d \in Open("claim") /\ txn'[d] = txn[d]
    BY <2>1 DEF Open
  <2>3. \A j \in Job : status'[j] = "solving" => status[j] = "solving" /\ expires'[j] = expires[j]
    BY <1>5 DEF CommitReclaim, StatusAfterReclaim
  <2>4. UNCHANGED <<clock, leases, lastServed>>
    BY <1>5 DEF CommitReclaim
  <2>5. QED BY <1>b, <2>2, <2>3, <2>4
<1>6. ASSUME NEW c \in Conn, Rollback(c) PROVE LeasesInOrder'
  <2>1. /\ \A d \in Conn : d # c => txn'[d] = txn[d]
        /\ txn'[c].kind = "closed"
    BY <1>6, <1>a DEF Rollback
  <2>2. \A d \in Open("claim")' : d \in Open("claim") /\ txn'[d] = txn[d]
    BY <2>1 DEF Open
  <2>3. QED BY <1>6, <1>b, <2>2 DEF Rollback
<1>7. ASSUME NEW l \in leases, NEW now \in Now, Heartbeat(l, now) PROVE LeasesInOrder'
  <2>1. now \in Nat /\ clock <= now + Lag
    BY FreshReading
  <2>2. PICK new : new = [l EXCEPT !.until = now + LeaseSpan]
    OBVIOUS
  <2>3. new.job = l.job /\ new.at = l.at /\ new.until = now + LeaseSpan
    BY <2>2 DEF TypeOK, Lease
  <2>4. /\ leases' = (leases \ {l}) \cup {new} /\ expires' = [expires EXCEPT ![l.job] = now + LeaseSpan]
        /\ UNCHANGED <<clock, status, lastServed, txn>>
    BY <1>7, <2>2 DEF Heartbeat
  <2>5. \A m \in leases' : /\ m.at <= clock
                           /\ m.at <= lastServed[OwnerOf[m.job]] + Lag
                           /\ \A c \in Open("claim") : m.at <= txn[c].now + Lag
    BY <2>3, <2>4 DEF LeasesInOrder
  <2>6. ASSUME NEW j \in Job, status[j] = "solving"
        PROVE  \E m \in leases' : m.job = j /\ m.until = expires'[j]
    <3>1. CASE j = l.job
      BY <1>a, <2>3, <2>4, <3>1
    <3>2. CASE j # l.job
      <4>1. PICK m \in leases : m.job = j /\ m.until = expires[j]
        BY <2>6 DEF LeasesInOrder
      <4>2. m \in leases' /\ expires'[j] = expires[j]
        BY <1>a, <2>4, <3>2, <4>1
      <4>3. QED BY <4>1, <4>2
    <3>3. QED BY <3>1, <3>2
  <2>7. ASSUME NEW c \in Open("claim"), NEW j \in Job, status[j] = "solving",
               expires'[j] + Lag <= txn[c].now
        PROVE  j \in txn[c].expired
    <3>1. CASE j = l.job
      <4>1. expires'[j] = now + LeaseSpan
        BY <1>a, <2>4, <3>1
      <4>2. txn[c].now <= clock /\ txn[c].now \in Nat
        BY <1>a DEF ClaimsInOrder, Open
      <4>3. QED BY <1>a, <2>1, <2>7, <4>1, <4>2
    <3>2. CASE j # l.job
      BY <1>a, <2>4, <2>7, <3>2 DEF LeasesInOrder
    <3>3. QED BY <3>1, <3>2
  <2>8. Open("claim")' = Open("claim")
    BY <2>4 DEF Open
  <2>9. QED BY <2>4, <2>5, <2>6, <2>7, <2>8 DEF LeasesInOrder
<1>8. ASSUME NEW l \in leases, NEW end \in Terminal, NEW now \in Now, Complete(l, end, now)
      PROVE LeasesInOrder'
  <2>1. /\ status' = [status EXCEPT ![l.job] = end] /\ expires' = [expires EXCEPT ![l.job] = 0]
        /\ UNCHANGED <<clock, leases, lastServed, txn>>
    BY <1>8 DEF Complete
  <2>2. \A j \in Job : status'[j] = "solving" => status[j] = "solving" /\ expires'[j] = expires[j]
    BY <1>a, <2>1 DEF TypeOK, Terminal
  <2>3. \A c \in Open("claim")' : c \in Open("claim") /\ txn'[c] = txn[c]
    BY <2>1 DEF Open
  <2>4. QED BY <1>b, <2>1, <2>2, <2>3
<1>9. ASSUME NEW j \in Job, NEW license \in License, DonateValidation(j, license)
      PROVE LeasesInOrder'
  BY <1>9, <1>b DEF DonateValidation, Open
<1>10. ASSUME NEW j \in Job, MarkNotificationDelivered(j) PROVE LeasesInOrder'
  BY <1>10, <1>b DEF MarkNotificationDelivered, Open
<1>11. CASE Tick
  <2>1. clock' = clock + 1 /\ UNCHANGED <<leases, status, expires, lastServed, txn>>
    BY <1>11 DEF Tick
  <2>2. \A l \in leases : l.at <= clock'
    BY <1>a, <2>1 DEF LeasesInOrder
  <2>3. QED BY <2>1, <2>2 DEF LeasesInOrder, Open
<1>12. CASE UNCHANGED vars
  BY <1>12, <1>b DEF vars, Open
<1>13. QED
  BY <1>1, <1>2, <1>3, <1>4, <1>5, <1>6, <1>7, <1>8, <1>9, <1>10, <1>11, <1>12 DEF Next

(* No owner gets ahead twice: a second claim for it would find the waiting   *)
(* job among its candidates and a longer wait on its side.                   *)
LEMMA ServedAheadOnceStep ==
    ASSUME Scheduled, TypeOK, ClaimsInOrder, LeasesInOrder, ServedAheadOnce, [Next]_vars
    PROVE  ServedAheadOnce'
<1> USE JobQueueAssumptions
<1>a. /\ clock \in Nat /\ lastServed \in [Owner -> Nat] /\ created \in [Job -> Nat]
      /\ status \in [Job -> Status] /\ txn \in [Conn -> Txn] /\ \A c \in Conn : txn[c].now \in Nat
      /\ LeaseSpan \in Nat \ {0} /\ expires \in [Job -> Nat]
      /\ \A l \in leases : l.job \in Job /\ l.at \in Nat /\ l.until \in Nat
      /\ \A j \in Job : OwnerOf[j] \in Owner
  BY LeaseSpanType DEF TypeOK, Txn, Lease
(* Steps that hand out no lease and leave unfinished jobs as they came.      *)
<1>b. ASSUME UNCHANGED <<created, leases, lastServed>>,
             \A j \in Job : status'[j] \in {"queued", "solving"} =>
                status[j] \in {"queued", "solving"}
      PROVE  ServedAheadOnce'
  BY <1>b DEF ServedAheadOnce, ServedAhead
<1>1. ASSUME NEW j \in Job, NEW now \in Now, Enqueue(j, now) PROVE ServedAheadOnce'
  <2>1. now \in Nat /\ clock <= now + Lag
    BY FreshReading
  <2>2. /\ created' = [created EXCEPT ![j] = now] /\ status' = [status EXCEPT ![j] = "queued"]
        /\ UNCHANGED <<leases, lastServed>>
    BY <1>1 DEF Enqueue
  <2>3. SUFFICES ASSUME NEW i \in Job, NEW o \in Owner,
                        status'[i] \in {"queued", "solving"}, o # OwnerOf[i],
                        NEW l \in ServedAhead(o, i)', NEW m \in ServedAhead(o, i)'
                 PROVE  l = m
    BY DEF ServedAheadOnce
  <2>4. CASE i = j
    <3>1. l \in leases /\ l.at > now + Lag
      BY <1>a, <2>2, <2>3, <2>4 DEF ServedAhead
    <3>2. l.at \in Nat /\ l.at <= clock
      BY <1>a, <3>1 DEF LeasesInOrder
    <3>3. QED BY <1>a, <2>1, <3>1, <3>2
  <2>5. CASE i # j
    <3>1. created'[i] = created[i] /\ status'[i] = status[i]
      BY <1>a, <2>2, <2>5
    <3>2. l \in ServedAhead(o, i) /\ m \in ServedAhead(o, i)
      BY <2>2, <2>3, <3>1 DEF ServedAhead
    <3>3. QED BY <2>3, <3>1, <3>2 DEF ServedAheadOnce
  <2>6. QED BY <2>4, <2>5
<1>2. ASSUME NEW c \in Conn, NEW want \in Requested, NEW now \in Now, BeginClaim(c, want, now)
      PROVE ServedAheadOnce'
  BY <1>2, <1>b DEF BeginClaim
<1>3. ASSUME NEW c \in Conn, NEW k \in Job, GrantClaim(c, k) PROVE ServedAheadOnce'
  <2>1. c \in Open("claim") /\ OwnerOf[k] \in Owner /\ k \in Candidates(c)
    BY <1>3 DEF GrantClaim, Open
  <2>2. PICK now : now = txn[c].now
    OBVIOUS
  <2>3. now \in Nat /\ \A l \in leases : l.at <= now + Lag
    BY <1>a, <2>1, <2>2 DEF LeasesInOrder, Open
  <2>4. PICK new : new = [job |-> k, token |-> tokens + 1, at |-> now, until |-> now + LeaseSpan]
    OBVIOUS
  <2>5. new.job = k /\ new.at = now
    BY <2>4
  <2>6. /\ leases' = leases \cup {new} /\ lastServed' = [lastServed EXCEPT ![OwnerOf[k]] = now]
        /\ created' = created
    BY <1>3, <2>2, <2>4 DEF GrantClaim
  <2>8. \A i \in Job : status'[i] \in {"queued", "solving"} =>
           status[i] \in {"queued", "solving"}
    <3>1. /\ \A i \in Reclaimed(c) : status[i] = "solving"
          /\ status[k] = "queued" \/ k \in Reclaimed(c)
      BY <2>1, ReclaimedIsSolving, CandidateIsQueued
    <3>2. \A i \in Job : i # k => status'[i] = IF i \in Reclaimed(c) THEN "queued" ELSE status[i]
      BY <1>3 DEF GrantClaim, StatusAfterReclaim
    <3>3. QED BY <3>1, <3>2
  (* A lease that was ahead is still one of those that were. *)
  <2>9. ASSUME NEW i \in Job, NEW o \in Owner, NEW l \in ServedAhead(o, i)', l # new
        PROVE  l \in ServedAhead(o, i)
    <3>1. /\ l \in leases /\ OwnerOf[l.job] = o /\ WeightOf[l.job] <= WeightOf[i]
          /\ l.at > created[i] + Lag /\ l.at > lastServed'[OwnerOf[i]] + Lag
          /\ \A m \in leases : m.job = i => m.until + Lag <= l.at
      BY <2>6, <2>9 DEF ServedAhead
    <3>2. l.at > lastServed[OwnerOf[i]] + Lag
      <4>1. CASE OwnerOf[i] = OwnerOf[k]
        <5>1. lastServed'[OwnerOf[i]] = now
          BY <1>a, <2>1, <2>6, <4>1
        <5>2. l.at <= now + Lag /\ l.at \in Nat /\ l.at > now + Lag
          BY <1>a, <2>3, <3>1, <5>1
        <5>3. QED BY <2>3, <5>2
      <4>2. CASE OwnerOf[i] # OwnerOf[k]
        BY <1>a, <2>6, <3>1, <4>2
      <4>3. QED BY <4>1, <4>2
    <3>3. QED BY <3>1, <3>2 DEF ServedAhead
  (* The new lease cannot join another. *)
  <2>10. ASSUME NEW i \in Job, NEW o \in Owner, status'[i] \in {"queued", "solving"},
                o # OwnerOf[i], new \in ServedAhead(o, i)', NEW l \in ServedAhead(o, i)
         PROVE  FALSE
    <3>1. /\ OwnerOf[k] = o /\ WeightOf[k] <= WeightOf[i]
          /\ now > lastServed'[OwnerOf[i]] + Lag
          /\ \A m \in leases : m.job = i => m.until + Lag <= now
      BY <2>5, <2>6, <2>10 DEF ServedAhead
    <3>2. l \in leases /\ OwnerOf[l.job] = o /\ l.at > lastServed[OwnerOf[i]] + Lag
      BY <2>10 DEF ServedAhead
    <3>3. l.at <= lastServed[o] + Lag
      BY <3>2 DEF LeasesInOrder
    <3>7. lastServed[OwnerOf[i]] <= now
      <4>1. lastServed'[OwnerOf[i]] = lastServed[OwnerOf[i]] /\ lastServed[OwnerOf[i]] \in Nat
        BY <1>a, <2>6, <2>10, <3>1
      <4>2. QED BY <2>3, <3>1, <4>1
    <3>4. lastServed[OwnerOf[i]] < lastServed[OwnerOf[k]]
      <4>1. l.at \in Nat /\ lastServed[o] \in Nat /\ lastServed[OwnerOf[i]] \in Nat
        BY <1>a, <3>2
      <4>2. QED BY <3>1, <3>2, <3>3, <4>1
    <3>5. StatusAfterReclaim(c)[i] = "queued"
      <4>1. CASE status[i] = "queued"
        BY <4>1 DEF StatusAfterReclaim
      <4>2. CASE status[i] = "solving"
        <5>1. PICK m \in leases : m.job = i /\ m.until = expires[i]
          BY <4>2 DEF LeasesInOrder
        <5>2. expires[i] + Lag <= now
          BY <3>1, <5>1
        <5>3. i \in txn[c].expired
          BY <2>1, <2>2, <4>2, <5>2 DEF LeasesInOrder
        <5>4. QED BY <4>2, <5>3 DEF StatusAfterReclaim, Reclaimed
      <4>3. QED BY <2>8, <2>10, <4>1, <4>2
    <3>6. QED BY <2>1, <2>2, <3>1, <3>4, <3>5, <3>7, LongerWaitGoesFirst
  <2>11. SUFFICES ASSUME NEW i \in Job, NEW o \in Owner,
                         status'[i] \in {"queued", "solving"}, o # OwnerOf[i],
                         NEW l \in ServedAhead(o, i)', NEW m \in ServedAhead(o, i)', l # m
                  PROVE  FALSE
    BY DEF ServedAheadOnce
  <2>12. CASE l = new
    BY <2>9, <2>10, <2>11, <2>12
  <2>13. CASE m = new
    BY <2>9, <2>10, <2>11, <2>13
  <2>14. CASE l # new /\ m # new
    <3>1. l \in ServedAhead(o, i) /\ m \in ServedAhead(o, i)
      BY <2>9, <2>11, <2>14
    <3>2. QED BY <2>8, <2>11, <3>1 DEF ServedAheadOnce
  <2>15. QED BY <2>12, <2>13, <2>14
<1>4. ASSUME NEW c \in Conn, NEW now \in Now, BeginPending(c, now) PROVE ServedAheadOnce'
  BY <1>4, <1>b DEF BeginPending
<1>5. ASSUME NEW c \in Conn, CommitReclaim(c) PROVE ServedAheadOnce'
  <2>1. \A i \in Reclaimed(c) : status[i] = "solving"
    BY ReclaimedIsSolving
  <2>2. QED BY <1>5, <1>b, <2>1 DEF CommitReclaim, StatusAfterReclaim
<1>6. ASSUME NEW c \in Conn, Rollback(c) PROVE ServedAheadOnce'
  BY <1>6, <1>b DEF Rollback
<1>7. ASSUME NEW r \in leases, NEW now \in Now, Heartbeat(r, now) PROVE ServedAheadOnce'
  <2>1. now \in Nat /\ clock <= now + Lag
    BY FreshReading
  <2>2. PICK new : new = [r EXCEPT !.until = now + LeaseSpan]
    OBVIOUS
  <2>3. new.job = r.job /\ new.at = r.at /\ new.until = now + LeaseSpan
    BY <2>2 DEF TypeOK, Lease
  <2>4. leases' = (leases \ {r}) \cup {new} /\ UNCHANGED <<status, created, lastServed>>
    BY <1>7, <2>2 DEF Heartbeat
  (* A lease that is ahead now was ahead before it was renewed, and no lease  *)
  (* is ahead of the job whose lease is renewed.                              *)
  <2> DEFINE Was(l) == IF l \in leases \ {r} THEN l ELSE r
  <2>6. ASSUME NEW i \in Job, NEW o \in Owner, NEW l \in ServedAhead(o, i)'
        PROVE  Was(l) \in ServedAhead(o, i)
    <3>1. PICK w : w = Was(l)
      OBVIOUS
    <3>2. w \in leases /\ w.job = l.job /\ w.at = l.at
      BY <2>3, <2>4, <2>6, <3>1 DEF ServedAhead
    <3>3. /\ OwnerOf[l.job] = o /\ WeightOf[l.job] <= WeightOf[i]
          /\ l.at > created[i] + Lag /\ l.at > lastServed[OwnerOf[i]] + Lag
          /\ \A m \in leases' : m.job = i => m.until + Lag <= l.at
      BY <2>4, <2>6 DEF ServedAhead
    <3>4. ASSUME NEW m \in leases, m.job = i PROVE m.until + Lag <= l.at
      <4>1. CASE m # r
        BY <2>4, <3>3, <3>4, <4>1
      <4>2. CASE m = r
        <5>1. new.until + Lag <= l.at
          BY <2>3, <2>4, <3>3, <3>4, <4>2
        <5>2. l.at \in Nat /\ l.at <= clock
          BY <1>a, <3>2 DEF LeasesInOrder
        <5>3. QED BY <1>a, <2>1, <2>3, <5>1, <5>2
      <4>3. QED BY <4>1, <4>2
    <3>5. w \in ServedAhead(o, i)
      BY <3>2, <3>3, <3>4 DEF ServedAhead
    <3>6. QED BY <3>1, <3>5
  <2>7. ASSUME NEW i \in Job, NEW o \in Owner, status[i] \in {"queued", "solving"}, o # OwnerOf[i],
               NEW l \in ServedAhead(o, i)', NEW m \in ServedAhead(o, i)'
        PROVE  l = m
    <3>1. Was(l) = Was(m)
      BY <2>6, <2>7 DEF ServedAheadOnce
    <3>2. l \in leases' /\ m \in leases'
      BY <2>7 DEF ServedAhead
    <3>3. QED BY <2>4, <3>1, <3>2
  <2>8. QED BY <2>4, <2>7 DEF ServedAheadOnce
<1>8. ASSUME NEW l \in leases, NEW end \in Terminal, NEW now \in Now, Complete(l, end, now)
      PROVE ServedAheadOnce'
  <2>1. status' = [status EXCEPT ![l.job] = end] /\ UNCHANGED <<created, leases, lastServed>>
    BY <1>8 DEF Complete
  <2>2. \A i \in Job : status'[i] \in {"queued", "solving"} => status[i] \in {"queued", "solving"}
    BY <1>a, <2>1 DEF Terminal
  <2>3. QED BY <1>b, <2>1, <2>2
<1>9. ASSUME NEW j \in Job, NEW license \in License, DonateValidation(j, license)
      PROVE ServedAheadOnce'
  BY <1>9, <1>b DEF DonateValidation
<1>10. ASSUME NEW j \in Job, MarkNotificationDelivered(j) PROVE ServedAheadOnce'
  BY <1>10, <1>b DEF MarkNotificationDelivered
<1>11. CASE Tick
  BY <1>11, <1>b DEF Tick
<1>12. CASE UNCHANGED vars
  BY <1>12, <1>b DEF vars
<1>13. QED
  BY <1>1, <1>2, <1>3, <1>4, <1>5, <1>6, <1>7, <1>8, <1>9, <1>10, <1>11, <1>12 DEF Next

(* Fair scheduling, on either dialect, for any weights and any lease length, *)
(* and however long (up to Lag) a claim waits between reading its time and    *)
(* holding the lock: while a job waits, no other owner is served twice ahead *)
(* of it with jobs of no greater weight.                                     *)
THEOREM NoOwnerOvertakenTwiceHolds ==
    ASSUME Scheduled
    PROVE  Spec => []NoOwnerOvertakenTwice
<1>1. Init => ClaimsInOrder /\ LeasesInOrder /\ ServedAheadOnce
  BY JobQueueAssumptions
  DEF Init, ClaimsInOrder, LeasesInOrder, ServedAheadOnce, ServedAhead, Open, Closed, NeverServed
<1>2. TypeOK /\ ClaimsInOrder /\ LeasesInOrder /\ ServedAheadOnce /\ [Next]_vars
        => (ClaimsInOrder /\ LeasesInOrder /\ ServedAheadOnce)'
  BY ClaimsInOrderStep, LeasesInOrderStep, ServedAheadOnceStep
<1>3. ServedAheadOnce => NoOwnerOvertakenTwice
  <2>1. SUFFICES ASSUME ServedAheadOnce, NEW j \in Job, NEW o \in Owner,
                        status[j] = "queued", o # OwnerOf[j], NEW S, S = ServedAhead(o, j)
                 PROVE  Cardinality(S) <= 1
    BY DEF NoOwnerOvertakenTwice
  <2>2. \A l, m \in S : l = m
    BY <2>1 DEF ServedAheadOnce
  <2>3. CASE S = {}
    <3>1. Cardinality(S) = 0
      BY <2>3, FS_EmptySet
    <3>2. QED BY <3>1
  <2>4. CASE S # {}
    <3>1. PICK l : S = {l}
      BY <2>2, <2>4
    <3>2. Cardinality(S) = 1
      BY <3>1, FS_Singleton
    <3>3. QED BY <3>2
  <2>5. QED BY <2>3, <2>4
<1>4. QED
  BY <1>1, <1>2, <1>3, TypeCorrect, PTL DEF Spec
=============================================================================
