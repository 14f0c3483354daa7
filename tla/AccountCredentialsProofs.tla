----------------------- MODULE AccountCredentialsProofs ---------------------
(***************************************************************************)
(* Proofs about the credentials of an account, for any number of requests,   *)
(* sessions, keys, passkeys and ceremonies, on both kinds of store.          *)
(***************************************************************************)
EXTENDS AccountCredentials, FiniteSetTheorems, WellFoundedInduction, TLAPS

-----------------------------------------------------------------------------
(* The invariant.                                                            *)

Pcs == {"idle", "account", "key", "touch", "allowed", "sweep", "list", "recycle",
        "register", "unlink", "credential", "passkey", "assert", "done"}

RequestState ==
    [pc : Pcs, op : Ops, s : 0..MaxSession, key : Key \cup {None},
     pk : Passkey \cup {None}, cer : Ceremony \cup {None}, todo : SUBSET Sessions,
     cut : {"no", "session", "key", "account"}]

(* The steps of authentication, and the operations that come with a session. *)
Entering == {"account", "key", "touch", "allowed"}
SessionOps == BrowserOps \cup {"astrometry"}

(* What a request has in hand at each of its steps.                          *)
Carries(x) ==
    /\ x \in RequestState
    /\ x.pc \in Entering => x.op # "sign_in"
    /\ x.pc \in Entering /\ x.op \in SessionOps => x.s \in Sessions
    /\ x.pc \in Entering /\ x.op \notin BrowserOps => x.key \in Key
    /\ x.pc = "key" => x.op = "astrometry"
    /\ x.pc = "touch" => x.op \in SessionOps
    /\ x.pc \in {"list", "recycle"} => x.key \in Key
    /\ x.pc = "recycle" => x.s \in Sessions
    /\ x.pc \in {"register", "credential", "passkey", "assert"} => x.cer \in Ceremony
    /\ x.pc \in {"unlink", "passkey", "assert"} => x.pk \in Passkey

StoreTypes ==
    /\ active \in BOOLEAN
    /\ session \in [Sessions -> AuthSession]
    /\ minted \in 0..MaxSession
    /\ key \in [Key -> {"none", "live", "revoked"}]
    /\ ended \subseteq Sessions
    /\ rush \in [Key -> Nat]

PasskeyTypes ==
    /\ passkey \in [Passkey -> PasskeyCredential]
    /\ \A p \in Passkey : passkey[p].row # "none" => passkey[p].cred \in Credential
    /\ lookup \in [Credential -> Passkey \cup {None}]
    /\ ceremony \in [Ceremony -> AuthChallenge]

RequestTypes == req \in [Request -> RequestState] /\ \A r \in Request : Carries(req[r])

Types ==
    /\ backend \in Backends /\ workload \in Workloads
    /\ StoreTypes /\ PasskeyTypes /\ RequestTypes

(* What a request knows of the store and what stays true until it acts: the  *)
(* rows it named exist; a request whose credential was dead when it arrived  *)
(* is still waiting for the read that will turn it away.                     *)
Knows(x) ==
    /\ x.pc \in Entering /\ x.op \in SessionOps => session[x.s].row # "none"
    /\ \A s \in x.todo : session[s].row # "none"
    /\ x.key # None => key[x.key] # "none"
    /\ \/ x.cut = "no"
       \/ /\ x.cut = "key" /\ x.pc \in {"account", "key"} /\ x.op = "astrometry"
          /\ key[x.key] = "revoked"
       \/ /\ x.cut = "account" /\ ~active
          /\ x.pc \in {"account", "credential", "passkey", "assert"}

RequestsKnow == \A r \in Request : Knows(req[r])

(* A session is dead once it is revoked or deleted.                          *)
Dead(s) == session[s].row = "gone" \/ (session[s].row = "stored" /\ session[s].revoked)

EndedAreDead == \A s \in ended : Dead(s)

KeysKnown == \A s \in Sessions : session[s].key # None => key[session[s].key] # "none"

(* The rank a login drew is nobody else's, and its row is still to come.     *)
Waiting(r) == req[r].pc = "recycle"
RanksFresh ==
    /\ \A s \in Sessions : s > minted => session[s].row = "none"
    /\ \A r \in Request : Waiting(r) => req[r].s <= minted /\ session[req[r].s].row = "none"
    /\ \A q, r \in Request : Waiting(q) /\ Waiting(r) /\ req[q].s = req[r].s => q = r

CredentialInv == RequestsKnow /\ EndedAreDead /\ KeysKnown /\ RanksFresh

(* Live passkeys belong to different authenticators; on DynamoDB an          *)
(* authenticator's lookup item and its live passkey name each other.         *)
PasskeysDiffer ==
    \A p, q \in LivePasskeys : passkey[p].cred = passkey[q].cred => p = q
LookupsLead ==
    backend = "dynamodb" =>
        /\ \A p \in LivePasskeys : lookup[passkey[p].cred] = p
        /\ \A x \in Credential : lookup[x] # None =>
             lookup[x] \in LivePasskeys /\ passkey[lookup[x]].cred = x

PasskeyInv == PasskeysDiffer /\ LookupsLead

-----------------------------------------------------------------------------
(* What the steps do to the store.                                           *)

(* Rows stay, the dead stay dead, the account and the keys only close.       *)
RowsAge ==
    \A s \in Sessions : session[s].row # "none" =>
        session'[s].row # "none" /\ session'[s].key = session[s].key /\ (Dead(s) => Dead(s)')

KeysAge ==
    \A k \in Key : /\ key[k] # "none" => key'[k] # "none"
                   /\ key[k] = "revoked" => key'[k] = "revoked"

StoreAges ==
    /\ backend' = backend /\ workload' = workload /\ StoreTypes'
    /\ (~active => ~active') /\ minted' >= minted
    /\ RowsAge /\ KeysAge /\ EndedAreDead' /\ KeysKnown'

NoNewRows == \A s \in Sessions : session[s].row = "none" => session'[s].row = "none"

(* Rows only fade: no row appears, none gets another key.                    *)
RowsFade ==
    /\ session' \in [Sessions -> AuthSession]
    /\ \A s \in Sessions : /\ session'[s].row = "none" <=> session[s].row = "none"
                           /\ session'[s].key = session[s].key
                           /\ Dead(s) => Dead(s)'

LEMMA FadingAges ==
    ASSUME Types, CredentialInv, RowsFade, UNCHANGED <<backend, workload, active, minted, key, rush>>,
           ended' \subseteq Sessions, \A s \in ended' : s \in ended \/ Dead(s)'
    PROVE  StoreAges /\ NoNewRows
<1>1. StoreTypes' /\ minted' >= minted /\ KeysAge
  BY DEF Types, StoreTypes, RowsFade, KeysAge
<1>2. RowsAge /\ NoNewRows
  BY DEF RowsFade, RowsAge, NoNewRows
<1>3. EndedAreDead'
  BY DEF CredentialInv, EndedAreDead, RowsFade, Types, StoreTypes
<1>4. KeysKnown'
  BY DEF CredentialInv, KeysKnown, RowsFade
<1>5. QED BY <1>1, <1>2, <1>3, <1>4 DEF StoreAges

LEMMA StoreStays ==
    ASSUME Types, CredentialInv,
           UNCHANGED <<backend, workload, active, session, minted, key, ended>>, rush' \in [Key -> Nat]
    PROVE  StoreAges /\ NoNewRows
<1>1. StoreTypes' /\ minted' >= minted /\ KeysAge
  BY DEF Types, StoreTypes, KeysAge
<1>2. RowsAge /\ NoNewRows
  BY DEF RowsAge, NoNewRows, Dead
<1>3. EndedAreDead'
  BY DEF CredentialInv, EndedAreDead, Dead
<1>4. KeysKnown'
  BY DEF CredentialInv, KeysKnown
<1>5. QED BY <1>1, <1>2, <1>3, <1>4 DEF StoreAges

(* A revocation.                                                             *)
LEMMA RevokedFades ==
    ASSUME Types, NEW S, session' = Revoked(S)
    PROVE  RowsFade /\ \A s \in Sessions : s \in S /\ session[s].row # "none" => Dead(s)'
<1>1. session \in [Sessions -> AuthSession]
  BY DEF Types, StoreTypes
<1>2. ASSUME NEW s \in Sessions
      PROVE  /\ session'[s] \in AuthSession
             /\ session'[s].row = session[s].row /\ session'[s].key = session[s].key
             /\ session[s].revoked => session'[s].revoked
             /\ s \in S /\ session[s].row = "stored" => session'[s].revoked
  <2>1. session'[s] = IF s \in S /\ session[s].row = "stored"
                        THEN [session[s] EXCEPT !.revoked = TRUE] ELSE session[s]
    BY DEF Revoked
  <2>2. session[s] \in AuthSession
    BY <1>1
  <2>3. CASE s \in S /\ session[s].row = "stored"
    BY <2>1, <2>2, <2>3 DEF AuthSession
  <2>4. CASE ~(s \in S /\ session[s].row = "stored")
    BY <2>1, <2>2, <2>4
  <2>5. QED BY <2>3, <2>4
<1>3. session' \in [Sessions -> AuthSession]
  BY <1>2 DEF Revoked
<1>4. \A s \in Sessions : s \in S /\ session[s].row # "none" => Dead(s)'
  <2>1. SUFFICES ASSUME NEW s \in Sessions, s \in S, session[s].row # "none" PROVE Dead(s)'
    OBVIOUS
  <2>2. session[s].row \in {"stored", "gone"}
    BY <1>1, <2>1 DEF AuthSession
  <2>3. QED BY <1>2, <2>1, <2>2 DEF Dead
<1>5. \A s \in Sessions : Dead(s) => Dead(s)'
  BY <1>2 DEF Dead
<1>6. QED BY <1>2, <1>3, <1>4, <1>5 DEF RowsFade

(* A row is deleted.                                                         *)
LEMMA DeletionFades ==
    ASSUME Types, NEW s \in Sessions, session[s].row # "none",
           session' = [session EXCEPT ![s].row = "gone"]
    PROVE  RowsFade
<1>1. session \in [Sessions -> AuthSession] /\ session[s] \in AuthSession
  BY DEF Types, StoreTypes
<1>2. PICK x : x = [session[s] EXCEPT !.row = "gone"]
  OBVIOUS
<1>3. x \in AuthSession /\ x.row = "gone" /\ x.key = session[s].key
  BY <1>1, <1>2 DEF AuthSession
<1>4. session' = [session EXCEPT ![s] = x]
  BY <1>1, <1>2
<1>5. QED BY <1>1, <1>3, <1>4 DEF RowsFade, Dead

(* A row's expiry changes.                                                   *)
LEMMA ExpiryFades ==
    ASSUME Types, NEW s \in Sessions, NEW x \in AuthSession,
           x.row = session[s].row, x.key = session[s].key, x.revoked <=> session[s].revoked,
           session' = [session EXCEPT ![s] = x]
    PROVE  RowsFade
<1>1. session \in [Sessions -> AuthSession]
  BY DEF Types, StoreTypes
<1>2. QED BY <1>1 DEF RowsFade, Dead

(* A row is inserted where there was none.                                   *)
LEMMA InsertAges ==
    ASSUME Types, CredentialInv, NEW n \in Sessions, session[n].row = "none", NEW k \in Key \cup {None},
           k # None => key[k] # "none", session' = [session EXCEPT ![n] = NewSession(k)],
           minted' \in 0..MaxSession, minted' >= minted,
           UNCHANGED <<backend, workload, active, key, ended, rush>>
    PROVE  /\ StoreAges
           /\ \A s \in Sessions : session[s].row = "none" /\ session'[s].row # "none" => s = n
<1>1. session \in [Sessions -> AuthSession]
  BY DEF Types, StoreTypes
<1>2. PICK x : x = NewSession(k)
  OBVIOUS
<1>3. x \in AuthSession /\ x.row = "stored" /\ x.key = k
  BY <1>2 DEF NewSession, AuthSession
<1>4. session' = [session EXCEPT ![n] = x]
  BY <1>2
<1>5. /\ session' \in [Sessions -> AuthSession] /\ session'[n] = x
      /\ \A s \in Sessions : s # n => session'[s] = session[s]
  BY <1>1, <1>3, <1>4
<1>6. StoreTypes' /\ KeysAge
  BY <1>5 DEF Types, StoreTypes, KeysAge
<1>7. RowsAge
  BY <1>5 DEF RowsAge, Dead
<1>8. EndedAreDead'
  <2>1. n \notin ended
    BY DEF CredentialInv, EndedAreDead, Dead
  <2>2. QED BY <1>5, <2>1 DEF CredentialInv, EndedAreDead, Dead, Types, StoreTypes
<1>9. KeysKnown'
  BY <1>3, <1>5 DEF CredentialInv, KeysKnown
<1>10. QED BY <1>5, <1>6, <1>7, <1>8, <1>9 DEF StoreAges

(* A key is created or revoked.                                              *)
LEMMA KeyAges ==
    ASSUME Types, CredentialInv, NEW k \in Key, NEW v \in {"live", "revoked"},
           key[k] = "none" \/ v = "revoked", key' = [key EXCEPT ![k] = v],
           RowsFade, UNCHANGED <<backend, workload, active, minted, ended, rush>>
    PROVE  StoreAges /\ NoNewRows
<1>1. /\ key' \in [Key -> {"none", "live", "revoked"}] /\ key'[k] = v
      /\ \A l \in Key : l # k => key'[l] = key[l]
  BY DEF Types, StoreTypes
<1>2. KeysAge
  BY <1>1 DEF KeysAge
<1>3. StoreTypes'
  BY <1>1 DEF Types, StoreTypes, RowsFade
<1>4. RowsAge /\ NoNewRows
  BY DEF RowsFade, RowsAge, NoNewRows
<1>5. EndedAreDead'
  BY DEF CredentialInv, EndedAreDead, RowsFade, Types, StoreTypes
<1>6. KeysKnown'
  <2>1. SUFFICES ASSUME NEW s \in Sessions, session'[s].key # None
                 PROVE  key'[session'[s].key] # "none"
    BY DEF KeysKnown
  <2>2. session'[s].key = session[s].key /\ session[s].key \in Key
    BY <2>1 DEF RowsFade, Types, StoreTypes, AuthSession
  <2>3. QED BY <1>2, <2>1, <2>2 DEF KeysAge, CredentialInv, KeysKnown
<1>7. QED BY <1>2, <1>3, <1>4, <1>5, <1>6 DEF StoreAges, Types, StoreTypes

-----------------------------------------------------------------------------
(* What the steps do to the request that takes them.                         *)

Becomes(r, x) == req' = [req EXCEPT ![r] = x]

(* The request has been answered.                                            *)
Done(x) ==
    /\ x \in RequestState /\ x.pc = "done" /\ x.todo = {} /\ x.key = None /\ x.cut = "no"

(* The request goes on with what it has.                                     *)
GoesOn(r, x, pc) ==
    /\ x \in RequestState /\ x.pc = pc /\ x.op = req[r].op /\ x.s = req[r].s
    /\ x.key = req[r].key /\ x.pk = req[r].pk /\ x.cer = req[r].cer /\ x.todo = req[r].todo
    /\ x.cut = req[r].cut

LEMMA IdleState ==
    /\ Idle \in RequestState /\ Idle.pc = "idle" /\ Idle.op = "view" /\ Idle.s = 0
    /\ Idle.key = None /\ Idle.pk = None /\ Idle.cer = None /\ Idle.todo = {} /\ Idle.cut = "no"
BY AccountCredentialsAssumptions
   DEF Idle, RequestState, Pcs, Ops, BrowserOps, Sessions

LEMMA AtDone ==
    Done(At("done"))
BY IdleState DEF At, Done, RequestState, Pcs

LEMMA Refused ==
    ASSUME NEW r \in Request, Refuse(r)
    PROVE  \E x : Becomes(r, x) /\ Done(x)
BY AtDone DEF Refuse, Becomes

LEMMA Finished ==
    ASSUME NEW r \in Request, Finish(r), req[r].cut = "no"
    PROVE  \E x : Becomes(r, x) /\ Done(x)
<1>1. PICK y : y = At("done")
  OBVIOUS
<1>2. PICK x : x = [y EXCEPT !.cut = req[r].cut]
  OBVIOUS
<1>3. Done(y)
  BY <1>1, AtDone
<1>4. Done(x)
  BY <1>2, <1>3 DEF Done, RequestState
<1>5. Becomes(r, x)
  BY <1>1, <1>2 DEF Finish, Becomes
<1>6. QED BY <1>4, <1>5

LEMMA PcMoves ==
    ASSUME RequestTypes, NEW r \in Request, NEW p \in Pcs, req' = [req EXCEPT ![r].pc = p]
    PROVE  \E x : Becomes(r, x) /\ GoesOn(r, x, p)
<1>1. PICK x : x = [req[r] EXCEPT !.pc = p]
  OBVIOUS
<1>2. req \in [Request -> RequestState] /\ req[r] \in RequestState
  BY DEF RequestTypes
<1>3. GoesOn(r, x, p)
  BY <1>1, <1>2 DEF GoesOn, RequestState
<1>4. Becomes(r, x)
  BY <1>1, <1>2 DEF Becomes
<1>5. QED BY <1>3, <1>4

LEMMA LetIntoMoves ==
    ASSUME RequestTypes, NEW r \in Request, NEW p \in Pcs, LetInto(r, p),
           p = "allowed" => req[r].cut = "no"
    PROVE  \E x : Becomes(r, x) /\ (Done(x) \/ GoesOn(r, x, p))
<1>1. CASE Finish(r) /\ p = "allowed"
  <2>1. PICK x : Becomes(r, x) /\ Done(x)
    BY <1>1, Finished
  <2>2. QED BY <2>1
<1>2. CASE req' = [req EXCEPT ![r].pc = p]
  <2>1. PICK x : Becomes(r, x) /\ GoesOn(r, x, p)
    BY <1>2, PcMoves
  <2>2. QED BY <2>1
<1>3. QED BY <1>1, <1>2 DEF LetInto

-----------------------------------------------------------------------------
(* The invariant, from what a step does.                                     *)

(* Rows appear under the next rank or under the rank the request waited      *)
(* with, never while it goes on waiting.                                     *)
RankPart(r, x) ==
    /\ x.pc = "recycle" => \/ Waiting(r) /\ x.s = req[r].s
                           \/ x.s = minted + 1 /\ minted' = minted + 1
    /\ \A s \in Sessions : session[s].row = "none" /\ session'[s].row # "none" =>
         /\ x.pc # "recycle"
         /\ \/ s = minted + 1 /\ minted' = minted + 1
            \/ Waiting(r) /\ s = req[r].s

RequestPart ==
    \E r \in Request : \E x : Becomes(r, x) /\ Carries(x) /\ Knows(x)' /\ RankPart(r, x)

QuietPart == UNCHANGED <<req, minted>> /\ NoNewRows

PasskeyPart == PasskeyTypes' /\ PasskeyInv'

StepFacts == StoreAges /\ (RequestPart \/ QuietPart) /\ PasskeyPart

(* What a request knows stays true.                                          *)
LEMMA KnownStays ==
    ASSUME Types, StoreAges, NEW x, Carries(x), Knows(x)
    PROVE  Knows(x)'
<1>1. /\ x \in RequestState /\ x.key \in Key \cup {None} /\ x.todo \subseteq Sessions
      /\ x.pc \in Entering /\ x.op \in SessionOps => x.s \in Sessions
      /\ x.pc \in {"account", "key"} /\ x.op = "astrometry" => x.key \in Key
  BY DEF Carries, RequestState, Entering, BrowserOps
<1>2. x.pc \in Entering /\ x.op \in SessionOps => session'[x.s].row # "none"
  BY <1>1 DEF Knows, StoreAges, RowsAge
<1>3. \A s \in x.todo : session'[s].row # "none"
  BY <1>1 DEF Knows, StoreAges, RowsAge
<1>4. x.key # None => key'[x.key] # "none"
  BY <1>1 DEF Knows, StoreAges, KeysAge
<1>5. x.cut = "key" /\ x.pc \in {"account", "key"} /\ x.op = "astrometry" /\ key[x.key] = "revoked"
        => key'[x.key] = "revoked"
  BY <1>1 DEF StoreAges, KeysAge
<1>6. ~active => ~active'
  BY DEF StoreAges
<1>7. QED BY <1>2, <1>3, <1>4, <1>5, <1>6 DEF Knows

LEMMA TypesFollow ==
    ASSUME Types, StepFacts
    PROVE  Types'
<1>1. /\ backend' \in Backends /\ workload' \in Workloads /\ StoreTypes' /\ PasskeyTypes'
  BY DEF Types, StepFacts, StoreAges, PasskeyPart
<1>2. RequestTypes'
  <2>1. CASE RequestPart
    <3>1. PICK r \in Request : \E x : Becomes(r, x) /\ Carries(x) /\ Knows(x)' /\ RankPart(r, x)
      BY <2>1 DEF RequestPart
    <3>2. PICK x : Becomes(r, x) /\ Carries(x) /\ Knows(x)' /\ RankPart(r, x)
      BY <3>1
    <3>3. x \in RequestState /\ req' = [req EXCEPT ![r] = x] /\ req \in [Request -> RequestState]
      BY <3>2 DEF Carries, Becomes, Types, RequestTypes
    <3>4. /\ req' \in [Request -> RequestState] /\ req'[r] = x
          /\ \A q \in Request : q # r => req'[q] = req[q]
      BY <3>3
    <3>5. \A q \in Request : Carries(req'[q])
      BY <3>2, <3>4 DEF Types, RequestTypes
    <3>6. QED BY <3>4, <3>5 DEF RequestTypes, Carries
  <2>2. CASE QuietPart
    BY <2>2 DEF QuietPart, Types, RequestTypes, Carries
  <2>3. QED BY <2>1, <2>2 DEF StepFacts
<1>3. QED BY <1>1, <1>2 DEF Types

LEMMA RequestsKnowFollows ==
    ASSUME Types, CredentialInv, StepFacts
    PROVE  RequestsKnow'
<1>0. StoreAges /\ req \in [Request -> RequestState]
  BY DEF StepFacts, Types, RequestTypes
<1>1. ASSUME NEW q \in Request, req'[q] = req[q] PROVE Knows(req[q])'
  <2>1. Carries(req[q]) /\ Knows(req[q])
    BY DEF Types, RequestTypes, CredentialInv, RequestsKnow
  <2>2. PICK x : x = req[q]
    OBVIOUS
  <2>3. Knows(x)'
    BY <1>0, <2>1, <2>2, KnownStays
  <2>4. QED BY <1>1, <2>2, <2>3 DEF Knows
<1>2. CASE RequestPart
  <2>1. PICK r \in Request : \E x : Becomes(r, x) /\ Carries(x) /\ Knows(x)' /\ RankPart(r, x)
    BY <1>2 DEF RequestPart
  <2>2. PICK x : Becomes(r, x) /\ Carries(x) /\ Knows(x)' /\ RankPart(r, x)
    BY <2>1
  <2>3. req'[r] = x /\ \A q \in Request : q # r => req'[q] = req[q]
    BY <1>0, <2>2 DEF Becomes
  <2>4. Knows(req[r])'
    BY <2>2, <2>3 DEF Knows
  <2>5. QED BY <1>1, <2>3, <2>4 DEF RequestsKnow
<1>3. CASE QuietPart
  BY <1>1, <1>3 DEF QuietPart, RequestsKnow
<1>4. QED BY <1>2, <1>3 DEF StepFacts

LEMMA RanksFollow ==
    ASSUME Types, CredentialInv, StepFacts
    PROVE  RanksFresh'
<1>0. /\ minted \in Nat /\ minted' \in Nat /\ minted' >= minted
      /\ req \in [Request -> RequestState] /\ RanksFresh /\ Sessions \subseteq Nat
      /\ \A q \in Request : req[q].s \in Nat /\ (Waiting(q) => req[q].s \in Sessions)
  BY AccountCredentialsAssumptions
     DEF StepFacts, StoreAges, StoreTypes, Types, RequestTypes, CredentialInv, Sessions,
         RequestState, Carries, Waiting
<1>1. CASE RequestPart
  <2>1. PICK r \in Request : \E x : Becomes(r, x) /\ Carries(x) /\ Knows(x)' /\ RankPart(r, x)
    BY <1>1 DEF RequestPart
  <2>2. PICK x : Becomes(r, x) /\ Carries(x) /\ Knows(x)' /\ RankPart(r, x)
    BY <2>1
  <2>3. /\ req'[r] = x /\ \A q \in Request : q # r => req'[q] = req[q]
        /\ x.pc = "recycle" => x.s \in Sessions
    BY <1>0, <2>2 DEF Becomes, Carries
  <2>4. \A s \in Sessions : s > minted' => session'[s].row = "none"
    BY <1>0, <2>2 DEF RankPart, RanksFresh
  <2>5. Waiting(r)' => x.s <= minted' /\ session'[x.s].row = "none"
    BY <1>0, <2>2, <2>3 DEF RankPart, RanksFresh, Waiting
  <2>6. \A q \in Request : q # r /\ Waiting(q)' =>
            Waiting(q) /\ req'[q].s = req[q].s /\ req[q].s <= minted /\ session'[req[q].s].row = "none"
    <3>1. SUFFICES ASSUME NEW q \in Request, q # r, Waiting(q)'
                   PROVE  Waiting(q) /\ req'[q].s = req[q].s /\ req[q].s <= minted
                          /\ session'[req[q].s].row = "none"
      OBVIOUS
    <3>2. Waiting(q) /\ req'[q].s = req[q].s /\ req[q].s <= minted /\ req[q].s \in Sessions
      BY <1>0, <2>3, <3>1 DEF Waiting, RanksFresh
    <3>3. session[req[q].s].row = "none"
      BY <1>0, <3>2 DEF RanksFresh
    <3>4. req[q].s # minted + 1
      BY <1>0, <3>2
    <3>5. ~(Waiting(r) /\ req[q].s = req[r].s)
      BY <1>0, <3>1, <3>2 DEF RanksFresh
    <3>6. QED BY <2>2, <3>2, <3>3, <3>4, <3>5 DEF RankPart
  <2>7. \A q \in Request : q # r /\ Waiting(q)' /\ Waiting(r)' => req'[q].s # x.s
    BY <1>0, <2>2, <2>3, <2>6 DEF RankPart, RanksFresh, Waiting
  <2>8. \A p, q \in Request : p # r /\ q # r /\ Waiting(p)' /\ Waiting(q)' /\ req'[p].s = req'[q].s
            => p = q
    BY <1>0, <2>6 DEF RanksFresh
  <2>9. \A q \in Request : Waiting(q)' => req'[q].s <= minted' /\ session'[req'[q].s].row = "none"
    BY <1>0, <2>3, <2>5, <2>6
  <2>10. \A p, q \in Request : Waiting(p)' /\ Waiting(q)' /\ req'[p].s = req'[q].s => p = q
    BY <2>3, <2>7, <2>8
  <2>11. QED BY <2>4, <2>9, <2>10 DEF RanksFresh
<1>2. CASE QuietPart
  BY <1>0, <1>2 DEF QuietPart, NoNewRows, RanksFresh, Waiting
<1>3. QED BY <1>1, <1>2 DEF StepFacts

LEMMA InvFollows ==
    ASSUME Types, CredentialInv, StepFacts
    PROVE  CredentialInv' /\ PasskeyInv'
BY RequestsKnowFollows, RanksFollow DEF CredentialInv, StepFacts, StoreAges, PasskeyPart

-----------------------------------------------------------------------------
(* Requests that only read.                                                  *)

LEMMA DoneFits ==
    ASSUME NEW x, Done(x)
    PROVE  Carries(x) /\ Knows(x) /\ Knows(x)' /\ x.pc # "recycle"
BY DEF Done, Carries, Knows, Entering

LEMMA RequestStep ==
    ASSUME Types, CredentialInv, StoreAges, NoNewRows, PasskeyPart, NEW r \in Request, NEW x,
           Becomes(r, x), Carries(x), Knows(x), x.pc = "recycle" => Waiting(r) /\ x.s = req[r].s
    PROVE  StepFacts
<1>1. Knows(x)'
  BY KnownStays
<1>2. RankPart(r, x)
  BY DEF RankPart, NoNewRows
<1>3. QED BY <1>1, <1>2 DEF StepFacts, RequestPart

LEMMA AnswerStep ==
    ASSUME Types, CredentialInv, StoreAges, NoNewRows, PasskeyPart, NEW r \in Request,
           Refuse(r) \/ (Finish(r) /\ req[r].cut = "no")
    PROVE  StepFacts
<1>1. PICK x : Becomes(r, x) /\ Done(x)
  BY Refused, Finished
<1>2. QED BY <1>1, DoneFits, RequestStep

LEMMA PasskeysStay ==
    ASSUME Types, PasskeyInv, UNCHANGED <<backend, passkey, lookup>>,
           ceremony' \in [Ceremony -> AuthChallenge]
    PROVE  PasskeyPart
<1>1. PasskeyTypes'
  BY DEF Types, PasskeyTypes
<1>2. PasskeyInv'
  BY DEF PasskeyInv, PasskeysDiffer, LookupsLead, LivePasskeys
<1>3. QED BY <1>1, <1>2 DEF PasskeyPart

(* Nothing is written.                                                       *)
Reads ==
    UNCHANGED <<backend, workload, active, session, minted, key, passkey, lookup, ceremony,
                ended, rush>>

LEMMA NothingWritten ==
    ASSUME Types, CredentialInv, PasskeyInv, Reads
    PROVE  StoreAges /\ NoNewRows /\ PasskeyPart
<1>1. StoreAges /\ NoNewRows
  <2>1. rush' \in [Key -> Nat]
    BY DEF Reads, Types, StoreTypes
  <2>2. QED BY <2>1, StoreStays DEF Reads
<1>2. PasskeyPart
  <2>1. ceremony' \in [Ceremony -> AuthChallenge]
    BY DEF Reads, Types, PasskeyTypes
  <2>2. QED BY <2>1, PasskeysStay DEF Reads
<1>3. QED BY <1>1, <1>2

(* A request past its authentication was not cut off when it arrived.        *)
LEMMA Uncut ==
    ASSUME CredentialInv, NEW r \in Request,
           \/ req[r].pc \notin {"account", "key", "credential", "passkey", "assert"}
           \/ active /\ req[r].pc \notin {"account", "key"}
    PROVE  req[r].cut = "no"
BY DEF CredentialInv, RequestsKnow, Knows

(* Authenticating: the record the token names.                               *)
LEMMA ReadSessionRecord ==
    ASSUME Types, NEW r \in Request, NEW s \in Sessions, NEW op \in SessionOps,
           ReadSession(r, s, op), Valid(s)
    PROVE  \E x : /\ Becomes(r, x) /\ x \in RequestState /\ x.pc = "account" /\ x.op = op
                  /\ x.s = s /\ x.key = session[s].key /\ x.todo = {} /\ x.cut = Cut(s)
<1>1. PICK x : x = [Idle EXCEPT !.pc = "account", !.op = op, !.s = s,
                                !.key = session[s].key, !.cut = Cut(s)]
  OBVIOUS
<1>2. session[s].key \in Key \cup {None} /\ s \in 0..MaxSession
  BY DEF Types, StoreTypes, AuthSession, Sessions
<1>3. op \in Ops /\ Cut(s) \in {"no", "session", "key", "account"} /\ "account" \in Pcs
  BY DEF SessionOps, Ops, Cut, Pcs
<1>4. /\ x \in RequestState /\ x.pc = "account" /\ x.op = op
      /\ x.s = s /\ x.key = session[s].key /\ x.todo = {} /\ x.cut = Cut(s)
  BY <1>1, <1>2, <1>3, IdleState DEF RequestState
<1>5. Becomes(r, x)
  BY <1>1 DEF ReadSession, Becomes
<1>6. QED BY <1>4, <1>5

LEMMA ReadSessionStep ==
    ASSUME Types, CredentialInv, PasskeyInv, NEW r \in Request, NEW s \in Sessions, NEW op,
           \/ ReadBrowserSession(r, s, op)
           \/ op = "astrometry" /\ ReadAstrometrySession(r, s)
    PROVE  StepFacts
<1>1. /\ ReadSession(r, s, op) /\ op \in SessionOps
      /\ op \in BrowserOps => session[s].key = None
      /\ op \notin BrowserOps => op = "astrometry" /\ session[s].key # None
  BY DEF ReadBrowserSession, ReadAstrometrySession, SessionOps, BrowserOps
<1>2. StoreAges /\ NoNewRows /\ PasskeyPart
  <2>1. Reads
    BY <1>1 DEF ReadSession, Reads
  <2>2. QED BY <2>1, NothingWritten
<1>3. CASE Refuse(r)
  BY <1>2, <1>3, AnswerStep
<1>4. CASE Valid(s)
  <2>1. PICK x : /\ Becomes(r, x) /\ x \in RequestState /\ x.pc = "account" /\ x.op = op
                 /\ x.s = s /\ x.key = session[s].key /\ x.todo = {} /\ x.cut = Cut(s)
    BY <1>1, <1>4, ReadSessionRecord
  <2>2. session[s].key \in Key \cup {None} /\ "sign_in" \notin SessionOps
    BY DEF Types, StoreTypes, AuthSession, SessionOps, BrowserOps
  <2>3. Carries(x)
    BY <1>1, <2>1, <2>2 DEF Carries
  <2>4. session[s].row # "none" /\ s \notin ended
    BY <1>4 DEF Valid, CredentialInv, EndedAreDead, Dead
  <2>5. session[s].key # None => key[session[s].key] \in {"live", "revoked"}
    <3>1. ASSUME session[s].key # None PROVE key[session[s].key] \in {"live", "revoked"}
      <4>1. session[s].key \in Key
        BY <2>2, <3>1
      <4>2. QED BY <3>1, <4>1 DEF CredentialInv, KeysKnown, Types, StoreTypes
    <3>2. QED BY <3>1
  <2>6. \/ x.cut = "no"
        \/ x.cut = "key" /\ session[s].key # None /\ key[session[s].key] = "revoked"
        \/ x.cut = "account" /\ ~active
    BY <2>1, <2>4, <2>5 DEF Cut
  <2>7. Knows(x)
    BY <1>1, <2>1, <2>4, <2>5, <2>6 DEF Knows
  <2>8. QED BY <1>2, <2>1, <2>3, <2>7, RequestStep
<1>5. QED BY <1>1, <1>3, <1>4 DEF ReadSession

LEMMA ReadApiKeyRecord ==
    ASSUME NEW r \in Request, NEW k \in Key, NEW op, ReadApiKey(r, k, op), key[k] = "live"
    PROVE  \E x : /\ Becomes(r, x) /\ x \in RequestState /\ x.pc = "account"
                  /\ x.op = op /\ x.op \in {"use_key", "login"} /\ x.key = k /\ x.todo = {}
                  /\ x.cut = "no" \/ (x.cut = "account" /\ ~active)
<1>1. PICK c : c = IF active THEN "no" ELSE "account"
  OBVIOUS
<1>2. PICK x : x = [Idle EXCEPT !.pc = "account", !.op = op, !.key = k, !.cut = c]
  OBVIOUS
<1>3. op \in {"use_key", "login"} /\ c \in {"no", "account"} /\ (c = "account" => ~active)
  BY <1>1 DEF ReadApiKey
<1>4. op \in Ops /\ "account" \in Pcs
  BY <1>3 DEF Ops, Pcs
<1>5. /\ x \in RequestState /\ x.pc = "account" /\ x.op = op /\ x.key = k /\ x.todo = {}
      /\ x.cut = c
  BY <1>2, <1>3, <1>4, IdleState DEF RequestState
<1>6. Becomes(r, x)
  BY <1>1, <1>2 DEF ReadApiKey, Becomes
<1>7. QED BY <1>3, <1>5, <1>6

LEMMA ReadApiKeyStep ==
    ASSUME Types, CredentialInv, PasskeyInv, NEW r \in Request, NEW k \in Key, NEW op,
           ReadApiKey(r, k, op)
    PROVE  StepFacts
<1>1. UNCHANGED <<backend, workload, active, session, minted, key, passkey, lookup, ceremony, ended>>
  BY DEF ReadApiKey
<1>2. rush' \in [Key -> Nat]
  <2>1. Cardinality(LoggingIn(k)) \in Nat
    <3>1. IsFiniteSet(LoggingIn(k))
      BY AccountCredentialsAssumptions, FS_Subset DEF LoggingIn
    <3>2. QED BY <3>1, FS_CardinalityType
  <2>2. rush \in [Key -> Nat]
    BY DEF Types, StoreTypes
  <2>3. rush' = rush \/ rush' = [rush EXCEPT ![k] = Cardinality(LoggingIn(k)) + 1]
    BY DEF ReadApiKey
  <2>4. QED BY <2>1, <2>2, <2>3
<1>3. StoreAges /\ NoNewRows /\ PasskeyPart
  <2>1. ceremony' \in [Ceremony -> AuthChallenge]
    BY <1>1 DEF Types, PasskeyTypes
  <2>2. QED BY <1>1, <1>2, <2>1, StoreStays, PasskeysStay
<1>4. CASE Refuse(r)
  BY <1>3, <1>4, AnswerStep
<1>5. CASE key[k] = "live"
  <2>1. PICK x : /\ Becomes(r, x) /\ x \in RequestState /\ x.pc = "account"
                 /\ x.op = op /\ x.op \in {"use_key", "login"} /\ x.key = k /\ x.todo = {}
                 /\ x.cut = "no" \/ (x.cut = "account" /\ ~active)
    BY <1>5, ReadApiKeyRecord
  <2>2. Carries(x)
    BY <2>1 DEF Carries, SessionOps, BrowserOps
  <2>3. Knows(x)
    BY <1>5, <2>1 DEF Knows, SessionOps, BrowserOps
  <2>4. QED BY <1>3, <2>1, <2>2, <2>3, RequestStep
<1>6. QED BY <1>4, <1>5 DEF ReadApiKey

(* The account, then the key.                                                *)
LEMMA GoesOnFits ==
    ASSUME Types, CredentialInv, NEW r \in Request, NEW x, NEW p, GoesOn(r, x, p),
           req[r].pc \in Entering, p \in Entering,
           p = "key" => req[r].op = "astrometry", p = "touch" => req[r].op \in SessionOps,
           req[r].cut = "no" \/ (p = "key" /\ req[r].cut = "key")
    PROVE  Carries(x) /\ Knows(x) /\ x.pc # "recycle"
<1>1. Carries(req[r]) /\ Knows(req[r])
  BY DEF Types, RequestTypes, CredentialInv, RequestsKnow
<1>2. p \notin {"list", "recycle", "register", "credential", "passkey", "assert", "unlink"}
  BY DEF Entering
<1>3. Carries(x)
  BY <1>1, <1>2 DEF GoesOn, Carries
<1>4. Knows(x)
  BY <1>1, <1>2 DEF GoesOn, Knows
<1>5. QED BY <1>2, <1>3, <1>4 DEF GoesOn

LEMMA LetInStep ==
    ASSUME Types, CredentialInv, StoreAges, NoNewRows, PasskeyPart, NEW r \in Request, NEW p,
           LetInto(r, p), req[r].pc \in Entering, p \in Entering,
           p = "key" => req[r].op = "astrometry", p = "touch" => req[r].op \in SessionOps,
           req[r].cut = "no" \/ (p = "key" /\ req[r].cut = "key")
    PROVE  StepFacts
<1>1. p \in Pcs /\ RequestTypes /\ (p = "allowed" => req[r].cut = "no")
  BY DEF Entering, Pcs, Types
<1>2. PICK x : Becomes(r, x) /\ (Done(x) \/ GoesOn(r, x, p))
  BY <1>1, LetIntoMoves
<1>3. Carries(x) /\ Knows(x) /\ x.pc # "recycle"
  <2>1. CASE Done(x)
    BY <2>1, DoneFits
  <2>2. CASE GoesOn(r, x, p)
    BY <2>2, GoesOnFits
  <2>3. QED BY <1>2, <2>1, <2>2
<1>4. QED BY <1>2, <1>3, RequestStep

LEMMA ReadAccountStep ==
    ASSUME Types, CredentialInv, PasskeyInv, NEW r \in Request, ReadAccount(r)
    PROVE  StepFacts
<1>1. StoreAges /\ NoNewRows /\ PasskeyPart
  <2>1. Reads
    BY DEF ReadAccount, Reads
  <2>2. QED BY <2>1, NothingWritten
<1>2. CASE Refuse(r)
  BY <1>1, <1>2, AnswerStep
<1>3. CASE active /\ ~Refuse(r)
  <2>1. PICK p \in CASE req[r].op = "astrometry" -> {"key"}
                     [] req[r].op \in {"use_key", "login"} -> {"allowed"}
                     [] OTHER -> {"touch", "allowed"} : LetInto(r, p)
    BY <1>3 DEF ReadAccount
  <2>2. req[r].pc = "account" /\ Carries(req[r]) /\ Knows(req[r])
    BY DEF ReadAccount, Types, RequestTypes, CredentialInv, RequestsKnow
  <2>3. /\ p \in {"key", "touch", "allowed"} /\ (p = "key" <=> req[r].op = "astrometry")
        /\ p = "touch" => req[r].op \notin {"use_key", "login", "astrometry"}
    BY <2>1
  <2>4. p = "touch" => req[r].op \in SessionOps
    BY <2>2, <2>3 DEF Carries, RequestState, Ops, SessionOps, Entering
  <2>5. req[r].cut = "no" \/ (p = "key" /\ req[r].cut = "key")
    BY <1>3, <2>2, <2>3 DEF Knows
  <2>6. req[r].pc \in Entering /\ p \in Entering
    BY <2>2, <2>3 DEF Entering
  <2>7. QED BY <1>1, <2>1, <2>3, <2>4, <2>5, <2>6, LetInStep
<1>4. QED BY <1>2, <1>3 DEF ReadAccount

LEMMA RevalidateKeyStep ==
    ASSUME Types, CredentialInv, PasskeyInv, NEW r \in Request, RevalidateKey(r)
    PROVE  StepFacts
<1>1. StoreAges /\ NoNewRows /\ PasskeyPart
  <2>1. Reads
    BY DEF RevalidateKey, Reads
  <2>2. QED BY <2>1, NothingWritten
<1>2. CASE Refuse(r)
  BY <1>1, <1>2, AnswerStep
<1>3. CASE key[req[r].key] = "live"
  <2>1. PICK p \in {"touch", "allowed"} : LetInto(r, p)
    BY <1>3 DEF RevalidateKey
  <2>2. req[r].pc = "key" /\ Carries(req[r]) /\ Knows(req[r])
    BY DEF RevalidateKey, Types, RequestTypes, CredentialInv, RequestsKnow
  <2>3. req[r].cut = "no" /\ req[r].op = "astrometry"
    BY <1>3, <2>2 DEF Knows, Carries
  <2>4. req[r].pc \in Entering /\ p \in Entering /\ p # "key" /\ req[r].op \in SessionOps
    BY <2>1, <2>2, <2>3 DEF Entering, SessionOps
  <2>5. QED BY <1>1, <2>1, <2>3, <2>4, LetInStep
<1>4. QED BY <1>2, <1>3 DEF RevalidateKey

LEMMA TouchSessionStep ==
    ASSUME Types, CredentialInv, PasskeyInv, NEW r \in Request, TouchSession(r)
    PROVE  StepFacts
<1>1. /\ req[r].pc = "touch" /\ LetInto(r, "allowed") /\ req[r].cut = "no"
      /\ UNCHANGED <<backend, workload, active, minted, key, passkey, lookup, ceremony, ended, rush>>
  BY Uncut DEF TouchSession
<1>2. PICK s \in Sessions : s = req[r].s
  BY <1>1 DEF Types, RequestTypes, Carries, Entering
<1>3. PICK y : y = Touched(s)
  OBVIOUS
<1>4. session[s] \in AuthSession
  BY DEF Types, StoreTypes
<1>5. /\ y \in AuthSession /\ y.row = session[s].row /\ y.key = session[s].key
      /\ y.revoked <=> session[s].revoked
  <2>1. CASE y = session[s]
    BY <1>4, <2>1
  <2>2. CASE y = [session[s] EXCEPT !.expired = "revived"]
    BY <1>4, <2>2 DEF AuthSession
  <2>3. QED BY <1>3, <2>1, <2>2 DEF Touched
<1>6. session' = [session EXCEPT ![s] = y]
  BY <1>2, <1>3 DEF TouchSession
<1>7. RowsFade
  BY <1>5, <1>6, ExpiryFades
<1>8. StoreAges /\ NoNewRows
  <2>1. ended' \subseteq Sessions
    BY <1>1 DEF Types, StoreTypes
  <2>2. QED BY <1>1, <1>7, <2>1, FadingAges
<1>9. PasskeyPart
  <2>1. ceremony' \in [Ceremony -> AuthChallenge]
    BY <1>1 DEF Types, PasskeyTypes
  <2>2. QED BY <1>1, <2>1, PasskeysStay
<1>10. QED
  <2>1. req[r].pc \in Entering /\ "allowed" \in Entering
    BY <1>1 DEF Entering
  <2>2. QED BY <1>1, <1>8, <1>9, <2>1, LetInStep

-----------------------------------------------------------------------------
(* Ending sessions.                                                          *)

(* Passkeys are left alone.                                                  *)
LEMMA PasskeysUntouched ==
    ASSUME Types, PasskeyInv, UNCHANGED <<backend, passkey, lookup, ceremony>>
    PROVE  PasskeyPart
<1>1. ceremony' \in [Ceremony -> AuthChallenge]
  BY DEF Types, PasskeyTypes
<1>2. QED BY <1>1, PasskeysStay

(* A set of sessions is revoked and recorded as ended.                       *)
LEMMA EndingAges ==
    ASSUME Types, CredentialInv, NEW S \in SUBSET Sessions, \A s \in S : session[s].row # "none",
           session' = Revoked(S), ended' = ended \cup S,
           UNCHANGED <<backend, workload, active, minted, key, rush>>
    PROVE  StoreAges /\ NoNewRows
<1>1. RowsFade /\ \A s \in S : Dead(s)'
  BY RevokedFades
<1>2. ended' \subseteq Sessions
  BY DEF Types, StoreTypes
<1>3. QED BY <1>1, <1>2, FadingAges

LEMMA ForbidStep ==
    ASSUME Types, CredentialInv, PasskeyInv, NEW r \in Request, Forbid(r)
    PROVE  StepFacts
<1>1. Reads /\ Refuse(r)
  BY DEF Forbid, Reads
<1>2. QED BY <1>1, NothingWritten, AnswerStep

LEMMA LogoutStep ==
    ASSUME Types, CredentialInv, PasskeyInv, NEW r \in Request, Logout(r)
    PROVE  StepFacts
<1>1. /\ req[r].pc = "allowed" /\ req[r].op = "logout" /\ Finish(r)
      /\ UNCHANGED <<backend, workload, active, minted, key, passkey, lookup, ceremony, rush>>
  BY DEF Logout, Doing
<1>2. req[r].cut = "no"
  BY <1>1, Uncut
<1>3. req[r].pc \in Entering /\ req[r].op \in SessionOps
  BY <1>1 DEF Entering, SessionOps, BrowserOps
<1>4. PICK S : S = {req[r].s}
  OBVIOUS
<1>5. S \in SUBSET Sessions /\ \A s \in S : session[s].row # "none"
  BY <1>3, <1>4 DEF Types, RequestTypes, Carries, CredentialInv, RequestsKnow, Knows
<1>6. session' = Revoked(S) /\ ended' = ended \cup S
  BY <1>4 DEF Logout
<1>7. StoreAges /\ NoNewRows
  BY <1>1, <1>5, <1>6, EndingAges
<1>8. PasskeyPart
  BY <1>1, PasskeysUntouched
<1>9. QED BY <1>1, <1>2, <1>7, <1>8, AnswerStep

LEMMA RevokeSessionStep ==
    ASSUME Types, CredentialInv, PasskeyInv, NEW r \in Request, NEW s \in Sessions,
           RevokeSession(r, s)
    PROVE  StepFacts
<1>1. /\ req[r].pc = "allowed" /\ (Finish(r) \/ Refuse(r)) /\ session[s].row # "none"
      /\ UNCHANGED <<backend, workload, active, minted, key, passkey, lookup, ceremony, rush>>
  BY DEF RevokeSession, Doing
<1>2. req[r].cut = "no"
  BY <1>1, Uncut
<1>3. PICK S : S = {s}
  OBVIOUS
<1>4. S \in SUBSET Sessions /\ \A t \in S : session[t].row # "none"
  BY <1>1, <1>3
<1>5. session' = Revoked(S) /\ ended' = ended \cup S
  BY <1>3 DEF RevokeSession
<1>6. StoreAges /\ NoNewRows
  BY <1>1, <1>4, <1>5, EndingAges
<1>7. PasskeyPart
  BY <1>1, PasskeysUntouched
<1>8. QED BY <1>1, <1>2, <1>6, <1>7, AnswerStep

LEMMA SqlLogoutAllStep ==
    ASSUME Types, CredentialInv, PasskeyInv, NEW r \in Request, SqlLogoutAll(r)
    PROVE  StepFacts
<1>1. /\ req[r].pc = "allowed" /\ Finish(r)
      /\ session' = Revoked(Stored) /\ ended' = ended \cup Stored
      /\ UNCHANGED <<backend, workload, active, minted, key, passkey, lookup, ceremony, rush>>
  BY DEF SqlLogoutAll, Doing
<1>2. req[r].cut = "no"
  BY <1>1, Uncut
<1>3. Stored \in SUBSET Sessions /\ \A s \in Stored : session[s].row # "none"
  BY DEF Stored
<1>4. StoreAges /\ NoNewRows
  BY <1>1, <1>3, EndingAges
<1>5. PasskeyPart
  BY <1>1, PasskeysUntouched
<1>6. QED BY <1>1, <1>2, <1>4, <1>5, AnswerStep

(* A request starts to sweep the sessions it found.                          *)
LEMMA SweepFits ==
    ASSUME Types, CredentialInv, NEW r \in Request, NEW x, x \in RequestState,
           x.pc = "sweep", x.key = req[r].key, x.cut = "no", x.todo \subseteq Sessions,
           \A s \in x.todo : session[s].row # "none"
    PROVE  Carries(x) /\ Knows(x)
<1>1. Knows(req[r])
  BY DEF CredentialInv, RequestsKnow
<1>2. QED BY <1>1 DEF Carries, Knows, Entering

LEMMA DynLogoutAllStep ==
    ASSUME Types, CredentialInv, PasskeyInv, NEW r \in Request, DynLogoutAll(r)
    PROVE  StepFacts
<1>1. Reads /\ req[r].pc = "allowed"
  BY Zenon DEF DynLogoutAll, Reads, Doing
<1>2. /\ req \in [Request -> RequestState] /\ req[r] \in RequestState
      /\ Stored \in SUBSET Sessions
  BY DEF Types, RequestTypes, Stored
<1>3. PICK x : x = [req[r] EXCEPT !.pc = "sweep", !.todo = Stored]
  OBVIOUS
<1>4. /\ x \in RequestState /\ x.pc = "sweep" /\ x.key = req[r].key /\ x.cut = req[r].cut
      /\ x.todo = Stored
  BY <1>2, <1>3 DEF RequestState, Pcs
<1>5. Becomes(r, x)
  BY <1>2, <1>3 DEF DynLogoutAll, Becomes
<1>6. req[r].cut = "no"
  BY <1>1, Uncut
<1>7. Carries(x) /\ Knows(x)
  BY <1>4, <1>6, SweepFits DEF Stored
<1>8. QED BY <1>1, <1>4, <1>5, <1>7, NothingWritten, RequestStep

LEMMA SweepStep ==
    ASSUME Types, CredentialInv, PasskeyInv, NEW r \in Request, NEW s \in Sessions, Sweep(r, s)
    PROVE  StepFacts
<1>1. /\ req[r].pc = "sweep" /\ s \in req[r].todo
      /\ UNCHANGED <<backend, workload, active, minted, key, passkey, lookup, ceremony, rush>>
  BY DEF Sweep
<1>2. req[r].cut = "no"
  BY <1>1, Uncut
<1>3. PICK S : S = {s}
  OBVIOUS
<1>4. S \in SUBSET Sessions /\ \A t \in S : session[t].row # "none"
  BY <1>1, <1>3 DEF CredentialInv, RequestsKnow, Knows
<1>5. session' = Revoked(S) /\ ended' = ended \cup S
  BY <1>3 DEF Sweep
<1>6. StoreAges /\ NoNewRows
  BY <1>1, <1>4, <1>5, EndingAges
<1>7. PasskeyPart
  BY <1>1, PasskeysUntouched
<1>8. CASE Finish(r)
  BY <1>2, <1>6, <1>7, <1>8, AnswerStep
<1>9. CASE req' = [req EXCEPT ![r].todo = @ \ {s}]
  <2>1. req \in [Request -> RequestState] /\ req[r] \in RequestState
    BY DEF Types, RequestTypes
  <2>2. PICK x : x = [req[r] EXCEPT !.todo = req[r].todo \ {s}]
    OBVIOUS
  <2>3. /\ x \in RequestState /\ x.pc = "sweep" /\ x.key = req[r].key /\ x.cut = req[r].cut
        /\ x.todo = req[r].todo \ {s} /\ x.todo \subseteq Sessions
    BY <1>1, <2>1, <2>2 DEF RequestState
  <2>4. Becomes(r, x)
    BY <1>9, <2>1, <2>2 DEF Becomes
  <2>5. \A t \in x.todo : session[t].row # "none"
    BY <2>3 DEF CredentialInv, RequestsKnow, Knows
  <2>6. Carries(x) /\ Knows(x)
    BY <1>2, <2>3, <2>5, SweepFits
  <2>7. QED BY <1>6, <1>7, <2>3, <2>4, <2>6, RequestStep
<1>10. QED BY <1>8, <1>9 DEF Sweep

-----------------------------------------------------------------------------
(* API keys.                                                                 *)

LEMMA SessionsStay ==
    ASSUME Types, session' = session
    PROVE  RowsFade
BY DEF Types, StoreTypes, RowsFade, Dead

LEMMA CreateApiKeyStep ==
    ASSUME Types, CredentialInv, PasskeyInv, NEW r \in Request, NEW k \in Key, CreateApiKey(r, k)
    PROVE  StepFacts
<1>1. /\ req[r].pc = "allowed" /\ key[k] = "none"
      /\ UNCHANGED <<backend, workload, active, session, minted, passkey, lookup, ceremony, ended,
                     rush>>
  BY DEF CreateApiKey, Doing
<1>2. req[r].cut = "no"
  BY <1>1, Uncut
<1>3. PasskeyPart
  BY <1>1, PasskeysUntouched
<1>4. CASE Finish(r) /\ key' = [key EXCEPT ![k] = "live"]
  <2>1. StoreAges /\ NoNewRows
    BY <1>1, <1>4, KeyAges, SessionsStay
  <2>2. QED BY <1>2, <1>3, <1>4, <2>1, AnswerStep
<1>5. CASE Refuse(r) /\ UNCHANGED key
  <2>1. Reads
    BY <1>1, <1>5 DEF Reads
  <2>2. QED BY <1>5, <2>1, NothingWritten, AnswerStep
<1>6. QED BY <1>4, <1>5 DEF CreateApiKey

LEMMA SqlRevokeApiKeyStep ==
    ASSUME Types, CredentialInv, PasskeyInv, NEW r \in Request, NEW k \in Key,
           SqlRevokeApiKey(r, k)
    PROVE  StepFacts
<1>1. /\ req[r].pc = "allowed"
      /\ UNCHANGED <<backend, workload, active, minted, passkey, lookup, ceremony, ended, rush>>
  BY DEF SqlRevokeApiKey, Doing
<1>2. req[r].cut = "no"
  BY <1>1, Uncut
<1>3. PasskeyPart
  BY <1>1, PasskeysUntouched
<1>4. CASE /\ key' = [key EXCEPT ![k] = "revoked"] /\ session' = Revoked(MintedFrom(k))
           /\ Finish(r)
  <2>1. RowsFade
    BY <1>4, RevokedFades
  <2>2. StoreAges /\ NoNewRows
    BY <1>1, <1>4, <2>1, KeyAges
  <2>3. QED BY <1>2, <1>3, <1>4, <2>2, AnswerStep
<1>5. CASE Refuse(r) /\ UNCHANGED <<key, session>>
  <2>1. Reads
    BY <1>1, <1>5 DEF Reads
  <2>2. QED BY <1>5, <2>1, NothingWritten, AnswerStep
<1>6. QED BY <1>4, <1>5 DEF SqlRevokeApiKey

LEMMA DynRevokeApiKeyStep ==
    ASSUME Types, CredentialInv, PasskeyInv, NEW r \in Request, NEW k \in Key,
           DynRevokeApiKey(r, k)
    PROVE  StepFacts
<1>1. /\ req[r].pc = "allowed" /\ key[k] # "none"
      /\ UNCHANGED <<backend, workload, active, session, minted, passkey, lookup, ceremony, ended,
                     rush>>
  BY Zenon DEF DynRevokeApiKey, Doing
<1>2. req[r].cut = "no"
  BY <1>1, Uncut
<1>3. PasskeyPart
  BY <1>1, PasskeysUntouched
<1>4. ASSUME key' = [key EXCEPT ![k] = "revoked"],
             req' = [req EXCEPT ![r].pc = "list", ![r].key = k]
      PROVE  StepFacts
  <2>1. StoreAges /\ NoNewRows
    BY <1>1, <1>4, KeyAges, SessionsStay
  <2>2. req \in [Request -> RequestState] /\ req[r] \in RequestState
    BY DEF Types, RequestTypes
  <2>3. PICK x : x = [req[r] EXCEPT !.pc = "list", !.key = k]
    OBVIOUS
  <2>4. /\ x \in RequestState /\ x.pc = "list" /\ x.key = k /\ x.cut = req[r].cut
        /\ x.todo = req[r].todo
    BY <2>2, <2>3 DEF RequestState, Pcs
  <2>5. Becomes(r, x)
    BY <1>4, <2>2, <2>3 DEF Becomes
  <2>6. Carries(x)
    BY <2>4 DEF Carries, Entering
  <2>7. Knows(x)
    BY <1>1, <1>2, <2>4 DEF Knows, Entering, CredentialInv, RequestsKnow
  <2>8. QED BY <1>3, <2>1, <2>4, <2>5, <2>6, <2>7, RequestStep
<1>5. CASE Refuse(r) /\ UNCHANGED key
  <2>1. Reads
    BY <1>1, <1>5 DEF Reads
  <2>2. QED BY <1>5, <2>1, NothingWritten, AnswerStep
<1>6. QED BY <1>4, <1>5, Zenon DEF DynRevokeApiKey

LEMMA DynListMintedStep ==
    ASSUME Types, CredentialInv, PasskeyInv, NEW r \in Request, DynListMinted(r)
    PROVE  StepFacts
<1>1. Reads /\ req[r].pc = "list"
  BY Zenon DEF DynListMinted, Reads
<1>2. req[r].cut = "no"
  BY <1>1, Uncut
<1>3. PICK S : S = {s \in MintedFrom(req[r].key) : ~session[s].revoked}
  OBVIOUS
<1>4. S \subseteq Sessions /\ \A s \in S : session[s].row # "none"
  BY <1>3 DEF MintedFrom, Stored
<1>5. CASE Finish(r)
  BY <1>1, <1>2, <1>5, NothingWritten, AnswerStep
<1>6. ASSUME req' = [req EXCEPT ![r].pc = "sweep", ![r].todo = S] PROVE StepFacts
  <2>1. req \in [Request -> RequestState] /\ req[r] \in RequestState
    BY DEF Types, RequestTypes
  <2>2. PICK x : x = [req[r] EXCEPT !.pc = "sweep", !.todo = S]
    OBVIOUS
  <2>3. /\ x \in RequestState /\ x.pc = "sweep" /\ x.key = req[r].key /\ x.cut = req[r].cut
        /\ x.todo = S
    BY <1>4, <2>1, <2>2 DEF RequestState, Pcs
  <2>4. Becomes(r, x)
    BY <1>6, <2>1, <2>2 DEF Becomes
  <2>5. Carries(x) /\ Knows(x)
    BY <1>2, <1>4, <2>3, SweepFits
  <2>6. QED BY <1>1, <2>3, <2>4, <2>5, NothingWritten, RequestStep
<1>7. QED BY <1>3, <1>5, <1>6, Zenon DEF DynListMinted

-----------------------------------------------------------------------------
(* Logins.                                                                   *)

LEMMA ListLoginsRecord ==
    ASSUME Types, NEW r \in Request, ListLogins(r)
    PROVE  /\ \E x : /\ Becomes(r, x) /\ x \in RequestState /\ x.pc = "recycle"
                     /\ x.s = minted + 1 /\ x.s \in Sessions /\ x.key = req[r].key
                     /\ x.cut = req[r].cut
                     /\ \A s \in x.todo : session[s].row # "none"
           /\ minted' = minted + 1 /\ minted + 1 \in Sessions
           /\ Doing(r, "login")
           /\ UNCHANGED <<backend, workload, active, session, key, passkey, lookup, ceremony, ended,
                          rush>>
<1>1. /\ Doing(r, "login") /\ minted < MaxSession /\ minted' = minted + 1
      /\ UNCHANGED <<backend, workload, active, session, key, passkey, lookup, ceremony, ended,
                     rush>>
  BY Zenon DEF ListLogins
<1>2. minted + 1 \in Sessions /\ minted + 1 \in 0..MaxSession
  BY <1>1, AccountCredentialsAssumptions DEF Types, StoreTypes, Sessions
<1>3. PICK L : L = LiveLogins(req[r].key)
  OBVIOUS
<1>4. PICK T : T = Oldest(L, Excess(Cardinality(L)))
  OBVIOUS
<1>5. T \subseteq Sessions /\ \A s \in T : session[s].row # "none"
  BY <1>3, <1>4 DEF Oldest, LiveLogins, MintedFrom, Stored
<1>6. req' = [req EXCEPT ![r].pc = "recycle", ![r].s = minted + 1, ![r].todo = T]
  BY <1>3, <1>4, Zenon DEF ListLogins
<1>7. req \in [Request -> RequestState] /\ req[r] \in RequestState
  BY DEF Types, RequestTypes
<1>8. PICK x : x = [req[r] EXCEPT !.pc = "recycle", !.s = minted + 1, !.todo = T]
  OBVIOUS
<1>9. /\ x \in RequestState /\ x.pc = "recycle" /\ x.s = minted + 1 /\ x.key = req[r].key
      /\ x.cut = req[r].cut /\ x.todo = T
  BY <1>2, <1>5, <1>7, <1>8 DEF RequestState, Pcs
<1>10. Becomes(r, x)
  BY <1>6, <1>7, <1>8 DEF Becomes
<1>11. QED BY <1>1, <1>2, <1>5, <1>9, <1>10

LEMMA ListLoginsStep ==
    ASSUME Types, CredentialInv, PasskeyInv, NEW r \in Request, ListLogins(r)
    PROVE  StepFacts
<1>1. /\ minted' = minted + 1 /\ minted + 1 \in Sessions /\ Doing(r, "login")
      /\ UNCHANGED <<backend, workload, active, session, key, passkey, lookup, ceremony, ended,
                     rush>>
  BY ListLoginsRecord
<1>2. PICK x : /\ Becomes(r, x) /\ x \in RequestState /\ x.pc = "recycle"
               /\ x.s = minted + 1 /\ x.s \in Sessions /\ x.key = req[r].key
               /\ x.cut = req[r].cut
               /\ \A s \in x.todo : session[s].row # "none"
  BY ListLoginsRecord
<1>3. req[r].pc = "allowed" /\ req[r].op = "login"
  BY <1>1 DEF Doing
<1>4. req[r].cut = "no"
  BY <1>3, Uncut
<1>5. req[r].key \in Key /\ Knows(req[r])
  BY <1>3 DEF Types, RequestTypes, Carries, Entering, BrowserOps, CredentialInv, RequestsKnow
<1>6. Carries(x)
  BY <1>2, <1>5 DEF Carries, Entering
<1>7. Knows(x)
  BY <1>2, <1>4, <1>5 DEF Knows, Entering
<1>8. StoreAges
  <2>1. minted' \in 0..MaxSession /\ minted' >= minted
    BY <1>1 DEF Types, StoreTypes, Sessions
  <2>2. StoreTypes' /\ KeysAge /\ RowsAge
    BY <1>1, <2>1 DEF Types, StoreTypes, KeysAge, RowsAge, Dead
  <2>3. EndedAreDead' /\ KeysKnown'
    BY <1>1 DEF CredentialInv, EndedAreDead, KeysKnown, Dead
  <2>4. QED BY <1>1, <2>1, <2>2, <2>3 DEF StoreAges
<1>9. Knows(x)'
  BY <1>6, <1>7, <1>8, KnownStays
<1>10. RankPart(r, x)
  BY <1>1, <1>2 DEF RankPart
<1>11. PasskeyPart
  BY <1>1, PasskeysUntouched
<1>12. QED BY <1>2, <1>6, <1>8, <1>9, <1>10, <1>11 DEF StepFacts, RequestPart

LEMMA RecycleStep ==
    ASSUME Types, CredentialInv, PasskeyInv, NEW r \in Request, Recycle(r)
    PROVE  StepFacts
<1>1. /\ req[r].pc = "recycle"
      /\ UNCHANGED <<backend, workload, active, minted, key, passkey, lookup, ceremony, ended, rush>>
  BY DEF Recycle
<1>2. PICK s \in Oldest(req[r].todo, 1) :
         /\ session' = [session EXCEPT ![s].row = "gone"]
         /\ req' = [req EXCEPT ![r].todo = @ \ {s}]
  BY DEF Recycle
<1>3. req \in [Request -> RequestState] /\ req[r] \in RequestState /\ Carries(req[r]) /\ Knows(req[r])
  BY DEF Types, RequestTypes, CredentialInv, RequestsKnow
<1>4. s \in req[r].todo /\ s \in Sessions /\ session[s].row # "none"
  BY <1>2, <1>3 DEF Oldest, RequestState, Knows
<1>5. RowsFade
  BY <1>2, <1>4, DeletionFades
<1>6. StoreAges /\ NoNewRows
  <2>1. ended' \subseteq Sessions
    BY <1>1 DEF Types, StoreTypes
  <2>2. QED BY <1>1, <1>5, <2>1, FadingAges
<1>7. PICK x : x = [req[r] EXCEPT !.todo = req[r].todo \ {s}]
  OBVIOUS
<1>8. /\ x \in RequestState /\ x.pc = "recycle" /\ x.op = req[r].op /\ x.s = req[r].s
      /\ x.key = req[r].key /\ x.cut = req[r].cut /\ x.todo = req[r].todo \ {s}
  BY <1>1, <1>3, <1>7 DEF RequestState
<1>9. Becomes(r, x)
  BY <1>2, <1>3, <1>7 DEF Becomes
<1>10. Carries(x)
  BY <1>1, <1>3, <1>8 DEF Carries, Entering
<1>11. Knows(x)
  BY <1>1, <1>3, <1>8 DEF Knows, Entering
<1>12. PasskeyPart
  BY <1>1, PasskeysUntouched
<1>13. QED BY <1>1, <1>6, <1>8, <1>9, <1>10, <1>11, <1>12, RequestStep DEF Waiting

LEMMA StoreLoginStep ==
    ASSUME Types, CredentialInv, PasskeyInv, NEW r \in Request, StoreLogin(r)
    PROVE  StepFacts
<1>1. /\ Waiting(r) /\ req[r].pc = "recycle"
      /\ UNCHANGED <<backend, workload, active, minted, key, passkey, lookup, ceremony, ended, rush>>
  BY DEF StoreLogin, Waiting
<1>2. req[r].cut = "no"
  BY <1>1, Uncut
<1>3. PasskeyPart
  BY <1>1, PasskeysUntouched
<1>4. CASE Finish(r) /\ session' = [session EXCEPT ![req[r].s] = NewSession(req[r].key)]
  <2>1. PICK n \in Sessions, k \in Key : n = req[r].s /\ k = req[r].key
    BY <1>1 DEF Types, RequestTypes, Carries
  <2>2. session[n].row = "none" /\ (k # None => key[k] # "none")
    BY <1>1, <2>1 DEF CredentialInv, RanksFresh, RequestsKnow, Knows
  <2>3. minted' \in 0..MaxSession /\ minted' >= minted /\ session' = [session EXCEPT ![n] = NewSession(k)]
    BY <1>1, <1>4, <2>1 DEF Types, StoreTypes
  <2>4. /\ StoreAges
        /\ \A s \in Sessions : session[s].row = "none" /\ session'[s].row # "none" => s = n
    BY <1>1, <2>2, <2>3, InsertAges
  <2>5. PICK x : Becomes(r, x) /\ Done(x)
    BY <1>2, <1>4, Finished
  <2>6. Carries(x) /\ Knows(x)' /\ x.pc # "recycle"
    BY <2>5, DoneFits
  <2>7. RankPart(r, x)
    BY <1>1, <2>1, <2>4, <2>6 DEF RankPart
  <2>8. QED BY <1>3, <2>4, <2>5, <2>6, <2>7 DEF StepFacts, RequestPart
<1>5. CASE Refuse(r) /\ UNCHANGED session
  <2>1. Reads
    BY <1>1, <1>5 DEF Reads
  <2>2. QED BY <1>5, <2>1, NothingWritten, AnswerStep
<1>6. QED BY <1>4, <1>5 DEF StoreLogin

-----------------------------------------------------------------------------
(* Passkeys.                                                                 *)

LEMMA Consumed ==
    ASSUME Types, NEW w \in Ceremony, Consume(w)
    PROVE  ceremony' \in [Ceremony -> AuthChallenge]
BY DEF Types, PasskeyTypes, Consume, AuthChallenge

LEMMA StartRegistrationStep ==
    ASSUME Types, CredentialInv, PasskeyInv, NEW r \in Request, NEW w \in Ceremony,
           StartRegistration(r, w)
    PROVE  StepFacts
<1>1. /\ req[r].pc = "allowed" /\ Finish(r)
      /\ UNCHANGED <<backend, workload, active, session, minted, key, passkey, lookup, ended, rush>>
  BY DEF StartRegistration, Doing
<1>2. req[r].cut = "no"
  BY <1>1, Uncut
<1>3. PICK X : X = {passkey[p].cred : p \in LivePasskeys}
  OBVIOUS
<1>4. X \in SUBSET Credential
  BY <1>3 DEF LivePasskeys, Types, PasskeyTypes
<1>5. PICK y : y = [row |-> "registration", exclude |-> X]
  OBVIOUS
<1>6. y \in AuthChallenge
  BY <1>4, <1>5 DEF AuthChallenge
<1>7. ceremony' = [ceremony EXCEPT ![w] = y]
  BY <1>3, <1>5 DEF StartRegistration
<1>8. ceremony' \in [Ceremony -> AuthChallenge]
  BY <1>6, <1>7 DEF Types, PasskeyTypes
<1>9. PasskeyPart
  BY <1>1, <1>8, PasskeysStay
<1>10. StoreAges /\ NoNewRows
  <2>1. rush' \in [Key -> Nat]
    BY <1>1 DEF Types, StoreTypes
  <2>2. QED BY <1>1, <2>1, StoreStays
<1>11. QED BY <1>1, <1>2, <1>9, <1>10, AnswerStep

LEMMA ReadRegistrationStep ==
    ASSUME Types, CredentialInv, PasskeyInv, NEW r \in Request, NEW w \in Ceremony,
           ReadRegistration(r, w)
    PROVE  StepFacts
<1>1. Reads /\ req[r].pc = "allowed"
  BY Zenon DEF ReadRegistration, Reads, Doing
<1>2. req[r].cut = "no"
  BY <1>1, Uncut
<1>3. req \in [Request -> RequestState] /\ req[r] \in RequestState /\ Knows(req[r])
  BY DEF Types, RequestTypes, CredentialInv, RequestsKnow
<1>4. PICK x : x = [req[r] EXCEPT !.pc = "register", !.cer = w]
  OBVIOUS
<1>5. /\ x \in RequestState /\ x.pc = "register" /\ x.key = req[r].key /\ x.cut = req[r].cut
      /\ x.todo = req[r].todo /\ x.cer = w
  BY <1>3, <1>4 DEF RequestState, Pcs
<1>6. Becomes(r, x)
  BY <1>3, <1>4 DEF ReadRegistration, Becomes
<1>7. Carries(x) /\ Knows(x)
  BY <1>2, <1>3, <1>5 DEF Carries, Knows, Entering
<1>8. QED BY <1>1, <1>5, <1>6, <1>7, NothingWritten, RequestStep

LEMMA DynReadPasskeyStep ==
    ASSUME Types, CredentialInv, PasskeyInv, NEW r \in Request, NEW p \in Passkey,
           DynReadPasskey(r, p)
    PROVE  StepFacts
<1>1. Reads /\ req[r].pc = "allowed"
  BY Zenon DEF DynReadPasskey, Reads, Doing
<1>2. req[r].cut = "no"
  BY <1>1, Uncut
<1>3. CASE Refuse(r)
  BY <1>1, <1>3, NothingWritten, AnswerStep
<1>4. ASSUME req' = [req EXCEPT ![r].pc = "unlink", ![r].pk = p] PROVE StepFacts
  <2>1. req \in [Request -> RequestState] /\ req[r] \in RequestState /\ Knows(req[r])
    BY DEF Types, RequestTypes, CredentialInv, RequestsKnow
  <2>2. PICK x : x = [req[r] EXCEPT !.pc = "unlink", !.pk = p]
    OBVIOUS
  <2>3. /\ x \in RequestState /\ x.pc = "unlink" /\ x.key = req[r].key /\ x.cut = req[r].cut
        /\ x.todo = req[r].todo /\ x.pk = p
    BY <2>1, <2>2 DEF RequestState, Pcs
  <2>4. Becomes(r, x)
    BY <1>4, <2>1, <2>2 DEF Becomes
  <2>5. Carries(x) /\ Knows(x)
    BY <1>2, <2>1, <2>3 DEF Carries, Knows, Entering
  <2>6. QED BY <1>1, <2>3, <2>4, <2>5, NothingWritten, RequestStep
<1>5. QED BY <1>3, <1>4, Zenon DEF DynReadPasskey

(* A sign-in goes from the challenge to the passkey its credential leads to. *)
Signing == {"credential", "passkey", "assert"}

LEMMA SigningFits ==
    ASSUME Types, CredentialInv, NEW r \in Request, NEW x, x \in RequestState,
           req[r].pc \in Signing, x.pc \in Signing, x.key = req[r].key, x.todo = req[r].todo,
           x.cut = req[r].cut, x.cer = req[r].cer, x.pc # "credential" => x.pk \in Passkey
    PROVE  Carries(x) /\ Knows(x) /\ x.pc # "recycle"
<1>1. Carries(req[r]) /\ Knows(req[r])
  BY DEF Types, RequestTypes, CredentialInv, RequestsKnow
<1>2. Carries(x)
  BY <1>1 DEF Carries, Entering, Signing
<1>3. Knows(x)
  BY <1>1 DEF Knows, Entering, Signing
<1>4. QED BY <1>2, <1>3 DEF Signing

LEMMA ReadAuthenticationStep ==
    ASSUME Types, CredentialInv, PasskeyInv, NEW r \in Request, NEW w \in Ceremony,
           ReadAuthentication(r, w)
    PROVE  StepFacts
<1>1. Reads
  BY Zenon DEF ReadAuthentication, Reads
<1>2. PICK c : c = IF active THEN "no" ELSE "account"
  OBVIOUS
<1>3. c \in {"no", "account"} /\ (c = "account" => ~active)
  BY <1>2
<1>4. PICK x : x = [Idle EXCEPT !.pc = "credential", !.op = "sign_in", !.cer = w, !.cut = c]
  OBVIOUS
<1>5. /\ x \in RequestState /\ x.pc = "credential" /\ x.key = None /\ x.todo = {}
      /\ x.cut = c /\ x.cer = w
  BY <1>3, <1>4, IdleState DEF RequestState, Pcs, Ops
<1>6. Becomes(r, x)
  BY <1>2, <1>4 DEF ReadAuthentication, Becomes
<1>7. Carries(x) /\ Knows(x)
  BY <1>3, <1>5 DEF Carries, Knows, Entering
<1>8. QED BY <1>1, <1>5, <1>6, <1>7, NothingWritten, RequestStep

LEMMA LeadsToPasskey ==
    ASSUME Types, CredentialInv, PasskeyInv, Reads, NEW r \in Request, NEW p \in Passkey,
           NEW pc \in Signing, req[r].pc \in Signing,
           req' = [req EXCEPT ![r].pc = pc, ![r].pk = p]
    PROVE  StepFacts
<1>1. req \in [Request -> RequestState] /\ req[r] \in RequestState /\ pc \in Pcs
  BY DEF Types, RequestTypes, Signing, Pcs
<1>2. PICK x : x = [req[r] EXCEPT !.pc = pc, !.pk = p]
  OBVIOUS
<1>3. /\ x \in RequestState /\ x.pc = pc /\ x.key = req[r].key /\ x.cut = req[r].cut
      /\ x.todo = req[r].todo /\ x.pk = p /\ x.cer = req[r].cer
  BY <1>1, <1>2 DEF RequestState
<1>4. Becomes(r, x)
  BY <1>1, <1>2 DEF Becomes
<1>5. Carries(x) /\ Knows(x) /\ x.pc # "recycle"
  BY <1>3, SigningFits
<1>6. QED BY <1>4, <1>5, NothingWritten, RequestStep

LEMMA FindPasskeyStep ==
    ASSUME Types, CredentialInv, PasskeyInv, NEW r \in Request, NEW x \in Credential,
           SqlFindPasskey(r, x) \/ DynFindLookup(r, x) \/ DynFindPasskey(r)
    PROVE  StepFacts
<1>1. Reads /\ req[r].pc \in Signing
  BY Zenon DEF SqlFindPasskey, DynFindLookup, DynFindPasskey, Reads, Signing
<1>2. CASE Refuse(r)
  BY <1>1, <1>2, NothingWritten, AnswerStep
<1>3. ASSUME NEW p \in LivePasskeys, req' = [req EXCEPT ![r].pc = "assert", ![r].pk = p]
      PROVE  StepFacts
  <2>1. p \in Passkey /\ "assert" \in Signing
    BY DEF LivePasskeys, Signing
  <2>2. QED BY <1>1, <1>3, <2>1, LeadsToPasskey
<1>4. ASSUME lookup[x] # None, req' = [req EXCEPT ![r].pc = "passkey", ![r].pk = lookup[x]]
      PROVE  StepFacts
  <2>1. PICK p \in Passkey : p = lookup[x]
    BY <1>4 DEF Types, PasskeyTypes
  <2>2. "passkey" \in Signing /\ req' = [req EXCEPT ![r].pc = "passkey", ![r].pk = p]
    BY <1>4, <2>1 DEF Signing
  <2>3. QED BY <1>1, <2>2, LeadsToPasskey
<1>5. ASSUME req[r].pc = "passkey", req' = [req EXCEPT ![r].pc = "assert"] PROVE StepFacts
  <2>1. RequestTypes /\ "assert" \in Pcs /\ req[r].pk \in Passkey
    BY <1>5 DEF Types, RequestTypes, Carries, Pcs
  <2>2. PICK y : Becomes(r, y) /\ GoesOn(r, y, "assert")
    BY <1>5, <2>1, PcMoves
  <2>3. Carries(y) /\ Knows(y) /\ y.pc # "recycle"
    BY <1>1, <2>1, <2>2, SigningFits DEF GoesOn, Signing
  <2>4. QED BY <1>1, <2>2, <2>3, NothingWritten, RequestStep
<1>6. CASE SqlFindPasskey(r, x)
  BY <1>2, <1>3, <1>6, Zenon DEF SqlFindPasskey
<1>7. CASE DynFindLookup(r, x)
  BY <1>2, <1>4, <1>7, Zenon DEF DynFindLookup
<1>8. CASE DynFindPasskey(r)
  BY <1>2, <1>5, <1>8, Zenon DEF DynFindPasskey
<1>9. QED BY <1>6, <1>7, <1>8

LEMMA Registered ==
    ASSUME Types, PasskeyInv, backend' = backend, NEW p \in Passkey, NEW x \in Credential,
           passkey[p].row = "none", passkey' = [passkey EXCEPT ![p] = [row |-> "live", cred |-> x]],
           ceremony' \in [Ceremony -> AuthChallenge],
           \/ /\ backend = "sqlx" /\ lookup' = lookup
              /\ \A q \in LivePasskeys : passkey[q].cred # x
           \/ /\ backend = "dynamodb" /\ lookup[x] = None /\ lookup' = [lookup EXCEPT ![x] = p]
    PROVE  PasskeyPart
<1>1. PICK y : y = [row |-> "live", cred |-> x]
  OBVIOUS
<1>2. y \in PasskeyCredential /\ y.row = "live" /\ y.cred = x
  BY <1>1 DEF PasskeyCredential
<1>3. passkey \in [Passkey -> PasskeyCredential] /\ lookup \in [Credential -> Passkey \cup {None}]
  BY DEF Types, PasskeyTypes
<1>4. /\ passkey' \in [Passkey -> PasskeyCredential] /\ passkey'[p] = y
      /\ \A q \in Passkey : q # p => passkey'[q] = passkey[q]
  BY <1>1, <1>2, <1>3
<1>5. LivePasskeys' = LivePasskeys \cup {p} /\ p \notin LivePasskeys
  BY <1>2, <1>4 DEF LivePasskeys
<1>6. \A q \in LivePasskeys : passkey[q].cred # x /\ q # p /\ q \in Passkey
                              /\ passkey[q].cred \in Credential
  <2>1. \A q \in LivePasskeys : q # p /\ q \in Passkey /\ passkey[q].cred \in Credential
    BY <1>5 DEF LivePasskeys, Types, PasskeyTypes
  <2>2. CASE backend = "sqlx"
    BY <2>1, <2>2
  <2>3. CASE backend = "dynamodb"
    <3>1. lookup[x] = None /\ None \notin Passkey
      BY <2>3, AccountCredentialsAssumptions
    <3>2. \A q \in LivePasskeys : lookup[passkey[q].cred] = q
      BY <2>3 DEF PasskeyInv, LookupsLead
    <3>3. QED BY <2>1, <3>1, <3>2
  <2>4. QED BY <2>2, <2>3
<1>7. PasskeysDiffer'
  BY <1>2, <1>4, <1>5, <1>6 DEF PasskeysDiffer, PasskeyInv
<1>8. LookupsLead'
  <2>1. SUFFICES ASSUME backend = "dynamodb" PROVE LookupsLead'
    BY DEF LookupsLead
  <2>2. /\ lookup'[x] = p /\ \A z \in Credential : z # x => lookup'[z] = lookup[z]
    BY <1>3, <2>1
  <2>3. \A q \in LivePasskeys' : lookup'[passkey'[q].cred] = q
    BY <1>2, <1>4, <1>5, <1>6, <2>1, <2>2 DEF PasskeyInv, LookupsLead
  <2>4. \A z \in Credential : lookup'[z] # None =>
            lookup'[z] \in LivePasskeys' /\ passkey'[lookup'[z]].cred = z
    BY <1>2, <1>4, <1>5, <1>6, <2>1, <2>2 DEF PasskeyInv, LookupsLead
  <2>5. QED BY <2>3, <2>4 DEF LookupsLead
<1>9. PasskeyTypes'
  <2>1. \A q \in Passkey : passkey'[q].row # "none" => passkey'[q].cred \in Credential
    BY <1>2, <1>4 DEF Types, PasskeyTypes
  <2>2. lookup' \in [Credential -> Passkey \cup {None}]
    BY <1>3
  <2>3. QED BY <1>4, <2>1, <2>2 DEF PasskeyTypes
<1>10. QED BY <1>7, <1>8, <1>9 DEF PasskeyPart, PasskeyInv

LEMMA Unregistered ==
    ASSUME Types, PasskeyInv, UNCHANGED <<backend, ceremony>>, NEW p \in Passkey,
           passkey[p].row = "live", passkey' = [passkey EXCEPT ![p].row = "revoked"],
           \/ backend = "sqlx" /\ lookup' = lookup
           \/ lookup' = [lookup EXCEPT ![passkey[p].cred] = None]
    PROVE  PasskeyPart
<1>1. PICK y : y = [passkey[p] EXCEPT !.row = "revoked"]
  OBVIOUS
<1>2. /\ passkey \in [Passkey -> PasskeyCredential] /\ passkey[p] \in PasskeyCredential
      /\ lookup \in [Credential -> Passkey \cup {None}]
  BY DEF Types, PasskeyTypes
<1>3. y \in PasskeyCredential /\ y.row = "revoked" /\ y.cred = passkey[p].cred
  BY <1>1, <1>2 DEF PasskeyCredential
<1>4. passkey' = [passkey EXCEPT ![p] = y]
  BY <1>1, <1>2
<1>5. /\ passkey' \in [Passkey -> PasskeyCredential] /\ passkey'[p] = y
      /\ \A q \in Passkey : q # p => passkey'[q] = passkey[q]
  BY <1>2, <1>3, <1>4
<1>6. LivePasskeys' = LivePasskeys \ {p} /\ p \in LivePasskeys
  BY <1>3, <1>5 DEF LivePasskeys
<1>7. /\ passkey[p].cred \in Credential
      /\ \A q \in LivePasskeys : q \in Passkey /\ passkey[q].cred \in Credential
  BY DEF LivePasskeys, Types, PasskeyTypes
<1>8. PasskeysDiffer'
  BY <1>5, <1>6, <1>7 DEF PasskeysDiffer, PasskeyInv
<1>9. LookupsLead'
  <2>1. SUFFICES ASSUME backend = "dynamodb" PROVE LookupsLead'
    BY DEF LookupsLead
  <2>2. /\ lookup'[passkey[p].cred] = None
        /\ \A z \in Credential : z # passkey[p].cred => lookup'[z] = lookup[z]
    BY <1>2, <1>7, <2>1
  <2>3. \A q \in LivePasskeys' : lookup'[passkey'[q].cred] = q
    <3>1. \A q \in LivePasskeys' : q # p /\ passkey'[q] = passkey[q] /\ passkey[q].cred # passkey[p].cred
      BY <1>5, <1>6, <1>7 DEF PasskeyInv, PasskeysDiffer
    <3>2. QED BY <1>6, <1>7, <2>1, <2>2, <3>1 DEF PasskeyInv, LookupsLead
  <2>4. \A z \in Credential : lookup'[z] # None =>
            lookup'[z] \in LivePasskeys' /\ passkey'[lookup'[z]].cred = z
    <3>1. SUFFICES ASSUME NEW z \in Credential, lookup'[z] # None
                   PROVE  lookup'[z] \in LivePasskeys' /\ passkey'[lookup'[z]].cred = z
      OBVIOUS
    <3>2. z # passkey[p].cred /\ lookup'[z] = lookup[z]
      BY <2>2, <3>1
    <3>3. lookup[z] \in LivePasskeys /\ passkey[lookup[z]].cred = z
      BY <2>1, <3>1, <3>2 DEF PasskeyInv, LookupsLead
    <3>4. lookup[z] # p
      BY <3>2, <3>3
    <3>5. QED BY <1>5, <1>6, <1>7, <3>2, <3>3, <3>4
  <2>5. QED BY <2>3, <2>4 DEF LookupsLead
<1>10. PasskeyTypes'
  <2>1. \A q \in Passkey : passkey'[q].row # "none" => passkey'[q].cred \in Credential
    BY <1>3, <1>5, <1>7 DEF Types, PasskeyTypes
  <2>2. lookup' \in [Credential -> Passkey \cup {None}]
    BY <1>2
  <2>3. QED BY <1>5, <2>1, <2>2 DEF PasskeyTypes, Types
<1>11. QED BY <1>8, <1>9, <1>10 DEF PasskeyPart, PasskeyInv

LEMMA RegisterStep ==
    ASSUME Types, CredentialInv, PasskeyInv, NEW r \in Request, NEW p \in Passkey,
           NEW x \in Credential, SqlRegister(r, p, x) \/ DynRegister(r, p, x)
    PROVE  StepFacts
<1>1. /\ req[r].pc = "register" /\ passkey[p].row = "none"
      /\ UNCHANGED <<backend, workload, active, session, minted, key, ended, rush>>
  BY DEF SqlRegister, DynRegister
<1>2. req[r].cut = "no"
  BY <1>1, Uncut
<1>3. StoreAges /\ NoNewRows
  <2>1. rush' \in [Key -> Nat]
    BY <1>1 DEF Types, StoreTypes
  <2>2. QED BY <1>1, <2>1, StoreStays
<1>4. PICK w \in Ceremony : w = req[r].cer
  BY <1>1 DEF Types, RequestTypes, Carries
<1>5. CASE Refuse(r) /\ UNCHANGED <<passkey, lookup, ceremony>>
  <2>1. PasskeyPart
    BY <1>1, <1>5, PasskeysUntouched
  <2>2. QED BY <1>3, <1>5, <2>1, AnswerStep
<1>6. CASE /\ Finish(r) /\ Consume(req[r].cer)
           /\ passkey' = [passkey EXCEPT ![p] = [row |-> "live", cred |-> x]]
           /\ \/ /\ backend = "sqlx" /\ lookup' = lookup
                 /\ \A q \in LivePasskeys : passkey[q].cred # x
              \/ backend = "dynamodb" /\ lookup[x] = None /\ lookup' = [lookup EXCEPT ![x] = p]
  <2>1. ceremony' \in [Ceremony -> AuthChallenge]
    BY <1>4, <1>6, Consumed
  <2>2. PasskeyPart
    BY <1>1, <1>6, <2>1, Registered
  <2>3. QED BY <1>2, <1>3, <1>6, <2>2, AnswerStep
<1>7. CASE SqlRegister(r, p, x)
  BY <1>5, <1>6, <1>7, Zenon DEF SqlRegister
<1>8. CASE DynRegister(r, p, x)
  BY <1>5, <1>6, <1>8, Zenon DEF DynRegister
<1>9. QED BY <1>7, <1>8

LEMMA RevokePasskeyStep ==
    ASSUME Types, CredentialInv, PasskeyInv, NEW r \in Request, NEW p \in Passkey,
           SqlRevokePasskey(r, p) \/ (DynRevokePasskey(r) /\ p = req[r].pk)
    PROVE  StepFacts
<1>1. /\ req[r].pc \in {"allowed", "unlink"}
      /\ UNCHANGED <<backend, workload, active, session, minted, key, ceremony, ended, rush>>
  BY DEF SqlRevokePasskey, DynRevokePasskey, Doing
<1>2. req[r].cut = "no"
  BY <1>1, Uncut
<1>3. StoreAges /\ NoNewRows
  <2>1. rush' \in [Key -> Nat]
    BY <1>1 DEF Types, StoreTypes
  <2>2. QED BY <1>1, <2>1, StoreStays
<1>4. CASE Refuse(r) /\ UNCHANGED <<passkey, lookup>>
  <2>1. PasskeyPart
    BY <1>1, <1>4, PasskeysUntouched
  <2>2. QED BY <1>3, <1>4, <2>1, AnswerStep
<1>5. CASE /\ Finish(r) /\ passkey[p].row = "live"
           /\ passkey' = [passkey EXCEPT ![p].row = "revoked"]
           /\ \/ backend = "sqlx" /\ lookup' = lookup
              \/ lookup' = [lookup EXCEPT ![passkey[p].cred] = None]
  <2>1. PasskeyPart
    BY <1>1, <1>5, Unregistered
  <2>2. QED BY <1>2, <1>3, <1>5, <2>1, AnswerStep
<1>6. CASE SqlRevokePasskey(r, p)
  BY <1>4, <1>5, <1>6, Zenon DEF SqlRevokePasskey
<1>7. CASE DynRevokePasskey(r) /\ p = req[r].pk
  BY <1>4, <1>5, <1>7, Zenon DEF DynRevokePasskey, Revocable
<1>8. QED BY <1>6, <1>7

LEMMA SignInStep ==
    ASSUME Types, CredentialInv, PasskeyInv, NEW r \in Request, SignIn(r)
    PROVE  StepFacts
<1>1. /\ req[r].pc = "assert" /\ minted < MaxSession
      /\ UNCHANGED <<backend, workload, active, key, passkey, lookup, ended, rush>>
  BY DEF SignIn
<1>2. CASE Refuse(r) /\ UNCHANGED <<ceremony, minted, session>>
  <2>1. Reads
    BY <1>1, <1>2 DEF Reads
  <2>2. QED BY <1>2, <2>1, NothingWritten, AnswerStep
<1>3. CASE /\ active /\ Consume(req[r].cer) /\ Finish(r) /\ minted' = minted + 1
           /\ session' = [session EXCEPT ![minted + 1] = NewSession(None)]
  <2>1. req[r].cut = "no"
    BY <1>1, <1>3, Uncut
  <2>2. PICK w \in Ceremony : w = req[r].cer
    BY <1>1 DEF Types, RequestTypes, Carries
  <2>3. ceremony' \in [Ceremony -> AuthChallenge]
    BY <1>3, <2>2, Consumed
  <2>4. PasskeyPart
    BY <1>1, <2>3, PasskeysStay
  <2>5. /\ minted \in Nat /\ minted' \in 0..MaxSession /\ minted' >= minted
        /\ minted + 1 \in Sessions /\ minted + 1 > minted
    BY <1>1, <1>3, AccountCredentialsAssumptions DEF Types, StoreTypes, Sessions
  <2>6. PICK n \in Sessions : n = minted + 1
    BY <2>5
  <2>7. session[n].row = "none" /\ session' = [session EXCEPT ![n] = NewSession(None)]
    BY <1>3, <2>5, <2>6 DEF CredentialInv, RanksFresh
  <2>8. /\ StoreAges
        /\ \A s \in Sessions : session[s].row = "none" /\ session'[s].row # "none" => s = n
    BY <1>1, <2>5, <2>7, InsertAges
  <2>9. PICK x : Becomes(r, x) /\ Done(x)
    BY <1>3, <2>1, Finished
  <2>10. Carries(x) /\ Knows(x)' /\ x.pc # "recycle"
    BY <2>9, DoneFits
  <2>11. RankPart(r, x)
    BY <1>3, <2>6, <2>8, <2>10 DEF RankPart
  <2>12. QED BY <2>4, <2>8, <2>9, <2>10, <2>11 DEF StepFacts, RequestPart
<1>4. QED BY <1>2, <1>3, Zenon DEF SignIn

-----------------------------------------------------------------------------
(* Steps that no request takes.                                              *)

LEMMA QuietSteps ==
    ASSUME Types, CredentialInv, PasskeyInv,
           \/ Disable \/ \E s \in Sessions : Expire(s) \/ Purge(s)
           \/ \E w \in Ceremony : StartAuthentication(w)
    PROVE  StepFacts
<1>1. CASE Disable
  <2>1. /\ UNCHANGED <<backend, workload, session, minted, key, passkey, lookup, ceremony, req,
                       ended, rush>>
        /\ active' = FALSE
    BY <1>1 DEF Disable
  <2>2. StoreTypes' /\ KeysAge /\ RowsAge /\ NoNewRows /\ minted' >= minted
    <3>1. active' \in BOOLEAN
      BY <2>1
    <3>2. KeysAge /\ RowsAge /\ NoNewRows /\ minted' >= minted
      BY <2>1 DEF Types, StoreTypes, KeysAge, RowsAge, NoNewRows, Dead
    <3>3. QED BY <2>1, <3>1, <3>2 DEF Types, StoreTypes
  <2>3. EndedAreDead' /\ KeysKnown'
    BY <2>1 DEF CredentialInv, EndedAreDead, KeysKnown, Dead
  <2>4. StoreAges
    BY <2>1, <2>2, <2>3 DEF StoreAges
  <2>5. QED BY <2>1, <2>2, <2>4, PasskeysUntouched DEF StepFacts, QuietPart
<1>2. ASSUME NEW s \in Sessions, Expire(s) \/ Purge(s) PROVE StepFacts
  <2>1. UNCHANGED <<backend, workload, active, minted, key, passkey, lookup, ceremony, req, ended,
                    rush>>
    BY <1>2 DEF Expire, Purge
  <2>2. RowsFade
    <3>1. session \in [Sessions -> AuthSession] /\ session[s] \in AuthSession
      BY DEF Types, StoreTypes
    <3>2. CASE Purge(s)
      BY <3>2, DeletionFades DEF Purge
    <3>3. CASE Expire(s)
      <4>1. PICK e \in {"idle", "absolute"} : session' = [session EXCEPT ![s].expired = e]
        BY <3>3 DEF Expire
      <4>2. PICK y : y = [session[s] EXCEPT !.expired = e]
        OBVIOUS
      <4>3. /\ y \in AuthSession /\ y.row = session[s].row /\ y.key = session[s].key
            /\ y.revoked <=> session[s].revoked
        BY <3>1, <4>1, <4>2 DEF AuthSession
      <4>4. session' = [session EXCEPT ![s] = y]
        BY <3>1, <4>1, <4>2
      <4>5. QED BY <4>3, <4>4, ExpiryFades
    <3>4. QED BY <1>2, <3>2, <3>3
  <2>3. ended' \subseteq Sessions
    BY <2>1 DEF Types, StoreTypes
  <2>4. StoreAges /\ NoNewRows
    BY <2>1, <2>2, <2>3, FadingAges
  <2>5. QED BY <2>1, <2>4, PasskeysUntouched DEF StepFacts, QuietPart
<1>3. ASSUME NEW w \in Ceremony, StartAuthentication(w) PROVE StepFacts
  <2>1. UNCHANGED <<backend, workload, active, session, minted, key, passkey, lookup, req, ended,
                    rush>>
    BY <1>3 DEF StartAuthentication
  <2>2. ceremony' \in [Ceremony -> AuthChallenge]
    BY <1>3 DEF StartAuthentication, Types, PasskeyTypes, AuthChallenge
  <2>3. rush' \in [Key -> Nat]
    BY <2>1 DEF Types, StoreTypes
  <2>4. StoreAges /\ NoNewRows /\ PasskeyPart
    BY <2>1, <2>2, <2>3, StoreStays, PasskeysStay
  <2>5. QED BY <2>1, <2>4 DEF StepFacts, QuietPart
<1>4. QED BY <1>1, <1>2, <1>3

-----------------------------------------------------------------------------
(* The theorems.                                                             *)

LEMMA InitialState ==
    ASSUME Init
    PROVE  Types /\ CredentialInv /\ PasskeyInv
<1>1. /\ FirstOf(Key) \in Key /\ FirstOf(Passkey) \in Passkey
      /\ FirstOf(Credential) \in Credential
      /\ None \notin Key /\ None \notin Passkey /\ None \notin Credential
  BY AccountCredentialsAssumptions DEF FirstOf
<1>2. PICK k \in Key : k = FirstOf(Key)
  BY <1>1
<1>3. PICK p \in Passkey : p = FirstOf(Passkey)
  BY <1>1
<1>4. PICK c \in Credential : c = FirstOf(Credential)
  BY <1>1
<1>5. /\ NewSession(None) \in AuthSession /\ NewSession(k) \in AuthSession
      /\ NoSession \in AuthSession /\ NoSession.row = "none" /\ NoSession.key = None
      /\ NewSession(k).key = k /\ NewSession(None).key = None
  BY DEF NewSession, NoSession, AuthSession
<1>6. /\ session \in [Sessions -> AuthSession]
      /\ \A s \in Sessions : /\ s > 2 => session[s].row = "none"
                             /\ session[s].key \in {None, k}
  <2>1. session = [s \in Sessions |-> CASE s = 1 -> NewSession(None) [] s = 2 -> NewSession(k)
                                        [] OTHER -> NoSession]
    BY <1>2 DEF Init
  <2>2. \A s \in Sessions : /\ s = 1 => session[s] = NewSession(None)
                            /\ s = 2 => session[s] = NewSession(k)
                            /\ s # 1 /\ s # 2 => session[s] = NoSession
    BY <2>1
  <2>3. \A s \in Sessions : s \in Nat /\ session[s] \in AuthSession
    BY <1>5, <2>2 DEF Sessions
  <2>4. QED BY <1>5, <2>1, <2>2, <2>3
<1>7. key \in [Key -> {"none", "live", "revoked"}] /\ key[k] = "live"
  BY <1>2 DEF Init
<1>8. /\ minted = 2 /\ minted \in 0..MaxSession /\ ended = {}
      /\ rush \in [Key -> Nat] /\ backend \in Backends /\ workload \in Workloads
  <2>1. /\ minted = 2 /\ ended = {} /\ rush = [l \in Key |-> 0]
        /\ backend \in Backends /\ workload \in Workloads
    BY DEF Init
  <2>2. MaxSession \in Nat /\ MaxSession # 0 /\ MaxSession # 1
    BY AccountCredentialsAssumptions
  <2>3. QED BY <2>1, <2>2
<1>9. StoreTypes
  <2>1. active \in BOOLEAN
    BY DEF Init
  <2>2. QED BY <1>6, <1>7, <1>8, <2>1 DEF StoreTypes
<1>10. /\ req = [r \in Request |-> Idle] /\ Idle.pc = "idle" /\ Carries(Idle) /\ Knows(Idle)
       /\ Idle \in RequestState
  BY IdleState DEF Init, Carries, Knows, Entering
<1>11. RequestTypes /\ RequestsKnow /\ \A r \in Request : ~Waiting(r)
  BY <1>10 DEF RequestTypes, RequestsKnow, Waiting
<1>12. KeysKnown
  BY <1>6, <1>7 DEF KeysKnown
<1>13. EndedAreDead /\ RanksFresh
  BY <1>6, <1>8, <1>11 DEF EndedAreDead, RanksFresh
<1>14. /\ passkey \in [Passkey -> PasskeyCredential]
       /\ passkey[p].row = "live" /\ passkey[p].cred = c
       /\ \A q \in Passkey : q # p => passkey[q].row = "none"
  <2>1. PICK y : y = [row |-> "live", cred |-> c]
    OBVIOUS
  <2>2. PICK n : n = [row |-> "none", cred |-> None]
    OBVIOUS
  <2>3. /\ y \in PasskeyCredential /\ n \in PasskeyCredential /\ y.row = "live" /\ y.cred = c
        /\ n.row = "none"
    BY <2>1, <2>2 DEF PasskeyCredential
  <2>4. passkey = [q \in Passkey |-> IF q = p THEN y ELSE n]
    BY <1>3, <1>4, <2>1, <2>2 DEF Init
  <2>5. QED BY <2>3, <2>4
<1>15. /\ lookup \in [Credential -> Passkey \cup {None}] /\ lookup[c] = p
       /\ \A x \in Credential : x # c => lookup[x] = None
  BY <1>3, <1>4 DEF Init
<1>16. ceremony \in [Ceremony -> AuthChallenge]
  <2>1. \A w \in Ceremony : [row |-> IF w = FirstOf(Ceremony) THEN "registration" ELSE "none",
                             exclude |-> {}] \in AuthChallenge
    BY DEF AuthChallenge
  <2>2. QED BY <2>1 DEF Init
<1>17. PasskeyTypes
  BY <1>14, <1>15, <1>16 DEF PasskeyTypes
<1>18. LivePasskeys = {p}
  BY <1>14 DEF LivePasskeys
<1>19. PasskeyInv
  BY <1>14, <1>15, <1>18 DEF PasskeyInv, PasskeysDiffer, LookupsLead
<1>20. QED BY <1>8, <1>9, <1>11, <1>12, <1>13, <1>17, <1>19 DEF Types, CredentialInv

LEMMA StepCases ==
    ASSUME Types, CredentialInv, PasskeyInv, [Next]_vars
    PROVE  StepFacts
<1>1. CASE UNCHANGED vars
  <2>1. Reads /\ UNCHANGED <<req, minted>>
    BY <1>1 DEF vars, Reads
  <2>2. QED BY <2>1, NothingWritten DEF StepFacts, QuietPart
<1>2. CASE \/ Disable \/ \E s \in Sessions : Expire(s) \/ Purge(s)
           \/ \E w \in Ceremony : StartAuthentication(w)
  BY <1>2, QuietSteps
<1>3. ASSUME NEW r \in Request, Authenticate(r) PROVE StepFacts
  BY <1>3, ReadSessionStep, ReadApiKeyStep, ReadAccountStep, RevalidateKeyStep, TouchSessionStep,
     ForbidStep DEF Authenticate
<1>4. ASSUME NEW r \in Request, EndSessions(r) PROVE StepFacts
  BY <1>4, LogoutStep, SqlLogoutAllStep, DynLogoutAllStep, RevokeSessionStep, SweepStep
     DEF EndSessions
<1>5. ASSUME NEW r \in Request, ManageKeys(r) PROVE StepFacts
  BY <1>5, CreateApiKeyStep, SqlRevokeApiKeyStep, DynRevokeApiKeyStep, DynListMintedStep,
     ListLoginsStep, RecycleStep, StoreLoginStep DEF ManageKeys
<1>6. ASSUME NEW r \in Request, ManagePasskeys(r) PROVE StepFacts
  <2>1. CASE DynRevokePasskey(r)
    <3>1. PICK p \in Passkey : p = req[r].pk
      BY <2>1 DEF DynRevokePasskey, Types, RequestTypes, Carries
    <3>2. QED BY <2>1, <3>1, RevokePasskeyStep
  <2>2. CASE DynFindPasskey(r)
    <3>1. PICK x \in Credential : TRUE
      BY AccountCredentialsAssumptions
    <3>2. QED BY <2>2, <3>1, FindPasskeyStep
  <2>3. CASE \E w \in Ceremony :
               StartRegistration(r, w) \/ ReadRegistration(r, w) \/ ReadAuthentication(r, w)
    BY <2>3, StartRegistrationStep, ReadRegistrationStep, ReadAuthenticationStep
  <2>4. CASE \E p \in Passkey, x \in Credential : SqlRegister(r, p, x) \/ DynRegister(r, p, x)
    BY <2>4, RegisterStep
  <2>5. CASE \E p \in Passkey : SqlRevokePasskey(r, p) \/ DynReadPasskey(r, p)
    BY <2>5, RevokePasskeyStep, DynReadPasskeyStep
  <2>6. CASE \E x \in Credential : SqlFindPasskey(r, x) \/ DynFindLookup(r, x)
    BY <2>6, FindPasskeyStep
  <2>7. CASE SignIn(r)
    BY <2>7, SignInStep
  <2>8. QED BY <1>6, <2>1, <2>2, <2>3, <2>4, <2>5, <2>6, <2>7 DEF ManagePasskeys
<1>7. QED BY <1>1, <1>2, <1>3, <1>4, <1>5, <1>6, Zenon DEF Next

(* The inductive invariant: the rows keep their types; a request's rows      *)
(* exist and one that came with a dead credential is still to be turned      *)
(* away; ended sessions are dead; ranks are fresh; passkeys and lookup items *)
(* name each other.                                                          *)
THEOREM CredentialInvHolds == Spec => [](Types /\ CredentialInv /\ PasskeyInv)
<1>1. Init => Types /\ CredentialInv /\ PasskeyInv
  BY InitialState
<1>2. Types /\ CredentialInv /\ PasskeyInv /\ [Next]_vars
        => (Types /\ CredentialInv /\ PasskeyInv)'
  BY StepCases, TypesFollow, InvFollows
<1>3. QED BY <1>1, <1>2, PTL DEF Spec

(* Type correctness of the identity store and of what requests remember.     *)
THEOREM TypeCorrect == Spec => []TypeOK
<1>1. Types => TypeOK
  BY DEF Types, StoreTypes, PasskeyTypes, RequestTypes, RequestState, TypeOK
<1>2. QED BY <1>1, CredentialInvHolds, PTL

(* A request that arrives with an Astrometry session of a revoked key is     *)
(* never let in: authenticate_astrometry_session validates the key again, so *)
(* a session the revocation missed is of no use.                             *)
THEOREM RevokedKeyCutsOffHolds == Spec => []RevokedKeyCutsOff
<1>1. CredentialInv => RevokedKeyCutsOff
  BY DEF CredentialInv, RequestsKnow, Knows, RevokedKeyCutsOff, LetIn
<1>2. QED BY <1>1, CredentialInvHolds, PTL

(* A session that was logged out, revoked or swept lets nobody in again,     *)
(* whatever touches and logins were under way, and nothing does once the     *)
(* account is closed.                                                        *)
THEOREM EndedStaysEndedHolds == Spec => []EndedStaysEnded
<1>1. CredentialInv => EndedStaysEnded
  BY DEF CredentialInv, RequestsKnow, Knows, EndedStaysEnded, LetIn
<1>2. QED BY <1>1, CredentialInvHolds, PTL

(* An authenticator has at most one live passkey and on DynamoDB its lookup  *)
(* item leads to it, for any interleaving of registrations and revocations.  *)
THEOREM PasskeyLookupAgreesHolds == Spec => []PasskeyLookupAgrees
<1>1. Types /\ PasskeyInv => PasskeyLookupAgrees
  <2>1. SUFFICES ASSUME Types, PasskeyInv, NEW x \in Credential, NEW L,
                        L = {p \in LivePasskeys : passkey[p].cred = x}
                 PROVE  /\ Cardinality(L) <= 1
                        /\ backend = "dynamodb" => L = {lookup[x]} \ {None}
    BY DEF PasskeyLookupAgrees
  <2>2. Cardinality(L) <= 1
    <3>1. CASE L = {}
      <4>1. Cardinality(L) = 0
        BY <3>1, FS_EmptySet
      <4>2. QED BY <4>1
    <3>2. CASE L # {}
      <4>1. PICK p : p \in L
        BY <3>2
      <4>2. L = {p}
        BY <2>1, <4>1 DEF PasskeyInv, PasskeysDiffer
      <4>3. Cardinality({p}) = 1
        BY FS_Singleton
      <4>4. QED BY <4>2, <4>3
    <3>3. QED BY <3>1, <3>2
  <2>3. ASSUME backend = "dynamodb" PROVE L = {lookup[x]} \ {None}
    <3>1. /\ \A p \in LivePasskeys : lookup[passkey[p].cred] = p
          /\ lookup[x] # None => lookup[x] \in LivePasskeys /\ passkey[lookup[x]].cred = x
      BY <2>1, <2>3 DEF PasskeyInv, LookupsLead
    <3>2. None \notin LivePasskeys
      BY AccountCredentialsAssumptions DEF LivePasskeys
    <3>3. QED BY <2>1, <3>1, <3>2
  <2>4. QED BY <2>2, <2>3
<1>2. QED BY <1>1, CredentialInvHolds, PTL

-----------------------------------------------------------------------------
(* How many sessions a key can have: the invariant.                          *)

(* A session that works and was never extended after its idle expiry.        *)
FreshRow(s) == session[s].row = "stored" /\ ~session[s].revoked /\ session[s].expired = "no"
Fresh(k) == {s \in Sessions : FreshRow(s) /\ session[s].key = k}

(* The logins of a key that have drawn a rank, and the ranks they drew.      *)
Waits(k) == {r \in Request : Waiting(r) /\ req[r].key = k}
WaitRanks(k) == {req[r].s : r \in Waits(k)}

(* Logins under way are counted while they are under way.                    *)
WaitersLogIn == \A r \in Request : Waiting(r) => req[r].op = "login"
LoginsCounted == \A k \in Key : Cardinality(LoggingIn(k)) <= rush[k]

(* How many sessions of its key may be older than a new one: one fewer than  *)
(* the limit, and one for each login that overlapped another.                *)
Allowed(k) == MaxLogins - 1 + (IF rush[k] > 1 THEN rush[k] - 1 ELSE 0)

(* The older sessions a waiting login will leave behind when its own is      *)
(* stored, counting the logins that drew a lower rank and are not done ...   *)
AheadOf(r) ==
    {t \in Sessions : /\ t < req[r].s
                      /\ t \in (Fresh(req[r].key) \ req[r].todo) \cup WaitRanks(req[r].key)}
WaitersFit == \A k \in Key : \A r \in Waits(k) : Cardinality(AheadOf(r)) <= Allowed(k)

(* ... and those that are older than a stored session.                       *)
Before(k, s) == {t \in Sessions : t < s /\ t \in Fresh(k) \cup WaitRanks(k)}
FreshFit == \A k \in Key : \A s \in Fresh(k) : Cardinality(Before(k, s)) <= Allowed(k)

LoginInv == WaitersLogIn /\ LoginsCounted /\ WaitersFit /\ FreshFit

-----------------------------------------------------------------------------
(* Counting sessions.                                                        *)

LEMMA FewerSessions ==
    ASSUME NEW B \in SUBSET Sessions, NEW A \in SUBSET B
    PROVE  /\ IsFiniteSet(A) /\ IsFiniteSet(B) /\ Cardinality(A) \in Nat /\ Cardinality(B) \in Nat
           /\ Cardinality(A) <= Cardinality(B)
<1>1. IsFiniteSet(Sessions)
  BY AccountCredentialsAssumptions, FS_Interval DEF Sessions
<1>2. IsFiniteSet(B)
  BY <1>1, FS_Subset
<1>3. QED BY <1>2, FS_Subset, FS_CardinalityType

(* A set of sessions that is not empty has a least rank and a greatest rank. *)
LEMMA LeastRank ==
    ASSUME NEW A, A \subseteq Nat, A # {}
    PROVE  \E m \in A : \A n \in A : m <= n
<1>1. PICK m \in A : \A n \in A : <<n, m>> \notin OpToRel(<, Nat)
  BY WFMin, NatLessThanWellFounded
<1>2. ASSUME NEW n \in A PROVE m <= n
  <2>1. n \in Nat /\ m \in Nat
    OBVIOUS
  <2>2. ~(n < m)
    BY <1>1, <2>1 DEF OpToRel
  <2>3. QED BY <2>1, <2>2
<1>3. QED BY <1>2

LEMMA GreatestRank ==
    ASSUME NEW A \in SUBSET Sessions, A # {}
    PROVE  \E m \in A : \A n \in A : n <= m
<1>1. MaxSession \in Nat /\ \A n \in A : n \in Nat /\ n <= MaxSession
  BY AccountCredentialsAssumptions DEF Sessions
<1>2. PICK B : B = {b \in Nat : \A n \in A : n <= b}
  OBVIOUS
<1>3. B \subseteq Nat /\ MaxSession \in B
  BY <1>1, <1>2
<1>4. PICK m \in B : \A b \in B : m <= b
  BY <1>3, LeastRank
<1>5. m \in Nat /\ \A n \in A : n <= m
  BY <1>2, <1>4
<1>6. m \in A
  <2>1. SUFFICES ASSUME m \notin A PROVE FALSE
    OBVIOUS
  <2>2. \A n \in A : n < m
    BY <1>1, <1>5, <2>1
  <2>3. m # 0
    BY <1>1, <2>2
  <2>4. m - 1 \in Nat /\ \A n \in A : n <= m - 1
    BY <1>1, <1>5, <2>2, <2>3
  <2>5. m - 1 \in B
    BY <1>2, <2>4
  <2>6. QED BY <1>4, <1>5, <2>5
<1>7. QED BY <1>5, <1>6

(* Without its n oldest, a set of sessions has n fewer, or none.             *)
LEMMA OldestLeave ==
    ASSUME NEW S \in SUBSET Sessions, NEW n \in Nat, n <= Cardinality(S)
    PROVE  Cardinality(S \ Oldest(S, n)) <= Cardinality(S) - n
<1>1. PICK R : R = S \ Oldest(S, n)
  BY Zenon
<1>2. R \in SUBSET S /\ R \in SUBSET Sessions /\ \A t \in S : t \in Nat
  <2>1. R \subseteq S /\ R \subseteq Sessions
    BY <1>1, Zenon
  <2>2. \A t \in S : t \in Nat
    BY AccountCredentialsAssumptions DEF Sessions
  <2>3. QED BY <2>1, <2>2
<1>3. /\ IsFiniteSet(S) /\ IsFiniteSet(R) /\ Cardinality(S) \in Nat /\ Cardinality(R) \in Nat
  BY <1>2, FewerSessions
<1>4. CASE R = {}
  <2>1. Cardinality(R) = 0
    BY <1>4, FS_EmptySet
  <2>2. Cardinality(S) - n >= 0
    BY <1>3
  <2>3. QED BY <1>1, <2>1, <2>2
<1>5. CASE R # {}
  <2>1. R \subseteq Nat
    BY <1>2
  <2>2. PICK m \in R : \A t \in R : m <= t
    BY <1>5, <2>1, LeastRank
  <2>3. PICK B : B = {t \in S : t < m}
    OBVIOUS
  <2>4. /\ B \in SUBSET S /\ B \in SUBSET Sessions /\ IsFiniteSet(B) /\ Cardinality(B) \in Nat
    BY <1>2, <2>3, FewerSessions
  <2>5. Cardinality(B) >= n
    <3>1. m \in S /\ m \notin Oldest(S, n)
      BY <1>1, <2>2
    <3>2. ~(Cardinality(B) < n)
      <4>1. Cardinality({t \in S : t < m}) < n => m \in Oldest(S, n)
        BY <3>1, Zenon DEF Oldest
      <4>2. QED BY <2>3, <3>1, <4>1, Zenon
    <3>3. QED BY <2>4, <3>2
  <2>6. R \cap B = {}
    <3>1. ASSUME NEW t \in R, t \in B PROVE FALSE
      <4>1. t \in Nat /\ m \in Nat /\ m <= t /\ t < m
        BY <1>2, <2>2, <2>3, <3>1
      <4>2. QED BY <4>1
    <3>2. QED BY <3>1
  <2>7. Cardinality(R \cup B) = Cardinality(R) + Cardinality(B)
    <3>1. Cardinality(R \cup B) = Cardinality(R) + Cardinality(B) - Cardinality(R \cap B)
      BY <1>3, <2>4, FS_Union
    <3>2. Cardinality(R \cap B) = 0
      BY <2>6, FS_EmptySet
    <3>3. QED BY <1>3, <2>4, <3>1, <3>2
  <2>8. Cardinality(R \cup B) \in Nat /\ Cardinality(R \cup B) <= Cardinality(S)
    <3>1. R \cup B \in SUBSET S
      BY <1>2, <2>4
    <3>2. QED BY <3>1, FewerSessions
  <2>9. Cardinality(R) <= Cardinality(S) - n
    BY <1>3, <2>4, <2>5, <2>7, <2>8
  <2>10. QED BY <1>1, <2>9
<1>6. QED BY <1>4, <1>5

-----------------------------------------------------------------------------
(* Steps that let nobody draw a rank.                                        *)

LEMMA LoginTypes ==
    ASSUME Types
    PROVE  /\ MaxLogins \in Nat /\ \A k \in Key : rush[k] \in Nat
           /\ \A k \in Key : Allowed(k) \in Nat
           /\ \A r \in Request : Waiting(r) => req[r].s \in Sessions /\ req[r].key \in Key
           /\ \A s \in Sessions : s \in Nat
BY AccountCredentialsAssumptions
   DEF Types, StoreTypes, RequestTypes, Carries, Waiting, Allowed, Sessions

(* A login that goes on waiting keeps its rank, and what it strikes off its  *)
(* list no longer works.                                                     *)
Narrows(r) ==
    Waiting(r)' =>
        /\ Waiting(r) /\ req'[r].op = req[r].op /\ req'[r].key = req[r].key /\ req'[r].s = req[r].s
        /\ \A s \in req[r].todo : s \in req'[r].todo \/ ~FreshRow(s)'

(* The login stores the session it waited to store.                          *)
Stores(r, s) ==
    Waiting(r) /\ req[r].s = s /\ session'[s].key = req[r].key /\ req[r].todo = {}

(* A session of a key that works did so before, or one that waited and had   *)
(* deleted all it had to has stored it.                                      *)
FreshAges ==
    \A s \in Sessions : FreshRow(s)' /\ session'[s].key \in Key =>
        \/ FreshRow(s) /\ session'[s].key = session[s].key
        \/ \E r \in Request : Stores(r, s)

NarrowingStep ==
    /\ \A r \in Request : Narrows(r)
    /\ FreshAges
    /\ \A k \in Key : rush[k] <= rush'[k]

LEMMA WaitsNarrow ==
    ASSUME NarrowingStep, NEW k \in Key
    PROVE  /\ Waits(k)' \subseteq Waits(k)
           /\ WaitRanks(k)' \subseteq WaitRanks(k)
           /\ \A s \in Fresh(k)' : s \in Fresh(k) \cup WaitRanks(k)
<1>1. \A r \in Waits(k)' : r \in Waits(k) /\ req'[r].s = req[r].s
  BY DEF NarrowingStep, Narrows, Waits
<1>2. WaitRanks(k)' \subseteq WaitRanks(k)
  BY <1>1 DEF WaitRanks
<1>3. \A s \in Fresh(k)' : s \in Fresh(k) \cup WaitRanks(k)
  <2>1. SUFFICES ASSUME NEW s \in Fresh(k)' PROVE s \in Fresh(k) \cup WaitRanks(k)
    OBVIOUS
  <2>2. s \in Sessions /\ FreshRow(s)' /\ session'[s].key = k
    BY <2>1 DEF Fresh
  <2>3. CASE FreshRow(s) /\ session'[s].key = session[s].key
    BY <2>2, <2>3 DEF Fresh
  <2>4. ASSUME NEW r \in Request, Stores(r, s) PROVE s \in WaitRanks(k)
    BY <2>2, <2>4 DEF Stores, WaitRanks, Waits
  <2>5. QED BY <2>2, <2>3, <2>4 DEF NarrowingStep, FreshAges
<1>4. QED BY <1>1, <1>2, <1>3

LEMMA MoreAllowed ==
    ASSUME Types, StoreTypes', NarrowingStep, NEW k \in Key
    PROVE  Allowed(k) \in Nat /\ Allowed(k)' \in Nat /\ Allowed(k) <= Allowed(k)'
<1>1. rush[k] \in Nat /\ rush'[k] \in Nat /\ rush[k] <= rush'[k] /\ MaxLogins \in Nat \ {0}
  BY AccountCredentialsAssumptions DEF Types, StoreTypes, NarrowingStep
<1>2. QED BY <1>1 DEF Allowed

LEMMA WaitersFitStill ==
    ASSUME Types, StoreTypes', NarrowingStep, WaitersFit
    PROVE  WaitersFit'
<1>1. SUFFICES ASSUME NEW k \in Key, NEW r \in Waits(k)'
               PROVE  Cardinality(AheadOf(r)') <= Allowed(k)'
  BY DEF WaitersFit
<1>2. /\ r \in Waits(k) /\ r \in Request /\ Waiting(r)' /\ req'[r].key = k
      /\ req[r].key = k /\ req'[r].s = req[r].s
      /\ \A s \in req[r].todo : s \in req'[r].todo \/ ~FreshRow(s)'
  BY <1>1, WaitsNarrow DEF Waits, NarrowingStep, Narrows
<1>3. AheadOf(r)' \subseteq AheadOf(r)
  <2>1. SUFFICES ASSUME NEW t \in AheadOf(r)' PROVE t \in AheadOf(r)
    OBVIOUS
  <2>2. /\ t \in Sessions /\ t < req'[r].s
        /\ t \in (Fresh(k)' \ req'[r].todo) \cup WaitRanks(k)'
    BY <1>2, <2>1 DEF AheadOf
  <2>3. CASE t \in WaitRanks(k)
    BY <1>2, <2>2, <2>3 DEF AheadOf
  <2>4. CASE t \in Fresh(k)' /\ t \notin req'[r].todo /\ t \in Fresh(k)
    <3>1. FreshRow(t)'
      BY <2>4 DEF Fresh
    <3>2. t \notin req[r].todo
      BY <1>2, <2>4, <3>1
    <3>3. QED BY <1>2, <2>2, <2>4, <3>2 DEF AheadOf
  <2>5. QED BY <2>2, <2>3, <2>4, WaitsNarrow
<1>4. AheadOf(r) \in SUBSET Sessions
  BY DEF AheadOf
<1>5. Cardinality(AheadOf(r)) <= Allowed(k)
  BY <1>2 DEF WaitersFit
<1>6. PICK A, B : A = AheadOf(r)' /\ B = AheadOf(r)
  OBVIOUS
<1>7. /\ Cardinality(A) \in Nat /\ Cardinality(B) \in Nat /\ Cardinality(A) <= Cardinality(B)
      /\ Cardinality(B) <= Allowed(k)
  BY <1>3, <1>4, <1>5, <1>6, FewerSessions
<1>8. QED BY <1>6, <1>7, MoreAllowed

LEMMA FreshFitStill ==
    ASSUME Types, StoreTypes', NarrowingStep, WaitersFit, FreshFit
    PROVE  FreshFit'
<1>1. SUFFICES ASSUME NEW k \in Key, NEW s \in Fresh(k)'
               PROVE  Cardinality(Before(k, s)') <= Allowed(k)'
  BY DEF FreshFit
<1>2. PICK A : A = Before(k, s)'
  OBVIOUS
<1>3. A \subseteq Before(k, s)
  BY <1>2, WaitsNarrow DEF Before
<1>4. Before(k, s) \in SUBSET Sessions
  BY DEF Before
<1>5. \E B \in SUBSET Sessions : A \subseteq B /\ Cardinality(B) <= Allowed(k)
  <2>1. CASE s \in Fresh(k)
    BY <1>3, <1>4, <2>1 DEF FreshFit
  <2>2. CASE s \notin Fresh(k)
    <3>1. s \in Sessions /\ FreshRow(s)' /\ session'[s].key = k
      BY <1>1 DEF Fresh
    <3>2. PICK r \in Request : Stores(r, s)
      BY <2>2, <3>1 DEF NarrowingStep, FreshAges, Fresh
    <3>3. r \in Waits(k) /\ req[r].key = k /\ req[r].s = s /\ req[r].todo = {}
      BY <3>1, <3>2 DEF Stores, Waits
    <3>4. Before(k, s) = AheadOf(r)
      BY <3>3 DEF Before, AheadOf
    <3>5. QED BY <1>3, <1>4, <3>3, <3>4 DEF WaitersFit
  <2>3. QED BY <2>1, <2>2
<1>6. PICK B \in SUBSET Sessions : A \subseteq B /\ Cardinality(B) <= Allowed(k)
  BY <1>5
<1>7. Cardinality(A) \in Nat /\ Cardinality(B) \in Nat /\ Cardinality(A) <= Cardinality(B)
  BY <1>6, FewerSessions
<1>8. QED BY <1>2, <1>6, <1>7, MoreAllowed

(* The logins under way of a key become no more.                             *)
LEMMA LoginsCountedStill ==
    ASSUME Types, StoreTypes', LoginsCounted, NEW k \in Key, rush[k] <= rush'[k],
           \A r \in Request : req'[r].op = "login" /\ req'[r].key = k
                => req[r].op = "login" /\ req[r].key = k
    PROVE  Cardinality(LoggingIn(k)') <= rush'[k]
<1>1. LoggingIn(k)' \subseteq LoggingIn(k) /\ LoggingIn(k) \subseteq Request
  BY DEF LoggingIn
<1>2. PICK A, B : A = LoggingIn(k)' /\ B = LoggingIn(k)
  OBVIOUS
<1>3. IsFiniteSet(B) /\ IsFiniteSet(A) /\ Cardinality(A) <= Cardinality(B)
  BY <1>1, <1>2, AccountCredentialsAssumptions, FS_Subset
<1>4. Cardinality(A) \in Nat /\ Cardinality(B) \in Nat
  BY <1>3, FS_CardinalityType
<1>5. rush[k] \in Nat /\ rush'[k] \in Nat
  BY DEF Types, StoreTypes
<1>6. QED BY <1>2, <1>3, <1>4, <1>5 DEF LoginsCounted

(* Most steps: no session starts to work for a key, no request starts to log *)
(* in or to wait with a rank.                                                *)
FreshFades ==
    \A s \in Sessions : FreshRow(s)' /\ session'[s].key \in Key =>
        FreshRow(s) /\ session'[s].key = session[s].key
NoLogin(r, x) ==
    x.pc # "recycle" /\ (x.op = "login" => req[r].op = "login" /\ x.key = req[r].key)
Quietly(r) == \E x : Becomes(r, x) /\ NoLogin(r, x)
CalmStep == rush' = rush /\ FreshFades /\ (req' = req \/ \E r \in Request : Quietly(r))

LEMMA CalmKeeps ==
    ASSUME Types, StoreTypes', LoginInv, CalmStep
    PROVE  LoginInv'
<1>1. \A q \in Request :
        \/ req'[q] = req[q]
        \/ req'[q].pc # "recycle" /\ (req'[q].op = "login" => req[q].op = "login" /\ req'[q].key = req[q].key)
  BY DEF CalmStep, Quietly, Becomes, NoLogin, Types, RequestTypes
<1>2. \A k \in Key : rush[k] <= rush'[k]
  BY DEF CalmStep, Types, StoreTypes
<1>3. \A q \in Request : Narrows(q)
  BY <1>1 DEF Narrows, Waiting
<1>4. NarrowingStep
  BY <1>2, <1>3 DEF NarrowingStep, FreshAges, CalmStep, FreshFades
<1>5. WaitersFit' /\ FreshFit'
  BY <1>4, WaitersFitStill, FreshFitStill DEF LoginInv
<1>6. WaitersLogIn'
  BY <1>3 DEF Narrows, LoginInv, WaitersLogIn
<1>7. LoginsCounted'
  BY <1>1, <1>2, LoginsCountedStill DEF LoginInv, LoginsCounted
<1>8. QED BY <1>5, <1>6, <1>7 DEF LoginInv

-----------------------------------------------------------------------------
(* What the steps do, one kind of step at a time.                            *)

LEMMA QuietlyRefused ==
    ASSUME NEW r \in Request, Refuse(r)
    PROVE  Quietly(r)
<1>1. PICK x : x = At("done")
  OBVIOUS
<1>2. x.pc = "done" /\ x.op = "view"
  BY <1>1, IdleState DEF At, RequestState
<1>3. QED BY <1>1, <1>2 DEF Refuse, Quietly, Becomes, NoLogin

LEMMA QuietlyFinished ==
    ASSUME NEW r \in Request, Finish(r)
    PROVE  Quietly(r)
<1>1. PICK y : y = At("done")
  OBVIOUS
<1>2. y.pc = "done" /\ y.op = "view" /\ y \in RequestState
  BY <1>1, IdleState, AtDone DEF At, RequestState, Done
<1>3. PICK x : x = [y EXCEPT !.cut = req[r].cut]
  OBVIOUS
<1>4. x.pc = "done" /\ x.op = "view"
  BY <1>2, <1>3 DEF RequestState
<1>5. Becomes(r, x)
  BY <1>1, <1>3 DEF Finish, Becomes
<1>6. QED BY <1>4, <1>5 DEF Quietly, NoLogin

LEMMA QuietlyMoved ==
    ASSUME RequestTypes, NEW r \in Request, NEW p \in Pcs, p # "recycle",
           req' = [req EXCEPT ![r].pc = p]
    PROVE  Quietly(r)
<1>1. PICK x : Becomes(r, x) /\ GoesOn(r, x, p)
  BY PcMoves
<1>2. QED BY <1>1 DEF Quietly, NoLogin, GoesOn

LEMMA QuietlyLetInto ==
    ASSUME RequestTypes, NEW r \in Request, NEW p \in {"key", "touch", "allowed"}, LetInto(r, p)
    PROVE  Quietly(r)
<1>1. p \in Pcs /\ p # "recycle"
  BY DEF Pcs
<1>2. QED BY <1>1, QuietlyFinished, QuietlyMoved DEF LetInto

(* Sessions that are left alone, revoked, deleted, expired or extended.      *)
LEMMA FreshSame ==
    ASSUME session' = session
    PROVE  FreshFades
BY DEF FreshFades, FreshRow

LEMMA FreshRevoked ==
    ASSUME Types, NEW S, session' = Revoked(S)
    PROVE  FreshFades
<1>1. ASSUME NEW s \in Sessions, FreshRow(s)'
      PROVE  FreshRow(s) /\ session'[s].key = session[s].key
  <2>1. session'[s] = IF s \in S /\ session[s].row = "stored"
                        THEN [session[s] EXCEPT !.revoked = TRUE] ELSE session[s]
    BY DEF Revoked
  <2>2. session[s] \in AuthSession
    BY DEF Types, StoreTypes
  <2>3. CASE s \in S /\ session[s].row = "stored"
    <3>1. session'[s].revoked = TRUE
      BY <2>1, <2>2, <2>3 DEF AuthSession
    <3>2. QED BY <1>1, <3>1 DEF FreshRow
  <2>4. CASE ~(s \in S /\ session[s].row = "stored")
    BY <1>1, <2>1, <2>4 DEF FreshRow
  <2>5. QED BY <2>3, <2>4
<1>2. QED BY <1>1 DEF FreshFades

LEMMA FreshReplaced ==
    ASSUME Types, NEW s \in Sessions, NEW x, session' = [session EXCEPT ![s] = x],
           \/ x = session[s] \/ x.row # "stored" \/ x.expired # "no"
           \/ x.key = None
    PROVE  FreshFades
<1>1. \A t \in Sessions : session'[t] = IF t = s THEN x ELSE session[t]
  BY DEF Types, StoreTypes
<1>2. None \notin Key
  BY AccountCredentialsAssumptions
<1>3. QED BY <1>1, <1>2 DEF FreshFades, FreshRow

LEMMA FreshDeleted ==
    ASSUME Types, NEW s \in Sessions, session' = [session EXCEPT ![s].row = "gone"]
    PROVE  FreshFades
<1>1. PICK x : x = [session[s] EXCEPT !.row = "gone"]
  OBVIOUS
<1>2. session[s] \in AuthSession
  BY DEF Types, StoreTypes
<1>3. x.row = "gone"
  BY <1>1, <1>2 DEF AuthSession
<1>4. session' = [session EXCEPT ![s] = x]
  BY <1>1
<1>5. QED BY <1>3, <1>4, FreshReplaced

LEMMA AuthenticateCalm ==
    ASSUME Types, CredentialInv, NEW r \in Request,
           \/ \E s \in Sessions, op \in Ops : ReadBrowserSession(r, s, op)
           \/ \E s \in Sessions : ReadAstrometrySession(r, s)
           \/ ReadAccount(r) \/ RevalidateKey(r) \/ TouchSession(r) \/ Forbid(r)
    PROVE  CalmStep
<1>1. ASSUME NEW s \in Sessions, NEW op,
             ReadBrowserSession(r, s, op) \/ (op = "astrometry" /\ ReadAstrometrySession(r, s))
      PROVE  CalmStep
  <2>1. ReadSession(r, s, op) /\ op \in SessionOps /\ op # "login"
    BY <1>1 DEF ReadBrowserSession, ReadAstrometrySession, SessionOps, BrowserOps
  <2>2. FreshFades /\ rush' = rush
    BY <2>1, FreshSame DEF ReadSession
  <2>3. CASE Refuse(r)
    BY <2>2, <2>3, QuietlyRefused DEF CalmStep
  <2>4. CASE Valid(s)
    <3>1. PICK x : /\ Becomes(r, x) /\ x \in RequestState /\ x.pc = "account" /\ x.op = op
                   /\ x.s = s /\ x.key = session[s].key /\ x.todo = {} /\ x.cut = Cut(s)
      BY <2>1, <2>4, ReadSessionRecord
    <3>2. Quietly(r)
      BY <2>1, <3>1 DEF Quietly, NoLogin
    <3>3. QED BY <2>2, <3>2 DEF CalmStep
  <2>5. QED BY <2>1, <2>3, <2>4 DEF ReadSession
<1>2. CASE ReadAccount(r)
  <2>1. FreshFades /\ rush' = rush /\ RequestTypes
    BY <1>2, FreshSame DEF ReadAccount, Types
  <2>2. Refuse(r) \/ \E p \in {"key", "touch", "allowed"} : LetInto(r, p)
    BY <1>2 DEF ReadAccount
  <2>3. Quietly(r)
    BY <2>1, <2>2, QuietlyRefused, QuietlyLetInto
  <2>4. QED BY <2>1, <2>3 DEF CalmStep
<1>3. CASE RevalidateKey(r)
  <2>1. FreshFades /\ rush' = rush /\ RequestTypes
    BY <1>3, FreshSame DEF RevalidateKey, Types
  <2>2. Refuse(r) \/ \E p \in {"key", "touch", "allowed"} : LetInto(r, p)
    BY <1>3 DEF RevalidateKey
  <2>3. Quietly(r)
    BY <2>1, <2>2, QuietlyRefused, QuietlyLetInto
  <2>4. QED BY <2>1, <2>3 DEF CalmStep
<1>4. CASE TouchSession(r)
  <2>1. PICK s \in Sessions : s = req[r].s
    BY <1>4 DEF TouchSession, Types, RequestTypes, Carries, Entering
  <2>2. PICK y : y = Touched(s)
    OBVIOUS
  <2>3. session[s] \in AuthSession
    BY DEF Types, StoreTypes
  <2>4. y = session[s] \/ y.expired # "no"
    <3>1. CASE y = [session[s] EXCEPT !.expired = "revived"]
      BY <2>3, <3>1 DEF AuthSession
    <3>2. QED BY <2>2, <3>1 DEF Touched
  <2>5. session' = [session EXCEPT ![s] = y] /\ rush' = rush /\ LetInto(r, "allowed")
    BY <1>4, <2>1, <2>2 DEF TouchSession
  <2>6. FreshFades
    BY <2>4, <2>5, FreshReplaced
  <2>7. Quietly(r)
    BY <2>5, QuietlyLetInto DEF Types
  <2>8. QED BY <2>5, <2>6, <2>7 DEF CalmStep
<1>5. CASE Forbid(r)
  BY <1>5, FreshSame, QuietlyRefused DEF Forbid, CalmStep
<1>6. QED BY <1>1, <1>2, <1>3, <1>4, <1>5

(* A request that starts to sweep, and the rest of a sweep.                  *)
LEMMA QuietlySweeping ==
    ASSUME Types, NEW r \in Request, NEW S, req[r].pc # "recycle",
           \/ req' = [req EXCEPT ![r].pc = "sweep", ![r].todo = S]
           \/ req' = [req EXCEPT ![r].todo = S]
    PROVE  Quietly(r)
<1>1. req \in [Request -> RequestState] /\ req[r] \in RequestState
  BY DEF Types, RequestTypes
<1>2. CASE req' = [req EXCEPT ![r].pc = "sweep", ![r].todo = S]
  <2>1. PICK x : x = [req[r] EXCEPT !.pc = "sweep", !.todo = S]
    OBVIOUS
  <2>2. x.pc = "sweep" /\ x.op = req[r].op /\ x.key = req[r].key
    BY <1>1, <2>1 DEF RequestState
  <2>3. Becomes(r, x)
    BY <1>1, <1>2, <2>1 DEF Becomes
  <2>4. QED BY <2>2, <2>3 DEF Quietly, NoLogin
<1>3. CASE req' = [req EXCEPT ![r].todo = S]
  <2>1. PICK x : x = [req[r] EXCEPT !.todo = S]
    OBVIOUS
  <2>2. x.pc = req[r].pc /\ x.op = req[r].op /\ x.key = req[r].key
    BY <1>1, <2>1 DEF RequestState
  <2>3. Becomes(r, x)
    BY <1>1, <1>3, <2>1 DEF Becomes
  <2>4. QED BY <2>2, <2>3 DEF Quietly, NoLogin
<1>4. QED BY <1>2, <1>3

LEMMA EndSessionsCalm ==
    ASSUME Types, NEW r \in Request, EndSessions(r)
    PROVE  CalmStep
<1>1. CASE Logout(r)
  BY <1>1, FreshRevoked, QuietlyFinished DEF Logout, CalmStep
<1>2. CASE SqlLogoutAll(r)
  BY <1>2, FreshRevoked, QuietlyFinished DEF SqlLogoutAll, CalmStep
<1>3. CASE DynLogoutAll(r)
  <2>1. /\ req[r].pc = "allowed" /\ req' = [req EXCEPT ![r].pc = "sweep", ![r].todo = Stored]
        /\ session' = session /\ rush' = rush
    BY <1>3, Zenon DEF DynLogoutAll, Doing
  <2>2. Quietly(r)
    BY <2>1, QuietlySweeping
  <2>3. QED BY <2>1, <2>2, FreshSame DEF CalmStep
<1>4. ASSUME NEW s \in Sessions, RevokeSession(r, s) PROVE CalmStep
  BY <1>4, FreshRevoked, QuietlyFinished, QuietlyRefused DEF RevokeSession, CalmStep
<1>5. ASSUME NEW s \in Sessions, Sweep(r, s) PROVE CalmStep
  <2>1. req[r].pc = "sweep" /\ session' = Revoked({s}) /\ rush' = rush
    BY <1>5, Zenon DEF Sweep
  <2>2. PICK T : T = req[r].todo \ {s}
    OBVIOUS
  <2>3. Finish(r) \/ req' = [req EXCEPT ![r].todo = T]
    BY <1>5, <2>2 DEF Sweep
  <2>4. Quietly(r)
    BY <2>1, <2>3, QuietlyFinished, QuietlySweeping
  <2>5. QED BY <2>1, <2>4, FreshRevoked DEF CalmStep
<1>6. QED BY <1>1, <1>2, <1>3, <1>4, <1>5 DEF EndSessions

LEMMA ManageKeysCalm ==
    ASSUME Types, NEW r \in Request,
           \/ \E k \in Key : CreateApiKey(r, k) \/ SqlRevokeApiKey(r, k) \/ DynRevokeApiKey(r, k)
           \/ DynListMinted(r)
    PROVE  CalmStep
<1>1. ASSUME NEW k \in Key, CreateApiKey(r, k) PROVE CalmStep
  BY <1>1, FreshSame, QuietlyFinished, QuietlyRefused DEF CreateApiKey, CalmStep
<1>2. ASSUME NEW k \in Key, SqlRevokeApiKey(r, k) PROVE CalmStep
  BY <1>2, FreshSame, FreshRevoked, QuietlyFinished, QuietlyRefused DEF SqlRevokeApiKey, CalmStep
<1>3. ASSUME NEW k \in Key, DynRevokeApiKey(r, k) PROVE CalmStep
  <2>1. /\ Doing(r, "revoke_key") /\ session' = session /\ rush' = rush
        /\ Refuse(r) \/ req' = [req EXCEPT ![r].pc = "list", ![r].key = k]
    BY <1>3 DEF DynRevokeApiKey
  <2>2. ASSUME req' = [req EXCEPT ![r].pc = "list", ![r].key = k] PROVE Quietly(r)
    <3>1. req \in [Request -> RequestState] /\ req[r] \in RequestState
      BY DEF Types, RequestTypes
    <3>2. PICK x : x = [req[r] EXCEPT !.pc = "list", !.key = k]
      OBVIOUS
    <3>3. x.pc = "list" /\ x.op = req[r].op
      BY <3>1, <3>2 DEF RequestState
    <3>4. Becomes(r, x)
      BY <2>2, <3>1, <3>2 DEF Becomes
    <3>5. req[r].op = "revoke_key"
      BY <2>1 DEF Doing
    <3>6. QED BY <3>3, <3>4, <3>5 DEF Quietly, NoLogin
  <2>3. QED BY <2>1, <2>2, FreshSame, QuietlyRefused DEF CalmStep
<1>4. CASE DynListMinted(r)
  <2>1. PICK S : S = {s \in MintedFrom(req[r].key) : ~session[s].revoked}
    OBVIOUS
  <2>2. /\ req[r].pc = "list" /\ session' = session /\ rush' = rush
        /\ Finish(r) \/ req' = [req EXCEPT ![r].pc = "sweep", ![r].todo = S]
    BY <1>4, <2>1, Zenon DEF DynListMinted
  <2>3. Quietly(r)
    BY <2>2, QuietlyFinished, QuietlySweeping
  <2>4. QED BY <2>2, <2>3, FreshSame DEF CalmStep
<1>5. QED BY <1>1, <1>2, <1>3, <1>4

(* A request goes on at another step with another passkey or ceremony.       *)
LEMMA QuietlyNamed ==
    ASSUME Types, NEW r \in Request, NEW p, p # "recycle", NEW v,
           \/ req' = [req EXCEPT ![r].pc = p, ![r].cer = v]
           \/ req' = [req EXCEPT ![r].pc = p, ![r].pk = v]
    PROVE  Quietly(r)
<1>1. req \in [Request -> RequestState] /\ req[r] \in RequestState
  BY DEF Types, RequestTypes
<1>2. CASE req' = [req EXCEPT ![r].pc = p, ![r].cer = v]
  <2>1. PICK x : x = [req[r] EXCEPT !.pc = p, !.cer = v]
    OBVIOUS
  <2>2. x.pc = p /\ x.op = req[r].op /\ x.key = req[r].key
    BY <1>1, <2>1 DEF RequestState
  <2>3. Becomes(r, x)
    BY <1>1, <1>2, <2>1 DEF Becomes
  <2>4. QED BY <2>2, <2>3 DEF Quietly, NoLogin
<1>3. CASE req' = [req EXCEPT ![r].pc = p, ![r].pk = v]
  <2>1. PICK x : x = [req[r] EXCEPT !.pc = p, !.pk = v]
    OBVIOUS
  <2>2. x.pc = p /\ x.op = req[r].op /\ x.key = req[r].key
    BY <1>1, <2>1 DEF RequestState
  <2>3. Becomes(r, x)
    BY <1>1, <1>3, <2>1 DEF Becomes
  <2>4. QED BY <2>2, <2>3 DEF Quietly, NoLogin
<1>4. QED BY <1>2, <1>3

LEMMA ManagePasskeysCalm ==
    ASSUME Types, CredentialInv, NEW r \in Request, ManagePasskeys(r)
    PROVE  CalmStep
<1>1. ASSUME NEW w \in Ceremony, StartRegistration(r, w) PROVE CalmStep
  BY <1>1, FreshSame, QuietlyFinished DEF StartRegistration, CalmStep
<1>2. ASSUME NEW w \in Ceremony, ReadRegistration(r, w) PROVE CalmStep
  <2>1. /\ session' = session /\ rush' = rush
        /\ req' = [req EXCEPT ![r].pc = "register", ![r].cer = w]
    BY <1>2, Zenon DEF ReadRegistration
  <2>2. QED BY <2>1, FreshSame, QuietlyNamed DEF CalmStep
<1>3. ASSUME NEW w \in Ceremony, ReadAuthentication(r, w) PROVE CalmStep
  <2>1. PICK c : c = IF active THEN "no" ELSE "account"
    OBVIOUS
  <2>2. PICK x : x = [Idle EXCEPT !.pc = "credential", !.op = "sign_in", !.cer = w, !.cut = c]
    OBVIOUS
  <2>3. x.pc = "credential" /\ x.op = "sign_in"
    BY <2>2, IdleState DEF RequestState
  <2>4. Becomes(r, x) /\ session' = session /\ rush' = rush
    BY <1>3, <2>1, <2>2 DEF ReadAuthentication, Becomes
  <2>5. QED BY <2>3, <2>4, FreshSame DEF Quietly, NoLogin, CalmStep
<1>4. ASSUME NEW p \in Passkey, NEW x \in Credential, SqlRegister(r, p, x) \/ DynRegister(r, p, x)
      PROVE  CalmStep
  <2>1. session' = session /\ rush' = rush /\ (Finish(r) \/ Refuse(r))
    BY <1>4 DEF SqlRegister, DynRegister
  <2>2. QED BY <2>1, FreshSame, QuietlyFinished, QuietlyRefused DEF CalmStep
<1>5. ASSUME NEW p \in Passkey, SqlRevokePasskey(r, p) PROVE CalmStep
  BY <1>5, FreshSame, QuietlyFinished, QuietlyRefused DEF SqlRevokePasskey, CalmStep
<1>6. ASSUME NEW p \in Passkey, DynReadPasskey(r, p) PROVE CalmStep
  <2>1. /\ session' = session /\ rush' = rush
        /\ Refuse(r) \/ req' = [req EXCEPT ![r].pc = "unlink", ![r].pk = p]
    BY <1>6, Zenon DEF DynReadPasskey
  <2>2. QED BY <2>1, FreshSame, QuietlyRefused, QuietlyNamed DEF CalmStep
<1>7. ASSUME NEW x \in Credential, SqlFindPasskey(r, x) PROVE CalmStep
  <2>1. /\ session' = session /\ rush' = rush
        /\ Refuse(r) \/ \E p : req' = [req EXCEPT ![r].pc = "assert", ![r].pk = p]
    BY <1>7, Zenon DEF SqlFindPasskey
  <2>2. QED BY <2>1, FreshSame, QuietlyRefused, QuietlyNamed DEF CalmStep
<1>8. ASSUME NEW x \in Credential, DynFindLookup(r, x) PROVE CalmStep
  <2>1. /\ session' = session /\ rush' = rush
        /\ Refuse(r) \/ req' = [req EXCEPT ![r].pc = "passkey", ![r].pk = lookup[x]]
    BY <1>8, Zenon DEF DynFindLookup
  <2>2. QED BY <2>1, FreshSame, QuietlyRefused, QuietlyNamed DEF CalmStep
<1>9. CASE DynRevokePasskey(r)
  <2>1. session' = session /\ rush' = rush /\ (Finish(r) \/ Refuse(r))
    BY <1>9 DEF DynRevokePasskey
  <2>2. QED BY <2>1, FreshSame, QuietlyFinished, QuietlyRefused DEF CalmStep
<1>10. CASE DynFindPasskey(r)
  <2>1. /\ session' = session /\ rush' = rush /\ "assert" \in Pcs
        /\ Refuse(r) \/ req' = [req EXCEPT ![r].pc = "assert"]
    BY <1>10 DEF DynFindPasskey, Pcs
  <2>2. QED BY <2>1, FreshSame, QuietlyRefused, QuietlyMoved DEF CalmStep, Types
<1>11. CASE SignIn(r)
  <2>1. CASE Refuse(r) /\ UNCHANGED <<session, rush>>
    BY <2>1, FreshSame, QuietlyRefused DEF CalmStep
  <2>2. CASE /\ Finish(r) /\ minted < MaxSession /\ rush' = rush
             /\ session' = [session EXCEPT ![minted + 1] = NewSession(None)]
    <3>1. minted + 1 \in Sessions
      BY <2>2, AccountCredentialsAssumptions DEF Types, StoreTypes, Sessions
    <3>2. PICK y : y = NewSession(None)
      OBVIOUS
    <3>3. y.key = None
      BY <3>2 DEF NewSession
    <3>4. FreshFades
      BY <2>2, <3>1, <3>2, <3>3, FreshReplaced
    <3>5. QED BY <2>2, <3>4, QuietlyFinished DEF CalmStep
  <2>3. QED BY <1>11, <2>1, <2>2, Zenon DEF SignIn
<1>12. QED BY <1>1, <1>2, <1>3, <1>4, <1>5, <1>6, <1>7, <1>8, <1>9, <1>10, <1>11 DEF ManagePasskeys

LEMMA QuietCalm ==
    ASSUME Types, \/ Disable \/ \E s \in Sessions : Expire(s) \/ Purge(s)
                  \/ \E w \in Ceremony : StartAuthentication(w)
    PROVE  CalmStep
<1>1. CASE Disable \/ \E w \in Ceremony : StartAuthentication(w)
  BY <1>1, FreshSame DEF Disable, StartAuthentication, CalmStep
<1>2. ASSUME NEW s \in Sessions, Purge(s) PROVE CalmStep
  BY <1>2, FreshDeleted DEF Purge, CalmStep
<1>3. ASSUME NEW s \in Sessions, Expire(s) PROVE CalmStep
  <2>1. PICK e \in {"idle", "absolute"} : session' = [session EXCEPT ![s].expired = e]
    BY <1>3 DEF Expire
  <2>2. PICK y : y = [session[s] EXCEPT !.expired = e]
    OBVIOUS
  <2>3. session[s] \in AuthSession
    BY DEF Types, StoreTypes
  <2>4. y.expired # "no" /\ session' = [session EXCEPT ![s] = y]
    BY <2>1, <2>2, <2>3 DEF AuthSession
  <2>5. FreshFades
    BY <2>4, FreshReplaced
  <2>6. QED BY <1>3, <2>5 DEF Expire, CalmStep
<1>4. QED BY <1>1, <1>2, <1>3

-----------------------------------------------------------------------------
(* Logins.                                                                   *)

(* The new login is counted in rush before it is one of those under way.     *)
LEMMA ReadApiKeyLogins ==
    ASSUME Types, StoreTypes', LoginInv, NEW r \in Request, NEW k \in Key, NEW op,
           ReadApiKey(r, k, op)
    PROVE  LoginInv'
<1>1. PICK n : n = Cardinality(LoggingIn(k))
  OBVIOUS
<1>2. /\ session' = session
      /\ rush' = IF op = "login" /\ n >= rush[k] THEN [rush EXCEPT ![k] = n + 1] ELSE rush
  BY <1>1, Zenon DEF ReadApiKey
<1>3. IsFiniteSet(LoggingIn(k)) /\ n \in Nat
  BY <1>1, AccountCredentialsAssumptions, FS_Subset, FS_CardinalityType DEF LoggingIn
<1>4. rush \in [Key -> Nat] /\ req \in [Request -> RequestState]
  BY DEF Types, StoreTypes, RequestTypes
<1>5. (\A l \in Key : rush[l] <= rush'[l]) /\ (op = "login" => n + 1 <= rush'[k])
  BY <1>2, <1>3, <1>4
<1>6. \E x : Becomes(r, x) /\ x.pc # "recycle" /\ (x.op = "login" => op = "login" /\ x.key = k)
  <2>1. CASE key[k] = "live"
    <3>1. PICK x : /\ Becomes(r, x) /\ x \in RequestState /\ x.pc = "account"
                   /\ x.op = op /\ x.op \in {"use_key", "login"} /\ x.key = k /\ x.todo = {}
                   /\ x.cut = "no" \/ (x.cut = "account" /\ ~active)
      BY <2>1, ReadApiKeyRecord
    <3>2. QED BY <3>1
  <2>2. CASE Refuse(r)
    <3>1. PICK x : x = At("done")
      OBVIOUS
    <3>2. x.pc = "done" /\ x.op = "view"
      BY <3>1, IdleState DEF At, RequestState
    <3>3. QED BY <2>2, <3>1, <3>2 DEF Refuse, Becomes
  <2>3. QED BY <2>1, <2>2 DEF ReadApiKey
<1>7. /\ req'[r].pc # "recycle" /\ (req'[r].op = "login" => op = "login" /\ req'[r].key = k)
      /\ \A q \in Request : q # r => req'[q] = req[q]
  BY <1>4, <1>6 DEF Becomes
<1>8. NarrowingStep
  <2>1. \A q \in Request : Narrows(q)
    BY <1>7 DEF Narrows, Waiting
  <2>2. FreshAges
    BY <1>2 DEF FreshAges, FreshRow
  <2>3. QED BY <1>5, <2>1, <2>2 DEF NarrowingStep
<1>9. WaitersFit' /\ FreshFit'
  BY <1>8, WaitersFitStill, FreshFitStill DEF LoginInv
<1>10. WaitersLogIn'
  BY <1>7 DEF LoginInv, WaitersLogIn, Waiting
<1>11. ASSUME NEW l \in Key PROVE Cardinality(LoggingIn(l)') <= rush'[l]
  <2>1. CASE op = "login" /\ l = k
    <3>1. LoggingIn(k)' \subseteq LoggingIn(k) \cup {r}
      BY <1>7 DEF LoggingIn
    <3>2. PICK A, B : A = LoggingIn(k)' /\ B = LoggingIn(k)
      OBVIOUS
    <3>3. IsFiniteSet(B \cup {r}) /\ Cardinality(B \cup {r}) \in Nat /\ Cardinality(B \cup {r}) <= n + 1
      <4>1. IsFiniteSet(B) /\ Cardinality(B) = n
        BY <1>1, <1>3, <3>2
      <4>2. /\ IsFiniteSet(B \cup {r})
            /\ Cardinality(B \cup {r}) = IF r \in B THEN Cardinality(B) ELSE Cardinality(B) + 1
        BY <4>1, FS_AddElement, Zenon
      <4>3. QED BY <1>3, <4>1, <4>2
    <3>4. Cardinality(A) \in Nat /\ Cardinality(A) <= Cardinality(B \cup {r})
      BY <3>1, <3>2, <3>3, FS_Subset, FS_CardinalityType
    <3>5. rush'[k] \in Nat /\ n + 1 <= rush'[k]
      BY <1>5, <2>1 DEF StoreTypes
    <3>6. Cardinality(A) <= rush'[k]
      BY <1>3, <3>3, <3>4, <3>5
    <3>7. QED BY <2>1, <3>2, <3>6
  <2>2. CASE ~(op = "login" /\ l = k)
    BY <1>5, <1>7, <2>2, LoginsCountedStill DEF LoginInv
  <2>3. QED BY <2>1, <2>2
<1>12. QED BY <1>9, <1>10, <1>11 DEF LoginInv, LoginsCounted

LEMMA RecycleLogins ==
    ASSUME Types, StoreTypes', CredentialInv, LoginInv, NEW r \in Request, Recycle(r)
    PROVE  LoginInv'
<1>1. Waiting(r) /\ rush' = rush
  BY DEF Recycle, Waiting
<1>2. PICK s \in Oldest(req[r].todo, 1) :
         /\ session' = [session EXCEPT ![s].row = "gone"]
         /\ req' = [req EXCEPT ![r].todo = @ \ {s}]
  BY DEF Recycle
<1>3. req \in [Request -> RequestState] /\ req[r] \in RequestState
  BY DEF Types, RequestTypes
<1>4. s \in req[r].todo /\ s \in Sessions
  BY <1>2, <1>3 DEF Oldest, RequestState
<1>5. PICK x : x = [req[r] EXCEPT !.todo = req[r].todo \ {s}]
  OBVIOUS
<1>6. /\ x.pc = req[r].pc /\ x.op = req[r].op /\ x.s = req[r].s
      /\ x.key = req[r].key /\ x.todo = req[r].todo \ {s}
  BY <1>3, <1>5 DEF RequestState
<1>7. req'[r] = x /\ \A q \in Request : q # r => req'[q] = req[q]
  BY <1>2, <1>3, <1>5
<1>8. ~FreshRow(s)'
  <2>1. session \in [Sessions -> AuthSession] /\ session[s] \in AuthSession
    BY <1>4 DEF Types, StoreTypes
  <2>2. session'[s].row = "gone"
    BY <1>2, <1>4, <2>1 DEF AuthSession
  <2>3. QED BY <2>2 DEF FreshRow
<1>9. FreshFades
  BY <1>2, <1>4, FreshDeleted
<1>10. NarrowingStep
  <2>1. \A q \in Request : Narrows(q)
    BY <1>1, <1>6, <1>7, <1>8 DEF Narrows, Waiting
  <2>2. \A k \in Key : rush[k] <= rush'[k]
    BY <1>1 DEF Types, StoreTypes
  <2>3. QED BY <1>9, <2>1, <2>2 DEF NarrowingStep, FreshAges, FreshFades
<1>11. WaitersFit' /\ FreshFit'
  BY <1>10, WaitersFitStill, FreshFitStill DEF LoginInv
<1>12. WaitersLogIn'
  BY <1>6, <1>7 DEF LoginInv, WaitersLogIn, Waiting
<1>13. LoginsCounted'
  <2>1. \A q \in Request : req'[q].op = req[q].op /\ req'[q].key = req[q].key
    BY <1>6, <1>7
  <2>2. \A k \in Key : rush[k] <= rush'[k]
    BY <1>10 DEF NarrowingStep
  <2>3. QED BY <2>1, <2>2, LoginsCountedStill DEF LoginInv, LoginsCounted
<1>14. QED BY <1>11, <1>12, <1>13 DEF LoginInv

LEMMA StoreLoginLogins ==
    ASSUME Types, StoreTypes', CredentialInv, LoginInv, NEW r \in Request, StoreLogin(r)
    PROVE  LoginInv'
<1>1. Waiting(r) /\ req[r].todo = {} /\ rush' = rush
  BY DEF StoreLogin, Waiting
<1>2. PICK n \in Sessions, k \in Key : n = req[r].s /\ k = req[r].key
  BY <1>1 DEF Types, RequestTypes, Carries, Waiting
<1>3. Quietly(r)
  BY QuietlyFinished, QuietlyRefused DEF StoreLogin
<1>4. CASE session' = session
  BY <1>1, <1>3, <1>4, FreshSame, CalmKeeps DEF CalmStep
<1>5. CASE session' = [session EXCEPT ![n] = NewSession(k)]
  <2>1. PICK y : y = NewSession(k)
    OBVIOUS
  <2>2. y.key = k
    BY <2>1 DEF NewSession
  <2>3. session'[n].key = k /\ \A s \in Sessions : s # n => session'[s] = session[s]
    BY <1>5, <2>1, <2>2 DEF Types, StoreTypes
  <2>4. FreshAges
    BY <1>1, <1>2, <2>3 DEF FreshAges, FreshRow, Stores
  <2>5. PICK x : Becomes(r, x) /\ NoLogin(r, x)
    BY <1>3 DEF Quietly
  <2>6. req'[r] = x /\ \A q \in Request : q # r => req'[q] = req[q]
    BY <2>5 DEF Becomes, Types, RequestTypes
  <2>7. \A q \in Request : Narrows(q)
    BY <2>5, <2>6 DEF Narrows, NoLogin, Waiting
  <2>8. \A l \in Key : rush[l] <= rush'[l]
    BY <1>1 DEF Types, StoreTypes
  <2>9. NarrowingStep
    BY <2>4, <2>7, <2>8 DEF NarrowingStep
  <2>10. WaitersFit' /\ FreshFit'
    BY <2>9, WaitersFitStill, FreshFitStill DEF LoginInv
  <2>11. WaitersLogIn'
    BY <2>7 DEF LoginInv, WaitersLogIn, Narrows
  <2>12. \A q \in Request : req'[q].op = "login" => req[q].op = "login" /\ req'[q].key = req[q].key
    BY <2>5, <2>6 DEF NoLogin
  <2>13. LoginsCounted'
    BY <2>8, <2>12, LoginsCountedStill DEF LoginInv, LoginsCounted
  <2>14. QED BY <2>10, <2>11, <2>13 DEF LoginInv
<1>6. QED BY <1>2, <1>4, <1>5 DEF StoreLogin

(* A login that reads the clock and lists the sessions of its key: those it  *)
(* leaves in place and the ranks drawn before it are few enough.             *)
LEMMA ListedFew ==
    ASSUME Types, LoginInv, NEW r \in Request, NEW k \in Key, k = req[r].key,
           req[r].pc = "allowed", req[r].op = "login",
           NEW T, T = Oldest(LiveLogins(k), Excess(Cardinality(LiveLogins(k)))),
           NEW A, A \subseteq (Fresh(k) \ T) \cup WaitRanks(k)
    PROVE  Cardinality(A) <= Allowed(k)
<1>1. PICK L : L = LiveLogins(k)
  OBVIOUS
<1>2. L \in SUBSET Sessions /\ Fresh(k) \subseteq L
  BY <1>1 DEF LiveLogins, MintedFrom, Stored, Valid, Fresh, FreshRow
<1>3. Cardinality(L) \in Nat /\ MaxLogins \in Nat \ {0} /\ IsFiniteSet(Sessions)
  BY <1>2, FewerSessions, AccountCredentialsAssumptions, FS_Interval DEF Sessions
<1>4. PICK n : n = Excess(Cardinality(L))
  OBVIOUS
<1>5. n \in Nat /\ n <= Cardinality(L) /\ Cardinality(L) - n <= MaxLogins - 1
  BY <1>3, <1>4 DEF Excess
<1>6. PICK K : K = Fresh(k) \ T
  OBVIOUS
<1>7. K \subseteq L \ Oldest(L, n)
  BY <1>1, <1>2, <1>4, <1>6
<1>8. Cardinality(L \ Oldest(L, n)) <= MaxLogins - 1 /\ L \ Oldest(L, n) \in SUBSET Sessions
  <2>1. Cardinality(L \ Oldest(L, n)) <= Cardinality(L) - n
    BY <1>2, <1>5, OldestLeave
  <2>2. L \ Oldest(L, n) \in SUBSET Sessions
    BY <1>2
  <2>3. Cardinality(L \ Oldest(L, n)) \in Nat
    BY <2>2, FewerSessions
  <2>4. QED BY <1>3, <1>5, <2>1, <2>2, <2>3
<1>9. Cardinality(K) \in Nat /\ Cardinality(K) <= MaxLogins - 1 /\ IsFiniteSet(K)
  <2>1. PICK B : B = L \ Oldest(L, n)
    OBVIOUS
  <2>2. Cardinality(K) \in Nat /\ Cardinality(K) <= Cardinality(B) /\ IsFiniteSet(K)
        /\ Cardinality(B) \in Nat
    BY <1>7, <1>8, <2>1, FewerSessions
  <2>3. QED BY <1>3, <1>8, <2>1, <2>2
<1>10. PICK W : W = WaitRanks(k)
  OBVIOUS
<1>11. PICK I : I = LoggingIn(k)
  OBVIOUS
<1>12. IsFiniteSet(I) /\ Cardinality(I) \in Nat /\ Cardinality(I) <= rush[k] /\ rush[k] \in Nat
  <2>1. IsFiniteSet(I)
    BY <1>11, AccountCredentialsAssumptions, FS_Subset DEF LoggingIn
  <2>2. QED BY <1>11, <2>1, FS_CardinalityType DEF LoginInv, LoginsCounted, Types, StoreTypes
<1>13. r \in I /\ Waits(k) \subseteq I \ {r}
  BY <1>11 DEF LoggingIn, Waits, Waiting, LoginInv, WaitersLogIn
<1>14. /\ IsFiniteSet(Waits(k)) /\ Cardinality(Waits(k)) \in Nat
       /\ Cardinality(Waits(k)) <= Cardinality(I) - 1
  <2>1. IsFiniteSet(I \ {r}) /\ Cardinality(I \ {r}) = Cardinality(I) - 1
    BY <1>12, <1>13, FS_RemoveElement
  <2>2. QED BY <1>13, <2>1, FS_Subset, FS_CardinalityType
<1>15. IsFiniteSet(W) /\ Cardinality(W) \in Nat /\ Cardinality(W) <= Cardinality(Waits(k))
  <2>1. PICK V : V = Waits(k)
    OBVIOUS
  <2>2. PICK f : f = [q \in V |-> req[q].s]
    OBVIOUS
  <2>3. f \in Surjection(V, W)
    <3>1. f \in [V -> W] /\ \A w \in W : \E q \in V : f[q] = w
      BY <1>10, <2>1, <2>2 DEF WaitRanks
    <3>2. QED BY <3>1 DEF Surjection
  <2>4. IsFiniteSet(V)
    BY <1>14, <2>1
  <2>5. IsFiniteSet(W) /\ Cardinality(W) <= Cardinality(V)
    BY <2>3, <2>4, FS_Surjection
  <2>6. QED BY <2>1, <2>5, FS_CardinalityType
<1>16. IsFiniteSet(K \cup W) /\ Cardinality(K \cup W) <= Cardinality(K) + Cardinality(W)
  <2>1. /\ IsFiniteSet(K \cup W)
        /\ Cardinality(K \cup W) = Cardinality(K) + Cardinality(W) - Cardinality(K \cap W)
    BY <1>9, <1>15, FS_Union
  <2>2. Cardinality(K \cap W) \in Nat
    BY <1>9, FS_Intersection, FS_CardinalityType
  <2>3. QED BY <1>9, <1>15, <2>1, <2>2
<1>17. Cardinality(A) \in Nat /\ Cardinality(A) <= Cardinality(K \cup W) /\ Cardinality(K \cup W) \in Nat
  BY <1>6, <1>10, <1>16, FS_Subset, FS_CardinalityType
<1>18. Cardinality(I) \in Nat \ {0}
  <2>1. Cardinality(I) # 0
    BY <1>12, <1>13, FS_EmptySet
  <2>2. QED BY <1>12, <2>1
<1>19. Cardinality(A) <= MaxLogins - 1 + (rush[k] - 1)
  BY <1>3, <1>9, <1>12, <1>14, <1>15, <1>16, <1>17, <1>18
<1>20. QED BY <1>3, <1>12, <1>17, <1>18, <1>19 DEF Allowed

LEMMA ListLoginsLogins ==
    ASSUME Types, StoreTypes', CredentialInv, LoginInv, NEW r \in Request, ListLogins(r)
    PROVE  LoginInv'
<1>1. /\ minted' = minted + 1 /\ minted + 1 \in Sessions /\ Doing(r, "login")
      /\ session' = session /\ rush' = rush
  BY ListLoginsRecord
<1>2. req[r].pc = "allowed" /\ req[r].op = "login" /\ ~Waiting(r)
  BY <1>1 DEF Doing, Waiting
<1>3. PICK k \in Key : k = req[r].key
  BY <1>2 DEF Types, RequestTypes, Carries, Entering, BrowserOps
<1>4. PICK T : T = Oldest(LiveLogins(k), Excess(Cardinality(LiveLogins(k))))
  OBVIOUS
<1>5. PICK m \in Sessions : m = minted + 1
  BY <1>1
<1>6. req' = [req EXCEPT ![r].pc = "recycle", ![r].s = m, ![r].todo = T]
  BY <1>3, <1>4, <1>5, Zenon DEF ListLogins
<1>7. req \in [Request -> RequestState] /\ req[r] \in RequestState
  BY DEF Types, RequestTypes
<1>8. PICK x : x = [req[r] EXCEPT !.pc = "recycle", !.s = m, !.todo = T]
  OBVIOUS
<1>9. x.pc = "recycle" /\ x.op = "login" /\ x.s = m /\ x.key = k /\ x.todo = T
  BY <1>2, <1>3, <1>7, <1>8 DEF RequestState
<1>10. req'[r] = x /\ \A q \in Request : q # r => req'[q] = req[q]
  BY <1>6, <1>7, <1>8
<1>11. minted \in Nat /\ (\A s \in Sessions : s \in Nat) /\ m \in Nat /\ minted < m
  BY <1>1, <1>5, AccountCredentialsAssumptions DEF Types, StoreTypes, Sessions
<1>12. \A l \in Key : Fresh(l)' = Fresh(l) /\ Allowed(l)' = Allowed(l)
  BY <1>1 DEF Fresh, FreshRow, Allowed
<1>13. \A l \in Key : WaitRanks(l)' \subseteq WaitRanks(l) \cup {m}
  BY <1>9, <1>10 DEF WaitRanks, Waits, Waiting
<1>14. \A q \in Request : Waiting(q) => req[q].s \in Nat /\ req[q].s <= minted
  BY <1>11 DEF CredentialInv, RanksFresh, Types, RequestTypes, Carries, Waiting
<1>15. \A l \in Key : \A s \in Fresh(l) : s \in Nat /\ s <= minted
  BY <1>11 DEF CredentialInv, RanksFresh, Fresh, FreshRow
<1>16. ASSUME NEW l \in Key, NEW q \in Waits(l)' PROVE Cardinality(AheadOf(q)') <= Allowed(l)'
  <2>1. q \in Request /\ Waiting(q)' /\ req'[q].key = l
    BY <1>16 DEF Waits
  <2>2. PICK A : A = AheadOf(q)'
    OBVIOUS
  <2>3. CASE q = r
    <3>1. l = k
      BY <1>9, <1>10, <2>1, <2>3
    <3>2. A \subseteq (Fresh(k) \ T) \cup WaitRanks(k)
      <4>1. SUFFICES ASSUME NEW t \in A PROVE t \in (Fresh(k) \ T) \cup WaitRanks(k)
        OBVIOUS
      <4>2. t \in Sessions /\ t < m /\ t \in (Fresh(k)' \ T) \cup WaitRanks(k)'
        BY <1>9, <1>10, <2>2, <2>3, <4>1 DEF AheadOf
      <4>3. t # m
        BY <1>11, <4>2
      <4>4. QED BY <1>12, <1>13, <4>2, <4>3
    <3>3. Cardinality(A) <= Allowed(k)
      BY <1>2, <1>3, <1>4, <3>2, ListedFew
    <3>4. QED BY <1>12, <2>2, <3>1, <3>3
  <2>4. CASE q # r
    <3>1. req'[q] = req[q] /\ q \in Waits(l) /\ req[q].key = l
      BY <1>10, <2>1, <2>4 DEF Waits, Waiting
    <3>2. req[q].s \in Nat /\ req[q].s <= minted
      BY <1>14, <3>1 DEF Waits
    <3>3. A \subseteq AheadOf(q)
      <4>1. SUFFICES ASSUME NEW t \in A PROVE t \in AheadOf(q)
        OBVIOUS
      <4>2. t \in Sessions /\ t < req[q].s /\ t \in (Fresh(l)' \ req[q].todo) \cup WaitRanks(l)'
        BY <2>2, <3>1, <4>1 DEF AheadOf
      <4>3. t # m
        BY <1>11, <3>2, <4>2
      <4>4. QED BY <1>12, <1>13, <3>1, <4>2, <4>3 DEF AheadOf
    <3>4. Cardinality(AheadOf(q)) <= Allowed(l) /\ AheadOf(q) \in SUBSET Sessions
      BY <3>1 DEF LoginInv, WaitersFit, AheadOf
    <3>5. PICK B : B = AheadOf(q)
      OBVIOUS
    <3>6. Cardinality(A) \in Nat /\ Cardinality(B) \in Nat /\ Cardinality(A) <= Cardinality(B)
      BY <3>3, <3>4, <3>5, FewerSessions
    <3>7. QED BY <1>12, <2>2, <3>4, <3>5, <3>6, LoginTypes
  <2>5. QED BY <2>3, <2>4
<1>17. ASSUME NEW l \in Key, NEW s \in Fresh(l)' PROVE Cardinality(Before(l, s)') <= Allowed(l)'
  <2>1. s \in Fresh(l) /\ s \in Nat /\ s <= minted
    BY <1>12, <1>15, <1>17
  <2>2. PICK A, B : A = Before(l, s)' /\ B = Before(l, s)
    OBVIOUS
  <2>3. A \subseteq B
    <3>1. SUFFICES ASSUME NEW t \in A PROVE t \in B
      OBVIOUS
    <3>2. t \in Sessions /\ t < s /\ t \in Fresh(l)' \cup WaitRanks(l)'
      BY <2>2, <3>1 DEF Before
    <3>3. t # m
      BY <1>11, <2>1, <3>2
    <3>4. QED BY <1>12, <1>13, <2>2, <3>2, <3>3 DEF Before
  <2>4. Cardinality(B) <= Allowed(l) /\ B \in SUBSET Sessions
    BY <2>1, <2>2 DEF LoginInv, FreshFit, Before
  <2>5. Cardinality(A) \in Nat /\ Cardinality(B) \in Nat /\ Cardinality(A) <= Cardinality(B)
    BY <2>3, <2>4, FewerSessions
  <2>6. QED BY <1>12, <2>2, <2>4, <2>5, LoginTypes
<1>18. WaitersFit' /\ FreshFit'
  BY <1>16, <1>17 DEF WaitersFit, FreshFit
<1>19. WaitersLogIn'
  BY <1>9, <1>10 DEF LoginInv, WaitersLogIn, Waiting
<1>20. LoginsCounted'
  <2>1. \A q \in Request : req'[q].op = req[q].op /\ req'[q].key = req[q].key
    BY <1>2, <1>3, <1>9, <1>10
  <2>2. \A l \in Key : rush[l] <= rush'[l]
    BY <1>1 DEF Types, StoreTypes
  <2>3. QED BY <2>1, <2>2, LoginsCountedStill DEF LoginInv, LoginsCounted
<1>21. QED BY <1>18, <1>19, <1>20 DEF LoginInv

-----------------------------------------------------------------------------
(* The bound.                                                                *)

LEMMA InitialLogins ==
    ASSUME Init
    PROVE  LoginInv
<1>1. Types
  BY InitialState
<1>2. req = [r \in Request |-> Idle] /\ rush = [k \in Key |-> 0]
  BY DEF Init
<1>3. \A r \in Request : ~Waiting(r) /\ req[r].op # "login"
  BY <1>2, IdleState DEF Waiting
<1>4. WaitersLogIn /\ WaitersFit
  BY <1>3 DEF WaitersLogIn, WaitersFit, Waits
<1>5. LoginsCounted
  <2>1. SUFFICES ASSUME NEW k \in Key PROVE Cardinality(LoggingIn(k)) <= rush[k]
    BY DEF LoginsCounted
  <2>2. LoggingIn(k) = {}
    BY <1>3 DEF LoggingIn
  <2>3. Cardinality(LoggingIn(k)) = 0 /\ rush[k] = 0
    BY <1>2, <2>2, FS_EmptySet
  <2>4. QED BY <2>3
<1>6. FreshFit
  <2>1. SUFFICES ASSUME NEW k \in Key, NEW s \in Fresh(k)
                 PROVE  Cardinality(Before(k, s)) <= Allowed(k)
    BY DEF FreshFit
  <2>2. ASSUME NEW t \in Fresh(k) PROVE t = 2
    <3>1. t \in Sessions /\ session[t].row = "stored" /\ session[t].key = k /\ k # None
      BY <2>2, AccountCredentialsAssumptions DEF Fresh, FreshRow
    <3>2. t = 1 => session[t] = NewSession(None)
      BY <3>1 DEF Init
    <3>3. t # 1 /\ t # 2 => session[t] = NoSession
      BY <3>1 DEF Init
    <3>4. NewSession(None).key = None /\ NoSession.row = "none"
      BY DEF NewSession, NoSession
    <3>5. QED BY <3>1, <3>2, <3>3, <3>4
  <2>3. Before(k, s) = {}
    <3>1. WaitRanks(k) = {}
      BY <1>3 DEF WaitRanks, Waits
    <3>2. s = 2 /\ \A t \in Fresh(k) : ~(t < s)
      BY <2>2
    <3>3. QED BY <3>1, <3>2 DEF Before
  <2>4. Cardinality(Before(k, s)) = 0
    BY <2>3, FS_EmptySet
  <2>5. Allowed(k) \in Nat
    <3>1. rush[k] = 0 /\ MaxLogins \in Nat \ {0}
      BY <1>2, AccountCredentialsAssumptions
    <3>2. QED BY <3>1 DEF Allowed
  <2>6. QED BY <2>4, <2>5
<1>7. QED BY <1>4, <1>5, <1>6 DEF LoginInv

LEMMA LoginSteps ==
    ASSUME Types, CredentialInv, PasskeyInv, LoginInv, [Next]_vars
    PROVE  LoginInv'
<1>1. StoreTypes'
  BY StepCases DEF StepFacts, StoreAges
<1>2. CASE UNCHANGED vars
  <2>1. CalmStep
    BY <1>2, FreshSame DEF vars, CalmStep
  <2>2. QED BY <1>1, <2>1, CalmKeeps
<1>3. CASE \/ Disable \/ \E s \in Sessions : Expire(s) \/ Purge(s)
           \/ \E w \in Ceremony : StartAuthentication(w)
  BY <1>1, <1>3, QuietCalm, CalmKeeps
<1>4. ASSUME NEW r \in Request, Authenticate(r) PROVE LoginInv'
  <2>1. CASE \E k \in Key, op \in Ops : ReadApiKey(r, k, op)
    BY <1>1, <2>1, ReadApiKeyLogins
  <2>2. CASE ~\E k \in Key, op \in Ops : ReadApiKey(r, k, op)
    <3>1. CalmStep
      BY <1>4, <2>2, AuthenticateCalm, Zenon DEF Authenticate
    <3>2. QED BY <1>1, <3>1, CalmKeeps
  <2>3. QED BY <2>1, <2>2
<1>5. ASSUME NEW r \in Request, EndSessions(r) PROVE LoginInv'
  BY <1>1, <1>5, EndSessionsCalm, CalmKeeps
<1>6. ASSUME NEW r \in Request, ManageKeys(r) PROVE LoginInv'
  <2>1. CASE ListLogins(r) \/ Recycle(r) \/ StoreLogin(r)
    BY <1>1, <2>1, ListLoginsLogins, RecycleLogins, StoreLoginLogins
  <2>2. CASE ~(ListLogins(r) \/ Recycle(r) \/ StoreLogin(r))
    <3>1. CalmStep
      BY <1>6, <2>2, ManageKeysCalm, Zenon DEF ManageKeys
    <3>2. QED BY <1>1, <3>1, CalmKeeps
  <2>3. QED BY <2>1, <2>2
<1>7. ASSUME NEW r \in Request, ManagePasskeys(r) PROVE LoginInv'
  BY <1>1, <1>7, ManagePasskeysCalm, CalmKeeps
<1>8. QED BY <1>2, <1>3, <1>4, <1>5, <1>6, <1>7, Zenon DEF Next

(* The invariant of the logins: a login that drew its rank, and a session    *)
(* that works, have few enough older sessions of the same key beside them,   *)
(* on either store and with any interleaving of the listings, the deletions  *)
(* and the inserts of create_astrometry_session.                             *)
THEOREM LoginInvHolds == Spec => []LoginInv
<1>1. Init => LoginInv
  BY InitialLogins
<1>2. Types /\ CredentialInv /\ PasskeyInv /\ LoginInv /\ [Next]_vars => LoginInv'
  BY LoginSteps
<1>3. QED BY <1>1, <1>2, CredentialInvHolds, PTL DEF Spec

(* Churn at /api/login never leaves a key with more than the limit of        *)
(* working sessions, plus one for each login that overlapped others: the     *)
(* newest of them has no more than that before it.                           *)
THEOREM LoginsBoundedHolds == Spec => []LoginsBounded
<1>1. Types /\ LoginInv => LoginsBounded
  <2>1. SUFFICES ASSUME Types, LoginInv, NEW k \in Key, NEW F,
                        F = {s \in LiveLogins(k) : session[s].expired = "no"}
                 PROVE  Cardinality(F) <= MaxLogins + (IF rush[k] > 1 THEN rush[k] - 1 ELSE 0)
    BY DEF LoginsBounded
  <2>2. F = Fresh(k) /\ F \in SUBSET Sessions
    BY <2>1 DEF LiveLogins, MintedFrom, Stored, Valid, Fresh, FreshRow
  <2>3. MaxLogins \in Nat \ {0} /\ rush[k] \in Nat
    BY <2>1, AccountCredentialsAssumptions DEF Types, StoreTypes
  <2>4. CASE F = {}
    <3>1. Cardinality(F) = 0
      BY <2>4, FS_EmptySet
    <3>2. QED BY <2>3, <3>1
  <2>5. CASE F # {}
    <3>1. PICK m \in F : \A n \in F : n <= m
      BY <2>2, <2>5, GreatestRank
    <3>2. PICK B : B = Before(k, m)
      OBVIOUS
    <3>3. Cardinality(B) <= Allowed(k) /\ B \in SUBSET Sessions
      BY <2>1, <2>2, <3>1, <3>2 DEF LoginInv, FreshFit, Before
    <3>4. F \ {m} \subseteq B
      <4>1. SUFFICES ASSUME NEW n \in F, n # m PROVE n \in B
        OBVIOUS
      <4>2. n \in Nat /\ m \in Nat /\ n <= m /\ n \in Sessions
        BY <2>1, <2>2, <3>1, <4>1, LoginTypes
      <4>3. n < m
        BY <4>1, <4>2
      <4>4. QED BY <2>2, <3>2, <4>2, <4>3 DEF Before
    <3>5. /\ IsFiniteSet(F) /\ Cardinality(F) \in Nat
          /\ Cardinality(F \ {m}) = Cardinality(F) - 1
      <4>1. IsFiniteSet(F) /\ Cardinality(F) \in Nat
        BY <2>2, FewerSessions
      <4>2. QED BY <3>1, <4>1, FS_RemoveElement
    <3>6. Cardinality(F \ {m}) <= Cardinality(B) /\ Cardinality(B) \in Nat
      BY <3>3, <3>4, FewerSessions
    <3>7. Allowed(k) + 1 = MaxLogins + (IF rush[k] > 1 THEN rush[k] - 1 ELSE 0) /\ Allowed(k) \in Nat
      BY <2>3 DEF Allowed
    <3>8. QED BY <3>3, <3>5, <3>6, <3>7
  <2>6. QED BY <2>4, <2>5
<1>2. QED BY <1>1, CredentialInvHolds, LoginInvHolds, PTL
=============================================================================
