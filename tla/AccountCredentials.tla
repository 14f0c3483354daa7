------------------------- MODULE AccountCredentials -------------------------
(***************************************************************************)
(* The credentials of one account once it exists: browser sessions, API      *)
(* keys, the Astrometry sessions minted from keys, and passkeys.  The        *)
(* account service is src/src/auth.rs, its HTTP handlers are                 *)
(* src/src/api/auth.rs; the store is SQLx (sqlx_identity.rs), where every    *)
(* call is one statement or one transaction, or DynamoDB                     *)
(* (dynamodb_identity.rs), where several calls are a listing followed by     *)
(* one conditional write per item.                                           *)
(*                                                                         *)
(* A request is a sequence of store calls; between any two of them other     *)
(* requests run.  It may also stop for good at any of them (the process      *)
(* dies, the client goes away): no step is ever forced.  A session is named  *)
(* by its rank in the order of created_at.                                   *)
(***************************************************************************)
EXTENDS Naturals, FiniteSets

CONSTANTS
    Request,        \* HTTP requests, one operation each
    Key,            \* API keys
    Passkey,        \* rows of passkey_credentials
    Credential,     \* authenticators: WebAuthn credential ids
    Ceremony,       \* WebAuthn challenges
    Backends,       \* the stores to consider
    Workloads,      \* sets of operations that requests choose from
    MaxLogins,      \* MAX_LIVE_ASTROMETRY_SESSIONS_PER_KEY
    MaxSession,     \* bound on the sessions ever minted
    MaxExpired,     \* bound on the sessions that have expired
    None            \* no key, passkey, credential

ASSUME AccountCredentialsAssumptions ==
    /\ Backends \subseteq {"sqlx", "dynamodb"} /\ UNION Workloads \subseteq STRING
    /\ MaxLogins \in Nat \ {0} /\ MaxSession \in Nat \ {0, 1} /\ MaxExpired \in Nat
    /\ IsFiniteSet(Request) /\ {} \notin {Key, Passkey, Credential, Ceremony}
    /\ None \notin Key \cup Passkey \cup Credential

VARIABLES
    backend,        \* the configured store
    workload,       \* the operations of this behaviour
    active,         \* the account's status is active
    session,        \* auth_sessions: 1..MaxSession -> row
    minted,         \* number of sessions given a rank
    key,            \* api_keys: Key -> "none", "live" or "revoked"
    passkey,        \* passkey_credentials: Passkey -> row
    lookup,         \* DynamoDB: Credential -> passkey of its CREDENTIAL# item
    ceremony,       \* auth_challenges for WebAuthn: Ceremony -> row
    req,            \* Request -> its progress
    ended,          \* sessions that a finished request has ended
    rush            \* Key -> most logins that were under way at a time

vars == <<backend, workload, active, session, minted, key, passkey, lookup, ceremony, req,
          ended, rush>>

Sessions == 1..MaxSession

(* AuthSession: kind is Browser exactly if no key minted it.  A row is gone  *)
(* once it was recycled or purged; it is revived if a touch extended it      *)
(* after it had expired for idleness.                                        *)
AuthSession == [row : {"none", "stored", "gone"}, key : Key \cup {None},
                revoked : BOOLEAN, expired : {"no", "idle", "absolute", "revived"}]

NewSession(k) == [row |-> "stored", key |-> k, revoked |-> FALSE, expired |-> "no"]
NoSession == [NewSession(None) EXCEPT !.row = "none"]

(* PasskeyCredential and the WebAuthn part of AuthChallenge.                 *)
PasskeyCredential == [row : {"none", "live", "revoked"}, cred : Credential \cup {None}]
AuthChallenge == [row : {"none", "registration", "authentication", "consumed"},
                  exclude : SUBSET Credential]

BrowserOps == {"view", "logout", "revoke_session", "logout_all", "create_key",
               "revoke_key", "start_registration", "register", "revoke_passkey"}
Ops == BrowserOps \cup {"astrometry", "use_key", "login", "sign_in"}

(* cut says why the credential of a request was dead when it arrived.        *)
Idle == [pc |-> "idle", op |-> "view", s |-> 0, key |-> None, pk |-> None,
         cer |-> None, todo |-> {}, cut |-> "no"]
At(pc) == [Idle EXCEPT !.pc = pc]

FirstOf(S) == CHOOSE e \in S : TRUE

(* A first browser session, which had made a key and registered a passkey;   *)
(* one login with the key; and an unfinished registration.                   *)
Init ==
    /\ backend \in Backends
    /\ workload \in Workloads
    /\ active = TRUE
    /\ session = [s \in Sessions |->
            CASE s = 1 -> NewSession(None) [] s = 2 -> NewSession(FirstOf(Key))
              [] OTHER -> NoSession]
    /\ key = [k \in Key |-> IF k = FirstOf(Key) THEN "live" ELSE "none"]
    /\ passkey = [p \in Passkey |->
            IF p = FirstOf(Passkey) THEN [row |-> "live", cred |-> FirstOf(Credential)]
                                    ELSE [row |-> "none", cred |-> None]]
    /\ lookup = [x \in Credential |->
            IF x = FirstOf(Credential) THEN FirstOf(Passkey) ELSE None]
    /\ ceremony = [w \in Ceremony |->
            [row |-> IF w = FirstOf(Ceremony) THEN "registration" ELSE "none",
             exclude |-> {}]]
    /\ minted = 2
    /\ req = [r \in Request |-> Idle]
    /\ ended = {}
    /\ rush = [k \in Key |-> 0]

-----------------------------------------------------------------------------
(* Steps that no request takes.                                              *)

(* An operator closes the account; nothing in the server does.               *)
Disable ==
    /\ active
    /\ active' = FALSE
    /\ UNCHANGED <<backend, workload, session, minted, key, passkey, lookup, ceremony, req,
                   ended, rush>>

(* Time passes a session's expires_at or its absolute_expires_at, which only  *)
(* matters while it is not revoked.                                          *)
Expire(s) ==
    /\ session[s].row = "stored" /\ ~session[s].revoked
    /\ session[s].expired = "no"
    /\ Cardinality({t \in Sessions : session[t].expired # "no"}) < MaxExpired
    /\ \E e \in {"idle", "absolute"} : session' = [session EXCEPT ![s].expired = e]
    /\ UNCHANGED <<backend, workload, active, minted, key, passkey, lookup, ceremony, req,
                   ended, rush>>

(* purge_expired, or the TTL of DynamoDB, deletes a dead session.            *)
Purge(s) ==
    /\ session[s].row = "stored"
    /\ session[s].revoked \/ session[s].expired \in {"idle", "absolute"}
    /\ session' = [session EXCEPT ![s].row = "gone"]
    /\ UNCHANGED <<backend, workload, active, minted, key, passkey, lookup, ceremony, req,
                   ended, rush>>

-----------------------------------------------------------------------------
(* Authentication.  A request arrives and reads the record its token names,  *)
(* then the account; an Astrometry session's request also reads its key.     *)

Refuse(r) == req' = [req EXCEPT ![r] = At("done")]
Finish(r) == req' = [req EXCEPT ![r] = [At("done") EXCEPT !.cut = req[r].cut]]

(* A request that only reads is answered as soon as it is let in.            *)
LetInto(r, pc) ==
    IF pc = "allowed" /\ req[r].op \in {"view", "astrometry", "use_key"}
      THEN Finish(r) ELSE req' = [req EXCEPT ![r].pc = pc]

Valid(s) ==
    /\ session[s].row = "stored" /\ ~session[s].revoked
    /\ session[s].expired \in {"no", "revived"}

Cut(s) == IF s \in ended THEN "session"
          ELSE IF session[s].key # None /\ key[session[s].key] # "live" THEN "key"
          ELSE IF ~active THEN "account" ELSE "no"

(* The lookup by the ids in the token.                                       *)
ReadSession(r, s, op) ==
    /\ req[r].pc = "idle"
    /\ session[s].row # "none" /\ op \in workload
    /\ IF Valid(s)
         THEN req' = [req EXCEPT ![r] = [Idle EXCEPT !.pc = "account", !.op = op, !.s = s,
                                            !.key = session[s].key, !.cut = Cut(s)]]
         ELSE Refuse(r)
    /\ UNCHANGED <<backend, workload, active, session, minted, key, passkey, lookup, ceremony,
                   ended, rush>>

(* authenticate_browser_session: the kind of the session must be Browser.    *)
ReadBrowserSession(r, s, op) ==
    session[s].key = None /\ op \in BrowserOps /\ ReadSession(r, s, op)

(* authenticate_astrometry_session.                                          *)
ReadAstrometrySession(r, s) ==
    session[s].key # None /\ ReadSession(r, s, "astrometry")

LoggingIn(k) == {r \in Request : req[r].op = "login" /\ req[r].key = k}

(* authenticate_api_key.                                                     *)
ReadApiKey(r, k, op) ==
    /\ req[r].pc = "idle"
    /\ op \in workload \cap {"use_key", "login"}
    /\ key[k] # "none"
    /\ IF key[k] = "live"
         THEN req' = [req EXCEPT ![r] = [Idle EXCEPT !.pc = "account", !.op = op, !.key = k,
                                            !.cut = IF active THEN "no" ELSE "account"]]
         ELSE Refuse(r)
    /\ rush' = IF op = "login" /\ Cardinality(LoggingIn(k)) >= rush[k]
                 THEN [rush EXCEPT ![k] = Cardinality(LoggingIn(k)) + 1] ELSE rush
    /\ UNCHANGED <<backend, workload, active, session, minted, key, passkey, lookup, ceremony, ended>>

(* The touch is due only once in SESSION_TOUCH_INTERVAL.                      *)
ReadAccount(r) ==
    /\ req[r].pc = "account"
    /\ IF ~active THEN Refuse(r)
       ELSE \E pc \in CASE req[r].op = "astrometry" -> {"key"}
                        [] req[r].op \in {"use_key", "login"} -> {"allowed"}
                        [] OTHER -> {"touch", "allowed"} :
              LetInto(r, pc)
    /\ UNCHANGED <<backend, workload, active, session, minted, key, passkey, lookup, ceremony,
                   ended, rush>>

(* Variant for the mutation runs: the key is trusted because the session is. *)
RevalidateKeyNever(r) ==
    /\ req[r].pc = "key"
    /\ \E pc \in {"touch", "allowed"} : LetInto(r, pc)
    /\ UNCHANGED <<backend, workload, active, session, minted, key, passkey, lookup, ceremony,
                   ended, rush>>

(* The minting key is validated again.                                       *)
RevalidateKey(r) ==
    /\ req[r].pc = "key"
    /\ IF key[req[r].key] # "live" THEN Refuse(r)
       ELSE \E pc \in {"touch", "allowed"} : LetInto(r, pc)
    /\ UNCHANGED <<backend, workload, active, session, minted, key, passkey, lookup, ceremony,
                   ended, rush>>

(* Variant for the mutation runs: the session that was read is written back. *)
TouchWritesBack(s) == NewSession(session[s].key)

(* touch_session: a conditional update; a session that was revoked, that is  *)
(* past its absolute expiry or gone stays as it is.                          *)
Touched(s) ==
    IF session[s].row = "stored" /\ ~session[s].revoked /\ session[s].expired = "idle"
      THEN [session[s] EXCEPT !.expired = "revived"] ELSE session[s]

(* The outcome of the touch does not matter to the request.                  *)
TouchSession(r) ==
    /\ req[r].pc = "touch"
    /\ session' = [session EXCEPT ![req[r].s] = Touched(req[r].s)]
    /\ LetInto(r, "allowed")
    /\ UNCHANGED <<backend, workload, active, minted, key, passkey, lookup, ceremony, ended, rush>>

(* One that changes something may still be turned away for its CSRF token,   *)
(* its origin, its arguments or because the sign-in is not recent.           *)
Forbid(r) ==
    /\ req[r].pc = "allowed"
    /\ req[r].op \in BrowserOps
    /\ Refuse(r)
    /\ UNCHANGED <<backend, workload, active, session, minted, key, passkey, lookup, ceremony,
                   ended, rush>>

Doing(r, op) == req[r].pc = "allowed" /\ req[r].op = op

-----------------------------------------------------------------------------
(* Ending sessions.                                                          *)

Revoked(S) == [s \in Sessions |->
    IF s \in S /\ session[s].row = "stored" THEN [session[s] EXCEPT !.revoked = TRUE]
                                            ELSE session[s]]

(* logout: the request's own session.                                        *)
Logout(r) ==
    /\ Doing(r, "logout")
    /\ session' = Revoked({req[r].s})
    /\ ended' = ended \cup {req[r].s}
    /\ Finish(r)
    /\ UNCHANGED <<backend, workload, active, minted, key, passkey, lookup, ceremony, rush>>

(* revoke_account_session: any session of the account; nothing to revoke is  *)
(* answered with "not found".                                                *)
RevokeSession(r, s) ==
    /\ Doing(r, "revoke_session")
    /\ session[s].row # "none"
    /\ session' = Revoked({s})
    /\ ended' = ended \cup {s}
    /\ IF s = req[r].s \/ (session[s].row = "stored" /\ ~session[s].revoked)
         THEN Finish(r) ELSE Refuse(r)
    /\ UNCHANGED <<backend, workload, active, minted, key, passkey, lookup, ceremony, rush>>

Stored == {s \in Sessions : session[s].row = "stored"}

(* revoke_all_sessions on SQLx is one UPDATE.                                *)
SqlLogoutAll(r) ==
    /\ backend = "sqlx"
    /\ Doing(r, "logout_all")
    /\ session' = Revoked(Stored)
    /\ ended' = ended \cup Stored
    /\ Finish(r)
    /\ UNCHANGED <<backend, workload, active, minted, key, passkey, lookup, ceremony, rush>>

(* On DynamoDB it lists the sessions and revokes them one by one.            *)
DynLogoutAll(r) ==
    /\ backend = "dynamodb"
    /\ Doing(r, "logout_all")
    /\ req' = [req EXCEPT ![r].pc = "sweep", ![r].todo = Stored]
    /\ UNCHANGED <<backend, workload, active, session, minted, key, passkey, lookup, ceremony,
                   ended, rush>>

(* One revocation of a sweep; a session ended this way is ended for good.    *)
Sweep(r, s) ==
    /\ req[r].pc = "sweep"
    /\ s \in req[r].todo
    /\ session' = Revoked({s})
    /\ ended' = ended \cup {s}
    /\ IF req[r].todo = {s} THEN Finish(r)
                            ELSE req' = [req EXCEPT ![r].todo = @ \ {s}]
    /\ UNCHANGED <<backend, workload, active, minted, key, passkey, lookup, ceremony, rush>>

-----------------------------------------------------------------------------
(* API keys.                                                                 *)

(* active_account_check: DynamoDB makes inserts conditional on an active     *)
(* account, SQLx does not.                                                   *)
ActiveAccountCheck == backend = "dynamodb" => active

CreateApiKey(r, k) ==
    /\ Doing(r, "create_key")
    /\ key[k] = "none"
    /\ IF ActiveAccountCheck
         THEN Finish(r) /\ key' = [key EXCEPT ![k] = "live"]
         ELSE Refuse(r) /\ UNCHANGED key
    /\ UNCHANGED <<backend, workload, active, session, minted, passkey, lookup, ceremony, ended, rush>>

MintedFrom(k) == {s \in Stored : session[s].key = k}

(* revoke_api_key on SQLx: one transaction for the key and its sessions.     *)
SqlRevokeApiKey(r, k) ==
    /\ backend = "sqlx"
    /\ Doing(r, "revoke_key")
    /\ key[k] # "none"
    /\ IF key[k] = "live"
         THEN /\ key' = [key EXCEPT ![k] = "revoked"]
              /\ session' = Revoked(MintedFrom(k))
              /\ Finish(r)
         ELSE Refuse(r) /\ UNCHANGED <<key, session>>
    /\ UNCHANGED <<backend, workload, active, minted, passkey, lookup, ceremony, ended, rush>>

(* On DynamoDB the key comes first ...                                       *)
DynRevokeApiKey(r, k) ==
    /\ backend = "dynamodb"
    /\ Doing(r, "revoke_key")
    /\ key[k] # "none"
    /\ IF key[k] = "live"
         THEN /\ key' = [key EXCEPT ![k] = "revoked"]
              /\ req' = [req EXCEPT ![r].pc = "list", ![r].key = k]
         ELSE Refuse(r) /\ UNCHANGED key
    /\ UNCHANGED <<backend, workload, active, session, minted, passkey, lookup, ceremony, ended, rush>>

(* ... then a listing, and the sessions found in it.                         *)
DynListMinted(r) ==
    LET found == {s \in MintedFrom(req[r].key) : ~session[s].revoked}
    IN  /\ req[r].pc = "list"
        /\ IF found = {} THEN Finish(r)
                         ELSE req' = [req EXCEPT ![r].pc = "sweep", ![r].todo = found]
        /\ UNCHANGED <<backend, workload, active, session, minted, key, passkey, lookup, ceremony,
                       ended, rush>>

-----------------------------------------------------------------------------
(* create_astrometry_session: recycle the key's oldest sessions, one delete  *)
(* each, then store the new one.                                             *)

(* The sessions of k that still work.                                        *)
LiveLogins(k) == {s \in MintedFrom(k) : Valid(s)}

(* Variant for the mutation runs: room is left for MaxLogins, not for one    *)
(* more.                                                                     *)
ExcessOffByOne(n) == IF n < MaxLogins THEN 0 ELSE n - MaxLogins

Excess(n) == IF n < MaxLogins THEN 0 ELSE n + 1 - MaxLogins

(* The n sessions of S with the lowest ranks.                                *)
Oldest(S, n) == {s \in S : Cardinality({t \in S : t < s}) < n}

(* The new session's created_at is read here, before the listing.            *)
ListLogins(r) ==
    LET live == LiveLogins(req[r].key)
    IN  /\ Doing(r, "login")
        /\ minted < MaxSession
        /\ minted' = minted + 1
        /\ req' = [req EXCEPT ![r].pc = "recycle", ![r].s = minted + 1,
                              ![r].todo = Oldest(live, Excess(Cardinality(live)))]
        /\ UNCHANGED <<backend, workload, active, session, key, passkey, lookup, ceremony, ended, rush>>

(* delete_session, oldest first.                                             *)
Recycle(r) ==
    /\ req[r].pc = "recycle"
    /\ \E s \in Oldest(req[r].todo, 1) :
         /\ session' = [session EXCEPT ![s].row = "gone"]
         /\ req' = [req EXCEPT ![r].todo = @ \ {s}]
    /\ UNCHANGED <<backend, workload, active, minted, key, passkey, lookup, ceremony, ended, rush>>

(* create_session.                                                           *)
StoreLogin(r) ==
    /\ req[r].pc = "recycle" /\ req[r].todo = {}
    /\ IF ActiveAccountCheck
         THEN Finish(r) /\ session' = [session EXCEPT ![req[r].s] = NewSession(req[r].key)]
         ELSE Refuse(r) /\ UNCHANGED session
    /\ UNCHANGED <<backend, workload, active, minted, key, passkey, lookup, ceremony, ended, rush>>

-----------------------------------------------------------------------------
(* Passkeys.                                                                 *)

LivePasskeys == {p \in Passkey : passkey[p].row = "live"}

(* start_passkey_registration: authenticators already registered are         *)
(* excluded from the ceremony.                                               *)
StartRegistration(r, w) ==
    /\ Doing(r, "start_registration")
    /\ ceremony[w].row = "none"
    /\ ceremony' = [ceremony EXCEPT ![w] =
            [row |-> "registration", exclude |-> {passkey[p].cred : p \in LivePasskeys}]]
    /\ Finish(r)
    /\ UNCHANGED <<backend, workload, active, session, minted, key, passkey, lookup, ended, rush>>

(* start_passkey_authentication: anyone may ask for one.                     *)
StartAuthentication(w) ==
    /\ "sign_in" \in workload
    /\ ceremony[w].row = "none"
    /\ ceremony' = [ceremony EXCEPT ![w] = [row |-> "authentication", exclude |-> {}]]
    /\ UNCHANGED <<backend, workload, active, session, minted, key, passkey, lookup, req, ended, rush>>

(* valid_webauthn_challenge; it may also have expired.                       *)
ReadRegistration(r, w) ==
    /\ Doing(r, "register")
    /\ ceremony[w].row = "registration"
    /\ req' = [req EXCEPT ![r].pc = "register", ![r].cer = w]
    /\ UNCHANGED <<backend, workload, active, session, minted, key, passkey, lookup, ceremony,
                   ended, rush>>

Consume(w) == ceremony' = [ceremony EXCEPT ![w] = [row |-> "consumed", exclude |-> {}]]

(* complete_passkey_registration on SQLx: the challenge, an active account   *)
(* and the unique index over live credentials.                               *)
SqlRegister(r, p, x) ==
    /\ backend = "sqlx"
    /\ req[r].pc = "register"
    /\ passkey[p].row = "none" /\ x \notin ceremony[req[r].cer].exclude
    /\ IF /\ ceremony[req[r].cer].row = "registration" /\ active
          /\ \A q \in LivePasskeys : passkey[q].cred # x
         THEN /\ Consume(req[r].cer) /\ Finish(r)
              /\ passkey' = [passkey EXCEPT ![p] = [row |-> "live", cred |-> x]]
         ELSE Refuse(r) /\ UNCHANGED <<ceremony, passkey>>
    /\ UNCHANGED <<backend, workload, active, session, minted, key, lookup, ended, rush>>

(* On DynamoDB the credential's lookup item plays the part of the index.     *)
DynRegister(r, p, x) ==
    /\ backend = "dynamodb"
    /\ req[r].pc = "register"
    /\ passkey[p].row = "none" /\ x \notin ceremony[req[r].cer].exclude
    /\ IF ceremony[req[r].cer].row = "registration" /\ active /\ lookup[x] = None
         THEN /\ Consume(req[r].cer) /\ Finish(r)
              /\ passkey' = [passkey EXCEPT ![p] = [row |-> "live", cred |-> x]]
              /\ lookup' = [lookup EXCEPT ![x] = p]
         ELSE Refuse(r) /\ UNCHANGED <<ceremony, passkey, lookup>>
    /\ UNCHANGED <<backend, workload, active, session, minted, key, ended, rush>>

(* revoke_passkey on SQLx: one conditional UPDATE.                           *)
SqlRevokePasskey(r, p) ==
    /\ backend = "sqlx"
    /\ Doing(r, "revoke_passkey")
    /\ passkey[p].row # "none"
    /\ IF passkey[p].row = "live"
         THEN passkey' = [passkey EXCEPT ![p].row = "revoked"] /\ Finish(r)
         ELSE Refuse(r) /\ UNCHANGED passkey
    /\ UNCHANGED <<backend, workload, active, session, minted, key, lookup, ceremony, ended, rush>>

(* On DynamoDB: read the passkey for its credential ...                      *)
DynReadPasskey(r, p) ==
    /\ backend = "dynamodb"
    /\ Doing(r, "revoke_passkey")
    /\ passkey[p].row # "none"
    /\ IF passkey[p].row = "live" THEN req' = [req EXCEPT ![r].pc = "unlink", ![r].pk = p]
                                  ELSE Refuse(r)
    /\ UNCHANGED <<backend, workload, active, session, minted, key, passkey, lookup, ceremony,
                   ended, rush>>

(* Variant for the mutation runs: the transaction only expects the item to   *)
(* exist.                                                                    *)
RevocableIfStored(p) == passkey[p].row # "none"

Revocable(p) == passkey[p].row = "live"

(* ... then one transaction that revokes it and deletes the lookup item.     *)
DynRevokePasskey(r) ==
    LET p == req[r].pk
    IN  /\ req[r].pc = "unlink"
        /\ IF Revocable(p)
             THEN /\ passkey' = [passkey EXCEPT ![p].row = "revoked"]
                  /\ lookup' = [lookup EXCEPT ![passkey[p].cred] = None]
                  /\ Finish(r)
             ELSE Refuse(r) /\ UNCHANGED <<passkey, lookup>>
        /\ UNCHANGED <<backend, workload, active, session, minted, key, ceremony, ended, rush>>

(* complete_passkey_authentication: the challenge, then the passkey that the *)
(* credential leads to.                                                      *)
ReadAuthentication(r, w) ==
    /\ req[r].pc = "idle" /\ "sign_in" \in workload
    /\ ceremony[w].row = "authentication"
    /\ req' = [req EXCEPT ![r] = [Idle EXCEPT !.pc = "credential", !.op = "sign_in",
                    !.cer = w, !.cut = IF active THEN "no" ELSE "account"]]
    /\ UNCHANGED <<backend, workload, active, session, minted, key, passkey, lookup, ceremony,
                   ended, rush>>

(* passkey_by_credential_id on SQLx finds the live row.                      *)
SqlFindPasskey(r, x) ==
    /\ backend = "sqlx"
    /\ req[r].pc = "credential"
    /\ \/ /\ \A p \in LivePasskeys : passkey[p].cred # x
          /\ Refuse(r)
       \/ \E p \in LivePasskeys :
            /\ passkey[p].cred = x
            /\ req' = [req EXCEPT ![r].pc = "assert", ![r].pk = p]
    /\ UNCHANGED <<backend, workload, active, session, minted, key, passkey, lookup, ceremony,
                   ended, rush>>

(* On DynamoDB it reads the lookup item, then the passkey it names.          *)
DynFindLookup(r, x) ==
    /\ backend = "dynamodb"
    /\ req[r].pc = "credential"
    /\ IF lookup[x] = None THEN Refuse(r)
       ELSE req' = [req EXCEPT ![r].pc = "passkey", ![r].pk = lookup[x]]
    /\ UNCHANGED <<backend, workload, active, session, minted, key, passkey, lookup, ceremony,
                   ended, rush>>

DynFindPasskey(r) ==
    /\ req[r].pc = "passkey"
    /\ IF passkey[req[r].pk].row = "live" THEN req' = [req EXCEPT ![r].pc = "assert"]
                                          ELSE Refuse(r)
    /\ UNCHANGED <<backend, workload, active, session, minted, key, passkey, lookup, ceremony,
                   ended, rush>>

(* complete_passkey_sign_in: one transaction on either store, on the         *)
(* challenge, the passkey and the account; a browser session comes of it.    *)
SignIn(r) ==
    /\ req[r].pc = "assert"
    /\ minted < MaxSession
    /\ IF ceremony[req[r].cer].row = "authentication" /\ active
            /\ passkey[req[r].pk].row = "live"
         THEN /\ Consume(req[r].cer) /\ Finish(r)
              /\ minted' = minted + 1
              /\ session' = [session EXCEPT ![minted + 1] = NewSession(None)]
         ELSE Refuse(r) /\ UNCHANGED <<ceremony, minted, session>>
    /\ UNCHANGED <<backend, workload, active, key, passkey, lookup, ended, rush>>

-----------------------------------------------------------------------------
Authenticate(r) ==
    \/ \E s \in Sessions, op \in Ops : ReadBrowserSession(r, s, op)
    \/ \E s \in Sessions : ReadAstrometrySession(r, s)
    \/ \E k \in Key, op \in Ops : ReadApiKey(r, k, op)
    \/ ReadAccount(r) \/ RevalidateKey(r) \/ TouchSession(r)
    \/ Forbid(r)

EndSessions(r) ==
    \/ Logout(r) \/ SqlLogoutAll(r) \/ DynLogoutAll(r)
    \/ \E s \in Sessions : RevokeSession(r, s) \/ Sweep(r, s)

ManageKeys(r) ==
    \/ \E k \in Key : CreateApiKey(r, k) \/ SqlRevokeApiKey(r, k) \/ DynRevokeApiKey(r, k)
    \/ DynListMinted(r) \/ ListLogins(r) \/ Recycle(r) \/ StoreLogin(r)

ManagePasskeys(r) ==
    \/ \E w \in Ceremony :
         StartRegistration(r, w) \/ ReadRegistration(r, w) \/ ReadAuthentication(r, w)
    \/ \E p \in Passkey, x \in Credential : SqlRegister(r, p, x) \/ DynRegister(r, p, x)
    \/ \E p \in Passkey : SqlRevokePasskey(r, p) \/ DynReadPasskey(r, p)
    \/ \E x \in Credential : SqlFindPasskey(r, x) \/ DynFindLookup(r, x)
    \/ DynRevokePasskey(r) \/ DynFindPasskey(r) \/ SignIn(r)

Next ==
    \/ Disable
    \/ \E s \in Sessions : Expire(s) \/ Purge(s)
    \/ \E w \in Ceremony : StartAuthentication(w)
    \/ \E r \in Request :
         Authenticate(r) \/ EndSessions(r) \/ ManageKeys(r) \/ ManagePasskeys(r)

Spec == Init /\ [][Next]_vars

-----------------------------------------------------------------------------
(* Properties.                                                             *)

(* Types: the rows, and what a request remembers between store calls.        *)
TypeOK ==
    /\ backend \in Backends /\ workload \in Workloads /\ active \in BOOLEAN
    /\ session \in [Sessions -> AuthSession]
    /\ minted \in 0..MaxSession
    /\ key \in [Key -> {"none", "live", "revoked"}]
    /\ passkey \in [Passkey -> PasskeyCredential]
    /\ lookup \in [Credential -> Passkey \cup {None}]
    /\ ceremony \in [Ceremony -> AuthChallenge]
    /\ \A r \in Request : req[r].todo \subseteq Sessions /\ req[r].s \in 0..MaxSession
    /\ ended \subseteq Sessions
    /\ rush \in [Key -> Nat]

(* Authentication of r is over, and it was let in.                           *)
LetIn(r) ==
    req[r].pc \in {"allowed", "sweep", "list", "recycle", "register", "unlink", "done"}

(* A request that arrives with an Astrometry session of a revoked key is     *)
(* turned away, even if the session was minted by a login that overlapped    *)
(* the revocation, was missed by the sweep, or the sweep never finished.     *)
RevokedKeyCutsOff == \A r \in Request : LetIn(r) => req[r].cut # "key"

(* A session that a logout, a revocation or a finished sweep has ended lets  *)
(* nobody in again, whatever touches, expiries and logins were under way;    *)
(* nor does anything once the account is closed.                             *)
EndedStaysEnded == \A r \in Request : LetIn(r) => req[r].cut \notin {"session", "account"}

(* /api/login churn stays bounded: a key never has more than MaxLogins       *)
(* working sessions, plus one for each further login that was under way at   *)
(* the same time.  Only a session revived by a request that had read it just *)
(* before its idle expiry comes on top.                                      *)
LoginsBounded ==
    \A k \in Key :
        Cardinality({s \in LiveLogins(k) : session[s].expired = "no"})
            <= MaxLogins + (IF rush[k] > 1 THEN rush[k] - 1 ELSE 0)

(* An authenticator has at most one live passkey, and on DynamoDB its lookup *)
(* item leads to it: registration, revocation and re-registration of the     *)
(* same authenticator never leave a passkey that cannot sign in.             *)
PasskeyLookupAgrees ==
    \A x \in Credential :
        LET live == {p \in LivePasskeys : passkey[p].cred = x}
        IN  /\ Cardinality(live) <= 1
            /\ backend = "dynamodb" => live = {lookup[x]} \ {None}
=============================================================================
