------------------------ MODULE MCAccountCredentials ------------------------
(* A small instance of AccountCredentials for TLC.                          *)
EXTENDS AccountCredentials, TLC

(* Sessions and keys in one part of the run, passkeys in the other.          *)
TwoWorkloads ==
    { {"view", "logout", "revoke_session", "logout_all", "create_key", "revoke_key",
       "astrometry", "use_key", "login"},
      {"start_registration", "register", "revoke_passkey", "sign_in", "logout_all"} }

Interchangeable == Permutations(Request)
=============================================================================
