---------------------------- MODULE MCRateLimits ----------------------------
(* A small instance of RateLimits for TLC.                                  *)
EXTENDS RateLimits

(* The proportions of EmailSendRateLimits::default, in ticks.               *)
SmallLimits ==
    [source_window |-> 4, source_budget |-> 3,
     source_daily_window |-> 5, source_daily_budget |-> 4,
     recipient_cooldown |-> 2,
     recipient_hour_window |-> 4, recipient_hour_limit |-> 2,
     recipient_daily_window |-> 5, recipient_daily_limit |-> 3,
     global_hour_window |-> 4, global_hour_limit |-> 3,
     global_daily_window |-> 5, global_daily_limit |-> 4]

Interchangeable ==
    Permutations(Identity) \cup Permutations(Source) \cup Permutations(Recipient)
        \cup Permutations(Call)
=============================================================================
