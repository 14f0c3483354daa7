----------------------------- MODULE RateLimits -----------------------------
(***************************************************************************)
(* The admission controls of src/src/rate_limit.rs: RateLimiter, a map of    *)
(* token buckets that guards submissions, uploads and passkey ceremonies,    *)
(* and EmailSendRateLimiter, seven rolling budgets that guard sign-in mail.  *)
(* Both forget entries when their maps grow, and both live in one process.   *)
(*                                                                         *)
(* Time is in ticks, Second of them to a second: who is refused is told to   *)
(* wait for a whole number of seconds.  A bucket gains one unit per tick and *)
(* a request costs Cost units.  RateLimiter reads the clock under its lock;   *)
(* check of the mail limiter reads it before the lock, so that calls may be   *)
(* applied out of order.                                                     *)
(***************************************************************************)
EXTENDS Integers, Sequences, FiniteSets, SequencesExt

CONSTANTS
    Identity,       \* identities of RateLimiter
    Source,         \* network sources of sign-in requests
    Recipient,      \* mail addresses
    Call,           \* calls of the mail limiter that may be overtaken
    Second,         \* ticks in a second
    Capacity,       \* of a bucket, in units
    Cost,           \* of one request, in units
    Threshold,      \* SWEEP_THRESHOLD_BUCKETS
    Limits,         \* EmailSendRateLimits
    Lags,           \* bounds to consider on the wait for the lock
    MaxTime         \* bound on the clock

(* The fields of EmailSendRateLimits, windows and budgets alike.             *)
EmailSendRateLimits ==
    [{"source_window", "source_budget", "source_daily_window", "source_daily_budget",
      "recipient_cooldown", "recipient_hour_window", "recipient_hour_limit",
      "recipient_daily_window", "recipient_daily_limit", "global_hour_window",
      "global_hour_limit", "global_daily_window", "global_daily_limit"} -> Nat \ {0}]

ASSUME RateLimitsAssumptions ==
    /\ Second \in Nat \ {0}
    /\ Cost \in Nat \ {0} /\ Capacity \in Nat /\ Capacity >= Cost
    /\ Threshold \in Nat \ {0} /\ MaxTime \in Nat /\ Lags \subseteq Nat
    /\ Limits \in EmailSendRateLimits

VARIABLES
    now,            \* the clock
    subject,        \* which limiter this behaviour is about
    lag,            \* the longest wait for the lock
    buckets,        \* RateLimiter.inner: identity -> bucket
    sources,        \* EmailSendRateState: source -> sequence of SourceSend
    recipients,     \* recipient -> sequence of instants
    global,         \* sequence of instants
    call,           \* Call -> what it is about and the time it read
    granted,        \* history: what was let through, in order
    told            \* history: somebody who was told to wait, and until when

limiterVars == <<now, subject, lag, buckets, sources, recipients, global, call, granted, told>>

Ready == [pc |-> "ready"]
NoEntries == [x \in {} |-> <<>>]
NoEvents == <<>>
Nobody == [until |-> 0]

LimiterInit ==
    /\ now = 0
    /\ \/ subject = "requests" /\ lag = 0
       \/ subject = "mail" /\ lag \in Lags
    /\ buckets = NoEntries
    /\ sources = NoEntries /\ recipients = NoEntries /\ global = NoEvents
    /\ call = [c \in Call |-> Ready]
    /\ granted = NoEvents /\ told = Nobody

(* m with the entry x set to v, x new or not.                                *)
Put(m, x, v) == [y \in DOMAIN m \cup {x} |-> IF y = x THEN v ELSE m[y]]

(* ceil().max(1.0), and as_secs().max(1): whole seconds, one at least.        *)
RoundedUp(ticks) ==
    LET seconds == (ticks + Second - 1) \div Second
    IN  Second * (IF seconds > 1 THEN seconds ELSE 1)

RoundedDown(ticks) ==
    LET seconds == ticks \div Second
    IN  Second * (IF seconds > 1 THEN seconds ELSE 1)

(* The answer to a call: let through, or told to wait.  One of those who are *)
(* told is watched, where calls are applied in order.                        *)
Answer(who, t, wait) ==
    \/ /\ wait = 0
       /\ granted' = Append(granted, [who |-> who, at |-> t])
       /\ UNCHANGED told
    \/ /\ wait > 0
       /\ UNCHANGED granted
       /\ \/ UNCHANGED told
          \/ lag = 0 /\ told = Nobody /\ told' = [who |-> who, until |-> t + wait]

-----------------------------------------------------------------------------
(* RateLimiter::check.                                                       *)

(* now.duration_since: saturates at zero.                                    *)
Elapsed(t, at) == IF at < t THEN t - at ELSE 0

AtMost(n, bound) == IF n < bound THEN n ELSE bound

Level(b) == b.tokens + Elapsed(now, b.updated_at)

(* Variant for the mutation runs: buckets that could pay are dropped too.    *)
KeptUnlessSpent(b) == Level(b) < Cost

(* A bucket worth keeping: not full yet.                                     *)
Kept(b) == Level(b) < Capacity

(* The map is swept before it takes in one identity too many.                *)
Swept(id) ==
    IF Cardinality(DOMAIN buckets) >= Threshold /\ id \notin DOMAIN buckets
      THEN [x \in {y \in DOMAIN buckets : Kept(buckets[y])} |-> buckets[x]]
      ELSE buckets

(* What the bucket of id holds for a call made now.                          *)
Tokens(id) ==
    LET kept == Swept(id)
    IN  IF id \in DOMAIN kept THEN AtMost(Level(kept[id]), Capacity) ELSE Capacity

(* The retry_after of a refusal; 0 if the call is let through.               *)
BucketWait(id) == IF Tokens(id) >= Cost THEN 0 ELSE RoundedUp(Cost - Tokens(id))

Check(id) ==
    LET wait == BucketWait(id)
        paid == IF wait = 0 THEN Tokens(id) - Cost ELSE Tokens(id)
    IN  /\ subject = "requests"
        /\ buckets' = Put(Swept(id), id, [tokens |-> paid, updated_at |-> now])
        /\ Answer(id, now, wait)
        /\ UNCHANGED <<now, subject, lag, sources, recipients, global, call>>

-----------------------------------------------------------------------------
(* EmailSendRateLimiter.                                                     *)

(* The positions of the events that are still within the window.             *)
Recent(events, t, window) == {i \in DOMAIN events : Elapsed(t, events[i].at) < window}

(* retain_recent, retain_recent_source: drop old events at the front.        *)
Retain(events, t, window) ==
    LET fresh == {i \in DOMAIN events : Elapsed(t, events[i].at) < window}
    IN  IF fresh = {} THEN NoEvents ELSE SubSeq(events, Min(fresh), Len(events))

(* Variant for the mutation runs: every recipient costs the same.            *)
RecipientCostFlat(events, recipient, t, window) == 1

(* recipient_cost: a further recipient within the window counts double.      *)
RecipientCost(events, recipient, t, window) ==
    LET recent == Recent(events, t, window)
    IN  IF recent = {} \/ \E i \in recent : events[i].recipient = recipient THEN 1 ELSE 2

(* seconds_until_expiry.                                                     *)
UntilExpiry(at, t, window) == RoundedUp(window - Elapsed(t, at))

(* Spent(events, recent, cost)[i]: what the recent ones among the i oldest   *)
(* events cost, cost being the field of SourceSend to add up.                *)
Spent(events, recent, cost) ==
    LET spent[i \in 0..Len(events)] ==
            IF i = 0 THEN 0 ELSE spent[i - 1] + (IF i \in recent THEN events[i][cost] ELSE 0)
    IN  spent

(* weighted_retry_after: 0 if the budget allows it; otherwise the time until *)
(* enough of the oldest events have left the window.                         *)
WeightedRetryAfter(events, t, window, budget, incoming, cost) ==
    LET recent == Recent(events, t, window)
        spent == Spent(events, recent, cost)
        needed == spent[Len(events)] + incoming
        enough == {i \in recent : spent[i] + budget >= needed}
    IN  IF needed <= budget THEN 0
        ELSE IF enough = {} THEN RoundedDown(window)
        ELSE UntilExpiry(events[Min(enough)].at, t, window)

(* Variant for the mutation runs: the newest event decides.                  *)
CountRetryAfterNewest(events, t, window, limit) ==
    LET recent == Recent(events, t, window)
    IN  IF Cardinality(recent) < limit THEN 0
        ELSE UntilExpiry(events[Max(recent)].at, t, window)

(* count_retry_after: what must expire is the limit-th newest.               *)
CountRetryAfter(events, t, window, limit) ==
    LET recent == Recent(events, t, window)
        release == CHOOSE i \in recent : Cardinality({j \in recent : j >= i}) = limit
    IN  IF Cardinality(recent) < limit THEN 0
        ELSE UntilExpiry(events[release].at, t, window)

(* Variant for the mutation runs: sends are kept for the shorter windows.    *)
RetentionShort == [source |-> Limits.source_window,
                   recipient |-> Limits.recipient_hour_window,
                   global |-> Limits.global_hour_window]

(* How long sends are remembered, for each of the three lists.               *)
Retention ==
    [source |-> Max({Limits.source_window, Limits.source_daily_window}),
     recipient |-> Max({Limits.recipient_cooldown, Limits.recipient_hour_window,
                        Limits.recipient_daily_window}),
     global |-> Max({Limits.global_hour_window, Limits.global_daily_window})]

(* One of the maps after sweep, with an entry for x.                         *)
SweptMap(m, x, t, window) ==
    LET own == IF x \in DOMAIN m THEN Retain(m[x], t, window) ELSE NoEvents
        crowded == Cardinality(DOMAIN m) >= Threshold /\ x \notin DOMAIN m
        rest == IF crowded
                  THEN [y \in {z \in DOMAIN m : Retain(m[z], t, window) # NoEvents}
                          |-> Retain(m[y], t, window)]
                  ELSE m
    IN  Put(rest, x, own)

(* The largest retry_after of the seven budgets; 0 if all of them allow it.  *)
MailWait(from, to, all, send, t) ==
    Max({WeightedRetryAfter(from, t, Limits.source_window, Limits.source_budget,
                            send.window_cost, "window_cost"),
         WeightedRetryAfter(from, t, Limits.source_daily_window,
                            Limits.source_daily_budget, send.daily_cost, "daily_cost"),
         CountRetryAfter(to, t, Limits.recipient_cooldown, 1),
         CountRetryAfter(to, t, Limits.recipient_hour_window,
                         Limits.recipient_hour_limit),
         CountRetryAfter(to, t, Limits.recipient_daily_window,
                         Limits.recipient_daily_limit),
         CountRetryAfter(all, t, Limits.global_hour_window, Limits.global_hour_limit),
         CountRetryAfter(all, t, Limits.global_daily_window,
                         Limits.global_daily_limit)})

(* What is recorded for the source: both costs as they were when it was sent. *)
SourceSend(from, r, t) ==
    [at |-> t, recipient |-> r,
     window_cost |-> RecipientCost(from, r, t, Limits.source_window),
     daily_cost |-> RecipientCost(from, r, t, Limits.source_daily_window)]

(* Variant for the mutation runs: the process-wide list is charged first.    *)
ChargedAtOnce(wait) == IF wait = 0 THEN {"source", "recipient", "global"} ELSE {"global"}

(* Which lists a call is charged to: all of them, or none.                   *)
Charged(wait) == IF wait = 0 THEN {"source", "recipient", "global"} ELSE {}

(* check_at: all budgets under one lock, charged only if all allow it.       *)
CheckAt(s, r, t) ==
    LET bySource == SweptMap(sources, s, t, Retention.source)
        byRecipient == SweptMap(recipients, r, t, Retention.recipient)
        all == Retain(global, t, Retention.global)
        send == SourceSend(bySource[s], r, t)
        wait == MailWait(bySource[s], byRecipient[r], all, send, t)
        charged == Charged(wait)
        with(events, list, e) == IF list \in charged THEN Append(events, e) ELSE events
    IN  /\ sources' = [bySource EXCEPT ![s] = with(@, "source", send)]
        /\ recipients' = [byRecipient EXCEPT ![r] = with(@, "recipient", [at |-> t])]
        /\ global' = with(all, "global", [at |-> t])
        /\ Answer(<<s, r>>, t, wait)
        /\ UNCHANGED <<now, subject, lag, buckets>>

(* check: the clock is read, and the lock is free ...                        *)
CheckMail(s, r) ==
    /\ subject = "mail"
    /\ CheckAt(s, r, now)
    /\ UNCHANGED call

(* ... or others take it first.                                              *)
ReadClock(c, s, r) ==
    /\ subject = "mail" /\ lag > 0
    /\ call[c] = Ready
    /\ call' = [call EXCEPT ![c] = [pc |-> "wait", source |-> s, recipient |-> r, at |-> now]]
    /\ UNCHANGED <<now, subject, lag, buckets, sources, recipients, global, granted, told>>

TakeLock(c) ==
    /\ call[c].pc = "wait"
    /\ CheckAt(call[c].source, call[c].recipient, call[c].at)
    /\ call' = [call EXCEPT ![c] = Ready]

-----------------------------------------------------------------------------
(* A call that waits for the lock gets it within `lag'.                      *)
Tick ==
    /\ now < MaxTime
    /\ \A c \in Call : call[c].pc = "wait" => now < call[c].at + lag
    /\ now' = now + 1
    /\ told' = IF told.until > now' THEN told ELSE Nobody
    /\ UNCHANGED <<subject, lag, buckets, sources, recipients, global, call, granted>>

LimiterNext ==
    \/ Tick
    \/ \E id \in Identity : Check(id)
    \/ \E s \in Source, r \in Recipient :
         CheckMail(s, r) \/ \E c \in Call : ReadClock(c, s, r)
    \/ \E c \in Call : TakeLock(c)

LimiterSpec == LimiterInit /\ [][LimiterNext]_limiterVars

-----------------------------------------------------------------------------
(* Properties.                                                             *)

(* What was let through for those in Who: positions in the history.          *)
Grants(Who) == {i \in DOMAIN granted : granted[i].who \in Who}

(* At most `limit' of them in any window of that length, short of the lag.   *)
Within(Who, window, limit) ==
    \A i \in Grants(Who) :
        Cardinality({j \in Grants(Who) : /\ granted[i].at <= granted[j].at
                                         /\ granted[j].at + lag < granted[i].at + window})
            <= limit

(* An identity gets no more than a full bucket plus what flowed in, over any *)
(* stretch of time, although its bucket may have been forgotten and made     *)
(* anew in between.                                                          *)
BurstBounded ==
    subject = "requests" =>
        \A i, j \in DOMAIN granted : i <= j =>
            Cardinality({k \in i..j : granted[k].who = granted[i].who}) * Cost
                <= Capacity + (granted[j].at - granted[i].at)

(* Every rolling budget of sign-in mail holds over the whole history, for    *)
(* sends that the sweeps have long dropped: per recipient across sources,    *)
(* and for the process.                                                      *)
MailBudgetsHold ==
    subject = "mail" =>
        /\ \A r \in Recipient :
             /\ Within(Source \X {r}, Limits.recipient_cooldown, 1)
             /\ Within(Source \X {r}, Limits.recipient_hour_window, Limits.recipient_hour_limit)
             /\ Within(Source \X {r}, Limits.recipient_daily_window,
                       Limits.recipient_daily_limit)
        /\ Within(Source \X Recipient, Limits.global_hour_window, Limits.global_hour_limit)
        /\ Within(Source \X Recipient, Limits.global_daily_window, Limits.global_daily_limit)

(* "One network can send three messages to one recipient, or two messages to *)
(* two recipients, per rolling fifteen-minute window" (rate_limit.rs): with  *)
(* a budget of three, a window that saw two recipients saw two messages, if  *)
(* calls are applied in the order in which they read the clock.              *)
NoSpraying ==
    subject = "mail" /\ lag = 0 =>
      \A s \in Source :
        LET sent == Grants({s} \X Recipient)
            near(i) == {j \in sent : /\ granted[i].at <= granted[j].at
                                     /\ granted[j].at < granted[i].at + Limits.source_window}
        IN  \A i \in sent :
              /\ Cardinality(near(i)) <= Limits.source_budget
              /\ Cardinality({granted[j].who : j \in near(i)}) > 1
                   => Cardinality(near(i)) < Limits.source_budget

(* A refused request charges nothing: each list holds exactly the sends that *)
(* were let through, as long as they count for it, and nothing else.         *)
OnlySendsAreCharged ==
    LET same(events, Who, window) ==
            \A t \in 0..now : t + window > now =>
                Cardinality({i \in DOMAIN events : events[i].at = t})
                  = Cardinality({i \in Grants(Who) : granted[i].at = t})
        entry(m, x) == IF x \in DOMAIN m THEN m[x] ELSE NoEvents
    IN  subject = "mail" =>
          /\ \A s \in Source : same(entry(sources, s), {s} \X Recipient, Retention.source)
          /\ \A r \in Recipient : same(entry(recipients, r), Source \X {r}, Retention.recipient)
          /\ same(global, Source \X Recipient, Retention.global)

(* Coming back early is no use: whoever was told to wait is not let in a     *)
(* second or more before that time, whatever happens to others and whatever  *)
(* is swept in the meantime, if calls are applied in the order in which they *)
(* read the clock.  (Within the last second the rounding of the answer       *)
(* leaves it open.)                                                          *)
RetryAfterIsTrue ==
    [][(Len(granted') > Len(granted) /\ told # Nobody /\ Last(granted').who = told.who)
          => Last(granted').at + Second > told.until]_limiterVars
=============================================================================
