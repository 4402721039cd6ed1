------------------------------ MODULE RateLimit ------------------------------
(* The token bucket behind the rate-limiting middleware                     *)
(* (http/rate_limit.rs): two atomics, tokens and last_refill_ns, each       *)
(* updated by a compare-and-exchange loop of the requesting threads. Times  *)
(* are clock ticks; the u64 saturations lie far above the model's bounds.   *)
EXTENDS Integers, FiniteSetsExt

CONSTANTS Requests,       \* concurrent requests, one acquisition each
          Rate, Burst,    \* tokens per interval, and the bucket's capacity
          Interval,       \* interval_ns
          Second,         \* 1_000_000_000 ns, in the same ticks
          BucketTime         \* the clock of the model stops here

(* RateLimitBuilder::build refuses any other bucket.                        *)
ASSUME RateAssumption ==
    /\ Rate \in Nat \ {0} /\ Interval \in Nat \ {0} /\ Second \in Nat \ {0}
    /\ Burst \in Nat /\ Burst >= Rate /\ BucketTime \in Nat

VARIABLES bucketClock, tokens,
          lastRefill,           \* last_refill_ns
          spot,             \* spot[r]: the request's next step
          readAt,            \* readAt[r]: the instant its refill read
          expected,           \* expected[r]: the value its exchange compares with
          owed,            \* owed[r]: tokens its refill has still to add
          granted         \* requests let through

bucketVars == <<bucketClock, tokens, lastRefill, spot, readAt, expected, owed, granted>>

Least(a, b) == IF a < b THEN a ELSE b
Elapsed(t, from) == IF t > from THEN t - from ELSE 0

BucketInit ==
    /\ bucketClock = 0 /\ tokens = Burst /\ lastRefill = 0 /\ granted = {}
    /\ spot = [r \in Requests |-> "out"] /\ readAt = [r \in Requests |-> 0]
    /\ expected = [r \in Requests |-> 0] /\ owed = [r \in Requests |-> 0]

BucketTo(r, s) == spot' = [spot EXCEPT ![r] = s]

-----------------------------------------------------------------------------
(* refill: read the clock once, then exchange lastRefill for the start of the*)
(* interval the clock is in; the thread that wins adds the tokens.          *)
ReadClock(r) ==
    /\ spot[r] = "out" /\ readAt' = [readAt EXCEPT ![r] = bucketClock] /\ BucketTo(r, "refill")
    /\ UNCHANGED <<bucketClock, tokens, lastRefill, expected, owed, granted>>
ReadLast(r) ==
    /\ spot[r] = "refill" /\ expected' = [expected EXCEPT ![r] = lastRefill]
    /\ BucketTo(r, IF Elapsed(readAt[r], lastRefill) \div Interval = 0 THEN "take" ELSE "advance")
    /\ UNCHANGED <<bucketClock, tokens, lastRefill, readAt, owed, granted>>
Advance(r) ==
    /\ spot[r] = "advance"
    /\ LET intervals == Elapsed(readAt[r], expected[r]) \div Interval IN
       IF lastRefill = expected[r]
       THEN /\ lastRefill' = lastRefill + intervals * Interval
            /\ owed' = [owed EXCEPT ![r] = intervals * Rate] /\ BucketTo(r, "add")
       ELSE BucketTo(r, "refill") /\ UNCHANGED <<lastRefill, owed>>
    /\ UNCHANGED <<bucketClock, tokens, readAt, expected, granted>>

(* add_tokens, up to the burst.                                             *)
ReadForAdd(r) ==
    /\ spot[r] = "add" /\ expected' = [expected EXCEPT ![r] = tokens] /\ BucketTo(r, "exchange")
    /\ UNCHANGED <<bucketClock, tokens, lastRefill, readAt, owed, granted>>
AddTokens(r) ==
    /\ spot[r] = "exchange"
    /\ IF tokens = expected[r]
       THEN /\ tokens' = Least(tokens + owed[r], Burst)
            /\ owed' = [owed EXCEPT ![r] = 0] /\ BucketTo(r, "take")
       ELSE BucketTo(r, "add") /\ UNCHANGED <<tokens, owed>>
    /\ UNCHANGED <<bucketClock, lastRefill, readAt, expected, granted>>

(* try_acquire: no token, no request; rate_limit_check answers 429.         *)
ReadTokens(r) ==
    /\ spot[r] = "take" /\ expected' = [expected EXCEPT ![r] = tokens]
    /\ BucketTo(r, IF tokens = 0 THEN "refused" ELSE "spend")
    /\ UNCHANGED <<bucketClock, tokens, lastRefill, readAt, owed, granted>>
\* A mutant of Spend: a store where the code exchanges.
SpendByStore(r) ==
    /\ spot[r] = "spend"
    /\ tokens' = expected[r] - 1 /\ granted' = granted \cup {r} /\ BucketTo(r, "granted")
    /\ UNCHANGED <<bucketClock, lastRefill, readAt, expected, owed>>
Spend(r) ==
    /\ spot[r] = "spend"
    /\ IF tokens = expected[r]
       THEN tokens' = tokens - 1 /\ granted' = granted \cup {r} /\ BucketTo(r, "granted")
       ELSE BucketTo(r, "take") /\ UNCHANGED <<tokens, granted>>
    /\ UNCHANGED <<bucketClock, lastRefill, readAt, expected, owed>>

(* retry_after_secs: from the instant it reads to the end of the interval,  *)
(* rounded up to whole seconds and at least one.                            *)
DivCeil(n, d) == (n + d - 1) \div d
RetryAfter(now) ==
    LET remaining == Interval - (Elapsed(now, lastRefill) % Interval)
    IN  Max({DivCeil(remaining, Second), 1})

BucketTick ==
    /\ bucketClock < BucketTime /\ bucketClock' = bucketClock + 1
    /\ UNCHANGED <<tokens, lastRefill, spot, readAt, expected, owed, granted>>

BucketStep(r) ==
    \/ ReadClock(r) \/ ReadLast(r) \/ Advance(r) \/ ReadForAdd(r) \/ AddTokens(r)
    \/ ReadTokens(r) \/ Spend(r)
BucketNext == BucketTick \/ \E r \in Requests : BucketStep(r)
BucketSpec == BucketInit /\ [][BucketNext]_bucketVars
-----------------------------------------------------------------------------
(* However the exchanges of concurrent requests interleave, the bucket lets *)
(* through no more than its burst and the rate of the intervals gone by:    *)
(* an interval's tokens are added by the one thread that advanced lastRefill, a*)
(* spent token is spent once, and lastRefill stays on an interval's boundary.*)
(* A 429's Retry-After, in whole seconds, never ends before the interval    *)
(* its request was refused in, whatever refill came between its two reads,  *)
(* and when none did it is less than a second late.                         *)
RateHeld ==
    /\ tokens \in 0..Burst /\ lastRefill <= bucketClock /\ lastRefill % Interval = 0
    /\ Cardinality(granted) + tokens + MapThenSumSet(LAMBDA r : owed[r], Requests) <= Burst + Rate * (lastRefill \div Interval)
    /\ \A r \in Requests : spot[r] = "refused" =>
         \A now \in readAt[r]..bucketClock :
           LET wait == RetryAfter(now) * Second
               left == Interval - (now % Interval)
           IN  wait >= left /\ (lastRefill <= now => wait < left + Second)
=============================================================================
