----------------------------- MODULE RateLimiter -----------------------------
(***************************************************************************)
(* internal/infra/ratelimit/redis.go: RedisLimiter.Allow and the Lua script  *)
(* it evaluates.  Redis runs the script atomically; the time it works with   *)
(* is the one the calling instance read before it sent the request, while    *)
(* the expiry of its two keys runs on the clock of Redis.                    *)
(*                                                                          *)
(* The script computes in doubles.  Tokens are counted in units so fine that  *)
(* every number it stores is a whole one: a request is RestoreOver * Grain    *)
(* units, and a clock unit restores Immediate * Grain of them.  The rounding  *)
(* of an operation is a constant function that may be off by Error units; the *)
(* operations that lose nothing (whole numbers, a difference x - 1 with       *)
(* x >= 1, a minimum, a number stored and read back) are not rounded.         *)
(*                                                                          *)
(* The client library sends a command again whose answer does not come, so   *)
(* that the script may run more than once for one request, with the same     *)
(* arguments: the window has the member of one it allowed before, but the     *)
(* bucket is charged once more, and a run for one it refused is that of a    *)
(* request which took as long to arrive.  The random member of a request is  *)
(* abstracted to its ordinal among the requests allowed, which differs from  *)
(* every other as well.                                                      *)
(***************************************************************************)
EXTENDS Integers, Sequences, FiniteSets, FiniteSetsExt, Functions

CONSTANTS
    Identities,   \* identityKey(operation, dimension, identity)
    Immediate,    \* Rule.ImmediateRequests of each identity
    RestoreOver,  \* Rule.RestoreImmediateRequestsOver, in clock units
    Maximum,      \* Rule.MaximumRequests
    Window,       \* Rule.MaximumWindow, in clock units
    Instances,    \* API instances
    Grain,        \* units in 1/RestoreOver of a request
    Error,        \* units by which the rounding of an operation may be off
    Rounded,      \* the doubles next to the quotients and the sums of line 38
    Waited,       \* the doubles of line 56, in the units restored by then
    Offsets,      \* what may lie between the time an instance read when it sent
                  \* a request and the clock of Redis when the script runs
    Second,       \* clock units in a second
    Resends,      \* whether an answer may be lost and the request sent again
    MaxTime       \* bound: the clock stops here

Rules == [Identities -> Nat \ {0}]

\* validateRule: every value of a rule is positive.
ASSUME RuleAssumption == {Immediate, RestoreOver, Maximum, Window} \subseteq Rules

\* The units of the whole allowance, of one request, and of what one clock unit
\* restores.
One(k) == RestoreOver[k] * Grain
Full(k) == Immediate[k] * One(k)
Unit(k) == Immediate[k] * Grain

\* A double is precise to some 16 digits: all roundings together are less than
\* what a clock unit restores to the smallest rule.
ASSUME ArithmeticAssumption ==
    /\ Grain \in Nat \ {0} /\ Error \in Nat /\ 5 * Error <= Grain
    /\ \A k \in Identities :
        /\ \A x \in 0..2 * Full(k) + Error :
              Rounded[k][x] \in Nat /\ Rounded[k][x] \in (x - Error)..(x + Error)
        /\ \A x \in 1..One(k) :
              Waited[k][x] \in Nat \ {0} /\ Waited[k][x] \in (x - Error)..(x + Error)

ASSUME OffsetsAssumption ==
    /\ Instances # {} /\ Offsets \in [Instances -> (SUBSET Int) \ {{}}]
    /\ IsFiniteSet(UNION {Offsets[i] : i \in Instances}) /\ Resends \in BOOLEAN
    /\ Second \in Nat \ {0} /\ MaxTime \in Nat

VARIABLES
    now,         \* the clock of Redis
    tokens,      \* field "tokens" of the bucket, in units
    updated_at,  \* field "updated_at" of the bucket
    window,      \* the sorted set: the score of each of its members
    expires,     \* when the bucket and the window expire; 0: they do not exist
    grants,      \* the times, on the clock of Redis, of the requests allowed
    answer       \* the answer to the identity's latest request

limiterVars == <<now, tokens, updated_at, window, expires, grants, answer>>

Lesser(a, b) == IF a < b THEN a ELSE b
Greater(a, b) == IF a > b THEN a ELSE b

\* The keys exist when the script runs at the Redis time at.
Exists(k, at) == expires[k] > at

\* The time the bucket is refilled for.
Elapsed(k, t) == Greater(0, t - updated_at[k])

\* Mutant: the refill is not capped.
RefilledUncapped(k, at, t) ==
    IF ~Exists(k, at) THEN Full(k) ELSE tokens[k] + Elapsed(k, t) * Unit(k)

\* Lines 29-38 of the script: what the bucket holds at the instance's time t.
\* The quotient and the sum are rounded, but nothing is when no time elapsed,
\* and a whole restoration period gives at least the immediate limit.
Refilled(k, at, t) ==
    IF ~Exists(k, at) \/ Elapsed(k, t) >= RestoreOver[k] THEN Full(k)
    ELSE IF Elapsed(k, t) = 0 THEN tokens[k]
    ELSE Lesser(Full(k), Rounded[k][tokens[k] + Rounded[k][Elapsed(k, t) * Unit(k)]])

\* Mutant: a member leaves the window one unit early.
PrunedEarly(k, at, t) ==
    Restrict(window[k], {n \in DOMAIN window[k] :
                            Exists(k, at) /\ window[k][n] > t - Window[k] + 1})

\* Line 40: the members ZREMRANGEBYSCORE leaves.
Pruned(k, at, t) ==
    Restrict(window[k], {n \in DOMAIN window[k] :
                            Exists(k, at) /\ window[k][n] > t - Window[k]})

\* Line 41: ZCARD.
Count(k, at, t) == Cardinality(DOMAIN Pruned(k, at, t))

\* Line 46: ZADD of a new member, or of one that is there already.
WithMember(members, n, score) ==
    [m \in DOMAIN members \cup {n} |-> IF m = n THEN score ELSE members[m]]

\* Mutant: only the window is looked at.
AllowedByWindow(k, at, t) == Count(k, at, t) < Maximum[k]

\* Line 42.
Allowed(k, at, t) ==
    /\ Refilled(k, at, t) >= One(k)
    /\ Count(k, at, t) < Maximum[k]

\* Lines 54-57: when the bucket will hold a request.
TokenRetry(k, at, t) ==
    LET left == Refilled(k, at, t)
    IN  IF left >= One(k) THEN 0 ELSE (Waited[k][One(k) - left] + Unit(k) - 1) \div Unit(k)

\* Mutant: the youngest member is looked up.
WindowRetryYoungest(k, at, t) ==
    IF Count(k, at, t) < Maximum[k] THEN 0
    ELSE Greater(0, Max(Range(Pruned(k, at, t))) + Window[k] - t)

\* Lines 58-64: when the oldest member will leave the window.
WindowRetry(k, at, t) ==
    IF Count(k, at, t) < Maximum[k] THEN 0
    ELSE Greater(0, Min(Range(Pruned(k, at, t))) + Window[k] - t)

\* Line 66: how long a refused request is told to wait.
RetryAfter(k, at, t) == Greater(TokenRetry(k, at, t), WindowRetry(k, at, t))

\* Mutant: both keys live as long as the restoration period.
LifespanRestoration(k) == RestoreOver[k]

\* Line 50.
Lifespan(k) == 2 * Greater(RestoreOver[k], Window[k])

\* Mutant: the seconds are cut off.
WholeSeconds(wait) == Greater(1, wait \div Second)

\* The Retry-After header of a refusal, in seconds (rate_limit.go:48).
RetryAfterSeconds(wait) == Greater(1, (wait + Second - 1) \div Second)

LimiterInit ==
    /\ now = 0
    /\ tokens = [k \in Identities |-> 0]
    /\ updated_at = [k \in Identities |-> 0]
    /\ window = [k \in Identities |-> <<>>]   \* the empty function
    /\ expires = [k \in Identities |-> 0]
    /\ grants = [k \in Identities |-> <<>>]
    /\ answer = [k \in Identities |-> "none"]

\* The member of a request that was not allowed before.
NewMember(k) == Len(grants[k]) + 1

\* What the script writes: the bucket either way, member n of the window when
\* the request is allowed, and the expiry of both keys.
Write(k, t, allowed, n) ==
    /\ tokens' = [tokens EXCEPT ![k] =
          IF allowed THEN Refilled(k, now, t) - One(k) ELSE Refilled(k, now, t)]
    /\ updated_at' = [updated_at EXCEPT ![k] = t]
    /\ window' = [window EXCEPT ![k] =
          IF allowed THEN WithMember(Pruned(k, now, t), n, t) ELSE Pruned(k, now, t)]
    /\ expires' = [expires EXCEPT ![k] = now + Lifespan(k)]
    /\ grants' = [grants EXCEPT ![k] =
          IF allowed /\ n = NewMember(k) THEN Append(@, now) ELSE @]
    /\ answer' = [answer EXCEPT ![k] = IF allowed THEN "allowed" ELSE "limited"]
    /\ UNCHANGED now

\* The script runs for the request of time t and member n.
Execute(k, t, n) == Write(k, t, Allowed(k, now, t), n)

\* Allow, called by instance i: it reads its clock (line 138), and the script
\* runs when the request reaches Redis.
Allow(k, i) == \E offset \in Offsets[i] : Execute(k, now + offset, NewMember(k))

\* The script runs once more for a request whose member the window has.  For
\* one that was refused it runs as it does in Allow with the same offset.
Resend(k, i) ==
    /\ Resends
    /\ \E offset \in Offsets[i] : \E n \in DOMAIN Pruned(k, now, now + offset) :
        /\ window[k][n] = now + offset
        /\ Execute(k, now + offset, n)

Tick ==
    /\ now < MaxTime
    /\ now' = now + 1
    /\ UNCHANGED <<tokens, updated_at, window, expires, grants, answer>>

LimiterNext ==
    \/ \E k \in Identities, i \in Instances : Allow(k, i) \/ Resend(k, i)
    \/ Tick

LimiterSpec == LimiterInit /\ [][LimiterNext]_limiterVars

-----------------------------------------------------------------------------

LimiterTypeOK ==
    /\ now \in 0..MaxTime
    /\ \A k \in Identities :
        /\ tokens[k] \in 0..Full(k)
        /\ updated_at[k] \in Int
        /\ IsFiniteSet(DOMAIN window[k]) /\ Cardinality(DOMAIN window[k]) <= Maximum[k]
        /\ window[k] \in [DOMAIN window[k] -> Int] /\ DOMAIN window[k] \subseteq DOMAIN grants[k]
        /\ expires[k] \in 0..MaxTime + Lifespan(k)
        /\ grants[k] \in Seq(0..MaxTime)
        /\ answer[k] \in {"none", "allowed", "limited"}

\* How far apart the times of two requests that reach Redis together may be.
Spread == LET offsets == UNION {Offsets[i] : i \in Instances} IN Max(offsets) - Min(offsets)

\* Between two allowed requests, both counted, there are at most as many as
\* the immediate allowance plus what the time between them restores, whether
\* that time is taken when they were sent or when they arrived
\* (redis.go:70-73).  Rounding adds at most two errors per clock unit.
BurstBound ==
    \A k \in Identities : \A a, b \in DOMAIN grants[k] : a <= b =>
        (b - a + 1) * One(k)
            <= Full(k) + (grants[k][b] - grants[k][a] + Spread) * (Unit(k) + 2 * Error)

\* No rolling window holds more requests than the hard limit (redis.go:75-78),
\* also when requests are late or sent again later: only by how far their times
\* lie apart may the window be shorter.
HardLimit ==
    \A k \in Identities : \A a, b \in DOMAIN grants[k] :
        a <= b /\ grants[k][b] - grants[k][a] + Spread < Window[k] => b - a + 1 <= Maximum[k]

\* The retry time of a refusal is right to one clock unit: if no request comes
\* between, one made a unit after it is allowed, and one made more than a unit
\* before it is refused.  The header that tells it in seconds sends nobody back
\* earlier, nor a whole second later.
RetryAfterClose ==
    \A k \in Identities : ~Allowed(k, now, now) =>
        LET wait == RetryAfter(k, now, now)
            header == RetryAfterSeconds(wait) * Second
        IN  /\ wait > 0
            /\ Allowed(k, now + wait + 1, now + wait + 1)
            /\ \A t \in now..(now + wait - 2) : ~Allowed(k, t, t)
            /\ Allowed(k, now + header + 1, now + header + 1)
            /\ wait <= header /\ header < wait + Second

\* What the bucket would hold if nothing were rounded since the script ran.
Unrounded(k, at, t) ==
    IF ~Exists(k, at) THEN Full(k)
    ELSE Lesser(Full(k), tokens[k] + Elapsed(k, t) * Unit(k))

Ideal == INSTANCE HybridLimit WITH
    time <- now,
    allowance <- [k \in Identities |-> Unrounded(k, now, now)]

\* Refilling lazily, pruning lazily and letting both keys expire make no
\* difference but for the rounding: every answer is one of the continuous
\* limiter that rounds its allowance when a request reads it.
ImplementsHybridLimit == Ideal!Spec
=============================================================================
