---------------------------- MODULE AttemptGuards ----------------------------
(***************************************************************************)
(* The two layers of limits in front of a credential attempt: the coarse     *)
(* per-IP limit of handlers/rate_limit.go, which lets requests through when  *)
(* Redis is unavailable, and the guards of attempt_guards.go, which do not.  *)
(*                                                                          *)
(* The three guards (password, OTP, password reset) check the source IP      *)
(* first and then, when the attempt names one, an email or an account.  Each *)
(* check is a call of RateLimiter with a key of its own, so the checks of    *)
(* concurrent attempts interleave.                                          *)
(***************************************************************************)
EXTENDS RateLimiter

CONSTANTS
    Attempts,     \* credential attempts
    RequestKey,   \* the coarse limit's key of each attempt: its client IP
    SourceKey,    \* the guard's key for its source IP
    IdentityKey,  \* the guard's key for its email or account ...
    NoIdentity,   \* ... or this
    RedisFails,   \* whether a call of Redis may fail
    Unsent,       \* stands for no call that waits to be sent again
    MaxRepeats    \* bound: how often calls are sent again

\* The operation and the dimension are part of every key, so that the coarse
\* limit, the sources and the identities never share one.
ASSUME KeysAssumption ==
    /\ IsFiniteSet(Attempts)
    /\ RequestKey \in [Attempts -> Identities]
    /\ SourceKey \in [Attempts -> Identities]
    /\ IdentityKey \in [Attempts -> Identities \cup {NoIdentity}]
    /\ NoIdentity \notin Identities
    /\ \A a, b \in Attempts :
          /\ RequestKey[a] # SourceKey[b] /\ RequestKey[a] # IdentityKey[b]
          /\ SourceKey[a] # IdentityKey[b]
    /\ Unsent \notin [time : Int, member : Nat]
    /\ MaxRepeats \in Nat

VARIABLES
    pc,         \* how far each attempt has come
    passed_at,  \* when it passed its last guard
    sent,       \* the time of the call whose answer it lost and the window
                \* member the call has, 0 for none yet; or Unsent
    repeats     \* history: how often the script ran again for each attempt

guardVars == <<pc, passed_at, sent, repeats>>

\* The call of attempt a that waits to be sent again was allowed.
AllowedBefore(a) == sent[a] # Unsent /\ sent[a].member # 0

\* The window member of a's call on key k.
Member(a, k) == IF AllowedBefore(a) THEN sent[a].member ELSE NewMember(k)

\* The script runs for a call of an attempt: one that was sent before has the
\* time and the member it was first sent with.
Executed(a, k, i) ==
    \/ sent[a] = Unsent /\ Allow(k, i)
    \/ sent[a] # Unsent /\ Execute(k, sent[a].time, Member(a, k))

\* What Allow returns to its caller: the script's answer, or an error after
\* which the script may or may not have run.
Outcome(a, k, i, outcome) ==
    /\ \/ Executed(a, k, i) /\ outcome = answer'[k]
       \/ RedisFails /\ outcome = "error" /\ (Executed(a, k, i) \/ UNCHANGED limiterVars)
    /\ sent' = [sent EXCEPT ![a] = Unsent]
    /\ UNCHANGED repeats

Outcomes == {"allowed", "limited", "error"}

GuardInit ==
    /\ LimiterInit
    /\ pc = [a \in Attempts |-> "arrived"]
    /\ passed_at = [a \in Attempts |-> 0]
    /\ sent = [a \in Attempts |-> Unsent]
    /\ repeats = [a \in Attempts |-> 0]

\* Mutant: the coarse limit fails closed.
AfterRequestLimitClosed(outcome) == IF outcome = "allowed" THEN "source" ELSE "refused"

\* RateLimitRequests: 429 when limited, and on any other error on it goes.
AfterRequestLimit(outcome) == IF outcome = "limited" THEN "refused" ELSE "source"

\* Mutant: a blocked source is noted, and the identity is checked all the same.
AfterSourceRegardless(a, outcome) ==
    IF IdentityKey[a] # NoIdentity THEN "identity"
    ELSE IF outcome = "allowed" THEN "admitted" ELSE "blocked"

\* Check after its first call.
AfterSource(a, outcome) ==
    IF outcome = "limited" THEN "blocked"
    ELSE IF outcome = "error" THEN "failed"
    ELSE IF IdentityKey[a] = NoIdentity THEN "admitted" ELSE "identity"

\* Mutant: the guard fails open.
AfterIdentityOpen(outcome) == IF outcome = "limited" THEN "blocked" ELSE "admitted"

\* Check after its second call: ErrAttemptBlocked, the error itself, or nil.
AfterIdentity(outcome) ==
    IF outcome = "limited" THEN "blocked"
    ELSE IF outcome = "error" THEN "failed" ELSE "admitted"

\* The coarse limit of the authentication routes.
LimitRequest(a, i) ==
    /\ pc[a] = "arrived"
    /\ \E outcome \in Outcomes :
        /\ Outcome(a, RequestKey[a], i, outcome)
        /\ pc' = [pc EXCEPT ![a] = AfterRequestLimit(outcome)]
    /\ UNCHANGED passed_at

CheckSource(a, i) ==
    /\ pc[a] = "source"
    /\ \E outcome \in Outcomes :
        /\ Outcome(a, SourceKey[a], i, outcome)
        /\ pc' = [pc EXCEPT ![a] = AfterSource(a, outcome)]
    /\ passed_at' = [passed_at EXCEPT ![a] = now]

CheckIdentity(a, i) ==
    /\ pc[a] = "identity"
    /\ \E outcome \in Outcomes :
        /\ Outcome(a, IdentityKey[a], i, outcome)
        /\ pc' = [pc EXCEPT ![a] = AfterIdentity(outcome)]
    /\ passed_at' = [passed_at EXCEPT ![a] = now]

\* The key of the call an attempt is about to make.
CurrentKey(a) ==
    CASE pc[a] = "arrived" -> RequestKey[a]
      [] pc[a] = "source" -> SourceKey[a]
      [] pc[a] = "identity" -> IdentityKey[a]

\* The times that the calls of some attempts were sent again.
RepeatsOf(some) == {p \in some \X (1..MaxRepeats) : p[2] <= repeats[p[1]]}

\* The script runs, its answer does not come, and the client library is to send
\* the call again: by default up to three times, and the client that
\* cache.Open builds keeps the default.
AnswerLost(a, i) ==
    /\ RedisFails
    /\ pc[a] \in {"arrived", "source", "identity"}
    /\ Cardinality(RepeatsOf(Attempts)) < MaxRepeats
    /\ Executed(a, CurrentKey(a), i)
    /\ sent' = [sent EXCEPT ![a] =
          [time |-> updated_at'[CurrentKey(a)],
           member |-> IF AllowedBefore(a) THEN sent[a].member
                      ELSE IF answer'[CurrentKey(a)] = "allowed"
                           THEN NewMember(CurrentKey(a)) ELSE 0]]
    /\ repeats' = [repeats EXCEPT ![a] = @ + 1]
    /\ UNCHANGED <<pc, passed_at>>

GuardTick == Tick /\ UNCHANGED guardVars

\* Every attempt has its answer.
Answered ==
    /\ \A a \in Attempts : pc[a] \in {"refused", "blocked", "failed", "admitted"}
    /\ UNCHANGED <<limiterVars, guardVars>>

GuardNext ==
    \/ \E a \in Attempts, i \in Instances :
        LimitRequest(a, i) \/ CheckSource(a, i) \/ CheckIdentity(a, i) \/ AnswerLost(a, i)
    \/ GuardTick
    \/ Answered

GuardSpec == GuardInit /\ [][GuardNext]_<<limiterVars, guardVars>>

-----------------------------------------------------------------------------

GuardTypeOK ==
    /\ LimiterTypeOK
    /\ pc \in [Attempts -> {"arrived", "refused", "source", "identity",
                            "blocked", "failed", "admitted"}]
    /\ passed_at \in [Attempts -> 0..MaxTime]
    /\ sent \in [Attempts -> {Unsent} \cup [time : Int, member : Nat]]
    /\ \A a \in Attempts : AllowedBefore(a) =>
          pc[a] \in {"arrived", "source", "identity"}
            /\ sent[a].member \in DOMAIN grants[CurrentKey(a)]
    /\ repeats \in [Attempts -> 0..MaxRepeats]

\* Attempts against e that reached the credentials from time t on, within one
\* window of e's rule.
AdmittedWithin(e, t) ==
    {a \in Attempts : /\ pc[a] = "admitted" /\ IdentityKey[a] = e
                      /\ passed_at[a] >= t /\ passed_at[a] < t + Window[e]}

\* Attempts a call of which Redis was sent more than once.
SentAgain == {a \in Attempts : repeats[a] > 0}

\* However many IPs take part and however Redis fails, the attempts against
\* one email or account that reach the credentials stay within its rule: the
\* guards fail closed (ARCHITECTURE.md, "Failure behavior").  Only a call that
\* was sent again may come on top, as it counts for the time it was first sent.
GuessBudget ==
    \A e \in Identities, t \in 0..MaxTime :
        Cardinality(AdmittedWithin(e, t) \ SentAgain) <= Maximum[e]

\* Requests allowed so far under any of the keys.
Granted(keys) == UNION {{k} \X DOMAIN grants[k] : k \in keys}

\* A blocked or failed source costs the email or account it aimed at nothing:
\* the identity is charged only for attempts its source was allowed.
BlockedSourceSparesIdentity ==
    Cardinality(Granted({IdentityKey[a] : a \in Attempts} \ {NoIdentity}))
        <= Cardinality(Granted({SourceKey[a] : a \in Attempts}))

\* No client is answered 429 unless its IP used the allowance, if only by calls
\* that Redis was sent again: an outage refuses nobody (rate_limit.go:60-61).
RefusedOnlyWhenSpent ==
    \A a \in Attempts : pc[a] = "refused" =>
        LET k == RequestKey[a]
            again == RepeatsOf({b \in Attempts : RequestKey[b] = k})
        IN  Len(grants[k]) + Cardinality(again) >= Lesser(Immediate[k], Maximum[k])
=============================================================================
