---------------------------- MODULE SessionLookup ----------------------------
(***************************************************************************)
(* Resolving a session cookie: the Redis cache behind JitteredSessionCache   *)
(* (session_cache.go), the coalesced PostgreSQL lookup of FindByTokenHash    *)
(* (session_store.go:166-178) and the tail of a revocation, which commits in *)
(* PostgreSQL first and deletes the cache entry afterwards.                  *)
(*                                                                          *)
(* Authlier drives the three of them: it reads the cache, asks the store on  *)
(* a miss or an error, and caches the session it resolved.  Request slots    *)
(* are reused for ever, and the cache counts each entry's remaining time     *)
(* down, so that no clock is needed and nothing ends.                        *)
(***************************************************************************)
EXTENDS Integers

CONSTANTS
    Requests,       \* request slots, over all API instances
    Instances,      \* API instances; coalescing is per process
    Tokens,         \* token hashes of established sessions
    CacheTTL,       \* sessionCacheTTL, one hour in cmd/api/main.go
    NoRequest,      \* a flight that does not exist
    RedisFails,     \* whether a Redis call may fail
    DatabaseFails,  \* whether a PostgreSQL query may fail
    Cancels         \* whether a client may go away

ASSUME TTLAssumption == CacheTTL \in Nat \ {0}
ASSUME FaultAssumption == {RedisFails, DatabaseFails, Cancels} \subseteq BOOLEAN
ASSUME NoRequestAssumption == NoRequest \notin Requests

VARIABLES
    live,       \* tokens whose row in PostgreSQL is not revoked
    deletions,  \* revoked tokens whose cache deletion is still to come
    cache,      \* remaining time of each token's cache entry, 0 for none
    flight,     \* the request that leads the lookup of an instance and token
    pc,         \* where each request stands
    at,         \* the instance that serves the request
    token,      \* the token it presents
    copy,       \* what the lookup told it
    cancelled   \* requests whose client has gone away

vars == <<live, deletions, cache, flight, pc, at, token, copy, cancelled>>

\* What a lookup tells a request.  "cancelled" is the error of a query whose
\* context ended, "failed" any other error.
Answers == {"active", "revoked", "cancelled", "failed"}

\* sessionCacheMaximumJitter
MaximumJitter == 10

\* Mutant: jitter in both directions.
JitteredTTLUpward(ttl) ==
    {ttl + (ttl * percent) \div 100 : percent \in 0..MaximumJitter}

\* What jitteredTTL may return: up to MaximumJitter percent less than ttl.
JitteredTTL(ttl) ==
    IF ttl <= 0 THEN {ttl}
    ELSE {ttl - (ttl * percent) \div 100 : percent \in 0..MaximumJitter}

Init ==
    /\ live = Tokens
    /\ deletions = {}
    /\ cache = [t \in Tokens |-> 0]
    /\ flight = [i \in Instances |-> [t \in Tokens |-> NoRequest]]
    /\ pc = [r \in Requests |-> "idle"]
    /\ at \in [Requests -> Instances]
    /\ token \in [Requests -> Tokens]
    /\ copy = [r \in Requests |-> "failed"]
    /\ cancelled = {}

Goto(r, from, to) == pc[r] = from /\ pc' = [pc EXCEPT ![r] = to]

\* A new request takes the slot.
Arrive(r) ==
    /\ Goto(r, "idle", "reading")
    /\ \E t \in Tokens : token' = [token EXCEPT ![r] = t]
    /\ cancelled' = cancelled \ {r}
    /\ UNCHANGED <<live, deletions, cache, flight, at, copy>>

\* Mutant: a hit renews the entry (sliding expiry).
CacheHitRenews(r) ==
    /\ cache[token[r]] > 0
    /\ Goto(r, "reading", "done")
    /\ copy' = [copy EXCEPT ![r] = "active"]
    /\ cache' = [cache EXCEPT ![token[r]] = CacheTTL]
    /\ UNCHANGED <<live, deletions, flight, at, token, cancelled>>

\* cache.Get finds an entry: the request is accepted without a query.
CacheHit(r) ==
    /\ cache[token[r]] > 0
    /\ Goto(r, "reading", "done")
    /\ copy' = [copy EXCEPT ![r] = "active"]
    /\ UNCHANGED <<live, deletions, cache, flight, at, token, cancelled>>

\* Mutant: a Redis error is returned instead of falling back.
CacheMissFailsClosed(r) ==
    /\ cache[token[r]] = 0 \/ RedisFails
    /\ pc[r] = "reading"
    /\ \/ pc' = [pc EXCEPT ![r] = "finding"] /\ UNCHANGED copy
       \/ RedisFails /\ pc' = [pc EXCEPT ![r] = "done"]
                     /\ copy' = [copy EXCEPT ![r] = "failed"]
    /\ UNCHANGED <<live, deletions, cache, flight, at, token, cancelled>>

\* cache.Get finds nothing or fails: the store decides.
CacheMiss(r) ==
    /\ cache[token[r]] = 0 \/ RedisFails \/ r \in cancelled
    /\ Goto(r, "reading", "finding")
    /\ UNCHANGED <<live, deletions, cache, flight, at, token, copy, cancelled>>

\* Mutant: every caller queries for itself.
LeadAlways(r) ==
    /\ Goto(r, "finding", "querying")
    /\ flight' = [flight EXCEPT ![at[r]][token[r]] = r]
    /\ UNCHANGED <<live, deletions, cache, at, token, copy, cancelled>>

\* lookups.Do: the first caller of a key leads, and queries with its own
\* context ...
Lead(r) ==
    /\ flight[at[r]][token[r]] = NoRequest
    /\ Goto(r, "finding", "querying")
    /\ flight' = [flight EXCEPT ![at[r]][token[r]] = r]
    /\ UNCHANGED <<live, deletions, cache, at, token, copy, cancelled>>

\* ... and later callers wait for its result, whatever their own context says.
Join(r) ==
    /\ flight[at[r]][token[r]] # NoRequest
    /\ Goto(r, "finding", "waiting")
    /\ UNCHANGED <<live, deletions, cache, flight, at, token, copy, cancelled>>

\* What PostgreSQL may answer the leader r.
QueryAnswers(r) ==
    (IF r \in cancelled THEN {"cancelled"}
     ELSE IF token[r] \in live THEN {"active"} ELSE {"revoked"})
    \cup (IF DatabaseFails THEN {"failed"} ELSE {})

Query(r) ==
    /\ Goto(r, "querying", "landing")
    /\ \E answer \in QueryAnswers(r) : copy' = [copy EXCEPT ![r] = answer]
    /\ UNCHANGED <<live, deletions, cache, flight, at, token, cancelled>>

\* Mutant: the result reaches the leader only.
SharedWithNobody(r) == {r}

\* The requests that share the flight led by r.
Shared(r) ==
    {r} \cup {w \in Requests : pc[w] = "waiting" /\ at[w] = at[r]
                                                /\ token[w] = token[r]}

\* Mutant: whatever was found is cached, revoked sessions too.
LandFillsAll(r) ==
    /\ pc[r] = "landing"
    /\ pc' = [w \in Requests |-> IF w \in Shared(r) THEN "filling" ELSE pc[w]]
    /\ copy' = [w \in Requests |-> IF w \in Shared(r) THEN copy[r] ELSE copy[w]]
    /\ flight' = [flight EXCEPT ![at[r]][token[r]] = NoRequest]
    /\ UNCHANGED <<live, deletions, cache, at, token, cancelled>>

\* The flight ends: every caller gets the leader's result, and the next
\* caller starts afresh.
Land(r) ==
    /\ pc[r] = "landing"
    /\ pc' = [w \in Requests |->
                IF w \notin Shared(r) THEN pc[w]
                ELSE IF copy[r] = "active" THEN "filling" ELSE "done"]
    /\ copy' = [w \in Requests |-> IF w \in Shared(r) THEN copy[r] ELSE copy[w]]
    /\ flight' = [flight EXCEPT ![at[r]][token[r]] = NoRequest]
    /\ UNCHANGED <<live, deletions, cache, at, token, cancelled>>

\* Authlier caches the session it resolved, through JitteredSessionCache.Set.
Fill(r) ==
    /\ r \notin cancelled
    /\ Goto(r, "filling", "done")
    /\ \E ttl \in JitteredTTL(CacheTTL) : cache' = [cache EXCEPT ![token[r]] = ttl]
    /\ UNCHANGED <<live, deletions, flight, at, token, copy, cancelled>>

\* The write fails, which the request does not notice.
FillFails(r) ==
    /\ RedisFails \/ r \in cancelled
    /\ Goto(r, "filling", "done")
    /\ UNCHANGED <<live, deletions, cache, flight, at, token, copy, cancelled>>

\* The response is sent.
Finish(r) ==
    /\ Goto(r, "done", "idle")
    /\ UNCHANGED <<live, deletions, cache, flight, at, token, copy, cancelled>>

\* The client disconnects: the request's context ends.
Cancel(r) ==
    /\ Cancels
    /\ pc[r] \notin {"idle", "done"}
    /\ cancelled' = cancelled \cup {r}
    /\ UNCHANGED <<live, deletions, cache, flight, pc, at, token, copy>>

\* A sign-out, a revocation or the capping UPDATE of Create commits.
Revoke(t) ==
    /\ t \in live
    /\ live' = live \ {t}
    /\ deletions' = deletions \cup {t}
    /\ UNCHANGED <<cache, flight, pc, at, token, copy, cancelled>>

\* cache.Delete after the commit.
Invalidate(t) ==
    /\ t \in deletions
    /\ deletions' = deletions \ {t}
    /\ cache' = [cache EXCEPT ![t] = 0]
    /\ UNCHANGED <<live, flight, pc, at, token, copy, cancelled>>

\* The deletion fails ("deferred to expiry"), or the instance dies before it.
InvalidateFails(t) ==
    /\ RedisFails
    /\ t \in deletions
    /\ deletions' = deletions \ {t}
    /\ UNCHANGED <<live, cache, flight, pc, at, token, copy, cancelled>>

\* Time passes; Redis drops entries whose time is up.
Tick ==
    /\ cache' = [t \in Tokens |-> IF cache[t] > 0 THEN cache[t] - 1 ELSE 0]
    /\ UNCHANGED <<live, deletions, flight, pc, at, token, copy, cancelled>>

\* The steps the program takes by itself for a request in progress.
Progress(r) ==
    \/ CacheHit(r) \/ CacheMiss(r)
    \/ Lead(r) \/ Join(r) \/ Query(r) \/ Land(r)
    \/ Fill(r) \/ FillFails(r) \/ Finish(r)

Next ==
    \/ \E r \in Requests : Arrive(r) \/ Progress(r) \/ Cancel(r)
    \/ \E t \in Tokens : Revoke(t) \/ Invalidate(t) \/ InvalidateFails(t)
    \/ Tick

Spec == Init /\ [][Next]_vars

\* Requests in progress are served and time passes.  Nobody is forced to send
\* a request, to sign out or to go away, and deletions may never happen.
Fairness ==
    /\ \A r \in Requests : WF_vars(Progress(r))
    /\ WF_vars(Tick)

FairSpec == Spec /\ Fairness

-----------------------------------------------------------------------------

TypeOK ==
    /\ live \subseteq Tokens
    /\ deletions \subseteq Tokens
    /\ cache \in [Tokens -> 0..CacheTTL]
    /\ flight \in [Instances -> [Tokens -> Requests \cup {NoRequest}]]
    /\ pc \in [Requests -> {"idle", "reading", "finding", "querying", "waiting",
                            "landing", "filling", "done"}]
    /\ at \in [Requests -> Instances]
    /\ token \in [Requests -> Tokens]
    /\ copy \in [Requests -> Answers]
    /\ cancelled \subseteq Requests

\* An instance has at most one query of a token in progress, led by the
\* request its flight names, and a request waits only for such a query.
\* (Identical cache-miss lookups are coalesced, ARCHITECTURE.md:90-91.)
Coalesced ==
    /\ \A r \in Requests :
        /\ pc[r] \in {"querying", "landing"} => flight[at[r]][token[r]] = r
        /\ pc[r] = "waiting" => flight[at[r]][token[r]] # NoRequest
    /\ \A i \in Instances, t \in Tokens : flight[i][t] # NoRequest =>
        /\ pc[flight[i][t]] \in {"querying", "landing"}
        /\ at[flight[i][t]] = i
        /\ token[flight[i][t]] = t

\* Only resolved, active sessions are about to be cached.
FillsActive == \A r \in Requests : pc[r] = "filling" => copy[r] = "active"

\* The revocation of t is effective: no request can be accepted with t any
\* more, from the cache or from a lookup that read the row before.
Effective(t) ==
    /\ t \notin live
    /\ cache[t] = 0
    /\ \A r \in Requests :
          token[r] = t /\ pc[r] \in {"landing", "filling"} => copy[r] # "active"

\* Once effective, always effective: no late cache fill, no late follower and
\* no reused flight brings a revoked session back.
EffectiveIsStable == [][\A t \in Tokens : Effective(t) => Effective(t)']_vars

\* A revocation becomes effective for good, even when the cache deletion fails
\* and while requests with the token keep coming ("deferred to expiry").
RevocationTakesEffect == \A t \in Tokens : t \notin live ~> []Effective(t)

\* Every request is answered, though it waits for another one's lookup.
RequestsFinish == \A r \in Requests : pc[r] = "reading" ~> pc[r] = "done"

\* Redis alone never costs a request its session: a lookup fails only when
\* PostgreSQL does, and rejects only what is revoked (ARCHITECTURE.md:91-92).
RedisOutageHarmless ==
    \A r \in Requests : pc[r] = "done" =>
        /\ copy[r] = "failed" => DatabaseFails
        /\ copy[r] = "revoked" => token[r] \notin live

\* A request whose own client is still there is not answered with an error
\* while PostgreSQL answers every query (ARCHITECTURE.md:91-92).
OwnContextOnly ==
    \A r \in Requests :
        pc[r] = "done" /\ copy[r] = "cancelled" => r \in cancelled
=============================================================================
