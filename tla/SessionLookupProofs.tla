------------------------- MODULE SessionLookupProofs -------------------------
(***************************************************************************)
(* Proofs about SessionLookup for any number of requests, instances and      *)
(* tokens, any TTL and any combination of faults.                            *)
(***************************************************************************)
EXTENDS SessionLookup, TLAPS

\* jitteredTTL only shortens a positive lifetime, by at most ten percent: an
\* entry never outlives the lifetime Authlier selected (session_cache.go:15-16).
LEMMA JitterShortens ==
    ASSUME NEW ttl \in Nat \ {0}, NEW jittered \in JitteredTTL(ttl)
    PROVE  /\ jittered \in 0..ttl
           /\ 100 * jittered >= 90 * ttl
<1>1. PICK percent \in 0..10 : jittered = ttl - (ttl * percent) \div 100
  BY DEF JitteredTTL, MaximumJitter
<1> DEFINE n == ttl * percent
<1>2. n \in Nat /\ n <= 10 * ttl
  <2>1. CASE percent = 0 BY <2>1
  <2>2. CASE percent = 1 BY <2>2
  <2>3. CASE percent = 2 BY <2>3
  <2>4. CASE percent = 3 BY <2>4
  <2>5. CASE percent = 4 BY <2>5
  <2>6. CASE percent = 5 BY <2>6
  <2>7. CASE percent = 6 BY <2>7
  <2>8. CASE percent = 7 BY <2>8
  <2>9. CASE percent = 8 BY <2>9
  <2>10. CASE percent = 9 BY <2>10
  <2>11. CASE percent = 10 BY <2>11
  <2>12. QED
    BY <2>1, <2>2, <2>3, <2>4, <2>5, <2>6, <2>7, <2>8, <2>9, <2>10, <2>11
<1> HIDE DEF n
<1>3. n \div 100 \in Nat /\ 100 * (n \div 100) <= n
  BY <1>2
<1>4. jittered = ttl - n \div 100
  BY <1>1 DEF n
<1>5. QED
  BY <1>2, <1>3, <1>4

LookupInvariant == TypeOK /\ Coalesced /\ FillsActive

\* Lookups keep their shape: every flight has one leader, followers wait only
\* for a leader at work, and only active sessions are cached, for CacheTTL at
\* most.
THEOREM LookupsCoalesce == Spec => [](LookupInvariant /\ TypeOK /\ Coalesced)
<1>1. Init => LookupInvariant
  BY TTLAssumption
     DEF Init, LookupInvariant, TypeOK, Coalesced, FillsActive, Answers
<1>2. LookupInvariant /\ [Next]_vars => LookupInvariant'
  <2> SUFFICES ASSUME LookupInvariant, [Next]_vars PROVE LookupInvariant'
    OBVIOUS
  <2> USE TTLAssumption, NoRequestAssumption
      DEF LookupInvariant, TypeOK, Coalesced, FillsActive, Answers
  <2>1. ASSUME NEW r \in Requests, Arrive(r) PROVE LookupInvariant'
    BY <2>1 DEF Arrive, Goto
  <2>2. ASSUME NEW r \in Requests, CacheHit(r) PROVE LookupInvariant'
    BY <2>2 DEF CacheHit, Goto
  <2>3. ASSUME NEW r \in Requests, CacheMiss(r) PROVE LookupInvariant'
    BY <2>3 DEF CacheMiss, Goto
  <2>4. ASSUME NEW r \in Requests, Lead(r) PROVE LookupInvariant'
    BY <2>4 DEF Lead, Goto
  <2>5. ASSUME NEW r \in Requests, Join(r) PROVE LookupInvariant'
    BY <2>5 DEF Join, Goto
  <2>6. ASSUME NEW r \in Requests, Query(r) PROVE LookupInvariant'
    <3>1. QueryAnswers(r) \subseteq Answers
      BY DEF QueryAnswers
    <3>2. QED
      BY <2>6, <3>1 DEF Query, Goto
  <2>7. ASSUME NEW r \in Requests, Land(r) PROVE LookupInvariant'
    <3>1. \A w \in Requests : pc'[w] = "waiting" =>
             flight[at[w]][token[w]] # flight[at[r]][token[r]]
      BY <2>7 DEF Land, Shared
    <3>2. QED
      BY <2>7, <3>1 DEF Land, Shared
  <2>8. ASSUME NEW r \in Requests, Fill(r) PROVE LookupInvariant'
    <3>1. JitteredTTL(CacheTTL) \subseteq 0..CacheTTL
      BY JitterShortens
    <3>2. QED
      BY <2>8, <3>1 DEF Fill, Goto
  <2>9. ASSUME NEW r \in Requests, FillFails(r) PROVE LookupInvariant'
    BY <2>9 DEF FillFails, Goto
  <2>10. ASSUME NEW r \in Requests, Finish(r) PROVE LookupInvariant'
    BY <2>10 DEF Finish, Goto
  <2>11. ASSUME NEW r \in Requests, Cancel(r) PROVE LookupInvariant'
    BY <2>11 DEF Cancel
  <2>12. ASSUME NEW t \in Tokens, Revoke(t) PROVE LookupInvariant'
    BY <2>12 DEF Revoke
  <2>13. ASSUME NEW t \in Tokens, Invalidate(t) PROVE LookupInvariant'
    BY <2>13 DEF Invalidate
  <2>14. ASSUME NEW t \in Tokens, InvalidateFails(t) PROVE LookupInvariant'
    BY <2>14 DEF InvalidateFails
  <2>15. CASE Tick
    BY <2>15 DEF Tick
  <2>16. CASE UNCHANGED vars
    BY <2>16 DEF vars
  <2>17. QED
    BY <2>1, <2>2, <2>3, <2>4, <2>5, <2>6, <2>7, <2>8, <2>9, <2>10, <2>11,
       <2>12, <2>13, <2>14, <2>15, <2>16 DEF Next, Progress
<1>3. QED
  BY <1>1, <1>2, PTL DEF Spec, LookupInvariant

\* One step keeps an effective revocation effective.
LEMMA EffectiveStep ==
    ASSUME LookupInvariant, [Next]_vars, NEW t \in Tokens, Effective(t)
    PROVE  Effective(t)'
<1> USE DEF Effective, LookupInvariant, TypeOK
<1>1. ASSUME NEW r \in Requests, Arrive(r) PROVE Effective(t)'
  BY <1>1 DEF Arrive, Goto
<1>2. ASSUME NEW r \in Requests, CacheHit(r) PROVE Effective(t)'
  BY <1>2 DEF CacheHit, Goto
<1>3. ASSUME NEW r \in Requests, CacheMiss(r) PROVE Effective(t)'
  BY <1>3 DEF CacheMiss, Goto
<1>4. ASSUME NEW r \in Requests, Lead(r) PROVE Effective(t)'
  BY <1>4 DEF Lead, Goto
<1>5. ASSUME NEW r \in Requests, Join(r) PROVE Effective(t)'
  BY <1>5 DEF Join, Goto
<1>6. ASSUME NEW r \in Requests, Query(r) PROVE Effective(t)'
  <2>1. token[r] = t => "active" \notin QueryAnswers(r)
    BY DEF QueryAnswers
  <2>2. QED
    BY <1>6, <2>1 DEF Query, Goto
<1>7. ASSUME NEW r \in Requests, Land(r) PROVE Effective(t)'
  BY <1>7 DEF Land, Shared
<1>8. ASSUME NEW r \in Requests, Fill(r) PROVE Effective(t)'
  <2>1. token[r] # t
    BY <1>8 DEF Fill, Goto, FillsActive
  <2>2. QED
    BY <1>8, <2>1 DEF Fill, Goto
<1>9. ASSUME NEW r \in Requests, FillFails(r) PROVE Effective(t)'
  BY <1>9 DEF FillFails, Goto
<1>10. ASSUME NEW r \in Requests, Finish(r) PROVE Effective(t)'
  BY <1>10 DEF Finish, Goto
<1>11. ASSUME NEW r \in Requests, Cancel(r) PROVE Effective(t)'
  BY <1>11 DEF Cancel
<1>12. ASSUME NEW u \in Tokens, Revoke(u) PROVE Effective(t)'
  BY <1>12 DEF Revoke
<1>13. ASSUME NEW u \in Tokens, Invalidate(u) PROVE Effective(t)'
  BY <1>13 DEF Invalidate
<1>14. ASSUME NEW u \in Tokens, InvalidateFails(u) PROVE Effective(t)'
  BY <1>14 DEF InvalidateFails
<1>15. CASE Tick
  BY <1>15 DEF Tick
<1>16. CASE UNCHANGED vars
  BY <1>16 DEF vars
<1>17. QED
  BY <1>1, <1>2, <1>3, <1>4, <1>5, <1>6, <1>7, <1>8, <1>9, <1>10, <1>11,
     <1>12, <1>13, <1>14, <1>15, <1>16 DEF Next, Progress

\* A revocation that has taken effect is never undone, for any number of
\* requests, coalesced lookups, late cache fills and failed deletions.
THEOREM RevocationIsFinal == Spec => EffectiveIsStable
<1>1. LookupInvariant /\ [Next]_vars
        => [\A t \in Tokens : Effective(t) => Effective(t)']_vars
  BY EffectiveStep
<1>2. QED
  BY <1>1, LookupsCoalesce, PTL DEF Spec, EffectiveIsStable

\* What a request was told is so from the moment its lookup landed: an error is
\* one of PostgreSQL, and a rejection is a revocation.
ToldTruly ==
    \A r \in Requests : pc[r] \in {"landing", "filling", "done"} =>
        /\ copy[r] = "failed" => DatabaseFails
        /\ copy[r] = "revoked" => token[r] \notin live

\* A rejection reached by one step is true: the leader read the row itself, and
\* followers present the token of their leader (session_store.go:166-178).
LEMMA ToldStep ==
    ASSUME LookupInvariant, ToldTruly, [Next]_vars
    PROVE  ToldTruly'
<1> USE DEF ToldTruly
<1>1. ASSUME NEW r \in Requests, Arrive(r) PROVE ToldTruly'
  BY <1>1 DEF Arrive, Goto, LookupInvariant, TypeOK
<1>2. ASSUME NEW r \in Requests, CacheHit(r) PROVE ToldTruly'
  BY <1>2 DEF CacheHit, Goto, LookupInvariant, TypeOK
<1>3. ASSUME NEW r \in Requests, Query(r) PROVE ToldTruly'
  BY <1>3 DEF Query, QueryAnswers, Goto, LookupInvariant, TypeOK
<1>4. ASSUME NEW r \in Requests, Land(r) PROVE ToldTruly'
  <2>1. /\ copy[r] = "failed" => DatabaseFails
        /\ copy[r] = "revoked" => token[r] \notin live
    BY <1>4 DEF Land
  <2>2. \A w \in Shared(r) : token[w] = token[r]
    BY DEF Shared
  <2>3. QED
    BY <1>4, <2>1, <2>2 DEF Land
<1>5. ASSUME NEW r \in Requests, CacheMiss(r) \/ Lead(r) \/ Join(r) PROVE ToldTruly'
  BY <1>5 DEF CacheMiss, Lead, Join, Goto, LookupInvariant, TypeOK
<1>6. ASSUME NEW r \in Requests, Fill(r) \/ FillFails(r) \/ Finish(r) PROVE ToldTruly'
  BY <1>6 DEF Fill, FillFails, Finish, Goto, LookupInvariant, TypeOK
<1>7. ASSUME NEW r \in Requests, Cancel(r) PROVE ToldTruly'
  BY <1>7 DEF Cancel
<1>8. ASSUME NEW t \in Tokens, Revoke(t) \/ Invalidate(t) \/ InvalidateFails(t) PROVE ToldTruly'
  BY <1>8 DEF Revoke, Invalidate, InvalidateFails
<1>9. CASE Tick \/ UNCHANGED vars
  BY <1>9 DEF Tick, vars
<1>10. QED
  BY <1>1, <1>2, <1>3, <1>4, <1>5, <1>6, <1>7, <1>8, <1>9 DEF Next, Progress

\* However often Redis fails, for reads, fills and deletions alike, a request is
\* rejected only when its session is revoked, and fails with an error of the
\* store only if PostgreSQL does (ARCHITECTURE.md:91-92).
THEOREM OutagesRejectNobody == Spec => []RedisOutageHarmless
<1>1. Init => ToldTruly
  BY DEF Init, ToldTruly
<1>2. LookupInvariant /\ ToldTruly /\ [Next]_vars => ToldTruly'
  BY ToldStep
<1>3. ToldTruly => RedisOutageHarmless
  BY DEF ToldTruly, RedisOutageHarmless
<1>4. QED
  BY <1>1, <1>2, <1>3, LookupsCoalesce, PTL DEF Spec
=============================================================================
