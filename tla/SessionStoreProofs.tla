------------------------- MODULE SessionStoreProofs -------------------------
(***************************************************************************)
(* Proofs about SessionStore for every set of subjects and sessions, every  *)
(* limit, every pool size and every clock bound.                            *)
(***************************************************************************)
EXTENDS SessionStore, FiniteSetTheorems, TLAPS

\* Create, Revoke, Extend, Rotate and the clock keep every variable in its
\* range; in particular only committed rows are ever marked revoked.
THEOREM TypeCorrect == Spec => []TypeOK
<1>1. Init => TypeOK
  BY BoundsAssumption DEF Init, TypeOK, ProgramPoints
<1>2. TypeOK /\ [Next]_vars => TypeOK'
  <2> SUFFICES ASSUME TypeOK, [Next]_vars PROVE TypeOK'
    OBVIOUS
  <2> USE BoundsAssumption, LifetimeAssumption DEF TypeOK, ProgramPoints
  <2>1. ASSUME NEW i \in Sessions, Prepare(i) PROVE TypeOK'
    BY <2>1 DEF Prepare, Goto
  <2>2. ASSUME NEW i \in Sessions, Begin(i) PROVE TypeOK'
    BY <2>2 DEF Begin, Goto
  <2>3. ASSUME NEW i \in Sessions, AcquireLock(i) PROVE TypeOK'
    BY <2>3 DEF AcquireLock, Goto
  <2>4. ASSUME NEW i \in Sessions, Insert(i) PROVE TypeOK'
    BY <2>4 DEF Insert, Goto
  <2>5. ASSUME NEW i \in Sessions, SelectOldest(i) PROVE TypeOK'
    BY <2>5 DEF SelectOldest, Goto, Candidates
  <2>6. ASSUME NEW i \in Sessions, RevokeOldest(i) PROVE TypeOK'
    BY <2>6 DEF RevokeOldest, Goto
  <2>7. ASSUME NEW i \in Sessions, Commit(i) PROVE TypeOK'
    BY <2>7 DEF Commit, Goto
  <2>8. ASSUME NEW i \in Sessions, CommitLost(i) PROVE TypeOK'
    BY <2>8 DEF CommitLost, Goto
  <2>9. ASSUME NEW i \in Sessions, NEW r \in Sessions, DeleteCached(i, r)
        PROVE TypeOK'
    BY <2>9 DEF DeleteCached
  <2>10. ASSUME NEW i \in Sessions, Return(i) PROVE TypeOK'
    BY <2>10 DEF Return, Goto
  <2>11. ASSUME NEW i \in Sessions, Fail(i) PROVE TypeOK'
    BY <2>11 DEF Fail
  <2>12. ASSUME NEW i \in Sessions, RotateCommit(i) PROVE TypeOK'
    BY <2>12 DEF RotateCommit, Goto
  <2>13. ASSUME NEW i \in Sessions, Extend(i) PROVE TypeOK'
    BY <2>13 DEF Extend
  <2>14. ASSUME NEW some \in SUBSET rows, Revoke(some) PROVE TypeOK'
    BY <2>14 DEF Revoke
  <2>15. ASSUME NEW i \in Sessions, NEW r \in Sessions, RotateBegin(i, r)
         PROVE TypeOK'
    BY <2>15 DEF RotateBegin, Goto, Live
  <2>16. CASE Tick
    BY <2>16 DEF Tick
  <2>17. CASE UNCHANGED vars
    BY <2>17 DEF vars
  <2>18. ASSUME NEW i \in rows \ revoked, Revoke({i}) PROVE TypeOK'
    BY <2>14, <2>18
  <2>19. ASSUME NEW s \in Subjects, RevokeAll(s) PROVE TypeOK'
    BY <2>14, <2>19 DEF RevokeAll
  <2>20. QED
    BY <2>1, <2>2, <2>3, <2>4, <2>5, <2>6, <2>7, <2>8, <2>9, <2>10, <2>11,
       <2>12, <2>13, <2>15, <2>16, <2>17, <2>18, <2>19
       DEF Next, CreateStep, Terminated
<1>3. QED
  BY <1>1, <1>2, PTL DEF Spec

\* A set within a set of at most limit elements has at most limit elements.
LEMMA WithinLimit ==
    ASSUME NEW keep \in SUBSET Sessions, NEW S \in SUBSET keep,
           Cardinality(keep) <= MaximumActiveSessions
    PROVE  Cardinality(S) <= MaximumActiveSessions
<1>1. IsFiniteSet(keep) /\ IsFiniteSet(S)
  BY SessionsAssumption, FS_Subset
<1>2. Cardinality(S) \in Nat /\ Cardinality(keep) \in Nat
  BY <1>1, FS_CardinalityType
<1>3. Cardinality(S) <= Cardinality(keep)
  BY <1>1, FS_Subset
<1>4. QED
  BY <1>2, <1>3, LimitAssumption

\* A step after which no subject has a live session it did not have before,
\* and which chooses no victims, disturbs neither the cap nor a choice made.
LEMMA ShrinkingStep ==
    ASSUME CapInvariant, subject' = subject,
           \A s \in Subjects : Live(s)' \subseteq Live(s),
           \A r \in rows : created_at'[r] = created_at[r],
           \A j \in Sessions : pc'[j] \in {"revoking", "revoked"} =>
               /\ pc[j] \in {"revoking", "revoked"}
               /\ victims'[j] = victims[j]
               /\ created_at'[j] = created_at[j]
    PROVE  ChoiceStands' /\ SessionCap'
<1> USE DEF CapInvariant
<1>1. SessionCap'
  <2> SUFFICES ASSUME NEW s \in Subjects
               PROVE  Cardinality(Live(s)') <= MaximumActiveSessions
    BY DEF SessionCap
  <2>1. Live(s) \in SUBSET Sessions
    BY DEF Live, TypeOK
  <2>2. Cardinality(Live(s)) <= MaximumActiveSessions
    BY DEF SessionCap
  <2>3. QED
    BY <2>1, <2>2, WithinLimit
<1>2. ChoiceStands'
  <2> SUFFICES ASSUME NEW j \in Sessions, pc'[j] \in {"revoking", "revoked"}
               PROVE  /\ \E keep \in SUBSET Sessions :
                          /\ Cardinality(keep) <= MaximumActiveSessions
                          /\ Survivors(j)' \subseteq keep
                      /\ \A k \in Survivors(j)', d \in victims'[j] : Newer(k, d)'
                      /\ \A d \in victims'[j] : subject'[d] = subject'[j]
    BY DEF ChoiceStands
  <2>1. subject[j] \in Subjects
    BY DEF TypeOK
  <2>2. Survivors(j)' \subseteq Survivors(j)
    BY <2>1 DEF Survivors
  <2>3. PICK keep \in SUBSET Sessions :
           /\ Cardinality(keep) <= MaximumActiveSessions
           /\ Survivors(j) \subseteq keep
    BY DEF ChoiceStands
  <2>4. ASSUME NEW k \in Survivors(j)', NEW d \in victims'[j]
        PROVE  Newer(k, d)'
    <3>1. Newer(k, d)
      BY <2>2, <2>4 DEF ChoiceStands
    <3>2. k \in rows \cup {j} /\ d \in rows \cup {j}
      BY <2>2, <2>4 DEF Survivors, Live, TypeOK
    <3>3. created_at'[k] = created_at[k] /\ created_at'[d] = created_at[d]
      BY <3>2
    <3>4. QED
      BY <3>1, <3>3 DEF Newer
  <2>5. \A d \in victims'[j] : subject'[d] = subject'[j]
    BY DEF ChoiceStands
  <2>6. QED
    BY <2>2, <2>3, <2>4, <2>5
<1>3. QED
  BY <1>1, <1>2

\* Create's transactions agree on who holds the lock, keep their rows to
\* themselves until they commit, and never date a session in the future.
LEMMA LockingStep ==
    ASSUME CapInvariant, [Next]_vars
    PROVE  /\ LockExclusive'
           /\ UncommittedInvisible'
           /\ OnlyReplacementsRotate'
           /\ CreatedInPast'
<1> USE DEF LockExclusive, UncommittedInvisible, OnlyReplacementsRotate,
            CreatedInPast, HoldsLock, InTransaction
<1> TypeOK
  BY DEF CapInvariant
<1> /\ LockExclusive /\ UncommittedInvisible
    /\ OnlyReplacementsRotate /\ CreatedInPast
  BY DEF CapInvariant
<1> DEFINE Goal == /\ LockExclusive' /\ UncommittedInvisible'
                   /\ OnlyReplacementsRotate' /\ CreatedInPast'
<1>1. ASSUME NEW i \in Sessions, Prepare(i) PROVE Goal
  BY <1>1 DEF Prepare, Goto, TypeOK
<1>2. ASSUME NEW i \in Sessions, Begin(i) PROVE Goal
  BY <1>2 DEF Begin, Goto, TypeOK
<1>3. ASSUME NEW i \in Sessions, AcquireLock(i) PROVE Goal
  BY <1>3 DEF AcquireLock, Goto, TypeOK
<1>4. ASSUME NEW i \in Sessions, Insert(i) PROVE Goal
  BY <1>4 DEF Insert, Goto, TypeOK
<1>5. ASSUME NEW i \in Sessions, SelectOldest(i) PROVE Goal
  BY <1>5 DEF SelectOldest, Goto, TypeOK
<1>6. ASSUME NEW i \in Sessions, RevokeOldest(i) PROVE Goal
  BY <1>6 DEF RevokeOldest, Goto, TypeOK
<1>7. ASSUME NEW i \in Sessions, Commit(i) PROVE Goal
  BY <1>7 DEF Commit, Goto, TypeOK
<1>8. ASSUME NEW i \in Sessions, CommitLost(i) PROVE Goal
  BY <1>8 DEF CommitLost, Goto, TypeOK
<1>9. ASSUME NEW i \in Sessions, NEW r \in Sessions, DeleteCached(i, r)
      PROVE Goal
  BY <1>9 DEF DeleteCached, TypeOK
<1>10. ASSUME NEW i \in Sessions, Return(i) PROVE Goal
  BY <1>10 DEF Return, Goto, TypeOK
<1>11. ASSUME NEW i \in Sessions, Fail(i) PROVE Goal
  BY <1>11 DEF Fail, TypeOK
<1>12. ASSUME NEW i \in Sessions, RotateCommit(i) PROVE Goal
  BY <1>12 DEF RotateCommit, Goto, TypeOK
<1>13. ASSUME NEW i \in Sessions, Extend(i) PROVE Goal
  BY <1>13 DEF Extend, TypeOK
<1>14. ASSUME NEW some, Revoke(some) PROVE Goal
  BY <1>14 DEF Revoke, TypeOK
<1>15. ASSUME NEW i \in Sessions, NEW r \in Sessions, RotateBegin(i, r)
       PROVE Goal
  BY <1>15 DEF RotateBegin, Goto, TypeOK
<1>16. CASE Tick
  BY <1>16, BoundsAssumption DEF Tick, TypeOK
<1>17. CASE UNCHANGED vars
  BY <1>17 DEF vars
<1>18. QED
  BY <1>1, <1>2, <1>3, <1>4, <1>5, <1>6, <1>7, <1>8, <1>9, <1>10, <1>11,
     <1>12, <1>13, <1>14, <1>15, <1>16, <1>17
     DEF Next, CreateStep, RevokeAll, Terminated

\* A committing sign-in: the sessions of its subject that are live afterwards
\* are survivors of its choice, the live sessions of other subjects are live
\* already, and no other transaction of the subject holds a choice.
LEMMA CommitStep ==
    ASSUME CapInvariant, NEW i \in Sessions, pc[i] = "revoked",
           rows' = rows \cup {i}, revoked' = revoked \cup victims[i],
           UNCHANGED <<clock, subject, created_at, expires_at>>,
           \A j \in Sessions : pc'[j] \in {"revoking", "revoked"} =>
               j # i /\ pc'[j] = pc[j] /\ victims'[j] = victims[j]
    PROVE  ChoiceStands' /\ SessionCap'
<1> TypeOK /\ ChoiceStands /\ SessionCap /\ LockExclusive
  BY DEF CapInvariant
<1>1. Live(subject[i])' \subseteq Survivors(i)
  BY DEF Live, Survivors, TypeOK
<1>2. ASSUME NEW s \in Subjects, s # subject[i]
      PROVE  Live(s)' \subseteq Live(s)
  BY <1>2 DEF Live, TypeOK
<1>3. SessionCap'
  <2> SUFFICES ASSUME NEW s \in Subjects
               PROVE  Cardinality(Live(s)') <= MaximumActiveSessions
    BY DEF SessionCap
  <2>1. CASE s = subject[i]
    <3>1. PICK keep \in SUBSET Sessions :
             /\ Cardinality(keep) <= MaximumActiveSessions
             /\ Survivors(i) \subseteq keep
      BY DEF ChoiceStands
    <3>2. QED
      BY <1>1, <2>1, <3>1, WithinLimit
  <2>2. CASE s # subject[i]
    <3>1. Live(s) \in SUBSET Sessions
      BY DEF Live, TypeOK
    <3>2. Cardinality(Live(s)) <= MaximumActiveSessions
      BY DEF SessionCap
    <3>3. QED
      BY <1>2, <2>2, <3>1, <3>2, WithinLimit
  <2>3. QED
    BY <2>1, <2>2
<1>4. ASSUME NEW j \in Sessions, pc'[j] \in {"revoking", "revoked"}
      PROVE  /\ Survivors(j)' \subseteq Survivors(j)
             /\ pc[j] \in {"revoking", "revoked"}
             /\ victims'[j] = victims[j]
  <2>1. /\ pc[j] \in {"revoking", "revoked"} /\ j # i
        /\ victims'[j] = victims[j]
    BY <1>4
  <2>2. subject[j] # subject[i]
    BY <2>1 DEF LockExclusive, HoldsLock
  <2>3. subject[j] \in Subjects
    BY DEF TypeOK
  <2>4. Live(subject[j])' \subseteq Live(subject[j])
    BY <1>2, <2>2, <2>3
  <2>5. QED
    BY <2>1, <2>4 DEF Survivors
<1>5. ChoiceStands'
  <2> SUFFICES ASSUME NEW j \in Sessions, pc'[j] \in {"revoking", "revoked"}
               PROVE  /\ \E keep \in SUBSET Sessions :
                          /\ Cardinality(keep) <= MaximumActiveSessions
                          /\ Survivors(j)' \subseteq keep
                      /\ \A k \in Survivors(j)', d \in victims'[j] : Newer(k, d)'
                      /\ \A d \in victims'[j] : subject'[d] = subject'[j]
    BY DEF ChoiceStands
  <2>1. PICK keep \in SUBSET Sessions :
           /\ Cardinality(keep) <= MaximumActiveSessions
           /\ Survivors(j) \subseteq keep
    BY <1>4 DEF ChoiceStands
  <2>2. ASSUME NEW k \in Survivors(j)', NEW d \in victims'[j]
        PROVE  Newer(k, d)'
    BY <1>4, <2>2 DEF ChoiceStands, Newer
  <2>3. \A d \in victims'[j] : subject'[d] = subject'[j]
    BY <1>4 DEF ChoiceStands
  <2>4. QED
    BY <1>4, <2>1, <2>2, <2>3
<1>6. QED
  BY <1>3, <1>5

\* The capping UPDATE chooses within the limit: whatever is live at that
\* moment was a candidate, because the sign-in's created_at is in the past.
LEMMA SelectStep ==
    ASSUME CapInvariant, NEW i \in Sessions, SelectOldest(i)
    PROVE  ChoiceStands' /\ SessionCap'
<1> TypeOK /\ ChoiceStands /\ SessionCap /\ CreatedInPast
  BY DEF CapInvariant
<1> USE DEF SelectOldest, Goto
<1>1. ASSUME NEW s PROVE Live(s)' = Live(s)
  BY DEF Live
<1>2. SessionCap'
  BY <1>1 DEF SessionCap
<1>3. PICK keep \in SUBSET Candidates(i) :
         /\ Newest(i, keep)
         /\ victims' = [victims EXCEPT ![i] = Candidates(i) \ keep]
  OBVIOUS
<1>4. Candidates(i) \subseteq Sessions
  BY DEF Candidates, TypeOK
<1>5. Live(subject[i]) \cup {i} \subseteq Candidates(i)
  <2>1. ASSUME NEW r \in Live(subject[i]) PROVE expires_at[r] > created_at[i]
    <3>1. r \in Sessions /\ expires_at[r] > clock
      BY DEF Live, TypeOK
    <3>2. created_at[i] <= clock
      BY DEF CreatedInPast
    <3>3. clock \in Nat /\ created_at[i] \in Nat /\ expires_at[r] \in Nat
      BY <3>1, BoundsAssumption DEF TypeOK
    <3>4. QED
      BY <3>1, <3>2, <3>3
  <2>2. QED
    BY <2>1 DEF Live, Candidates
<1>6. Survivors(i)' \subseteq keep
  BY <1>1, <1>3, <1>5 DEF Survivors, TypeOK
<1>7. victims'[i] = Candidates(i) \ keep
  BY <1>3 DEF TypeOK
<1>8. ChoiceStands'
  <2> SUFFICES ASSUME NEW j \in Sessions, pc'[j] \in {"revoking", "revoked"}
               PROVE  /\ \E kept \in SUBSET Sessions :
                          /\ Cardinality(kept) <= MaximumActiveSessions
                          /\ Survivors(j)' \subseteq kept
                      /\ \A k \in Survivors(j)', d \in victims'[j] : Newer(k, d)'
                      /\ \A d \in victims'[j] : subject'[d] = subject'[j]
    BY DEF ChoiceStands
  <2>1. CASE j = i
    <3>1. keep \in SUBSET Sessions /\ Cardinality(keep) <= MaximumActiveSessions
      BY <1>3, <1>4 DEF Newest
    <3>2. ASSUME NEW k \in Survivors(i)', NEW d \in victims'[i]
          PROVE  Newer(k, d)'
      <4>1. Newer(k, d)
        BY <1>3, <1>6, <1>7 DEF Newest
      <4>2. QED
        BY <4>1 DEF Newer
    <3>3. \A d \in victims'[i] : subject'[d] = subject'[i]
      BY <1>7 DEF Candidates
    <3>4. QED
      BY <1>6, <2>1, <3>1, <3>2, <3>3
  <2>2. CASE j # i
    <3>1. pc'[j] = pc[j] /\ victims'[j] = victims[j]
      BY <1>3, <2>2 DEF TypeOK
    <3>2. Survivors(j)' = Survivors(j)
      BY <1>1, <3>1 DEF Survivors
    <3>3. \A k, d : Newer(k, d)' <=> Newer(k, d)
      BY DEF Newer
    <3>4. QED
      BY <3>1, <3>2, <3>3 DEF ChoiceStands
  <2>3. QED
    BY <2>1, <2>2
<1>9. QED
  BY <1>2, <1>8

\* Steps that are neither a choice nor a commit of Create: no session goes
\* live, and nothing a choice in progress refers to changes.
LEMMA OtherStep ==
    ASSUME CapInvariant, Replacements = {}, [Next]_vars,
           \A i \in Sessions : /\ ~Commit(i) /\ ~CommitLost(i)
                               /\ ~SelectOldest(i)
    PROVE  /\ subject' = subject
           /\ \A s \in Subjects : Live(s)' \subseteq Live(s)
           /\ \A r \in rows : created_at'[r] = created_at[r]
           /\ \A j \in Sessions : pc'[j] \in {"revoking", "revoked"} =>
                /\ pc[j] \in {"revoking", "revoked"}
                /\ victims'[j] = victims[j]
                /\ created_at'[j] = created_at[j]
<1> TypeOK /\ UncommittedInvisible /\ OnlyReplacementsRotate
  BY DEF CapInvariant
<1> USE DEF TypeOK, Live
<1> DEFINE Goal == /\ subject' = subject
                   /\ \A s \in Subjects : Live(s)' \subseteq Live(s)
                   /\ \A r \in rows : created_at'[r] = created_at[r]
                   /\ \A j \in Sessions : pc'[j] \in {"revoking", "revoked"} =>
                        /\ pc[j] \in {"revoking", "revoked"}
                        /\ victims'[j] = victims[j]
                        /\ created_at'[j] = created_at[j]
<1>1. ASSUME NEW i \in Sessions, Prepare(i) PROVE Goal
  <2>1. i \notin rows
    BY <1>1 DEF Prepare, Goto, UncommittedInvisible
  <2>2. QED
    BY <1>1, <2>1 DEF Prepare, Goto
<1>2. ASSUME NEW i \in Sessions, Begin(i) PROVE Goal
  BY <1>2 DEF Begin, Goto
<1>3. ASSUME NEW i \in Sessions, AcquireLock(i) PROVE Goal
  BY <1>3 DEF AcquireLock, Goto
<1>4. ASSUME NEW i \in Sessions, Insert(i) PROVE Goal
  BY <1>4 DEF Insert, Goto
<1>5. ASSUME NEW i \in Sessions, RevokeOldest(i) PROVE Goal
  BY <1>5 DEF RevokeOldest, Goto
<1>6. ASSUME NEW i \in Sessions, NEW r \in Sessions, DeleteCached(i, r)
      PROVE Goal
  BY <1>6 DEF DeleteCached
<1>7. ASSUME NEW i \in Sessions, Return(i) PROVE Goal
  BY <1>7 DEF Return, Goto
<1>8. ASSUME NEW i \in Sessions, Fail(i) PROVE Goal
  BY <1>8 DEF Fail
<1>9. ASSUME NEW i \in Sessions, RotateCommit(i) PROVE FALSE
  BY <1>9 DEF RotateCommit, Goto, OnlyReplacementsRotate
<1>10. ASSUME NEW i \in Sessions, Extend(i) PROVE Goal
  BY <1>10 DEF Extend
<1>11. ASSUME NEW some, Revoke(some) PROVE Goal
  BY <1>11 DEF Revoke
<1>12. ASSUME NEW i \in Sessions, NEW r \in Sessions, RotateBegin(i, r)
       PROVE FALSE
  BY <1>12 DEF RotateBegin
<1>13. CASE Tick
  <2>1. \A r \in rows : expires_at[r] > clock + 1 => expires_at[r] > clock
    BY BoundsAssumption
  <2>2. QED
    BY <1>13, <2>1 DEF Tick
<1>14. CASE UNCHANGED vars
  BY <1>14 DEF vars
<1>15. QED
  BY <1>1, <1>2, <1>3, <1>4, <1>5, <1>6, <1>7, <1>8, <1>9, <1>10, <1>11,
     <1>12, <1>13, <1>14
     DEF Next, CreateStep, RevokeAll, Terminated

\* Without replacements, a step keeps the cap and what it rests on.
LEMMA CapInvariantStep ==
    ASSUME Replacements = {}, CapInvariant, TypeOK', [Next]_vars
    PROVE  CapInvariant'
<1>1. /\ LockExclusive' /\ UncommittedInvisible'
      /\ OnlyReplacementsRotate' /\ CreatedInPast'
  BY LockingStep
<1>2. ChoiceStands' /\ SessionCap'
  <2>1. CASE \E i \in Sessions : Commit(i)
    BY <2>1, CommitStep DEF Commit, Goto, CapInvariant, TypeOK
  <2>2. CASE \E i \in Sessions : CommitLost(i)
    BY <2>2, CommitStep DEF CommitLost, Goto, CapInvariant, TypeOK
  <2>3. CASE \E i \in Sessions : SelectOldest(i)
    BY <2>3, SelectStep
  <2>4. CASE \A i \in Sessions : /\ ~Commit(i) /\ ~CommitLost(i)
                                 /\ ~SelectOldest(i)
    BY <2>4, OtherStep, ShrinkingStep
  <2>5. QED
    BY <2>1, <2>2, <2>3, <2>4
<1>3. QED
  BY <1>1, <1>2 DEF CapInvariant

\* No subject ever has more live sessions than the limit, for every number of
\* concurrent sign-ins, sign-outs, extensions, failures and lost commits, as
\* long as nothing rotates a session.
THEOREM CapHolds ==
    ASSUME Replacements = {}
    PROVE  Spec => [](CapInvariant /\ SessionCap)
<1>1. Init => CapInvariant
  <2> SUFFICES ASSUME Init PROVE CapInvariant
    OBVIOUS
  <2>1. TypeOK
    BY BoundsAssumption DEF Init, TypeOK, ProgramPoints
  <2>2. SessionCap
    <3>1. \A s \in Subjects : Live(s) = {}
      BY DEF Init, Live
    <3>2. QED
      BY <3>1, FS_EmptySet, LimitAssumption DEF SessionCap
  <2>3. QED
    BY <2>1, <2>2 DEF Init, CapInvariant, LockExclusive, UncommittedInvisible,
       OnlyReplacementsRotate, CreatedInPast, ChoiceStands, HoldsLock
<1>2. CapInvariant /\ TypeOK' /\ [Next]_vars => CapInvariant'
  BY CapInvariantStep
<1>3. CapInvariant => SessionCap
  BY DEF CapInvariant
<1>4. QED
  BY <1>1, <1>2, <1>3, TypeCorrect, PTL DEF Spec

-----------------------------------------------------------------------------

\* An entry of the abstract state is a live session, and conversely.
LEMMA LiveEntries ==
    ASSUME TypeOK
    PROVE  /\ \A x : x \in ActiveEntries <=>
                \E r \in Sessions : r \in Live(subject[r]) /\ x = Entry(r)
           /\ \A r \in Sessions : Entry(r) \in Capped!Entries
           /\ \A r, q \in Sessions : Entry(r) = Entry(q) => r = q
  BY DEF ActiveEntries, Entry, Capped!Entries, TypeOK

\* A set of entries has no more elements than the sessions they describe.
LEMMA EntryCount ==
    ASSUME NEW S \in SUBSET Sessions, NEW g, NEW T,
           \A x \in T : \E r \in S : x = g[r],
           Cardinality(S) <= MaximumActiveSessions
    PROVE  Cardinality(T) <= MaximumActiveSessions
<1> DEFINE Q == {r \in S : g[r] \in T}
           f == [r \in Q |-> g[r]]
<1>1. IsFiniteSet(Q) /\ Cardinality(Q) <= MaximumActiveSessions
  BY SessionsAssumption, FS_Subset, WithinLimit
<1>2. f \in Surjection(Q, T)
  BY DEF Surjection
<1>3. IsFiniteSet(T) /\ Cardinality(T) <= Cardinality(Q)
  BY <1>1, <1>2, FS_Surjection
<1>4. Cardinality(T) \in Nat /\ Cardinality(Q) \in Nat
  BY <1>1, <1>3, FS_CardinalityType
<1>5. QED
  BY <1>1, <1>3, <1>4, LimitAssumption

\* A step after which no session is newly live is an abstract End.
LEMMA EndStep ==
    ASSUME TypeOK, TypeOK', subject' = subject,
           \A s \in Subjects : Live(s)' \subseteq Live(s),
           \A r \in rows : created_at'[r] = created_at[r]
    PROVE  Capped!End
<1>1. ActiveEntries' \subseteq ActiveEntries
  <2> SUFFICES ASSUME NEW x \in ActiveEntries' PROVE x \in ActiveEntries
    OBVIOUS
  <2>1. PICK r \in Sessions : r \in Live(subject[r])' /\ x = Entry(r)'
    BY DEF ActiveEntries
  <2>2. r \in Live(subject[r]) /\ r \in rows
    BY <2>1 DEF TypeOK, Live
  <2>3. x = Entry(r)
    BY <2>1, <2>2 DEF Entry
  <2>4. QED
    BY <2>2, <2>3, LiveEntries
<1>2. QED
  BY <1>1 DEF Capped!End

\* A commit of Create is an abstract SignIn, unless its own session did not
\* survive: then it only ends sessions.
LEMMA SignInStep ==
    ASSUME CapInvariant, CapInvariant', NEW i \in Sessions, pc[i] = "revoked",
           rows' = rows \cup {i}, revoked' = revoked \cup victims[i],
           UNCHANGED <<clock, subject, created_at, expires_at>>
    PROVE  Capped!Next
<1> TypeOK /\ TypeOK' /\ ChoiceStands /\ SessionCap'
  BY DEF CapInvariant
<1>1. i \notin rows
  BY DEF CapInvariant, UncommittedInvisible, InTransaction
<1>2. \A r : Entry(r)' = Entry(r)
  BY DEF Entry
<1>3. ASSUME NEW r \in Sessions, r # i
      PROVE  /\ r \in Live(subject[r])' => r \in Live(subject[r])
             /\ r \in Live(subject[r]) /\ r \notin victims[i]
                  => r \in Live(subject[r])'
  BY <1>3 DEF Live
<1>4. CASE i \notin Live(subject[i])'
  <2>1. ActiveEntries' \subseteq ActiveEntries
    BY <1>2, <1>3, <1>4 DEF ActiveEntries
  <2>2. QED
    BY <2>1 DEF Capped!Next, Capped!End
<1>5. CASE i \in Live(subject[i])'
  <2> DEFINE e == Entry(i)
             dropped == Capped!Of(ActiveEntries, e.subject) \ ActiveEntries'
  <2>1. e \in Capped!Entries /\ e.subject = subject[i] /\ subject[i] \in Subjects
    BY LiveEntries DEF Entry, TypeOK
  <2>2. e \in ActiveEntries' \ ActiveEntries
    <3>1. e \in ActiveEntries'
      BY <1>2, <1>5 DEF ActiveEntries
    <3>2. e \notin ActiveEntries
      BY <1>1, LiveEntries DEF Live
    <3>3. QED
      BY <3>1, <3>2
  <2>3. ActiveEntries' \subseteq ActiveEntries \cup {e}
    BY <1>2, <1>3 DEF ActiveEntries
  <2>4. ASSUME NEW x \in ActiveEntries, x \notin ActiveEntries'
        PROVE  \E r \in victims[i] : x = Entry(r) /\ subject[r] = subject[i]
    <3>1. PICK r \in Sessions : r \in Live(subject[r]) /\ x = Entry(r)
      BY LiveEntries
    <3>2. r # i
      BY <1>1, <3>1 DEF Live
    <3>3. r \in victims[i]
      BY <1>2, <1>3, <2>4, <3>1, <3>2 DEF ActiveEntries
    <3>4. subject[r] = subject[i]
      BY <3>3 DEF ChoiceStands
    <3>5. QED
      BY <3>1, <3>3, <3>4
  <2>5. ActiveEntries' = (ActiveEntries \ dropped) \cup {e}
    <3>1. ASSUME NEW x \in ActiveEntries, x \notin ActiveEntries'
          PROVE  x \in dropped
      BY <2>1, <2>4, <3>1 DEF Capped!Of, Entry
    <3>2. QED
      BY <2>2, <2>3, <3>1
  <2>6. ASSUME NEW d \in dropped, NEW k \in Capped!Of(ActiveEntries', e.subject)
        PROVE  Capped!Before(k, d)
    <3>1. PICK r \in victims[i] : d = Entry(r)
      BY <2>4 DEF Capped!Of
    <3>2. PICK q \in Sessions : q \in Live(subject[q])' /\ k = Entry(q)
      BY <1>2 DEF ActiveEntries, Capped!Of
    <3>3. subject[q] = subject[i]
      BY <2>1, <3>2 DEF Capped!Of, Entry
    <3>4. q \in Survivors(i)
      BY <3>2, <3>3 DEF Survivors, Live
    <3>5. Newer(q, r)
      BY <3>1, <3>4 DEF ChoiceStands
    <3>6. QED
      BY <3>1, <3>2, <3>5 DEF Newer, Capped!Before, Entry
  <2>7. Cardinality(Capped!Of(ActiveEntries', e.subject)) <= MaximumActiveSessions
    <3>1. Cardinality(Live(subject[i])') <= MaximumActiveSessions
      BY <2>1 DEF SessionCap
    <3>2. Live(subject[i])' \in SUBSET Sessions
      BY DEF Live, TypeOK
    <3> DEFINE g == [r \in Sessions |-> Entry(r)]
               T == Capped!Of(ActiveEntries', e.subject)
               S == Live(subject[i])'
    <3>3. ASSUME NEW x \in T PROVE \E r \in S : x = g[r]
      <4>1. PICK r \in Sessions : r \in Live(subject[r])' /\ x = Entry(r)
        BY <1>2 DEF ActiveEntries, Capped!Of
      <4>2. subject[r] = subject[i]
        BY <2>1, <4>1 DEF Capped!Of, Entry
      <4>3. QED
        BY <4>1, <4>2
    <3> HIDE DEF g, S
    <3>4. Cardinality(S) <= MaximumActiveSessions /\ S \in SUBSET Sessions
      BY <3>1, <3>2 DEF S
    <3> HIDE DEF T
    <3>5. Cardinality(T) <= MaximumActiveSessions
      BY <3>3, <3>4, EntryCount
    <3>6. QED
      BY <3>5 DEF T
  <2>8. Capped!SignIn(e)
    <3>1. dropped \in SUBSET Capped!Of(ActiveEntries, e.subject)
      BY DEF Capped!Of
    <3>2. \A d \in dropped, k \in Capped!Of(ActiveEntries', e.subject) :
            Capped!Before(k, d)
      BY <2>6
    <3> HIDE DEF e, dropped
    <3>3. \E gone \in SUBSET Capped!Of(ActiveEntries, e.subject) :
            /\ ActiveEntries' = (ActiveEntries \ gone) \cup {e}
            /\ \A d \in gone, k \in Capped!Of(ActiveEntries', e.subject) :
                  Capped!Before(k, d)
      BY <2>5, <3>1, <3>2
    <3>4. Capped!Cardinality(Capped!Of(ActiveEntries', e.subject))
            <= MaximumActiveSessions
      BY <2>7 DEF Capped!Cardinality, Cardinality
    <3>5. QED
      BY <2>1, <3>3, <3>4 DEF Capped!SignIn
  <2>9. QED
    BY <2>2, <2>8 DEF Capped!Next
<1>6. QED
  BY <1>4, <1>5

\* Create's transactions implement the atomic sign-in of CappedSessions: the
\* new session and the evictions it causes appear in one instant, a failed
\* call leaves no trace, and only the oldest sessions of the subject go.
THEOREM CreateIsAtomic ==
    ASSUME Replacements = {}
    PROVE  Spec => ImplementsCappedSessions
<1>1. Init => Capped!Init
  BY DEF Init, Capped!Init, ActiveEntries, Live
<1>2. CapInvariant /\ CapInvariant' /\ [Next]_vars
        => [Capped!Next]_ActiveEntries
  <2> SUFFICES ASSUME CapInvariant, CapInvariant', [Next]_vars
               PROVE  Capped!Next
    OBVIOUS
  <2> TypeOK /\ TypeOK'
    BY DEF CapInvariant
  <2>1. CASE \E i \in Sessions : Commit(i)
    BY <2>1, SignInStep DEF Commit, Goto
  <2>2. CASE \E i \in Sessions : CommitLost(i)
    BY <2>2, SignInStep DEF CommitLost, Goto
  <2>3. CASE \E i \in Sessions : SelectOldest(i)
    BY <2>3, EndStep DEF SelectOldest, Live, Capped!Next
  <2>4. CASE \A i \in Sessions : /\ ~Commit(i) /\ ~CommitLost(i)
                                 /\ ~SelectOldest(i)
    <3>1. Capped!End
      BY <2>4, OtherStep, EndStep
    <3>2. QED
      BY <3>1 DEF Capped!Next
  <2>5. QED
    BY <2>1, <2>2, <2>3, <2>4 DEF Capped!Next
<1>3. QED
  BY <1>1, <1>2, CapHolds, PTL
     DEF Spec, ImplementsCappedSessions, Capped!Spec
=============================================================================
