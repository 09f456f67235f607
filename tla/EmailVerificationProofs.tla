----------------------- MODULE EmailVerificationProofs -----------------------
(***************************************************************************)
(* Proofs about email verification for any number of users, emails, codes     *)
(* and calls that interleave and fail in any way.                              *)
(***************************************************************************)
EXTENDS EmailVerification, FiniteSetTheorems, TLAPS

\* What was issued is a code of its user's own that lives no longer than Lifetime.
IssuesMade ==
    \A i \in Issues : issue_pc[i] # "idle" =>
        issue[i].code \in CodesOf[issue[i].user] /\ issue[i].expires <= now + Lifetime

\* A proof belongs to the issue whose code it is, which has been written.
ProofsBelong ==
    \A c \in Codes : proof[c] # NoIssue =>
        issue[proof[c]].code = c /\ issue_pc[proof[c]] \in {"again", "returned"}

\* A Verify call has a challenge once it has consumed one, which is a written one.
ChallengesTaken ==
    \A v \in Verifies :
        /\ verify_pc[v] # "idle" => verify[v].code \in Codes
        /\ verify_pc[v] \in {"idle", "submitted"} => verify[v].of = NoIssue
        /\ verify_pc[v] \in {"consumed", "cleared", "checked"} => verify[v].of # NoIssue
        /\ verify[v].of # NoIssue => issue_pc[verify[v].of] \in {"again", "returned"}

\* A proof that lives is the one its user's owner key names, for as long; no
\* proof lives under a code that is being consumed.
OwnersFollow ==
    ~CodesRecur =>
        /\ \A u \in Users : \A c \in CodesOf[u] :
            ProofLives(c) => owner[u] = c /\ owner_until[u] >= proof_until[c]
        /\ \A v \in Verifies : verify_pc[v] = "consumed" => ~ProofLives(verify[v].code)

\* What was consumed is settled: nothing writes it again.
ConsumedForGood ==
    ~CodesGuessed =>
        /\ ConsumedOnce
        /\ \A v \in Verifies : verify[v].of # NoIssue =>
            /\ issue_pc[verify[v].of] = "returned"
            /\ \A c \in Codes : proof[c] # verify[v].of

\* The email that a Verify call has loaded and compared was proven.
LoadedIsProven ==
    /\ VerifiedEmailWasProven
    /\ \A v \in Verifies : verify_pc[v] = "checked" =>
        verify[v].loaded \in proven[issue[verify[v].of].user]

VerificationInvariant ==
    /\ TypeOK /\ IssuesMade /\ ProofsBelong /\ ChallengesTaken
    /\ OwnersFollow /\ ConsumedForGood /\ LoadedIsProven

\* All but the types.
Meaning ==
    /\ IssuesMade /\ ProofsBelong /\ ChallengesTaken
    /\ OwnersFollow /\ ConsumedForGood /\ LoadedIsProven

-----------------------------------------------------------------------------

\* The variables are functions, which lets a step be seen at one call.
LEMMA Shapes ==
    ASSUME TypeOK
    PROVE  /\ issue = [i \in Issues |-> issue[i]] /\ issue_pc = [i \in Issues |-> issue_pc[i]]
           /\ verify = [v \in Verifies |-> verify[v]] /\ verify_pc = [v \in Verifies |-> verify_pc[v]]
           /\ proof = [c \in Codes |-> proof[c]] /\ proof_until = [c \in Codes |-> proof_until[c]]
           /\ owner = [u \in Users |-> owner[u]] /\ owner_until = [u \in Users |-> owner_until[u]]
           /\ proven = [u \in Users |-> proven[u]] /\ email = [u \in Users |-> email[u]]
  BY DEF TypeOK

\* What the types say of single values.
LEMMA Ranges ==
    ASSUME TypeOK
    PROVE  /\ now \in Nat
           /\ \A i \in Issues :
                issue[i].user \in Users /\ issue[i].expires \in Nat /\ ttl[i] \in Nat
           /\ \A c \in Codes : proof[c] \in Issues \cup {NoIssue} /\ proof_until[c] \in Nat
           /\ \A u \in Users : owner_until[u] \in Nat
           /\ \A v \in Verifies : verify[v].of \in Issues \cup {NoIssue}
           /\ \A v \in Verifies :
                verify[v] = [code |-> verify[v].code, at |-> verify[v].at,
                             of |-> verify[v].of, loaded |-> verify[v].loaded]
  BY DEF TypeOK

\* A request issues a new code, as yet nowhere stored.
LEMMA RequestKeeps ==
    ASSUME TypeOK, Meaning, NEW i \in Issues, Request(i) PROVE Meaning'
<1>1. /\ issue_pc[i] = "idle" /\ issue_pc'[i] = "requested"
      /\ \A j \in Issues : j # i => issue_pc'[j] = issue_pc[j] /\ issue'[j] = issue[j]
      /\ issue'[i].user = issue[i].user
      /\ issue'[i].code \in CodesOf[issue[i].user] /\ issue'[i].expires = now + Lifetime
      /\ UNCHANGED <<now, users, redis, verifying, proven>>
  BY Shapes DEF Request, IssueGoes
<1> USE Ranges, <1>1 DEF Meaning, redis, verifying, users
<1>2. IssuesMade'
  BY TimeAssumption DEF IssuesMade
<1>3. ProofsBelong'
  BY DEF ProofsBelong
<1>4. ChallengesTaken'
  BY DEF ChallengesTaken
<1>5. OwnersFollow'
  BY DEF OwnersFollow, ProofLives
<1>6. ConsumedForGood'
  BY DEF ConsumedForGood, ConsumedOnce
<1>7. LoadedIsProven'
  BY DEF LoadedIsProven, VerifiedEmailWasProven, ChallengesTaken
<1> QED
  BY <1>2, <1>3, <1>4, <1>5, <1>6, <1>7

\* A call of Issue that writes nothing goes on or returns.
LEMMA IssueMoves ==
    ASSUME TypeOK, Meaning, NEW i \in Issues, NEW to \in {"measured", "returned"},
           issue_pc[i] \in {"requested", "measured", "again"},
           issue_pc[i] = "again" => to = "returned",
           issue_pc' = [issue_pc EXCEPT ![i] = to],
           UNCHANGED <<now, users, redis, issue, verifying, proven>>
    PROVE  Meaning'
<1>1. issue_pc'[i] = to /\ \A j \in Issues : j # i => issue_pc'[j] = issue_pc[j]
  BY Shapes
<1> USE Ranges, <1>1 DEF Meaning, redis, verifying, users
<1>2. IssuesMade'
  BY DEF IssuesMade
<1>3. ProofsBelong'
  BY DEF ProofsBelong
<1>4. ChallengesTaken'
  BY DEF ChallengesTaken
<1>5. OwnersFollow'
  BY DEF OwnersFollow, ProofLives
<1>6. ConsumedForGood'
  BY DEF ConsumedForGood, ConsumedOnce
<1>7. LoadedIsProven'
  BY DEF LoadedIsProven, VerifiedEmailWasProven
<1> QED
  BY <1>2, <1>3, <1>4, <1>5, <1>6, <1>7

\* The script of Issue runs, for the first time or again.
LEMMA StoreKeeps ==
    ASSUME TypeOK, Meaning, NEW i \in Issues, NEW to \in {"again", "returned"},
           issue_pc[i] \in {"measured", "again"}, issue_pc[i] = "again" => to = "returned",
           issue_pc' = [issue_pc EXCEPT ![i] = to], Store(i)
    PROVE  Meaning'
<1> DEFINE u == issue[i].user
           c == issue[i].code
<1>1. issue_pc'[i] = to /\ \A j \in Issues : j # i => issue_pc'[j] = issue_pc[j]
  BY Shapes
<1>2. u \in Users /\ c \in CodesOf[u] /\ c \in Codes /\ c # NoCode
  BY Ranges, CodesAssumption, NoneAssumption DEF Meaning, IssuesMade
<1>3. /\ ~ProofLives(c) /\ Settled(c)
      /\ proof'[c] = i
      /\ \A d \in Codes : d # c => proof'[d] \in {proof[d], NoIssue}
      /\ \A d \in Codes : d # c /\ d \in Previous(u) => proof'[d] = NoIssue
      /\ proof_until'[c] = now + ttl[i]
      /\ \A d \in Codes : d # c => proof_until'[d] = proof_until[d]
      /\ owner'[u] = c /\ owner_until'[u] = now + ttl[i]
      /\ \A w \in Users : w # u => owner'[w] = owner[w] /\ owner_until'[w] = owner_until[w]
      /\ UNCHANGED <<now, users, issue, verifying, proven>>
  BY <1>2, Shapes DEF Store
<1> HIDE DEF u, c
<1>4. i # NoIssue
  BY NoneAssumption
<1>5. IssuesMade'
  BY <1>1, <1>3 DEF Meaning, IssuesMade
<1>6. ProofsBelong'
  BY <1>1, <1>3, Ranges DEF Meaning, ProofsBelong, c
<1>7. ChallengesTaken'
  BY <1>1, <1>3, Ranges DEF Meaning, ChallengesTaken, verifying
<1>8. OwnersFollow'
  <2> SUFFICES ASSUME ~CodesRecur
               PROVE  /\ \A w \in Users : \A d \in CodesOf[w] :
                            ProofLives(d)' => owner'[w] = d /\ owner_until'[w] >= proof_until'[d]
                      /\ \A v \in Verifies : verify_pc'[v] = "consumed" => ~ProofLives(verify[v].code)'
    BY <1>3 DEF OwnersFollow
  <2>1. ASSUME NEW w \in Users, NEW d \in CodesOf[w], ProofLives(d)'
        PROVE  owner'[w] = d /\ owner_until'[w] >= proof_until'[d]
    <3>0. d \in Codes
      BY CodesAssumption
    <3>1. CASE d = c
      <4>1. w = u
        BY <3>1, <1>2, CodesAssumption
      <4> QED
        BY <3>1, <4>1, <1>2, <1>3, Ranges
    <3>2. CASE d # c
      <4>1. ProofLives(d)
        BY <2>1, <3>0, <3>2, <1>3 DEF ProofLives
      <4>2. owner[w] = d /\ owner_until[w] >= proof_until[d] /\ proof_until[d] > now
        BY <4>1 DEF Meaning, OwnersFollow, ProofLives
      <4>3. OwnerLives(w)
        BY <4>2, <3>0, Ranges, NoneAssumption DEF OwnerLives
      <4>4. w # u
        BY <2>1, <3>0, <3>2, <4>2, <4>3, <1>3 DEF Previous, ProofLives
      <4> QED
        BY <3>0, <3>2, <4>2, <4>4, <1>3
    <3> QED
      BY <3>1, <3>2
  <2>2. ASSUME NEW v \in Verifies, verify_pc'[v] = "consumed" PROVE ~ProofLives(verify[v].code)'
    <3>1. verify_pc[v] = "consumed" /\ verify'[v].code = verify[v].code
      BY <2>2, <1>3 DEF verifying
    <3>2. verify[v].code \in Codes /\ verify[v].code # c /\ ~ProofLives(verify[v].code)
      BY <3>1, <1>3 DEF Meaning, ChallengesTaken, OwnersFollow, Settled
    <3> QED
      BY <3>1, <3>2, <1>3 DEF ProofLives
  <2> QED
    BY <2>1, <2>2
<1>9. ConsumedForGood'
  <2>1. \A v \in Verifies : verify'[v] = verify[v]
    BY <1>3 DEF verifying
  <2>2. ASSUME ~CodesGuessed, NEW v \in Verifies, verify[v].of # NoIssue
        PROVE  /\ issue_pc'[verify[v].of] = "returned"
               /\ \A d \in Codes : proof'[d] # verify[v].of
    <3>1. issue_pc[verify[v].of] = "returned" /\ \A d \in Codes : proof[d] # verify[v].of
      BY <2>2 DEF Meaning, ConsumedForGood
    <3>2. verify[v].of # i
      BY <3>1
    <3>3. issue_pc'[verify[v].of] = "returned"
      BY <2>2, <3>1, <3>2, <1>1, Ranges
    <3>4. ASSUME NEW d \in Codes PROVE proof'[d] # verify[v].of
      BY <2>2, <3>1, <3>2, <1>3
    <3> QED
      BY <3>3, <3>4
  <2> QED
    BY <2>1, <2>2 DEF Meaning, ConsumedForGood, ConsumedOnce
<1>10. LoadedIsProven'
  BY <1>3 DEF Meaning, LoadedIsProven, VerifiedEmailWasProven, users, verifying
<1> QED
  BY <1>5, <1>6, <1>7, <1>8, <1>9, <1>10 DEF Meaning

\* The script of Issue fails after it has deleted the previous proof.
LEMMA DeleteOnlyKeeps ==
    ASSUME TypeOK, Meaning, NEW i \in Issues, NEW to \in {"again", "returned"},
           issue_pc[i] \in {"measured", "again"}, issue_pc[i] = "again" => to = "returned",
           issue_pc' = [issue_pc EXCEPT ![i] = to], DeleteOnly(i)
    PROVE  Meaning'
<1>1. issue_pc'[i] = to /\ \A j \in Issues : j # i => issue_pc'[j] = issue_pc[j]
  BY Shapes
<1>2. /\ \A c \in Codes : proof'[c] \in {proof[c], NoIssue}
      /\ UNCHANGED <<now, users, proof_until, owner, owner_until, issue, verifying, proven>>
  BY DEF DeleteOnly
<1>3. \A c \in Codes : ProofLives(c)' => ProofLives(c)
  BY <1>2 DEF ProofLives
<1> USE Ranges, <1>1, <1>2 DEF Meaning, verifying, users
<1>4. IssuesMade'
  BY DEF IssuesMade
<1>5. ProofsBelong'
  BY DEF ProofsBelong
<1>6. ChallengesTaken'
  BY DEF ChallengesTaken
<1>7. OwnersFollow'
  <2>1. \A u \in Users : CodesOf[u] \subseteq Codes
    BY CodesAssumption
  <2>2. \A v \in Verifies : verify_pc[v] = "consumed" => verify[v].code \in Codes
    BY DEF ChallengesTaken
  <2>3. QED
    BY <1>3, <2>1, <2>2 DEF OwnersFollow
<1>8. ConsumedForGood'
  BY DEF ConsumedForGood, ConsumedOnce
<1>9. LoadedIsProven'
  BY DEF LoadedIsProven, VerifiedEmailWasProven
<1> QED
  BY <1>4, <1>5, <1>6, <1>7, <1>8, <1>9

\* A submitted code has taken no challenge yet.
LEMMA SubmitKeeps ==
    ASSUME TypeOK, Meaning, NEW v \in Verifies, NEW c \in Codes, Submit(v, c) PROVE Meaning'
<1>1. /\ verify_pc[v] = "idle" /\ verify_pc'[v] = "submitted" /\ verify[v].of = NoIssue
      /\ \A w \in Verifies : w # v => verify_pc'[w] = verify_pc[w] /\ verify'[w] = verify[w]
      /\ verify'[v].code = c /\ verify'[v].of = NoIssue
      /\ \A w \in Verifies : verify'[w].of = verify[w].of
      /\ UNCHANGED <<now, users, redis, issuing, proven>>
  BY Shapes DEF Submit, VerifyGoes, Meaning, ChallengesTaken
<1> USE Ranges, <1>1 DEF Meaning, redis, issuing, users
<1>2. IssuesMade'
  BY DEF IssuesMade
<1>3. ProofsBelong'
  BY DEF ProofsBelong
<1>4. ChallengesTaken'
  BY DEF ChallengesTaken
<1>5. OwnersFollow'
  BY DEF OwnersFollow, ProofLives
<1>6. ConsumedForGood'
  BY DEF ConsumedForGood, ConsumedOnce
<1>7. LoadedIsProven'
  BY DEF LoadedIsProven, VerifiedEmailWasProven
<1> QED
  BY <1>2, <1>3, <1>4, <1>5, <1>6, <1>7

\* A call of Verify that changes nothing else fails, or leaves the owner key be.
LEMMA VerifyMoves ==
    ASSUME TypeOK, Meaning, NEW v \in Verifies, NEW to \in {"cleared", "failed"},
           to = "cleared" => verify_pc[v] = "consumed",
           verify_pc[v] # "idle",
           verify_pc' = [verify_pc EXCEPT ![v] = to],
           UNCHANGED <<now, users, redis, issuing, verify, proven>>
    PROVE  Meaning'
<1>1. verify_pc'[v] = to /\ \A w \in Verifies : w # v => verify_pc'[w] = verify_pc[w]
  BY Shapes
<1> USE Ranges, <1>1 DEF Meaning, redis, issuing, users
<1>2. IssuesMade'
  BY DEF IssuesMade
<1>3. ProofsBelong'
  BY DEF ProofsBelong
<1>4. ChallengesTaken'
  BY DEF ChallengesTaken
<1>5. OwnersFollow'
  BY DEF OwnersFollow, ProofLives
<1>6. ConsumedForGood'
  BY DEF ConsumedForGood, ConsumedOnce
<1>7. LoadedIsProven'
  BY DEF LoadedIsProven, VerifiedEmailWasProven
<1> QED
  BY <1>2, <1>3, <1>4, <1>5, <1>6, <1>7

\* GETDEL takes the proof away, and its answer arrives.
LEMMA ConsumeKeeps ==
    ASSUME TypeOK, Meaning, NEW v \in Verifies, Consume(v) PROVE Meaning'
<1> DEFINE c == verify[v].code
<1>1. /\ verify_pc[v] = "submitted" /\ verify_pc'[v] = "consumed"
      /\ \A w \in Verifies : w # v => verify_pc'[w] = verify_pc[w] /\ verify'[w] = verify[w]
      /\ ProofLives(c) /\ Told(c)
      /\ UNCHANGED <<now, users, proof_until, owner, owner_until, issuing, proven>>
  BY Shapes DEF Consume, VerifyGoes
<1>2. c \in Codes /\ verify[v].of = NoIssue
  BY <1>1 DEF Meaning, ChallengesTaken
<1>3. verify'[v].code = c /\ verify'[v].of = proof[c]
  BY Shapes, Ranges DEF Consume
<1>4. proof'[c] = NoIssue /\ \A d \in Codes : d # c => proof'[d] = proof[d]
  BY <1>2, Shapes DEF Consume
<1>5. /\ proof[c] # NoIssue /\ proof[c] \in Issues /\ issue[proof[c]].code = c
      /\ issue_pc[proof[c]] \in {"again", "returned"}
  BY <1>1, <1>2, Ranges DEF ProofLives, Meaning, ProofsBelong
<1> HIDE DEF c
<1> USE Ranges, <1>1, <1>2, <1>3, <1>4, <1>5
<1>6. IssuesMade'
  BY DEF Meaning, IssuesMade, issuing
<1>7. ProofsBelong'
  BY DEF Meaning, ProofsBelong, issuing
<1>8. ChallengesTaken'
  BY DEF Meaning, ChallengesTaken, issuing, c
<1>9. OwnersFollow'
  <2>1. ASSUME ~CodesRecur, NEW u \in Users, NEW d \in CodesOf[u], ProofLives(d)'
        PROVE  owner'[u] = d /\ owner_until'[u] >= proof_until'[d]
    <3>1. d \in Codes /\ d # c /\ ProofLives(d)
      BY <2>1, CodesAssumption DEF ProofLives
    <3> QED
      BY <2>1, <3>1 DEF Meaning, OwnersFollow
  <2>2. ASSUME ~CodesRecur, NEW w \in Verifies, verify_pc'[w] = "consumed"
        PROVE  ~ProofLives(verify[w].code)'
    <3>1. CASE w = v
      BY <3>1 DEF ProofLives
    <3>2. CASE w # v
      <4>1. verify_pc[w] = "consumed" /\ verify'[w].code = verify[w].code
        BY <2>2, <3>2
      <4>2. verify[w].code \in Codes /\ ~ProofLives(verify[w].code)
        BY <2>2, <4>1 DEF Meaning, OwnersFollow, ChallengesTaken
      <4> QED
        BY <4>1, <4>2 DEF ProofLives
    <3> QED
      BY <3>1, <3>2
  <2> QED
    BY <2>1, <2>2 DEF OwnersFollow
<1>10. ConsumedForGood'
  <2> SUFFICES ASSUME ~CodesGuessed PROVE
        /\ ConsumedOnce'
        /\ \A w \in Verifies : verify'[w].of # NoIssue =>
            /\ issue_pc'[verify'[w].of] = "returned"
            /\ \A d \in Codes : proof'[d] # verify'[w].of
    BY DEF ConsumedForGood
  <2>1. \A w \in Verifies : verify[w].of # NoIssue =>
            issue_pc[verify[w].of] = "returned" /\ \A d \in Codes : proof[d] # verify[w].of
    BY DEF Meaning, ConsumedForGood
  <2>2. ConsumedOnce'
    BY <2>1 DEF Meaning, ConsumedForGood, ConsumedOnce
  <2>3. issue_pc[proof[c]] = "returned" /\ \A d \in Codes : d # c => proof[d] # proof[c]
    BY DEF Told, Meaning, ProofsBelong
  <2>4. ASSUME NEW w \in Verifies, verify'[w].of # NoIssue
        PROVE  issue_pc'[verify'[w].of] = "returned" /\ \A d \in Codes : proof'[d] # verify'[w].of
    BY <2>1, <2>3, <2>4 DEF issuing
  <2> QED
    BY <2>2, <2>4
<1>11. LoadedIsProven'
  BY DEF Meaning, LoadedIsProven, VerifiedEmailWasProven, users, issuing
<1> QED
  BY <1>6, <1>7, <1>8, <1>9, <1>10, <1>11 DEF Meaning

\* GETDEL takes the proof away, and its answer is lost.
LEMMA ConsumeLostKeeps ==
    ASSUME TypeOK, Meaning, NEW v \in Verifies, ConsumeLost(v) PROVE Meaning'
<1> DEFINE c == verify[v].code
<1>1. /\ verify_pc[v] = "submitted" /\ verify_pc'[v] = "failed"
      /\ \A w \in Verifies : w # v => verify_pc'[w] = verify_pc[w]
      /\ UNCHANGED <<now, users, proof_until, owner, owner_until, issuing, verify, proven>>
  BY Shapes DEF ConsumeLost, VerifyGoes
<1>2. c \in Codes
  BY <1>1 DEF Meaning, ChallengesTaken
<1>3. proof'[c] = NoIssue /\ \A d \in Codes : d # c => proof'[d] = proof[d]
  BY <1>2, Shapes DEF ConsumeLost
<1> HIDE DEF c
<1> USE Ranges, <1>1, <1>2, <1>3
<1>4. IssuesMade'
  BY DEF Meaning, IssuesMade, issuing
<1>5. ProofsBelong'
  BY DEF Meaning, ProofsBelong, issuing
<1>6. ChallengesTaken'
  BY DEF Meaning, ChallengesTaken, issuing
<1>7. OwnersFollow'
  <2>1. \A d \in Codes : ProofLives(d)' => ProofLives(d)
    BY DEF ProofLives
  <2>2. \A w \in Verifies : verify_pc'[w] = "consumed" =>
            verify_pc[w] = "consumed" /\ verify[w].code \in Codes
    BY DEF Meaning, ChallengesTaken
  <2>3. \A u \in Users : CodesOf[u] \subseteq Codes
    BY CodesAssumption
  <2> QED
    BY <2>1, <2>2, <2>3 DEF Meaning, OwnersFollow
<1>8. ConsumedForGood'
  <2>1. \A w \in Verifies : verify'[w] = verify[w]
    OBVIOUS
  <2>2. \A d \in Codes : proof'[d] \in {proof[d], NoIssue}
    OBVIOUS
  <2> QED
    BY <2>1, <2>2 DEF Meaning, ConsumedForGood, ConsumedOnce, issuing
<1>9. LoadedIsProven'
  BY DEF Meaning, LoadedIsProven, VerifiedEmailWasProven, users, issuing
<1> QED
  BY <1>4, <1>5, <1>6, <1>7, <1>8, <1>9 DEF Meaning

\* The owner key goes only where its proof has gone.
LEMMA ClearOwnerKeeps ==
    ASSUME TypeOK, Meaning, NEW v \in Verifies, ClearOwner(v) PROVE Meaning'
<1> DEFINE c == verify[v].code
           u == issue[verify[v].of].user
<1>1. /\ verify_pc[v] = "consumed" /\ verify_pc'[v] = "cleared"
      /\ \A w \in Verifies : w # v => verify_pc'[w] = verify_pc[w]
      /\ UNCHANGED <<now, users, proof, proof_until, owner_until, issuing, verify, proven>>
  BY Shapes DEF ClearOwner, VerifyGoes
<1>2. c \in Codes /\ u \in Users
  BY <1>1, Ranges DEF Meaning, ChallengesTaken
<1>3. /\ \A w \in Users : w # u => owner'[w] = owner[w]
      /\ owner'[u] = owner[u] \/ (owner[u] = c /\ owner'[u] = NoCode)
  BY <1>2, Shapes DEF ClearOwner, OwnerNames
<1> HIDE DEF c, u
<1> USE Ranges, <1>1, <1>2, <1>3
<1>4. IssuesMade'
  BY DEF Meaning, IssuesMade, issuing
<1>5. ProofsBelong'
  BY DEF Meaning, ProofsBelong, issuing
<1>6. ChallengesTaken'
  BY DEF Meaning, ChallengesTaken, issuing
<1>7. OwnersFollow'
  <2>1. ASSUME ~CodesRecur, NEW w \in Users, NEW d \in CodesOf[w], ProofLives(d)'
        PROVE  owner'[w] = d /\ owner_until'[w] >= proof_until'[d]
    <3>1. ProofLives(d) /\ owner[w] = d /\ owner_until[w] >= proof_until[d]
      BY <2>1 DEF Meaning, OwnersFollow, ProofLives
    <3>2. ~ProofLives(c)
      BY <2>1 DEF Meaning, OwnersFollow, c
    <3> QED
      BY <3>1, <3>2
  <2>2. ASSUME ~CodesRecur, NEW w \in Verifies, verify_pc'[w] = "consumed"
        PROVE  ~ProofLives(verify[w].code)'
    BY <2>2 DEF Meaning, OwnersFollow, ProofLives
  <2> QED
    BY <2>1, <2>2 DEF OwnersFollow
<1>8. ConsumedForGood'
  BY DEF Meaning, ConsumedForGood, ConsumedOnce, issuing
<1>9. LoadedIsProven'
  BY DEF Meaning, LoadedIsProven, VerifiedEmailWasProven, users, issuing
<1> QED
  BY <1>4, <1>5, <1>6, <1>7, <1>8, <1>9 DEF Meaning

\* The user is loaded and compared with the challenge.
LEMMA CheckKeeps ==
    ASSUME TypeOK, Meaning, NEW v \in Verifies, Check(v) PROVE Meaning'
<1> DEFINE u == issue[verify[v].of].user
<1>1. /\ verify_pc[v] = "cleared" /\ verify_pc'[v] \in {"checked", "failed"}
      /\ verify_pc'[v] = "checked" => Active(v)
      /\ \A w \in Verifies : w # v => verify_pc'[w] = verify_pc[w] /\ verify'[w] = verify[w]
      /\ verify'[v].code = verify[v].code /\ verify'[v].of = verify[v].of
      /\ UNCHANGED <<now, users, redis, issuing>>
  BY Shapes DEF Check, VerifyGoes
<1>2. verify[v].of \in Issues /\ u \in Users
  BY <1>1, Ranges DEF Meaning, ChallengesTaken
<1>3. verify'[v].loaded = email[u]
  BY Shapes, Ranges DEF Check
<1>4. /\ \A w \in Users : proven[w] \subseteq proven'[w]
      /\ Active(v) => email[u] \in proven'[u]
  BY <1>2, Shapes DEF Check, Active
<1> HIDE DEF u
<1> USE Ranges, <1>1, <1>2, <1>3, <1>4
<1>5. IssuesMade'
  BY DEF Meaning, IssuesMade, issuing
<1>6. ProofsBelong'
  BY DEF Meaning, ProofsBelong, issuing, redis
<1>7. ChallengesTaken'
  BY DEF Meaning, ChallengesTaken, issuing
<1>8. OwnersFollow'
  BY DEF Meaning, OwnersFollow, ProofLives, redis
<1>9. ConsumedForGood'
  <2>1. \A w \in Verifies : verify'[w].of = verify[w].of
    OBVIOUS
  <2> QED
    BY <2>1 DEF Meaning, ConsumedForGood, ConsumedOnce, issuing, redis
<1>10. LoadedIsProven'
  <2>1. VerifiedEmailWasProven'
    BY DEF Meaning, LoadedIsProven, VerifiedEmailWasProven, users, TypeOK
  <2>2. ASSUME NEW w \in Verifies, verify_pc'[w] = "checked"
        PROVE  verify'[w].loaded \in proven'[issue[verify'[w].of].user]
    <3>1. CASE w = v
      BY <2>2, <3>1 DEF u
    <3>2. CASE w # v
      <4>1. verify[w].of \in Issues /\ verify[w].loaded \in proven[issue[verify[w].of].user]
        BY <2>2, <3>2 DEF Meaning, LoadedIsProven, ChallengesTaken
      <4> QED
        BY <3>2, <4>1
    <3> QED
      BY <3>1, <3>2
  <2> QED
    BY <2>1, <2>2 DEF LoadedIsProven, issuing
<1> QED
  BY <1>5, <1>6, <1>7, <1>8, <1>9, <1>10 DEF Meaning

\* The update verifies the user only while the email is the one loaded.
LEMMA MarkKeeps ==
    ASSUME TypeOK, Meaning, NEW v \in Verifies, Mark(v) PROVE Meaning'
<1> DEFINE u == issue[verify[v].of].user
<1>1. /\ verify_pc[v] = "checked" /\ verify_pc'[v] \in {"verified", "failed"}
      /\ \A w \in Verifies : w # v => verify_pc'[w] = verify_pc[w]
      /\ UNCHANGED <<now, email, redis, issuing, verify, proven>>
  BY Shapes DEF Mark, VerifyGoes
<1>2. verified' \subseteq verified \cup {u}
      /\ (u \in verified' => u \in verified \/ email[u] = verify[v].loaded)
  BY DEF Mark
<1>3. verify[v].loaded \in proven[u]
  BY <1>1 DEF Meaning, LoadedIsProven
<1> HIDE DEF u
<1> USE Ranges, <1>1, <1>2, <1>3
<1>4. IssuesMade'
  BY DEF Meaning, IssuesMade, issuing
<1>5. ProofsBelong'
  BY DEF Meaning, ProofsBelong, issuing, redis
<1>6. ChallengesTaken'
  BY DEF Meaning, ChallengesTaken, issuing
<1>7. OwnersFollow'
  BY DEF Meaning, OwnersFollow, ProofLives, redis
<1>8. ConsumedForGood'
  BY DEF Meaning, ConsumedForGood, ConsumedOnce, issuing, redis
<1>9. LoadedIsProven'
  BY DEF Meaning, LoadedIsProven, VerifiedEmailWasProven, issuing
<1> QED
  BY <1>4, <1>5, <1>6, <1>7, <1>8, <1>9 DEF Meaning

\* A user whose email changes is verified no longer.
LEMMA ChangeEmailKeeps ==
    ASSUME TypeOK, Meaning, NEW u \in Users, NEW e \in Emails, ChangeEmail(u, e) PROVE Meaning'
<1>1. /\ \A w \in Users : w # u => email'[w] = email[w]
      /\ verified' = verified \ {u} /\ verified \subseteq Users
      /\ UNCHANGED <<now, redis, issuing, verifying, proven>>
  BY Shapes DEF ChangeEmail, TypeOK
<1> USE <1>1 DEF Meaning, redis, issuing, verifying
<1>2. IssuesMade' /\ ProofsBelong' /\ ChallengesTaken'
  BY DEF IssuesMade, ProofsBelong, ChallengesTaken
<1>3. OwnersFollow' /\ ConsumedForGood'
  BY DEF OwnersFollow, ProofLives, ConsumedForGood, ConsumedOnce
<1>4. LoadedIsProven'
  BY DEF LoadedIsProven, VerifiedEmailWasProven
<1> QED
  BY <1>2, <1>3, <1>4

\* Time takes lives, and gives none.
LEMMA TickKeeps ==
    ASSUME TypeOK, Meaning, Tick PROVE Meaning'
<1>1. now' = now + 1 /\ UNCHANGED <<users, redis, issuing, verifying, proven>>
  BY DEF Tick
<1> USE <1>1, Ranges DEF Meaning, redis, issuing, verifying, users
<1>2. IssuesMade'
  BY TimeAssumption DEF IssuesMade
<1>3. ProofsBelong' /\ ChallengesTaken'
  BY DEF ProofsBelong, ChallengesTaken
<1>4. OwnersFollow'
  <2>1. \A c \in Codes : ProofLives(c)' => ProofLives(c)
    BY DEF ProofLives
  <2>2. \A v \in Verifies : verify_pc[v] = "consumed" => verify[v].code \in Codes
    BY DEF ChallengesTaken
  <2>3. \A u \in Users : CodesOf[u] \subseteq Codes
    BY CodesAssumption
  <2> QED
    BY <2>1, <2>2, <2>3 DEF OwnersFollow
<1>5. ConsumedForGood' /\ LoadedIsProven'
  BY DEF ConsumedForGood, ConsumedOnce, LoadedIsProven, VerifiedEmailWasProven
<1> QED
  BY <1>2, <1>3, <1>4, <1>5

\* The records of the calls of Verify.
Attempt ==
    [code : Codes \cup {NoCode}, at : Nat, of : Issues \cup {NoIssue},
     loaded : Emails \cup {NoEmail}]

\* A verification that takes a challenge keeps its type.
LEMMA AttemptTaken ==
    ASSUME verify \in [Verifies -> Attempt], NEW v \in Verifies,
           NEW i \in Issues \cup {NoIssue}
    PROVE  [verify EXCEPT ![v].of = i] \in [Verifies -> Attempt]
  BY DEF Attempt

\* So does one that loads an address.
LEMMA AttemptLoaded ==
    ASSUME verify \in [Verifies -> Attempt], NEW v \in Verifies, NEW e \in Emails
    PROVE  [verify EXCEPT ![v].loaded = e] \in [Verifies -> Attempt]
  BY DEF Attempt

\* The types are kept by every action.
LEMMA TypesStay ==
    ASSUME TypeOK, Meaning, [Next]_vars PROVE TypeOK'
<1> USE CodesAssumption, NoneAssumption, TimeAssumption
<1>0. verify \in [Verifies -> Attempt]
  BY DEF TypeOK, Attempt
<1>1. ASSUME NEW i \in Issues, Request(i) PROVE TypeOK'
  <2>1. PICK c \in CodesOf[issue[i].user] : issue' = [issue EXCEPT ![i] =
            [user |-> issue[i].user, email |-> email[issue[i].user], code |-> c,
             expires |-> now + Lifetime]]
    BY <1>1 DEF Request
  <2>2. c \in Codes
    BY <2>1 DEF TypeOK
  <2>3. now + Lifetime \in Nat /\ issue[i].user \in Users /\ email[issue[i].user] \in Emails
    BY DEF TypeOK
  <2>4. issue' \in [Issues -> [user : Users, email : Emails,
                              code : Codes \cup {NoCode}, expires : Nat]]
    BY <2>1, <2>2, <2>3 DEF TypeOK
  <2>5. issue_pc' = [issue_pc EXCEPT ![i] = "requested"]
        /\ UNCHANGED <<now, users, redis, ttl, verifying, proven>>
    BY <1>1 DEF Request, IssueGoes
  <2> QED
    BY <2>4, <2>5 DEF TypeOK, users, redis, verifying
<1>2. ASSUME NEW i \in Issues, Measure(i) PROVE TypeOK'
  <2>1. issue[i].expires <= now + Lifetime /\ issue[i].expires \in Nat /\ now \in Nat
    BY <1>2, Ranges DEF Meaning, IssuesMade, Measure, IssueGoes
  <2>2. Lifetime \in Nat /\ now + Lifetime \in Nat
    BY <2>1
  <2>3. \E t \in 0..Lifetime : ttl' = [ttl EXCEPT ![i] = t]
    <3>1. PICK t \in IF issue[i].expires - now > 0 THEN InMilliseconds(issue[i].expires - now)
                     ELSE {0} : ttl' = [ttl EXCEPT ![i] = t]
      BY <1>2 DEF Measure
    <3>2. t \in {0, 1, issue[i].expires - now} /\ (t # 0 => issue[i].expires - now >= t)
      BY <2>1, <3>1 DEF InMilliseconds
    <3>3. t \in 0..Lifetime
      BY <2>1, <2>2, <3>2
    <3> QED
      BY <3>1, <3>3
  <2>4. ttl' \in [Issues -> 0..Lifetime]
    BY <2>3 DEF TypeOK
  <2> QED
    BY <1>2, <2>4 DEF TypeOK, Measure, IssueGoes, users, redis, verifying
<1>3. ASSUME NEW i \in Issues, Replace(i) \/ ReplaceAgain(i) PROVE TypeOK'
  <2>1. issue[i].code \in Codes /\ issue[i].user \in Users /\ now + ttl[i] \in Nat
    BY <1>3 DEF Meaning, IssuesMade, TypeOK, Replace, ReplaceAgain, IssueGoes
  <2>2. /\ Store(i) \/ DeleteOnly(i)
        /\ issue_pc' \in [Issues -> {"idle", "requested", "measured", "again", "returned"}]
        /\ ttl' \in [Issues -> 0..Lifetime]
    <3>1. CASE Replace(i)
      <4>1. ttl' = [ttl EXCEPT ![i] = 0] /\ 0 \in 0..Lifetime
        BY <3>1 DEF Replace
      <4>2. ttl' \in [Issues -> 0..Lifetime]
        BY <4>1 DEF TypeOK
      <4> QED
        BY <3>1, <4>2 DEF TypeOK, Replace, IssueGoes
    <3>2. CASE ReplaceAgain(i)
      BY <3>2 DEF TypeOK, ReplaceAgain, IssueGoes
    <3> QED
      BY <1>3, <3>1, <3>2
  <2>3. CASE Store(i)
    BY <2>1, <2>2, <2>3 DEF TypeOK, Store, users, verifying
  <2>4. CASE DeleteOnly(i)
    BY <2>2, <2>4 DEF TypeOK, DeleteOnly, users, verifying
  <2> QED
    BY <2>2, <2>3, <2>4
<1>4. ASSUME NEW i \in Issues, ReplaceFails(i) PROVE TypeOK'
  <2>1. ttl' = [ttl EXCEPT ![i] = 0] /\ 0 \in 0..Lifetime
    BY <1>4 DEF ReplaceFails
  <2>2. ttl' \in [Issues -> 0..Lifetime]
    BY <2>1 DEF TypeOK
  <2> QED
    BY <1>4, <2>2 DEF TypeOK, ReplaceFails, IssueGoes, users, redis, verifying
<1>5. ASSUME NEW v \in Verifies, NEW c \in Codes, Submit(v, c) PROVE TypeOK'
  BY <1>5 DEF TypeOK, Submit, VerifyGoes, users, redis, issuing
<1>6. ASSUME NEW v \in Verifies, Consume(v) PROVE TypeOK'
  <2>1. verify[v].code \in Codes
    BY <1>6 DEF Meaning, ChallengesTaken, Consume, VerifyGoes
  <2>2. verify' = [verify EXCEPT ![v].of = proof[verify[v].code]]
    BY <1>6 DEF Consume
  <2>3. verify' \in [Verifies -> Attempt]
    BY <1>0, <2>1, <2>2, Ranges, AttemptTaken
  <2>4. proof' = [proof EXCEPT ![verify[v].code] = NoIssue]
        /\ verify_pc' = [verify_pc EXCEPT ![v] = "consumed"]
        /\ UNCHANGED <<now, users, proof_until, owner, owner_until, issuing, proven>>
    BY <1>6 DEF Consume, VerifyGoes
  <2> QED
    BY <2>3, <2>4 DEF TypeOK, Attempt, users, issuing
<1>7. ASSUME NEW v \in Verifies, ConsumeLost(v) PROVE TypeOK'
  BY <1>7 DEF TypeOK, ConsumeLost, VerifyGoes, users, issuing
<1>8. ASSUME NEW v \in Verifies, ConsumeNothing(v) \/ ClearOwnerFails(v) \/ VerifyFails(v)
      PROVE  TypeOK'
  BY <1>8 DEF TypeOK, ConsumeNothing, ClearOwnerFails, VerifyFails, VerifyGoes, users, redis, issuing
<1>9. ASSUME NEW v \in Verifies, ClearOwner(v) PROVE TypeOK'
  BY <1>9 DEF TypeOK, ClearOwner, VerifyGoes, users, issuing
<1>10. ASSUME NEW v \in Verifies, Check(v) PROVE TypeOK'
  <2>1. verify[v].of \in Issues
    BY <1>10, Ranges DEF Meaning, ChallengesTaken, Check
  <2>2. issue[verify[v].of].user \in Users /\ issue[verify[v].of].email \in Emails
        /\ email[issue[verify[v].of].user] \in Emails
    BY <2>1 DEF TypeOK
  <2>3. proven' \in [Users -> SUBSET Emails]
    BY <1>10, <2>2 DEF TypeOK, Check
  <2>4. verify' = [verify EXCEPT ![v].loaded = email[issue[verify[v].of].user]]
    BY <1>10 DEF Check
  <2>5. verify' \in [Verifies -> Attempt]
    BY <1>0, <2>2, <2>4, AttemptLoaded
  <2>6. verify_pc' = [verify_pc EXCEPT ![v] = "checked"] \/ verify_pc' = [verify_pc EXCEPT ![v] = "failed"]
    BY <1>10 DEF Check, VerifyGoes
  <2>7. UNCHANGED <<now, users, redis, issuing>>
    BY <1>10 DEF Check
  <2> QED
    BY <2>3, <2>5, <2>6, <2>7 DEF TypeOK, Attempt, users, redis, issuing
<1>11. ASSUME NEW v \in Verifies, Mark(v) PROVE TypeOK'
  <2>1. verify[v].of \in Issues
    BY <1>11, Ranges DEF Meaning, ChallengesTaken, Mark
  <2>2. verified' \subseteq Users
    BY <1>11, <2>1, Ranges DEF TypeOK, Mark
  <2>3. verify_pc' = [verify_pc EXCEPT ![v] = "verified"] \/ verify_pc' = [verify_pc EXCEPT ![v] = "failed"]
    BY <1>11 DEF Mark, VerifyGoes
  <2>4. UNCHANGED <<now, email, redis, issuing, verify, proven>>
    BY <1>11 DEF Mark
  <2> QED
    BY <2>2, <2>3, <2>4 DEF TypeOK, redis, issuing
<1>12. ASSUME NEW u \in Users, NEW e \in Emails, ChangeEmail(u, e) PROVE TypeOK'
  BY <1>12 DEF TypeOK, ChangeEmail, redis, issuing, verifying
<1>13. CASE Tick
  BY <1>13 DEF TypeOK, Tick, users, redis, issuing, verifying
<1>14. CASE UNCHANGED vars
  BY <1>14 DEF TypeOK, vars, users, redis, issuing, verifying
<1> QED
  BY <1>1, <1>2, <1>3, <1>4, <1>5, <1>6, <1>7, <1>8, <1>9, <1>10, <1>11, <1>12, <1>13, <1>14 DEF Next

\* Nothing is issued, proven or verified to begin with.
LEMMA InitVerification == Init => VerificationInvariant
<1> SUFFICES ASSUME Init PROVE VerificationInvariant
  OBVIOUS
<1> USE CodesAssumption, NoneAssumption, TimeAssumption DEF Init
<1>1. TypeOK
  BY DEF TypeOK
<1>2. IssuesMade /\ ProofsBelong /\ ChallengesTaken
  BY DEF IssuesMade, ProofsBelong, ChallengesTaken
<1>3. OwnersFollow /\ ConsumedForGood /\ LoadedIsProven
  BY DEF OwnersFollow, ProofLives, ConsumedForGood, ConsumedOnce, LoadedIsProven, VerifiedEmailWasProven
<1> QED
  BY <1>1, <1>2, <1>3 DEF VerificationInvariant

\* Every step of a call or of the clock keeps what keys and rows mean.
LEMMA NextVerification == VerificationInvariant /\ [Next]_vars => VerificationInvariant'
<1> SUFFICES ASSUME TypeOK, Meaning, [Next]_vars PROVE Meaning'
  BY TypesStay DEF VerificationInvariant, Meaning
<1>1. ASSUME NEW i \in Issues, Request(i) PROVE Meaning'
  BY <1>1, RequestKeeps
<1>2. ASSUME NEW i \in Issues, Measure(i) PROVE Meaning'
  <2>1. PICK to \in {"measured", "returned"} : IssueGoes(i, "requested", to)
    BY <1>2 DEF Measure
  <2> QED
    BY <1>2, <2>1, IssueMoves DEF Measure, IssueGoes
<1>3. ASSUME NEW i \in Issues, Replace(i) PROVE Meaning'
  BY <1>3, StoreKeeps, DeleteOnlyKeeps DEF Replace, IssueGoes
<1>4. ASSUME NEW i \in Issues, ReplaceAgain(i) PROVE Meaning'
  BY <1>4, StoreKeeps, DeleteOnlyKeeps DEF ReplaceAgain, IssueGoes
<1>5. ASSUME NEW i \in Issues, ReplaceFails(i) PROVE Meaning'
  BY <1>5, IssueMoves DEF ReplaceFails, IssueGoes
<1>6. ASSUME NEW v \in Verifies, NEW c \in Codes, Submit(v, c) PROVE Meaning'
  BY <1>6, SubmitKeeps
<1>7. ASSUME NEW v \in Verifies, Consume(v) \/ ConsumeLost(v) PROVE Meaning'
  BY <1>7, ConsumeKeeps, ConsumeLostKeeps
<1>8. ASSUME NEW v \in Verifies, ConsumeNothing(v) \/ ClearOwnerFails(v) \/ VerifyFails(v)
      PROVE  Meaning'
  BY <1>8, VerifyMoves DEF ConsumeNothing, ClearOwnerFails, VerifyFails, VerifyGoes
<1>9. ASSUME NEW v \in Verifies, ClearOwner(v) \/ Check(v) \/ Mark(v) PROVE Meaning'
  BY <1>9, ClearOwnerKeeps, CheckKeeps, MarkKeeps
<1>10. ASSUME NEW u \in Users, NEW e \in Emails, ChangeEmail(u, e) PROVE Meaning'
  BY <1>10, ChangeEmailKeeps
<1>11. CASE Tick
  BY <1>11, TickKeeps
<1>12. CASE UNCHANGED vars
  <2> USE <1>12 DEF vars, users, redis, issuing, verifying, Meaning
  <2>1. IssuesMade' /\ ProofsBelong' /\ ChallengesTaken'
    BY DEF IssuesMade, ProofsBelong, ChallengesTaken
  <2>2. OwnersFollow' /\ ConsumedForGood' /\ LoadedIsProven'
    BY DEF OwnersFollow, ProofLives, ConsumedForGood, ConsumedOnce, LoadedIsProven, VerifiedEmailWasProven
  <2> QED
    BY <2>1, <2>2
<1> QED
  BY <1>1, <1>2, <1>3, <1>4, <1>5, <1>6, <1>7, <1>8, <1>9, <1>10, <1>11, <1>12 DEF Next

\* The keys in Redis, the rows and the calls agree at all times (lines 60-189).
LEMMA VerificationHolds == Spec => []VerificationInvariant
  BY InitVerification, NextVerification, PTL DEF Spec

-----------------------------------------------------------------------------

\* The types of the keys, the rows and the calls (lines 60-128 and 155-189).
THEOREM TypeCorrect == Spec => []TypeOK
<1>1. VerificationInvariant => TypeOK
  BY DEF VerificationInvariant
<1> QED
  BY <1>1, VerificationHolds, PTL

\* Whatever is lost, sent again, changed or interleaved between the script, the
\* GETDEL, the lookup and the update, a verified email was proven with a code
\* issued for that very email.  No assumption about codes is needed.
THEOREM VerifiedOnlyIfProven == Spec => []VerifiedEmailWasProven
<1>1. VerificationInvariant => VerifiedEmailWasProven
  BY DEF VerificationInvariant, LoadedIsProven
<1> QED
  BY <1>1, VerificationHolds, PTL

\* Of any number of Verify calls with one code, one consumes the challenge, if
\* nobody types a code before it is emailed (Told).
THEOREM CodesConsumedOnce == ASSUME ~CodesGuessed PROVE Spec => []ConsumedOnce
<1>1. VerificationInvariant => ConsumedOnce
  BY DEF VerificationInvariant, ConsumedForGood
<1> QED
  BY <1>1, VerificationHolds, PTL

\* A user's live codes are at most the one the owner key names, if a code does
\* not recur while it is consumed (Settled).
THEOREM CodesReplaced == ASSUME ~CodesRecur PROVE Spec => []OneLiveCode
<1>1. ASSUME VerificationInvariant PROVE OneLiveCode
  <2>1. ASSUME NEW u \in Users
        PROVE  Cardinality({c \in CodesOf[u] : ProofLives(c)}) <= 1
    <3> DEFINE L == {c \in CodesOf[u] : ProofLives(c)}
    <3>1. L \subseteq {owner[u]}
      BY <1>1 DEF VerificationInvariant, OwnersFollow
    <3>2. IsFiniteSet({owner[u]}) /\ Cardinality({owner[u]}) = 1
      BY FS_Singleton
    <3>3. IsFiniteSet(L) /\ Cardinality(L) <= Cardinality({owner[u]})
      BY <3>1, <3>2, FS_Subset
    <3> QED
      BY <3>2, <3>3
  <2> QED
    BY <2>1 DEF OneLiveCode
<1> QED
  BY <1>1, VerificationHolds, PTL

\* A code that a newer one replaced is never consumed, under the same assumption.
THEOREM OnlyNewestIsConsumed == ASSUME ~CodesRecur PROVE Spec => SupersededNeverConsumed
<1> DEFINE Newest == \A v \in Verifies, c \in Codes :
         proof[c] # NoIssue /\ proof'[c] = NoIssue /\ verify[v].of # verify'[v].of
           => OwnerLives(issue[proof[c]].user) /\ owner[issue[proof[c]].user] = c
<1>1. VerificationInvariant /\ [Next]_vars => [Newest]_vars
  <2> SUFFICES ASSUME TypeOK, Meaning, [Next]_vars, NEW v \in Verifies, NEW c \in Codes,
                      proof[c] # NoIssue, proof'[c] = NoIssue, verify[v].of # verify'[v].of
               PROVE  OwnerLives(issue[proof[c]].user) /\ owner[issue[proof[c]].user] = c
    BY DEF VerificationInvariant, Meaning
  <2>1. PICK w \in Verifies : Consume(w)
    <3>1. verify' # verify /\ proof' # proof
      OBVIOUS
    <3> QED
      BY <3>1 DEF Next, vars, users, redis, issuing, verifying, Request, Measure, Replace,
                  ReplaceAgain, Store, DeleteOnly, ReplaceFails, Submit, ConsumeLost, ConsumeNothing,
                  ClearOwner, ClearOwnerFails, Check, Mark, VerifyFails, ChangeEmail, Tick
  <2>2. verify[w].code = c /\ ProofLives(c)
    BY <2>1, Shapes DEF Consume
  <2>3. proof[c] \in Issues /\ issue[proof[c]].user \in Users
        /\ c \in CodesOf[issue[proof[c]].user]
    BY Ranges DEF Meaning, ProofsBelong, IssuesMade
  <2>4. owner[issue[proof[c]].user] = c /\ owner_until[issue[proof[c]].user] >= proof_until[c]
    BY <2>2, <2>3 DEF Meaning, OwnersFollow
  <2> QED
    BY <2>2, <2>3, <2>4, Ranges, NoneAssumption DEF OwnerLives, ProofLives
<1> QED
  BY <1>1, VerificationHolds, PTL DEF Spec, SupersededNeverConsumed
=============================================================================
