-------------------------- MODULE EmailVerification --------------------------
(***************************************************************************)
(* internal/infra/authentication/email_verification_store.go: challenges     *)
(* live in Redis, the verified flag lives in PostgreSQL, and Issue and       *)
(* Verify are sequences of calls of the two that interleave freely.          *)
(*                                                                          *)
(* A challenge is two keys written by one script: the proof, found by the    *)
(* hash of the code, and the owner, which tells which proof the user has.    *)
(* Redis scripts and GETDEL are atomic; both keys expire by themselves.      *)
(***************************************************************************)
EXTENDS Naturals, FiniteSets

CONSTANTS
    Users,        \* Authlier users
    Emails,       \* normalized email addresses
    Codes,        \* proof keys; every user has codes of its own
    CodesOf,      \* the proof keys a user's codes hash to
    Issues,       \* calls of Issue; they also name what they issue
    Verifies,     \* calls of Verify
    CodesRecur,   \* whether a code may be drawn again while it is consumed
    CodesGuessed, \* whether a code may be typed before its Issue call returns
    NoIssue, NoCode, NoEmail,
    Lifetime,     \* lifetime of a code, in clock units
    MaxTime       \* bound: the clock stops here

ASSUME CodesAssumption ==
    /\ CodesOf \in [Users -> SUBSET Codes]
    /\ \A u, w \in Users : u # w => CodesOf[u] \cap CodesOf[w] = {}
ASSUME NoneAssumption == NoIssue \notin Issues /\ NoCode \notin Codes
ASSUME TimeAssumption == Lifetime \in Nat \ {0} /\ MaxTime \in Nat

VARIABLES
    now,
    email, verified,        \* authlier_users: email, email_verified
    proof, proof_until,     \* proof key -> issue it belongs to, key expiry
    owner, owner_until,     \* user key -> proof key, key expiry
    issue,                  \* the record each Issue call was given
    issue_pc, ttl,          \* where each Issue call stands, the ttl it took, 0
                            \* once it has returned, with an error or without
    verify,                 \* code, verifiedAt and challenge of each Verify
    verify_pc,
    proven                  \* history: emails proven with an active code

redis == <<proof, proof_until, owner, owner_until>>
users == <<email, verified>>
issuing == <<issue, issue_pc, ttl>>
verifying == <<verify, verify_pc>>
vars == <<now, users, redis, issuing, verifying, proven>>

ProofLives(c) == proof[c] # NoIssue /\ proof_until[c] > now
OwnerLives(u) == owner[u] # NoCode /\ owner_until[u] > now

Init ==
    /\ now = 0
    /\ email \in {f \in [Users -> Emails] : \A u, w \in Users : f[u] = f[w] => u = w}
    /\ verified = {}
    /\ proof = [c \in Codes |-> NoIssue] /\ proof_until = [c \in Codes |-> 0]
    /\ owner = [u \in Users |-> NoCode] /\ owner_until = [u \in Users |-> 0]
    /\ issue \in [Issues -> {[user |-> u, email |-> email[u], code |-> NoCode,
                              expires |-> 0] : u \in Users}]
    /\ issue_pc = [i \in Issues |-> "idle"]
    /\ ttl = [i \in Issues |-> 0]
    /\ verify = [v \in Verifies |-> [code |-> NoCode, at |-> 0, of |-> NoIssue,
                                      loaded |-> NoEmail]]
    /\ verify_pc = [v \in Verifies |-> "idle"]
    /\ proven = [u \in Users |-> {}]

IssueGoes(i, from, to) == issue_pc[i] = from /\ issue_pc' = [issue_pc EXCEPT ![i] = to]
VerifyGoes(v, from, to) ==
    verify_pc[v] = from /\ verify_pc' = [verify_pc EXCEPT ![v] = to]

\* Authlier finds the user by email and builds the record of a new code.
Request(i) ==
    LET u == issue[i].user IN
    /\ IssueGoes(i, "idle", "requested")
    /\ \E c \in CodesOf[u] :
        issue' = [issue EXCEPT ![i] = [user |-> u, email |-> email[u], code |-> c,
                                       expires |-> now + Lifetime]]
    /\ UNCHANGED <<now, users, redis, ttl, verifying, proven>>

\* Mutant: the expiry time is taken for the time to live.
MeasureAbsolute(i) ==
    /\ IssueGoes(i, "requested", "measured")
    /\ ttl' = [ttl EXCEPT ![i] = issue[i].expires]
    /\ UNCHANGED <<now, users, redis, issue, verifying, proven>>

\* What ttl.Milliseconds() makes of a time to live: its last unit may be less
\* than a millisecond, which is cut to nothing.
InMilliseconds(left) == IF left = 1 THEN {0, 1} ELSE {left}

\* Issue computes how long the keys are to live, or finds the record expired.
Measure(i) ==
    LET left == issue[i].expires - now IN
    /\ \/ left > 0 /\ IssueGoes(i, "requested", "measured")
       \/ left <= 0 /\ IssueGoes(i, "requested", "returned")
    /\ \E t \in IF left > 0 THEN InMilliseconds(left) ELSE {0} : ttl' = [ttl EXCEPT ![i] = t]
    /\ UNCHANGED <<now, users, redis, issue, verifying, proven>>

\* Mutant: the user's previous proof is left in place.
DropNothing(u) == {}

\* The proofs replaceVerificationScript deletes before it writes: the one the
\* user's owner key names.
Previous(u) == IF OwnerLives(u) THEN {owner[u]} ELSE {}

\* An assumption about the generator of codes, dropped when CodesRecur: it does
\* not draw for a user the very code that a Verify call has taken from Redis
\* and not yet cleared.  Without it the compare-and-delete of the owner key is
\* fooled: the key names the same proof again, but a newer challenge.
Settled(c) ==
    CodesRecur \/ \A v \in Verifies : verify_pc[v] = "consumed" => verify[v].code # c

\* replaceVerificationScript: it refuses a proof key that exists.
Store(i) ==
    LET u == issue[i].user
        c == issue[i].code
    IN
    /\ ttl[i] > 0
    /\ ~ProofLives(c) /\ Settled(c)
    /\ proof' = [d \in Codes |-> IF d = c THEN i
                                 ELSE IF d \in Previous(u) THEN NoIssue ELSE proof[d]]
    /\ proof_until' = [proof_until EXCEPT ![c] = now + ttl[i]]
    /\ owner' = [owner EXCEPT ![u] = c]
    /\ owner_until' = [owner_until EXCEPT ![u] = now + ttl[i]]
    /\ UNCHANGED <<now, users, issue, verifying, proven>>

\* Redis refuses to SET a key for no time: the script fails, but the previous
\* proof is deleted by then and stays deleted.
DeleteOnly(i) ==
    /\ ttl[i] = 0
    /\ ~ProofLives(issue[i].code)
    /\ proof' = [d \in Codes |-> IF d \in Previous(issue[i].user) THEN NoIssue ELSE proof[d]]
    /\ UNCHANGED <<now, users, proof_until, owner, owner_until, issue, verifying, proven>>

\* The call returns nil, or an error if the script fails or its answer is lost.
Replace(i) ==
    /\ \E from \in {"measured", "again"} : IssueGoes(i, from, "returned")
    /\ Store(i) \/ DeleteOnly(i)
    /\ ttl' = [ttl EXCEPT ![i] = 0]

\* The script's answer is lost and the client library sends it once more: by
\* then it may find its own proof key, or a newer challenge in its place.
ReplaceAgain(i) ==
    /\ IssueGoes(i, "measured", "again")
    /\ Store(i) \/ DeleteOnly(i)
    /\ UNCHANGED ttl

\* ErrConflict, or a Redis error before the script ran.
ReplaceFails(i) ==
    /\ \E from \in {"measured", "again"} : IssueGoes(i, from, "returned")
    /\ ttl' = [ttl EXCEPT ![i] = 0]
    /\ UNCHANGED <<now, users, redis, issue, verifying, proven>>

\* Authlier hashes the code a user typed and takes the time.
Submit(v, c) ==
    /\ VerifyGoes(v, "idle", "submitted")
    /\ verify' = [verify EXCEPT ![v] = [code |-> c, at |-> now, of |-> NoIssue,
                                        loaded |-> NoEmail]]
    /\ UNCHANGED <<now, users, redis, issuing, proven>>

\* An assumption, dropped when CodesGuessed: a code is emailed when its Issue
\* call has returned, and nobody types one before.  Without it a code that is
\* consumed while its script is being sent again is stored, and consumed, twice.
Told(c) == CodesGuessed \/ issue_pc[proof[c]] = "returned"

\* Mutant: GET instead of GETDEL.
ConsumeByGet(v) ==
    LET c == verify[v].code IN
    /\ VerifyGoes(v, "submitted", "consumed")
    /\ ProofLives(c) /\ Told(c)
    /\ verify' = [verify EXCEPT ![v].of = proof[c]]
    /\ UNCHANGED <<now, users, redis, issuing, proven>>

\* GETDEL finds the challenge.
Consume(v) ==
    LET c == verify[v].code IN
    /\ VerifyGoes(v, "submitted", "consumed")
    /\ ProofLives(c) /\ Told(c)
    /\ verify' = [verify EXCEPT ![v].of = proof[c]]
    /\ proof' = [proof EXCEPT ![c] = NoIssue]
    /\ UNCHANGED <<now, users, proof_until, owner, owner_until, issuing, proven>>

\* GETDEL takes the challenge but its answer is lost: the code is spent.
ConsumeLost(v) ==
    /\ VerifyGoes(v, "submitted", "failed")
    /\ ProofLives(verify[v].code) /\ Told(verify[v].code)
    /\ proof' = [proof EXCEPT ![verify[v].code] = NoIssue]
    /\ UNCHANGED <<now, users, proof_until, owner, owner_until, issuing, verify, proven>>

\* GETDEL finds nothing, or fails.
ConsumeNothing(v) ==
    /\ VerifyGoes(v, "submitted", "failed")
    /\ UNCHANGED <<now, users, redis, issuing, verify, proven>>

\* Mutant: the owner key is deleted whatever it names.
NamesAnything(u, c) == TRUE

\* clearVerificationOwnerScript compares before it deletes.
OwnerNames(u, c) == OwnerLives(u) /\ owner[u] = c

\* clearVerificationOwnerScript; its result and its error are ignored.
ClearOwner(v) ==
    /\ VerifyGoes(v, "consumed", "cleared")
    /\ LET u == issue[verify[v].of].user IN
       owner' = [owner EXCEPT ![u] = IF OwnerNames(u, verify[v].code) THEN NoCode ELSE @]
    /\ UNCHANGED <<now, users, proof, proof_until, owner_until, issuing, verify, proven>>

ClearOwnerFails(v) ==
    /\ VerifyGoes(v, "consumed", "cleared")
    /\ UNCHANGED <<now, users, redis, issuing, verify, proven>>

\* Mutant: only the expiry is looked at, not whose email was proven.
ActiveForAnyEmail(v) ==
    LET challenge == issue[verify[v].of] IN
    /\ verify[v].at < challenge.expires
    /\ challenge.user \notin verified

\* The challenge has not expired, and its user still has the email it was
\* issued for and has not been verified since (lines 155-173).
Active(v) ==
    LET challenge == issue[verify[v].of] IN
    /\ verify[v].at < challenge.expires
    /\ challenge.user \notin verified
    /\ email[challenge.user] = challenge.email

\* Verify loads the user and compares.
Check(v) ==
    LET challenge == issue[verify[v].of] IN
    /\ verify_pc[v] = "cleared"
    /\ \/ Active(v) /\ VerifyGoes(v, "cleared", "checked")
       \/ ~Active(v) /\ VerifyGoes(v, "cleared", "failed")
    /\ proven' = [proven EXCEPT ![challenge.user] =
          @ \cup IF verify[v].at < challenge.expires THEN {challenge.email} ELSE {}]
    /\ verify' = [verify EXCEPT ![v].loaded = email[challenge.user]]
    /\ UNCHANGED <<now, users, redis, issuing>>

\* UPDATE ... WHERE id, email = the email just loaded, email_verified = false.
Mark(v) ==
    LET challenge == issue[verify[v].of]
        matches == /\ email[challenge.user] = verify[v].loaded
                   /\ challenge.user \notin verified
    IN
    /\ verify_pc[v] = "checked"
    /\ \/ matches /\ VerifyGoes(v, "checked", "verified")
       \/ matches /\ VerifyGoes(v, "checked", "failed") \* its answer is lost
       \/ ~matches /\ VerifyGoes(v, "checked", "failed")
    /\ verified' = verified \cup IF matches THEN {challenge.user} ELSE {}
    /\ UNCHANGED <<now, email, redis, issuing, verify, proven>>

\* A database error, a cancelled request or a crash: the code stays consumed.
VerifyFails(v) ==
    /\ verify_pc[v] \in {"consumed", "cleared", "checked"}
    /\ verify_pc' = [verify_pc EXCEPT ![v] = "failed"]
    /\ UNCHANGED <<now, users, redis, issuing, verify, proven>>

\* The user's email changes and is unverified again.
ChangeEmail(u, e) ==
    /\ e \notin {email[w] : w \in Users}
    /\ email' = [email EXCEPT ![u] = e]
    /\ verified' = verified \ {u}
    /\ UNCHANGED <<now, redis, issuing, verifying, proven>>

Tick ==
    /\ now < MaxTime
    /\ now' = now + 1
    /\ UNCHANGED <<users, redis, issuing, verifying, proven>>

Next ==
    \/ \E i \in Issues : Request(i) \/ Measure(i) \/ Replace(i) \/ ReplaceAgain(i) \/ ReplaceFails(i)
    \/ \E v \in Verifies :
        \/ \E c \in Codes : Submit(v, c)
        \/ Consume(v) \/ ConsumeLost(v) \/ ConsumeNothing(v) \/ ClearOwner(v) \/ ClearOwnerFails(v)
        \/ Check(v) \/ Mark(v) \/ VerifyFails(v)
    \/ \E u \in Users, e \in Emails : ChangeEmail(u, e)
    \/ Tick

Spec == Init /\ [][Next]_vars

-----------------------------------------------------------------------------

TypeOK ==
    /\ now \in 0..MaxTime
    /\ email \in [Users -> Emails] /\ verified \subseteq Users
    /\ proof \in [Codes -> Issues \cup {NoIssue}]
    /\ proof_until \in [Codes -> Nat]
    /\ owner \in [Users -> Codes \cup {NoCode}]
    /\ owner_until \in [Users -> Nat]
    /\ issue \in [Issues -> [user : Users, email : Emails,
                             code : Codes \cup {NoCode}, expires : Nat]]
    /\ issue_pc \in [Issues -> {"idle", "requested", "measured", "again", "returned"}]
    /\ ttl \in [Issues -> 0..Lifetime]
    /\ verify \in [Verifies -> [code : Codes \cup {NoCode}, at : Nat,
                                of : Issues \cup {NoIssue},
                                loaded : Emails \cup {NoEmail}]]
    /\ verify_pc \in [Verifies -> {"idle", "submitted", "consumed", "cleared",
                                   "checked", "verified", "failed"}]
    /\ proven \in [Users -> SUBSET Emails]

\* A user has at most one live code: a new one replaces the one before, even
\* while that one is being consumed (lines 25-28 and 35-40).
OneLiveCode ==
    \A u \in Users : Cardinality({c \in CodesOf[u] : ProofLives(c)}) <= 1

\* A code is consumed once: of two Verify calls with the same code, one finds
\* the challenge (ARCHITECTURE.md, "OTP challenges ... are consumed once").
ConsumedOnce ==
    \A v, w \in Verifies :
        v # w /\ verify[v].of # NoIssue => verify[v].of # verify[w].of

\* A user's email is verified only if a code issued for that very email was
\* consumed before it expired, whatever happened to the email in between.
VerifiedEmailWasProven == \A u \in verified : email[u] \in proven[u]

\* A code that a newer one replaced is never consumed.
SupersededNeverConsumed ==
    [][\A v \in Verifies, c \in Codes :
         proof[c] # NoIssue /\ proof'[c] = NoIssue /\ verify[v].of # verify'[v].of
           => OwnerLives(issue[proof[c]].user) /\ owner[issue[proof[c]].user] = c]_vars
=============================================================================
