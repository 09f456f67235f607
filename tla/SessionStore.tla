---------------------------- MODULE SessionStore ----------------------------
(***************************************************************************)
(* internal/infra/authentication/session_store.go: postgresSessionStore     *)
(* over PostgreSQL, called by any number of API instances at once.          *)
(*                                                                          *)
(* Create is one transaction per sign-in: begin, advisory lock, insert, the *)
(* capping UPDATE, commit, then the cache deletions.  Every statement is a  *)
(* step of its own, so sign-ins of the same subject interleave with one     *)
(* another, with sign-outs, extensions, rotations and the passing of time.  *)
(* A session is named by its id; the session's row and the Create call that *)
(* writes it are both indexed by that id.                                   *)
(*                                                                          *)
(* PostgreSQL is READ COMMITTED: a statement sees the rows committed when   *)
(* it starts, plus the rows its own transaction wrote.                      *)
(***************************************************************************)
EXTENDS Naturals, FiniteSets

CONSTANTS
    Subjects,               \* Authlier subjects
    Sessions,               \* session ids; their order is ORDER BY id
    Keys,                   \* values of hashtext
    LockKey,                \* hashtext(subject); subjects may collide
    MaximumActiveSessions,  \* maximumActiveSessions
    Lifetime,               \* session lifetime, in clock units
    PoolSize,               \* connections of the pgx pool
    MaxTime,                \* bound: the clock stops here
    Replacements            \* ids that Rotate may use; {} turns rotation off

ASSUME SessionsAssumption == Sessions \subseteq Nat /\ IsFiniteSet(Sessions)
ASSUME LockKeyAssumption == LockKey \in [Subjects -> Keys]
ASSUME LimitAssumption == MaximumActiveSessions \in Nat \ {0}
ASSUME LifetimeAssumption == Lifetime \in Nat \ {0}
ASSUME BoundsAssumption == MaxTime \in Nat /\ PoolSize \in Nat \ {0}
ASSUME ReplacementsAssumption == Replacements \subseteq Sessions

VARIABLES
    clock,       \* wall clock shared by the instances and the database
    subject,     \* subject_id of each session
    created_at,  \* created_at of each session, set when its sign-in started
    expires_at,  \* expires_at of each session
    rows,        \* committed rows of authlier_sessions
    revoked,     \* committed rows whose revoked_at is not null
    pc,          \* where the call that writes the session stands
    victims      \* rows the transaction revokes, later the hashes to delete

vars == <<clock, subject, created_at, expires_at, rows, revoked, pc, victims>>

ProgramPoints ==
    {"idle", "prepared", "begun", "locked", "inserted", "revoking", "revoked",
     "rotating", "committed", "done", "failed"}

\* Mutant: no deferred Rollback, so a failed call keeps its connection.
LeakyTransaction ==
    {"begun", "locked", "inserted", "revoking", "revoked", "rotating", "failed"}

\* Program points inside a transaction: the call holds a pool connection.
InTransaction == {"begun", "locked", "inserted", "revoking", "revoked", "rotating"}

\* Program points at which the advisory lock is held.  It is a transaction
\* lock: commit and rollback release it.
HoldsLock == {"locked", "inserted", "revoking", "revoked"}

\* Program points at which the transaction has row locks on its victims.
HoldsRows == {"revoked", "rotating"}

RowLocked(r) == \E j \in Sessions : pc[j] \in HoldsRows /\ r \in victims[j]

\* Mutant: ORDER BY created_at ASC, id ASC.
Older(r, q) ==
    \/ created_at[r] < created_at[q]
    \/ created_at[r] = created_at[q] /\ r < q

\* ORDER BY created_at DESC, id DESC: r comes before q.
Newer(r, q) ==
    \/ created_at[r] > created_at[q]
    \/ created_at[r] = created_at[q] /\ r > q

\* The sessions a request of subject s is accepted with.
Live(s) ==
    {r \in rows \ revoked : subject[r] = s /\ expires_at[r] > clock}

\* The rows the subquery of the capping UPDATE selects, before OFFSET.
Candidates(i) ==
    {i} \cup {r \in rows \ revoked : /\ subject[r] = subject[i]
                                     /\ expires_at[r] > created_at[i]}

\* Mutant: OFFSET max + 1.
NewestPlusOne(i, keep) ==
    /\ keep \subseteq Candidates(i)
    /\ \A k \in keep, d \in Candidates(i) \ keep : Newer(k, d)
    /\ Cardinality(keep) <= MaximumActiveSessions + 1
    /\ keep # Candidates(i) => Cardinality(keep) = MaximumActiveSessions + 1

\* ORDER BY ... OFFSET max: the max newest candidates are skipped.
Newest(i, keep) ==
    /\ keep \subseteq Candidates(i)
    /\ \A k \in keep, d \in Candidates(i) \ keep : Newer(k, d)
    /\ Cardinality(keep) <= MaximumActiveSessions
    /\ keep # Candidates(i) => Cardinality(keep) = MaximumActiveSessions

Init ==
    /\ clock = 0
    /\ subject \in [Sessions -> Subjects]
    /\ created_at = [i \in Sessions |-> 0]
    /\ expires_at = [i \in Sessions |-> 0]
    /\ rows = {}
    /\ revoked = {}
    /\ pc = [i \in Sessions |-> "idle"]
    /\ victims = [i \in Sessions |-> {}]

Goto(i, from, to) == pc[i] = from /\ pc' = [pc EXCEPT ![i] = to]

\* Authlier builds the record of a new session from the current time and
\* calls Create with it.
Prepare(i) ==
    /\ i \notin Replacements
    /\ Goto(i, "idle", "prepared")
    /\ created_at' = [created_at EXCEPT ![i] = clock]
    /\ expires_at' = [expires_at EXCEPT ![i] = clock + Lifetime]
    /\ UNCHANGED <<clock, subject, rows, revoked, victims>>

\* pool.Begin waits for a connection.
Begin(i) ==
    /\ Cardinality({j \in Sessions : pc[j] \in InTransaction}) < PoolSize
    /\ Goto(i, "prepared", "begun")
    /\ UNCHANGED <<clock, subject, created_at, expires_at, rows, revoked, victims>>

\* Mutant: no advisory lock.
AcquireNoLock(i) ==
    /\ Goto(i, "begun", "locked")
    /\ UNCHANGED <<clock, subject, created_at, expires_at, rows, revoked, victims>>

\* pg_advisory_xact_lock waits while any transaction holds the same key.
AcquireLock(i) ==
    /\ \A j \in Sessions :
          pc[j] \in HoldsLock => LockKey[subject[j]] # LockKey[subject[i]]
    /\ Goto(i, "begun", "locked")
    /\ UNCHANGED <<clock, subject, created_at, expires_at, rows, revoked, victims>>

\* INSERT: the row is visible to this transaction only until it commits.
Insert(i) ==
    /\ Goto(i, "locked", "inserted")
    /\ UNCHANGED <<clock, subject, created_at, expires_at, rows, revoked, victims>>

\* The capping UPDATE starts: its snapshot decides which rows it revokes.
SelectOldest(i) ==
    /\ Goto(i, "inserted", "revoking")
    /\ \E keep \in SUBSET Candidates(i) :
        /\ Newest(i, keep)
        /\ victims' = [victims EXCEPT ![i] = Candidates(i) \ keep]
    /\ UNCHANGED <<clock, subject, created_at, expires_at, rows, revoked>>

\* The capping UPDATE ends: it has waited for transactions that hold the
\* rows and now holds them itself.
RevokeOldest(i) ==
    /\ \A r \in victims[i] : ~RowLocked(r)
    /\ Goto(i, "revoking", "revoked")
    /\ UNCHANGED <<clock, subject, created_at, expires_at, rows, revoked, victims>>

\* Commit publishes the new row and the revocations together.
Commit(i) ==
    /\ Goto(i, "revoked", "committed")
    /\ rows' = rows \cup {i}
    /\ revoked' = revoked \cup victims[i]
    /\ UNCHANGED <<clock, subject, created_at, expires_at, victims>>

\* Commit takes effect but its answer is lost: Create returns an error and
\* deletes nothing from the cache.
CommitLost(i) ==
    /\ Goto(i, "revoked", "failed")
    /\ rows' = rows \cup {i}
    /\ revoked' = revoked \cup victims[i]
    /\ victims' = [victims EXCEPT ![i] = {}]
    /\ UNCHANGED <<clock, subject, created_at, expires_at>>

\* One turn of the loop over the revoked hashes: cache.Delete, whose error is
\* only logged.
DeleteCached(i, r) ==
    /\ pc[i] = "committed"
    /\ r \in victims[i]
    /\ victims' = [victims EXCEPT ![i] = @ \ {r}]
    /\ UNCHANGED <<clock, subject, created_at, expires_at, rows, revoked, pc>>

\* Create returns nil: the sign-in answers with the new session.
Return(i) ==
    /\ victims[i] = {}
    /\ Goto(i, "committed", "done")
    /\ UNCHANGED <<clock, subject, created_at, expires_at, rows, revoked, victims>>

\* A statement fails, the request is cancelled or the instance dies: the
\* deferred Rollback (or PostgreSQL itself) undoes the transaction.  After the
\* commit only the death of the instance cuts the call short.
Fail(i) ==
    /\ pc[i] \in {"prepared", "committed"} \cup InTransaction
    /\ pc' = [pc EXCEPT ![i] = "failed"]
    /\ victims' = [victims EXCEPT ![i] = {}]
    /\ UNCHANGED <<clock, subject, created_at, expires_at, rows, revoked>>

\* The wrapped store, reached through the pass-through methods.

\* Revoke and RevokeAll: one statement, no advisory lock.
Revoke(some) ==
    /\ some # {}
    /\ \A r \in some : ~RowLocked(r)
    /\ revoked' = revoked \cup some
    /\ UNCHANGED <<clock, subject, created_at, expires_at, rows, pc, victims>>

RevokeAll(s) == Revoke({r \in rows \ revoked : subject[r] = s})

\* Extend moves expires_at of a live session.
Extend(r) ==
    /\ r \in Live(subject[r])
    /\ ~RowLocked(r)
    /\ expires_at' = [expires_at EXCEPT ![r] = clock + Lifetime]
    /\ UNCHANGED <<clock, subject, created_at, rows, revoked, pc, victims>>

\* Rotate replaces the live session r by the session j in a transaction of
\* its own, without the advisory lock.
RotateBegin(j, r) ==
    /\ j \in Replacements
    /\ Cardinality({k \in Sessions : pc[k] \in InTransaction}) < PoolSize
    /\ r \in Live(subject[j])
    /\ ~RowLocked(r)
    /\ Goto(j, "idle", "rotating")
    /\ created_at' = [created_at EXCEPT ![j] = clock]
    /\ expires_at' = [expires_at EXCEPT ![j] = clock + Lifetime]
    /\ victims' = [victims EXCEPT ![j] = {r}]
    /\ UNCHANGED <<clock, subject, rows, revoked>>

RotateCommit(j) ==
    /\ Goto(j, "rotating", "committed")
    /\ rows' = rows \cup {j}
    /\ revoked' = revoked \cup victims[j]
    /\ UNCHANGED <<clock, subject, created_at, expires_at, victims>>

Tick ==
    /\ clock < MaxTime
    /\ clock' = clock + 1
    /\ UNCHANGED <<subject, created_at, expires_at, rows, revoked, pc, victims>>

\* Every call has returned.  Deadlock is anything else that cannot move.
Terminated ==
    /\ \A i \in Sessions : pc[i] \in {"done", "failed"} \/ i \in Replacements
    /\ UNCHANGED vars

CreateStep(i) ==
    \/ Begin(i) \/ AcquireLock(i) \/ Insert(i)
    \/ SelectOldest(i) \/ RevokeOldest(i) \/ Commit(i)
    \/ \E r \in Sessions : DeleteCached(i, r)
    \/ Return(i)

Next ==
    \/ \E i \in Sessions :
        \/ Prepare(i) \/ CreateStep(i) \/ CommitLost(i) \/ Fail(i)
        \/ RotateCommit(i)
        \/ Extend(i)
        \/ i \in rows \ revoked /\ Revoke({i})
        \/ \E r \in Sessions : RotateBegin(i, r)
    \/ \E s \in Subjects : RevokeAll(s)
    \/ Tick
    \/ Terminated

Spec == Init /\ [][Next]_vars

\* The instances run, PostgreSQL answers, and a rotation that began ends.  A
\* call is never forced to fail, nor anyone to sign in.
Fairness ==
    \A i \in Sessions : WF_vars(CreateStep(i)) /\ WF_vars(RotateCommit(i))

FairSpec == Spec /\ Fairness

-----------------------------------------------------------------------------

TypeOK ==
    /\ clock \in 0..MaxTime
    /\ subject \in [Sessions -> Subjects]
    /\ created_at \in [Sessions -> Nat]
    /\ expires_at \in [Sessions -> Nat]
    /\ rows \subseteq Sessions
    /\ revoked \subseteq rows
    /\ pc \in [Sessions -> ProgramPoints]
    /\ victims \in [Sessions -> SUBSET Sessions]
    /\ \A i \in Sessions : victims[i] \subseteq rows \cup {i}

\* At most MaximumActiveSessions sessions of a subject are accepted at any
\* instant, whatever the sign-ins that run at once: what the advisory lock of
\* Create is for (session_store.go:89-90).
SessionCap ==
    \A s \in Subjects : Cardinality(Live(s)) <= MaximumActiveSessions

\* No subject's lock key is held by two transactions.
LockExclusive ==
    \A i, j \in Sessions :
        /\ pc[i] \in HoldsLock
        /\ pc[j] \in HoldsLock
        /\ LockKey[subject[i]] = LockKey[subject[j]]
        => i = j

\* A call that has not committed has no row.
UncommittedInvisible ==
    \A i \in Sessions :
        pc[i] \in {"idle", "prepared"} \cup InTransaction => i \notin rows

\* Only Rotate works outside the lock.
OnlyReplacementsRotate ==
    \A i \in Sessions : pc[i] = "rotating" => i \in Replacements

\* What is left once Create commits: the sessions its UPDATE did not choose.
Survivors(i) == (Live(subject[i]) \cup {i}) \ victims[i]

\* From its snapshot until its commit, what a capping UPDATE leaves alive is
\* within the limit and newer than everything it revokes, and it revokes
\* sessions of its own subject only.
ChoiceStands ==
    \A i \in Sessions : pc[i] \in {"revoking", "revoked"} =>
        /\ \E keep \in SUBSET Sessions :
            /\ Cardinality(keep) <= MaximumActiveSessions
            /\ Survivors(i) \subseteq keep
        /\ \A k \in Survivors(i), d \in victims[i] : Newer(k, d)
        /\ \A d \in victims[i] : subject[d] = subject[i]

\* No session comes from the future: a session that is live now was live at
\* every earlier created_at too.
CreatedInPast == \A i \in Sessions : created_at[i] <= clock

\* The inductive invariant behind SessionCap.
CapInvariant ==
    /\ TypeOK
    /\ LockExclusive
    /\ UncommittedInvisible
    /\ OnlyReplacementsRotate
    /\ CreatedInPast
    /\ ChoiceStands
    /\ SessionCap

\* The live sessions as the abstract specification sees them.
Entry(r) == [id |-> r, subject |-> subject[r], created |-> created_at[r]]

ActiveEntries == {Entry(r) : r \in {q \in Sessions : q \in Live(subject[q])}}

Capped == INSTANCE CappedSessions WITH active <- ActiveEntries

\* The transactions implement the atomic sign-in: a session and the eviction
\* it causes become visible together, a failed call leaves no trace, and only
\* the subject's oldest sessions go.
ImplementsCappedSessions == Capped!Spec

\* Every sign-in returns, though it waits for a pool connection, for the
\* advisory lock and for row locks, and though others fail while holding them.
SignInReturns ==
    \A i \in Sessions : pc[i] = "prepared" ~> pc[i] \in {"done", "failed"}
=============================================================================
