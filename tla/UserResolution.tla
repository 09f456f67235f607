---------------------------- MODULE UserResolution ----------------------------
(***************************************************************************)
(* internal/users: the user of an Authlier subject is created by the first   *)
(* request that asks for it.  Requests of one subject race: each reads, and  *)
(* one that finds nothing runs INSERT ... ON CONFLICT DO NOTHING in a        *)
(* statement that then reads the table as it was when the statement began.   *)
(*                                                                          *)
(* PostgreSQL, READ COMMITTED: a statement sees what was committed when it   *)
(* began, except that its INSERT must respect the unique index, where it     *)
(* finds rows committed since, and waits for rows that are not yet.          *)
(***************************************************************************)
EXTENDS Naturals, FiniteSets

CONSTANTS
    Subjects,    \* Authlier subject IDs
    Requests,    \* calls of ResolveUser; each generates a user ID of its own
    SubjectOf,   \* the subject each call asks about
    NoUser

ASSUME SubjectsAssumption == SubjectOf \in [Requests -> Subjects]
ASSUME NoUserAssumption == NoUser \notin Requests

VARIABLES
    users,       \* committed rows: [id, subject]
    inserting,   \* requests whose row is inserted and not yet committed
    seen,        \* the row of its subject each statement began with, if any
    resolve_pc,  \* where each call stands
    answer       \* the user ID each call returned

userVars == <<users, inserting, seen, resolve_pc, answer>>

Rows == [id : Requests, subject : Subjects]

\* ids.New: the ID a call generates is its own, so the call names it.
RowOf(r) == [id |-> r, subject |-> SubjectOf[r]]

UsersInit ==
    /\ users = {} /\ inserting = {}
    /\ seen = [r \in Requests |-> {}]
    /\ resolve_pc = [r \in Requests |-> "idle"]
    /\ answer = [r \in Requests |-> NoUser]

\* The rows of a call's subject in a set of rows.
Found(r, rows) == {row \in rows : row.subject = SubjectOf[r]}

Goes(r, from, to) == resolve_pc[r] = from /\ resolve_pc' = [resolve_pc EXCEPT ![r] = to]

\* The call returns the one row a query gave it.
Answers(r, rows) == \E row \in rows : answer' = [answer EXCEPT ![r] = row.id]

\* GetUserByAuthlierSubjectID, before any write.
Lookup(r) ==
    /\ \/ /\ Found(r, users) # {}
          /\ Goes(r, "idle", "resolved")
          /\ Answers(r, Found(r, users))
       \/ /\ Found(r, users) = {}
          /\ Goes(r, "idle", "missing")
          /\ UNCHANGED answer
    /\ UNCHANGED <<users, inserting, seen>>

\* ResolveUserByAuthlierSubjectID begins: its view of the table is fixed.
BeginUpsert(r) ==
    /\ Goes(r, "missing", "upserting")
    /\ seen' = [seen EXCEPT ![r] = Found(r, users)]
    /\ UNCHANGED <<users, inserting, answer>>

\* The row is inserted: nobody has, or is about to have, a row of the subject.
Insert(r) ==
    /\ Goes(r, "upserting", "inserted")
    /\ Found(r, users \cup {RowOf(q) : q \in inserting}) = {}
    /\ inserting' = inserting \cup {r}
    /\ UNCHANGED <<users, seen, answer>>

\* The statement commits and its row is returned.
CommitUser(r) ==
    /\ Goes(r, "inserted", "resolved")
    /\ users' = users \cup {RowOf(r)}
    /\ inserting' = inserting \ {r}
    /\ Answers(r, {RowOf(r)})
    /\ UNCHANGED seen

\* Mutant: a call whose insert did nothing returns the ID it generated.
AnswerOwn(r) ==
    /\ Goes(r, "upserting", "resolved")
    /\ Found(r, users) # {}
    /\ answer' = [answer EXCEPT ![r] = r]
    /\ UNCHANGED <<users, inserting, seen>>

\* DO NOTHING, because the subject's row is committed by now: the call gets
\* that row if the statement began with it, and no row at all if it did not.
Conflict(r) ==
    /\ Found(r, users) # {}
    /\ \/ /\ seen[r] # {}
          /\ Goes(r, "upserting", "resolved")
          /\ Answers(r, seen[r])
       \/ /\ seen[r] = {}
          /\ Goes(r, "upserting", "overtaken")
          /\ UNCHANGED answer
    /\ UNCHANGED <<users, inserting, seen>>

\* Mutant: pgx.ErrNoRows is an error like any other.
NoReread(r) ==
    /\ Goes(r, "overtaken", "not found")
    /\ UNCHANGED <<users, inserting, seen, answer>>

\* pgx.ErrNoRows: the row is read once more, by a statement of its own.
Reread(r) ==
    LET found == Found(r, users) IN
    /\ Goes(r, "overtaken", IF found # {} THEN "resolved" ELSE "not found")
    /\ IF found # {} THEN Answers(r, found) ELSE UNCHANGED answer
    /\ UNCHANGED <<users, inserting, seen>>

\* Mutant: the statement of a request that failed is never undone.
FailsHoldingRow(r) ==
    /\ resolve_pc[r] \in {"idle", "missing", "upserting", "inserted", "overtaken"}
    /\ resolve_pc' = [resolve_pc EXCEPT ![r] = "failed"]
    /\ UNCHANGED <<users, inserting, seen, answer>>

\* A database error or a cancelled request; a row not committed is undone.
ResolveFails(r) ==
    /\ resolve_pc[r] \in {"idle", "missing", "upserting", "inserted", "overtaken"}
    /\ resolve_pc' = [resolve_pc EXCEPT ![r] = "failed"]
    /\ inserting' = inserting \ {r}
    /\ UNCHANGED <<users, seen, answer>>

\* The row is committed but the reply is lost.
CommitUserLost(r) ==
    /\ Goes(r, "inserted", "failed")
    /\ users' = users \cup {RowOf(r)}
    /\ inserting' = inserting \ {r}
    /\ UNCHANGED <<seen, answer>>

\* What ResolveUser does by itself, without the failures.
Proceeds(r) ==
    Lookup(r) \/ BeginUpsert(r) \/ Insert(r) \/ CommitUser(r) \/ Conflict(r) \/ Reread(r)

UsersNext ==
    \E r \in Requests : Proceeds(r) \/ ResolveFails(r) \/ CommitUserLost(r)

-----------------------------------------------------------------------------

\* A call is never told that the user it was overtaken by does not exist: what
\* made its insert do nothing is committed before the second read begins
\* (user.repository.go:45-53).
NeverNotFound == \A r \in Requests : resolve_pc[r] # "not found"

\* The interleaved queries implement the directory: one user per subject, and
\* every call is told that one (user.repository.go:22-63, users.sql).
directory ==
    [s \in Subjects |->
        IF \E row \in users : row.subject = s
        THEN (CHOOSE row \in users : row.subject = s).id
        ELSE NoUser]

Directory == INSTANCE UserDirectory WITH Users <- Requests
ImplementsDirectory == Directory!Spec
=============================================================================
