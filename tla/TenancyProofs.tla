---------------------------- MODULE TenancyProofs ----------------------------
(***************************************************************************)
(* Proofs about user resolution and tenancy for any number of subjects,       *)
(* requests and creations.                                                     *)
(***************************************************************************)
EXTENDS Tenancy, TLAPS

Waiting == {"idle", "missing", "upserting", "inserted", "overtaken"}
Answered == {"resolved", "tenant"}

\* The rows that are committed or about to be have distinct subjects and are each
\* that of the call they are named for; a statement that began with a row keeps
\* it, and one that was overtaken finds one.
UserRows ==
    /\ users \subseteq Rows /\ inserting \subseteq Requests
    /\ \A row \in users : row.subject = SubjectOf[row.id]
    /\ \A a, b \in users : a.subject = b.subject => a = b
    /\ \A q \in inserting : Found(q, users) = {}
    /\ \A p, q \in inserting : SubjectOf[p] = SubjectOf[q] => p = q

UserCalls ==
    /\ resolve_pc \in [Requests -> Waiting \cup Answered \cup {"failed"}]
    /\ answer \in [Requests -> Requests \cup {NoUser}]
    /\ seen \in [Requests -> SUBSET Rows]
    /\ \A r \in Requests :
        /\ r \in inserting <=> resolve_pc[r] = "inserted"
        /\ seen[r] \subseteq Found(r, users)
        /\ resolve_pc[r] = "overtaken" => Found(r, users) # {}
        /\ resolve_pc[r] \in Waiting => answer[r] = NoUser

UserInvariant == UserRows /\ UserCalls

-----------------------------------------------------------------------------

\* Nobody has a user to begin with.
LEMMA InitUsers == UsersInit => UserInvariant
  BY DEF UsersInit, UserInvariant, UserRows, UserCalls, Found, Waiting, Answered

\* A call's own row.
LEMMA OwnRow ==
    ASSUME NEW r \in Requests
    PROVE  RowOf(r) \in Rows /\ RowOf(r).id = r /\ RowOf(r).subject = SubjectOf[r]
  BY SubjectsAssumption DEF RowOf, Rows

\* A row that is committed was the only one of its subject.
LEMMA CommitKeeps ==
    ASSUME UserInvariant, NEW r \in Requests, NEW pc \in Answered \cup {"failed"},
           resolve_pc[r] = "inserted", resolve_pc' = [resolve_pc EXCEPT ![r] = pc],
           users' = users \cup {RowOf(r)}, inserting' = inserting \ {r}, seen' = seen,
           answer' = answer \/ answer' = [answer EXCEPT ![r] = r]
    PROVE  UserInvariant'
<1> USE DEF UserInvariant, UserRows, UserCalls, Found, Waiting, Answered
<1>1. r \in inserting
  OBVIOUS
<1>2. UserRows'
  BY <1>1, OwnRow
<1>3. UserCalls'
  BY <1>1, OwnRow
<1> QED
  BY <1>2, <1>3

\* Every query of user resolution keeps subjects and users one to one.
LEMMA NextUsers == UserInvariant /\ UsersNext => UserInvariant'
<1> SUFFICES ASSUME UserInvariant, NEW r \in Requests,
                    Proceeds(r) \/ ResolveFails(r) \/ CommitUserLost(r)
             PROVE  UserInvariant'
  BY DEF UsersNext
<1> USE DEF UserInvariant, UserRows, UserCalls, Found, Waiting, Answered
<1>1. CASE Lookup(r)
  BY <1>1, SubjectsAssumption DEF Lookup, Goes, Answers, Rows
<1>2. CASE BeginUpsert(r)
  BY <1>2 DEF BeginUpsert, Goes
<1>3. CASE Insert(r)
  <2>1. /\ resolve_pc[r] = "upserting" /\ resolve_pc' = [resolve_pc EXCEPT ![r] = "inserted"]
        /\ inserting' = inserting \cup {r} /\ UNCHANGED <<users, seen, answer>>
    BY <1>3 DEF Insert, Goes
  <2>2. \A row \in users : row.subject # SubjectOf[r]
    BY <1>3 DEF Insert
  <2>3. \A q \in inserting : SubjectOf[q] # SubjectOf[r]
    BY <1>3, OwnRow DEF Insert
  <2> QED
    BY <2>1, <2>2, <2>3
<1>4. CASE CommitUser(r)
  <2>1. answer' = [answer EXCEPT ![r] = r]
    BY <1>4, OwnRow DEF CommitUser, Answers
  <2> QED
    BY <1>4, <2>1, CommitKeeps DEF CommitUser, Goes
<1>5. CASE Conflict(r)
  BY <1>5, SubjectsAssumption DEF Conflict, Goes, Answers, Rows
<1>6. CASE Reread(r)
  BY <1>6, SubjectsAssumption DEF Reread, Goes, Answers, Rows
<1>7. CASE ResolveFails(r)
  BY <1>7 DEF ResolveFails
<1>8. CASE CommitUserLost(r)
  BY <1>8, CommitKeeps DEF CommitUserLost, Goes
<1> QED
  BY <1>1, <1>2, <1>3, <1>4, <1>5, <1>6, <1>7, <1>8 DEF Proceeds

\* Nothing else writes the users table.
LEMMA NextUserInvariant == UserInvariant /\ [Next]_vars => UserInvariant'
<1> SUFFICES ASSUME UserInvariant, [Next]_vars PROVE UserInvariant'
  OBVIOUS
<1> USE DEF UserInvariant, UserRows, UserCalls, Found, Waiting, Answered
<1>1. CASE UsersNext
  BY <1>1, NextUsers
<1>2. CASE UNCHANGED userVars
  BY <1>2 DEF userVars
<1>3. ASSUME NEW r \in Requests, ListAccess(r) \/ ListAccessFails(r) PROVE UserInvariant'
  BY <1>3 DEF ListAccess, ListAccessFails, Goes
<1>4. ASSUME NEW c \in Creations,
             \/ BeginCreation(c) \/ InsertRow(c) \/ CommitCreation(c)
             \/ CommitCreationLost(c) \/ CreationFails(c)
      PROVE  UNCHANGED userVars
  BY <1>4 DEF BeginCreation, InsertRow, CommitCreation, CommitCreationLost, CreationFails
<1>5. ASSUME NEW row \in rows, SetColumn(row) \/ Reinstate(row) PROVE UNCHANGED userVars
  BY <1>5 DEF SetColumn, Reinstate
<1>6. CASE UNCHANGED vars
  BY <1>6, <1>2 DEF vars
<1> QED
  BY <1>1, <1>2, <1>3, <1>4, <1>5, <1>6 DEF Next

\* A subject never has two users, committed or about to be, and no call is misled
\* about them (user.repository.go:22-63, users.sql:1-14).
THEOREM UsersAreOne == Spec => []UserInvariant
<1>1. Init => UserInvariant
  BY InitUsers DEF Init
<1> QED
  BY <1>1, NextUserInvariant, PTL DEF Spec

\* A call whose insert did nothing always finds the row that overtook it, however
\* many calls of a subject race (user.repository.go:45-53).
THEOREM AlwaysFound == Spec => []NeverNotFound
<1>1. UserInvariant => NeverNotFound
  BY DEF UserInvariant, UserCalls, NeverNotFound, Waiting, Answered
<1> QED
  BY <1>1, UsersAreOne, PTL

-----------------------------------------------------------------------------

\* The directory names the user of a row, and nobody where there is no row.
LEMMA DirectoryOfRow ==
    ASSUME UserRows, NEW row \in users
    PROVE  directory[row.subject] = row.id
<1>1. row.subject \in Subjects
  BY DEF UserRows, Rows
<1>2. (CHOOSE x \in users : x.subject = row.subject) = row
  BY DEF UserRows
<1> QED
  BY <1>1, <1>2 DEF directory

\* A subject without a row has no user.
LEMMA DirectoryOfNone ==
    ASSUME NEW s \in Subjects, \A row \in users : row.subject # s
    PROVE  directory[s] = NoUser
  BY DEF directory

\* The commit of a row is the registration of its subject.
LEMMA DirectoryCommit ==
    ASSUME UserInvariant, NEW r \in Requests, r \in inserting,
           users' = users \cup {RowOf(r)}, UserRows'
    PROVE  /\ Directory!Register(SubjectOf[r], r)
           /\ directory'[SubjectOf[r]] = r
<1>1. SubjectOf[r] \in Subjects /\ \A row \in users : row.subject # SubjectOf[r]
  BY SubjectsAssumption DEF UserInvariant, UserRows, Found
<1>2. directory[SubjectOf[r]] = NoUser
  BY <1>1, DirectoryOfNone
<1>3. ASSUME NEW t \in Subjects PROVE directory[t] # r
  <2>1. CASE \E row \in users : row.subject = t
    <3>1. PICK row \in users : row.subject = t
      BY <2>1
    <3>2. directory[t] = row.id
      BY <3>1, DirectoryOfRow DEF UserInvariant
    <3> QED
      BY <3>1, <3>2, <1>1 DEF UserInvariant, UserRows
  <2>2. CASE \A row \in users : row.subject # t
    BY <2>2, DirectoryOfNone, NoUserAssumption
  <2> QED
    BY <2>1, <2>2
<1>4. ASSUME NEW t \in Subjects
      PROVE  directory'[t] = IF t = SubjectOf[r] THEN r ELSE directory[t]
  <2>1. CASE t = SubjectOf[r]
    <3>1. \A x \in users' : x.subject = t => x = RowOf(r)
      BY <2>1, <1>1
    <3>2. RowOf(r) \in users' /\ RowOf(r).subject = t /\ RowOf(r).id = r
      BY <2>1, OwnRow
    <3>3. (CHOOSE x \in users' : x.subject = t) = RowOf(r)
      BY <3>1, <3>2
    <3> QED
      BY <2>1, <3>2, <3>3 DEF directory
  <2>2. CASE t # SubjectOf[r]
    <3>1. \A x : x \in users' /\ x.subject = t <=> x \in users /\ x.subject = t
      BY <2>2, OwnRow
    <3>2. CASE \E x \in users : x.subject = t
      <4>1. PICK x \in users : x.subject = t
        BY <3>2
      <4>2. (CHOOSE y \in users' : y.subject = t) = x
        BY <3>1, <4>1 DEF UserRows
      <4>3. directory[t] = x.id
        BY <4>1, DirectoryOfRow DEF UserInvariant
      <4>4. x \in users'
        OBVIOUS
      <4> QED
        BY <2>2, <4>1, <4>2, <4>3, <4>4 DEF directory
    <3>3. CASE \A x \in users : x.subject # t
      BY <2>2, <3>1, <3>3 DEF directory
    <3> QED
      BY <3>2, <3>3
  <2> QED
    BY <2>1, <2>2
<1>5. directory' = [directory EXCEPT ![SubjectOf[r]] = r]
  BY <1>1, <1>4 DEF directory
<1>6. directory'[SubjectOf[r]] = r
  BY <1>1, <1>4
<1>7. r \notin {directory[t] : t \in Subjects}
  BY <1>3
<1>8. Directory!Register(SubjectOf[r], r)
  BY <1>2, <1>5, <1>7 DEF Directory!Register
<1> QED
  BY <1>6, <1>8

\* A call that is answered from a row resolves its subject to that row's user.
LEMMA AnswersResolve ==
    ASSUME UserInvariant, NEW r \in Requests, resolve_pc[r] \in Waiting,
           NEW rows_found \in SUBSET Found(r, users), Answers(r, rows_found),
           UNCHANGED users
    PROVE  Directory!Resolve(r)
<1>1. PICK row \in rows_found : answer' = [answer EXCEPT ![r] = row.id]
  BY DEF Answers
<1>2. row \in users /\ row.subject = SubjectOf[r]
  BY <1>1 DEF Found
<1>3. directory[SubjectOf[r]] = row.id
  BY <1>2, DirectoryOfRow DEF UserInvariant
<1>4. row.id # NoUser
  BY <1>2, NoUserAssumption DEF UserInvariant, UserRows, Rows
<1>5. UNCHANGED directory
  BY DEF directory
<1>6. answer[r] = NoUser
  BY DEF UserInvariant, UserCalls
<1> QED
  BY <1>1, <1>3, <1>4, <1>5, <1>6 DEF Directory!Resolve

\* Each step of the queries is a step of the directory, or none.
LEMMA StepResolves ==
    UserInvariant /\ UserInvariant' /\ [Next]_vars => [Directory!Next]_<<directory, answer>>
<1> SUFFICES ASSUME UserInvariant, UserInvariant', [Next]_vars
             PROVE  Directory!Next \/ UNCHANGED <<directory, answer>>
  OBVIOUS
<1>1. ASSUME NEW r \in Requests, Lookup(r)
      PROVE  Directory!Next \/ UNCHANGED <<directory, answer>>
  <2>1. CASE Found(r, users) # {}
    BY <1>1, <2>1, AnswersResolve DEF Lookup, Goes, Waiting, Directory!Next
  <2>2. CASE Found(r, users) = {}
    BY <1>1, <2>2 DEF Lookup, directory
  <2> QED
    BY <2>1, <2>2
<1>2. ASSUME NEW r \in Requests, BeginUpsert(r) \/ Insert(r) \/ ResolveFails(r)
      PROVE  UNCHANGED <<directory, answer>>
  BY <1>2 DEF BeginUpsert, Insert, ResolveFails, directory
<1>3. ASSUME NEW r \in Requests, CommitUser(r) PROVE Directory!Next
  <2>1. r \in inserting /\ answer[r] = NoUser /\ answer' = [answer EXCEPT ![r] = r]
    BY <1>3, OwnRow DEF CommitUser, Goes, Answers, UserInvariant, UserCalls, Waiting
  <2>2. Directory!Register(SubjectOf[r], r) /\ directory'[SubjectOf[r]] = r
    BY <1>3, <2>1, DirectoryCommit DEF CommitUser, UserInvariant
  <2>3. Directory!Resolve(r)
    BY <2>1, <2>2 DEF Directory!Resolve
  <2> QED
    BY <2>3 DEF Directory!Next
<1>4. ASSUME NEW r \in Requests, Conflict(r)
      PROVE  Directory!Next \/ UNCHANGED <<directory, answer>>
  <2>1. CASE seen[r] # {}
    <3>1. seen[r] \subseteq Found(r, users) /\ resolve_pc[r] \in Waiting
      BY <1>4 DEF Conflict, Goes, Waiting, UserInvariant, UserCalls
    <3> QED
      BY <1>4, <2>1, <3>1, AnswersResolve DEF Conflict, Directory!Next
  <2>2. CASE seen[r] = {}
    BY <1>4, <2>2 DEF Conflict, directory
  <2> QED
    BY <2>1, <2>2
<1>5. ASSUME NEW r \in Requests, Reread(r)
      PROVE  Directory!Next \/ UNCHANGED <<directory, answer>>
  <2>1. CASE Found(r, users) # {}
    BY <1>5, <2>1, AnswersResolve DEF Reread, Goes, Waiting, Directory!Next
  <2>2. CASE Found(r, users) = {}
    BY <1>5, <2>2 DEF Reread, directory
  <2> QED
    BY <2>1, <2>2
<1>6. ASSUME NEW r \in Requests, CommitUserLost(r) PROVE Directory!Next
  <2>1. r \in inserting /\ UNCHANGED answer /\ SubjectOf[r] \in Subjects
    BY <1>6, SubjectsAssumption DEF CommitUserLost, Goes, UserInvariant, UserCalls
  <2>2. Directory!Register(SubjectOf[r], r)
    BY <1>6, <2>1, DirectoryCommit DEF CommitUserLost, UserInvariant
  <2> QED
    BY <2>1, <2>2 DEF Directory!Orphan, Directory!Next
<1>7. ASSUME NEW r \in Requests, ListAccess(r) \/ ListAccessFails(r)
      PROVE  UNCHANGED <<directory, answer>>
  BY <1>7 DEF ListAccess, ListAccessFails, directory
<1>8. CASE UNCHANGED userVars
  BY <1>8 DEF userVars, directory
<1>9. ASSUME NEW c \in Creations,
             \/ BeginCreation(c) \/ InsertRow(c) \/ CommitCreation(c)
             \/ CommitCreationLost(c) \/ CreationFails(c)
      PROVE  UNCHANGED userVars
  BY <1>9 DEF BeginCreation, InsertRow, CommitCreation, CommitCreationLost, CreationFails
<1>10. ASSUME NEW row \in rows, SetColumn(row) \/ Reinstate(row) PROVE UNCHANGED userVars
  BY <1>10 DEF SetColumn, Reinstate
<1>11. CASE UNCHANGED vars
  BY <1>11, <1>8 DEF vars
<1> QED
  BY <1>1, <1>2, <1>3, <1>4, <1>5, <1>6, <1>7, <1>8, <1>9, <1>10, <1>11
     DEF Next, UsersNext, Proceeds

\* The interleaved statements of user resolution implement the directory in which
\* a subject is registered once and every call is told the same user
\* (user.repository.go:22-63, users.sql).
THEOREM ResolutionIsADirectory == Spec => ImplementsDirectory
<1>1. Init => Directory!Init
  BY DEF Init, UsersInit, Directory!Init, directory
<1> QED
  BY <1>1, StepResolves, UsersAreOne, PTL DEF Spec, ImplementsDirectory, Directory!Spec, Directory!vars
-----------------------------------------------------------------------------

\* The rows a creation is to insert.
Planned(c) == {Plan(c)[i] : i \in 1..Len(Plan(c))}

\* An open transaction has inserted the first rows of its plan, in order; the
\* other creations have none.
CreationInvariant ==
    /\ create_pc = [c \in Creations |-> create_pc[c]]
    /\ on = [c \in Creations |-> on[c]]
    /\ written = [c \in Creations |-> written[c]]
    /\ \A c \in Creations :
        /\ create_pc[c] # "open" => written[c] = <<>>
        /\ written[c] \in Seq(Planned(c))
        /\ \A i \in 1..Len(written[c]) : i <= Len(Plan(c)) /\ written[c][i] = Plan(c)[i]

\* Rows are never taken back, and only whole plans are added.
WholeStep ==
    rows' = rows \/ \E c \in Creations : rows' = rows \cup Planned(c)

\* An organization takes four rows, a project three.
LEMMA PlanLength ==
    ASSUME NEW c \in Creations PROVE Len(Plan(c)) = IF c \in Organizations THEN 4 ELSE 3
  BY DEF Plan

\* What a creation is to insert is settled when it begins.
LEMMA PlanStays ==
    ASSUME NEW c \in Creations, on'[c] = on[c] PROVE Plan(c)' = Plan(c) /\ Planned(c)' = Planned(c)
<1>1. Plan(c)' = Plan(c)
  BY DEF Plan
<1> QED
  BY <1>1 DEF Planned

\* A transaction inserts the next row of its plan or ends, committing all or none.
LEMMA CreationSteps ==
    ASSUME CreationInvariant, [Next]_vars PROVE CreationInvariant' /\ WholeStep
<1>1. ASSUME UNCHANGED <<rows, create_pc, on, written>> PROVE CreationInvariant' /\ WholeStep
  BY <1>1, PlanStays DEF CreationInvariant, WholeStep
<1>2. ASSUME NEW c \in Creations, BeginCreation(c) PROVE CreationInvariant' /\ WholeStep
  <2>1. /\ create_pc[c] = "idle" /\ create_pc' = [create_pc EXCEPT ![c] = "open"]
        /\ UNCHANGED <<rows, written>> /\ \E x : on' = [on EXCEPT ![c] = x]
    BY <1>2 DEF BeginCreation, CreateGoes
  <2>2. written[c] = <<>>
    BY <2>1 DEF CreationInvariant
  <2>3. \A d \in Creations : d # c => Plan(d)' = Plan(d) /\ Planned(d)' = Planned(d)
    BY <2>1, PlanStays DEF CreationInvariant
  <2>4. create_pc' = [d \in Creations |-> create_pc'[d]] /\ on' = [d \in Creations |-> on'[d]]
    BY <2>1 DEF CreationInvariant
  <2> QED
    BY <2>1, <2>2, <2>3, <2>4 DEF CreationInvariant, WholeStep
<1>3. ASSUME NEW c \in Creations, InsertRow(c) PROVE CreationInvariant' /\ WholeStep
  <2> DEFINE row == Plan(c)[Len(written[c]) + 1]
  <2>1. /\ create_pc[c] = "open" /\ Len(written[c]) < Len(Plan(c))
        /\ written' = [written EXCEPT ![c] = Append(@, row)]
        /\ UNCHANGED <<rows, create_pc, on>>
    BY <1>3 DEF InsertRow
  <2>2. \A d \in Creations : Plan(d)' = Plan(d) /\ Planned(d)' = Planned(d)
    BY <2>1, PlanStays
  <2>3. written[c] \in Seq(Planned(c)) /\ row \in Planned(c)
    BY <2>1, PlanLength DEF CreationInvariant, Planned
  <2>4. /\ Append(written[c], row) \in Seq(Planned(c))
        /\ Len(Append(written[c], row)) = Len(written[c]) + 1
        /\ \A i \in 1..Len(written[c]) + 1 :
            Append(written[c], row)[i] = IF i <= Len(written[c]) THEN written[c][i] ELSE row
    BY <2>3
  <2>5. \A i \in 1..Len(written[c]) + 1 :
            i <= Len(Plan(c)) /\ Append(written[c], row)[i] = Plan(c)[i]
    BY <2>1, <2>3, <2>4, PlanLength DEF CreationInvariant
  <2>6. /\ written' = [d \in Creations |-> written'[d]]
        /\ written'[c] = Append(written[c], row)
        /\ \A d \in Creations : d # c => written'[d] = written[d]
    BY <2>1 DEF CreationInvariant
  <2> HIDE DEF row
  <2>7. ASSUME NEW d \in Creations
        PROVE  /\ create_pc'[d] # "open" => written'[d] = <<>>
               /\ written'[d] \in Seq(Planned(d))
               /\ \A i \in 1..Len(written'[d]) : i <= Len(Plan(d)) /\ written'[d][i] = Plan(d)[i]
    <3>1. CASE d = c
      BY <3>1, <2>1, <2>4, <2>5, <2>6
    <3>2. CASE d # c
      BY <3>2, <2>1, <2>6 DEF CreationInvariant
    <3> QED
      BY <3>1, <3>2
  <2> QED
    BY <2>1, <2>2, <2>6, <2>7 DEF CreationInvariant, WholeStep
<1>4. ASSUME NEW c \in Creations, CommitCreation(c) \/ CommitCreationLost(c) \/ CreationFails(c)
      PROVE  CreationInvariant'
  <2>1. /\ \E to \in {"created", "failed"} : create_pc' = [create_pc EXCEPT ![c] = to]
        /\ written' = [written EXCEPT ![c] = <<>>] /\ on' = on
    BY <1>4 DEF CommitCreation, CommitCreationLost, CreationFails, CreateGoes
  <2>2. \A d \in Creations : Plan(d)' = Plan(d) /\ Planned(d)' = Planned(d)
    BY <2>1, PlanStays
  <2>3. /\ create_pc' = [d \in Creations |-> create_pc'[d]]
        /\ written' = [d \in Creations |-> written'[d]]
        /\ written'[c] = <<>>
        /\ \A d \in Creations : d # c => create_pc'[d] = create_pc[d] /\ written'[d] = written[d]
    BY <2>1 DEF CreationInvariant
  <2> QED
    BY <2>1, <2>2, <2>3 DEF CreationInvariant
<1>5. ASSUME NEW c \in Creations, CommitCreation(c) \/ CommitCreationLost(c) \/ CreationFails(c)
      PROVE  WholeStep
  <2>1. CASE CreationFails(c)
    BY <2>1 DEF CreationFails, WholeStep
  <2>2. CASE CommitCreation(c) \/ CommitCreationLost(c)
    <3>1. Len(written[c]) = Len(Plan(c)) /\ rows' = rows \cup Inserted(c)
      BY <2>2 DEF CommitCreation, CommitCreationLost
    <3>2. DOMAIN written[c] = 1..Len(Plan(c))
      BY <3>1 DEF CreationInvariant
    <3>3. Inserted(c) = Planned(c)
      <4>1. \A i \in 1..Len(Plan(c)) : written[c][i] = Plan(c)[i]
        BY <3>1 DEF CreationInvariant
      <4> QED
        BY <3>2, <4>1 DEF Inserted, Planned
    <3> QED
      BY <3>1, <3>3 DEF WholeStep
  <2> QED
    BY <1>5, <2>1, <2>2
<1>6. ASSUME NEW r \in Requests, ListAccess(r) \/ ListAccessFails(r)
      PROVE  UNCHANGED <<rows, create_pc, on, written>>
  BY <1>6 DEF ListAccess, ListAccessFails, tenancyVars
<1>7. ASSUME NEW row \in rows, SetColumn(row) \/ Reinstate(row)
      PROVE  UNCHANGED <<rows, create_pc, on, written>>
  BY <1>7 DEF SetColumn, Reinstate
<1>8. CASE UNCHANGED tenancyVars \/ UNCHANGED vars
  BY <1>8, <1>1 DEF tenancyVars, vars
<1> QED
  BY <1>1, <1>2, <1>3, <1>4, <1>5, <1>6, <1>7, <1>8 DEF Next

\* The rows of a plan, one by one.
LEMMA PlanRows ==
    ASSUME NEW c
    PROVE  Planned(c) =
              IF c \in Organizations
              THEN {Organization(c, on[c]), Role(c, "admin"), Role(c, "developer"),
                    Membership(c, on[c], "admin")}
              ELSE {Project(c, on[c]), Environment(c, "sandbox", TRUE),
                    Environment(c, "live", FALSE)}
<1>1. CASE c \in Organizations
  <2>1. Len(Plan(c)) = 4 /\ 1..4 = {1, 2, 3, 4}
    BY <1>1 DEF Plan
  <2>2. /\ Plan(c)[1] = Organization(c, on[c]) /\ Plan(c)[2] = Role(c, "admin")
        /\ Plan(c)[3] = Role(c, "developer") /\ Plan(c)[4] = Membership(c, on[c], "admin")
    BY <1>1 DEF Plan
  <2> QED
    BY <1>1, <2>1, <2>2 DEF Planned
<1>2. CASE c \notin Organizations
  <2>1. Len(Plan(c)) = 3 /\ 1..3 = {1, 2, 3}
    BY <1>2 DEF Plan
  <2>2. /\ Plan(c)[1] = Project(c, on[c]) /\ Plan(c)[2] = Environment(c, "sandbox", TRUE)
        /\ Plan(c)[3] = Environment(c, "live", FALSE)
    BY <1>2 DEF Plan
  <2> QED
    BY <1>2, <2>1, <2>2 DEF Planned
<1> QED
  BY <1>1, <1>2

\* A plan is whole by itself, and rows that are whole stay so among more.
LEMMA WholeStays == VisibleIsWhole /\ WholeStep => VisibleIsWhole'
<1> SUFFICES ASSUME VisibleIsWhole, WholeStep PROVE VisibleIsWhole'
  OBVIOUS
<1>1. CASE rows' = rows
  BY <1>1 DEF VisibleIsWhole
<1>2. ASSUME NEW c \in Creations, rows' = rows \cup Planned(c)
      PROVE  VisibleIsWhole'
  <2> DEFINE Whole(row) ==
        /\ row.table = "organizations" =>
            /\ {Role(row.id, "admin"), Role(row.id, "developer")} \subseteq rows'
            /\ Membership(row.id, row.owner, "admin") \in rows'
        /\ row.table = "projects" =>
            {Environment(row.id, "sandbox", TRUE), Environment(row.id, "live", FALSE)} \subseteq rows'
  <2>1. ASSUME NEW row \in rows PROVE Whole(row)
    BY <1>2 DEF VisibleIsWhole
  <2>2. ASSUME NEW row \in Planned(c) PROVE Whole(row)
    <3>1. CASE row.table = "organizations"
      <4>1. c \in Organizations /\ row = Organization(c, on[c])
        BY <2>2, <3>1, PlanRows DEF Organization, Role, Membership, Project, Environment
      <4>2. row.id = c /\ row.owner = on[c]
        BY <4>1 DEF Organization
      <4> QED
        BY <1>2, <3>1, <4>1, <4>2, PlanRows
    <3>2. CASE row.table = "projects"
      <4>1. c \notin Organizations /\ row = Project(c, on[c])
        BY <2>2, <3>2, PlanRows DEF Organization, Role, Membership, Project, Environment
      <4>2. row.id = c
        BY <4>1 DEF Project
      <4> QED
        BY <1>2, <3>2, <4>1, <4>2, PlanRows
    <3> QED
      BY <3>1, <3>2
  <2>3. \A row \in rows' : Whole(row)
    BY <1>2, <2>1, <2>2
  <2> QED
    BY <2>3 DEF VisibleIsWhole, Role, Membership, Environment
<1> QED
  BY <1>1, <1>2 DEF WholeStep

\* No organization is ever visible without its roles and its owner's membership,
\* and no project without its environments, for any number of creations that run
\* at once and fail anywhere, their commit's answer included
\* (organization.repository.go:26-78, project.repository.go:24-66).
THEOREM OnlyWholeIsVisible == Spec => []VisibleIsWhole
<1>1. Init => CreationInvariant /\ VisibleIsWhole
  <2> SUFFICES ASSUME Init PROVE CreationInvariant /\ VisibleIsWhole
    OBVIOUS
  <2>1. \A c \in Creations : create_pc[c] = "idle" /\ written[c] = <<>>
    BY DEF Init
  <2> QED
    BY <2>1 DEF Init, CreationInvariant, VisibleIsWhole
<1>2. CreationInvariant /\ VisibleIsWhole /\ [Next]_vars => (CreationInvariant /\ VisibleIsWhole)'
  BY CreationSteps, WholeStays
<1> QED
  BY <1>1, <1>2, PTL DEF Spec

-----------------------------------------------------------------------------

\* What a commit adds is the plan.
LEMMA CommitWritesPlan ==
    ASSUME CreationInvariant, NEW c \in Creations, CommitCreation(c)
    PROVE  rows' = rows \cup Planned(c)
<1>1. Len(written[c]) = Len(Plan(c)) /\ rows' = rows \cup Inserted(c)
  BY DEF CommitCreation
<1>2. DOMAIN written[c] = 1..Len(Plan(c))
  BY <1>1 DEF CreationInvariant
<1>3. \A i \in 1..Len(Plan(c)) : written[c][i] = Plan(c)[i]
  BY <1>1 DEF CreationInvariant
<1> QED
  BY <1>1, <1>2, <1>3 DEF Inserted, Planned

\* A call that has its answer was told the user of its subject; an owner is a user
\* with a row; and what was reported created is there.
AnswerGiven(r) ==
    resolve_pc[r] \in Answered => \E row \in Found(r, users) : answer[r] = row.id

OwnerKnown(o) == create_pc[o] # "idle" => \E row \in users : on[o] = row.id

CreatedStands(o) ==
    create_pc[o] = "created" =>
        {Organization(o, on[o]), Role(o, "admin"), Membership(o, on[o], "admin")} \subseteq rows

AccessInvariant ==
    /\ access = [r \in Requests |-> access[r]]
    /\ \A r \in Requests : AnswerGiven(r)
    /\ \A o \in Organizations : OwnerKnown(o) /\ CreatedStands(o)

\* Rows are never taken back.
LEMMA UsersStay ==
    ASSUME UserInvariant, UsersNext
    PROVE  users \subseteq users'
<1>1. PICK r \in Requests : Proceeds(r) \/ ResolveFails(r) \/ CommitUserLost(r)
  BY DEF UsersNext
<1> QED
  BY <1>1 DEF Proceeds, Lookup, BeginUpsert, Insert, CommitUser, Conflict, Reread, ResolveFails, CommitUserLost

\* A call is told what a query found, and what was found stays.
LEMMA AnswersGiven ==
    ASSUME UserInvariant, UserInvariant', AccessInvariant, UsersNext
    PROVE  \A r \in Requests : AnswerGiven(r)'
<1>1. PICK q \in Requests : Proceeds(q) \/ ResolveFails(q) \/ CommitUserLost(q)
  BY DEF UsersNext
<1>2. users \subseteq users'
  BY UsersStay
<1>3. ASSUME NEW r \in Requests, r # q PROVE AnswerGiven(r)'
  <2>1. resolve_pc'[r] = resolve_pc[r] /\ answer'[r] = answer[r]
    <3> USE DEF Goes, Answers, UserInvariant, UserCalls
    <3>1. CASE Lookup(q) \/ BeginUpsert(q) \/ Insert(q) \/ CommitUser(q)
      BY <1>3, <3>1 DEF Lookup, BeginUpsert, Insert, CommitUser
    <3>2. CASE Conflict(q) \/ Reread(q) \/ ResolveFails(q) \/ CommitUserLost(q)
      BY <1>3, <3>2 DEF Conflict, Reread, ResolveFails, CommitUserLost
    <3> QED
      BY <1>1, <3>1, <3>2 DEF Proceeds
  <2>2. AnswerGiven(r)
    BY DEF AccessInvariant
  <2> QED
    BY <1>2, <2>1, <2>2 DEF AnswerGiven, Found
<1>4. AnswerGiven(q)'
  <2> DEFINE found(rows_found) == rows_found \subseteq Found(q, users') /\ Answers(q, rows_found)
  <2>1. ASSUME NEW rows_found, found(rows_found) PROVE AnswerGiven(q)'
    <3>1. PICK row \in rows_found : answer' = [answer EXCEPT ![q] = row.id]
      BY <2>1 DEF Answers
    <3>2. answer'[q] = row.id
      BY <3>1 DEF UserInvariant, UserCalls
    <3> QED
      BY <2>1, <3>1, <3>2 DEF AnswerGiven, Found
  <2>2. CASE resolve_pc'[q] \notin Answered
    BY <2>2 DEF AnswerGiven
  <2>3. resolve_pc'[q] \in Answered => \E rows_found : found(rows_found)
    <3> USE DEF Goes, UserInvariant, UserCalls, Answered
    <3>1. CASE Lookup(q)
      <4>1. users' = users
        BY <3>1 DEF Lookup
      <4>2. resolve_pc'[q] \in Answered => Answers(q, Found(q, users))
        BY <3>1 DEF Lookup
      <4> QED
        BY <4>1, <4>2
    <3>2. CASE BeginUpsert(q) \/ Insert(q) \/ ResolveFails(q) \/ CommitUserLost(q)
      BY <3>2 DEF BeginUpsert, Insert, ResolveFails, CommitUserLost
    <3>3. CASE CommitUser(q)
      <4>1. users' = users \cup {RowOf(q)} /\ Answers(q, {RowOf(q)})
        BY <3>3 DEF CommitUser
      <4>2. RowOf(q) \in Found(q, users')
        BY <4>1, OwnRow DEF Found
      <4> QED
        BY <4>1, <4>2
    <3>4. CASE Conflict(q)
      <4>1. users' = users /\ seen[q] \subseteq Found(q, users)
        BY <3>4 DEF Conflict
      <4>2. resolve_pc'[q] \in Answered => Answers(q, seen[q])
        BY <3>4 DEF Conflict
      <4> QED
        BY <4>1, <4>2
    <3>5. CASE Reread(q)
      <4>1. users' = users
        BY <3>5 DEF Reread
      <4>2. resolve_pc'[q] \in Answered => Answers(q, Found(q, users))
        BY <3>5 DEF Reread
      <4> QED
        BY <4>1, <4>2
    <3> QED
      BY <1>1, <3>1, <3>2, <3>3, <3>4, <3>5 DEF Proceeds
  <2> QED
    BY <2>1, <2>2, <2>3
<1> QED
  BY <1>3, <1>4

\* A creation is begun for a user there is and reported when its plan is committed.
LEMMA NextAccess ==
    ASSUME UserInvariant, UserInvariant', CreationInvariant, AccessInvariant, [Next]_vars
    PROVE  AccessInvariant'
<1> USE DEF AccessInvariant
<1>1. CASE UsersNext /\ UNCHANGED tenancyVars
  <2>1. users \subseteq users'
    BY <1>1, UsersStay
  <2>2. ASSUME NEW o \in Organizations PROVE OwnerKnown(o)' /\ CreatedStands(o)'
    BY <1>1, <2>1 DEF OwnerKnown, CreatedStands, tenancyVars
  <2> QED
    BY <1>1, <2>2, AnswersGiven DEF tenancyVars
<1>2. ASSUME NEW r \in Requests, ListAccess(r) \/ ListAccessFails(r) PROVE AccessInvariant'
  <2>1. UNCHANGED <<users, answer, rows, create_pc, on>>
    BY <1>2 DEF ListAccess, ListAccessFails, tenancyVars
  <2>2. ASSUME NEW q \in Requests PROVE AnswerGiven(q)'
    <3>1. resolve_pc'[q] \in Answered => resolve_pc[q] \in Answered
      BY <1>2 DEF ListAccess, ListAccessFails, Goes, Answered, UserInvariant, UserCalls
    <3> QED
      BY <2>1, <3>1 DEF AnswerGiven
  <2>3. access' = [q \in Requests |-> access'[q]]
    BY <1>2 DEF ListAccess, ListAccessFails, tenancyVars
  <2> QED
    BY <2>1, <2>2, <2>3 DEF OwnerKnown, CreatedStands
<1>3. ASSUME NEW c \in Creations, BeginCreation(c) PROVE AccessInvariant'
  <2>1. /\ UNCHANGED <<userVars, rows, access>> /\ create_pc' = [create_pc EXCEPT ![c] = "open"]
    BY <1>3 DEF BeginCreation, CreateGoes
  <2>2. PICK x \in IF c \in Organizations THEN {user.id : user \in users}
                   ELSE {org.id : org \in OrganizationRows} :
            on' = [on EXCEPT ![c] = x]
    BY <1>3 DEF BeginCreation
  <2>3. ASSUME NEW o \in Organizations PROVE OwnerKnown(o)' /\ CreatedStands(o)'
    <3>1. CASE o = c
      <4>1. create_pc'[o] = "open" /\ on'[o] = x /\ x \in {user.id : user \in users}
        BY <2>1, <2>2, <3>1 DEF CreationInvariant, Creations
      <4> QED
        BY <2>1, <4>1 DEF OwnerKnown, CreatedStands, userVars
    <3>2. CASE o # c
      <4>1. create_pc'[o] = create_pc[o] /\ on'[o] = on[o]
        BY <2>1, <2>2, <3>2 DEF CreationInvariant, Creations
      <4> QED
        BY <2>1, <4>1 DEF OwnerKnown, CreatedStands, userVars
    <3> QED
      BY <3>1, <3>2
  <2> QED
    BY <2>1, <2>3 DEF AnswerGiven, userVars
<1>4. ASSUME NEW c \in Creations,
             InsertRow(c) \/ CommitCreation(c) \/ CommitCreationLost(c) \/ CreationFails(c)
      PROVE  AccessInvariant'
  <2>1. UNCHANGED <<userVars, on, access>> /\ rows \subseteq rows'
    BY <1>4 DEF InsertRow, CommitCreation, CommitCreationLost, CreationFails
  <2>2. ASSUME NEW o \in Organizations PROVE OwnerKnown(o)' /\ CreatedStands(o)'
    <3>1. /\ create_pc'[o] # "idle" => create_pc[o] # "idle"
          /\ create_pc'[o] = "created" => create_pc[o] = "created" \/ (o = c /\ CommitCreation(c))
      BY <1>4 DEF InsertRow, CommitCreation, CommitCreationLost, CreationFails, CreateGoes,
         CreationInvariant, Creations
    <3>2. CASE o = c /\ CommitCreation(c)
      <4>1. Planned(c) \subseteq rows' /\ on'[c] = on[c]
        BY <2>1, <3>2, CommitWritesPlan
      <4> QED
        BY <2>1, <3>1, <3>2, <4>1, PlanRows DEF OwnerKnown, CreatedStands, userVars
    <3>3. CASE create_pc'[o] # "created" \/ create_pc[o] = "created"
      BY <2>1, <3>1, <3>3 DEF OwnerKnown, CreatedStands, userVars
    <3> QED
      BY <3>1, <3>2, <3>3
  <2> QED
    BY <2>1, <2>2 DEF AnswerGiven, userVars
<1>5. CASE (\E row \in rows : SetColumn(row) \/ Reinstate(row)) \/ UNCHANGED vars
  <2>1. UNCHANGED <<userVars, rows, create_pc, on, access>>
    BY <1>5 DEF SetColumn, Reinstate, vars, tenancyVars
  <2> QED
    BY <2>1 DEF AnswerGiven, OwnerKnown, CreatedStands, userVars
<1> QED
  BY <1>1, <1>2, <1>3, <1>4, <1>5 DEF Next

\* A call only gets its tenant from the access query.
LEMMA OnlyListed ==
    ASSUME UserInvariant, [Next]_vars, NEW r \in Requests,
           resolve_pc[r] = "resolved", resolve_pc'[r] = "tenant"
    PROVE  ListAccess(r)
<1> USE DEF Goes, UserInvariant, UserCalls
<1>1. ASSUME UNCHANGED resolve_pc PROVE FALSE
  BY <1>1
<1>2. ASSUME NEW q \in Requests, Proceeds(q) \/ ResolveFails(q) \/ CommitUserLost(q) PROVE FALSE
  <2>1. CASE Lookup(q) \/ BeginUpsert(q) \/ Insert(q) \/ CommitUser(q)
    BY <2>1 DEF Lookup, BeginUpsert, Insert, CommitUser
  <2>2. CASE Conflict(q) \/ Reread(q) \/ ResolveFails(q) \/ CommitUserLost(q)
    BY <2>2 DEF Conflict, Reread, ResolveFails, CommitUserLost
  <2> QED
    BY <1>2, <2>1, <2>2 DEF Proceeds
<1>3. ASSUME NEW q \in Requests, ListAccess(q) \/ ListAccessFails(q) PROVE ListAccess(r)
  BY <1>3 DEF ListAccess, ListAccessFails
<1>4. ASSUME NEW c \in Creations,
             \/ BeginCreation(c) \/ InsertRow(c) \/ CommitCreation(c)
             \/ CommitCreationLost(c) \/ CreationFails(c)
      PROVE  UNCHANGED resolve_pc
  BY <1>4 DEF BeginCreation, InsertRow, CommitCreation, CommitCreationLost, CreationFails, userVars
<1>5. ASSUME NEW row \in rows, SetColumn(row) \/ Reinstate(row) PROVE UNCHANGED resolve_pc
  BY <1>5 DEF SetColumn, Reinstate, userVars
<1>6. CASE UNCHANGED vars
  BY <1>1, <1>6 DEF vars, userVars
<1> QED
  BY <1>1, <1>2, <1>3, <1>4, <1>5, <1>6 DEF Next, UsersNext

\* Every row is one that some creation inserts.
RowsAreInserted ==
    \A row \in rows : \E c, x :
        row \in {Organization(c, x), Role(c, "admin"), Role(c, "developer"),
                Membership(c, x, "admin"), Project(c, x),
                Environment(c, "sandbox", TRUE), Environment(c, "live", FALSE)}

LEMMA InsertedStays == RowsAreInserted /\ WholeStep => RowsAreInserted'
<1> SUFFICES ASSUME RowsAreInserted, WholeStep, NEW row \in rows'
             PROVE  \E c, x :
                row \in {Organization(c, x), Role(c, "admin"), Role(c, "developer"),
                        Membership(c, x, "admin"), Project(c, x),
                        Environment(c, "sandbox", TRUE), Environment(c, "live", FALSE)}
  BY DEF RowsAreInserted, Organization, Role, Membership, Project, Environment
<1>1. CASE row \in rows
  BY <1>1 DEF RowsAreInserted
<1>2. ASSUME NEW c \in Creations, row \in Planned(c)
      PROVE  row \in {Organization(c, on[c]), Role(c, "admin"), Role(c, "developer"),
                     Membership(c, on[c], "admin"), Project(c, on[c]),
                     Environment(c, "sandbox", TRUE), Environment(c, "live", FALSE)}
  BY <1>2, PlanRows
<1> QED
  BY <1>1, <1>2 DEF WholeStep

\* The rows a query of the owner may join for an entry of the organization.
LEMMA JoinedRows ==
    ASSUME RowsAreInserted, NEW o, NEW u
    PROVE  /\ \A x \in Memberships : x.organization = o /\ x.user = u => x = Membership(o, u, "admin")
           /\ \A y \in OrganizationRows : y.id = o /\ y.owner = u => y = Organization(o, u)
           /\ \A z \in RoleRows : z.organization = o /\ z.key = "admin" => z = Role(o, "admin")
<1> USE DEF Organization, Role, Membership, Project, Environment
<1>1. ASSUME NEW x \in Memberships, x.organization = o, x.user = u
      PROVE  x = Membership(o, u, "admin")
  <2>1. \E c, v : x = Membership(c, v, "admin")
    BY DEF RowsAreInserted, Memberships
  <2> QED
    BY <1>1, <2>1
<1>2. ASSUME NEW y \in OrganizationRows, y.id = o, y.owner = u PROVE y = Organization(o, u)
  <2>1. \E c, v : y = Organization(c, v)
    BY DEF RowsAreInserted, OrganizationRows
  <2> QED
    BY <1>2, <2>1
<1>3. ASSUME NEW z \in RoleRows, z.organization = o, z.key = "admin" PROVE z = Role(o, "admin")
  <2>1. \E c : z = Role(c, "admin") \/ z = Role(c, "developer")
    BY DEF RowsAreInserted, RoleRows
  <2> QED
    BY <1>3, <2>1
<1> QED
  BY <1>1, <1>2, <1>3

\* The join of the access query has an organization's entry for its owner exactly
\* when no column of the three rows it is made of is set.
LEMMA OwnEntry ==
    ASSUME RowsAreInserted, NEW o, NEW u,
           {Organization(o, u), Membership(o, u, "admin"), Role(o, "admin")} \subseteq rows
    PROVE  [organization |-> o, owner |-> TRUE, role |-> "admin"] \in Access(u) <=> Unmarked(o, u)
<1> DEFINE org == Organization(o, u)
           member == Membership(o, u, "admin")
           admin == Role(o, "admin")
           entry == [organization |-> o, owner |-> TRUE, role |-> "admin"]
           Unset(x, y, z) ==
                /\ ~Marked(x, "suspended") /\ ~Marked(x, "removed_at")
                /\ ~Marked(y, "deleted_at") /\ ~Marked(y, "suspended_at")
                /\ ~Marked(z, "deleted_at")
           Joined(x, y, z) ==
                /\ y.id = x.organization
                /\ z.organization = x.organization /\ z.key = x.role
                /\ x.user = u
                /\ Unset(x, y, z)
           Entry(x, y, z) == [organization |-> y.id, owner |-> y.owner = u, role |-> z.key]
<1>1. /\ org \in OrganizationRows /\ member \in Memberships /\ admin \in RoleRows
      /\ org.id = o /\ org.owner = u /\ member.organization = o /\ member.user = u
      /\ member.role = "admin" /\ admin.organization = o /\ admin.key = "admin"
  BY DEF OrganizationRows, Memberships, RoleRows, Organization, Membership, Role
<1>2. Unmarked(o, u) <=> Unset(member, org, admin)
  BY DEF Unmarked, LifecycleColumns, Organization, Membership, Role
<1>3. \A e : e \in Access(u) <=>
        \E x \in Memberships, y \in OrganizationRows, z \in RoleRows :
            Joined(x, y, z) /\ e = Entry(x, y, z)
  <2> DEFINE J == [membership : Memberships, org : OrganizationRows, role : RoleRows]
  <2>1. \A e : e \in Access(u) <=>
          \E j \in J : Joined(j.membership, j.org, j.role) /\ e = Entry(j.membership, j.org, j.role)
    BY DEF Access
  <2>2. ASSUME NEW x \in Memberships, NEW y \in OrganizationRows, NEW z \in RoleRows
        PROVE  \E j \in J : j.membership = x /\ j.org = y /\ j.role = z
    <3> WITNESS [membership |-> x, org |-> y, role |-> z] \in J
    <3> QED
      OBVIOUS
  <2>3. \A j \in J : j.membership \in Memberships /\ j.org \in OrganizationRows /\ j.role \in RoleRows
    OBVIOUS
  <2> HIDE DEF J, Joined, Entry
  <2> QED
    BY <2>1, <2>2, <2>3
<1>4. ASSUME Unset(member, org, admin) PROVE entry \in Access(u)
  <2>1. Joined(member, org, admin) /\ entry = Entry(member, org, admin)
    BY <1>1, <1>4
  <2> HIDE DEF org, member, admin, entry, Joined, Entry
  <2> QED
    BY <1>1, <1>3, <2>1
<1>5. ASSUME entry \in Access(u) PROVE Unset(member, org, admin)
  <2>1. PICK x \in Memberships, y \in OrganizationRows, z \in RoleRows :
            Joined(x, y, z) /\ entry = Entry(x, y, z)
    <3> HIDE DEF entry, Joined, Entry
    <3> QED
      BY <1>3, <1>5
  <2>2. y.id = o /\ (y.owner = u) = TRUE /\ z.key = "admin"
    <3>1. /\ entry.organization = y.id /\ entry.owner = (y.owner = u) /\ entry.role = z.key
      BY <2>1
    <3> QED
      BY <3>1
  <2>3. x.organization = o /\ x.user = u /\ z.organization = o /\ y.owner = u
    BY <2>1, <2>2
  <2>4. x = member /\ y = org /\ z = admin
    <3> HIDE DEF entry, Joined, Entry, Unset
    <3> QED
      BY <2>2, <2>3, JoinedRows
  <2> QED
    BY <2>1, <2>4
<1> QED
  BY <1>2, <1>4, <1>5

\* The owner of an organization that was reported created is named as its owner and
\* Admin by every access query, whichever of the owner's calls asks and whatever else
\* is under way, exactly while the organization is neither deleted nor suspended, the
\* membership neither removed nor suspended and the role not deleted
\* (authenticated_tenant.service.go:42-64, organizations.sql:21-41, users.sql).
THEOREM OwnersHaveAccess == Spec => CreatorHasAccess
<1> DEFINE Inv == UserInvariant /\ CreationInvariant /\ AccessInvariant /\ RowsAreInserted
           Entry(o) == [organization |-> o, owner |-> TRUE, role |-> "admin"]
           Listed(r, o) ==
             /\ resolve_pc[r] = "resolved" /\ resolve_pc'[r] = "tenant"
             /\ create_pc[o] = "created"
             /\ SubjectOf[r] = SubjectOf[on[o]]
             => (Entry(o) \in access'[r] <=> Unmarked(o, on[o]))
<1>1. Init => Inv
  <2>1. Init => UserInvariant
    BY InitUsers DEF Init
  <2>2. Init => CreationInvariant
    BY DEF Init, CreationInvariant
  <2>3. Init => AccessInvariant
    <3>1. ASSUME Init PROVE AccessInvariant
      <4>1. \A o \in Organizations : create_pc[o] = "idle"
        BY <3>1 DEF Init, Creations
      <4>2. \A r \in Requests : resolve_pc[r] = "idle"
        BY <3>1 DEF Init, UsersInit
      <4> QED
        BY <3>1, <4>1, <4>2 DEF AccessInvariant, AnswerGiven, OwnerKnown, CreatedStands, Answered, Init
    <3> QED
      BY <3>1
  <2>4. Init => RowsAreInserted
    BY DEF Init, RowsAreInserted
  <2> QED
    BY <2>1, <2>2, <2>3, <2>4
<1>2. Inv /\ [Next]_vars => Inv'
  BY NextUserInvariant, CreationSteps, NextAccess, InsertedStays
<1>3. ASSUME Inv, [Next]_vars, NEW r \in Requests, NEW o \in Organizations,
             resolve_pc[r] = "resolved", resolve_pc'[r] = "tenant",
             create_pc[o] = "created", SubjectOf[r] = SubjectOf[on[o]]
      PROVE  Entry(o) \in access'[r] <=> Unmarked(o, on[o])
  <2>1. ListAccess(r)
    BY <1>3, OnlyListed
  <2>2. answer[r] = on[o]
    <3>1. PICK own \in users : own.subject = SubjectOf[r] /\ answer[r] = own.id
      BY <1>3 DEF AccessInvariant, AnswerGiven, Answered, Found
    <3>2. PICK row \in users : on[o] = row.id
      BY <1>3 DEF AccessInvariant, OwnerKnown
    <3>3. row.subject = SubjectOf[on[o]]
      BY <1>3, <3>2 DEF UserInvariant, UserRows
    <3> QED
      BY <1>3, <3>1, <3>2, <3>3 DEF UserInvariant, UserRows
  <2>3. access'[r] = Access(on[o])
    BY <1>3, <2>1, <2>2 DEF ListAccess, AccessInvariant
  <2>4. {Organization(o, on[o]), Role(o, "admin"), Membership(o, on[o], "admin")} \subseteq rows
    BY <1>3 DEF AccessInvariant, CreatedStands
  <2>5. Entry(o) \in Access(on[o]) <=> Unmarked(o, on[o])
    BY <1>3, <2>4, OwnEntry
  <2> QED
    BY <2>3, <2>5
<1>4. Inv /\ [Next]_vars => [\A r \in Requests, o \in Organizations : Listed(r, o)]_vars
  BY <1>3
<1> QED
  BY <1>1, <1>2, <1>4, PTL DEF Spec, CreatorHasAccess
=============================================================================
