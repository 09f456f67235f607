------------------------------- MODULE Tenancy -------------------------------
(***************************************************************************)
(* internal/organizations and internal/projects on top of UserResolution:    *)
(* an organization with its roles and its owner's membership, and a project  *)
(* with its environments, are each written by one transaction of several     *)
(* inserts; a request that has its user reads the organizations the user     *)
(* has access to.  Creations and requests run concurrently.                  *)
(*                                                                          *)
(* Deletion, suspension and removal have columns and are heeded by the       *)
(* access query, but no code of the server sets them yet: SetColumn and      *)
(* Reinstate stand for who will.                                             *)
(***************************************************************************)
EXTENDS UserResolution, Sequences

CONSTANTS
    Organizations,  \* calls of CreateOrganization, naming what they create
    Projects,       \* calls of CreateProject, naming what they create
    MaxMarks        \* bound: lifecycle columns that are set at a time

ASSUME CallsAssumption == Organizations \cap Projects = {}

Creations == Organizations \cup Projects

VARIABLES
    rows,        \* committed rows of the tenancy tables
    marks,       \* <<row, column>>: the lifecycle columns that are set
    create_pc,   \* where each creation stands
    on,          \* the owner or the organization each creation was given
    written,     \* the rows its open transaction has inserted, in order
    access       \* what each request's access query returned

tenancyVars == <<rows, marks, create_pc, on, written, access>>
vars == <<userVars, tenancyVars>>

Organization(o, u) == [table |-> "organizations", id |-> o, owner |-> u]
Role(o, key) == [table |-> "organization_roles", organization |-> o, key |-> key]
Membership(o, u, key) ==
    [table |-> "organization_memberships", organization |-> o, user |-> u, role |-> key]
Project(p, o) == [table |-> "projects", id |-> p, organization |-> o]
Environment(p, name, activated) ==
    [table |-> "project_environments", project |-> p, name |-> name, activated |-> activated]

Init ==
    /\ UsersInit
    /\ rows = {} /\ marks = {}
    /\ create_pc = [c \in Creations |-> "idle"]
    /\ on = [c \in Creations |-> NoUser]
    /\ written = [c \in Creations |-> <<>>]
    /\ access = [r \in Requests |-> {}]

\* The rows a creation inserts, in this order.
Plan(c) ==
    IF c \in Organizations
    THEN <<Organization(c, on[c]), Role(c, "admin"), Role(c, "developer"),
           Membership(c, on[c], "admin")>>
    ELSE <<Project(c, on[c]), Environment(c, "sandbox", TRUE), Environment(c, "live", FALSE)>>

Inserted(c) == {written[c][i] : i \in DOMAIN written[c]}

\* The lifecycle columns of a row; "suspended" is the status of a membership that
\* is not active.
LifecycleColumns(row) ==
    CASE row.table = "organizations" -> {"deleted_at", "suspended_at"}
      [] row.table = "organization_memberships" -> {"removed_at", "suspended"}
      [] row.table = "organization_roles" -> {"deleted_at"}
      [] OTHER -> {}

Marked(row, column) == <<row, column>> \in marks

OrganizationRows == {row \in rows : row.table = "organizations"}
RoleRows == {row \in rows : row.table = "organization_roles"}
Memberships == {row \in rows : row.table = "organization_memberships"}

\* What a row refers to is there, committed or inserted by the transaction.
References(row, visible) ==
    CASE row.table = "organizations" -> row.owner \in {user.id : user \in users}
      [] row.table = "organization_roles" ->
            \E org \in visible : org.table = "organizations" /\ org.id = row.organization
      [] row.table = "organization_memberships" ->
            /\ row.user \in {user.id : user \in users}
            /\ Role(row.organization, row.role) \in visible
      [] row.table = "projects" ->
            \E org \in visible : org.table = "organizations" /\ org.id = row.organization
      [] row.table = "project_environments" ->
            \E project \in visible : project.table = "projects" /\ project.id = row.project

CreateGoes(c, from, to) == create_pc[c] = from /\ create_pc' = [create_pc EXCEPT ![c] = to]

\* CreateOrganization for a user, or CreateProject for an organization, that a
\* response named: its transaction begins.
BeginCreation(c) ==
    /\ CreateGoes(c, "idle", "open")
    /\ \E x \in IF c \in Organizations THEN {user.id : user \in users}
                ELSE {org.id : org \in OrganizationRows} :
        on' = [on EXCEPT ![c] = x]
    /\ UNCHANGED <<userVars, rows, marks, written, access>>

\* The next INSERT of the transaction.
InsertRow(c) ==
    /\ create_pc[c] = "open"
    /\ Len(written[c]) < Len(Plan(c))
    /\ LET row == Plan(c)[Len(written[c]) + 1] IN
        /\ References(row, rows \cup Inserted(c))
        /\ written' = [written EXCEPT ![c] = Append(@, row)]
    /\ UNCHANGED <<userVars, rows, marks, create_pc, on, access>>

\* Mutant: the membership is inserted after the commit.
CommitEarly(c) ==
    /\ CreateGoes(c, "open", "created")
    /\ Len(written[c]) >= Len(Plan(c)) - 1
    /\ rows' = rows \cup Inserted(c)
    /\ written' = [written EXCEPT ![c] = <<>>]
    /\ UNCHANGED <<userVars, marks, on, access>>

\* Every insert succeeded: the transaction commits and the call returns.
CommitCreation(c) ==
    /\ CreateGoes(c, "open", "created")
    /\ Len(written[c]) = Len(Plan(c))
    /\ rows' = rows \cup Inserted(c)
    /\ written' = [written EXCEPT ![c] = <<>>]
    /\ UNCHANGED <<userVars, marks, on, access>>

\* The transaction commits but the call is told it failed.
CommitCreationLost(c) ==
    /\ CreateGoes(c, "open", "failed")
    /\ Len(written[c]) = Len(Plan(c))
    /\ rows' = rows \cup Inserted(c)
    /\ written' = [written EXCEPT ![c] = <<>>]
    /\ UNCHANGED <<userVars, marks, on, access>>

\* An insert or the commit fails, and the deferred Rollback undoes them all.
CreationFails(c) ==
    /\ CreateGoes(c, "open", "failed")
    /\ written' = [written EXCEPT ![c] = <<>>]
    /\ UNCHANGED <<userVars, rows, marks, on, access>>

\* Mutant: a membership whose role is deleted keeps its access.
AccessOfDeletedRole(u) ==
    LET Joined == [membership : Memberships, org : OrganizationRows, role : RoleRows] IN
    {[organization |-> j.org.id, owner |-> j.org.owner = u, role |-> j.role.key] :
        j \in {j \in Joined :
            /\ j.org.id = j.membership.organization
            /\ j.role.organization = j.membership.organization
            /\ j.role.key = j.membership.role
            /\ j.membership.user = u
            /\ ~Marked(j.membership, "suspended") /\ ~Marked(j.membership, "removed_at")
            /\ ~Marked(j.org, "deleted_at") /\ ~Marked(j.org, "suspended_at")}}

\* ListActiveOrganizationAccessByUser: the memberships of a user joined with their
\* organizations and their roles, where none of the five columns says otherwise.
Access(u) ==
    LET Joined == [membership : Memberships, org : OrganizationRows, role : RoleRows] IN
    {[organization |-> j.org.id, owner |-> j.org.owner = u, role |-> j.role.key] :
        j \in {j \in Joined :
            /\ j.org.id = j.membership.organization
            /\ j.role.organization = j.membership.organization
            /\ j.role.key = j.membership.role
            /\ j.membership.user = u
            /\ ~Marked(j.membership, "suspended") /\ ~Marked(j.membership, "removed_at")
            /\ ~Marked(j.org, "deleted_at") /\ ~Marked(j.org, "suspended_at")
            /\ ~Marked(j.role, "deleted_at")}}

\* AuthenticatedTenantService.Resolve, once it has the user.
ListAccess(r) ==
    /\ Goes(r, "resolved", "tenant")
    /\ access' = [access EXCEPT ![r] = Access(answer[r])]
    /\ UNCHANGED <<users, inserting, seen, answer>>
    /\ UNCHANGED <<rows, marks, create_pc, on, written>>

\* The access query fails: an internal error, not 401.
ListAccessFails(r) ==
    /\ Goes(r, "resolved", "failed")
    /\ UNCHANGED <<users, inserting, seen, answer, tenancyVars>>

\* Somebody deletes or suspends an organization, removes or suspends a member, or
\* deletes a role.
SetColumn(row) ==
    /\ Cardinality(marks) < MaxMarks
    /\ \E column \in LifecycleColumns(row) : marks' = marks \cup {<<row, column>>}
    /\ UNCHANGED <<userVars, rows, create_pc, on, written, access>>

\* A suspension ends.
Reinstate(row) ==
    /\ \E column \in LifecycleColumns(row) \cap {"suspended", "suspended_at"} :
        /\ Marked(row, column)
        /\ marks' = marks \ {<<row, column>>}
    /\ UNCHANGED <<userVars, rows, create_pc, on, written, access>>

Next ==
    \/ UsersNext /\ UNCHANGED tenancyVars
    \/ \E c \in Creations :
        \/ BeginCreation(c) \/ InsertRow(c) \/ CommitCreation(c)
        \/ CommitCreationLost(c) \/ CreationFails(c)
    \/ \E r \in Requests : ListAccess(r) \/ ListAccessFails(r)
    \/ \E row \in rows : SetColumn(row) \/ Reinstate(row)

Spec == Init /\ [][Next]_vars

\* Queries return: a request goes on until it has an answer.  That it may fail
\* is no help, and creations need not go on.
FairSpec ==
    /\ Spec
    /\ \A r \in Requests :
        WF_vars(Proceeds(r) /\ UNCHANGED tenancyVars) /\ WF_vars(ListAccess(r))

-----------------------------------------------------------------------------

\* Whatever is visible is whole: an organization has both built-in roles and
\* its owner's Admin membership, a project an activated sandbox and a live
\* environment not activated (ARCHITECTURE.md of organizations and projects).
VisibleIsWhole ==
    \A row \in rows :
        /\ row.table = "organizations" =>
            /\ {Role(row.id, "admin"), Role(row.id, "developer")} \subseteq rows
            /\ Membership(row.id, row.owner, "admin") \in rows
        /\ row.table = "projects" =>
            {Environment(row.id, "sandbox", TRUE), Environment(row.id, "live", FALSE)} \subseteq rows

\* No column of an organization, its owner's membership or its Admin role is set.
Unmarked(o, u) ==
    \A row \in {Organization(o, u), Membership(o, u, "admin"), Role(o, "admin")} :
        \A column \in LifecycleColumns(row) : ~Marked(row, column)

\* Once CreateOrganization has returned, every later access query of the owner,
\* by whichever request and however that request came by its user, names the owner
\* as owner and Admin of the organization, unless by then the organization is
\* deleted or suspended, the membership removed or suspended, or the Admin role
\* deleted; and a suspension that has ended leaves no trace
\* (ARCHITECTURE.md:100-102).
CreatorHasAccess ==
    [][\A r \in Requests, o \in Organizations :
         /\ resolve_pc[r] = "resolved" /\ resolve_pc'[r] = "tenant"
         /\ create_pc[o] = "created"
         /\ SubjectOf[r] = SubjectOf[on[o]]
         => (([organization |-> o, owner |-> TRUE, role |-> "admin"] \in access'[r]) <=>
             Unmarked(o, on[o]))]_vars

\* Nobody waits for ever: a call that finds another's row uncommitted goes on
\* when that one commits or is undone.
RequestsSettle ==
    \A r \in Requests : resolve_pc[r] # "idle" ~> resolve_pc[r] \in {"tenant", "failed"}
=============================================================================
