---------------------------- MODULE UserDirectory ----------------------------
(***************************************************************************)
(* What the users domain promises to the rest of the server: a directory     *)
(* that gives every Authlier subject one user ID, the same one to everybody  *)
(* and for ever.  Resolving is one step here; UserResolution shows that the  *)
(* queries of internal/users, interleaved in any way, implement it.          *)
(***************************************************************************)

CONSTANTS
    Subjects,   \* Authlier subject IDs
    Requests,   \* calls of ResolveUser
    Users,      \* user IDs
    NoUser,     \* stands for no user ID: not a member of Users
    SubjectOf   \* the subject each call asks about

VARIABLES
    directory,  \* the user of every subject, NoUser before its first access
    answer      \* what each call was told, NoUser when nothing (yet)

vars == <<directory, answer>>

Init ==
    /\ directory = [s \in Subjects |-> NoUser]
    /\ answer = [r \in Requests |-> NoUser]

\* A subject's first access gives it a user that no other subject has.
Register(s, u) ==
    /\ directory[s] = NoUser
    /\ u \notin {directory[t] : t \in Subjects}
    /\ directory' = [directory EXCEPT ![s] = u]

\* A call is told the user of its subject, registered if need be.
Resolve(r) ==
    /\ answer[r] = NoUser
    /\ \/ directory[SubjectOf[r]] # NoUser /\ UNCHANGED directory
       \/ \E u \in Users : Register(SubjectOf[r], u)
    /\ answer' = [answer EXCEPT ![r] = directory'[SubjectOf[r]]]

\* A call that fails may have registered its subject all the same.
Orphan(s) ==
    /\ \E u \in Users : Register(s, u)
    /\ UNCHANGED answer

Next == (\E r \in Requests : Resolve(r)) \/ (\E s \in Subjects : Orphan(s))

Spec == Init /\ [][Next]_vars
=============================================================================
