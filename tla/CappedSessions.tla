--------------------------- MODULE CappedSessions ---------------------------
(***************************************************************************)
(* What the session store of internal/infra/authentication/session_store.go *)
(* promises its callers, with no transaction, lock or cache in sight: a     *)
(* sign-in makes one session active and, in the same instant, ends as many  *)
(* of the subject's oldest ones as the limit demands.                       *)
(***************************************************************************)
EXTENDS Naturals, FiniteSets

CONSTANTS
    Subjects,               \* the Authlier subjects
    Sessions,               \* session identifiers, compared by ORDER BY id
    MaximumActiveSessions   \* maximumActiveSessions, 3 in cmd/api/main.go

VARIABLE active   \* the active sessions, one entry each

Entries == [id : Sessions, subject : Subjects, created : Nat]

Of(entries, s) == {e \in entries : e.subject = s}

\* ORDER BY created_at DESC, id DESC: e comes before f.
Before(e, f) ==
    \/ e.created > f.created
    \/ e.created = f.created /\ e.id > f.id

Init == active = {}

\* A sign-in activates e and drops the oldest sessions of its subject: every
\* session it keeps comes before every session it drops.
SignIn(e) ==
    /\ e \in Entries
    /\ \E dropped \in SUBSET Of(active, e.subject) :
        /\ active' = (active \ dropped) \cup {e}
        /\ \A d \in dropped, k \in Of(active', e.subject) : Before(k, d)
    /\ Cardinality(Of(active', e.subject)) <= MaximumActiveSessions

\* Sessions end by sign-out, revocation or expiry, any number at a time.  A
\* sign-in that newer ones overtook ends before it ever becomes active.
End == active' \in SUBSET active

Next == End \/ \E e \in active' \ active : SignIn(e)

Spec == Init /\ [][Next]_active
=============================================================================
