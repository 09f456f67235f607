--------------------------- MODULE MCSessionStore ---------------------------
(***************************************************************************)
(* Small instances of SessionStore.  Session ids are numbers, because       *)
(* ORDER BY id compares them.                                               *)
(***************************************************************************)
EXTENDS SessionStore

\* All subjects have one hash value: the lock serializes more than it must.
MCCollidingKeys == [s \in Subjects |-> 1]
=============================================================================
