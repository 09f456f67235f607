------------------------------ MODULE MCTenancy ------------------------------
(***************************************************************************)
(* Three requests, two of them of one subject: enough for one to be          *)
(* overtaken by another whose row is then committed, undone or committed     *)
(* without a reply, and for a third to hold another user.  One organization  *)
(* and one project are created meanwhile, and one lifecycle column at a time  *)
(* is set and perhaps unset.                                                  *)
(***************************************************************************)
EXTENDS Tenancy

CONSTANTS r1, r2, r3, s1, s2

MCSubjectOf == [r \in Requests |-> IF r = r3 THEN s2 ELSE s1]
=============================================================================
