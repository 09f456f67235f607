------------------------- MODULE MCEmailVerification -------------------------
(***************************************************************************)
(* One user, two emails, two codes, three issues, two verifications: enough  *)
(* for a code to be reissued while the previous one is being consumed and    *)
(* for the email to change and change back.                                  *)
(***************************************************************************)
EXTENDS EmailVerification, TLC

\* Calls, codes and emails are interchangeable.
MCSymmetry ==
    Permutations(Issues) \cup Permutations(Verifies)
        \cup Permutations(Codes) \cup Permutations(Emails)

MCCodesOf == [u \in Users |-> Codes]
=============================================================================
