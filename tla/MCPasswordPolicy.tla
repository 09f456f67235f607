--------------------------- MODULE MCPasswordPolicy ---------------------------
(***************************************************************************)
(* Every password of up to one character too many, typed one by one.           *)
(***************************************************************************)
EXTENDS PasswordPolicy

VARIABLE password

Init == password = <<>>
Type ==
    /\ Len(password) <= maximumPasswordLength
    /\ \E class \in Classes : password' = Append(password, class)
Spec == Init /\ [][Type]_password

\* Client-side checks generated from the document agree with the server.
PublishedPolicy == SchemaIsThePolicy(password)
=============================================================================
