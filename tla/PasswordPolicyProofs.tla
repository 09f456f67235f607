------------------------ MODULE PasswordPolicyProofs ------------------------
(***************************************************************************)
(* Where the password policy and its published schema do agree.                *)
(***************************************************************************)
EXTENDS PasswordPolicy, TLAPS

\* On passwords of printable ASCII characters, whatever the two lengths are, the
\* server accepts what the published schema admits (password_policy.go:22-47):
\* the disagreements all take a character outside it.
THEOREM SchemaHoldsForPrintableASCII ==
    ASSUME minimumPasswordLength \in Nat, maximumPasswordLength \in Nat,
           NEW password \in Seq(PrintableASCII)
    PROVE  SchemaIsThePolicy(password)
<1>1. \A i \in DOMAIN password : password[i] \in PrintableASCII
  OBVIOUS
<1>2. /\ Has(password, Uppercase) <=> Has(password, {"ascii_upper"})
      /\ Has(password, Digit) <=> Has(password, {"ascii_digit"})
      /\ Has(password, Special) <=> Has(password, {"punctuation", "control", "mark"})
      /\ ~Has(password, {"newline"})
  BY <1>1 DEF Has, PrintableASCII, Uppercase, Digit, Special
<1>3. Len(password) \in Nat
  OBVIOUS
<1> QED
  BY <1>2, <1>3 DEF SchemaIsThePolicy, ValidatePassword, MatchesSchema
=============================================================================
