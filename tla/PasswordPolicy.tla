--------------------------- MODULE PasswordPolicy ---------------------------
(***************************************************************************)
(* internal/authentication/password_policy.go and the schema that            *)
(* internal/openapi/document.go publishes for passwords.  A password is the    *)
(* sequence of its characters' Unicode classes.                                *)
(***************************************************************************)
EXTENDS Integers, Sequences

CONSTANTS minimumPasswordLength, maximumPasswordLength

\* A letter that is not upper case is "other_letter"; a symbol counts as "punctuation"; a
\* number that is no decimal digit, such as a fraction, is "other_number".
Classes ==
    {"ascii_upper", "other_upper", "other_letter", "ascii_digit", "other_digit",
     "other_number", "punctuation", "space", "newline", "control", "mark"}

PrintableASCII == {"ascii_upper", "other_letter", "ascii_digit", "punctuation", "space"}

\* unicode.IsUpper, unicode.IsDigit, and unicode.IsPunct or unicode.IsSymbol.
Uppercase == {"ascii_upper", "other_upper"}
Digit == {"ascii_digit", "other_digit"}
Special == {"punctuation"}

Has(password, classes) == \E i \in DOMAIN password : password[i] \in classes

\* The error, "none" if there is none.
ValidatePassword(password) ==
    CASE Len(password) < minimumPasswordLength -> "ErrPasswordTooShort"
      [] Len(password) > maximumPasswordLength -> "ErrPasswordTooLong"
      [] OTHER ->
            IF ~Has(password, Uppercase) THEN "ErrPasswordUppercase"
            ELSE IF ~Has(password, Digit) THEN "ErrPasswordNumber"
            ELSE IF ~Has(password, Special) THEN "ErrPasswordSpecial"
            ELSE "none"

\* minLength, maxLength and the pattern: an A-Z, a 0-9, something that is neither
\* letter nor number nor white space, and no line end anywhere.
MatchesSchema(password) ==
    /\ Len(password) \in minimumPasswordLength..maximumPasswordLength
    /\ Has(password, {"ascii_upper"})
    /\ Has(password, {"ascii_digit"})
    /\ Has(password, {"punctuation", "control", "mark"})
    /\ ~Has(password, {"newline"})

-----------------------------------------------------------------------------

\* The server accepts the passwords that its published schema admits, and no
\* others (document.go:106, password_policy.go:22-47).
SchemaIsThePolicy(password) == ValidatePassword(password) = "none" <=> MatchesSchema(password)
=============================================================================
