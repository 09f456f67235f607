------------------------- MODULE AuthenticationEmail -------------------------
(***************************************************************************)
(* internal/authentication/templates and internal/infra/clients/resend.go:    *)
(* the verification and the password-reset mail, which name the time that is   *)
(* left, in whole minutes or hours, and are not sent when none is.  The clock  *)
(* counts milliseconds.                                                        *)
(***************************************************************************)
EXTENDS Integers

Minute == 60000
Hour == 60 * Minute

\* math.Ceil of the time in units.
ExpiresIn(remaining, unit) == (remaining + unit - 1) \div unit

\* A mail that says how long its code or link works, or none: "error".
Render(usable, expiresAt, now, unit) ==
    IF ~usable \/ expiresAt - now <= 0
    THEN [sent |-> FALSE, units |-> 0]
    ELSE [sent |-> TRUE, units |-> ExpiresIn(expiresAt - now, unit)]

\* hasCode: the code is not blank; webURL: the link is an HTTP or HTTPS URL.
RenderVerificationEmail(hasCode, expiresAt, now) == Render(hasCode, expiresAt, now, Minute)
RenderPasswordResetEmail(webURL, expiresAt, now) == Render(webURL, expiresAt, now, Hour)

\* SendVerification and SendPasswordReset: what was rendered goes to Resend once,
\* and either failure is returned.
Send(mail, resend) == IF mail.sent /\ resend = "ok" THEN "sent" ELSE "failed"

-----------------------------------------------------------------------------

\* A mail names the time left rounded up: at least one unit, never less time than
\* there is, and less than a unit more.
NamesTimeLeft(mail, expiresAt, now, unit) ==
    mail.sent =>
        /\ mail.units >= 1
        /\ expiresAt <= now + mail.units * unit
        /\ now + (mail.units - 1) * unit < expiresAt
=============================================================================
