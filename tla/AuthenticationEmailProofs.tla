---------------------- MODULE AuthenticationEmailProofs ----------------------
(***************************************************************************)
(* What the mails say of the time their codes and links work.                  *)
(***************************************************************************)
EXTENDS AuthenticationEmail, TLAPS

\* Rounding up, for the two units in use.
LEMMA RoundsUp ==
    ASSUME NEW remaining \in Int, remaining > 0, NEW unit \in {Minute, Hour}
    PROVE  /\ ExpiresIn(remaining, unit) \in Nat
           /\ ExpiresIn(remaining, unit) >= 1
           /\ remaining <= ExpiresIn(remaining, unit) * unit
           /\ (ExpiresIn(remaining, unit) - 1) * unit < remaining
<1>1. CASE unit = Minute
  BY <1>1 DEF ExpiresIn, Minute
<1>2. CASE unit = Hour
  BY <1>2 DEF ExpiresIn, Hour, Minute
<1> QED
  BY <1>1, <1>2

\* A verification mail or a reset mail that is sent never says that the code or
\* the link works for less time than it does, nor for a whole unit more, and is
\* never sent with a code or link that has expired (email_verification.go:43-51,
\* password_reset.go:35-46).
THEOREM MailsNameTimeLeft ==
    ASSUME NEW usable \in BOOLEAN, NEW expiresAt \in Int, NEW now \in Int
    PROVE  /\ NamesTimeLeft(RenderVerificationEmail(usable, expiresAt, now), expiresAt, now, Minute)
           /\ NamesTimeLeft(RenderPasswordResetEmail(usable, expiresAt, now), expiresAt, now, Hour)
           /\ RenderVerificationEmail(usable, expiresAt, now).sent => now < expiresAt
           /\ RenderPasswordResetEmail(usable, expiresAt, now).sent => now < expiresAt
<1>1. ASSUME NEW unit \in {Minute, Hour}
      PROVE  /\ NamesTimeLeft(Render(usable, expiresAt, now, unit), expiresAt, now, unit)
             /\ Render(usable, expiresAt, now, unit).sent => now < expiresAt
  <2>1. CASE ~usable \/ expiresAt - now <= 0
    BY <2>1 DEF NamesTimeLeft, Render
  <2>2. CASE usable /\ expiresAt - now > 0
    <3> DEFINE n == ExpiresIn(expiresAt - now, unit)
    <3>1. /\ n \in Nat /\ n >= 1
          /\ expiresAt - now <= n * unit
          /\ (n - 1) * unit < expiresAt - now
      BY <2>2, RoundsUp
    <3>2. /\ n * unit \in Int /\ (n - 1) * unit \in Int
      BY <3>1 DEF Minute, Hour
    <3>3. Render(usable, expiresAt, now, unit) = [sent |-> TRUE, units |-> n]
      BY <2>2 DEF Render
    <3> HIDE DEF n
    <3> QED
      BY <3>1, <3>2, <3>3, <2>2 DEF NamesTimeLeft
  <2> QED
    BY <2>1, <2>2
<1> QED
  BY <1>1 DEF RenderVerificationEmail, RenderPasswordResetEmail
=============================================================================
