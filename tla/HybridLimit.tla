----------------------------- MODULE HybridLimit -----------------------------
(***************************************************************************)
(* The limiter that the Rule type of internal/infra/ratelimit/redis.go       *)
(* describes: an immediate allowance that is restored continuously, and a    *)
(* hard limit over a rolling window.  Nothing is stored lazily, nothing      *)
(* expires and there is one clock.  What is inexact is in one place: a       *)
(* request rounds the allowance when it reads it.                            *)
(*                                                                          *)
(* The allowance is counted in units: one request is RestoreOver * Grain of   *)
(* them, and one clock unit restores Immediate * Grain.                      *)
(***************************************************************************)
EXTENDS Integers, Sequences, FiniteSets

CONSTANTS
    Identities,   \* what is limited: one per operation, dimension and identity
    Immediate,    \* Rule.ImmediateRequests of each identity
    RestoreOver,  \* Rule.RestoreImmediateRequestsOver, in clock units
    Maximum,      \* Rule.MaximumRequests
    Window,       \* Rule.MaximumWindow, in clock units
    Grain,        \* units in 1/RestoreOver of a request
    Error         \* half of the units a reading may be off

VARIABLES
    time,       \* the one clock
    allowance,  \* units of the immediate allowance left
    grants,     \* the times of the requests allowed so far, oldest first
    answer      \* the answer to the identity's latest request

One(k) == RestoreOver[k] * Grain
Full(k) == Immediate[k] * One(k)

Lesser(a, b) == IF a < b THEN a ELSE b

\* Requests allowed during the rolling window that ends now.
Recent(k) == Cardinality({n \in DOMAIN grants[k] : grants[k][n] + Window[k] > time})

\* What a request may read for an allowance.
Readings(k) == (allowance[k] - 2 * Error .. allowance[k] + 2 * Error) \cap 0..Full(k)

Init ==
    /\ time = 0
    /\ allowance = [k \in Identities |-> Full(k)]
    /\ grants = [k \in Identities |-> <<>>]
    /\ answer = [k \in Identities |-> "none"]

\* The request is allowed on a reading of one or more, and pays.
Pay(k, left) ==
    /\ left >= One(k) /\ Recent(k) < Maximum[k]
    /\ allowance' = [allowance EXCEPT ![k] = left - One(k)]
    /\ answer' = [answer EXCEPT ![k] = "allowed"]
    /\ UNCHANGED time

Request(k) == \E left \in Readings(k) :
    \/ /\ Pay(k, left)
       /\ grants' = [grants EXCEPT ![k] = Append(@, time)]
    \/ /\ left < One(k) \/ Recent(k) >= Maximum[k]
       /\ allowance' = [allowance EXCEPT ![k] = left]
       /\ answer' = [answer EXCEPT ![k] = "limited"]
       /\ UNCHANGED <<time, grants>>

\* A request allowed this very moment is charged again: it was sent twice.
Repeat(k) ==
    /\ time \in {grants[k][n] : n \in DOMAIN grants[k]}
    /\ \E left \in Readings(k) : Pay(k, left)
    /\ UNCHANGED grants

Tick ==
    /\ time' = time + 1
    /\ allowance' = [k \in Identities |-> Lesser(Full(k), allowance[k] + Immediate[k] * Grain)]
    /\ UNCHANGED <<grants, answer>>

Next == Tick \/ \E k \in Identities : Request(k) \/ Repeat(k)

Spec == Init /\ [][Next]_<<time, allowance, grants, answer>>
=============================================================================
