---------------------------- MODULE MCRateLimiter ----------------------------
(***************************************************************************)
(* A small rule for RateLimiter, and a small machine.  A clock unit restores  *)
(* a third of a request, which is none of the machine's numbers, the          *)
(* multiples of 1/16: three refills in a row do not make a request.  The      *)
(* window is longer than the restoration, so that the hard limit is reached   *)
(* only after the allowance was spent and restored.                          *)
(***************************************************************************)
EXTENDS RateLimiter

MCImmediate == [k \in Identities |-> 2]
MCRestoreOver == [k \in Identities |-> 6]
MCMaximum == [k \in Identities |-> 3]
MCHigherMaximum == [k \in Identities |-> 8]
MCWindow == [k \in Identities |-> 7]

\* The multiple of step next to x.
Nearest(x, step) == ((2 * x + step) \div (2 * step)) * step

\* 1/16 of a request is RestoreOver units, and in 1/16 of a clock unit
\* Immediate units are restored.
MCRounded == [k \in Identities |->
                 [x \in 0..2 * Full(k) + Error |-> Nearest(x, (RestoreOver[k] * Grain) \div 16)]]
MCWaited == [k \in Identities |->
                [x \in 1..One(k) |-> Nearest(x, (Immediate[k] * Grain) \div 16)]]

\* Clocks agree and a request is on its way for less than a clock unit.
MCPrompt == [i \in Instances |-> {0}]

\* Clocks agree, but a request may take two units to reach Redis, or reach it
\* again after as long.
MCLate == [i \in Instances |-> {-2, 0}]
=============================================================================
