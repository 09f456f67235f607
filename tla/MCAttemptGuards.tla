--------------------------- MODULE MCAttemptGuards ---------------------------
(***************************************************************************)
(* Three attempts on one account from two source IPs behind one proxy         *)
(* address; the rule of the account allows two of them.                       *)
(***************************************************************************)
EXTENDS AttemptGuards, TLC

CONSTANTS proxy, ip1, ip2, email, i1, a1, a2, a3

MCRule(whole, atProxy, atSource) ==
    [k \in Identities |->
        CASE k = email -> whole [] k = proxy -> atProxy [] OTHER -> atSource]

MCImmediate == MCRule(2, 2, 2)
MCRestoreOver == MCRule(2, 3, 2)
MCMaximum == MCRule(2, 2, 2)
MCWindow == MCRule(2, 3, 2)
\* What these rules restore in a clock unit is rounded nowhere.
MCRounded == [k \in Identities |-> [x \in 0..2 * Full(k) + Error |-> x]]
MCWaited == [k \in Identities |-> [x \in 1..One(k) |-> x]]

MCPrompt == [i \in Instances |-> {0}]
MCRequestKey == [a \in Attempts |-> proxy]
MCSourceKey == [a \in Attempts |-> IF a = a1 THEN ip1 ELSE ip2]
MCIdentityKey == [a \in Attempts |-> email]

\* a2 and a3 come from the same source.
MCSymmetry == Permutations({a2, a3})
=============================================================================
