-------------------------- MODULE MCServerLifecycle --------------------------
(***************************************************************************)
(* Two requests and a pool of one connection: one waits for the connection   *)
(* the other holds while the process shuts down around them.  Each layer of   *)
(* the configuration sets everything well but at most one setting.            *)
(***************************************************************************)
EXTENDS ServerLifecycle

OneAmiss ==
    {[s \in Settings |-> IF s = odd THEN v ELSE "good"] : odd \in Settings, v \in Values}
        \cup {[s \in Settings |-> IF s = odd THEN v ELSE "unset"] : odd \in Settings, v \in Values}
=============================================================================
