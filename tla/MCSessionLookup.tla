--------------------------- MODULE MCSessionLookup ---------------------------
(***************************************************************************)
(* Two request slots over one or two API instances and one session: a slot   *)
(* is used again when its request is done, so that a lookup, a revocation    *)
(* and later lookups follow each other; nothing bounds how often.            *)
(***************************************************************************)
EXTENDS SessionLookup
=============================================================================
