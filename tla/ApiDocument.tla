---------------------------- MODULE ApiDocument ----------------------------
(***************************************************************************)
(* internal/openapi/document.go: the statuses the published document lists    *)
(* for an operation.  Five operations stand for the twenty-two: one with a     *)
(* body, a protected one, the callback of Google, and the two health probes.   *)
(***************************************************************************)
EXTENDS Integers

\* Path, SuccessCode, whether there is a Request, and Protected.
operations ==
    [signin   |-> [path |-> "/auth/sign-in", success |-> 200, request |-> TRUE, protected |-> FALSE],
     callback |-> [path |-> "/auth/google/callback", success |-> 302, request |-> FALSE, protected |-> FALSE],
     account  |-> [path |-> "/account", success |-> 200, request |-> FALSE, protected |-> TRUE],
     live     |-> [path |-> "/health/live", success |-> 200, request |-> FALSE, protected |-> FALSE],
     ready    |-> [path |-> "/health/ready", success |-> 200, request |-> FALSE, protected |-> FALSE]]

HealthPaths == {"/health/live", "/health/ready"}

\* Mutant: a tag of its own for every prefix.
tagByPrefix(path) ==
    CASE path \in HealthPaths -> "Health" [] path = "/account" -> "Account"
      [] OTHER -> "Authentication"

tagFor(path) == IF path \in HealthPaths THEN "Health" ELSE "Authentication"

operationResponses(name) ==
    LET endpoint == operations[name] IN
    {endpoint.success, 500}
        \cup (IF endpoint.request \/ endpoint.path = "/auth/google/callback" THEN {400} ELSE {})
        \cup (IF endpoint.protected THEN {401} ELSE {})
        \cup (IF tagFor(endpoint.path) = "Authentication" THEN {429} ELSE {})
        \cup (IF endpoint.path = "/health/ready" THEN {503} ELSE {})
=============================================================================
