--------------------------- MODULE RequestPipeline ---------------------------
(***************************************************************************)
(* A request on its way through the router (cmd/api/router.go): CORS, then   *)
(* request telemetry, then panic recovery; for /auth and /account then the   *)
(* naming of the operation and the traffic limit; then a handler, which may   *)
(* use the database pool.  Requests run concurrently and share the pool, the *)
(* instruments and the clients, which ServerLifecycle opens and closes.       *)
(***************************************************************************)
EXTENDS ApiDocument, FiniteSets

CONSTANTS
    Requests,
    MaxConnections  \* connections of the database pool

ASSUME PoolAssumption == MaxConnections \in Nat \ {0}

\* An OPTIONS request; the two health probes; /openapi.json or /docs; a path
\* without a route; GET /account; POST /auth/sign-in; and a method and path
\* under /auth or /account that Authlier does not serve.
Kinds == {"preflight", "live", "ready", "document", "unmatched", "account", "signin", "unlisted"}

Operations == {"http.request", "user.account.load", "user.account.request", "user.sign_in"}

VARIABLES
    open,       \* the clients that are open
    kind, stage, status,
    operation,  \* the operation each request is to be logged as
    holds,      \* requests that hold a connection of the pool
    active,     \* consumel.http.server.active_requests
    completed,  \* consumel.http.server.requests
    errors,     \* consumel.http.server.errors
    log         \* what each request was logged as

requestVars ==
    <<open, kind, stage, status, operation, holds, active, completed, errors, log>>
instruments == <<active, completed, errors, log>>

classifyHTTPStatus(code) ==
    CASE code < 400 -> [outcome |-> "success", category |-> "none"]
      [] code = 401 -> [outcome |-> "rejected", category |-> "unauthenticated"]
      [] code = 403 -> [outcome |-> "rejected", category |-> "forbidden"]
      [] code = 404 -> [outcome |-> "rejected", category |-> "not_found"]
      [] code = 409 -> [outcome |-> "rejected", category |-> "conflict"]
      [] code = 429 -> [outcome |-> "rejected", category |-> "rate_limited"]
      [] code \in (400..499) \ {401, 403, 404, 409, 429} ->
            [outcome |-> "rejected", category |-> "invalid_request"]
      [] code >= 500 -> [outcome |-> "error", category |-> "server_error"]

\* No record, and the one of recordReadinessFailure.
Unlogged == [operation |-> "none", result |-> classifyHTTPStatus(200)]
ReadinessFailure ==
    [operation |-> "health.readiness.check",
     result |-> [outcome |-> "error", category |-> "dependency_unavailable"]]

PipelineInit ==
    /\ open = {}
    /\ kind = [r \in Requests |-> "none"]
    /\ stage = [r \in Requests |-> "none"]
    /\ status = [r \in Requests |-> 200]
    /\ operation = [r \in Requests |-> "none"]
    /\ holds = {}
    /\ active = 0 /\ completed = 0 /\ errors = 0
    /\ log = [r \in Requests |-> Unlogged]

Health(r) == kind[r] \in {"live", "ready"}

\* Where a handler asks the database, in order, and what a failure there is
\* answered with: any session error is 401, the two queries after it are 500.
Queries == {"ping", "session", "user", "access", "authlier"}
AfterQuery == [ping |-> "respond", session |-> "user", user |-> "access",
               access |-> "respond", authlier |-> "respond"]
Failure == [ping |-> 503, session |-> 401, user |-> 500, access |-> 500, authlier |-> 500]

InFlight == {r \in Requests : stage[r] \notin {"none", "done"}}

Goes(r, from, to) == stage[r] = from /\ stage' = [stage EXCEPT ![r] = to]
Replies(r, from, code) == Goes(r, from, "respond") /\ status' = [status EXCEPT ![r] = code]

\* net/http hands a request of some kind to the router.
Arrive(r) ==
    /\ Goes(r, "none", "cors")
    /\ \E k \in Kinds : kind' = [kind EXCEPT ![r] = k]
    /\ UNCHANGED <<open, status, operation, holds, instruments>>

\* The CORS middleware answers a preflight itself and aborts the chain.
Preflight(r) ==
    /\ kind[r] = "preflight"
    /\ Goes(r, "cors", "done")
    /\ \E code \in {204, 403} : status' = [status EXCEPT ![r] = code]
    /\ UNCHANGED <<open, kind, operation, holds, instruments>>

\* Where the chain goes on after the telemetry middleware.
AfterTelemetry(r) ==
    CASE kind[r] \in {"live", "document", "unmatched"} -> "respond"
      [] kind[r] = "ready" -> "ping"
      [] OTHER -> "naming"

\* The telemetry middleware, before the rest of the chain.
Observe(r) ==
    /\ kind[r] # "preflight"
    /\ Goes(r, "cors", AfterTelemetry(r))
    /\ status' = [status EXCEPT ![r] = IF kind[r] = "unmatched" THEN 404 ELSE 200]
    /\ operation' = [operation EXCEPT ![r] = IF Health(r) THEN "health" ELSE "http.request"]
    /\ active' = IF Health(r) THEN active ELSE active + 1
    /\ UNCHANGED <<open, kind, holds, completed, errors, log>>

\* Mutant: the route is looked up, "/auth/*path", and not the path.
DetailsOfRoute(r) == IF kind[r] = "account" THEN "user.account.load" ELSE "user.account.request"

\* authenticationRequestTelemetry, by method and path, or the unknown request.
Details(r) ==
    CASE kind[r] = "account" -> "user.account.load"
      [] kind[r] = "signin" -> "user.sign_in"
      [] OTHER -> "user.account.request"

\* RequestTelemetry replaces the operation for the completion record.
NameOperation(r) ==
    /\ Goes(r, "naming", "limit")
    /\ operation' = [operation EXCEPT ![r] = Details(r)]
    /\ UNCHANGED <<open, kind, status, holds, instruments>>

\* RateLimitRequests lets a request pass when Redis allows it or fails.
PassLimit(r) ==
    /\ \/ kind[r] = "account" /\ Goes(r, "limit", "session") /\ UNCHANGED status
       \/ kind[r] = "signin" /\ Goes(r, "limit", "authlier") /\ UNCHANGED status
       \/ kind[r] = "unlisted" /\ Replies(r, "limit", 404)
    /\ UNCHANGED <<open, kind, operation, holds, instruments>>

Limited(r) ==
    /\ "redis" \in open
    /\ Replies(r, "limit", 429)
    /\ UNCHANGED <<open, kind, operation, holds, instruments>>

\* The session is in the Redis cache.
CachedSession(r) ==
    /\ "redis" \in open
    /\ r \notin holds
    /\ Goes(r, "session", "user")
    /\ UNCHANGED <<open, kind, status, operation, holds, instruments>>

\* Mutant: a connection is given out however many there are.
AcquireUnbounded(r) ==
    /\ stage[r] \in Queries /\ r \notin holds
    /\ "database" \in open
    /\ holds' = holds \cup {r}
    /\ UNCHANGED <<open, kind, stage, status, operation, instruments>>

\* The pool has a connection to give.
Acquire(r) ==
    /\ stage[r] \in Queries /\ r \notin holds
    /\ "database" \in open
    /\ Cardinality(holds) < MaxConnections
    /\ holds' = holds \cup {r}
    /\ UNCHANGED <<open, kind, stage, status, operation, instruments>>

\* A query succeeds: its connection goes back and the handler goes on.
Queried(r) ==
    /\ r \in holds /\ stage[r] \in Queries
    /\ holds' = holds \ {r}
    /\ Goes(r, stage[r], AfterQuery[stage[r]])
    /\ UNCHANGED <<open, kind, status, operation, instruments>>

\* Mutant: the connection of a failed query is not given back.
QueryFailsLeaking(r) ==
    /\ stage[r] \in Queries
    /\ Replies(r, stage[r], Failure[stage[r]])
    /\ UNCHANGED <<open, kind, operation, holds, instruments>>

\* The pool is closed, or the query fails or is cancelled.
QueryFails(r) ==
    /\ stage[r] \in Queries
    /\ Replies(r, stage[r], Failure[stage[r]])
    /\ holds' = holds \ {r}
    /\ UNCHANGED <<open, kind, operation, instruments>>

\* Mutant: the probe waits for a connection as long as its client does.
PingWaits(r) ==
    /\ stage[r] = "ping" /\ r \in holds
    /\ Replies(r, "ping", 503)
    /\ holds' = holds \ {r}
    /\ UNCHANGED <<open, kind, operation, instruments>>

\* readinessTimeout has passed, whether or not the pool gave it a connection.
PingTimesOut(r) ==
    /\ Replies(r, "ping", 503)
    /\ holds' = holds \ {r}
    /\ UNCHANGED <<open, kind, operation, instruments>>

\* No such session, or what Authlier rejects, before or after a query: a malformed
\* body, credentials that are wrong, an account whose email is not verified
\* (main.go:165), an origin that is not trusted (main.go:161), an attempt that a
\* guard blocks.  Which of these statuses it chooses is Authlier's affair.
Rejects(r) ==
    /\ stage[r] \in {"session", "authlier"}
    /\ \E code \in IF stage[r] = "session" THEN {401} ELSE {400, 401, 403, 429} :
        Replies(r, stage[r], code)
    /\ holds' = holds \ {r}
    /\ UNCHANGED <<open, kind, operation, instruments>>

\* Mutant: recovery is registered before telemetry, not after.
PanicsPastTelemetry(r) ==
    /\ stage[r] \in Queries \ {"ping"} /\ r \notin holds
    /\ Goes(r, stage[r], "done") /\ status' = [status EXCEPT ![r] = 500]
    /\ UNCHANGED <<open, kind, operation, holds, instruments>>

\* A handler panics; gin.Recovery, inside telemetry, answers 500.
Panics(r) ==
    /\ stage[r] \in Queries \ {"ping"} /\ r \notin holds
    /\ Replies(r, stage[r], 500)
    /\ UNCHANGED <<open, kind, operation, holds, instruments>>

\* The telemetry middleware, after the rest of the chain.  Of health probes only
\* a failed readiness check is recorded.
Respond(r) ==
    LET result == classifyHTTPStatus(status[r]) IN
    /\ Goes(r, "respond", "done")
    /\ IF Health(r)
       THEN /\ log' = [log EXCEPT ![r] =
                   IF kind[r] = "ready" /\ status[r] >= 500 THEN ReadinessFailure ELSE Unlogged]
            /\ UNCHANGED <<active, completed, errors>>
       ELSE /\ active' = active - 1
            /\ completed' = completed + 1
            /\ errors' = IF status[r] >= 500 THEN errors + 1 ELSE errors
            /\ log' = [log EXCEPT ![r] = [operation |-> operation[r], result |-> result]]
    /\ UNCHANGED <<open, kind, status, operation, holds>>

\* What a request's goroutine does without waiting for PostgreSQL: calls of
\* Redis and the readiness check have timeouts.
Handles(r) ==
    \/ Preflight(r) \/ Observe(r) \/ NameOperation(r) \/ PassLimit(r) \/ Limited(r)
    \/ PingTimesOut(r) \/ Respond(r)

\* What it does about a query.
Asks(r) ==
    \/ CachedSession(r) \/ Acquire(r) \/ Queried(r) \/ QueryFails(r) \/ Rejects(r) \/ Panics(r)

-----------------------------------------------------------------------------

\* The operation that the API documents call a request.
OwnOperation(r) ==
    CASE kind[r] = "account" -> "user.account.load"
      [] kind[r] = "signin" -> "user.sign_in"
      [] kind[r] = "unlisted" -> "user.account.request"
      [] OTHER -> "http.request"

\* The active-request gauge is the number of requests between the two halves of
\* the telemetry middleware, panics and failures included, and every such
\* request is counted and logged in the end, as its own operation and with the
\* status it was answered with, one that the limit refused or that panicked
\* included; of the health probes only a failed readiness check is logged
\* (http.go:112-177).
TelemetryAccounts ==
    LET observed == {r \in Requests : kind[r] # "preflight" /\ ~Health(r)}
        finished == {r \in observed : stage[r] = "done"}
    IN
    /\ active = Cardinality({r \in observed : stage[r] \notin {"none", "cors", "done"}})
    /\ completed = Cardinality(finished)
    /\ errors = Cardinality({r \in finished : status[r] >= 500})
    /\ \A r \in finished :
        log[r] = [operation |-> OwnOperation(r), result |-> classifyHTTPStatus(status[r])]
    /\ \A r \in Requests :
        log[r] = ReadinessFailure <=> kind[r] = "ready" /\ stage[r] = "done" /\ status[r] = 503

\* Every answer of the account request and of the two health probes, which this
\* repository answers itself, has a status that the document lists for it, whatever
\* fails on the way: the limit, the pool, the session, a query, the timeout of a
\* probe or a panic (document.go:146-167).
AnswersAreDocumented ==
    \A r \in Requests : stage[r] = "done" /\ kind[r] \in {"account", "live", "ready"} =>
        status[r] \in operationResponses(kind[r])
=============================================================================
