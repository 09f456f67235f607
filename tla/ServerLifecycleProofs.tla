------------------------ MODULE ServerLifecycleProofs ------------------------
(***************************************************************************)
(* What holds of startup and shutdown, and of the requests served in between,  *)
(* for any number of requests, any pool and any configuration.                 *)
(***************************************************************************)
EXTENDS ServerLifecycle, FiniteSetTheorems, TLAPS

ServingSteps == {"notifying", "serving", "draining", "stopping"}
ClosingSteps ==
    {"closing redis", "closing database", "awaiting connections", "closing logs",
     "closing metrics", "closing traces", "returned"}

\* The types of what run itself works with; stage need only be a function.
ProcessTypes ==
    /\ stage = [r \in Requests |-> stage[r]]
    /\ proc \in Startup \cup ServingSteps \cup ClosingSteps
    /\ listener \in {"none", "starting", "listening", "stopped"}
    /\ channel \in {"empty", "nil", "error"}
    /\ run_error \in BOOLEAN
    /\ drain \in {"none", "running", "clean", "timed out"}
    /\ exit \in {"none", "zero", "nonzero", "killed"}

\* Which clients are open is a matter of where run stands.
OpenByStep ==
    /\ proc \in {"config", "traces", "returned"} => open = {}
    /\ proc \in {"metrics", "closing traces"} => open = {"traces"}
    /\ proc \in {"logs", "closing metrics"} => open = {"traces", "metrics"}
    /\ proc \in {"database", "awaiting connections", "closing logs"} => open = Providers
    /\ proc \in {"migrations", "redis"} => open = Providers \cup {"database"}
    /\ proc \in {"wiring"} \cup ServingSteps => open = Clients
    /\ proc = "closing redis" =>
        open \in {Providers, Providers \cup {"database"}, Clients}
    /\ proc = "closing database" => open \in {Providers, Providers \cup {"database"}}

\* What failed is in run_error, or on its way to it through the channel.
FailureInHand ==
    /\ proc \in Startup =>
        failed = {} /\ ~run_error /\ listener = "none" /\ channel = "empty" /\ drain = "none"
    /\ proc \in ServingSteps =>
        /\ ~run_error
        /\ failed = IF channel = "error" THEN {"serve"} ELSE {}
        /\ listener # "none"
        /\ drain = "none" <=> proc \in {"notifying", "serving"}
    /\ proc \in ClosingSteps =>
        /\ run_error <=> failed # {}
        /\ listener \in {"none", "stopped"} \/ (drain = "timed out" /\ run_error)
    /\ listener \in {"starting", "listening"} => channel = "empty"
    /\ channel = "nil" => drain # "none"
    /\ exit \in {"zero", "nonzero"} => proc = "returned" /\ (exit = "zero" <=> ~run_error)

\* Who may still be in flight.
InFlightByStep ==
    /\ proc = "stopping" => drain = "clean"
    /\ proc = "draining" => drain = "running"
    /\ proc \in ClosingSteps => drain # "running"
    /\ listener = "none" \/ drain = "clean" => InFlight = {} /\ connected = {}
    /\ proc \in ClosingSteps /\ drain = "none" => listener = "none" \/ "serve" \in failed

ProcessInvariant ==
    ProcessTypes /\ OpenByStep /\ FailureInHand /\ InFlightByStep

-----------------------------------------------------------------------------

\* A step of a request's goroutine leaves the clients alone and takes nobody into
\* flight.
LEMMA RequestStep ==
    ASSUME stage = [q \in Requests |-> stage[q]],
           NEW r \in Requests, Handles(r) \/ Asks(r)
    PROVE  /\ open' = open
           /\ stage' = [q \in Requests |-> stage'[q]]
           /\ InFlight' \subseteq InFlight /\ r \in InFlight
<1> DEFINE Moves == \E to : stage' = [stage EXCEPT ![r] = to]
<1>1. open' = open /\ stage[r] \notin {"none", "done"} /\ (stage' = stage \/ Moves)
  <2>1. CASE Preflight(r)
    BY <2>1 DEF Preflight, Goes
  <2>2. CASE Observe(r)
    BY <2>2 DEF Observe, Goes
  <2>3. CASE NameOperation(r)
    BY <2>3 DEF NameOperation, Goes
  <2>4. CASE PassLimit(r)
    BY <2>4 DEF PassLimit, Replies, Goes
  <2>5. CASE Limited(r)
    BY <2>5 DEF Limited, Replies, Goes
  <2>6. CASE PingTimesOut(r)
    BY <2>6 DEF PingTimesOut, Replies, Goes
  <2>7. CASE Respond(r)
    BY <2>7 DEF Respond, Goes
  <2>8. CASE CachedSession(r)
    BY <2>8 DEF CachedSession, Goes
  <2>9. CASE Acquire(r)
    BY <2>9 DEF Acquire, Queries
  <2>10. CASE Queried(r)
    BY <2>10 DEF Queried, Queries, Goes
  <2>11. CASE QueryFails(r)
    BY <2>11 DEF QueryFails, Queries, Replies, Goes
  <2>12. CASE Rejects(r)
    BY <2>12 DEF Rejects, Replies, Goes
  <2>13. CASE Panics(r)
    BY <2>13 DEF Panics, Queries, Replies, Goes
  <2> QED
    BY <2>1, <2>2, <2>3, <2>4, <2>5, <2>6, <2>7, <2>8, <2>9, <2>10, <2>11, <2>12, <2>13
       DEF Handles, Asks
<1> QED
  BY <1>1 DEF InFlight

\* The process starts with nothing open and nothing failed.
LEMMA InitProcess == Init => ProcessInvariant
  BY DEF Init, PipelineInit, ProcessInvariant, ProcessTypes, OpenByStep, FailureInHand,
     InFlightByStep, InFlight, Startup, AfterStartup, ServingSteps, ClosingSteps

\* Each step of run, of the listener, of a signal or of a request keeps it.
LEMMA NextProcess == ProcessInvariant /\ [Next]_vars => ProcessInvariant'
<1> SUFFICES ASSUME ProcessInvariant, [Next]_vars PROVE ProcessInvariant'
  OBVIOUS
<1> USE DEF ProcessInvariant, ProcessTypes, OpenByStep, FailureInHand, InFlightByStep,
        InFlight, Startup, AfterStartup, ServingSteps, ClosingSteps, Clients, Providers
<1>1. CASE StartUp
  <2> USE <1>1 DEF StartUp
  <2>1. CASE proc = "config"
    <3>1. proc' = "traces" /\ open' = {} /\ listener' = listener
      BY <2>1 DEF RunGoes
    <3> QED
      BY <2>1, <3>1 DEF requestState
  <2>2. CASE proc = "traces"
    <3>1. proc' = "metrics" /\ open' = {"traces"} /\ listener' = listener
      BY <2>2 DEF RunGoes
    <3> QED
      BY <2>2, <3>1 DEF requestState
  <2>3. CASE proc = "metrics"
    <3>1. proc' = "logs" /\ open' = {"traces", "metrics"} /\ listener' = listener
      BY <2>3 DEF RunGoes
    <3> QED
      BY <2>3, <3>1 DEF requestState
  <2>4. CASE proc = "logs"
    <3>1. proc' = "database" /\ open' = Providers /\ listener' = listener
      BY <2>4 DEF RunGoes
    <3> QED
      BY <2>4, <3>1 DEF requestState
  <2>5. CASE proc = "database"
    <3>1. proc' = "migrations" /\ open' = Providers \cup {"database"} /\ listener' = listener
      BY <2>5 DEF RunGoes
    <3> QED
      BY <2>5, <3>1 DEF requestState
  <2>6. CASE proc = "migrations"
    <3>1. proc' = "redis" /\ open' = Providers \cup {"database"} /\ listener' = listener
      BY <2>6 DEF RunGoes
    <3> QED
      BY <2>6, <3>1 DEF requestState
  <2>7. CASE proc = "redis"
    <3>1. proc' = "wiring" /\ open' = Clients /\ listener' = listener
      BY <2>7 DEF RunGoes
    <3> QED
      BY <2>7, <3>1 DEF requestState
  <2>8. CASE proc = "wiring"
    <3>1. proc' = "notifying" /\ open' = Clients /\ listener' = "starting"
      BY <2>8 DEF RunGoes
    <3> QED
      BY <2>8, <3>1 DEF requestState
  <2> QED
    BY <2>1, <2>2, <2>3, <2>4, <2>5, <2>6, <2>7, <2>8
<1>2. CASE StartUpFails
  BY <1>2 DEF StartUpFails, RunGoes, Undo, requestState
<1>3. CASE Listen
  BY <1>3 DEF Listen, requestVars
<1>4. CASE ListenerFails
  <2>0. /\ proc \notin Startup
        /\ proc \in ClosingSteps => drain = "timed out" /\ run_error
    <3>1. listener \in {"starting", "listening"}
      BY <1>4 DEF ListenerFails
    <3> QED
      BY <3>1
  <2>1. ProcessTypes'
    BY <1>4, <2>0 DEF ListenerFails, requestVars
  <2>2. OpenByStep'
    BY <1>4, <2>0 DEF ListenerFails, requestVars
  <2>3. FailureInHand'
    BY <1>4, <2>0 DEF ListenerFails, requestVars
  <2>4. InFlightByStep'
    BY <1>4, <2>0 DEF ListenerFails, requestVars
  <2> QED
    BY <2>1, <2>2, <2>3, <2>4
<1>5. CASE ListenerCloses
  <2>1. ProcessTypes'
    BY <1>5 DEF ListenerCloses, requestVars
  <2>2. OpenByStep'
    BY <1>5 DEF ListenerCloses, requestVars
  <2>3. FailureInHand'
    BY <1>5 DEF ListenerCloses, requestVars
  <2>4. InFlightByStep'
    BY <1>5 DEF ListenerCloses, requestVars
  <2> QED
    BY <2>1, <2>2, <2>3, <2>4
<1>6. CASE Signal
  <2>1. ProcessTypes'
    BY <1>6 DEF Signal, requestVars
  <2>2. OpenByStep'
    BY <1>6 DEF Signal, requestVars
  <2>3. FailureInHand'
    BY <1>6 DEF Signal, requestVars
  <2>4. InFlightByStep'
    BY <1>6 DEF Signal, requestVars
  <2> QED
    BY <2>1, <2>2, <2>3, <2>4
<1>7. CASE SignalKills
  <2>1. ProcessTypes'
    BY <1>7 DEF SignalKills, requestVars
  <2>2. OpenByStep'
    BY <1>7 DEF SignalKills, requestVars
  <2>3. FailureInHand'
    BY <1>7 DEF SignalKills, requestVars
  <2>4. InFlightByStep'
    BY <1>7 DEF SignalKills, requestVars
  <2> QED
    BY <2>1, <2>2, <2>3, <2>4
<1>8. CASE ServeReturns
  <2>1. ProcessTypes'
    BY <1>8 DEF ServeReturns, RunGoes, requestVars
  <2>2. OpenByStep'
    BY <1>8 DEF ServeReturns, RunGoes, requestVars
  <2>3. FailureInHand'
    BY <1>8 DEF ServeReturns, RunGoes, requestVars
  <2>4. InFlightByStep'
    BY <1>8 DEF ServeReturns, RunGoes, requestVars
  <2> QED
    BY <2>1, <2>2, <2>3, <2>4
<1>9. CASE SeeSignal
  BY <1>9 DEF SeeSignal, RunGoes, requestVars
<1>10. CASE Drained
  BY <1>10 DEF Drained, RunGoes, requestVars
<1>11. CASE DrainTimesOut
  BY <1>11 DEF DrainTimesOut, RunGoes, requestVars
<1>12. CASE ServerStopped
  BY <1>12 DEF ServerStopped, RunGoes, requestVars
<1>13. CASE CloseRedis
  BY <1>13 DEF CloseRedis, RunGoes, requestState
<1>14. CASE CloseDatabase
  BY <1>14 DEF CloseDatabase, RunGoes, requestState
<1>15. CASE ConnectionsReturned
  BY <1>15 DEF ConnectionsReturned, RunGoes, requestVars
<1>16. ASSUME NEW provider \in Providers, ShutdownProvider(provider) PROVE ProcessInvariant'
  <2>0. /\ proc \in {"closing logs", "closing metrics", "closing traces"} /\ exit = "none"
        /\ run_error' \in BOOLEAN /\ (run_error' <=> failed' # {})
        /\ "serve" \in failed => "serve" \in failed'
        /\ run_error => run_error'
        /\ UNCHANGED <<requestState, cfg, listener, connected, channel, signalled, drain, exit>>
    <3>1. proc \in {"closing logs", "closing metrics", "closing traces"} /\ exit = "none"
      <4>1. Closing[provider] \in {"closing logs", "closing metrics", "closing traces"}
        BY <1>16, Closing["logs"] = "closing logs", Closing["metrics"] = "closing metrics",
           Closing["traces"] = "closing traces"
           DEF Closing
      <4> QED
        BY <1>16, <4>1 DEF ShutdownProvider, RunGoes
    <3>2. CASE UNCHANGED <<run_error, failed>>
      BY <1>16, <3>1, <3>2 DEF ShutdownProvider
    <3>3. CASE run_error' = TRUE /\ failed' = failed \cup {"telemetry"}
      BY <1>16, <3>1, <3>3 DEF ShutdownProvider
    <3> QED
      BY <1>16, <3>2, <3>3 DEF ShutdownProvider
  <2>1. CASE provider = "logs"
    <3>1. proc = "closing logs" /\ proc' = "closing metrics" /\ open' = {"traces", "metrics"}
      BY <1>16, <2>1 DEF ShutdownProvider, RunGoes, Closing, AfterProvider
    <3> QED
      BY <2>0, <3>1 DEF requestState
  <2>2. CASE provider = "metrics"
    <3>1. proc = "closing metrics" /\ proc' = "closing traces" /\ open' = {"traces"}
      BY <1>16, <2>2 DEF ShutdownProvider, RunGoes, Closing, AfterProvider
    <3> QED
      BY <2>0, <3>1 DEF requestState
  <2>3. CASE provider = "traces"
    <3>1. proc = "closing traces" /\ proc' = "returned" /\ open' = {}
      BY <1>16, <2>3 DEF ShutdownProvider, RunGoes, Closing, AfterProvider
    <3> QED
      BY <2>0, <3>1 DEF requestState
  <2> QED
    BY <1>16, <2>1, <2>2, <2>3
<1>17. CASE Exit
  BY <1>17 DEF Exit, RunGoes, requestVars
<1>18. ASSUME NEW r \in Requests, Connect(r) \/ Accept(r) \/ Disconnect(r) PROVE ProcessInvariant'
  <2>0. listener # "none" /\ drain # "clean"
    <3>1. CASE Connect(r)
      BY <3>1 DEF Connect
    <3>2. CASE r \in connected
      BY <3>2
    <3> QED
      BY <1>18, <3>1, <3>2 DEF Accept, Disconnect
  <2>1. CASE Connect(r)
    BY <2>0, <2>1 DEF Connect, requestVars
  <2>2. CASE Accept(r)
    <3>1. /\ UNCHANGED <<open, proc, listener, channel, drain, run_error, exit, failed>>
          /\ stage' = [stage EXCEPT ![r] = "cors"]
      BY <2>2 DEF Accept, Arrive, Goes
    <3>2. ProcessTypes'
      BY <3>1
    <3>3. OpenByStep'
      BY <3>1
    <3>4. FailureInHand'
      BY <3>1
    <3>5. InFlightByStep'
      BY <2>0, <3>1
    <3> QED
      BY <3>2, <3>3, <3>4, <3>5
  <2>3. CASE Disconnect(r)
    <3>1. UNCHANGED <<stage, open, proc, listener, channel, drain, run_error, exit, failed>>
      BY <2>3 DEF Disconnect, requestVars
    <3>2. ProcessTypes'
      BY <3>1
    <3>3. OpenByStep'
      BY <3>1
    <3>4. FailureInHand'
      BY <3>1
    <3>5. InFlightByStep'
      BY <2>0, <3>1
    <3> QED
      BY <3>2, <3>3, <3>4, <3>5
  <2> QED
    BY <1>18, <2>1, <2>2, <2>3
<1>19. ASSUME NEW r \in Requests, Serve(r) \/ Query(r) PROVE ProcessInvariant'
  <2>0. /\ UNCHANGED processVars /\ open' = open
        /\ stage' = [q \in Requests |-> stage'[q]] /\ InFlight' \subseteq InFlight
    BY <1>19, RequestStep DEF Serve, Query
  <2>1. ProcessTypes'
    BY <2>0 DEF processVars
  <2>2. OpenByStep'
    BY <2>0 DEF processVars
  <2>3. FailureInHand'
    BY <2>0 DEF processVars
  <2>4. InFlightByStep'
    BY <2>0 DEF processVars
  <2> QED
    BY <2>1, <2>2, <2>3, <2>4
<1>20. CASE Notify
  BY <1>20 DEF Notify, RunGoes, requestVars
<1>21. CASE UNCHANGED vars
  <2>1. ProcessTypes'
    BY <1>21 DEF vars, requestVars, processVars
  <2>2. OpenByStep'
    BY <1>21 DEF vars, requestVars, processVars
  <2>3. FailureInHand'
    BY <1>21 DEF vars, requestVars, processVars
  <2>4. InFlightByStep'
    BY <1>21 DEF vars, requestVars, processVars
  <2> QED
    BY <2>1, <2>2, <2>3, <2>4
<1> QED
  BY <1>1, <1>2, <1>3, <1>4, <1>5, <1>6, <1>7, <1>8, <1>9, <1>10, <1>11, <1>12, <1>13, <1>14, <1>15, <1>16, <1>17,
     <1>18, <1>19, <1>20, <1>21 DEF Next, Run

\* Every state of the process is one where what is open, what has failed and who
\* is in flight follow from where run stands (main.go:51-228, server.go:21-66).
THEOREM ProcessInvariantHolds == Spec => []ProcessInvariant
<1> QED
  BY InitProcess, NextProcess, PTL DEF Spec

\* A client is only open while what it was opened after is, whichever step of
\* startup fails, and a process that ends by itself leaves none open
\* (main.go:62-104, telemetry.go:70-88).
THEOREM ClosesInReverse == Spec => []ClosedInReverse
<1>1. ProcessInvariant => ClosedInReverse
  BY DEF ProcessInvariant, ProcessTypes, OpenByStep, FailureInHand, ClosedInReverse, Startup,
     AfterStartup, ServingSteps, ClosingSteps, Clients, Providers
<1> QED
  BY <1>1, ProcessInvariantHolds, PTL

\* The exit status is that of the failures, in whatever order the listener fails
\* and the signal comes (server.go:43-62, main.go:45-48).
THEOREM ExitIsTold == Spec => []ExitTellsFailure
<1>1. ProcessInvariant => ExitTellsFailure
  BY DEF ProcessInvariant, ProcessTypes, FailureInHand, ExitTellsFailure, Startup, AfterStartup,
     ServingSteps, ClosingSteps
<1> QED
  BY <1>1, ProcessInvariantHolds, PTL

\* Requests lose their dependencies only to a Shutdown that gave up on them or to
\* a listener that failed (server.go:53-59).
THEOREM DependenciesOutlive == Spec => []DependenciesOutliveRequests
<1>1. ProcessInvariant => DependenciesOutliveRequests
  BY DEF ProcessInvariant, ProcessTypes, OpenByStep, FailureInHand, InFlightByStep,
     DependenciesOutliveRequests, Startup, AfterStartup, ServingSteps, ClosingSteps
<1> QED
  BY <1>1, ProcessInvariantHolds, PTL

-----------------------------------------------------------------------------

\* The stages between the two halves of the telemetry middleware.
Observed == {"naming", "limit", "respond"} \cup Queries
Stages == {"none", "cors", "done"} \cup Observed
Statuses == {200, 204, 400, 401, 403, 404, 429, 500, 503}
Unrecorded == {"none", "preflight", "live", "ready"}

\* The stages that a request of some kind passes, and what it is answered with.
Passes(k, s) ==
    \/ k = "none" /\ s = "none"
    \/ k = "preflight" /\ s \in {"cors", "done"}
    \/ k \in {"live", "document", "unmatched"} /\ s \in {"cors", "respond", "done"}
    \/ k = "ready" /\ s \in {"cors", "ping", "respond", "done"}
    \/ k = "account"
        /\ s \in {"cors", "naming", "limit", "session", "user", "access", "respond", "done"}
    \/ k = "signin" /\ s \in {"cors", "naming", "limit", "authlier", "respond", "done"}
    \/ k = "unlisted" /\ s \in {"cors", "naming", "limit", "respond", "done"}

Answered(k, c) ==
    \/ k = "preflight" /\ c \in {204, 403}
    \/ k \in {"live", "document"} /\ c = 200
    \/ k = "unmatched" /\ c = 404
    \/ k = "ready" /\ c \in {200, 503}
    \/ k = "account" /\ c \in {200, 401, 429, 500}
    \/ k = "signin" /\ c \in {200, 400, 401, 403, 429, 500}
    \/ k = "unlisted" /\ c \in {404, 429}

Named(k) ==
    IF k = "account" THEN "user.account.load"
    ELSE IF k = "signin" THEN "user.sign_in"
    ELSE IF k = "unlisted" THEN "user.account.request" ELSE "http.request"

\* What the log says of a request: a probe only has a record if it failed.
Logged(k, s, c) ==
    IF s # "done" \/ k \in Unrecorded
    THEN IF s = "done" /\ k = "ready" /\ c = 503 THEN ReadinessFailure ELSE Unlogged
    ELSE [operation |-> Named(k), result |-> classifyHTTPStatus(c)]

\* What is known of a request by the stage it has come to.
Progress(k, s, c, o, l) ==
    /\ k \in Kinds \cup {"none"} /\ s \in Stages /\ Passes(k, s)
    /\ IF s \in {"respond", "done"} THEN Answered(k, c) ELSE c = 200
    /\ o \in {"none", "health"} \cup Operations
    /\ k \notin Unrecorded /\ s \notin {"none", "cors"} =>
        o = IF s = "naming" THEN "http.request" ELSE Named(k)
    /\ l = Logged(k, s, c)

InProgress(r) == Progress(kind[r], stage[r], status[r], operation[r], log[r])

\* Every step of a request is a step of these functions at that request.
RequestFunctions ==
    /\ kind = [r \in Requests |-> kind[r]]
    /\ stage = [r \in Requests |-> stage[r]]
    /\ status = [r \in Requests |-> status[r]]
    /\ operation = [r \in Requests |-> operation[r]]
    /\ log = [r \in Requests |-> log[r]]

\* Who the instruments count.
Arrived == {r \in Requests : stage[r] # "none"}
Between == {r \in Requests : kind[r] \notin Unrecorded /\ stage[r] \in Observed}
Finished == {r \in Requests : kind[r] \notin Unrecorded /\ stage[r] = "done"}
Failing == {r \in Finished : status[r] >= 500}

Accounts ==
    /\ IsFiniteSet(Arrived)
    /\ active = Cardinality(Between)
    /\ completed = Cardinality(Finished)
    /\ errors = Cardinality(Failing)

\* Connections are held by requests that are at a query.
PoolInvariant ==
    /\ holds \subseteq {r \in Requests : stage[r] \in Queries}
    /\ Cardinality(holds) <= MaxConnections

RequestInvariant ==
    /\ RequestFunctions
    /\ \A r \in Requests : InProgress(r)
    /\ Accounts
    /\ PoolInvariant

\* A step that changes the request r alone, to these values.
Moves(r, k, s, c, o, l) ==
    /\ kind' = [kind EXCEPT ![r] = k]
    /\ stage' = [stage EXCEPT ![r] = s]
    /\ status' = [status EXCEPT ![r] = c]
    /\ operation' = [operation EXCEPT ![r] = o]
    /\ log' = [log EXCEPT ![r] = l]

-----------------------------------------------------------------------------

\* Nobody has arrived when the process starts.
LEMMA InitRequests == Init => RequestInvariant
<1> SUFFICES ASSUME Init PROVE RequestInvariant
  OBVIOUS
<1> USE DEF Init, PipelineInit
<1>1. RequestFunctions
  BY DEF RequestFunctions
<1>2. ASSUME NEW r \in Requests PROVE InProgress(r)
  BY DEF InProgress, Progress, Passes, Stages, Observed, Logged, Unrecorded
<1>3. Arrived = {} /\ Between = {} /\ Finished = {} /\ Failing = {}
  BY DEF Arrived, Between, Finished, Failing, Observed, Queries
<1>4. Accounts /\ PoolInvariant
  BY <1>3, FS_EmptySet, PoolAssumption DEF Accounts, PoolInvariant
<1> QED
  BY <1>1, <1>2, <1>4 DEF RequestInvariant

\* What a step makes of a request that is in progress.
LEMMA ProgressGoesOn ==
    ASSUME NEW k, NEW s, NEW c, NEW o, NEW l, Progress(k, s, c, o, l)
    PROVE  /\ s = "none" => \A j \in Kinds : Progress(j, "cors", c, o, l)
           /\ k = "preflight" /\ s = "cors" => \A d \in {204, 403} : Progress(k, "done", d, o, l)
           /\ s = "cors" =>
                /\ k = "live" \/ k = "document" =>
                    Progress(k, "respond", 200, IF k = "live" THEN "health" ELSE "http.request", l)
                /\ k = "unmatched" => Progress(k, "respond", 404, "http.request", l)
                /\ k = "ready" => Progress(k, "ping", 200, "health", l)
                /\ k \in {"account", "signin", "unlisted"} =>
                    Progress(k, "naming", 200, "http.request", l)
           /\ s = "naming" => Progress(k, "limit", c, Named(k), l)
           /\ s = "limit" =>
                /\ Progress(k, "respond", 429, o, l)
                /\ k = "account" => Progress(k, "session", c, o, l)
                /\ k = "signin" => Progress(k, "authlier", c, o, l)
                /\ k = "unlisted" => Progress(k, "respond", 404, o, l)
           /\ s = "session" => Progress(k, "user", c, o, l)
           /\ s = "user" => Progress(k, "access", c, o, l)
           /\ s \in {"ping", "access", "authlier"} => Progress(k, "respond", c, o, l)
           /\ s = "ping" => Progress(k, "respond", 503, o, l)
           /\ s = "session" => Progress(k, "respond", 401, o, l)
           /\ s = "authlier" => \A d \in {400, 401, 403, 429} : Progress(k, "respond", d, o, l)
           /\ s \in Queries \ {"ping"} => Progress(k, "respond", 500, o, l)
           /\ s = "respond" => Progress(k, "done", c, o, Logged(k, "done", c))
<1> USE DEF Progress, Passes, Answered, Named, Stages, Observed, Queries, Unrecorded,
        Operations, Kinds
<1>1. \A j, t, d : t # "done" => Logged(j, t, d) = Unlogged
  BY DEF Logged
<1>2. \A d : Logged("preflight", "done", d) = Unlogged
  BY DEF Logged
<1>3. s # "done" => l = Unlogged
  BY <1>1
<1>4. CASE s = "none"
  <2>1. k = "none" /\ c = 200 /\ l = Unlogged
    BY <1>3, <1>4
  <2>2. ASSUME NEW j \in Kinds PROVE Progress(j, "cors", c, o, l)
    BY <1>1, <2>1
  <2> QED
    BY <1>4, <2>2
<1>5. CASE s = "cors"
  <2>1. c = 200 /\ l = Unlogged /\ o \in {"none", "health"} \cup Operations
    BY <1>3, <1>5
  <2>2. CASE k = "preflight"
    BY <1>1, <1>2, <1>5, <2>1, <2>2
  <2>3. CASE k \in {"live", "document", "unmatched", "ready"}
    BY <1>1, <1>5, <2>1, <2>3
  <2>4. CASE k \in {"account", "signin", "unlisted"}
    BY <1>1, <1>5, <2>1, <2>4
  <2>5. k \in Kinds
    BY <1>5
  <2> HIDE DEF Progress
  <2> QED
    BY <1>5, <2>2, <2>3, <2>4, <2>5
<1>6. CASE s = "naming"
  BY <1>1, <1>3, <1>6
<1>7. CASE s = "limit"
  BY <1>1, <1>3, <1>7
<1>8. CASE s \in Queries
  BY <1>1, <1>3, <1>8
<1>9. CASE s = "respond"
  BY <1>1, <1>3, <1>9
<1>10. CASE s = "done"
  <2>1. s \notin {"none", "cors", "naming", "limit", "respond"} \cup Queries
    BY <1>10
  <2> HIDE DEF Progress
  <2> QED
    BY <2>1
<1>11. s \in Stages
  OBVIOUS
<1> HIDE DEF Progress
<1> QED
  BY <1>4, <1>5, <1>6, <1>7, <1>8, <1>9, <1>10, <1>11

\* Whatever a request does takes it to a stage of its kind.
LEMMA RequestMoves ==
    ASSUME RequestFunctions, NEW r \in Requests, InProgress(r),
           Arrive(r) \/ Handles(r) \/ Asks(r)
    PROVE  \E k, s, c, o, l : Moves(r, k, s, c, o, l) /\ Progress(k, s, c, o, l)
<1> DEFINE k == kind[r]
           s == stage[r]
           c == status[r]
           o == operation[r]
           l == log[r]
<1>1. Progress(k, s, c, o, l)
  BY DEF InProgress
<1>2. /\ kind = [kind EXCEPT ![r] = k] /\ stage = [stage EXCEPT ![r] = s]
      /\ status = [status EXCEPT ![r] = c] /\ operation = [operation EXCEPT ![r] = o]
      /\ log = [log EXCEPT ![r] = l]
  BY DEF RequestFunctions
<1> USE DEF Goes, Replies, instruments
<1>3. CASE Arrive(r)
  <2>1. PICK j \in Kinds : kind' = [kind EXCEPT ![r] = j]
    BY <1>3 DEF Arrive
  <2>2. Moves(r, j, "cors", c, o, l)
    BY <1>2, <1>3, <2>1 DEF Arrive, Moves
  <2>3. s = "none"
    BY <1>3 DEF Arrive
  <2> QED
    BY <1>1, <2>2, <2>3, ProgressGoesOn
<1>4. CASE Preflight(r)
  <2>1. PICK d \in {204, 403} : status' = [status EXCEPT ![r] = d]
    BY <1>4 DEF Preflight
  <2>2. Moves(r, k, "done", d, o, l)
    BY <1>2, <1>4, <2>1 DEF Preflight, Moves
  <2>3. k = "preflight" /\ s = "cors"
    BY <1>4 DEF Preflight
  <2> QED
    BY <1>1, <2>2, <2>3, ProgressGoesOn
<1>5. CASE Observe(r)
  <2> DEFINE s1 == AfterTelemetry(r)
             c1 == IF k = "unmatched" THEN 404 ELSE 200
             o1 == IF Health(r) THEN "health" ELSE "http.request"
  <2>1. Moves(r, k, s1, c1, o1, l)
    BY <1>2, <1>5 DEF Observe, Moves
  <2>2. s = "cors" /\ k # "preflight" /\ k \in Kinds
    BY <1>1, <1>5 DEF Observe, Progress, Passes, Kinds
  <2>3. CASE k = "live" \/ k = "document"
    <3>1. s1 = "respond" /\ c1 = 200 /\ o1 = IF k = "live" THEN "health" ELSE "http.request"
      BY <2>3 DEF AfterTelemetry, Health
    <3> QED
      BY <1>1, <2>1, <2>2, <2>3, <3>1, ProgressGoesOn
  <2>4. CASE k = "unmatched"
    <3>1. s1 = "respond" /\ c1 = 404 /\ o1 = "http.request"
      BY <2>4 DEF AfterTelemetry, Health
    <3> QED
      BY <1>1, <2>1, <2>2, <2>4, <3>1, ProgressGoesOn
  <2>5. CASE k = "ready"
    <3>1. s1 = "ping" /\ c1 = 200 /\ o1 = "health"
      BY <2>5 DEF AfterTelemetry, Health
    <3> QED
      BY <1>1, <2>1, <2>2, <2>5, <3>1, ProgressGoesOn
  <2>6. CASE k \in {"account", "signin", "unlisted"}
    <3>1. s1 = "naming" /\ c1 = 200 /\ o1 = "http.request"
      BY <2>6 DEF AfterTelemetry, Health
    <3> QED
      BY <1>1, <2>1, <2>2, <2>6, <3>1, ProgressGoesOn
  <2> QED
    BY <2>2, <2>3, <2>4, <2>5, <2>6 DEF Kinds
<1>6. CASE NameOperation(r)
  <2>1. Moves(r, k, "limit", c, Details(r), l)
    BY <1>2, <1>6 DEF NameOperation, Moves
  <2>2. s = "naming"
    BY <1>6 DEF NameOperation
  <2>3. Details(r) = Named(k)
    BY <1>1, <2>2 DEF Progress, Passes, Details, Named
  <2> QED
    BY <1>1, <2>1, <2>2, <2>3, ProgressGoesOn
<1>7. CASE PassLimit(r)
  <2>0. s = "limit"
    BY <1>7 DEF PassLimit
  <2>1. CASE k = "account" /\ Goes(r, "limit", "session") /\ UNCHANGED status
    <3>1. Moves(r, k, "session", c, o, l)
      BY <1>2, <1>7, <2>1 DEF PassLimit, Moves
    <3> QED
      BY <1>1, <2>0, <2>1, <3>1, ProgressGoesOn
  <2>2. CASE k = "signin" /\ Goes(r, "limit", "authlier") /\ UNCHANGED status
    <3>1. Moves(r, k, "authlier", c, o, l)
      BY <1>2, <1>7, <2>2 DEF PassLimit, Moves
    <3> QED
      BY <1>1, <2>0, <2>2, <3>1, ProgressGoesOn
  <2>3. CASE k = "unlisted" /\ Replies(r, "limit", 404)
    <3>1. Moves(r, k, "respond", 404, o, l)
      BY <1>2, <1>7, <2>3 DEF PassLimit, Moves
    <3> QED
      BY <1>1, <2>0, <2>3, <3>1, ProgressGoesOn
  <2> QED
    BY <1>7, <2>1, <2>2, <2>3 DEF PassLimit
<1>8. CASE Limited(r)
  <2>1. Moves(r, k, "respond", 429, o, l) /\ s = "limit"
    BY <1>2, <1>8 DEF Limited, Moves
  <2> QED
    BY <1>1, <2>1, ProgressGoesOn
<1>9. CASE PingTimesOut(r)
  <2>1. Moves(r, k, "respond", 503, o, l) /\ s = "ping"
    BY <1>2, <1>9 DEF PingTimesOut, Moves
  <2> QED
    BY <1>1, <2>1, ProgressGoesOn
<1>10. CASE Respond(r)
  <2> DEFINE l1 == Logged(k, "done", c)
  <2>0. s = "respond"
    BY <1>10 DEF Respond
  <2>1. k \in Kinds \ {"none", "preflight"} /\ Answered(k, c)
    BY <1>1, <2>0 DEF Progress, Passes, Kinds
  <2>2. log' = [log EXCEPT ![r] = l1]
    <3>1. CASE Health(r)
      <4>1. c >= 500 <=> c = 503
        BY <2>1, <3>1 DEF Health, Answered
      <4>2. l1 = IF k = "ready" /\ c >= 500 THEN ReadinessFailure ELSE Unlogged
        BY <3>1, <4>1 DEF Health, Logged, Unrecorded
      <4> QED
        BY <1>10, <3>1, <4>2 DEF Respond
    <3>2. CASE ~Health(r)
      <4>1. k \notin Unrecorded
        BY <2>1, <3>2 DEF Health, Unrecorded
      <4>2. o = Named(k)
        BY <1>1, <2>0, <4>1 DEF Progress
      <4>3. l1 = [operation |-> o, result |-> classifyHTTPStatus(c)]
        BY <4>1, <4>2 DEF Logged
      <4> QED
        BY <1>10, <3>2, <4>3 DEF Respond
    <3> QED
      BY <3>1, <3>2
  <2>3. Moves(r, k, "done", c, o, l1)
    BY <1>2, <1>10, <2>2 DEF Respond, Moves
  <2> QED
    BY <1>1, <2>0, <2>3, ProgressGoesOn
<1>11. CASE CachedSession(r)
  <2>1. Moves(r, k, "user", c, o, l) /\ s = "session"
    BY <1>2, <1>11 DEF CachedSession, Moves
  <2> QED
    BY <1>1, <2>1, ProgressGoesOn
<1>12. CASE Acquire(r)
  <2>1. Moves(r, k, s, c, o, l)
    BY <1>2, <1>12 DEF Acquire, Moves
  <2> QED
    BY <1>1, <2>1
<1>13. CASE Queried(r)
  <2> DEFINE s1 == AfterQuery[s]
  <2>1. Moves(r, k, s1, c, o, l) /\ s \in Queries
    BY <1>2, <1>13 DEF Queried, Moves
  <2>2. /\ s = "session" => s1 = "user"
        /\ s = "user" => s1 = "access"
        /\ s \in {"ping", "access", "authlier"} => s1 = "respond"
    BY <2>1 DEF AfterQuery, Queries
  <2>3. Progress(k, s1, c, o, l)
    BY <1>1, <2>1, <2>2, ProgressGoesOn DEF Queries
  <2> QED
    BY <2>1, <2>3
<1>14. CASE QueryFails(r)
  <2> DEFINE c1 == Failure[s]
  <2>1. Moves(r, k, "respond", c1, o, l) /\ s \in Queries
    BY <1>2, <1>14 DEF QueryFails, Moves
  <2>2. /\ s = "ping" => c1 = 503
        /\ s = "session" => c1 = 401
        /\ s \in {"user", "access", "authlier"} => c1 = 500
    BY <2>1 DEF Failure, Queries
  <2>3. Progress(k, "respond", c1, o, l)
    BY <1>1, <2>1, <2>2, ProgressGoesOn DEF Queries
  <2> QED
    BY <2>1, <2>3
<1>15. CASE Rejects(r)
  <2>1. PICK d \in IF s = "session" THEN {401} ELSE {400, 401, 403, 429} : Replies(r, s, d)
    BY <1>15 DEF Rejects
  <2>2. Moves(r, k, "respond", d, o, l) /\ s \in {"session", "authlier"}
    BY <1>2, <1>15, <2>1 DEF Rejects, Moves
  <2>3. Progress(k, "respond", d, o, l)
    BY <1>1, <2>1, <2>2, ProgressGoesOn
  <2> QED
    BY <2>2, <2>3
<1>16. CASE Panics(r)
  <2>1. Moves(r, k, "respond", 500, o, l) /\ s \in Queries \ {"ping"}
    BY <1>2, <1>16 DEF Panics, Moves
  <2> QED
    BY <1>1, <2>1, ProgressGoesOn
<1> QED
  BY <1>3, <1>4, <1>5, <1>6, <1>7, <1>8, <1>9, <1>10, <1>11, <1>12, <1>13, <1>14, <1>15, <1>16
     DEF Handles, Asks

\* A request that moves leaves the others where they are.
LEMMA ProgressKept ==
    ASSUME RequestFunctions, \A q \in Requests : InProgress(q), NEW r \in Requests,
           NEW k, NEW s, NEW c, NEW o, NEW l, Moves(r, k, s, c, o, l), Progress(k, s, c, o, l)
    PROVE  /\ RequestFunctions'
           /\ \A q \in Requests : InProgress(q)'
           /\ kind'[r] = k /\ stage'[r] = s /\ status'[r] = c
           /\ \A q \in Requests \ {r} :
                kind'[q] = kind[q] /\ stage'[q] = stage[q] /\ status'[q] = status[q]
<1>1. RequestFunctions'
  BY DEF RequestFunctions, Moves
<1>2. /\ kind'[r] = k /\ stage'[r] = s /\ status'[r] = c /\ operation'[r] = o /\ log'[r] = l
      /\ \A q \in Requests \ {r} :
            /\ kind'[q] = kind[q] /\ stage'[q] = stage[q] /\ status'[q] = status[q]
            /\ operation'[q] = operation[q] /\ log'[q] = log[q]
  BY DEF RequestFunctions, Moves
<1>3. ASSUME NEW q \in Requests PROVE InProgress(q)'
  <2>1. CASE q = r
    BY <1>2, <2>1 DEF InProgress
  <2>2. CASE q # r
    BY <1>2, <2>2 DEF InProgress
  <2> QED
    BY <2>1, <2>2
<1> QED
  BY <1>1, <1>2, <1>3

\* No step but the two halves of the telemetry middleware changes what the
\* instruments show or who they are to count.
LEMMA UncountedStep ==
    ASSUME NEW r \in Requests,
           \/ Preflight(r) \/ NameOperation(r) \/ PassLimit(r) \/ Limited(r) \/ PingTimesOut(r)
           \/ Asks(r), RequestFunctions
    PROVE  /\ UNCHANGED <<kind, active, completed, errors>>
           /\ \/ kind[r] = "preflight"
              \/ stage[r] \in Observed /\ stage'[r] \in Observed
<1> USE DEF Goes, Replies, instruments, Observed, Queries, RequestFunctions
<1>1. CASE Preflight(r)
  BY <1>1 DEF Preflight
<1>2. CASE NameOperation(r)
  BY <1>2 DEF NameOperation
<1>3. CASE PassLimit(r)
  BY <1>3 DEF PassLimit
<1>4. CASE Limited(r)
  BY <1>4 DEF Limited
<1>5. CASE PingTimesOut(r)
  BY <1>5 DEF PingTimesOut
<1>6. CASE CachedSession(r)
  BY <1>6 DEF CachedSession
<1>7. CASE Acquire(r)
  BY <1>7 DEF Acquire
<1>8. CASE Queried(r)
  BY <1>8 DEF Queried, AfterQuery
<1>9. CASE QueryFails(r)
  BY <1>9 DEF QueryFails
<1>10. CASE Rejects(r)
  BY <1>10 DEF Rejects
<1>11. CASE Panics(r)
  BY <1>11 DEF Panics
<1> QED
  BY <1>1, <1>2, <1>3, <1>4, <1>5, <1>6, <1>7, <1>8, <1>9, <1>10, <1>11 DEF Asks

\* Each step of a request keeps the instruments with those they count: it enters
\* and leaves the gauge once, and is counted as it leaves.
LEMMA RequestsKept ==
    ASSUME RequestInvariant, NEW r \in Requests, Arrive(r) \/ Handles(r) \/ Asks(r)
    PROVE  RequestFunctions' /\ (\A q \in Requests : InProgress(q)') /\ Accounts'
<1>1. PICK k, s, c, o, l : Moves(r, k, s, c, o, l) /\ Progress(k, s, c, o, l)
  BY RequestMoves DEF RequestInvariant
<1>2. /\ RequestFunctions'
      /\ \A q \in Requests : InProgress(q)'
      /\ \A q \in Requests \ {r} :
            kind'[q] = kind[q] /\ stage'[q] = stage[q] /\ status'[q] = status[q]
  BY <1>1, ProgressKept DEF RequestInvariant
<1> SUFFICES Accounts'
  BY <1>2
<1>3. IsFiniteSet(Arrived')
  <2>1. Arrived' \subseteq Arrived \cup {r}
    BY <1>2 DEF Arrived
  <2>2. IsFiniteSet(Arrived \cup {r})
    BY FS_AddElement DEF RequestInvariant, Accounts
  <2> QED
    BY <2>1, <2>2, FS_Subset
<1>4. IsFiniteSet(Between) /\ IsFiniteSet(Finished) /\ IsFiniteSet(Failing)
  <2>1. Between \subseteq Arrived /\ Finished \subseteq Arrived /\ Failing \subseteq Arrived
    BY DEF Between, Finished, Failing, Arrived, Observed, Queries
  <2> QED
    BY <2>1, FS_Subset DEF RequestInvariant, Accounts
<1>5. CASE UNCHANGED <<active, completed, errors>> /\ Between' = Between
            /\ Finished' = Finished /\ Failing' = Failing
  BY <1>3, <1>5 DEF RequestInvariant, Accounts
<1>6. CASE Arrive(r)
  <2>1. stage[r] = "none" /\ stage'[r] = "cors" /\ UNCHANGED <<active, completed, errors>>
    BY <1>6, <1>2 DEF Arrive, Goes, instruments, RequestInvariant, RequestFunctions
  <2>2. Between' = Between /\ Finished' = Finished
    BY <1>2, <2>1 DEF Between, Finished, Observed, Queries
  <2>3. Failing' = Failing
    BY <1>2, <2>1, <2>2 DEF Failing, Finished
  <2> QED
    BY <1>2, <1>5, <2>1, <2>2, <2>3
<1>7. CASE Observe(r)
  <2>1. /\ stage[r] = "cors" /\ stage'[r] \in Observed /\ kind' = kind /\ kind[r] # "none"
        /\ UNCHANGED <<completed, errors>>
    BY <1>7, <1>2 DEF Observe, Goes, AfterTelemetry, Observed, Queries, RequestInvariant,
       RequestFunctions, InProgress, Progress, Passes
  <2>2. Finished' = Finished
    BY <1>2, <2>1 DEF Finished, Observed, Queries
  <2>3. Failing' = Failing
    BY <1>2, <2>1, <2>2 DEF Failing, Finished, Observed, Queries
  <2>4. CASE Health(r)
    <3>1. Between' = Between
      BY <1>2, <2>1, <2>4 DEF Between, Health, Unrecorded
    <3>2. active' = active
      BY <1>7, <2>4 DEF Observe
    <3> QED
      BY <1>2, <1>5, <2>1, <2>2, <2>3, <3>1, <3>2
  <2>5. CASE ~Health(r)
    <3>1. Between' = Between \cup {r} /\ r \notin Between
      BY <1>2, <1>7, <2>1, <2>5 DEF Between, Health, Unrecorded, Observe, Observed, Queries
    <3>2. active' = active + 1
      BY <1>7, <2>5 DEF Observe
    <3>3. Cardinality(Between') = Cardinality(Between) + 1
      BY <1>4, <3>1, FS_AddElement
    <3> QED
      BY <1>2, <1>3, <2>1, <2>2, <2>3, <3>2, <3>3 DEF Accounts, RequestInvariant
  <2> QED
    BY <2>4, <2>5
<1>8. CASE Respond(r)
  <2>1. /\ stage[r] = "respond" /\ stage'[r] = "done" /\ UNCHANGED <<kind, status>>
        /\ kind[r] \notin {"none", "preflight"}
    BY <1>8, <1>2 DEF Respond, Goes, RequestInvariant, RequestFunctions, InProgress, Progress, Passes
  <2>2. CASE Health(r)
    <3>1. Between' = Between /\ Finished' = Finished
      BY <1>2, <2>1, <2>2 DEF Between, Finished, Health, Unrecorded
    <3>2. Failing' = Failing
      BY <2>1, <3>1 DEF Failing
    <3>3. UNCHANGED <<active, completed, errors>>
      BY <1>8, <2>2 DEF Respond
    <3> QED
      BY <1>2, <1>5, <3>1, <3>2, <3>3
  <2>3. CASE ~Health(r)
    <3>1. /\ Between' = Between \ {r} /\ r \in Between
          /\ Finished' = Finished \cup {r} /\ r \notin Finished
      BY <1>2, <2>1, <2>3 DEF Between, Finished, Health, Unrecorded, Observed, Queries
    <3>2. /\ active' = active - 1 /\ completed' = completed + 1
          /\ errors' = IF status[r] >= 500 THEN errors + 1 ELSE errors
      BY <1>8, <2>3 DEF Respond
    <3>3. /\ Failing' = IF status[r] >= 500 THEN Failing \cup {r} ELSE Failing
          /\ r \notin Failing
      BY <2>1, <3>1 DEF Failing
    <3>4. /\ Cardinality(Between') = Cardinality(Between) - 1
          /\ Cardinality(Finished') = Cardinality(Finished) + 1
          /\ status[r] >= 500 => Cardinality(Failing') = Cardinality(Failing) + 1
          /\ ~(status[r] >= 500) => Failing' = Failing
      BY <1>4, <3>1, <3>3, FS_AddElement, FS_RemoveElement
    <3> QED
      BY <1>2, <1>3, <3>2, <3>4 DEF Accounts, RequestInvariant
  <2> QED
    BY <2>2, <2>3
<1>9. CASE ~Arrive(r) /\ ~Observe(r) /\ ~Respond(r)
  <2>1. /\ UNCHANGED <<kind, active, completed, errors>>
        /\ \/ kind[r] = "preflight"
           \/ stage[r] \in Observed /\ stage'[r] \in Observed
    BY <1>9, UncountedStep DEF Handles, RequestInvariant
  <2>2. Between' = Between /\ Finished' = Finished
    BY <1>2, <2>1 DEF Between, Finished, Observed, Queries, Unrecorded
  <2>3. r \notin Finished
    BY <2>1 DEF Finished, Observed, Queries, Unrecorded
  <2>4. Failing' = Failing
    BY <1>2, <2>2, <2>3 DEF Failing, Finished
  <2> QED
    BY <1>2, <1>5, <2>1, <2>2, <2>4
<1> QED
  BY <1>2, <1>6, <1>7, <1>8, <1>9

\* A connection is given out to a query only, and goes back with its result.
LEMMA PoolKept ==
    ASSUME RequestInvariant, NEW r \in Requests, Arrive(r) \/ Handles(r) \/ Asks(r)
    PROVE  PoolInvariant'
<1>1. PICK k, s, c, o, l : Moves(r, k, s, c, o, l) /\ Progress(k, s, c, o, l)
  BY RequestMoves DEF RequestInvariant
<1>2. \A q \in Requests \ {r} : stage'[q] = stage[q]
  BY <1>1, ProgressKept DEF RequestInvariant
<1>3. IsFiniteSet(holds) /\ Cardinality(holds) \in Nat /\ Cardinality(holds) <= MaxConnections
  <2>1. holds \subseteq Arrived
    BY DEF RequestInvariant, PoolInvariant, Arrived, Queries
  <2> QED
    BY <2>1, FS_Subset, FS_CardinalityType DEF RequestInvariant, Accounts, PoolInvariant
<1>4. holds \subseteq Requests /\ \A q \in holds : stage[q] \in Queries
  BY DEF RequestInvariant, PoolInvariant
<1>5. CASE holds' = holds \ {r}
  <2>1. holds' \subseteq {q \in Requests : stage'[q] \in Queries}
    BY <1>2, <1>4, <1>5
  <2>2. Cardinality(holds') <= Cardinality(holds) /\ Cardinality(holds') \in Nat
    BY <1>3, <1>5, FS_Subset, FS_CardinalityType
  <2> QED
    BY <1>3, <2>1, <2>2, PoolAssumption DEF PoolInvariant
<1>6. CASE Acquire(r)
  <2>1. /\ stage' = stage /\ stage[r] \in Queries
        /\ holds' = holds \cup {r} /\ Cardinality(holds) < MaxConnections
    BY <1>6 DEF Acquire
  <2>2. holds' \subseteq {q \in Requests : stage'[q] \in Queries}
    BY <1>4, <2>1
  <2>3. Cardinality(holds') \in {Cardinality(holds), Cardinality(holds) + 1}
    BY <1>3, <2>1, FS_AddElement
  <2> QED
    BY <1>3, <2>1, <2>2, <2>3, PoolAssumption DEF PoolInvariant
<1>7. CASE holds' = holds /\ r \notin holds
  BY <1>5, <1>7
<1>8. ~Acquire(r) => holds' = holds \ {r} \/ (holds' = holds /\ r \notin holds)
  <2>1. ASSUME stage[r] \notin Queries PROVE r \notin holds
    BY <1>4, <2>1
  <2> USE <2>1 DEF Queries, Goes, Replies
  <2>2. CASE Arrive(r) \/ Preflight(r) \/ Observe(r) \/ NameOperation(r) \/ PassLimit(r)
                \/ Limited(r) \/ Respond(r)
    BY <2>2 DEF Arrive, Preflight, Observe, NameOperation, PassLimit, Limited, Respond
  <2>3. CASE PingTimesOut(r) \/ CachedSession(r) \/ Queried(r) \/ QueryFails(r) \/ Rejects(r) \/ Panics(r)
    BY <2>3 DEF PingTimesOut, CachedSession, Queried, QueryFails, Rejects, Panics
  <2> QED
    BY <2>2, <2>3 DEF Handles, Asks
<1> QED
  BY <1>5, <1>6, <1>7, <1>8

\* Requests are the only ones to change what requests share.
LEMMA NextRequests == RequestInvariant /\ [Next]_vars => RequestInvariant'
<1> SUFFICES ASSUME RequestInvariant, [Next]_vars PROVE RequestInvariant'
  OBVIOUS
<1>1. ASSUME NEW r \in Requests, Arrive(r) \/ Handles(r) \/ Asks(r) PROVE RequestInvariant'
  BY <1>1, RequestsKept, PoolKept DEF RequestInvariant
<1>2. CASE UNCHANGED requestState
  BY <1>2 DEF requestState, instruments, RequestInvariant, RequestFunctions, InProgress, Accounts,
     Arrived, Between, Finished, Failing, PoolInvariant
<1>3. CASE Run
  <2>1. UNCHANGED requestState
    <3> USE DEF requestVars, instruments
    <3>1. CASE StartUp \/ StartUpFails \/ Notify
      BY <3>1 DEF StartUp, StartUpFails, Notify, requestState
    <3>2. CASE ServeReturns \/ SeeSignal \/ Drained \/ DrainTimesOut \/ ServerStopped
      BY <3>2 DEF ServeReturns, SeeSignal, Drained, DrainTimesOut, ServerStopped, requestState
    <3>3. CASE CloseRedis \/ CloseDatabase \/ ConnectionsReturned \/ Exit
      BY <3>3 DEF CloseRedis, CloseDatabase, ConnectionsReturned, Exit, requestState
    <3>4. CASE \E provider \in Providers : ShutdownProvider(provider)
      BY <3>4 DEF ShutdownProvider
    <3> QED
      BY <1>3, <3>1, <3>2, <3>3, <3>4 DEF Run
  <2> QED
    BY <1>2, <2>1
<1>4. CASE \/ Listen \/ ListenerFails \/ ListenerCloses \/ Signal \/ SignalKills \/ UNCHANGED vars
           \/ \E r \in Requests : Connect(r) \/ Disconnect(r)
  <2>1. UNCHANGED requestState
    <3> USE DEF requestState, requestVars, instruments
    <3>1. CASE Listen \/ ListenerFails \/ ListenerCloses
      BY <3>1 DEF Listen, ListenerFails, ListenerCloses
    <3>2. CASE Signal \/ SignalKills \/ UNCHANGED vars
      BY <3>2 DEF Signal, SignalKills, vars
    <3>3. ASSUME NEW r \in Requests, Connect(r) \/ Disconnect(r) PROVE UNCHANGED requestState
      BY <3>3 DEF Connect, Disconnect
    <3> QED
      BY <1>4, <3>1, <3>2, <3>3
  <2> QED
    BY <1>2, <2>1
<1> QED
  BY <1>1, <1>3, <1>4 DEF Next, Accept, Serve, Query

\* Every request is where its kind leads it, named, answered and logged as its
\* kind is, and counted by the instruments; connections are with queries
\* (router.go:37, http.go:112-177).
THEOREM RequestInvariantHolds == Spec => []RequestInvariant
<1> QED
  BY InitRequests, NextRequests, PTL DEF Spec

\* The gauge and the counters tell how many requests are under way, were answered
\* and failed, and the log tells of each as what it was, for any number of
\* requests and in every state of the process (http.go:112-177).
THEOREM TelemetryIsTrue == Spec => []TelemetryAccounts
<1>1. ASSUME RequestInvariant PROVE TelemetryAccounts
  <2> DEFINE observed == {r \in Requests : kind[r] # "preflight" /\ ~Health(r)}
             finished == {r \in observed : stage[r] = "done"}
  <2>1. \A r \in Requests : InProgress(r)
    BY <1>1 DEF RequestInvariant
  <2>2. {r \in observed : stage[r] \notin {"none", "cors", "done"}} = Between
    <3>1. ASSUME NEW r \in Requests
          PROVE  /\ kind[r] \in Kinds \cup {"none"} /\ stage[r] \in Stages
                 /\ kind[r] = "none" => stage[r] = "none"
      BY <2>1 DEF InProgress, Progress, Passes
    <3>2. ASSUME NEW r \in Requests
          PROVE  r \in observed /\ stage[r] \notin {"none", "cors", "done"} <=> r \in Between
      BY <3>1 DEF Health, Between, Unrecorded, Stages, Observed, Queries
    <3> QED
      BY <3>2 DEF Between
  <2>3. finished = Finished
    BY <2>1 DEF InProgress, Progress, Passes, Health, Finished, Unrecorded
  <2>4. {r \in finished : status[r] >= 500} = Failing
    BY <2>3 DEF Failing
  <2>5. ASSUME NEW r \in finished
        PROVE  log[r] = [operation |-> OwnOperation(r), result |-> classifyHTTPStatus(status[r])]
    <3>1. kind[r] \notin Unrecorded /\ stage[r] = "done" /\ InProgress(r)
      BY <2>1, <2>3 DEF Finished
    <3>2. OwnOperation(r) = Named(kind[r])
      BY DEF OwnOperation, Named
    <3> QED
      BY <3>1, <3>2 DEF InProgress, Progress, Logged
  <2>6. ASSUME NEW r \in Requests
        PROVE  log[r] = ReadinessFailure <=> kind[r] = "ready" /\ stage[r] = "done" /\ status[r] = 503
    <3>1. log[r] = Logged(kind[r], stage[r], status[r])
      BY <2>1 DEF InProgress, Progress
    <3>2. Named(kind[r]) # "health.readiness.check"
      BY DEF Named
    <3> QED
      BY <3>1, <3>2 DEF Logged, ReadinessFailure, Unlogged, Unrecorded
  <2>7. active = Cardinality(Between) /\ completed = Cardinality(Finished) /\ errors = Cardinality(Failing)
    BY <1>1 DEF RequestInvariant, Accounts
  <2> QED
    BY <2>2, <2>3, <2>4, <2>5, <2>6, <2>7 DEF TelemetryAccounts
<1> QED
  BY <1>1, RequestInvariantHolds, PTL

\* The account request and the health probes are answered with statuses that the
\* document lists for them, whatever fails on the way (document.go:146-167,
\* account.handler.go, routes.go of health).
THEOREM AnswersDocumented == Spec => []AnswersAreDocumented
<1>1. ASSUME RequestInvariant, NEW r \in Requests, stage[r] = "done",
             kind[r] \in {"account", "live", "ready"}
      PROVE  status[r] \in operationResponses(kind[r])
  <2>1. Answered(kind[r], status[r])
    BY <1>1 DEF RequestInvariant, InProgress, Progress
  <2>2. CASE kind[r] = "account"
    <3>1. {200, 401, 429, 500} \subseteq operationResponses("account")
      BY DEF operationResponses, operations, tagFor, HealthPaths
    <3> QED
      BY <2>1, <2>2, <3>1 DEF Answered
  <2>3. CASE kind[r] = "live"
    <3>1. 200 \in operationResponses("live")
      BY DEF operationResponses, operations
    <3> QED
      BY <2>1, <2>3, <3>1 DEF Answered
  <2>4. CASE kind[r] = "ready"
    <3>1. {200, 503} \subseteq operationResponses("ready")
      BY DEF operationResponses, operations
    <3> QED
      BY <2>1, <2>4, <3>1 DEF Answered
  <2> QED
    BY <1>1, <2>2, <2>3, <2>4
<1>2. RequestInvariant => AnswersAreDocumented
  BY <1>1 DEF AnswersAreDocumented
<1> QED
  BY <1>2, RequestInvariantHolds, PTL

\* The rest of what the type invariant says.
RunTypes ==
    /\ cfg \in [Settings -> Values]
    /\ connected \subseteq Requests
    /\ signalled \in BOOLEAN
    /\ failed \subseteq {"startup", "serve", "shutdown", "telemetry"}

\* Load gives a configuration every setting it has, of the values there are.
LEMMA NextRunTypes == RunTypes /\ [Next]_vars => RunTypes'
<1> SUFFICES ASSUME RunTypes, [Next]_vars PROVE RunTypes'
  OBVIOUS
<1> USE DEF RunTypes
<1>1. NoConfig \in [Settings -> Values]
  BY DEF NoConfig, Values
<1>2. CASE StartUp
  <2>1. ASSUME NEW file \in Layers, NEW env \in Layers PROVE Load(file, env) \in [Settings -> Values]
    <3>1. file \in [Settings -> Values] /\ env \in [Settings -> Values]
      BY LayersAssumption
    <3>2. ASSUME NEW s \in Settings PROVE Load(file, env)[s] \in Values
      <4> DEFINE v == IF env[s] # "unset" THEN env[s] ELSE file[s]
      <4>1. v \in Values
        BY <3>1
      <4>2. Load(file, env)[s] =
              CASE v = "unset" -> IF s \in Defaulted THEN "good" ELSE "empty"
                [] v # "unset" -> IF s \in Trimmed THEN TrimSpace(v) ELSE v
        BY DEF Load
      <4> HIDE DEF v
      <4> QED
        BY <4>1, <4>2 DEF Values, TrimSpace
    <3> QED
      BY <3>2 DEF Load
  <2>2. cfg' \in [Settings -> Values]
    BY <1>1, <1>2, <2>1 DEF StartUp, Configured
  <2> QED
    BY <1>2, <2>2 DEF StartUp
<1>3. CASE StartUpFails
  BY <1>1, <1>3 DEF StartUpFails
<1>4. CASE Listen \/ ListenerFails \/ ListenerCloses \/ Signal \/ SignalKills
  BY <1>4 DEF Listen, ListenerFails, ListenerCloses, Signal, SignalKills
<1>5. CASE ServeReturns \/ SeeSignal \/ Drained \/ DrainTimesOut \/ ServerStopped
  BY <1>5 DEF ServeReturns, SeeSignal, Drained, DrainTimesOut, ServerStopped
<1>6. CASE CloseRedis \/ CloseDatabase \/ ConnectionsReturned \/ Exit
  BY <1>6 DEF CloseRedis, CloseDatabase, ConnectionsReturned, Exit
<1>7. CASE \E provider \in Providers : ShutdownProvider(provider)
  BY <1>7 DEF ShutdownProvider
<1>8. CASE UNCHANGED processVars
  BY <1>8 DEF processVars
<1>9. CASE Notify
  BY <1>9 DEF Notify
<1>10. ASSUME NEW r \in Requests, Connect(r) \/ Accept(r) \/ Disconnect(r) PROVE RunTypes'
  BY <1>10 DEF Connect, Accept, Disconnect
<1> QED
  BY <1>2, <1>3, <1>4, <1>5, <1>6, <1>7, <1>8, <1>9, <1>10 DEF Next, Run, Accept, Serve, Query, vars

\* The types of the process and its requests, of which the bound of the pool and
\* that of the gauge say the most (http.go:113, 158).
THEOREM LifecycleTypesHold ==
    ASSUME IsFiniteSet(Requests)
    PROVE  Spec => []TypeOK
<1>1. Init => RunTypes
  BY DEF Init, RunTypes, NoConfig, Values
<1>2. ASSUME ProcessInvariant, RequestInvariant, RunTypes PROVE TypeOK
  <2>1. open \subseteq Clients
    BY <1>2 DEF ProcessInvariant, ProcessTypes, OpenByStep, Clients, Providers, Startup,
       AfterStartup, ServingSteps, ClosingSteps
  <2>2. ASSUME NEW r \in Requests
        PROVE  /\ kind[r] \in Kinds \cup {"none"} /\ stage[r] \in Stages
               /\ status[r] \in {200, 204, 400, 401, 403, 404, 429, 500, 503}
               /\ operation[r] \in {"none", "health"} \cup Operations
               /\ log[r] \in {Unlogged, ReadinessFailure} \cup [operation : Operations,
                    result : {classifyHTTPStatus(code) : code \in {200, 400, 401, 403, 404, 429, 500}}]
    <3>1. Progress(kind[r], stage[r], status[r], operation[r], log[r])
      BY <1>2 DEF RequestInvariant, InProgress
    <3>2. status[r] \in {200, 204, 400, 401, 403, 404, 429, 500, 503}
      BY <3>1 DEF Progress, Answered
    <3>3. CASE stage[r] # "done" \/ kind[r] \in Unrecorded
      BY <3>1, <3>2, <3>3 DEF Progress, Logged
    <3>4. CASE stage[r] = "done" /\ kind[r] \notin Unrecorded
      <4>1. status[r] \in {200, 400, 401, 403, 404, 429, 500}
        BY <3>1, <3>4 DEF Progress, Answered, Unrecorded
      <4>2. Named(kind[r]) \in Operations
        BY DEF Named, Operations
      <4>3. log[r] = [operation |-> Named(kind[r]), result |-> classifyHTTPStatus(status[r])]
        BY <3>1, <3>4 DEF Progress, Logged
      <4> QED
        BY <3>1, <3>2, <4>1, <4>2, <4>3 DEF Progress
    <3> QED
      BY <3>3, <3>4
  <2>3. /\ kind \in [Requests -> Kinds \cup {"none"}]
        /\ stage \in [Requests ->
                {"none", "cors", "naming", "limit", "respond", "done"} \cup Queries]
        /\ status \in [Requests -> {200, 204, 400, 401, 403, 404, 429, 500, 503}]
        /\ operation \in [Requests -> {"none", "health"} \cup Operations]
        /\ log \in [Requests -> {Unlogged, ReadinessFailure} \cup [operation : Operations,
                result : {classifyHTTPStatus(code) : code \in {200, 400, 401, 403, 404, 429, 500}}]]
    <3>1. RequestFunctions
      BY <1>2 DEF RequestInvariant
    <3>2. Stages \subseteq {"none", "cors", "naming", "limit", "respond", "done"} \cup Queries
      BY DEF Stages, Observed
    <3> QED
      BY <2>2, <3>1, <3>2 DEF RequestFunctions
  <2>4. holds \subseteq Requests /\ Cardinality(holds) <= MaxConnections
    BY <1>2 DEF RequestInvariant, PoolInvariant
  <2>5. active \in 0..Cardinality(Requests) /\ completed \in Nat /\ errors \in Nat
    <3>1. /\ IsFiniteSet(Between) /\ Cardinality(Between) <= Cardinality(Requests)
          /\ IsFiniteSet(Finished) /\ IsFiniteSet(Failing)
      <4>1. Between \subseteq Requests /\ Finished \subseteq Requests /\ Failing \subseteq Requests
        BY DEF Between, Finished, Failing
      <4> QED
        BY <4>1, FS_Subset
    <3>2. /\ Cardinality(Between) \in Nat /\ Cardinality(Finished) \in Nat
          /\ Cardinality(Failing) \in Nat /\ Cardinality(Requests) \in Nat
      BY <3>1, FS_CardinalityType
    <3> QED
      BY <1>2, <3>1, <3>2 DEF RequestInvariant, Accounts
  <2>6. /\ proc \in Startup \cup {"notifying", "serving", "draining", "stopping", "closing redis",
                "closing database", "awaiting connections", "returned"}
                \cup {Closing[provider] : provider \in Providers}
    <3>1. {"closing logs", "closing metrics", "closing traces"}
            = {Closing[provider] : provider \in Providers}
      <4>1. Closing["logs"] = "closing logs" /\ Closing["metrics"] = "closing metrics"
            /\ Closing["traces"] = "closing traces"
        BY DEF Closing
      <4> QED
        BY <4>1 DEF Providers
    <3> QED
      BY <1>2, <3>1 DEF ProcessInvariant, ProcessTypes, ServingSteps, ClosingSteps
  <2>7. /\ cfg \in [Settings -> Values] /\ connected \subseteq Requests
        /\ listener \in {"none", "starting", "listening", "stopped"}
        /\ channel \in {"empty", "nil", "error"}
        /\ signalled \in BOOLEAN /\ run_error \in BOOLEAN
        /\ drain \in {"none", "running", "clean", "timed out"}
        /\ exit \in {"none", "zero", "nonzero", "killed"}
        /\ failed \subseteq {"startup", "serve", "shutdown", "telemetry"}
    BY <1>2 DEF ProcessInvariant, ProcessTypes, RunTypes
  <2> QED
    BY <2>1, <2>3, <2>4, <2>5, <2>6, <2>7 DEF TypeOK
<1>3. ProcessInvariant /\ RequestInvariant /\ RunTypes => TypeOK
  BY <1>2
<1> QED
  BY <1>1, <1>3, NextRunTypes, ProcessInvariantHolds, RequestInvariantHolds, PTL DEF Spec
=============================================================================
