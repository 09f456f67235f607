--------------------------- MODULE ServerLifecycle ---------------------------
(***************************************************************************)
(* cmd/api: run opens the three telemetry providers, the pool and Redis,      *)
(* serveHTTP serves until the listener fails or a signal arrives, and run's   *)
(* defers close what was opened in reverse.  The listener is a goroutine that *)
(* reports on a channel of capacity one; requests (RequestPipeline) are       *)
(* goroutines too.                                                            *)
(***************************************************************************)
EXTENDS RequestPipeline, Configuration

CONSTANT Layers  \* what .env and the environment may hold

ASSUME LayersAssumption == Layers \subseteq [Settings -> Values]

VARIABLES
    proc,        \* where run stands
    cfg,         \* the configuration, while run uses it
    listener,    \* "none", "starting", "listening", "stopped"
    connected,   \* accepted connections from which no request was read yet
    channel,     \* serverErrors: "empty", "nil", "error"
    signalled,   \* SIGINT or SIGTERM was caught
    drain,       \* Shutdown: "none", "running", "clean", "timed out"
    run_error,   \* whether run is to return an error
    exit,        \* "none", or how the process ended
    failed       \* history: what failed

processVars ==
    <<proc, cfg, listener, connected, channel, signalled, drain, run_error, exit, failed>>
vars == <<requestVars, processVars>>

\* Unchanged by every step of the process but the ones that open and close.
requestState == <<kind, stage, status, operation, holds, instruments>>

Providers == {"traces", "metrics", "logs"}
Clients == Providers \cup {"database", "redis"}

\* The steps of run before serveHTTP, each of which may fail; traces, metrics and
\* logs are those of telemetry.New.
AfterStartup ==
    [config |-> "traces", traces |-> "metrics", metrics |-> "logs", logs |-> "database",
     database |-> "migrations", migrations |-> "redis", redis |-> "wiring", wiring |-> "notifying"]
Startup == DOMAIN AfterStartup

NoConfig == [s \in Settings |-> "unset"]

\* What is closed first when a step fails: telemetry.New shuts the providers it
\* has down itself; after it, run's defers see to all.
Undo(step) ==
    CASE step \in {"config", "traces"} -> "returned"
      [] step = "metrics" -> "closing traces"
      [] step = "logs" -> "closing metrics"
      [] OTHER -> "closing redis"

Closing == [logs |-> "closing logs", metrics |-> "closing metrics", traces |-> "closing traces"]
AfterProvider ==
    [logs |-> "closing metrics", metrics |-> "closing traces", traces |-> "returned"]

Init ==
    /\ PipelineInit
    /\ proc = "config" /\ cfg = NoConfig
    /\ listener = "none" /\ connected = {} /\ channel = "empty"
    /\ signalled = FALSE /\ drain = "none"
    /\ run_error = FALSE /\ exit = "none" /\ failed = {}

RunGoes(from, to) == exit = "none" /\ proc = from /\ proc' = to

\* Load returns a configuration; the others use it as far as it is theirs.
Configured ==
    IF proc = "config"
    THEN \E file, env \in Layers : cfg' = Load(file, env) /\ Validate(cfg')
    ELSE ~Refuted(proc, cfg) /\ cfg' = IF proc = "wiring" THEN NoConfig ELSE cfg

\* run goes on to its next step; the last starts the listener's goroutine.
StartUp ==
    /\ proc \in Startup
    /\ RunGoes(proc, AfterStartup[proc])
    /\ Configured
    /\ open' = open \cup ({proc} \cap Clients)
    /\ listener' = IF proc' = "notifying" THEN "starting" ELSE listener
    /\ UNCHANGED <<requestState, connected, channel, signalled, drain, run_error, exit, failed>>

\* Mutant: run logs the error and calls os.Exit, which runs no defers.
StartUpFailsAtOnce ==
    /\ proc \in Startup
    /\ RunGoes(proc, "returned")
    /\ cfg' = NoConfig
    /\ run_error' = TRUE /\ failed' = failed \cup {"startup"}
    /\ UNCHANGED <<requestState, open, listener, connected, channel, signalled, drain, exit>>

\* run returns an error; what is open by now is closed.
StartUpFails ==
    /\ proc \in Startup
    /\ RunGoes(proc, Undo(proc))
    /\ cfg' = NoConfig
    /\ run_error' = TRUE /\ failed' = failed \cup {"startup"}
    /\ UNCHANGED <<requestState, open, listener, connected, channel, signalled, drain, exit>>

\* From here on serveHTTP is told of signals.
Notify ==
    /\ RunGoes("notifying", "serving")
    /\ UNCHANGED <<requestVars, cfg, listener, connected, channel, signalled, drain, run_error,
                   exit, failed>>

\* ListenAndServe binds the address.
Listen ==
    /\ exit = "none" /\ listener = "starting" /\ drain = "none"
    /\ listener' = "listening"
    /\ UNCHANGED <<requestVars, cfg, proc, connected, channel, signalled, drain, run_error,
                   exit, failed>>

\* It cannot bind, or cannot accept any more.
ListenerFails ==
    /\ exit = "none"
    /\ \/ listener = "starting"
       \/ listener = "listening" /\ drain = "none"
    /\ listener' = "stopped" /\ channel' = "error"
    /\ failed' = failed \cup {"serve"}
    /\ UNCHANGED <<requestVars, cfg, proc, connected, signalled, drain, run_error, exit>>

\* http.ErrServerClosed, which is no error, once Shutdown has begun.
ListenerCloses ==
    /\ exit = "none" /\ listener \in {"starting", "listening"} /\ drain # "none"
    /\ listener' = "stopped" /\ channel' = "nil"
    /\ UNCHANGED <<requestVars, cfg, proc, connected, signalled, drain, run_error, exit, failed>>

\* A signal while serveHTTP is listening for it is remembered.
Signal ==
    /\ exit = "none" /\ proc \in {"serving", "draining", "stopping"}
    /\ signalled' = TRUE
    /\ UNCHANGED <<requestVars, cfg, proc, listener, connected, channel, drain, run_error, exit,
                   failed>>

\* At any other time it ends the process, which runs no defers.
SignalKills ==
    /\ exit = "none" /\ proc \notin {"serving", "draining", "stopping"}
    /\ exit' = "killed"
    /\ UNCHANGED <<requestVars, cfg, proc, listener, connected, channel, signalled, drain,
                   run_error, failed>>

\* select receives from serverErrors: nothing waits for the requests.
ServeReturns ==
    /\ channel # "empty"
    /\ RunGoes("serving", "closing redis")
    /\ channel' = "empty" /\ run_error' = (channel = "error")
    /\ UNCHANGED <<requestVars, cfg, listener, connected, signalled, drain, exit, failed>>

\* Mutant: the signal is followed by the defers at once.
SeeSignalAndClose ==
    /\ signalled
    /\ RunGoes("serving", "stopping")
    /\ drain' = "running"
    /\ UNCHANGED <<requestVars, cfg, listener, connected, channel, signalled, run_error, exit,
                   failed>>

\* select sees the signal, even if serverErrors has a value too; Shutdown begins.
SeeSignal ==
    /\ signalled
    /\ RunGoes("serving", "draining")
    /\ drain' = "running"
    /\ UNCHANGED <<requestVars, cfg, listener, connected, channel, signalled, run_error, exit,
                   failed>>

\* Shutdown returns: no request is in flight any more, and none can come.
Drained ==
    /\ InFlight = {} /\ connected = {}
    /\ RunGoes("draining", "stopping")
    /\ drain' = "clean"
    /\ UNCHANGED <<requestVars, cfg, listener, connected, channel, signalled, run_error, exit,
                   failed>>

\* Shutdown gives up after shutdownTimeout.
DrainTimesOut ==
    /\ InFlight # {}
    /\ RunGoes("draining", "closing redis")
    /\ drain' = "timed out"
    /\ run_error' = TRUE /\ failed' = failed \cup {"shutdown"}
    /\ UNCHANGED <<requestVars, cfg, listener, connected, channel, signalled, exit>>

\* Mutant: the result of ListenAndServe is dropped after a clean Shutdown.
ServerStoppedUnheard ==
    /\ channel # "empty"
    /\ RunGoes("stopping", "closing redis")
    /\ channel' = "empty"
    /\ UNCHANGED <<requestVars, cfg, listener, connected, signalled, drain, run_error, exit,
                   failed>>

\* What ListenAndServe returned is received at last.
ServerStopped ==
    /\ channel # "empty"
    /\ RunGoes("stopping", "closing redis")
    /\ channel' = "empty" /\ run_error' = (channel = "error")
    /\ UNCHANGED <<requestVars, cfg, listener, connected, signalled, drain, exit, failed>>

\* The first deferred call, if Redis was opened; whether Close fails is only logged.
CloseRedis ==
    /\ RunGoes("closing redis", "closing database")
    /\ open' = open \ {"redis"}
    /\ UNCHANGED <<requestState, cfg, listener, connected, channel, signalled, drain, run_error,
                   exit, failed>>

\* pool.Close gives out no more connections, and waits for the ones given out.
CloseDatabase ==
    /\ RunGoes("closing database", "awaiting connections")
    /\ open' = open \ {"database"}
    /\ UNCHANGED <<requestState, cfg, listener, connected, channel, signalled, drain, run_error,
                   exit, failed>>

ConnectionsReturned ==
    /\ holds = {}
    /\ RunGoes("awaiting connections", "closing logs")
    /\ UNCHANGED <<requestVars, cfg, listener, connected, channel, signalled, drain, run_error,
                   exit, failed>>

\* Telemetry is shut down last, logs first; errors are joined and returned.
ShutdownProvider(provider) ==
    /\ RunGoes(Closing[provider], AfterProvider[provider])
    /\ open' = open \ {provider}
    /\ \/ UNCHANGED <<run_error, failed>>
       \/ run_error' = TRUE /\ failed' = failed \cup {"telemetry"}
    /\ UNCHANGED <<requestState, cfg, listener, connected, channel, signalled, drain, exit>>

\* main: exit status 1 if run returned an error, and 0 if not.
Exit ==
    /\ RunGoes("returned", "returned")
    /\ exit' = IF run_error THEN "nonzero" ELSE "zero"
    /\ UNCHANGED <<requestVars, cfg, listener, connected, channel, signalled, drain, run_error,
                   failed>>

\* The listener accepts a connection, until Shutdown begins.
Connect(r) ==
    /\ exit = "none" /\ listener = "listening" /\ drain = "none"
    /\ stage[r] = "none" /\ r \notin connected
    /\ connected' = connected \cup {r}
    /\ UNCHANGED <<requestVars, cfg, proc, listener, channel, signalled, drain, run_error, exit,
                   failed>>

\* A request is read from a connection, even if Shutdown has begun since.
Accept(r) ==
    /\ exit = "none" /\ r \in connected
    /\ Arrive(r)
    /\ connected' = connected \ {r}
    /\ UNCHANGED <<cfg, proc, listener, channel, signalled, drain, run_error, exit, failed>>

\* No request comes: readHeaderTimeout passes, or Shutdown takes it for idle.
Disconnect(r) ==
    /\ exit = "none" /\ r \in connected
    /\ connected' = connected \ {r}
    /\ UNCHANGED <<requestVars, cfg, proc, listener, channel, signalled, drain, run_error, exit,
                   failed>>

\* A request's goroutine runs as long as the process does.
Serve(r) == exit = "none" /\ Handles(r) /\ UNCHANGED processVars
Query(r) == exit = "none" /\ Asks(r) /\ UNCHANGED processVars

\* What run does by itself.
Run ==
    \/ StartUp \/ StartUpFails \/ Notify \/ ServeReturns \/ SeeSignal \/ Drained \/ DrainTimesOut
    \/ ServerStopped \/ CloseRedis \/ CloseDatabase \/ ConnectionsReturned
    \/ \E provider \in Providers : ShutdownProvider(provider)
    \/ Exit

Next ==
    \/ Run \/ Listen \/ ListenerFails \/ ListenerCloses \/ Signal \/ SignalKills
    \/ \E r \in Requests : Connect(r) \/ Accept(r) \/ Disconnect(r) \/ Serve(r) \/ Query(r)

Spec == Init /\ [][Next]_vars

\* The process and its goroutines are scheduled, and timers fire; a connection
\* without a request does not outlive its timeouts.
FairSpec ==
    /\ Spec
    /\ WF_vars(Run) /\ WF_vars(ListenerCloses)
    /\ \A r \in Requests : WF_vars(Serve(r)) /\ WF_vars(Disconnect(r))

\* A query that was sent returns or fails: the server sets no statement timeout
\* and Shutdown cancels no request, so that this is the database's doing.
QueriesEnd == \A r \in Requests : WF_vars(Query(r))

-----------------------------------------------------------------------------

TypeOK ==
    /\ open \subseteq Clients
    /\ kind \in [Requests -> Kinds \cup {"none"}]
    /\ stage \in [Requests ->
            {"none", "cors", "naming", "limit", "respond", "done"} \cup Queries]
    /\ status \in [Requests -> {200, 204, 400, 401, 403, 404, 429, 500, 503}]
    /\ operation \in [Requests -> {"none", "health"} \cup Operations]
    /\ holds \subseteq Requests /\ Cardinality(holds) <= MaxConnections
    /\ active \in 0..Cardinality(Requests)
    /\ completed \in Nat /\ errors \in Nat
    /\ log \in [Requests -> {Unlogged, ReadinessFailure} \cup [operation : Operations,
            result : {classifyHTTPStatus(code) : code \in {200, 400, 401, 403, 404, 429, 500}}]]
    /\ cfg \in [Settings -> Values]
    /\ connected \subseteq Requests
    /\ proc \in Startup \cup {"notifying", "serving", "draining", "stopping", "closing redis",
            "closing database", "awaiting connections", "returned"}
            \cup {Closing[provider] : provider \in Providers}
    /\ listener \in {"none", "starting", "listening", "stopped"}
    /\ channel \in {"empty", "nil", "error"}
    /\ signalled \in BOOLEAN /\ run_error \in BOOLEAN
    /\ drain \in {"none", "running", "clean", "timed out"}
    /\ exit \in {"none", "zero", "nonzero", "killed"}
    /\ failed \subseteq {"startup", "serve", "shutdown", "telemetry"}

\* While a request is in flight its dependencies are open, unless Shutdown gave
\* up waiting or serving failed without a Shutdown ("allow in-flight requests a
\* bounded window to finish before infrastructure dependencies are closed",
\* server.go:53-54).
DependenciesOutliveRequests ==
    exit = "none" /\ InFlight # {} /\ open # Clients
        => drain = "timed out" \/ (drain = "none" /\ "serve" \in failed)

\* What opens first closes last, the trace provider last of all, whichever step
\* of startup fails, and a process that ends by itself has closed everything
\* (main.go:62-104, telemetry.go:70-88).
ClosedInReverse ==
    /\ "redis" \in open => "database" \in open
    /\ "database" \in open => "logs" \in open
    /\ "logs" \in open => "metrics" \in open
    /\ "metrics" \in open => "traces" \in open
    /\ exit \in {"zero", "nonzero"} => open = {}

\* The exit status tells whether startup, serving or shutdown failed, even when
\* the listener fails as the signal arrives (ARCHITECTURE.md:42-43).
ExitTellsFailure ==
    /\ exit = "zero" => failed = {}
    /\ exit = "nonzero" => failed # {}

\* A signal that is caught ends the process, whatever the requests do, if the
\* database ends every query (server.go:40-65).
ShutdownEnds == QueriesEnd => (signalled ~> exit # "none")

\* A readiness probe is answered within readinessTimeout, though every connection
\* of the pool is held by a query that never returns (health/routes.go:32).
ReadinessAnswers ==
    \A r \in Requests :
        kind[r] = "ready" /\ stage[r] # "none" ~> stage[r] = "done" \/ exit # "none"
=============================================================================
