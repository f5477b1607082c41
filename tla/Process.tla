------------------------------- MODULE Process -------------------------------
(***************************************************************************)
(* main of the three services (paddock-gateway, maestro, panettiere) and   *)
(* the life of their telemetry (pacchetto/telemetry/otel.go): what is set  *)
(* up in which order, what is undone when a step fails, how the server is  *)
(* stopped by a signal, and which exit code tells it.                      *)
(*                                                                         *)
(* What the server does between its start and its stop is in the modules   *)
(* of the components; here it has requests in progress.                    *)
(***************************************************************************)
EXTENDS Naturals, Sequences

CONSTANTS
  Requests,  \* requests a client may send
  Streams    \* those that last until the client ends them: SSE, a watch of the health

ASSUME ProcessAssumption == Streams \subseteq Requests

VARIABLES
  service,    \* which of the three programs runs
  enabled,    \* settings.OpenTelemetry.Enabled
  phase,      \* where main is
  signalled,  \* ctx is done
  failed,     \* main's err is not nil
  retcode,    \* retcode
  pipelines,  \* exporters with a batch or a reader behind them
  cleanups,   \* shutdownFuncs: the providers whose Shutdown is registered
  invoked,    \* how often the Shutdown of a provider has been called (history)
  flushed,    \* pipelines whose last batch was exported
  active,     \* requests in progress
  cut         \* requests the exit of the process cut off

main      == <<phase, failed, retcode>>
telemetry == <<pipelines, cleanups, invoked, flushed>>
config    == <<service, enabled>>
requests  == <<active, cut>>
vars      == <<config, signalled, main, telemetry, requests>>

Kinds     == {"traces", "logs", "metrics"}
Providers == Kinds \cup {"empty"}     \* "empty" exports nothing

\* The steps of main up to the select that waits for a signal.
GatewayPlan ==
  <<"config", "traces", "logs", "metrics", "nats", "pubsubber", "health", "serving">>
MaestroPlan ==
  <<"config", "traces", "logs", "metrics", "nats", "client", "handler", "listen", "serving">>
PanettierePlan ==
  <<"config", "traces", "logs", "metrics", "listen", "serving">>

Services == {"gateway", "maestro", "panettiere"}

Plan == [s \in Services |->
  IF s = "gateway" THEN GatewayPlan ELSE IF s = "maestro" THEN MaestroPlan ELSE PanettierePlan]

SetUp  == {"config", "traces", "logs", "metrics", "nats", "pubsubber", "health", "client",
           "handler", "listen"}
Phases == SetUp \cup {"serving", "stopping", "deferred", "exiting", "exited"}

TypeOK ==
  /\ service \in Services /\ enabled \in BOOLEAN
  /\ phase \in Phases /\ signalled \in BOOLEAN
  /\ failed \in BOOLEAN /\ retcode \in {0, 1}
  /\ pipelines \subseteq Kinds /\ cleanups \subseteq Providers
  /\ invoked \in [Providers -> Nat] /\ flushed \subseteq Providers
  /\ active \subseteq Requests /\ cut \subseteq Requests

Init ==
  /\ service \in Services /\ enabled \in BOOLEAN
  /\ phase = "config" /\ signalled = FALSE
  /\ failed = FALSE /\ retcode = 0
  /\ pipelines = {} /\ cleanups = {}
  /\ invoked = [p \in Providers |-> 0] /\ flushed = {}
  /\ active = {} /\ cut = {}

Goto(here, there) == phase = here /\ phase' = there

Signal ==
  /\ phase # "exited"
  /\ ~signalled /\ signalled' = TRUE
  /\ UNCHANGED <<config, main, telemetry, requests>>

-----------------------------------------------------------------------------
(* Setting up.  main looks at no signal before it serves.                  *)

Proceed ==
  \E i \in 1..(Len(Plan[service]) - 1) :
    Plan[service][i] = phase /\ phase' = Plan[service][i + 1]

\* A step that fails makes main return with retcode 1.
Fail(to) == phase' = to /\ failed' = TRUE /\ retcode' = 1

\* Unreadable or invalid settings: nothing is deferred yet but the exit.
LoadConfig ==
  /\ phase = "config"
  /\ \/ Proceed /\ UNCHANGED <<failed, retcode>>
     \/ Fail("exiting")
  /\ UNCHANGED <<config, signalled, telemetry, requests>>

\* NATS, the stream, the health checker, the client of the baker, the handler with
\* its consumer, the listener: from here on main returns through otelShutdown.
SetUpStep ==
  /\ phase \in SetUp \ (Kinds \cup {"config"})
  /\ \/ Proceed /\ UNCHANGED <<failed, retcode>>
     \/ Fail("deferred")
  /\ UNCHANGED <<config, signalled, telemetry, requests>>

\* The provider for a kind is made and registered; returned is the one whose
\* Shutdown is registered.  Disabled telemetry has providers that export nothing.
NewProvider(kind, returned) ==
  /\ phase = kind
  /\ Proceed
  /\ pipelines' = IF enabled THEN pipelines \cup {kind} ELSE pipelines
  /\ cleanups' = cleanups \cup {IF enabled THEN returned ELSE "empty"}
  /\ UNCHANGED <<config, signalled, failed, retcode, invoked, flushed, requests>>

NewTraceProvider == NewProvider("traces", "traces")

\* Not the provider the exporter belongs to.
NewLoggerProvider == NewProvider("logs", "empty")

\* Mutant of NewMeterProvider: the slip of newLoggerProvider once more.
EmptyMeterProvider == NewProvider("metrics", "empty")

NewMeterProvider == NewProvider("metrics", "metrics")

\* Every registered cleanup is called; those in lost fail to export.
Shutdown(lost) ==
  /\ lost \subseteq cleanups \cap pipelines
  /\ invoked' = [p \in Providers |-> IF p \in cleanups THEN invoked[p] + 1 ELSE invoked[p]]
  /\ flushed' = flushed \cup (cleanups \ lost)
  /\ cleanups' = {}

\* Mutant of HandleErr: what is registered is left alone.
HandleErrNot(lost) == lost = {} /\ UNCHANGED <<invoked, flushed, cleanups>>
HandleErr(lost) == Shutdown(lost)

\* The runtime collector is started when the reader of the metrics runs already.
LeftBehind == IF phase = "metrics" THEN {{}, {"metrics"}} ELSE {{}}

\* SetupOTelSDK undoes what it has registered, and main has nothing more to undo.
ProviderFails ==
  /\ phase \in Kinds /\ enabled
  /\ \E lost \in SUBSET pipelines : HandleErr(lost)
  /\ \E left \in LeftBehind : pipelines' = pipelines \cup left
  /\ Fail("exiting")
  /\ UNCHANGED <<config, signalled, requests>>

-----------------------------------------------------------------------------
(* Serving and stopping.                                                   *)

Accept(r) ==
  /\ phase = "serving"
  /\ r \notin active /\ active' = active \cup {r}
  /\ UNCHANGED <<config, signalled, main, telemetry, cut>>

Answer(r) ==
  /\ phase # "exited"
  /\ r \in active /\ active' = active \ {r}
  /\ UNCHANGED <<config, signalled, main, telemetry, cut>>

GatewayFails ==
  /\ service = "gateway" /\ phase = "serving"
  /\ Fail("deferred")
  /\ UNCHANGED <<config, signalled, telemetry, requests>>

\* The error of Serve is the case's own err: main stops as if it had been told to.
GRPCServerFails ==
  /\ service # "gateway"
  /\ Goto("serving", "stopping")
  /\ UNCHANGED <<config, signalled, failed, retcode, telemetry, requests>>

SeesSignal ==
  /\ signalled
  /\ Goto("serving", "stopping")
  /\ UNCHANGED <<config, signalled, failed, retcode, telemetry, requests>>

Unreported == FALSE    \* mutant of CloseError: the error is only logged
CloseError == active # {}

\* Mutant of CloseGateway: Shutdown is given a context of its own.
CloseGatewayIdle ==
  /\ service = "gateway" /\ active = {}
  /\ Goto("stopping", "deferred")
  /\ UNCHANGED <<config, signalled, failed, retcode, telemetry, requests>>

\* Shutdown is given the context that is done: it closes the listener, and returns
\* at once with an error if a connection is not idle.
CloseGateway ==
  /\ service = "gateway"
  /\ Goto("stopping", "deferred")
  /\ failed' = CloseError
  /\ UNCHANGED <<config, signalled, retcode, telemetry, requests>>

AllAnswered == active = {}

GracefulStop ==
  /\ service # "gateway" /\ AllAnswered
  /\ Goto("stopping", "deferred")
  /\ UNCHANGED <<config, signalled, failed, retcode, telemetry, requests>>

\* The deferred otelShutdown, whose error is joined to main's.
ShutdownTelemetry ==
  /\ Goto("deferred", "exiting")
  /\ \E lost \in SUBSET pipelines :
       /\ Shutdown(lost)
       /\ failed' = (failed \/ lost # {})
  /\ retcode' = IF failed' THEN 1 ELSE retcode
  /\ UNCHANGED <<config, signalled, pipelines, requests>>

\* os.Exit(retcode)
Exit ==
  /\ Goto("exiting", "exited")
  /\ cut' = active /\ active' = {}
  /\ UNCHANGED <<config, signalled, failed, retcode, telemetry>>

Terminated == phase = "exited" /\ UNCHANGED vars

Main ==
  \/ LoadConfig \/ SetUpStep
  \/ NewTraceProvider \/ NewLoggerProvider \/ NewMeterProvider \/ ProviderFails
  \/ SeesSignal \/ CloseGateway \/ GracefulStop \/ ShutdownTelemetry \/ Exit

Next ==
  \/ Main \/ GatewayFails \/ GRPCServerFails \/ Signal \/ Terminated
  \/ \E r \in Requests : Accept(r) \/ Answer(r)

Spec == Init /\ [][Next]_vars

\* main runs, and a request that is no stream is answered.
FairSpec ==
  /\ Spec
  /\ WF_vars(Main)
  /\ \A r \in Requests \ Streams : WF_vars(Answer(r))

-----------------------------------------------------------------------------
\* "Each registered cleanup will be invoked once": on the way out of a set-up that
\* failed half-way as at the end of a long life, never twice and never not at all.
\* (The empty provider is returned up to three times.)
CleanedUpOnce ==
  /\ \A p \in Kinds : invoked[p] + (IF p \in cleanups THEN 1 ELSE 0) <= 1
  /\ phase \in {"exiting", "exited"} => cleanups = {}

\* An exit code of 0 means what an orchestrator takes it for: the service was set up,
\* no request was cut off and no provider that was shut down lost its last batch.  (A
\* gRPC service whose server fails exits with 0 too; only the gateway reports that.)
ZeroIsClean ==
  phase = "exited" /\ retcode = 0 =>
    /\ cut = {} /\ ~failed
    /\ \A p \in Kinds : invoked[p] = 1 => p \in flushed

\* Only the gateway ever cuts a request off; the gRPC services wait for them.
OnlyGatewayCuts == cut # {} => service = "gateway"

\* A signal ends the process, unless a gRPC service waits for a client that watches
\* its health, which it does for ever.
SignalEnds ==
  signalled ~> (phase = "exited"
                 \/ (phase = "stopping" /\ service # "gateway" /\ active \cap Streams # {}))

\* "If it does not return an error, make sure to call shutdown for proper cleanup":
\* main does call it, and an exit code of 0 says that it returned no error; then what
\* has been recorded is exported.
ProperCleanup ==
  phase = "exited" /\ retcode = 0 => pipelines \subseteq flushed

\* What holds of that: traces and metrics are never lost without an error, whatever
\* fails on the way up and whatever signal comes when.
OnlyLogsAreLost ==
  phase = "exited" /\ retcode = 0 => pipelines \ flushed \subseteq {"logs"}
=============================================================================
