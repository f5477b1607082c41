----------------------------- MODULE ProcessProofs -----------------------------
(***************************************************************************)
(* For any number of requests and streams: cleanups are called once, an    *)
(* exit code of 0 is clean and loses the logs alone, and only the gateway  *)
(* cuts requests off.                                                      *)
(***************************************************************************)
EXTENDS Process, TLAPS

-----------------------------------------------------------------------------
(* The inductive invariant.                                                *)

Early == SetUp \cup {"serving", "stopping", "deferred"}
Late  == {"exiting", "exited"}

\* Cleanups are registered early and called on the way to the exit.
Cleanups ==
  /\ phase \in Early => \A p \in Kinds : invoked[p] = 0
  /\ phase \in Late => cleanups = {}
  /\ phase = "config" => cleanups = {}
  /\ \A p \in Kinds : invoked[p] <= 1

\* main's err reaches the exit code when the cleanups have been called.
Errors ==
  /\ phase \in Late /\ failed => retcode = 1
  /\ phase \in Late /\ ~failed => \A p \in Kinds : invoked[p] = 1 => p \in flushed

\* Requests outlive the server only with an error, and only in the gateway.
Leftovers ==
  /\ phase \in SetUp => active = {}
  /\ phase \in {"deferred", "exiting"} /\ active # {} => failed /\ service = "gateway"
  /\ phase # "exited" => cut = {}
  /\ cut # {} => failed /\ service = "gateway"

\* Every pipeline but that of the logs is registered for cleanup before another can fail,
\* and the cleanup flushes it unless it says otherwise in the exit code.
LogsApart ==
  /\ phase \in Early => pipelines \ {"logs"} \subseteq cleanups
  /\ phase \in Late /\ retcode = 0 => pipelines \ {"logs"} \subseteq flushed

IInv == TypeOK /\ Cleanups /\ Errors /\ Leftovers /\ LogsApart

\* The initial state satisfies the invariant.
LEMMA InitIInv == Init => IInv
<1> SUFFICES ASSUME Init PROVE IInv
  OBVIOUS
<1>1. TypeOK
  BY DEF Init, TypeOK, Phases, SetUp
<1>2. Cleanups /\ Errors /\ Leftovers /\ LogsApart
  BY DEF Init, Cleanups, Errors, Leftovers, LogsApart, Early, Late, SetUp, Kinds, Providers
<1> QED  BY <1>1, <1>2 DEF IInv

\* main goes from one step of its plan to the next, up to the select.
LEMMA ProceedLemma ==
  TypeOK /\ Proceed => phase' \in (SetUp \ {"config"}) \cup {"serving"}
<1> SUFFICES ASSUME TypeOK, NEW i \in 1..(Len(Plan[service]) - 1), phase' = Plan[service][i + 1]
             PROVE  phase' \in (SetUp \ {"config"}) \cup {"serving"}
  BY DEF Proceed
<1>1. CASE service = "gateway"
  <2>1. Plan[service] = GatewayPlan
    BY <1>1 DEF Plan, Services
  <2> QED  BY <2>1 DEF GatewayPlan, SetUp
<1>2. CASE service = "maestro"
  <2>1. Plan[service] = MaestroPlan
    BY <1>2 DEF Plan, Services
  <2> QED  BY <2>1 DEF MaestroPlan, SetUp
<1>3. CASE service = "panettiere"
  <2>1. Plan[service] = PanettierePlan
    BY <1>3 DEF Plan, Services
  <2> QED  BY <2>1 DEF PanettierePlan, SetUp
<1> QED  BY <1>1, <1>2, <1>3 DEF TypeOK, Services

-----------------------------------------------------------------------------
(* Each step keeps the invariant.                                          *)

\* Types.
LEMMA TypeStep == TypeOK /\ [Next]_vars => TypeOK'
<1> SUFFICES ASSUME TypeOK, [Next]_vars PROVE TypeOK'
  OBVIOUS
<1> USE DEF config, main, telemetry, requests, SetUp, Kinds, TypeOK, Phases, Providers
<1>1. CASE LoadConfig
  BY <1>1, ProceedLemma DEF LoadConfig, Fail
<1>2. CASE SetUpStep
  BY <1>2, ProceedLemma DEF SetUpStep, Fail
<1>3. CASE NewTraceProvider \/ NewLoggerProvider \/ NewMeterProvider
  BY <1>3, ProceedLemma DEF NewTraceProvider, NewLoggerProvider, NewMeterProvider, NewProvider
<1>4. CASE ProviderFails
  <2>1. invoked' \in [Providers -> Nat] /\ cleanups' = {} /\ flushed' \subseteq Providers
    BY <1>4 DEF ProviderFails, HandleErr, Shutdown
  <2>2. pipelines' \subseteq Kinds
    BY <1>4 DEF ProviderFails, LeftBehind
  <2>3. /\ phase' = "exiting" /\ failed' = TRUE /\ retcode' = 1
        /\ UNCHANGED <<service, enabled, signalled, active, cut>>
    BY <1>4 DEF ProviderFails, Fail
  <2> QED  BY <2>1, <2>2, <2>3
<1>5. CASE GatewayFails \/ GRPCServerFails \/ SeesSignal
  BY <1>5 DEF GatewayFails, GRPCServerFails, SeesSignal, Goto, Fail
<1>6. CASE CloseGateway \/ GracefulStop
  BY <1>6 DEF CloseGateway, CloseError, GracefulStop, AllAnswered, Goto
<1>7. CASE ShutdownTelemetry
  BY <1>7 DEF ShutdownTelemetry, Shutdown, Goto
<1>8. CASE Exit
  BY <1>8 DEF Exit, Goto
<1>9. CASE Signal \/ Terminated
  BY <1>9 DEF Signal, Terminated, vars
<1>10. ASSUME NEW r \in Requests, Accept(r) \/ Answer(r)
      PROVE  TypeOK'
  BY <1>10 DEF Accept, Answer
<1>11. CASE UNCHANGED vars
  BY <1>11 DEF vars
<1> QED  BY <1>1, <1>2, <1>3, <1>4, <1>5, <1>6, <1>7, <1>8, <1>9, <1>10, <1>11 DEF Next, Main

\* Cleanups are called once, when main is on its way out.
LEMMA CleanupsStep == TypeOK /\ Cleanups /\ [Next]_vars => Cleanups'
<1> SUFFICES ASSUME TypeOK, Cleanups, [Next]_vars PROVE Cleanups'
  OBVIOUS
<1> USE DEF config, main, telemetry, requests, SetUp, Kinds, TypeOK, Cleanups, Early, Late,
            Providers
<1>1. CASE LoadConfig
  BY <1>1, ProceedLemma DEF LoadConfig, Fail
<1>2. CASE SetUpStep
  BY <1>2, ProceedLemma DEF SetUpStep, Fail
<1>3. CASE NewTraceProvider \/ NewLoggerProvider \/ NewMeterProvider
  BY <1>3, ProceedLemma DEF NewTraceProvider, NewLoggerProvider, NewMeterProvider, NewProvider
<1>4. CASE ProviderFails
  BY <1>4 DEF ProviderFails, HandleErr, Shutdown, LeftBehind, Fail
<1>5. CASE GatewayFails \/ GRPCServerFails \/ SeesSignal
  BY <1>5 DEF GatewayFails, GRPCServerFails, SeesSignal, Goto, Fail
<1>6. CASE CloseGateway \/ GracefulStop
  BY <1>6 DEF CloseGateway, CloseError, GracefulStop, AllAnswered, Goto
<1>7. CASE ShutdownTelemetry
  BY <1>7 DEF ShutdownTelemetry, Shutdown, Goto
<1>8. CASE Exit
  BY <1>8 DEF Exit, Goto
<1>9. CASE Signal \/ Terminated
  BY <1>9 DEF Signal, Terminated, vars
<1>10. ASSUME NEW r \in Requests, Accept(r) \/ Answer(r)
      PROVE  Cleanups'
  BY <1>10 DEF Accept, Answer
<1>11. CASE UNCHANGED vars
  BY <1>11 DEF vars
<1> QED  BY <1>1, <1>2, <1>3, <1>4, <1>5, <1>6, <1>7, <1>8, <1>9, <1>10, <1>11 DEF Next, Main

\* An error is in the exit code once the cleanups have been called.
LEMMA ErrorsStep == TypeOK /\ Cleanups /\ Errors /\ [Next]_vars => Errors'
<1> SUFFICES ASSUME TypeOK, Cleanups, Errors, [Next]_vars PROVE Errors'
  OBVIOUS
<1> USE DEF config, main, telemetry, requests, SetUp, Kinds, TypeOK, Cleanups, Errors,
            Early, Late, Providers
<1>1. CASE LoadConfig
  BY <1>1, ProceedLemma DEF LoadConfig, Fail
<1>2. CASE SetUpStep
  BY <1>2, ProceedLemma DEF SetUpStep, Fail
<1>3. CASE NewTraceProvider \/ NewLoggerProvider \/ NewMeterProvider
  BY <1>3, ProceedLemma DEF NewTraceProvider, NewLoggerProvider, NewMeterProvider, NewProvider
<1>4. CASE ProviderFails
  BY <1>4 DEF ProviderFails, HandleErr, Shutdown, LeftBehind, Fail
<1>5. CASE GatewayFails \/ GRPCServerFails \/ SeesSignal
  BY <1>5 DEF GatewayFails, GRPCServerFails, SeesSignal, Goto, Fail
<1>6. CASE CloseGateway \/ GracefulStop
  BY <1>6 DEF CloseGateway, CloseError, GracefulStop, AllAnswered, Goto
<1>7. CASE ShutdownTelemetry
  <2>1. /\ phase = "deferred" /\ phase' = "exiting" /\ failed' \in BOOLEAN
        /\ retcode' = IF failed' THEN 1 ELSE retcode
    BY <1>7 DEF ShutdownTelemetry, Goto
  <2>2. ASSUME ~failed', NEW p \in Kinds, invoked'[p] = 1
        PROVE  p \in flushed'
    <3>1. Shutdown({})
      BY <1>7, <2>2 DEF ShutdownTelemetry
    <3>2. invoked[p] = 0
      BY <2>1
    <3>3. p \in cleanups
      BY <2>2, <3>1, <3>2 DEF Shutdown
    <3> QED  BY <3>1, <3>3 DEF Shutdown
  <2> QED  BY <2>1, <2>2
<1>8. CASE Exit
  BY <1>8 DEF Exit, Goto
<1>9. CASE Signal \/ Terminated
  BY <1>9 DEF Signal, Terminated, vars
<1>10. ASSUME NEW r \in Requests, Accept(r) \/ Answer(r)
      PROVE  Errors'
  BY <1>10 DEF Accept, Answer
<1>11. CASE UNCHANGED vars
  BY <1>11 DEF vars
<1> QED  BY <1>1, <1>2, <1>3, <1>4, <1>5, <1>6, <1>7, <1>8, <1>9, <1>10, <1>11 DEF Next, Main

\* Who has requests left when the server is gone has an error.
LEMMA LeftoversStep == TypeOK /\ Leftovers /\ [Next]_vars => Leftovers'
<1> SUFFICES ASSUME TypeOK, Leftovers, [Next]_vars PROVE Leftovers'
  OBVIOUS
<1> USE DEF config, main, telemetry, requests, SetUp, Kinds, TypeOK, Leftovers
<1>1. CASE LoadConfig
  BY <1>1, ProceedLemma DEF LoadConfig, Fail
<1>2. CASE SetUpStep
  BY <1>2, ProceedLemma DEF SetUpStep, Fail
<1>3. CASE NewTraceProvider \/ NewLoggerProvider \/ NewMeterProvider
  BY <1>3, ProceedLemma DEF NewTraceProvider, NewLoggerProvider, NewMeterProvider, NewProvider
<1>4. CASE ProviderFails
  BY <1>4 DEF ProviderFails, HandleErr, Shutdown, LeftBehind, Fail
<1>5. CASE GatewayFails \/ GRPCServerFails \/ SeesSignal
  BY <1>5 DEF GatewayFails, GRPCServerFails, SeesSignal, Goto, Fail
<1>6. CASE CloseGateway \/ GracefulStop
  BY <1>6 DEF CloseGateway, CloseError, GracefulStop, AllAnswered, Goto
<1>7. CASE ShutdownTelemetry
  BY <1>7 DEF ShutdownTelemetry, Shutdown, Goto
<1>8. CASE Exit
  BY <1>8 DEF Exit, Goto
<1>9. CASE Signal \/ Terminated
  BY <1>9 DEF Signal, Terminated, vars
<1>10. ASSUME NEW r \in Requests, Accept(r) \/ Answer(r)
      PROVE  Leftovers'
  BY <1>10 DEF Accept, Answer
<1>11. CASE UNCHANGED vars
  BY <1>11 DEF vars
<1> QED  BY <1>1, <1>2, <1>3, <1>4, <1>5, <1>6, <1>7, <1>8, <1>9, <1>10, <1>11 DEF Next, Main

\* What is exported by then is flushed on the way out, but for the logs.
LEMMA LogsStep == TypeOK /\ Cleanups /\ LogsApart /\ [Next]_vars => LogsApart'
<1> SUFFICES ASSUME TypeOK, Cleanups, LogsApart, [Next]_vars PROVE LogsApart'
  OBVIOUS
<1> USE DEF config, main, telemetry, requests, SetUp, Kinds, TypeOK, LogsApart, Early, Late,
            Providers
<1>1. CASE LoadConfig
  BY <1>1, ProceedLemma DEF LoadConfig, Fail
<1>2. CASE SetUpStep
  BY <1>2, ProceedLemma DEF SetUpStep, Fail
<1>3. CASE NewTraceProvider \/ NewLoggerProvider \/ NewMeterProvider
  BY <1>3, ProceedLemma DEF NewTraceProvider, NewLoggerProvider, NewMeterProvider, NewProvider
<1>4. CASE ProviderFails
  BY <1>4 DEF ProviderFails, HandleErr, Shutdown, LeftBehind, Fail
<1>5. CASE GatewayFails \/ GRPCServerFails \/ SeesSignal
  BY <1>5 DEF GatewayFails, GRPCServerFails, SeesSignal, Goto, Fail
<1>6. CASE CloseGateway \/ GracefulStop
  BY <1>6 DEF CloseGateway, CloseError, GracefulStop, AllAnswered, Goto
<1>7. CASE ShutdownTelemetry
  <2>1. /\ phase = "deferred" /\ phase' = "exiting" /\ pipelines' = pipelines
        /\ retcode' = IF failed' THEN 1 ELSE retcode
    BY <1>7 DEF ShutdownTelemetry, Goto
  <2>2. ASSUME retcode' = 0
        PROVE  pipelines' \ {"logs"} \subseteq flushed'
    <3>1. ~failed'
      BY <2>1, <2>2
    <3>2. Shutdown({})
      BY <1>7, <3>1 DEF ShutdownTelemetry
    <3>3. cleanups \subseteq flushed'
      BY <3>2 DEF Shutdown
    <3> QED  BY <2>1, <3>3
  <2> QED  BY <2>1, <2>2
<1>8. CASE Exit
  BY <1>8 DEF Exit, Goto
<1>9. CASE Signal \/ Terminated
  BY <1>9 DEF Signal, Terminated, vars
<1>10. ASSUME NEW r \in Requests, Accept(r) \/ Answer(r)
      PROVE  LogsApart'
  BY <1>10 DEF Accept, Answer
<1>11. CASE UNCHANGED vars
  BY <1>11 DEF vars
<1> QED  BY <1>1, <1>2, <1>3, <1>4, <1>5, <1>6, <1>7, <1>8, <1>9, <1>10, <1>11 DEF Next, Main

-----------------------------------------------------------------------------
(* The theorems.                                                           *)

\* The invariant is inductive.
LEMMA StepIInv == IInv /\ [Next]_vars => IInv'
  BY TypeStep, CleanupsStep, ErrorsStep, LeftoversStep, LogsStep DEF IInv

\* Types, cleanups that are called once, an exit code of 0 that is clean, and only the
\* gateway cuts requests off.
THEOREM ExitTheorem == Spec => [](TypeOK /\ CleanedUpOnce /\ ZeroIsClean /\ OnlyGatewayCuts)
<1>1. IInv => CleanedUpOnce
  <2> SUFFICES ASSUME IInv PROVE CleanedUpOnce
    OBVIOUS
  <2>1. ASSUME NEW p \in Kinds
        PROVE  invoked[p] \in Nat /\ invoked[p] <= 1 /\ (p \in cleanups => invoked[p] = 0)
    BY DEF IInv, TypeOK, Cleanups, Early, Late, Phases, Providers
  <2>2. phase \in Late => cleanups = {}
    BY DEF IInv, Cleanups
  <2> QED  BY <2>1, <2>2 DEF CleanedUpOnce, Late
<1>2. IInv => TypeOK /\ ZeroIsClean /\ OnlyGatewayCuts
  BY DEF IInv, Errors, Leftovers, Late, ZeroIsClean, OnlyGatewayCuts
<1> QED  BY InitIInv, StepIInv, <1>1, <1>2, PTL DEF Spec

\* "Each registered cleanup will be invoked once", on every way out of main.
THEOREM CleanupTheorem == Spec => []CleanedUpOnce
  BY ExitTheorem, PTL

\* With an exit code of 0 no batch of traces or metrics is lost.
THEOREM LogsTheorem == Spec => []OnlyLogsAreLost
<1>1. IInv => OnlyLogsAreLost
  BY DEF IInv, LogsApart, Late, OnlyLogsAreLost
<1> QED  BY <1>1, InitIInv, StepIInv, PTL DEF Spec
=============================================================================
