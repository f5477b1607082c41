--------------------------- MODULE PanettiereProofs ---------------------------
(***************************************************************************)
(* What the runs of Panettiere and PanettiereHistory check on a few calls, *)
(* proved for every set Handlers of calls.                                 *)
(***************************************************************************)
EXTENDS PanettiereHistory, TLAPS

-----------------------------------------------------------------------------
(* The safety invariant of Panettiere.                                     *)

\* What p.status itself satisfies; Status answers something else at times.
StatusLive ==
  /\ \A h \in Handlers : status = h => pc[h] = "cooking"
  /\ status = "sleeping" => isSleeping

\* The inductive invariant: its parts are inductive together.
IInv == TypeOK /\ OneSleeper /\ WorkingFlagSound /\ StatusLive

\* The initial state of the service satisfies the inductive invariant.
LEMMA InitIInv == Init => IInv
<1> SUFFICES ASSUME Init PROVE IInv
  OBVIOUS
<1>1. FlagsOK
  BY DEF Init, FlagsOK
<1>2. ControlOK
  BY DEF Init, ControlOK, Statuses, Steps, Phases, Serving
<1>3. OneSleeper /\ WorkingFlagSound
  BY DEF Init, OneSleeper, WorkingFlagSound
<1>4. StatusLive
  BY HandlersAssumption DEF Init, StatusLive
<1> QED  BY <1>1, <1>2, <1>3, <1>4 DEF IInv, TypeOK

\* Neither main nor the health loop nor a watching client touches what p.mu protects,
\* or a handler.
LEMMA MainFrame ==
  HealthLoop \/ Unwatch \/ Main \/ Terminated \/ UNCHANGED vars
    => UNCHANGED <<flags, pc, sleepers>>
  BY DEF HealthLoop, Unwatch, Main, Terminated, ListenOk, ListenFails, Terminate,
         GracefulStop, Exit, StopService, server, vars

\* Every step leaves Booleans in the flags.
LEMMA FlagsStep == FlagsOK /\ [Next]_vars => FlagsOK'
<1> SUFFICES ASSUME FlagsOK, [Next]_vars PROVE FlagsOK'
  OBVIOUS
<1> USE DEF FlagsOK, flags, probe
<1>1. CASE TickerFires \/ TickSleep \/ TickDefer \/ TickIgnored \/ WakeUp
  BY <1>1 DEF TickerFires, TickSleep, TickDefer, Defer, TickIgnored, WakeUp, NapIsOver, Awake,
              BeginNap
<1>2. CASE \E h \in Handlers : Call(h) \/ Handle(h)
  BY <1>2 DEF Call, Handle, Refuse, Admit, StartDough, FinishDough, EndWork, CheckAndSleep,
              OwedNap, BeginNap
<1>3. CASE HealthLoop \/ Unwatch \/ Main \/ Terminated \/ UNCHANGED vars
  BY <1>3 DEF HealthLoop, Unwatch, Main, Terminated, ListenOk, ListenFails, Terminate,
              GracefulStop, Exit, StopService, vars
<1> QED  BY <1>1, <1>2, <1>3 DEF Next

\* Every step leaves the other variables in their sets.
LEMMA ControlStep == ControlOK /\ [Next]_vars => ControlOK'
<1> SUFFICES ASSUME ControlOK, [Next]_vars PROVE ControlOK'
  OBVIOUS
<1> USE DEF ControlOK, flags, server, probe
<1>1. CASE TickerFires \/ TickSleep \/ TickDefer \/ TickIgnored \/ WakeUp
  BY <1>1 DEF TickerFires, TickSleep, TickDefer, Defer, TickIgnored, WakeUp, NapIsOver, Awake,
              BeginNap, Statuses
<1>2. ASSUME NEW h \in Handlers, Call(h) \/ Handle(h)
      PROVE  ControlOK'
  <2>1. pc' \in [Handlers -> Steps]
    BY <1>2 DEF Call, Handle, Refuse, Admit, StartDough, FinishDough, EndWork, CheckAndSleep,
                OwedNap, Goto, Steps
  <2>2. status' \in Statuses /\ sleepers' \in Nat
    BY <1>2 DEF Call, Handle, Refuse, Admit, StartDough, FinishDough, EndWork, CheckAndSleep,
                OwedNap, BeginNap,
                Statuses
  <2>3. health' \in Serving /\ sample' \in Serving /\ phase' \in Phases
    BY <1>2 DEF Call, Handle, Refuse, Admit, StartDough, FinishDough, EndWork, CheckAndSleep,
                OwedNap
  <2> QED  BY <2>1, <2>2, <2>3
<1>3. CASE HealthLoop \/ Unwatch \/ Main \/ Terminated \/ UNCHANGED vars
  BY <1>3 DEF HealthLoop, Unwatch, ServingStatus, Serving, Main, Terminated, ListenOk,
              ListenFails, Terminate, GracefulStop, Exit, StopService, Phases, vars
<1> QED  BY <1>1, <1>2, <1>3 DEF Next

\* Every step leaves one waker per nap: both places that begin a nap first
\* find the baker awake, under the mutex.
LEMMA OneSleeperStep == TypeOK /\ OneSleeper /\ [Next]_vars => OneSleeper'
<1> SUFFICES ASSUME TypeOK, OneSleeper, [Next]_vars PROVE OneSleeper'
  OBVIOUS
<1> USE DEF TypeOK, FlagsOK, ControlOK, OneSleeper, flags
<1>1. CASE TickerFires \/ TickSleep \/ TickDefer \/ TickIgnored \/ WakeUp
  BY <1>1 DEF TickerFires, TickSleep, TickDefer, Defer, TickIgnored, WakeUp, NapIsOver, Awake,
              BeginNap, Idle
<1>2. CASE \E h \in Handlers :
            Call(h) \/ Refuse(h) \/ Admit(h) \/ StartDough(h) \/ FinishDough(h)
  BY <1>2 DEF Call, Refuse, Admit, StartDough, FinishDough, EndWork
<1>3. CASE \E h \in Handlers : CheckAndSleep(h)
  BY <1>3 DEF CheckAndSleep, OwedNap, BeginNap, Idle
<1>4. CASE HealthLoop \/ Unwatch \/ Main \/ Terminated \/ UNCHANGED vars
  BY <1>4, MainFrame
<1> QED  BY <1>1, <1>2, <1>3, <1>4 DEF Next, Handle

\* Every step leaves a cook behind the work flag: a handler that starts sets it
\* and cooks, one that finishes clears it.
LEMMA WorkingFlagStep == TypeOK /\ WorkingFlagSound /\ [Next]_vars => WorkingFlagSound'
<1> SUFFICES ASSUME TypeOK, WorkingFlagSound, [Next]_vars PROVE WorkingFlagSound'
  OBVIOUS
<1> USE DEF TypeOK, ControlOK, WorkingFlagSound, flags, server
<1>1. CASE TickerFires \/ TickSleep \/ TickDefer \/ TickIgnored \/ WakeUp
  BY <1>1 DEF TickerFires, TickSleep, TickDefer, Defer, TickIgnored, WakeUp, NapIsOver, Awake
<1>2. ASSUME NEW h \in Handlers, Call(h) \/ Refuse(h) \/ Admit(h) \/ CheckAndSleep(h)
      PROVE  WorkingFlagSound'
  BY <1>2 DEF Call, Refuse, Admit, CheckAndSleep, Goto
<1>3. ASSUME NEW h \in Handlers, StartDough(h) \/ FinishDough(h)
      PROVE  WorkingFlagSound'
  BY <1>3 DEF StartDough, FinishDough, EndWork, Goto
<1>4. CASE HealthLoop \/ Unwatch \/ Main \/ Terminated \/ UNCHANGED vars
  BY <1>4, MainFrame
<1> QED  BY <1>1, <1>2, <1>3, <1>4 DEF Next, Handle

\* Every step leaves a live order in the status, if any: the handler that
\* finishes overwrites the status, whoever wrote it.
LEMMA StatusStep == TypeOK /\ StatusLive /\ [Next]_vars => StatusLive'
<1> SUFFICES ASSUME TypeOK, StatusLive, [Next]_vars PROVE StatusLive'
  OBVIOUS
<1> USE HandlersAssumption DEF TypeOK, ControlOK, StatusLive, flags, server
<1>1. CASE TickerFires \/ TickSleep \/ TickDefer \/ TickIgnored \/ WakeUp
  BY <1>1 DEF TickerFires, TickSleep, TickDefer, Defer, TickIgnored, WakeUp, NapIsOver, Awake,
              BeginNap
<1>2. ASSUME NEW h \in Handlers, Call(h) \/ Refuse(h) \/ Admit(h) \/ CheckAndSleep(h)
      PROVE  StatusLive'
  BY <1>2 DEF Call, Refuse, Admit, CheckAndSleep, OwedNap, BeginNap, Goto
<1>3. ASSUME NEW h \in Handlers, StartDough(h) \/ FinishDough(h)
      PROVE  StatusLive'
  BY <1>3 DEF StartDough, FinishDough, EndWork, Goto
<1>4. CASE HealthLoop \/ Unwatch \/ Main \/ Terminated \/ UNCHANGED vars
  BY <1>4, MainFrame
<1> QED  BY <1>1, <1>2, <1>3, <1>4 DEF Next, Handle

\* The invariant is inductive.
LEMMA StepIInv == IInv /\ [Next]_vars => IInv'
  BY FlagsStep, ControlStep, OneSleeperStep, WorkingFlagStep, StatusStep DEF IInv, TypeOK

\* The invariants the safety run checks, for any number of concurrent calls:
\* naps never overlap, the work flag is never stuck and the status never names
\* a dead order.
THEOREM SafetyTheorem ==
  Spec => [](TypeOK /\ OneSleeper /\ WorkingFlagSound /\ StatusNamesLiveOrder)
<1>1. IInv => TypeOK /\ OneSleeper /\ WorkingFlagSound /\ StatusNamesLiveOrder
  BY HandlersAssumption DEF IInv, TypeOK, FlagsOK, StatusLive, StatusNamesLiveOrder, StatusReply
<1> QED  BY <1>1, InitIInv, StepIInv, PTL DEF Spec

\* The work flag is never stuck: while it is set, an order is being made.
THEOREM WorkingFlagTheorem == Spec => []WorkingFlagSound
  BY SafetyTheorem, PTL

\* What Status answers names no order that is finished and no nap that is over.
THEOREM StatusTheorem == Spec => []StatusNamesLiveOrder
  BY SafetyTheorem, PTL

-----------------------------------------------------------------------------
(* Work priority, as long as calls do not overlap.                         *)

\* While calls do not overlap the work flag also tells when a dough is made.
FlagCoversWork == \A h \in Handlers : pc[h] = "cooking" => isWorkingOnDough

\* Only a handler that finishes while another one cooks clears the flag under it.
LEMMA FlagCoversStep ==
  TypeOK /\ FlagCoversWork /\ ~Overlapping /\ [Next]_vars => FlagCoversWork'
<1> SUFFICES ASSUME TypeOK, FlagCoversWork, ~Overlapping, [Next]_vars
             PROVE  FlagCoversWork'
  OBVIOUS
<1> USE DEF TypeOK, ControlOK, FlagCoversWork, flags, server, probe, vars, Goto
<1>1. CASE TickerFires \/ TickSleep \/ TickDefer \/ TickIgnored \/ WakeUp
  BY <1>1 DEF TickerFires, TickSleep, TickDefer, Defer, TickIgnored, WakeUp, NapIsOver, Awake
<1>2. ASSUME NEW h \in Handlers,
             Call(h) \/ Refuse(h) \/ Admit(h) \/ StartDough(h) \/ CheckAndSleep(h)
      PROVE  FlagCoversWork'
  BY <1>2 DEF Call, Refuse, Admit, StartDough, CheckAndSleep, OwedNap
<1>3. ASSUME NEW h \in Handlers, FinishDough(h), NEW g \in Handlers
      PROVE  pc'[g] # "cooking"
  BY <1>3 DEF FinishDough, EndWork, Overlapping, Working
<1>4. CASE HealthLoop \/ Unwatch \/ Main \/ Terminated \/ UNCHANGED vars
  BY <1>4, MainFrame
<1> QED  BY <1>1, <1>2, <1>3, <1>4 DEF Next, Handle

\* Both places that begin a nap find no work flag, under the mutex.
LEMMA NapsBeginIdle == Next /\ ~isSleeping /\ isSleeping' => ~isWorkingOnDough
<1> SUFFICES ASSUME Next, ~isSleeping, isSleeping' PROVE ~isWorkingOnDough
  OBVIOUS
<1>1. CASE TickSleep \/ \E h \in Handlers : CheckAndSleep(h)
  BY <1>1 DEF TickSleep, CheckAndSleep, Idle
<1>2. CASE TickerFires \/ TickDefer \/ TickIgnored \/ WakeUp
  BY <1>2 DEF TickerFires, TickDefer, Defer, TickIgnored, WakeUp, NapIsOver, Awake, flags
<1>3. CASE \E h \in Handlers :
            Call(h) \/ Refuse(h) \/ Admit(h) \/ StartDough(h) \/ FinishDough(h)
  BY <1>3 DEF Call, Refuse, Admit, StartDough, FinishDough, flags
<1>4. CASE HealthLoop \/ Unwatch \/ Main \/ Terminated
  BY <1>4 DEF HealthLoop, Unwatch, Main, Terminated, ListenOk, ListenFails, Terminate,
              GracefulStop, Exit, StopService, flags, vars
<1> QED  BY <1>1, <1>2, <1>3, <1>4 DEF Next, Handle

\* If there is one call at a time, no step puts the baker to sleep over a dough: the
\* README's work priority fails only through overlapping calls.
THEOREM WorkPriorityOneCall ==
  ASSUME NEW c, Handlers = {c}
  PROVE  Spec => WorkPriority
<1>1. Init => FlagCoversWork
  BY DEF Init, FlagCoversWork
<1>2. ~Overlapping
  BY DEF Overlapping
<1>3. FlagCoversWork /\ [Next]_vars
        => [~isSleeping /\ isSleeping' => \A h \in Handlers : pc[h] # "cooking"]_vars
  BY NapsBeginIdle DEF FlagCoversWork
<1>4. IInv => TypeOK
  BY DEF IInv
<1>5. TypeOK /\ FlagCoversWork /\ [Next]_vars => FlagCoversWork'
  BY <1>2, FlagCoversStep
<1> QED  BY <1>1, <1>3, <1>4, <1>5, InitIInv, StepIInv, PTL DEF Spec, WorkPriority

-----------------------------------------------------------------------------
(* The history: naps are paid by ticks, the health catches up.             *)

\* A behaviour with history variables is a behaviour of the service.
LEMMA HistoryStep == [HNext]_hvars => [Next]_vars
  BY DEF HNext, HealthTurn, OtherStep, Next, TickHandled, hvars

\* What the health loop has sampled is true after one turn, what it has
\* published after two.
HealthInv ==
  /\ steady >= 1 => sample = ServingStatus
  /\ steady = 2 => health = ServingStatus

\* Until calls overlap, whoever cooks has the work flag set.
PriorityInv == ~overlap => FlagCoversWork

HInv == HTypeOK /\ NapsArePaid /\ HealthInv /\ PriorityInv

\* The initial state satisfies the history invariant.
LEMMA InitHInv == HInit => HInv
<1> SUFFICES ASSUME HInit PROVE HInv
  OBVIOUS
<1>1. TypeOK
  BY InitIInv DEF HInit, IInv
<1>2. /\ credit \in 0..2 /\ steady \in 0..2
      /\ overlap \in BOOLEAN
  <2>1. credit \in 0..2 /\ steady \in 0..2
    BY DEF HInit
  <2>2. overlap \in BOOLEAN
    BY DEF HInit
  <2> QED  BY <2>1, <2>2
<1>3. NapsArePaid
  BY DEF HInit, Init, NapsArePaid
<1>4. HealthInv /\ PriorityInv
  BY DEF HInit, Init, HealthInv, ServingStatus, PriorityInv, FlagCoversWork
<1> QED  BY <1>1, <1>2, <1>3, <1>4 DEF HInv, HTypeOK

\* The debts a step leaves, in ticks.
Debts == (IF shouldSleep THEN 1 ELSE 0) + (IF tick THEN 1 ELSE 0)

\* A tick is a new debt, a nap pays one, and no other step adds one.
LEMMA DebtsStep ==
  TypeOK /\ [Next]_vars =>
    /\ Debts \in 0..2 /\ Debts' \in 0..2
    /\ ~tick /\ tick' => Debts' = Debts + 1
    /\ ~(~tick /\ tick') /\ sleepers' > sleepers => Debts >= 1 /\ Debts' = Debts - 1
    /\ ~(~tick /\ tick') => Debts' <= Debts
<1> SUFFICES ASSUME TypeOK, [Next]_vars
             PROVE  /\ Debts \in 0..2 /\ Debts' \in 0..2
                    /\ ~tick /\ tick' => Debts' = Debts + 1
                    /\ ~(~tick /\ tick') /\ sleepers' > sleepers
                         => Debts >= 1 /\ Debts' = Debts - 1
                    /\ ~(~tick /\ tick') => Debts' <= Debts
  OBVIOUS
<1> USE DEF TypeOK, FlagsOK, ControlOK, Debts, flags, server, probe
<1>1. CASE TickerFires
  BY <1>1 DEF TickerFires
<1>2. CASE TickSleep
  BY <1>2 DEF TickSleep, BeginNap
<1>3. CASE TickDefer \/ TickIgnored
  BY <1>3 DEF TickDefer, Defer, TickIgnored
<1>4. CASE WakeUp
  BY <1>4 DEF WakeUp, NapIsOver, Awake
<1>5. ASSUME NEW h \in Handlers, CheckAndSleep(h)
      PROVE  /\ Debts \in 0..2 /\ Debts' \in 0..2
             /\ ~tick /\ tick' => Debts' = Debts + 1
             /\ ~(~tick /\ tick') /\ sleepers' > sleepers
                  => Debts >= 1 /\ Debts' = Debts - 1
             /\ ~(~tick /\ tick') => Debts' <= Debts
  <2>1. CASE shouldSleep /\ Idle
    BY <1>5, <2>1 DEF CheckAndSleep, OwedNap, BeginNap
  <2>2. CASE ~(shouldSleep /\ Idle)
    BY <1>5, <2>2 DEF CheckAndSleep
  <2> QED  BY <2>1, <2>2
<1>6. CASE \E h \in Handlers :
            Call(h) \/ Refuse(h) \/ Admit(h) \/ StartDough(h) \/ FinishDough(h)
  BY <1>6 DEF Call, Refuse, Admit, StartDough, FinishDough
<1>7. CASE HealthLoop \/ Unwatch \/ Main \/ Terminated \/ UNCHANGED vars
  <2>1. tick' = tick \/ tick' = FALSE
    BY <1>7 DEF HealthLoop, Unwatch, Main, Terminated, ListenOk, ListenFails, Terminate,
                GracefulStop, Exit, StopService, vars
  <2> QED  BY <1>7, <2>1, MainFrame
<1> QED  BY <1>1, <1>2, <1>3, <1>4, <1>5, <1>6, <1>7 DEF Next, Handle

\* Every step preserves the types of the history variables and pays for its nap.
LEMMA PaidStep ==
  IInv /\ HTypeOK /\ NapsArePaid /\ [HNext]_hvars => HTypeOK' /\ NapsArePaid'
<1> SUFFICES ASSUME IInv, HTypeOK, NapsArePaid, [HNext]_hvars
             PROVE  HTypeOK' /\ NapsArePaid'
  OBVIOUS
<1>1. TypeOK'
  BY StepIInv, HistoryStep DEF IInv
<1>2. credit \in 0..2 /\ Debts <= credit
  BY DEF HTypeOK, NapsArePaid, Debts
<1>3. credit' \in 0..2 /\ Debts' <= credit'
  <2>1. CASE UNCHANGED hvars
    BY <1>2, <2>1 DEF hvars, vars, history, flags, Debts
  <2>2. CASE HNext
    <3>1. credit' = IF ~tick /\ tick' THEN UpToTwo(credit)
                    ELSE IF sleepers' > sleepers THEN credit - 1 ELSE credit
      BY <2>2 DEF HNext, Observe
    <3> HIDE DEF Debts
    <3> QED  BY <1>2, <3>1, HistoryStep, DebtsStep DEF HTypeOK, UpToTwo
  <2> QED  BY <2>1, <2>2
<1>4. steady' \in 0..2
  BY DEF HTypeOK, HNext, HealthTurn, OtherStep, UpToTwo, hvars, history
<1>5. overlap' \in BOOLEAN
  BY DEF HTypeOK, HNext, Observe, hvars, history
<1> QED  BY <1>1, <1>3, <1>4, <1>5 DEF HTypeOK, NapsArePaid, Debts

\* Every step preserves what the health loop knows.
LEMMA HealthStep == HTypeOK /\ HealthInv /\ [HNext]_hvars => HealthInv'
<1> SUFFICES ASSUME HTypeOK, HealthInv, [HNext]_hvars
             PROVE  HealthInv'
  OBVIOUS
<1> USE DEF HTypeOK, HealthInv, ServingStatus, flags, server, probe
<1>1. CASE HealthTurn
  BY <1>1 DEF HealthTurn, HealthLoop, UpToTwo
<1>2. CASE OtherStep
  <2>1. health' = health /\ sample' = sample
    BY <1>2 DEF OtherStep, TickHandled, TickerFires, TickSleep, TickDefer, Defer, TickIgnored,
                WakeUp, NapIsOver, Awake, Handle, CheckAndSleep, Call, Refuse, Admit,
                StartDough, FinishDough, Unwatch, Main, Terminated, ListenOk, ListenFails,
                Terminate, GracefulStop, Exit, StopService, vars
  <2>2. steady' = IF isSleeping' = isSleeping THEN steady ELSE 0
    BY <1>2 DEF OtherStep
  <2> QED  BY <2>1, <2>2
<1>3. CASE UNCHANGED hvars
  BY <1>3 DEF hvars, vars, history
<1> QED  BY <1>1, <1>2, <1>3 DEF HNext

\* Every step preserves what the work flag tells before the first overlap.
LEMMA PriorityStep == HTypeOK /\ PriorityInv /\ [HNext]_hvars => PriorityInv'
<1> SUFFICES ASSUME HTypeOK, PriorityInv, [HNext]_hvars, ~overlap'
             PROVE  FlagCoversWork'
  BY DEF PriorityInv
<1>1. CASE UNCHANGED hvars
  BY <1>1 DEF hvars, history, vars, flags, server, PriorityInv, FlagCoversWork
<1>2. CASE HNext
  <2>1. ~overlap /\ ~Overlapping
    BY <1>2 DEF HNext, Observe
  <2> QED  BY <2>1, FlagCoversStep, HistoryStep DEF HTypeOK, PriorityInv
<1> QED  BY <1>1, <1>2

\* The history invariant is inductive.
LEMMA StepHInv == IInv /\ HInv /\ [HNext]_hvars => IInv' /\ HInv'
  BY HistoryStep, StepIInv, PaidStep, HealthStep, PriorityStep DEF HInv

\* Every nap is paid for by a tick of its own, and two turns after the last
\* change the published health is the baker's.
THEOREM HistoryTheorem == HSpec => [](HTypeOK /\ NapsArePaid /\ HealthCatchesUp)
<1>1. HInit => IInv /\ HInv
  BY InitIInv, InitHInv DEF HInit
<1>2. HInv => HTypeOK /\ NapsArePaid /\ HealthCatchesUp
  BY DEF HInv, HTypeOK, TypeOK, FlagsOK, HealthInv, HealthCatchesUp, ServingStatus
<1> QED  BY <1>1, <1>2, StepHInv, PTL DEF HSpec

\* The flags stay Booleans, the wakers are counted in Nat and the credit in ticks never
\* exceeds the two there can be.
THEOREM TypeTheorem == HSpec => []HTypeOK
  BY HistoryTheorem, PTL

\* Two turns of the health loop after the last change, what it has published is true.
THEOREM HealthTheorem == HSpec => []HealthCatchesUp
  BY HistoryTheorem, PTL

\* Until two calls are worked on at once, no step puts the baker to sleep over a dough,
\* however many calls there are.
THEOREM PriorityTheorem == HSpec => PriorityUntilOverlap
<1>1. HInit => IInv /\ HInv
  BY InitIInv, InitHInv DEF HInit
<1>2. HInv /\ [HNext]_hvars
        => [~overlap' /\ ~isSleeping /\ isSleeping'
              => \A h \in Handlers : pc[h] # "cooking"]_hvars
  <2> SUFFICES ASSUME HInv, HNext, ~overlap', ~isSleeping, isSleeping'
               PROVE  \A h \in Handlers : pc[h] # "cooking"
    OBVIOUS
  <2>1. ~overlap
    BY DEF HNext, Observe
  <2>2. ~isWorkingOnDough
    BY NapsBeginIdle DEF HNext, HealthTurn, OtherStep, Next, TickHandled
  <2> QED  BY <2>1, <2>2 DEF HInv, PriorityInv, FlagCoversWork
<1> QED  BY <1>1, <1>2, StepHInv, PTL DEF HSpec, PriorityUntilOverlap
=============================================================================
