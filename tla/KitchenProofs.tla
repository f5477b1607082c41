----------------------------- MODULE KitchenProofs -----------------------------
(***************************************************************************)
(* For any number of maestros, calls, retries and failures: the steps of   *)
(* the composition are steps of Maestro, so that what MaestroProofs proves *)
(* of those holds next to the real baker, and retries do not pile up in    *)
(* it.  (That calls succeed as the fairness of Maestro says, TLC checks.)  *)
(***************************************************************************)
EXTENDS Kitchen, MaestroProofs, FiniteSetTheorems, FunctionTheorems

-----------------------------------------------------------------------------
(* The composition implements Maestro.                                     *)

\* A step of the composition is one of a maestro or its broker, or changes neither.
LEMMA StepImplementsMaestro == [KNext]_kvars => [Next]_vars
<1> SUFFICES ASSUME [KNext]_kvars PROVE [Next]_vars
  OBVIOUS
<1>1. ASSUME NEW m \in Maestros, RequestDough(m)
      PROVE  [Next]_vars
  <2>1. ASSUME Attempt(m) \/ Unreachable(m) \/ Refused(m)
        PROVE  UNCHANGED vars
    BY <2>1 DEF Attempt, Unreachable, Refused
  <2>2. ASSUME Answered(m) \/ GiveUp(m)
        PROVE  Turn(m)
    BY <2>2 DEF Answered, GiveUp, Turn
  <2> QED  BY <1>1, <2>1, <2>2 DEF RequestDough, Next
<1>2. ASSUME NEW m \in Maestros, Admitted(m) \/ LoseConnection(m)
      PROVE  UNCHANGED vars
  BY <1>2 DEF Admitted, LoseConnection
<1>3. ASSUME NEW m \in Maestros,
             MaestroWorks(m) \/ FetchEnds(m) \/ LunchIsDue(m) \/ MaestroCrashes(m)
      PROVE  Next
  BY <1>3 DEF MaestroWorks, FetchEnds, LunchIsDue, MaestroCrashes, Next
<1>4. BrokerWorks => Next
  BY DEF BrokerWorks, Next
<1>5. ASSUME NEW h \in Calls, OrphanWorks(h) \/ DoughWorks(h)
      PROVE  UNCHANGED vars
  BY <1>5 DEF OrphanWorks, DoughWorks
<1>6. ASSUME BakerTicks \/ BakerWakesUp \/ BakerLives \/ BakerStops \/ BakerCrashes
               \/ BakerRestarts
      PROVE  UNCHANGED vars
  <2>1. BakerCrashes => UNCHANGED vars
    BY DEF BakerCrashes
  <2>2. BakerRestarts => UNCHANGED vars
    BY DEF BakerRestarts, FreshBaker
  <2> QED  BY <1>6, <2>1, <2>2 DEF BakerTicks, BakerWakesUp, BakerLives, BakerStops
<1>7. UNCHANGED kvars => UNCHANGED vars
  BY DEF kvars
<1>8. CASE KSteps
  BY <1>8, <1>1, <1>2, <1>3, <1>4, <1>5, <1>6 DEF KSteps
<1> QED  BY <1>7, <1>8 DEF KNext

\* Without its fairness, which the prover cannot reach, the composition is Maestro.
LEMMA CompositionLemma == KSpec => Spec
<1>1. KInit => Init
  BY DEF KInit
<1> QED  BY <1>1, StepImplementsMaestro, PTL DEF KSpec, Spec

\* No order is lost, and none delivered without a dough, next to the real baker.
THEOREM CompositionIsSafe == KSpec => [](NoOrderLost /\ DeliveredHasDough)
  BY CompositionLemma, SafetyTheorem, PTL

\* The whole kitchen keeps the order book, which knows nothing of a baker that sleeps,
\* crashes and is called again: an order goes one stage further or stays where it is.
THEOREM CompositionIsBook == KSpec => ImplementsOrderBook
  BY CompositionLemma, RefinementTheorem, PTL

-----------------------------------------------------------------------------
(* Retries do not pile up.                                                 *)

Orphans == {h \in InProgress : Orphan(h)}

OrphanCount == Cardinality(Orphans)

Failures == faults + losses

CountersOK == faults \in Nat /\ losses \in Nat

\* A maestro waits for a handler of its own that is still in progress.
Waiting ==
  /\ call \in [Maestros -> Calls \cup {NoCall}]
  /\ handler \in [Calls -> Baker!Steps]
  /\ \A m \in Maestros : call[m] # NoCall => handler[call[m]] # "free"
  /\ \A m, n \in Maestros : call[m] = call[n] /\ call[m] # NoCall => m = n
  /\ phase \notin {"serving", "draining"} => \A h \in Calls : handler[h] = "free"

OrphansInv == CountersOK /\ Waiting /\ OrphanCount <= Failures

\* Orphans are finitely many, and one more at most counts for one more.
LEMMA OrphansLemma ==
  /\ IsFiniteSet(Orphans) /\ Cardinality(Orphans) \in Nat
  /\ \A S : S \subseteq Orphans => Cardinality(S) <= Cardinality(Orphans)
  /\ \A S, h : S \subseteq Orphans \cup {h} => Cardinality(S) <= Cardinality(Orphans) + 1
<1>1. Orphans \subseteq Calls
  BY DEF Orphans, InProgress
<1>2. IsFiniteSet(Orphans) /\ Cardinality(Orphans) \in Nat
  BY <1>1, FS_Subset, FS_CardinalityType, KitchenAssumption
<1>3. ASSUME NEW S, S \subseteq Orphans
      PROVE  Cardinality(S) <= Cardinality(Orphans)
  BY <1>2, <1>3, FS_Subset
<1>4. ASSUME NEW S, NEW h, S \subseteq Orphans \cup {h}
      PROVE  Cardinality(S) <= Cardinality(Orphans) + 1
  <2>1. /\ IsFiniteSet(Orphans \cup {h})
        /\ Cardinality(Orphans \cup {h}) \in Nat
        /\ Cardinality(Orphans \cup {h}) <= Cardinality(Orphans) + 1
    BY <1>2, FS_AddElement, FS_CardinalityType
  <2>2. IsFiniteSet(S) /\ Cardinality(S) <= Cardinality(Orphans \cup {h})
    BY <1>4, <2>1, FS_Subset
  <2> QED  BY <1>2, <2>1, <2>2, FS_CardinalityType
<1> QED  BY <1>2, <1>3, <1>4

\* A failure is counted; nothing else changes the counters.
LEMMA CountersStep ==
  CountersOK /\ [KNext]_kvars => CountersOK' /\ Failures' \in Nat /\ Failures' >= Failures
<1> SUFFICES ASSUME CountersOK, [KNext]_kvars
             PROVE  CountersOK' /\ Failures' \in Nat /\ Failures' >= Failures
  OBVIOUS
<1>1. faults' = faults \/ faults' = faults + 1
  <2>1. [Next]_vars
    BY StepImplementsMaestro
  <2> QED  BY <2>1 DEF Next, Turn, Server, Fault, Start, Fetch, SkipOrder, DropMalformed,
         Panics, BeginOrder, EndBatch, Lunch, DoughMade, DoughFails, Publish, PublishFails,
         Ack, AckFails, Smoke, FetchExpires, LunchTick, Crash, Deliver, OrderArrives,
         ExpireAck, ServerAck, AckLost, vars
<1>2. losses' = losses \/ losses' = losses + 1
  BY DEF KNext, KSteps, kvars, RequestDough, Attempt, Unreachable, Refused, Answered, GiveUp,
         Admitted, LoseConnection, Loss, MaestroWorks, FetchEnds, LunchIsDue, MaestroCrashes,
         BrokerWorks, OrphanWorks, DoughWorks, BakerTicks, BakerWakesUp, BakerLives, BakerStops,
         BakerCrashes, BakerRestarts, FreshBaker
<1> QED  BY <1>1, <1>2 DEF CountersOK, Failures

\* Every step keeps track of the calls.
LEMMA WaitingStep == Waiting /\ [KNext]_kvars => Waiting'
<1> SUFFICES ASSUME Waiting, [KNext]_kvars PROVE Waiting'
  OBVIOUS
<1> USE KitchenAssumption DEF Waiting, Baker!Steps
<1>1. ASSUME NEW m \in Maestros, Attempt(m)
      PROVE  Waiting'
  BY <1>1 DEF Attempt, MayAttempt, Baker!Call, Baker!Goto
<1>2. ASSUME NEW m \in Maestros, Refused(m) \/ Answered(m)
      PROVE  Waiting'
  BY <1>2 DEF Refused, Answered, HangUp, Baker!Refuse, Baker!CheckAndSleep, Baker!Goto
<1>3. ASSUME NEW m \in Maestros, LoseConnection(m) \/ MaestroCrashes(m)
      PROVE  Waiting'
  BY <1>3 DEF LoseConnection, HangUp, MaestroCrashes, baker
<1>4. ASSUME NEW m \in Maestros, Admitted(m)
      PROVE  Waiting'
  BY <1>4 DEF Admitted, client, Baker!Admit, Baker!Goto
<1>5. ASSUME NEW m \in Maestros,
             Unreachable(m) \/ GiveUp(m) \/ MaestroWorks(m) \/ FetchEnds(m) \/ LunchIsDue(m)
      PROVE  Waiting'
  BY <1>5 DEF Unreachable, GiveUp, MaestroWorks, FetchEnds, LunchIsDue, baker, client
<1>6. CASE BrokerWorks
  BY <1>6 DEF BrokerWorks, baker, client
<1>7. ASSUME NEW h \in Calls, OrphanWorks(h)
      PROVE  Waiting'
  BY <1>7 DEF OrphanWorks, Orphan, client, Baker!Refuse, Baker!Admit, Baker!CheckAndSleep,
              Baker!Goto
<1>8. ASSUME NEW h \in Calls, DoughWorks(h)
      PROVE  Waiting'
  BY <1>8 DEF DoughWorks, client, Baker!StartDough, Baker!FinishDough, Baker!Goto
<1>9. CASE BakerTicks \/ BakerWakesUp
  BY <1>9 DEF BakerTicks, BakerWakesUp, client, Baker!TickerFires, Baker!TickHandled,
              Baker!TickSleep, Baker!TickDefer, Baker!TickIgnored, Baker!WakeUp, Baker!server
<1>10. CASE BakerLives \/ BakerStops
  BY <1>10 DEF BakerLives, BakerStops, client, Baker!ListenOk, Baker!Unwatch, Baker!server,
               Baker!GracefulStop, Baker!Exit, Baker!Terminate, Baker!ListenFails,
               Baker!StopService, Baker!AllAnswered
<1>11. CASE BakerCrashes
  BY <1>11 DEF BakerCrashes
<1>12. CASE BakerRestarts
  BY <1>12 DEF BakerRestarts, FreshBaker, client
<1>13. CASE UNCHANGED kvars
  BY <1>13 DEF kvars, baker, client
<1> QED  BY <1>1, <1>2, <1>3, <1>4, <1>5, <1>6, <1>7, <1>8, <1>9, <1>10, <1>11, <1>12, <1>13
         DEF KNext, KSteps, RequestDough

\* A failure makes one orphan at most, and nothing else makes any.
LEMMA OrphansStep ==
  CountersOK /\ Waiting /\ [KNext]_kvars =>
    \/ Orphans' \subseteq Orphans
    \/ Failures' = Failures + 1 /\ \E h : Orphans' \subseteq Orphans \cup {h}
<1> SUFFICES ASSUME CountersOK, Waiting, [KNext]_kvars
             PROVE  \/ Orphans' \subseteq Orphans
                    \/ /\ Failures' = Failures + 1
                       /\ \E h : Orphans' \subseteq Orphans \cup {h}
  OBVIOUS
<1> USE KitchenAssumption DEF Waiting, Baker!Steps, Orphans, InProgress, Orphan
<1>1. ASSUME NEW m \in Maestros, Attempt(m)
      PROVE  Orphans' \subseteq Orphans
  BY <1>1 DEF Attempt, MayAttempt, Baker!Call, Baker!Goto
<1>2. ASSUME NEW m \in Maestros, Refused(m) \/ Answered(m)
      PROVE  Orphans' \subseteq Orphans
  BY <1>2 DEF Refused, Answered, HangUp, Baker!Refuse, Baker!CheckAndSleep, Baker!Goto
<1>3. ASSUME NEW m \in Maestros, LoseConnection(m) \/ MaestroCrashes(m)
      PROVE  Orphans' \subseteq Orphans \cup {call[m]}
  BY <1>3 DEF LoseConnection, HangUp, MaestroCrashes, baker
<1>31. ASSUME NEW m \in Maestros, LoseConnection(m) \/ MaestroCrashes(m)
      PROVE  Failures' = Failures + 1
  BY <1>31 DEF LoseConnection, MaestroCrashes, Loss, Crash, Fault, vars, CountersOK, Failures
<1>4. ASSUME NEW m \in Maestros, Admitted(m)
      PROVE  Orphans' \subseteq Orphans
  BY <1>4 DEF Admitted, client, Baker!Admit, Baker!Goto
<1>5. ASSUME NEW m \in Maestros,
             Unreachable(m) \/ GiveUp(m) \/ MaestroWorks(m) \/ FetchEnds(m) \/ LunchIsDue(m)
      PROVE  Orphans' \subseteq Orphans
  BY <1>5 DEF Unreachable, GiveUp, MaestroWorks, FetchEnds, LunchIsDue, baker, client
<1>6. CASE BrokerWorks
  BY <1>6 DEF BrokerWorks, baker, client
<1>7. ASSUME NEW h \in Calls, OrphanWorks(h)
      PROVE  Orphans' \subseteq Orphans
  BY <1>7 DEF OrphanWorks, client, Baker!Refuse, Baker!Admit, Baker!CheckAndSleep, Baker!Goto
<1>8. ASSUME NEW h \in Calls, DoughWorks(h)
      PROVE  Orphans' \subseteq Orphans
  BY <1>8 DEF DoughWorks, client, Baker!StartDough, Baker!FinishDough, Baker!Goto
<1>9. CASE BakerTicks \/ BakerWakesUp
  BY <1>9 DEF BakerTicks, BakerWakesUp, client, Baker!TickerFires, Baker!TickHandled,
              Baker!TickSleep, Baker!TickDefer, Baker!TickIgnored, Baker!WakeUp, Baker!server
<1>10. CASE BakerLives \/ BakerStops
  BY <1>10 DEF BakerLives, BakerStops, client, Baker!ListenOk, Baker!Unwatch, Baker!server,
               Baker!GracefulStop, Baker!Exit, Baker!Terminate, Baker!ListenFails,
               Baker!StopService
<1>11. CASE BakerCrashes
  BY <1>11 DEF BakerCrashes
<1>12. CASE BakerRestarts
  BY <1>12 DEF BakerRestarts, FreshBaker, client
<1>13. CASE UNCHANGED kvars
  BY <1>13 DEF kvars, baker, client
<1> QED  BY <1>1, <1>2, <1>3, <1>31, <1>4, <1>5, <1>6, <1>7, <1>8, <1>9, <1>10, <1>11,
            <1>12, <1>13
         DEF KNext, KSteps, RequestDough

\* The handlers in progress are orphans or waited for by a maestro of their own.
LEMMA InProgressLemma == OrphansInv => OrphansBounded
<1> SUFFICES ASSUME OrphansInv PROVE OrphansBounded
  OBVIOUS
<1> DEFINE Waited == {call[m] : m \in Maestros}
<1>1. IsFiniteSet(Waited) /\ Cardinality(Waited) <= Cardinality(Maestros)
  <2>1. call \in [Maestros -> Waited] /\ \A w \in Waited : \E m \in Maestros : call[m] = w
    BY DEF OrphansInv, Waiting
  <2>2. call \in Surjection(Maestros, Waited)
    BY <2>1 DEF Surjection
  <2> QED  BY <2>2, FS_Surjection, KitchenAssumption
<1>2. IsFiniteSet(Orphans) /\ Cardinality(Orphans) <= faults + losses
  BY OrphansLemma DEF OrphansInv, OrphanCount, Failures
<1>3. InProgress \subseteq Orphans \cup Waited
  BY DEF InProgress, Orphans, Orphan
<1>4. /\ IsFiniteSet(Orphans \cup Waited)
      /\ Cardinality(Orphans \cup Waited) <= Cardinality(Orphans) + Cardinality(Waited)
  <2>1. IsFiniteSet(Orphans \cap Waited)
    BY <1>1, FS_Subset
  <2>2. /\ Cardinality(Orphans) \in Nat /\ Cardinality(Waited) \in Nat
        /\ Cardinality(Orphans \cap Waited) \in Nat
    BY <1>1, <1>2, <2>1, FS_CardinalityType
  <2> QED  BY <1>1, <1>2, <2>2, FS_Union
<1>5. Cardinality(InProgress) <= Cardinality(Orphans \cup Waited)
  BY <1>3, <1>4, FS_Subset
<1>6. IsFiniteSet(InProgress)
  BY <1>3, <1>4, FS_Subset
<1>7. /\ Cardinality(InProgress) \in Nat /\ Cardinality(Orphans \cup Waited) \in Nat
      /\ Cardinality(Waited) \in Nat /\ Cardinality(Maestros) \in Nat
      /\ Cardinality(Orphans) \in Nat
  BY <1>1, <1>2, <1>4, <1>6, FS_CardinalityType, KitchenAssumption
<1> HIDE DEF Waited
<1> QED  BY <1>1, <1>2, <1>4, <1>5, <1>7 DEF OrphansBounded, OrphansInv, CountersOK

\* No handler is in progress at first.
LEMMA InitOrphansInv == KInit => OrphansInv
<1> SUFFICES ASSUME KInit PROVE OrphansInv
  OBVIOUS
<1>1. Waiting /\ CountersOK
  BY KitchenAssumption DEF KInit, Init, Baker!Init, Waiting, CountersOK, Baker!Steps
<1>2. Orphans = {}
  BY DEF KInit, Baker!Init, Orphans, InProgress
<1> QED  BY <1>1, <1>2, FS_EmptySet DEF OrphansInv, OrphanCount, CountersOK, Failures

\* Orphans never outnumber the failures.
LEMMA StepOrphansInv == OrphansInv /\ [KNext]_kvars => OrphansInv'
<1> SUFFICES ASSUME OrphansInv, [KNext]_kvars PROVE OrphansInv'
  OBVIOUS
<1>1. CountersOK' /\ Waiting' /\ Failures' \in Nat /\ Failures' >= Failures
  BY CountersStep, WaitingStep DEF OrphansInv
<1>2. OrphanCount \in Nat /\ OrphanCount <= Failures
  BY OrphansLemma DEF OrphansInv, OrphanCount
<1>3. Failures \in Nat
  BY DEF OrphansInv, CountersOK, Failures
<1>4. CASE Orphans' \subseteq Orphans
  <2>1. OrphanCount' <= OrphanCount
    BY <1>4, OrphansLemma DEF OrphanCount
  <2>2. OrphanCount' \in Nat
    BY <1>4, OrphansLemma, FS_Subset, FS_CardinalityType DEF OrphanCount
  <2>3. OrphanCount' <= Failures'
    BY <1>1, <1>2, <1>3, <2>1, <2>2
  <2> QED  BY <1>1, <2>3 DEF OrphansInv
<1>5. CASE /\ Failures' = Failures + 1
           /\ \E h : Orphans' \subseteq Orphans \cup {h}
  <2>1. PICK h : Orphans' \subseteq Orphans \cup {h}
    BY <1>5
  <2>2. OrphanCount' <= OrphanCount + 1
    BY <2>1, OrphansLemma DEF OrphanCount
  <2>3. IsFiniteSet(Orphans \cup {h})
    BY OrphansLemma, FS_AddElement
  <2>4. OrphanCount' \in Nat
    BY <2>1, <2>3, FS_Subset, FS_CardinalityType DEF OrphanCount
  <2>5. OrphanCount' <= Failures'
    BY <1>1, <1>2, <1>3, <1>5, <2>2, <2>4
  <2> QED  BY <1>1, <2>5 DEF OrphansInv
<1> QED  BY <1>4, <1>5, OrphansStep DEF OrphansInv

\* Retries and redeliveries do not pile up in the baker, however many there are.
THEOREM OrphansTheorem == KSpec => []OrphansBounded
  BY InitOrphansInv, StepOrphansInv, InProgressLemma, PTL DEF KSpec

-----------------------------------------------------------------------------
(* The baker in the kitchen.                                               *)

\* What the steps of the composition do to the baker while it lives.
BakerActs ==
  \/ Baker!TickerFires \/ Baker!TickHandled \/ Baker!WakeUp
  \/ \E h \in Calls : Baker!Call(h) \/ Baker!Handle(h)
  \/ Baker!Main \/ Baker!Unwatch
  \/ UNCHANGED baker

\* A step of the composition is a step of the baker, its crash, its restart, or none.
LEMMA StepOfBaker == Waiting /\ [KNext]_kvars => BakerActs \/ BakerCrashes \/ BakerRestarts
<1> SUFFICES ASSUME Waiting, [KNext]_kvars PROVE BakerActs \/ BakerCrashes \/ BakerRestarts
  OBVIOUS
<1>1. ASSUME NEW m \in Maestros, RequestDough(m) \/ Admitted(m)
      PROVE  BakerActs
  <2>1. call[m] # NoCall => call[m] \in Calls
    BY DEF Waiting
  <2>2. CASE Attempt(m)
    BY <2>2 DEF Attempt, BakerActs
  <2>3. CASE Refused(m) \/ Answered(m) \/ Admitted(m)
    BY <2>1, <2>3 DEF Refused, Answered, Admitted, BakerActs, Baker!Handle
  <2>4. CASE Unreachable(m) \/ GiveUp(m)
    BY <2>4 DEF Unreachable, GiveUp, BakerActs
  <2> QED  BY <1>1, <2>2, <2>3, <2>4 DEF RequestDough
<1>2. ASSUME NEW m \in Maestros,
             LoseConnection(m) \/ MaestroWorks(m) \/ FetchEnds(m) \/ LunchIsDue(m)
               \/ MaestroCrashes(m)
      PROVE  BakerActs
  BY <1>2 DEF LoseConnection, MaestroWorks, FetchEnds, LunchIsDue, MaestroCrashes, BakerActs
<1>3. CASE BrokerWorks \/ UNCHANGED kvars
  BY <1>3 DEF BrokerWorks, kvars, BakerActs
<1>4. ASSUME NEW h \in Calls, OrphanWorks(h) \/ DoughWorks(h)
      PROVE  BakerActs
  BY <1>4 DEF OrphanWorks, DoughWorks, BakerActs, Baker!Handle
<1>5. CASE BakerTicks \/ BakerWakesUp \/ BakerLives \/ BakerStops
  BY <1>5 DEF BakerTicks, BakerWakesUp, BakerLives, BakerStops, BakerActs, Baker!Main
<1> QED  BY <1>1, <1>2, <1>3, <1>4, <1>5 DEF KNext, KSteps

\* main and the steps of the others leave what p.mu protects, and the handlers, alone.
LEMMA BakerFrame ==
  Baker!Main \/ Baker!Unwatch \/ UNCHANGED baker
    => UNCHANGED <<Baker!flags, handler, sleepers>>
  BY DEF baker, Baker!flags, Baker!server, Baker!Main, Baker!Unwatch, Baker!ListenOk,
         Baker!ListenFails, Baker!Terminate, Baker!GracefulStop, Baker!Exit, Baker!StopService

\* Every step leaves the baker's variables in their types.
LEMMA BakerTypeStep == Waiting /\ Baker!TypeOK /\ [KNext]_kvars => Baker!TypeOK'
<1> SUFFICES ASSUME Waiting, Baker!TypeOK, [KNext]_kvars PROVE Baker!TypeOK'
  OBVIOUS
<1> USE DEF Baker!TypeOK, Baker!FlagsOK, Baker!ControlOK, Baker!flags, Baker!server,
            Baker!probe, Baker!Statuses, Baker!Steps, Baker!Phases
<1>1. CASE Baker!TickerFires \/ Baker!TickHandled \/ Baker!WakeUp
  <2>1. CASE Baker!TickerFires \/ Baker!TickIgnored
    BY <2>1 DEF Baker!TickerFires, Baker!TickIgnored
  <2>2. CASE Baker!TickSleep
    <3>1. Baker!FlagsOK'
      BY <2>2 DEF Baker!TickSleep, Baker!BeginNap
    <3>2. Baker!ControlOK'
      BY <2>2 DEF Baker!TickSleep, Baker!BeginNap
    <3> QED  BY <3>1, <3>2
  <2>3. CASE Baker!TickDefer
    BY <2>3 DEF Baker!TickDefer, Baker!Defer
  <2>4. CASE Baker!WakeUp
    <3>1. Baker!FlagsOK'
      BY <2>4 DEF Baker!WakeUp, Baker!Awake
    <3>2. Baker!ControlOK'
      BY <2>4 DEF Baker!WakeUp, Baker!NapIsOver, Baker!Awake
    <3> QED  BY <3>1, <3>2
  <2> QED  BY <1>1, <2>1, <2>2, <2>3, <2>4 DEF Baker!TickHandled
<1>2. ASSUME NEW h \in Calls,
             Baker!Call(h) \/ Baker!Refuse(h) \/ Baker!Admit(h) \/ Baker!StartDough(h)
               \/ Baker!FinishDough(h)
      PROVE  Baker!TypeOK'
  BY <1>2 DEF Baker!Call, Baker!Refuse, Baker!Admit, Baker!StartDough, Baker!FinishDough,
              Baker!EndWork, Baker!Goto
<1>3. ASSUME NEW h \in Calls, Baker!CheckAndSleep(h)
      PROVE  Baker!TypeOK'
  <2>1. CASE shouldSleep /\ Baker!Idle
    <3>1. Baker!FlagsOK'
      BY <1>3, <2>1 DEF Baker!CheckAndSleep, Baker!OwedNap, Baker!BeginNap
    <3>2. Baker!ControlOK'
      BY <1>3, <2>1 DEF Baker!CheckAndSleep, Baker!OwedNap, Baker!BeginNap, Baker!Goto
    <3> QED  BY <3>1, <3>2
  <2>2. CASE ~(shouldSleep /\ Baker!Idle)
    BY <1>3, <2>2 DEF Baker!CheckAndSleep, Baker!Goto
  <2> QED  BY <2>1, <2>2
<1>4. CASE Baker!Main \/ Baker!Unwatch \/ UNCHANGED baker
  BY <1>4 DEF baker, Baker!Main, Baker!Unwatch, Baker!ListenOk, Baker!ListenFails,
              Baker!Terminate, Baker!GracefulStop, Baker!Exit, Baker!StopService
<1>5. CASE BakerCrashes
  BY <1>5 DEF BakerCrashes
<1>6. CASE BakerRestarts
  BY <1>6 DEF BakerRestarts, FreshBaker
<1> QED  BY <1>1, <1>2, <1>3, <1>4, <1>5, <1>6, StepOfBaker DEF BakerActs, Baker!Handle

\* What p.status satisfies; Status answers something else at times.
BakerStatusLive ==
  /\ \A h \in Calls : status = h => handler[h] = "cooking"
  /\ status = "sleeping" => isSleeping

BakerInv ==
  phase # "exited" => Baker!OneSleeper /\ Baker!WorkingFlagSound /\ BakerStatusLive

\* Nothing but a restart ends an exit.
LEMMA ExitedStep ==
  Waiting /\ [KNext]_kvars /\ phase = "exited" => phase' = "exited" \/ BakerRestarts
<1> SUFFICES ASSUME Waiting, [KNext]_kvars, phase = "exited"
             PROVE  phase' = "exited" \/ BakerRestarts
  OBVIOUS
<1>1. CASE BakerActs
  BY <1>1 DEF BakerActs, baker, Baker!TickerFires, Baker!TickHandled, Baker!TickSleep,
              Baker!TickDefer, Baker!TickIgnored, Baker!WakeUp, Baker!Call, Baker!Handle,
              Baker!Refuse, Baker!Admit, Baker!StartDough, Baker!FinishDough,
              Baker!CheckAndSleep, Baker!Main, Baker!Unwatch, Baker!ListenOk, Baker!ListenFails,
              Baker!Terminate, Baker!GracefulStop, Baker!Exit, Baker!Alive
<1>2. CASE BakerCrashes
  BY <1>2 DEF BakerCrashes
<1> QED  BY <1>1, <1>2, StepOfBaker

\* Every step of a living baker keeps it sound; a crash ends it, a restart begins anew.
LEMMA BakerInvStep == Waiting /\ Baker!TypeOK /\ BakerInv /\ [KNext]_kvars => BakerInv'
<1> SUFFICES ASSUME Waiting, Baker!TypeOK, BakerInv, [KNext]_kvars PROVE BakerInv'
  OBVIOUS
<1>1. CASE BakerRestarts
  BY <1>1, KitchenAssumption
     DEF BakerRestarts, FreshBaker, BakerInv, Baker!OneSleeper, Baker!WorkingFlagSound,
         BakerStatusLive
<1>2. CASE phase' = "exited"
  BY <1>2 DEF BakerInv
<1>3. CASE phase # "exited" /\ BakerActs
  <2> USE <1>3, KitchenAssumption
      DEF BakerInv, BakerStatusLive, Baker!OneSleeper, Baker!WorkingFlagSound,
          Baker!TypeOK, Baker!FlagsOK, Baker!ControlOK, Baker!flags, Baker!server, Baker!Goto
  <2>1. CASE Baker!TickerFires \/ Baker!TickHandled \/ Baker!WakeUp
    BY <2>1 DEF Baker!TickerFires, Baker!TickHandled, Baker!TickSleep, Baker!TickDefer,
                Baker!Defer, Baker!TickIgnored, Baker!WakeUp, Baker!NapIsOver, Baker!Awake,
                Baker!BeginNap, Baker!Idle
  <2>2. ASSUME NEW h \in Calls, Baker!Call(h) \/ Baker!Refuse(h) \/ Baker!Admit(h)
        PROVE  BakerInv'
    BY <2>2 DEF Baker!Call, Baker!Refuse, Baker!Admit
  <2>3. ASSUME NEW h \in Calls, Baker!StartDough(h) \/ Baker!FinishDough(h)
        PROVE  BakerInv'
    BY <2>3 DEF Baker!StartDough, Baker!FinishDough, Baker!EndWork
  <2>4. ASSUME NEW h \in Calls, Baker!CheckAndSleep(h)
        PROVE  BakerInv'
    BY <2>4 DEF Baker!CheckAndSleep, Baker!OwedNap, Baker!BeginNap, Baker!Idle
  <2>5. CASE Baker!Main \/ Baker!Unwatch \/ UNCHANGED baker
    BY <2>5, BakerFrame
  <2> QED  BY <2>1, <2>2, <2>3, <2>4, <2>5 DEF BakerActs, Baker!Handle
<1>4. CASE BakerCrashes
  BY <1>4 DEF BakerCrashes, BakerInv
<1> QED  BY <1>1, <1>2, <1>3, <1>4, StepOfBaker, ExitedStep

\* The baker's part of the invariant: it holds between shutdowns, crashes and restarts.
KitchenInv == Waiting /\ Baker!TypeOK /\ BakerInv

\* The kitchen begins with a sound baker.
LEMMA InitKitchenInv == KInit => KitchenInv
<1> SUFFICES ASSUME KInit PROVE KitchenInv
  OBVIOUS
<1> USE DEF KInit, Baker!Init
<1>1. Waiting
  BY KitchenAssumption DEF Waiting, Baker!Steps
<1>2. Baker!FlagsOK
  BY DEF Baker!FlagsOK
<1>3. Baker!ControlOK
  BY DEF Baker!ControlOK, Baker!Statuses, Baker!Steps, Baker!Phases, Baker!Serving
<1>4. BakerInv
  BY KitchenAssumption
     DEF BakerInv, Baker!OneSleeper, Baker!WorkingFlagSound, BakerStatusLive
<1> QED  BY <1>1, <1>2, <1>3, <1>4 DEF KitchenInv, Baker!TypeOK

\* Every step keeps it sound.
LEMMA StepKitchenInv == KitchenInv /\ [KNext]_kvars => KitchenInv'
  BY WaitingStep, BakerTypeStep, BakerInvStep DEF KitchenInv

\* One waker for a nap, a cook behind the work flag and a live order in Status: for any
\* number of maestros and calls, with orphans and retries, and through every restart.
THEOREM BakerTheorem == KSpec => []BakerStaysSound
<1>1. KitchenInv => BakerStaysSound
  BY KitchenAssumption
     DEF KitchenInv, BakerInv, BakerStatusLive, BakerStaysSound, Baker!StatusNamesLiveOrder,
         Baker!StatusReply
<1> QED  BY <1>1, InitKitchenInv, StepKitchenInv, PTL DEF KSpec

-----------------------------------------------------------------------------
(* Types.                                                                  *)

ClientOK == attempt \in [Maestros -> 0..Retries] /\ losses \in 0..MaxLosses

\* Every step counts within the bounds.
LEMMA ClientStep == ClientOK /\ [KNext]_kvars => ClientOK'
<1> SUFFICES ASSUME ClientOK, [KNext]_kvars PROVE ClientOK'
  OBVIOUS
<1> USE KitchenAssumption DEF ClientOK
<1>1. losses' \in 0..MaxLosses
  BY DEF KNext, KSteps, kvars, RequestDough, Attempt, Unreachable, Refused, Answered, GiveUp,
         Admitted, LoseConnection, Loss, MaestroWorks, FetchEnds, LunchIsDue, MaestroCrashes,
         BrokerWorks, OrphanWorks, DoughWorks, BakerTicks, BakerWakesUp, BakerLives, BakerStops,
         BakerCrashes, BakerRestarts, FreshBaker
<1>2. ASSUME NEW m \in Maestros, Attempt(m) \/ Unreachable(m)
      PROVE  attempt' \in [Maestros -> 0..Retries]
  BY <1>2 DEF Attempt, Unreachable, MayAttempt, CountAttempt
<1>3. ASSUME NEW m \in Maestros, Answered(m) \/ GiveUp(m) \/ MaestroCrashes(m)
      PROVE  attempt' \in [Maestros -> 0..Retries]
  BY <1>3 DEF Answered, GiveUp, MaestroCrashes
<1>4. ASSUME NEW m \in Maestros,
             Refused(m) \/ Admitted(m) \/ LoseConnection(m) \/ MaestroWorks(m) \/ FetchEnds(m)
               \/ LunchIsDue(m)
      PROVE  UNCHANGED attempt
  BY <1>4 DEF Refused, Admitted, LoseConnection, MaestroWorks, FetchEnds, LunchIsDue, client
<1>5. ASSUME NEW h \in Calls, OrphanWorks(h) \/ DoughWorks(h)
      PROVE  UNCHANGED attempt
  BY <1>5 DEF OrphanWorks, DoughWorks, client
<1>6. BrokerWorks \/ BakerTicks \/ BakerWakesUp \/ BakerLives \/ BakerStops
        => UNCHANGED attempt
  BY DEF BrokerWorks, BakerTicks, BakerWakesUp, BakerLives, BakerStops, client
<1>7. BakerCrashes \/ BakerRestarts \/ UNCHANGED kvars => UNCHANGED attempt
  BY DEF BakerCrashes, BakerRestarts, FreshBaker, client, kvars
<1> QED  BY <1>1, <1>2, <1>3, <1>4, <1>5, <1>6, <1>7 DEF KNext, KSteps, RequestDough

\* Maestros, baker and client keep the types that each declares.
THEOREM KitchenTypes == KSpec => []KTypeOK
<1> DEFINE KInv == IInv /\ KitchenInv /\ ClientOK
<1>1. KInit => KInv
  <2>1. KInit => IInv
    BY InitIInv DEF KInit
  <2>2. KInit => ClientOK
    BY KitchenAssumption DEF KInit, ClientOK
  <2> QED  BY <2>1, <2>2, InitKitchenInv
<1>2. KInv /\ [KNext]_kvars => KInv'
  BY StepImplementsMaestro, StepIInv, StepKitchenInv, ClientStep
<1>3. KInv => KTypeOK
  BY DEF IInv, KitchenInv, Waiting, ClientOK, KTypeOK
<1> QED  BY <1>1, <1>2, <1>3, PTL DEF KSpec

-----------------------------------------------------------------------------
(* Work priority of a baker with one maestro.                              *)

Alone == Cardinality(Maestros) = 1 /\ Failures = 0

\* Without failures the one maestro knows of every handler: there is one at most.
LEMMA OneAtATime ==
  OrphansInv /\ Alone => \A g, h \in Calls :
    handler[g] # "free" /\ handler[h] # "free" => g = h
<1> SUFFICES ASSUME OrphansInv, Alone PROVE \A g, h \in InProgress : g = h
  BY DEF InProgress
<1>1. Cardinality(Orphans) = 0
  BY OrphansLemma DEF OrphansInv, OrphanCount, Alone
<1>2. Orphans = {}
  BY <1>1, OrphansLemma, FS_EmptySet
<1>3. PICK m : Maestros = {m}
  BY KitchenAssumption, FS_Singleton DEF Alone
<1>4. \A h \in InProgress : h = call[m]
  BY <1>2, <1>3 DEF Orphans, Orphan
<1> QED  BY <1>4

\* While it does, the work flag tells when a dough is made.
CookIsFlagged == Alone => \A h \in Calls : handler[h] = "cooking" => isWorkingOnDough

\* Only a handler that finishes while another one cooks clears the flag under it.
LEMMA CookStep == OrphansInv /\ CookIsFlagged /\ [KNext]_kvars => CookIsFlagged'
<1> SUFFICES ASSUME OrphansInv, CookIsFlagged, [KNext]_kvars, Alone',
                    NEW h \in Calls, handler'[h] = "cooking"
             PROVE  isWorkingOnDough'
  BY DEF CookIsFlagged
<1>1. Alone
  BY CountersStep DEF OrphansInv, CountersOK, Alone, Failures
<1>2. Waiting
  BY DEF OrphansInv
<1>3. handler[h] = "cooking" => isWorkingOnDough
  BY <1>1 DEF CookIsFlagged
<1> USE <1>2, <1>3 DEF Waiting, Baker!Goto, Baker!flags, Baker!server
<1>4. CASE Baker!TickerFires \/ Baker!TickHandled \/ Baker!WakeUp
  BY <1>4 DEF Baker!TickerFires, Baker!TickHandled, Baker!TickSleep, Baker!TickDefer,
              Baker!TickIgnored, Baker!WakeUp
<1>5. ASSUME NEW g \in Calls,
             Baker!Call(g) \/ Baker!Refuse(g) \/ Baker!Admit(g) \/ Baker!CheckAndSleep(g)
      PROVE  isWorkingOnDough'
  BY <1>5 DEF Baker!Call, Baker!Refuse, Baker!Admit, Baker!CheckAndSleep
<1>6. ASSUME NEW g \in Calls, Baker!StartDough(g)
      PROVE  isWorkingOnDough'
  BY <1>6 DEF Baker!StartDough
<1>7. ASSUME NEW g \in Calls, Baker!FinishDough(g)
      PROVE  FALSE
  <2>1. handler[g] = "cooking" /\ handler'[g] = "closing"
    BY <1>7 DEF Baker!FinishDough
  <2>2. g # h /\ handler[h] = "cooking"
    BY <1>7, <2>1 DEF Baker!FinishDough
  <2> QED  BY <1>1, <2>1, <2>2, OneAtATime
<1>8. CASE Baker!Main \/ Baker!Unwatch \/ UNCHANGED baker
  BY <1>8, BakerFrame
<1>9. CASE BakerCrashes \/ BakerRestarts
  BY <1>9 DEF BakerCrashes, BakerRestarts, FreshBaker
<1> QED  BY <1>4, <1>5, <1>6, <1>7, <1>8, <1>9, StepOfBaker DEF BakerActs, Baker!Handle

\* A nap begins where no work flag is set.
LEMMA NapBegins ==
  Waiting /\ [KNext]_kvars /\ ~isSleeping /\ isSleeping' => ~isWorkingOnDough
<1> SUFFICES ASSUME Waiting, [KNext]_kvars, ~isSleeping, isSleeping'
             PROVE  ~isWorkingOnDough
  OBVIOUS
<1> USE DEF Baker!flags
<1>1. CASE Baker!TickerFires \/ Baker!TickHandled \/ Baker!WakeUp
  BY <1>1 DEF Baker!TickerFires, Baker!TickHandled, Baker!TickSleep, Baker!TickDefer,
              Baker!TickIgnored, Baker!WakeUp, Baker!Awake, Baker!Idle
<1>2. ASSUME NEW h \in Calls, Baker!Call(h) \/ Baker!Handle(h)
      PROVE  ~isWorkingOnDough
  BY <1>2 DEF Baker!Call, Baker!Handle, Baker!Refuse, Baker!Admit, Baker!StartDough,
              Baker!FinishDough, Baker!CheckAndSleep, Baker!Idle
<1>3. CASE Baker!Main \/ Baker!Unwatch \/ UNCHANGED baker
  BY <1>3, BakerFrame
<1>4. CASE BakerCrashes \/ BakerRestarts
  BY <1>4 DEF BakerCrashes, BakerRestarts, FreshBaker
<1> QED  BY <1>1, <1>2, <1>3, <1>4, StepOfBaker DEF BakerActs

\* A baker with one maestro does not fall asleep over a dough, whatever is retried and
\* redelivered, until a failure leaves an orphan.
THEOREM WorkPriorityTheorem == KSpec => WorkPriorityForOne
<1>1. KInit => OrphansInv /\ CookIsFlagged
  BY InitOrphansInv DEF KInit, Baker!Init, CookIsFlagged
<1>2. OrphansInv /\ CookIsFlagged /\ [KNext]_kvars => OrphansInv' /\ CookIsFlagged'
  BY StepOrphansInv, CookStep
<1>3. OrphansInv /\ CookIsFlagged /\ [KNext]_kvars =>
        [Cardinality(Maestros) = 1 /\ faults + losses = 0 /\ ~isSleeping /\ isSleeping'
           => \A h \in Calls : handler[h] # "cooking"]_kvars
  BY NapBegins DEF OrphansInv, CookIsFlagged, Alone, Failures
<1> QED  BY <1>1, <1>2, <1>3, PTL DEF KSpec, WorkPriorityForOne
=============================================================================
