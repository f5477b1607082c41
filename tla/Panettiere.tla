------------------------------ MODULE Panettiere ------------------------------
(***************************************************************************)
(* The baker (panettiere/main.go): a gRPC service that makes one dough per *)
(* call of MakeDough and takes a nap every time a ticker fires.            *)
(*                                                                         *)
(* Goroutines: one handler per call in progress, the goroutine of the      *)
(* sleep ticker, one waker per nap, the asynchronous health loop and main. *)
(* A step is one critical section of p.mu (or one access outside of it),   *)
(* so every interleaving the mutex allows is a behaviour.  Durations are   *)
(* not modelled: a sleep is a pair of states that any step may separate.   *)
(***************************************************************************)
EXTENDS Naturals, FiniteSets

CONSTANT Handlers   \* calls of MakeDough that can be in progress at once;
                    \* a handler stands for its call and for the order it names

ASSUME HandlersAssumption == {"idle", "sleeping", "owing"} \cap Handlers = {}

VARIABLES
  isSleeping,       \* p.isSleeping
  isWorkingOnDough, \* p.isWorkingOnDough
  shouldSleep,      \* p.shouldSleep
  status,           \* p.status; h stands for "making dough of order h"
  pc,               \* where each handler is in MakeDough
  tick,             \* a tick of p.sleepTicker waits for its goroutine
  sleepers,         \* waker goroutines alive
  health,           \* serving status published by the gRPC health server
  sample,           \* local variable of the health loop: the status to publish next
  watched,          \* the shutdown has found a stream of the health or of the reflection
                    \* service open, and its client has not closed it yet
  phase             \* where main is

flags  == <<isSleeping, isWorkingOnDough, shouldSleep, status>>
server == <<pc, phase>>
probe  == <<health, sample, watched>>
vars   == <<flags, tick, sleepers, server, probe>>

Statuses == {"idle", "sleeping"} \cup Handlers
Steps    == {"free", "called", "admitted", "cooking", "closing"}
Phases   == {"starting", "serving", "draining", "stopped", "exited"}
Serving  == {"SERVING", "NOT_SERVING"}

FlagsOK ==
  /\ isSleeping \in BOOLEAN /\ isWorkingOnDough \in BOOLEAN
  /\ shouldSleep \in BOOLEAN /\ tick \in BOOLEAN /\ watched \in BOOLEAN

ControlOK ==
  /\ status \in Statuses
  /\ pc \in [Handlers -> Steps]
  /\ sleepers \in Nat
  /\ health \in Serving /\ sample \in Serving
  /\ phase \in Phases

\* Every variable has the type the code declares for it.
TypeOK == FlagsOK /\ ControlOK

Init ==
  /\ isSleeping = FALSE /\ isWorkingOnDough = FALSE /\ shouldSleep = FALSE
  /\ status = "idle"
  /\ pc = [h \in Handlers |-> "free"]
  /\ tick = FALSE
  /\ sleepers = 0
  /\ health = "SERVING" /\ sample = "SERVING" /\ watched = FALSE
  /\ phase = "starting"

Alive == phase # "exited"

-----------------------------------------------------------------------------
(* Naps: the goroutine of the ticker, checkAndSleep and the wakers.        *)

\* Falling asleep and spawning the goroutine that wakes the baker up.
BeginNap ==
  /\ isSleeping' = TRUE
  /\ status' = "sleeping"
  /\ sleepers' = sleepers + 1

\* Mutants of Idle: the tick, or the finished order, forgets one of the two flags.
IdleIfAwake   == ~isSleeping
IdleIfNoDough == ~isWorkingOnDough

Idle == ~isWorkingOnDough /\ ~isSleeping

TickerFires ==
  /\ phase \in {"starting", "serving", "draining"}
  /\ ~tick
  /\ tick' = TRUE
  /\ UNCHANGED <<flags, sleepers, server, probe>>

TickSleep ==
  /\ Alive /\ tick /\ Idle
  /\ BeginNap
  /\ tick' = FALSE
  /\ UNCHANGED <<isWorkingOnDough, shouldSleep, server, probe>>

DeferDropped == UNCHANGED shouldSleep   \* mutant of Defer
Defer == shouldSleep' = TRUE

TickDefer ==
  /\ Alive /\ tick /\ isWorkingOnDough
  /\ Defer
  /\ tick' = FALSE
  /\ UNCHANGED <<isSleeping, isWorkingOnDough, status, sleepers, server, probe>>

TickIgnored ==
  /\ Alive /\ tick /\ ~isWorkingOnDough /\ isSleeping
  /\ tick' = FALSE
  /\ UNCHANGED <<flags, sleepers, server, probe>>

TickHandled == TickSleep \/ TickDefer \/ TickIgnored

\* Mutants of NapIsOver and Awake: a waker that runs on, one that forgets the flag.
WakersRunOn  == sleepers >= 0
StaysAsleep  == status' = "idle" /\ UNCHANGED isSleeping

NapIsOver == sleepers > 0
Awake     == status' = "idle" /\ isSleeping' = FALSE

WakeUp ==
  /\ Alive /\ NapIsOver
  /\ Awake
  /\ sleepers' = sleepers - 1
  /\ UNCHANGED <<isWorkingOnDough, shouldSleep, tick, server, probe>>

-----------------------------------------------------------------------------
(* MakeDough, one handler per call.  The read lock of the check and the    *)
(* lock that marks the work are two critical sections.                     *)

Goto(h, here, there) == pc[h] = here /\ pc' = [pc EXCEPT ![h] = there]

Call(h) ==
  /\ phase = "serving"
  /\ Goto(h, "free", "called")
  /\ UNCHANGED <<flags, tick, sleepers, phase, probe>>

\* codes.Unavailable
Refuse(h) ==
  /\ Alive /\ isSleeping
  /\ Goto(h, "called", "free")
  /\ UNCHANGED <<flags, tick, sleepers, phase, probe>>

MayAdmitIdle == Idle   \* mutant of MayAdmit: a busy baker makes the call wait
MayAdmit == ~isSleeping

Admit(h) ==
  /\ Alive /\ MayAdmit
  /\ Goto(h, "called", "admitted")
  /\ UNCHANGED <<flags, tick, sleepers, phase, probe>>

StartDough(h) ==
  /\ Alive
  /\ Goto(h, "admitted", "cooking")
  /\ isWorkingOnDough' = TRUE
  /\ status' = h
  /\ UNCHANGED <<isSleeping, shouldSleep, tick, sleepers, phase, probe>>

\* Mutants of EndWork: each forgets one of the two assignments.
EndWorkKeepFlag   == status' = "idle" /\ UNCHANGED isWorkingOnDough
EndWorkKeepStatus == isWorkingOnDough' = FALSE /\ UNCHANGED status

EndWork == isWorkingOnDough' = FALSE /\ status' = "idle"

\* The deferred function's own critical section.
FinishDough(h) ==
  /\ Alive
  /\ Goto(h, "cooking", "closing")
  /\ EndWork
  /\ UNCHANGED <<isSleeping, shouldSleep, tick, sleepers, phase, probe>>

\* Mutants of OwedNap: the nap is not taken; the debt is not settled.
OwedNapForgotten == shouldSleep' = FALSE /\ UNCHANGED <<isSleeping, status, sleepers>>
OwedNapKeepDebt  == BeginNap /\ UNCHANGED shouldSleep

OwedNap == BeginNap /\ shouldSleep' = FALSE

\* checkAndSleep, the deferred function's last call, and the reply.
CheckAndSleep(h) ==
  /\ Alive
  /\ Goto(h, "closing", "free")
  /\ IF shouldSleep /\ Idle
       THEN OwedNap
       ELSE UNCHANGED <<isSleeping, status, shouldSleep, sleepers>>
  /\ UNCHANGED <<isWorkingOnDough, tick, phase, probe>>

Handle(h) ==
  \/ Refuse(h) \/ Admit(h) \/ StartDough(h) \/ FinishDough(h) \/ CheckAndSleep(h)

\* The reply of the Status call; "owing" is "should sleep after current work".
StatusReply ==
  IF isSleeping THEN "sleeping"
  ELSE IF ~isWorkingOnDough /\ shouldSleep THEN "owing"
  ELSE status

-----------------------------------------------------------------------------
(* main: the health loop, the server's life and the shutdown.              *)

\* Mutant of ServingStatus: the health follows the work instead of the sleep.
ServingStatusByWork == IF isWorkingOnDough THEN "NOT_SERVING" ELSE "SERVING"

ServingStatus == IF isSleeping THEN "NOT_SERVING" ELSE "SERVING"

\* One turn of the loop: publish what the last turn sampled, sample again.
\* Nothing can tell the two apart, so they are one step; the sample is read
\* without the mutex, at any point between two critical sections.
HealthLoop ==
  /\ Alive
  /\ health' = sample
  /\ sample' = ServingStatus
  /\ UNCHANGED <<flags, tick, sleepers, server, watched>>

\* The deferred Stop(): the ticker is stopped and ctx cancelled.  A tick its
\* goroutine has already received is still handled; any other is gone.
StopService ==
  /\ phase' = "stopped"
  /\ tick' = tick \/ tick' = FALSE
  /\ UNCHANGED <<flags, sleepers, pc, probe>>

ListenOk ==
  /\ phase = "starting" /\ phase' = "serving"
  /\ UNCHANGED <<flags, tick, sleepers, pc, probe>>

ListenFails == phase = "starting" /\ StopService

\* A signal, or an error of Serve, with or without a stream that is open.
Terminate ==
  /\ phase = "serving" /\ phase' = "draining"
  /\ watched' \in BOOLEAN
  /\ UNCHANGED <<flags, tick, sleepers, pc, health, sample>>

\* The client of the last open stream closes it.  Before the shutdown streams come and
\* go, and nothing depends on them.
Unwatch ==
  /\ phase = "draining"
  /\ watched /\ watched' = FALSE
  /\ UNCHANGED <<flags, tick, sleepers, server, health, sample>>

\* Mutant of AllAnswered: the shutdown waits for the nap that is owed.
NothingOwed == ~shouldSleep
AllAnswered == ~watched /\ \A h \in Handlers : pc[h] = "free"

\* GracefulStop accepts no call and returns when every handler has answered and
\* every stream is closed, however long that takes.
GracefulStop == phase = "draining" /\ AllAnswered /\ StopService

Exit ==
  /\ phase = "stopped" /\ phase' = "exited"
  /\ UNCHANGED <<flags, tick, sleepers, pc, probe>>

Terminated == phase = "exited" /\ UNCHANGED vars

Main == ListenOk \/ ListenFails \/ Terminate \/ GracefulStop \/ Exit

Next ==
  \/ TickerFires \/ TickSleep \/ TickDefer \/ TickIgnored \/ WakeUp
  \/ \E h \in Handlers : Call(h) \/ Handle(h)
  \/ HealthLoop \/ Unwatch
  \/ Main
  \/ Terminated

Spec == Init /\ [][Next]_vars

\* Every goroutine that can run does: the ticker keeps firing, sleeps end and
\* main goes through its shutdown.  Clients and signals owe nothing: a call need not
\* come, and a stream need not be closed.
Fairness ==
  /\ WF_vars(TickerFires) /\ WF_vars(TickHandled) /\ WF_vars(WakeUp)
  /\ \A h \in Handlers : WF_vars(Handle(h))
  /\ WF_vars(HealthLoop)
  /\ WF_vars(ListenOk \/ ListenFails) /\ WF_vars(GracefulStop) /\ WF_vars(Exit)

FairSpec == Spec /\ Fairness

-----------------------------------------------------------------------------
(* Properties for any number of concurrent calls.                          *)

\* Naps never overlap: the ticker and checkAndSleep, which both spawn wakers,
\* leave exactly one waker running while the baker sleeps and none while it is
\* awake, so no waker of an old nap can cut a later one short.
OneSleeper == (isSleeping => sleepers = 1) /\ (~isSleeping => sleepers = 0)

\* The work flag is never stuck: while it is set some handler is cooking, which
\* will clear it; a flag left behind would defer every later nap for ever.
WorkingFlagSound == isWorkingOnDough => \E h \in Handlers : pc[h] = "cooking"

\* What Status answers is not stale in two respects: it names no order that is not being
\* made, and does not say "sleeping" once the nap is over, although handlers, ticker and
\* wakers write one status string in critical sections of their own.  (It may well say
\* "idle" during a dough, or announce a sleep after work when there is none.)
StatusNamesLiveOrder ==
  /\ \A h \in Handlers : StatusReply = h => pc[h] = "cooking"
  /\ StatusReply = "sleeping" => isSleeping

\* A nap that has begun ends (or the process does): the waker always gets
\* to clear isSleeping, so MakeDough does not refuse for ever.
NapEnds == isSleeping ~> (~isSleeping \/ phase = "exited")

\* Every call of MakeDough is answered, by a dough or by a refusal, also when naps,
\* other calls and the shutdown overlap with it.  (No step holds p.mu while it waits
\* for anything, so a critical section is one step and the mutex needs no variable.)
CallAnswered == \A h \in Handlers : (pc[h] # "free") ~> (pc[h] = "free")

\* Shutdown completes once the clients have closed their streams: nothing else that
\* happens in the process (handlers at work, naps, a nap that is owed, wakers that
\* outlive the server) can keep GracefulStop and main waiting.
ShutdownCompletes == (phase = "draining" /\ ~watched) ~> (phase = "exited")

-----------------------------------------------------------------------------
(* What the README of panettiere states: true of a baker that gets one     *)
(* call at a time, and no longer when calls overlap.                       *)

\* Work priority ("Won't go to sleep while actively making dough"): no step
\* puts the baker to sleep while a handler is making a dough.
WorkPriority ==
  [][~isSleeping /\ isSleeping' => \A h \in Handlers : pc[h] # "cooking"]_vars

\* MakeDough "returns error if panettiere is sleeping": no dough is begun by a
\* baker who is asleep.
AsleepMakesNoDough ==
  [][\A h \in Handlers : pc[h] = "admitted" /\ pc'[h] = "cooking" => ~isSleeping]_vars
=============================================================================
