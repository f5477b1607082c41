------------------------------- MODULE Kitchen -------------------------------
(***************************************************************************)
(* The maestros of Maestro and the baker of Panettiere, joined by the gRPC *)
(* client of pacchetto/grpc.go: requestDough is a call of MakeDough that   *)
(* the retry interceptor attempts up to Retries times.                     *)
(*                                                                         *)
(* The client sets no deadline and MakeDough does not look at its context: *)
(* a call whose connection or whose maestro is gone leaves a handler that  *)
(* goes on making a dough for nobody, next to the attempt that replaces    *)
(* the lost one.  A maestro does nothing else while it waits for a dough.  *)
(* The baker's health loop, which nothing here reads, takes no step.  The  *)
(* client has no keepalive: a connection is lost when the client is told,  *)
(* and one that is half open for ever is outside of the model.             *)
(***************************************************************************)
EXTENDS Maestro

CONSTANTS
  Calls,     \* calls of MakeDough that can be in progress at once
  NoCall,    \* a maestro that waits for no answer
  Retries,   \* GRPCClientSettings.Retries
  MaxLosses  \* bound on the failures of a behaviour, those of Maestro included

ASSUME KitchenAssumption ==
  /\ NoCall \notin Calls /\ {"idle", "sleeping", "owing"} \cap Calls = {}
  /\ Retries \in Nat \ {0}
  /\ MaxLosses \in Nat
  /\ IsFiniteSet(Maestros) /\ IsFiniteSet(Calls)

VARIABLES
  isSleeping, isWorkingOnDough, shouldSleep, status,   \* the baker,
  handler, tick, sleepers, health, sample, watched,    \* as in Panettiere
  phase,
  call,      \* the call each maestro waits for
  attempt,   \* attempts its retry interceptor has made
  losses     \* lost connections, shutdowns and crashes of the baker

Baker == INSTANCE Panettiere WITH Handlers <- Calls, pc <- handler

baker   == <<isSleeping, isWorkingOnDough, shouldSleep, status, handler, tick, sleepers,
             health, sample, watched, phase>>
client  == <<call, attempt>>
kvars   == <<vars, baker, client, losses>>

KTypeOK ==
  /\ TypeOK /\ Baker!TypeOK
  /\ call \in [Maestros -> Calls \cup {NoCall}]
  /\ attempt \in [Maestros -> 0..Retries]
  /\ losses \in 0..MaxLosses

KInit ==
  /\ Init /\ Baker!Init
  /\ call = [m \in Maestros |-> NoCall]
  /\ attempt = [m \in Maestros |-> 0]
  /\ losses = 0

Loss == losses < MaxLosses /\ losses' = losses + 1

-----------------------------------------------------------------------------
(* requestDough: the call and the attempts of the interceptor.             *)

\* Both an unreachable and a sleeping baker answer codes.Unavailable, which is
\* retried; the attempts, and the last error, are counted here.
MayAttempt(m) == pc[m] = "dough" /\ call[m] = NoCall /\ attempt[m] < Retries

CountAttempt(m) == attempt' = [attempt EXCEPT ![m] = @ + 1]

\* The call gets a handler of its own.
Attempt(m) ==
  /\ MayAttempt(m) /\ CountAttempt(m)
  /\ \E h \in Calls : Baker!Call(h) /\ call' = [call EXCEPT ![m] = h]
  /\ UNCHANGED <<vars, losses>>

Unreachable(m) ==
  /\ MayAttempt(m) /\ CountAttempt(m)
  /\ phase # "serving"
  /\ UNCHANGED <<vars, baker, call, losses>>

Hang(m) == UNCHANGED call   \* mutant of HangUp: the client does not notice
HangUp(m) == call' = [call EXCEPT ![m] = NoCall]

Refused(m) ==
  /\ call[m] # NoCall /\ Baker!Refuse(call[m])
  /\ HangUp(m)
  /\ UNCHANGED <<vars, attempt, losses>>

\* The connection breaks: the attempt ends, the handler does not.
LoseConnection(m) ==
  /\ call[m] # NoCall /\ Loss
  /\ HangUp(m)
  /\ UNCHANGED <<vars, baker, attempt>>

Answered(m) ==
  /\ call[m] # NoCall /\ Baker!CheckAndSleep(call[m])
  /\ DoughMade(m)
  /\ HangUp(m)
  /\ attempt' = [attempt EXCEPT ![m] = 0]
  /\ UNCHANGED losses

\* Mutant of GiveUp: a per-call timeout, after which the client moves on.
GiveUpEarly(m) ==
  /\ pc[m] = "dough" /\ DoughFails(m)
  /\ call' = [call EXCEPT ![m] = NoCall]
  /\ attempt' = [attempt EXCEPT ![m] = 0]
  /\ UNCHANGED <<baker, losses>>

\* Mutant of GiveUp: the attempts of one call are counted against all later ones.
GiveUpForGood(m) ==
  /\ call[m] = NoCall /\ attempt[m] = Retries
  /\ DoughFails(m)
  /\ UNCHANGED <<baker, client, losses>>

GiveUp(m) ==
  /\ call[m] = NoCall /\ attempt[m] = Retries
  /\ DoughFails(m)
  /\ attempt' = [attempt EXCEPT ![m] = 0]
  /\ UNCHANGED <<baker, call, losses>>

RequestDough(m) ==
  \/ Attempt(m) \/ Unreachable(m) \/ Refused(m) \/ Answered(m) \/ GiveUp(m)

-----------------------------------------------------------------------------
(* The rest of the maestros.                                               *)

MaestroWorks(m) ==
  /\ pc[m] # "dough" /\ Turn(m)
  /\ UNCHANGED <<baker, client, losses>>

FetchEnds(m) == FetchExpires(m) /\ UNCHANGED <<baker, client, losses>>

LunchIsDue(m) == LunchTick(m) /\ UNCHANGED <<baker, client, losses>>

\* Its calls are cancelled, which no handler notices.
MaestroCrashes(m) ==
  /\ Crash(m)
  /\ call' = [call EXCEPT ![m] = NoCall]
  /\ attempt' = [attempt EXCEPT ![m] = 0]
  /\ UNCHANGED <<baker, losses>>

BrokerWorks ==
  /\ \/ \E m \in Maestros, o \in Orders : Deliver(m, o)
     \/ \E o \in Orders : Server(o)
  /\ UNCHANGED <<baker, client, losses>>

-----------------------------------------------------------------------------
(* The rest of the baker.                                                  *)

Admitted(m) ==
  /\ call[m] # NoCall /\ Baker!Admit(call[m])
  /\ UNCHANGED <<vars, client, losses>>

Orphan(h) == \A m \in Maestros : call[m] # h

\* An orphan goes through the same steps; its reply goes nowhere.
OrphanWorks(h) ==
  /\ Orphan(h) /\ (Baker!Refuse(h) \/ Baker!Admit(h) \/ Baker!CheckAndSleep(h))
  /\ UNCHANGED <<vars, client, losses>>

DoughWorks(h) ==
  /\ Baker!StartDough(h) \/ Baker!FinishDough(h)
  /\ UNCHANGED <<vars, client, losses>>

BakerTicks ==
  /\ Baker!TickerFires \/ Baker!TickHandled
  /\ UNCHANGED <<vars, client, losses>>

BakerWakesUp ==
  /\ Baker!WakeUp
  /\ UNCHANGED <<vars, client, losses>>

\* A client that watches the baker closes its stream in the end; until then a baker
\* that is shutting down is unreachable.
BakerLives ==
  /\ Baker!ListenOk \/ Baker!Unwatch \/ Baker!GracefulStop \/ Baker!Exit
  /\ UNCHANGED <<vars, client, losses>>

BakerStops ==
  /\ Loss /\ (Baker!Terminate \/ Baker!ListenFails)
  /\ UNCHANGED <<vars, client>>

FreshBaker ==
  /\ isSleeping' = FALSE /\ isWorkingOnDough' = FALSE /\ shouldSleep' = FALSE
  /\ status' = "idle" /\ tick' = FALSE /\ sleepers' = 0
  /\ handler' = [h \in Calls |-> "free"]
  /\ watched' = FALSE /\ phase' = "starting"
  /\ UNCHANGED <<health, sample, vars, client, losses>>

\* A crash ends every call with codes.Unavailable; the baker is started again
\* without memory of them.
BakerCrashes ==
  /\ Loss
  /\ phase # "exited" /\ phase' = "exited"
  /\ handler' = [h \in Calls |-> "free"]
  /\ call' = [m \in Maestros |-> NoCall]
  /\ UNCHANGED <<isSleeping, isWorkingOnDough, shouldSleep, status, tick, sleepers, health,
                 sample, watched, vars, attempt>>

BakerRestarts == phase = "exited" /\ FreshBaker

-----------------------------------------------------------------------------
Bounded == faults' + losses' <= MaxLosses

KSteps ==
  \/ \E m \in Maestros :
       \/ RequestDough(m) \/ Admitted(m) \/ LoseConnection(m)
       \/ MaestroWorks(m) \/ FetchEnds(m) \/ LunchIsDue(m) \/ MaestroCrashes(m)
  \/ BrokerWorks
  \/ \E h \in Calls : OrphanWorks(h) \/ DoughWorks(h)
  \/ BakerTicks \/ BakerWakesUp \/ BakerLives \/ BakerStops \/ BakerCrashes \/ BakerRestarts

KNext == KSteps /\ Bounded

KSpec == KInit /\ [][KNext]_kvars

\* An attempt of m that finds the baker awake and serving is not put off for ever:
\* an order comes back after every ack wait, at times that have nothing to do
\* with those of the naps, and naps are shorter than the time between them.
NotAlwaysAsleep(m) ==
  ([]<><<Attempt(m)>>_kvars /\ []<>(phase = "serving" /\ ~isSleeping))
    => []<><<Admitted(m)>>_kvars

\* The fairness of Maestro for all but the calls, and that of Panettiere for the
\* baker's goroutines, in place of its assumption about calls that succeed.
KFairness ==
  /\ \A m \in Maestros :
       /\ WF_kvars(MaestroWorks(m)) /\ WF_kvars(FetchEnds(m)) /\ WF_kvars(LunchIsDue(m))
       /\ WF_kvars(RequestDough(m) \/ Admitted(m))
       /\ NotAlwaysAsleep(m)
  /\ \A o \in Orders :
       /\ WF_kvars(ExpireAck(o) /\ BrokerWorks) /\ WF_kvars(ServerAck(o) /\ BrokerWorks)
       /\ SF_kvars((\E m \in Maestros : Deliver(m, o)) /\ BrokerWorks)
  /\ \A h \in Calls : WF_kvars(OrphanWorks(h) \/ DoughWorks(h))
  /\ WF_kvars(BakerTicks) /\ WF_kvars(BakerWakesUp)
  /\ WF_kvars(BakerLives) /\ WF_kvars(BakerRestarts)

KFairSpec == KSpec /\ KFairness

-----------------------------------------------------------------------------
InProgress == {h \in Calls : handler[h] # "free"}

\* Retries do not pile up in the baker: there is one handler for each maestro, and
\* one more for each failure that left an orphan behind.
OrphansBounded == Cardinality(InProgress) <= Cardinality(Maestros) + faults + losses

\* What the baker is on its own it is in the kitchen, too: with orphans next to their
\* retries, and through every shutdown, crash and restart, one waker runs for a nap,
\* the work flag has a cook behind it and Status names no order that is not made.
BakerStaysSound ==
  phase # "exited" =>
    Baker!OneSleeper /\ Baker!WorkingFlagSound /\ Baker!StatusNamesLiveOrder

\* What the baker's README calls work priority holds of a baker with one maestro,
\* retries and redeliveries included, as long as no failure leaves an orphan.
WorkPriorityForOne ==
  [][Cardinality(Maestros) = 1 /\ faults + losses = 0 /\ ~isSleeping /\ isSleeping'
       => \A h \in Calls : handler[h] # "cooking"]_kvars

\* The call of the composition is the call Maestro assumes: it ends, and a maestro that
\* asks for doughs again and again gets one.  Maestro takes that for granted in its
\* fairness, which is what can fail here: in the kitchen it has to come out of the
\* baker's goroutines, its naps and restarts, and the client's retries.
ImplementsMaestro == FairSpec

\* requestDough returns, although it has no deadline: naps, shutdowns, crashes and
\* lost connections end the attempt they meet, and attempts are bounded.
RequestReturns == \A m \in Maestros : (pc[m] = "dough") ~> (pc[m] # "dough")
=============================================================================
