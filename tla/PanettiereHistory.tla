-------------------------- MODULE PanettiereHistory --------------------------
(***************************************************************************)
(* The baker of Panettiere with history variables that relate a state to   *)
(* its past and constrain no step: how many ticks have fired and paid for  *)
(* no nap, how many turns the health loop has made since the baker last    *)
(* fell asleep or woke up, and whether two calls have ever been worked on  *)
(* at once.                                                                *)
(***************************************************************************)
EXTENDS Panettiere

VARIABLES
  credit,   \* ticks that have paid for no nap yet; no more than two can matter,
            \* one that waits for its goroutine and one that is deferred
  steady,   \* turns of the health loop since isSleeping changed, up to two
  overlap   \* two calls have been worked on at once

history == <<credit, steady, overlap>>
hvars   == <<vars, history>>

HTypeOK == TypeOK /\ credit \in 0..2 /\ steady \in 0..2 /\ overlap \in BOOLEAN

HInit == Init /\ credit = 0 /\ steady = 2 /\ overlap = FALSE

Working(h) == pc[h] \in {"cooking", "closing"}

Overlapping == \E g, h \in Handlers : g # h /\ Working(g) /\ Working(h)

UpToTwo(n) == IF n = 2 THEN 2 ELSE n + 1

Observe ==
  /\ credit' = IF ~tick /\ tick' THEN UpToTwo(credit)
               ELSE IF sleepers' > sleepers THEN credit - 1
               ELSE credit
  /\ overlap' = (overlap \/ Overlapping)

HealthTurn == HealthLoop /\ steady' = UpToTwo(steady)

OtherStep ==
  /\ \/ TickerFires \/ TickHandled \/ WakeUp \/ Unwatch \/ Main \/ Terminated
     \/ \E h \in Handlers : Call(h) \/ Handle(h)
  /\ steady' = IF isSleeping' = isSleeping THEN steady ELSE 0

HNext == (HealthTurn \/ OtherStep) /\ Observe

HSpec == HInit /\ [][HNext]_hvars

HFairSpec == HSpec /\ Fairness

\* Every nap is paid for by a tick of its own: however calls overlap, a tick
\* deferred by work is never spent twice by the handlers that run checkAndSleep.
NapsArePaid == (IF shouldSleep THEN 1 ELSE 0) + (IF tick THEN 1 ELSE 0) <= credit

\* Two turns of the health loop after the last change, the published health is
\* the baker's: NOT_SERVING exactly while it sleeps.  (One turn is not enough:
\* the loop publishes what the previous turn sampled.)
HealthCatchesUp == steady = 2 => (health = "NOT_SERVING" <=> isSleeping)

\* Work priority holds until two calls overlap for the first time: no step puts the
\* baker to sleep while a handler makes a dough.  (Afterwards it fails: WorkPriority.)
PriorityUntilOverlap ==
  [][~overlap' /\ ~isSleeping /\ isSleeping' => \A h \in Handlers : pc[h] # "cooking"]_hvars

\* Overlapping calls put a deferred nap off only as long as they overlap: when that
\* ends, a nap that is owed is taken, unless the service is stopped first.
DeferredSleep ==
  <>[]~Overlapping => (shouldSleep ~> (isSleeping \/ phase \in {"stopped", "exited"}))

\* Then, too, every tick of the sleep ticker is followed by a nap: at once, after the
\* current orders, or because one is in progress.
EveryTickNaps ==
  <>[]~Overlapping => (tick ~> (isSleeping \/ phase \in {"stopped", "exited"}))
=============================================================================
