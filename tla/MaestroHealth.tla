---------------------------- MODULE MaestroHealth ----------------------------
(***************************************************************************)
(* One maestro's process seen through its health service: main and its     *)
(* asynchronous health loop (maestro/main.go) and the goroutine of the     *)
(* turn, whose lunch writes the same serving status (maestro/handler.go).  *)
(* The last writer wins.  What the turn does between two lunches is in     *)
(* Maestro.                                                                *)
(***************************************************************************)
VARIABLES
  connected,   \* nc.IsConnected()
  health,      \* serving status published by the gRPC health server
  sample,      \* local variable of the health loop: the status to publish next
  loop,        \* what the health loop does next: publish, or sample
  turn,        \* the goroutine of startTurn
  phase,       \* where main is
  news,        \* how far the loop has got with the last change of connected (history)
  overwritten  \* lunch has written the status since the loop last did (history)

probe   == <<health, sample, loop>>
history == <<news, overwritten>>
vars    == <<connected, probe, turn, phase, history>>

Serving == {"SERVING", "NOT_SERVING"}

TypeOK ==
  /\ connected \in BOOLEAN
  /\ health \in Serving /\ sample \in Serving /\ loop \in {"publish", "sample"}
  /\ turn \in {"none", "working", "lunching", "ended"}
  /\ phase \in {"starting", "serving", "draining", "exited"}
  /\ news \in {"changed", "sampled", "published"} /\ overwritten \in BOOLEAN

Init ==
  /\ connected = TRUE
  /\ health = "SERVING" /\ sample = "SERVING" /\ loop = "publish"
  /\ turn = "none" /\ phase = "starting"
  /\ news = "published" /\ overwritten = FALSE

Alive == phase # "exited"

\* The connection breaks or is made again (external).
ConnectionChanges ==
  /\ Alive
  /\ connected' = ~connected
  /\ news' = "changed"
  /\ UNCHANGED <<probe, turn, phase, overwritten>>

\* Mutants of NatsStatus: no new sample; a status of the health API that means nothing here.
NatsStatusOnce    == sample
NatsStatusUnknown == IF connected THEN "SERVING" ELSE "UNKNOWN"

NatsStatus == IF connected THEN "SERVING" ELSE "NOT_SERVING"

\* Mutants of Published: the loop publishes good news only, or bad news only.
PublishedIfUp   == IF sample = "SERVING" THEN "SERVING" ELSE health
PublishedIfDown == IF sample = "SERVING" THEN health ELSE "NOT_SERVING"

Published == sample

Publish ==
  /\ Alive /\ loop = "publish" /\ loop' = "sample"
  /\ health' = Published
  /\ news' = IF news = "sampled" THEN "published" ELSE news
  /\ overwritten' = FALSE
  /\ UNCHANGED <<connected, sample, turn, phase>>

Sample ==
  /\ Alive /\ loop = "sample" /\ loop' = "publish"
  /\ sample' = NatsStatus
  /\ news' = IF news = "changed" THEN "sampled" ELSE news
  /\ UNCHANGED <<connected, health, turn, phase, overwritten>>

HealthLoop == Publish \/ Sample

LunchBegins ==
  /\ Alive /\ turn = "working" /\ turn' = "lunching"
  /\ health' = "NOT_SERVING" /\ overwritten' = TRUE
  /\ UNCHANGED <<connected, sample, loop, phase, news>>

LunchEnds ==
  /\ Alive /\ turn = "lunching" /\ turn' = "working"
  /\ health' = "SERVING" /\ overwritten' = TRUE
  /\ UNCHANGED <<connected, sample, loop, phase, news>>

\* The turn sees ctx.Done at the top of its loop, if it gets there in time.
TurnEnds ==
  /\ phase = "draining" /\ turn = "working" /\ turn' = "ended"
  /\ UNCHANGED <<connected, probe, phase, history>>

\* main listens, serves and starts the turn.
Listen ==
  /\ phase = "starting" /\ phase' = "serving" /\ turn' = "working"
  /\ UNCHANGED <<connected, probe, history>>

ListenFails ==
  /\ phase = "starting" /\ phase' = "exited"
  /\ UNCHANGED <<connected, probe, turn, history>>

\* A signal, or an error of Serve.
Terminate ==
  /\ phase = "serving" /\ phase' = "draining"
  /\ UNCHANGED <<connected, probe, turn, history>>

\* GracefulStop waits for calls and for streams that watch the health, with no time
\* limit (see Process), but not for the turn.
Exit ==
  /\ phase = "draining" /\ phase' = "exited"
  /\ UNCHANGED <<connected, probe, turn, history>>

Terminated == ~Alive /\ UNCHANGED vars

Next ==
  \/ ConnectionChanges \/ HealthLoop
  \/ LunchBegins \/ LunchEnds \/ TurnEnds
  \/ Listen \/ ListenFails \/ Terminate \/ Exit \/ Terminated

Spec == Init /\ [][Next]_vars

\* The loop keeps turning and a lunch ends.  Nothing else is owed.
FairSpec == Spec /\ WF_vars(HealthLoop) /\ WF_vars(LunchEnds)

-----------------------------------------------------------------------------
\* Once the loop has sampled and published the last change of the connection, and
\* published after the last lunch, the status is that of the connection: neither
\* writer leaves a trace in the other's state.
HealthSettles ==
  news = "published" /\ ~overwritten => (health = "SERVING" <=> connected)

\* A lost connection is published again and again, however often lunch says
\* otherwise.
OutageIsShown ==
  <>[](~connected /\ Alive) => []<>(health = "NOT_SERVING")

\* The end of a lunch is not forgotten: with a connection that holds, the
\* maestro comes back to SERVING.
ComesBack == <>[](connected /\ Alive) => []<>(health = "SERVING")

\* "NOT_SERVING: When NATS connection is down", once the loop has noticed and
\* published it.
DownIsNotServing == ~connected /\ news = "published" => health = "NOT_SERVING"
=============================================================================
