-------------------------- MODULE MaestroHealthProofs --------------------------
(***************************************************************************)
(* What the published status of a maestro tells: proved of every           *)
(* behaviour, with lunches, outages and a shutdown at any time.            *)
(***************************************************************************)
EXTENDS MaestroHealth, TLAPS

\* What the loop has sampled since the last change is the connection; what it has
\* published since, and lunch has not overwritten, is what it has sampled.
LoopKnows ==
  /\ news # "changed" => sample = NatsStatus
  /\ news = "published" /\ ~overwritten => health = sample

IInv == TypeOK /\ LoopKnows

\* The initial state satisfies the invariant.
LEMMA InitIInv == Init => IInv
  BY DEF Init, IInv, TypeOK, LoopKnows, Serving, NatsStatus

\* Every step keeps it: the loop publishes only what it has sampled, and a change or a
\* lunch takes away what it knew.
LEMMA StepIInv == IInv /\ [Next]_vars => IInv'
<1> SUFFICES ASSUME IInv, [Next]_vars PROVE IInv'
  OBVIOUS
<1> USE DEF IInv, TypeOK, LoopKnows, Serving, NatsStatus, probe, history
<1>1. CASE ConnectionChanges
  BY <1>1 DEF ConnectionChanges
<1>2. CASE Publish
  BY <1>2 DEF Publish, Published
<1>3. CASE Sample
  <2>1. TypeOK'
    BY <1>3 DEF Sample
  <2>2. sample' = NatsStatus /\ NatsStatus' = NatsStatus
    BY <1>3 DEF Sample
  <2>3. news' = "published" => news = "published"
    BY <1>3 DEF Sample
  <2>4. LoopKnows'
    BY <1>3, <2>2, <2>3 DEF Sample
  <2> QED  BY <2>1, <2>4
<1>4. CASE LunchBegins \/ LunchEnds
  <2>1. overwritten' = TRUE /\ UNCHANGED <<connected, sample, loop, phase, news>>
    BY <1>4 DEF LunchBegins, LunchEnds
  <2>2. TypeOK'
    BY <1>4, <2>1 DEF LunchBegins, LunchEnds
  <2>3. LoopKnows'
    BY <2>1
  <2> QED  BY <2>2, <2>3
<1>5. CASE TurnEnds
  BY <1>5 DEF TurnEnds
<1>6. CASE Listen \/ ListenFails \/ Terminate \/ Exit
  BY <1>6 DEF Listen, ListenFails, Terminate, Exit
<1>7. CASE Terminated \/ UNCHANGED vars
  BY <1>7 DEF Terminated, vars
<1> QED  BY <1>1, <1>2, <1>3, <1>4, <1>5, <1>6, <1>7 DEF Next, HealthLoop

\* The loop, the turn and main keep the types of what they write.
THEOREM TypeTheorem == Spec => []TypeOK
<1>1. IInv => TypeOK
  BY DEF IInv
<1> QED  BY <1>1, InitIInv, StepIInv, PTL DEF Spec

\* The status is the connection's once the loop has gone round after the last change of
\* it and after the last lunch.
THEOREM SettlesTheorem == Spec => []HealthSettles
<1>1. IInv => HealthSettles
  BY DEF IInv, LoopKnows, HealthSettles, NatsStatus
<1> QED  BY <1>1, InitIInv, StepIInv, PTL DEF Spec

\* DownIsNotServing, which a lunch breaks, holds as long as none has written the status
\* after the loop: the two writers of one status are all that is wrong with it.
THEOREM OutageTheorem == Spec => [](~overwritten => DownIsNotServing)
<1>1. IInv => (~overwritten => DownIsNotServing)
  BY DEF IInv, LoopKnows, DownIsNotServing, NatsStatus
<1> QED  BY <1>1, InitIInv, StepIInv, PTL DEF Spec
=============================================================================
