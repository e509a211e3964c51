---------------------------- MODULE ExecutionProofs ----------------------------
(***************************************************************************)
(* The execution engine, for any number of opportunities, symbols and      *)
(* operators, any quantities, answers, timeouts and interleavings: the     *)
(* in-flight guard excludes, the lifecycle of ArbLifecycle is implemented, *)
(* no hedge exceeds leg 1, outcomes CLEAN and REVERSED balance, and        *)
(* faithful reports end flat or in a kill switch.                          *)
(***************************************************************************)
EXTENDS ExecutionProperties, RiskEngineProofs

-------------------------------------------------------------------------------
(* The in-flight guard *)

\* An opportunity in the channel is there once, and nowhere else yet.
QueueInv ==
    /\ oppCh \in Seq(Opps)
    /\ \A i \in DOMAIN oppCh : pc[oppCh[i]] = "queued"
    /\ \A i, j \in DOMAIN oppCh : oppCh[i] = oppCh[j] => i = j

\* Whoever executes has the mark of its symbol, and has it alone.
MarkInv ==
    /\ \A o \in Opps : pc[o] \in Holding => SymbolOf[o] \in inFlight
    /\ OneInFlightPerSymbol

GuardInv == pc \in [Opps -> PC] /\ QueueInv /\ MarkInv

\* What a step may do to where the opportunities are.
PcStep ==
    \/ UNCHANGED <<pc, oppCh, inFlight>>
    \/ \E o \in Opps : Submit(o) \/ SkipInFlight(o) \/ Acquire(o) \/ Release(o)
    \/ Dispatch
    \/ \E o \in Opps, point \in Holding :
          pc[o] \in Holding /\ Step(o, point) /\ UNCHANGED <<oppCh, inFlight>>

LEMMA NextPcStep == [Next]_vars => PcStep
<1> SUFFICES ASSUME [Next]_vars PROVE PcStep
  OBVIOUS
<1> USE DEF PcStep, queueVars, Holding
<1>1. CASE UNCHANGED vars
  BY <1>1 DEF vars, execVars
<1>2. ASSUME NEW o \in Opps, Submit(o) \/ Execute(o) PROVE PcStep
  <2>1. CASE Submit(o) \/ SkipInFlight(o) \/ Acquire(o) \/ Release(o)
    BY <2>1
  <2>2. CASE RiskRejected(o)
    BY <2>2 DEF RiskRejected
  <2>3. CASE SubmitLeg1(o)
    BY <2>3 DEF SubmitLeg1
  <2>4. CASE Leg1Missed(o)
    BY <2>4 DEF Leg1Missed
  <2>5. CASE Leg1Filled(o)
    BY <2>5 DEF Leg1Filled
  <2>6. CASE Leg2Returns(o)
    BY <2>6 DEF Leg2Returns
  <2>7. CASE Reversed(o)
    BY <2>7 DEF Reversed
  <2>8. CASE ReverseFailed(o)
    BY <2>8 DEF ReverseFailed, TripUnhedged
  <2>9. CASE TripReturned(o)
    BY <2>9 DEF TripReturned
  <2>10. CASE BookEngine(o)
    BY <2>10 DEF BookEngine
  <2>11. CASE BookRisk(o)
    BY <2>11 DEF BookRisk
  <2>12. CASE Emit(o)
    BY <2>12 DEF Emit
  <2> QED
    BY <1>2, <2>1, <2>2, <2>3, <2>4, <2>5, <2>6, <2>7, <2>8, <2>9, <2>10, <2>11, <2>12
       DEF Execute
<1>3. ASSUME NEW o \in Opps, NEW leg \in Legs, VenueAnswers(o, leg) PROVE PcStep
  BY <1>3 DEF VenueAnswers
<1>4. ASSUME NEW p, OperatorCall(p) \/ InRiskEngine(p) PROVE PcStep
  BY <1>4 DEF OperatorCall, InRiskEngine, execVars
<1>5. CASE Dispatch
  BY <1>5
<1>6. CASE StopLoop \/ Shutdown \/ Exit
  BY <1>6 DEF StopLoop, Shutdown, Exit
<1> QED
  BY <1>1, <1>2, <1>3, <1>4, <1>5, <1>6 DEF Next

LEMMA InitGuard == Init => GuardInv
BY DEF Init, GuardInv, QueueInv, MarkInv, OneInFlightPerSymbol, PC, Waiting, Holding

LEMMA NextGuard == GuardInv /\ [Next]_vars => GuardInv'
<1> SUFFICES ASSUME GuardInv, [Next]_vars PROVE GuardInv'
  OBVIOUS
<1> USE DEF GuardInv, Step
<1>1. CASE UNCHANGED <<pc, oppCh, inFlight>>
  BY <1>1 DEF QueueInv, MarkInv, OneInFlightPerSymbol
<1>2. ASSUME NEW o \in Opps, Submit(o) PROVE GuardInv'
  <2>1. pc[o] = "detected" /\ inFlight' = inFlight
    BY <1>2 DEF Submit
  <2>2. PICK point \in {"queued", "dropped"} : pc' = [pc EXCEPT ![o] = point]
    BY <1>2 DEF Submit
  <2>3. pc' \in [Opps -> PC]
    BY <2>2 DEF PC, Waiting
  <2>4. MarkInv'
    BY <2>1, <2>2 DEF MarkInv, OneInFlightPerSymbol, Holding
  <2>5. \A i \in DOMAIN oppCh : oppCh[i] \in Opps /\ oppCh[i] # o
    BY <2>1 DEF QueueInv
  <2>6. CASE oppCh' = Append(oppCh, o) /\ Step(o, "queued")
    <3>1. pc' = [pc EXCEPT ![o] = "queued"]
      BY <2>6
    <3>2. \A i \in DOMAIN oppCh' :
             (i \in DOMAIN oppCh /\ oppCh'[i] = oppCh[i]) \/ (i = Len(oppCh) + 1 /\ oppCh'[i] = o)
      BY <2>6 DEF QueueInv
    <3>3. oppCh' \in Seq(Opps)
      BY <2>6 DEF QueueInv
    <3>4. \A i \in DOMAIN oppCh' : pc'[oppCh'[i]] = "queued"
      BY <2>5, <3>1, <3>2 DEF QueueInv
    <3>5. \A i, j \in DOMAIN oppCh' : oppCh'[i] = oppCh'[j] => i = j
      BY <2>5, <3>2 DEF QueueInv
    <3>6. QueueInv'
      BY <3>3, <3>4, <3>5, Zenon DEF QueueInv
    <3> QED
      BY <2>3, <2>4, <3>6
  <2>7. CASE oppCh' = oppCh
    <3>1. QueueInv'
      BY <2>2, <2>5, <2>7 DEF QueueInv
    <3> QED
      BY <2>3, <2>4, <3>1
  <2> QED
    BY <1>2, <2>3, <2>4, <2>6, <2>7 DEF Submit
<1>3. ASSUME NEW o \in Opps, SkipInFlight(o) PROVE GuardInv'
  <2>1. pc[o] = "spawned" /\ pc' = [pc EXCEPT ![o] = "skipped"] /\ UNCHANGED <<oppCh, inFlight>>
    BY <1>3 DEF SkipInFlight, queueVars
  <2>2. QueueInv'
    BY <2>1 DEF QueueInv
  <2>3. MarkInv' /\ pc' \in [Opps -> PC]
    BY <2>1 DEF MarkInv, OneInFlightPerSymbol, Holding, PC
  <2> QED
    BY <2>2, <2>3
<1>4. ASSUME NEW o \in Opps, Acquire(o) PROVE GuardInv'
  <2>1. /\ pc[o] = "spawned" /\ pc' = [pc EXCEPT ![o] = "validate"] /\ UNCHANGED oppCh
        /\ SymbolOf[o] \notin inFlight /\ inFlight' = inFlight \union {SymbolOf[o]}
    BY <1>4 DEF Acquire, queueVars
  <2>2. QueueInv'
    BY <2>1 DEF QueueInv
  <2>3. pc' \in [Opps -> PC]
    BY <2>1 DEF Holding, PC
  <2>4. MarkInv'
    BY <2>1 DEF MarkInv, OneInFlightPerSymbol, Holding
  <2> QED
    BY <2>2, <2>3, <2>4
<1>5. ASSUME NEW o \in Opps, Release(o) PROVE GuardInv'
  <2>1. /\ pc[o] = "release" /\ pc' = [pc EXCEPT ![o] = "done"] /\ UNCHANGED oppCh
        /\ inFlight' = inFlight \ {SymbolOf[o]}
    BY <1>5 DEF Release, DeleteMark, queueVars
  <2>2. QueueInv'
    BY <2>1 DEF QueueInv
  <2>3. pc' \in [Opps -> PC]
    BY <2>1 DEF PC
  <2>4. MarkInv'
    BY <2>1 DEF MarkInv, OneInFlightPerSymbol, Holding
  <2> QED
    BY <2>2, <2>3, <2>4
<1>6. CASE Dispatch
  <2> DEFINE o == oppCh[1]
  <2>1. /\ oppCh # <<>> /\ oppCh' = Tail(oppCh) /\ UNCHANGED inFlight
        /\ pc' = [pc EXCEPT ![Head(oppCh)] = "spawned"]
    BY <1>6 DEF Dispatch
  <2>2. o = Head(oppCh) /\ o \in Opps /\ pc[o] = "queued" /\ Len(oppCh) \in Nat \ {0}
    BY <2>1 DEF QueueInv
  <2>3. pc' \in [Opps -> PC]
    BY <2>1 DEF PC, Waiting
  <2>4. MarkInv'
    BY <2>1, <2>2 DEF MarkInv, OneInFlightPerSymbol, Holding
  <2>5. oppCh' \in Seq(Opps) /\ \A i \in DOMAIN oppCh' : i + 1 \in DOMAIN oppCh /\ oppCh'[i] = oppCh[i + 1]
    BY <2>1 DEF QueueInv
  <2>6. QueueInv'
    BY <2>1, <2>2, <2>5 DEF QueueInv
  <2> QED
    BY <2>3, <2>4, <2>6
<1>7. ASSUME NEW o \in Opps, NEW point \in Holding,
             pc[o] \in Holding, Step(o, point), UNCHANGED <<oppCh, inFlight>>
      PROVE  GuardInv'
  <2>1. QueueInv'
    BY <1>7 DEF QueueInv, Holding
  <2>2. pc' \in [Opps -> PC]
    BY <1>7 DEF PC
  <2>3. MarkInv'
    BY <1>7 DEF MarkInv, OneInFlightPerSymbol
  <2> QED
    BY <2>1, <2>2, <2>3
<1> QED
  BY <1>1, <1>2, <1>3, <1>4, <1>5, <1>6, <1>7, NextPcStep DEF PcStep

\* However many goroutines Start has spawned, and however they interleave, at
\* most one of each symbol is between taking the mark and deleting it.
THEOREM OneInFlight == Spec => []OneInFlightPerSymbol
<1>1. GuardInv => OneInFlightPerSymbol
  BY DEF GuardInv, MarkInv
<1> QED
  BY <1>1, InitGuard, NextGuard, PTL DEF Spec

-------------------------------------------------------------------------------
(* The lifecycle *)

\* Where an opportunity may go without its outcome being decided, and where
\* when it is.
Moves(from, to) ==
    \/ from = "detected" /\ to \in {"queued", "dropped"}
    \/ from = "queued" /\ to = "spawned"
    \/ from = "spawned" /\ to \in {"skipped", "validate"}
    \/ from = "validate" /\ to = "leg1"
    \/ from = "leg1" /\ to \in {"leg2", "reverse"}
    \/ from = "leg2" /\ to = "reverse"
    \/ from = "bookEngine" /\ to = "bookRisk"
    \/ from \in {"trip", "bookRisk"} /\ to = "emit"
    \/ from = "release" /\ to = "done"

Decides(from, to, out) ==
    \/ from = "validate" /\ to = "emit" /\ out = "RISK_REJECTED"
    \/ from = "leg1" /\ to = "emit" /\ out = "MISSED"
    \/ from = "leg2" /\ to = "bookEngine" /\ out = "CLEAN"
    \/ from = "reverse" /\ to = "bookEngine" /\ out = "REVERSED"
    \/ from = "reverse" /\ to = "trip" /\ out = "KILL_SWITCH"

OutcomeStep ==
    \/ UNCHANGED <<pc, outcome, published>>
    \/ \E o \in Opps, to \in PC :
          Moves(pc[o], to) /\ Step(o, to) /\ UNCHANGED <<outcome, published>>
    \/ \E o \in Opps, to \in PC, out \in Outcome :
          Decides(pc[o], to, out) /\ Step(o, to) /\ Decide(o, out) /\ UNCHANGED published
    \/ \E o \in Opps : Emit(o)

\* Every step moves one opportunity along the code's control flow, or none.
LEMMA NextOutcomeStep == QueueInv /\ [Next]_vars => OutcomeStep
<1> SUFFICES ASSUME QueueInv, [Next]_vars PROVE OutcomeStep
  OBVIOUS
<1> DEFINE MovesTo(o, to) == Moves(pc[o], to) /\ Step(o, to) /\ UNCHANGED <<outcome, published>>
           DecidesTo(o, to, out) ==
               Decides(pc[o], to, out) /\ Step(o, to) /\ Decide(o, out) /\ UNCHANGED published
<1> USE DEF Moves, Decides, tradeVars
<1>m. ASSUME NEW o \in Opps, NEW to \in PC, MovesTo(o, to) PROVE OutcomeStep
  BY <1>m DEF OutcomeStep
<1>d. ASSUME NEW o \in Opps, NEW to \in PC, NEW out \in Outcome, DecidesTo(o, to, out)
      PROVE  OutcomeStep
  BY <1>d DEF OutcomeStep
<1>p. /\ {"queued", "dropped", "spawned", "skipped", "validate", "leg1", "leg2", "reverse",
          "bookEngine", "bookRisk", "trip", "emit", "release", "done"} \subseteq PC
      /\ Outcome = {"RISK_REJECTED", "MISSED", "CLEAN", "REVERSED", "KILL_SWITCH"}
  BY DEF PC, Waiting, Holding, Outcome
<1>1. CASE UNCHANGED vars
  BY <1>1 DEF vars, execVars, OutcomeStep
<1>2. ASSUME NEW o \in Opps, Submit(o) \/ Execute(o) PROVE OutcomeStep
  <2>1. CASE Submit(o)
    <3>1. MovesTo(o, "queued") \/ MovesTo(o, "dropped")
      BY <2>1 DEF Submit
    <3> QED
      BY <3>1, <1>m, <1>p
  <2>2. CASE SkipInFlight(o)
    <3>1. MovesTo(o, "skipped")
      BY <2>2 DEF SkipInFlight
    <3> QED
      BY <3>1, <1>m, <1>p
  <2>3. CASE Acquire(o)
    <3>1. MovesTo(o, "validate")
      BY <2>3 DEF Acquire
    <3> QED
      BY <3>1, <1>m, <1>p
  <2>4. CASE RiskRejected(o)
    <3>1. DecidesTo(o, "emit", "RISK_REJECTED")
      BY <2>4 DEF RiskRejected
    <3> QED
      BY <3>1, <1>d, <1>p
  <2>5. CASE SubmitLeg1(o)
    <3>1. MovesTo(o, "leg1")
      BY <2>5 DEF SubmitLeg1
    <3> QED
      BY <3>1, <1>m, <1>p
  <2>6. CASE Leg1Missed(o)
    <3>1. DecidesTo(o, "emit", "MISSED")
      BY <2>6 DEF Leg1Missed
    <3> QED
      BY <3>1, <1>d, <1>p
  <2>7. CASE Leg1Filled(o)
    <3>1. MovesTo(o, "leg2") \/ MovesTo(o, "reverse")
      BY <2>7 DEF Leg1Filled
    <3> QED
      BY <3>1, <1>m, <1>p
  <2>8. CASE Leg2Returns(o)
    <3>1. MovesTo(o, "reverse") \/ DecidesTo(o, "bookEngine", "CLEAN")
      BY <2>8 DEF Leg2Returns
    <3> QED
      BY <3>1, <1>m, <1>d, <1>p
  <2>9. CASE Reversed(o)
    <3>1. DecidesTo(o, "bookEngine", "REVERSED")
      BY <2>9 DEF Reversed
    <3> QED
      BY <3>1, <1>d, <1>p
  <2>10. CASE ReverseFailed(o)
    <3>1. DecidesTo(o, "trip", "KILL_SWITCH")
      BY <2>10 DEF ReverseFailed, TripUnhedged
    <3> QED
      BY <3>1, <1>d, <1>p
  <2>11. CASE TripReturned(o)
    <3>1. MovesTo(o, "emit")
      BY <2>11 DEF TripReturned
    <3> QED
      BY <3>1, <1>m, <1>p
  <2>12. CASE BookEngine(o)
    <3>1. MovesTo(o, "bookRisk")
      BY <2>12 DEF BookEngine
    <3> QED
      BY <3>1, <1>m, <1>p
  <2>13. CASE BookRisk(o)
    <3>1. MovesTo(o, "emit")
      BY <2>13 DEF BookRisk
    <3> QED
      BY <3>1, <1>m, <1>p
  <2>14. CASE Emit(o)
    BY <2>14 DEF OutcomeStep
  <2>15. CASE Release(o)
    <3>1. MovesTo(o, "done")
      BY <2>15 DEF Release
    <3> QED
      BY <3>1, <1>m, <1>p
  <2> QED
    BY <1>2, <2>1, <2>2, <2>3, <2>4, <2>5, <2>6, <2>7, <2>8, <2>9, <2>10, <2>11, <2>12,
       <2>13, <2>14, <2>15 DEF Execute
<1>3. ASSUME NEW o \in Opps, NEW leg \in Legs, VenueAnswers(o, leg) PROVE OutcomeStep
  BY <1>3 DEF VenueAnswers, OutcomeStep
<1>4. ASSUME NEW p, OperatorCall(p) \/ InRiskEngine(p) PROVE OutcomeStep
  BY <1>4 DEF OperatorCall, InRiskEngine, execVars, OutcomeStep
<1>5. CASE Dispatch
  <2>1. Head(oppCh) \in Opps /\ pc[Head(oppCh)] = "queued"
    BY <1>5 DEF Dispatch, QueueInv
  <2>2. MovesTo(Head(oppCh), "spawned")
    BY <1>5, <2>1 DEF Dispatch
  <2> QED
    BY <2>1, <2>2, <1>m, <1>p
<1>6. CASE StopLoop \/ Shutdown \/ Exit
  BY <1>6 DEF StopLoop, Shutdown, Exit, OutcomeStep
<1> QED
  BY <1>1, <1>2, <1>3, <1>4, <1>5, <1>6 DEF Next

\* The outcome is decided before it is published, and published before the
\* mark is deleted.
AnnounceInv ==
    /\ outcome \in [Opps -> Outcome \union {"none"}]
    /\ published \in [Opps -> Seq(Outcome)]
    /\ \A o \in Opps :
          /\ pc[o] \in {"trip", "bookEngine", "bookRisk", "emit"} => outcome[o] \in Outcome
          /\ pc[o] \in {"release", "done"} => published[o] # <<>>
          /\ pc[o] \notin {"release", "done"} => published[o] = <<>>

LEMMA InitAnnounce == Init => AnnounceInv
BY DEF Init, AnnounceInv

LEMMA EmitPublishes ==
    ASSUME AnnounceInv, NEW o \in Opps, Emit(o)
    PROVE  /\ outcome[o] \in Outcome /\ published[o] = <<>>
           /\ published' = [published EXCEPT ![o] = <<outcome[o]>>]
           /\ pc' = [pc EXCEPT ![o] = "release"] /\ UNCHANGED outcome
<1>1. outcome[o] \in Outcome /\ published[o] = <<>> /\ published \in [Opps -> Seq(Outcome)]
  BY DEF AnnounceInv, Emit
<1>2. Append(published[o], outcome[o]) = <<outcome[o]>>
  BY <1>1
<1>3. /\ published' = [published EXCEPT ![o] = Append(@, outcome[o])]
      /\ pc' = [pc EXCEPT ![o] = "release"] /\ UNCHANGED outcome
  BY DEF Emit, Step
<1> QED
  BY <1>1, <1>2, <1>3, Zenon

LEMMA NextAnnounce ==
    pc \in [Opps -> PC] /\ QueueInv /\ AnnounceInv /\ [Next]_vars => AnnounceInv'
<1> SUFFICES ASSUME pc \in [Opps -> PC], QueueInv, AnnounceInv, [Next]_vars
             PROVE  AnnounceInv'
  OBVIOUS
<1>1. CASE UNCHANGED <<pc, outcome, published>>
  BY <1>1 DEF AnnounceInv
<1>2. ASSUME NEW o \in Opps, NEW to \in PC,
             Moves(pc[o], to), Step(o, to), UNCHANGED <<outcome, published>>
      PROVE  AnnounceInv'
  BY <1>2 DEF AnnounceInv, Moves, Step
<1>3. ASSUME NEW o \in Opps, NEW to \in PC, NEW out \in Outcome,
             Decides(pc[o], to, out), Step(o, to), Decide(o, out), UNCHANGED published
      PROVE  AnnounceInv'
  BY <1>3 DEF AnnounceInv, Decides, Step, Decide
<1>4. ASSUME NEW o \in Opps, Emit(o) PROVE AnnounceInv'
  <2>1. <<outcome[o]>> \in Seq(Outcome) /\ <<outcome[o]>> # <<>>
    BY <1>4, EmitPublishes
  <2>2. \A q \in Opps : q # o => pc'[q] = pc[q] /\ published'[q] = published[q]
    BY <1>4, EmitPublishes DEF AnnounceInv
  <2>3. pc'[o] = "release" /\ published'[o] = <<outcome[o]>> /\ outcome' = outcome
    BY <1>4, EmitPublishes DEF AnnounceInv
  <2>4. published' \in [Opps -> Seq(Outcome)]
    BY <1>4, <2>1, EmitPublishes DEF AnnounceInv
  <2> QED
    BY <2>1, <2>2, <2>3, <2>4 DEF AnnounceInv
<1> QED
  BY <1>1, <1>2, <1>3, <1>4, NextOutcomeStep DEF OutcomeStep

LEMMA InitLifecycle == Init => Lifecycle!Init
<1>1. StatusOf("detected") = "waiting"
  BY DEF StatusOf, Waiting, Holding
<1> QED
  BY <1>1 DEF Init, Lifecycle!Init

\* A step of the engine is a step of the lifecycle, or a stutter.
LEMMA NextLifecycle ==
    GuardInv /\ AnnounceInv /\ [Next]_vars => [Lifecycle!Next]_(Lifecycle!lifecycle)
<1> SUFFICES ASSUME GuardInv, AnnounceInv, [Next]_vars
             PROVE  [Lifecycle!Next]_(Lifecycle!lifecycle)
  OBVIOUS
<1> DEFINE Status == [o \in Opps |-> StatusOf(pc[o])]
<1>0. GuardInv' /\ pc \in [Opps -> PC]
  BY NextGuard DEF GuardInv
<1>s. /\ \A point \in Waiting : StatusOf(point) = "waiting"
      /\ \A point \in {"dropped", "skipped"} : StatusOf(point) = "turnedAway"
      /\ \A point \in Holding : StatusOf(point) = "open"
      /\ StatusOf("done") = "closed"
      /\ \A point \in PC : StatusOf(point) = "open" => point \in Holding
  BY DEF StatusOf, Waiting, Holding, PC
<1>1. CASE UNCHANGED <<pc, outcome, published>>
  BY <1>1 DEF Lifecycle!lifecycle
<1>2. ASSUME NEW o \in Opps, NEW to \in PC, pc[o] \in PC, Step(o, to)
      PROVE  Status' = [Status EXCEPT ![o] = StatusOf(to)]
  BY <1>0, <1>2 DEF Step
<1>3. ASSUME NEW o \in Opps, NEW to \in PC,
             Moves(pc[o], to), Step(o, to), UNCHANGED <<outcome, published>>
      PROVE  [Lifecycle!Next]_(Lifecycle!lifecycle)
  <2>1. Status' = [Status EXCEPT ![o] = StatusOf(to)] /\ Status[o] = StatusOf(pc[o])
    BY <1>0, <1>2, <1>3
  <2>2. CASE StatusOf(to) = StatusOf(pc[o])
    <3>1. Status' = Status
      BY <2>1, <2>2
    <3> QED
      BY <1>3, <3>1 DEF Lifecycle!lifecycle
  <2>3. CASE to \in {"dropped", "skipped"}
    <3>1. StatusOf(pc[o]) = "waiting" /\ StatusOf(to) = "turnedAway"
      BY <1>3, <1>s, <2>3 DEF Moves, Waiting
    <3>2. Lifecycle!TurnAway(o)
      BY <1>3, <2>1, <3>1 DEF Lifecycle!TurnAway
    <3> QED
      BY <3>2 DEF Lifecycle!Next
  <2>4. CASE to = "validate"
    <3>1. StatusOf(pc[o]) = "waiting" /\ StatusOf(to) = "open"
      BY <1>3, <1>s, <2>4 DEF Moves, Waiting, Holding
    <3>2. \A other \in Opps : SymbolOf[other] = SymbolOf[o] => Status[other] # "open"
      <4> SUFFICES ASSUME NEW other \in Opps, SymbolOf[other] = SymbolOf[o], Status[other] = "open"
                   PROVE  FALSE
        OBVIOUS
      <4>1. pc[other] \in Holding /\ other # o
        BY <1>0, <1>s, <3>1
      <4>2. pc'[other] \in Holding /\ pc'[o] \in Holding
        BY <1>0, <1>3, <2>4, <4>1 DEF Step, Holding
      <4> QED
        BY <1>0, <4>1, <4>2 DEF GuardInv, MarkInv, OneInFlightPerSymbol
    <3>3. Lifecycle!Open(o)
      BY <1>3, <2>1, <3>1, <3>2 DEF Lifecycle!Open
    <3> QED
      BY <3>3 DEF Lifecycle!Next
  <2>5. CASE to = "done"
    <3>1. StatusOf(pc[o]) = "open" /\ StatusOf(to) = "closed" /\ pc[o] = "release"
      BY <1>3, <1>s, <2>5 DEF Moves, Holding
    <3>2. published[o] # <<>>
      BY <3>1 DEF AnnounceInv
    <3>3. Lifecycle!Close(o)
      BY <1>3, <2>1, <3>1, <3>2 DEF Lifecycle!Close
    <3> QED
      BY <3>3 DEF Lifecycle!Next
  <2>6. StatusOf(to) = StatusOf(pc[o]) \/ to \in {"dropped", "skipped", "validate", "done"}
    BY <1>3, <1>s DEF Moves, Waiting, Holding
  <2> QED
    BY <2>2, <2>3, <2>4, <2>5, <2>6
<1>4. ASSUME NEW o \in Opps, NEW to \in PC, NEW out \in Outcome,
             Decides(pc[o], to, out), Step(o, to), Decide(o, out), UNCHANGED published
      PROVE  [Lifecycle!Next]_(Lifecycle!lifecycle)
  <2>1. StatusOf(to) = StatusOf(pc[o])
    BY <1>4, <1>s DEF Decides, Holding
  <2>2. Status' = Status
    BY <1>0, <1>2, <1>4, <2>1
  <2> QED
    BY <1>4, <2>2 DEF Lifecycle!lifecycle
<1>5. ASSUME NEW o \in Opps, Emit(o) PROVE [Lifecycle!Next]_(Lifecycle!lifecycle)
  <2>1. /\ outcome[o] \in Outcome /\ published[o] = <<>>
        /\ published' = [published EXCEPT ![o] = <<outcome[o]>>]
        /\ Step(o, "release") /\ pc[o] = "emit"
    BY <1>5, EmitPublishes DEF Emit
  <2>2. StatusOf("release") = "open" /\ StatusOf("emit") = "open" /\ "release" \in PC
    BY <1>s DEF Holding, PC
  <2>3. Status' = Status /\ Status[o] = "open"
    BY <1>0, <1>2, <2>1, <2>2
  <2>4. Lifecycle!Announce(o, outcome[o])
    BY <2>1, <2>3 DEF Lifecycle!Announce
  <2> QED
    BY <2>1, <2>4 DEF Lifecycle!Next
<1> QED
  BY <1>1, <1>3, <1>4, <1>5, NextOutcomeStep DEF OutcomeStep, GuardInv

\* The engine implements ArbLifecycle: an opportunity opens only while its
\* symbol is free, exactly one outcome is published for it while it is open,
\* and only then does it close.
THEOREM ImplementsLifecycle == Spec => RefinesLifecycle
<1>1. GuardInv /\ AnnounceInv /\ [Next]_vars => AnnounceInv'
  BY NextAnnounce DEF GuardInv
<1> QED
  BY <1>1, InitGuard, NextGuard, InitAnnounce, InitLifecycle, NextLifecycle, PTL
     DEF Spec, RefinesLifecycle, Lifecycle!Spec

-------------------------------------------------------------------------------
(* The orders of an execution *)

OrderType ==
    [status : {"none", "sent", "answered"}, qty : Nat, executed : Nat,
     filled : BOOLEAN, reported : Nat]

ResultType == [filled : BOOLEAN, qty : Nat, from : {"none", "answer", "timeout", "cancelled"}]

TradeTypes ==
    /\ order \in [Opps -> [Legs -> OrderType]]
    /\ result \in [Opps -> [Legs -> ResultType]]
    /\ outcome \in [Opps -> Outcome \union {"none"}]
    /\ pc \in [Opps -> PC]
    /\ \A o \in Opps, leg \in Legs :
          /\ order[o][leg].executed <= order[o][leg].qty
          /\ order[o][leg].reported <= order[o][leg].executed

Asked(o, leg) == order[o][leg].qty
Got(o, leg)   == result[o][leg].qty

\* The points before an outcome is decided.
Undecided == Waiting \union {"dropped", "skipped", "validate", "leg1", "leg2", "reverse"}

\* What is settled at each point of executing o.
Flow(o) ==
    /\ Got(o, "leg1") <= Asked(o, "leg1") /\ Asked(o, "leg1") <= Quantity[o]
    /\ Got(o, "leg2") <= Asked(o, "leg2") /\ Asked(o, "leg2") <= Got(o, "leg1")
    /\ Got(o, "reverse") <= Asked(o, "reverse")
    /\ Got(o, "leg2") + Asked(o, "reverse") <= Got(o, "leg1")
    /\ pc[o] \in Undecided <=> outcome[o] = "none"
    /\ pc[o] \in Undecided \ {"leg2", "reverse"} => Got(o, "leg1") = 0
    /\ pc[o] \in Undecided \ {"leg1", "leg2", "reverse"} => Asked(o, "leg1") = 0
    /\ pc[o] = "leg2" =>
          /\ Got(o, "leg2") = 0 /\ Asked(o, "reverse") = 0
          /\ Asked(o, "leg2") = Got(o, "leg1")
    /\ pc[o] = "reverse" =>
          Got(o, "reverse") = 0 /\ Got(o, "leg2") + Asked(o, "reverse") = Got(o, "leg1")
    /\ pc[o] \in {"bookEngine", "bookRisk"} => outcome[o] \in {"CLEAN", "REVERSED"}
    /\ outcome[o] = "RISK_REJECTED" => Got(o, "leg1") = 0
    /\ outcome[o] = "MISSED" =>
          /\ Asked(o, "leg2") = 0 /\ Asked(o, "reverse") = 0
          /\ ~result[o]["leg1"].filled \/ Got(o, "leg1") = 0
    /\ outcome[o] = "CLEAN" => Got(o, "leg2") = Got(o, "leg1") /\ Asked(o, "reverse") = 0
    /\ outcome[o] = "REVERSED" => Got(o, "leg2") + Got(o, "reverse") = Got(o, "leg1")

FlowInv == TradeTypes /\ \A o \in Opps : Flow(o)

-------------------------------------------------------------------------------
LEMMA ResultUpdate ==
    ASSUME TradeTypes, NEW o \in Opps, NEW leg \in Legs, NEW x \in ResultType,
           result' = [result EXCEPT ![o][leg] = x]
    PROVE  /\ result' \in [Opps -> [Legs -> ResultType]]
           /\ result'[o][leg] = x
           /\ \A l \in Legs : l # leg => result'[o][l] = result[o][l]
           /\ \A q \in Opps : q # o => result'[q] = result[q]
BY DEF TradeTypes

\* An order as submitIOC sends it.
LEMMA SentType ==
    ASSUME NEW qty \in Nat
    PROVE  /\ Sent(qty) \in OrderType
           /\ Sent(qty).qty = qty /\ Sent(qty).executed = 0 /\ Sent(qty).reported = 0
BY DEF Sent, NotSent, OrderType

\* What a submission changes.
LEMMA SentUpdate ==
    ASSUME TradeTypes, NEW o \in Opps, NEW leg \in Legs, NEW qty \in Nat,
           order' = [order EXCEPT ![o][leg] = Sent(qty)]
    PROVE  /\ order' \in [Opps -> [Legs -> OrderType]]
           /\ \A q \in Opps, l \in Legs :
                 /\ order'[q][l].executed <= order'[q][l].qty
                 /\ order'[q][l].reported <= order'[q][l].executed
           /\ Asked(o, leg)' = qty
           /\ \A l \in Legs : l # leg => Asked(o, l)' = Asked(o, l)
           /\ \A q \in Opps : q # o => order'[q] = order[q]
<1>1. PICK x \in OrderType :
         /\ x.qty = qty /\ x.executed = 0 /\ x.reported = 0
         /\ order' = [order EXCEPT ![o][leg] = x]
  BY SentType
<1>2. /\ order' \in [Opps -> [Legs -> OrderType]]
      /\ order'[o][leg] = x
      /\ \A l \in Legs : l # leg => order'[o][l] = order[o][l]
      /\ \A q \in Opps : q # o => order'[q] = order[q]
  BY <1>1 DEF TradeTypes
<1>3. ASSUME NEW q \in Opps, NEW l \in Legs
      PROVE  /\ order'[q][l].executed <= order'[q][l].qty
             /\ order'[q][l].reported <= order'[q][l].executed
  <2>1. CASE q = o /\ l = leg
    <3>1. order'[q][l] = x /\ 0 <= qty /\ 0 <= 0
      BY <1>2, <2>1
    <3> QED
      BY <1>1, <3>1
  <2>2. CASE order'[q][l] = order[q][l]
    BY <2>2 DEF TradeTypes
  <2> QED
    BY <1>2, <2>1, <2>2
<1> QED
  BY <1>1, <1>2, <1>3 DEF Asked

\* submitIOC returns no more than was asked.
LEMMA ResultsType ==
    ASSUME TradeTypes, NEW o \in Opps, NEW leg \in Legs, NEW r \in Results(o, leg)
    PROVE  r \in ResultType /\ r.qty <= Asked(o, leg)
<1>1. order[o][leg] \in OrderType /\ order[o][leg].reported <= order[o][leg].qty
  BY DEF TradeTypes, OrderType
<1>2. \/ \E why \in {"timeout", "cancelled"} : r = [filled |-> FALSE, qty |-> 0, from |-> why]
      \/ r = [filled |-> order[o][leg].filled, qty |-> order[o][leg].reported, from |-> "answer"]
  BY DEF Results
<1>3. CASE \E why \in {"timeout", "cancelled"} : r = [filled |-> FALSE, qty |-> 0, from |-> why]
  BY <1>1, <1>3 DEF ResultType, OrderType, Asked
<1>4. CASE r = [filled |-> order[o][leg].filled, qty |-> order[o][leg].reported, from |-> "answer"]
  BY <1>1, <1>4 DEF ResultType, OrderType, Asked
<1> QED
  BY <1>2, <1>3, <1>4

\* An opportunity that a step does not touch keeps its flow.
LEMMA FlowFrame ==
    ASSUME NEW q \in Opps, Flow(q), order'[q] = order[q], result'[q] = result[q],
           pc'[q] = pc[q], outcome'[q] = outcome[q]
    PROVE  Flow(q)'
BY DEF Flow, Asked, Got

LEMMA InitFlow == Init => FlowInv
<1> SUFFICES ASSUME Init PROVE FlowInv
  OBVIOUS
<1>1. NotSent \in OrderType /\ NoResult \in ResultType
  BY DEF NotSent, OrderType, NoResult, ResultType
<1>2. TradeTypes
  BY <1>1 DEF Init, TradeTypes, NotSent, PC, Waiting
<1>3. ASSUME NEW o \in Opps PROVE Flow(o)
  <2>1. Quantity[o] \in Nat
    BY ExecutionAssumption
  <2>2. \A leg \in Legs : Asked(o, leg) = 0 /\ Got(o, leg) = 0
    BY DEF Init, Asked, Got, NotSent, NoResult
  <2>3. pc[o] = "detected" /\ outcome[o] = "none"
    BY DEF Init
  <2> QED
    BY <2>1, <2>2, <2>3 DEF Flow, Legs, Undecided, Waiting
<1> QED
  BY <1>2, <1>3 DEF FlowInv

\* One opportunity moved, the trade of the others is as it was.
Others(o) == \A q \in Opps : q # o =>
    order'[q] = order[q] /\ result'[q] = result[q] /\ pc'[q] = pc[q] /\ outcome'[q] = outcome[q]

\* It is enough that a step keeps the types and the flow of what it moves.
LEMMA FlowStep ==
    ASSUME FlowInv, TradeTypes', NEW o \in Opps, Others(o), Flow(o)'
    PROVE  FlowInv'
<1>1. ASSUME NEW q \in Opps, q # o PROVE Flow(q)'
  BY <1>1, FlowFrame DEF FlowInv, Others
<1> QED
  BY <1>1 DEF FlowInv

\* The points before leg 1 is sent.
Early == Undecided \ {"leg1", "leg2", "reverse"}

\* A step that only moves a goroutine, before leg 1 or after the outcome.
LEMMA FlowMove ==
    ASSUME FlowInv, NEW o \in Opps, NEW to \in PC, Step(o, to),
           UNCHANGED <<order, result, outcome>>,
           \/ pc[o] \in Early /\ to \in Early
           \/ pc[o] \notin Undecided /\ to \notin Undecided \union {"bookEngine", "bookRisk"}
           \/ pc[o] = "bookEngine" /\ to = "bookRisk"
    PROVE  FlowInv'
<1>1. TradeTypes'
  BY DEF FlowInv, TradeTypes, Step
<1>2. Others(o) /\ pc'[o] = to /\ Flow(o)
  BY DEF FlowInv, TradeTypes, Step, Others
<1>3. Flow(o)'
  BY <1>2 DEF Flow, Asked, Got, Early, Undecided, Waiting
<1> QED
  BY <1>1, <1>2, <1>3, FlowStep

\* A step that decides the outcome without an order or a result.
LEMMA FlowReject ==
    ASSUME FlowInv, NEW o \in Opps, RiskRejected(o)
    PROVE  FlowInv'
<1>1. /\ pc[o] = "validate" /\ UNCHANGED <<order, result>>
      /\ pc' = [pc EXCEPT ![o] = "emit"]
      /\ outcome' = [outcome EXCEPT ![o] = "RISK_REJECTED"]
  BY DEF RiskRejected, Step, Decide
<1>2. Others(o) /\ pc'[o] = "emit" /\ outcome'[o] = "RISK_REJECTED" /\ Flow(o)
  BY <1>1 DEF FlowInv, TradeTypes, Others
<1>3. TradeTypes'
  BY <1>1 DEF FlowInv, TradeTypes, PC, Holding, Outcome
<1>4. Flow(o)'
  BY <1>1, <1>2 DEF Flow, Asked, Got, Undecided, Waiting
<1> QED
  BY <1>2, <1>3, <1>4, FlowStep

LEMMA FlowLeg1 ==
    ASSUME FlowInv, NEW o \in Opps, SubmitLeg1(o)
    PROVE  FlowInv'
<1>0. Quantity[o] \in Nat
  BY ExecutionAssumption
<1>1. /\ pc[o] = "validate" /\ UNCHANGED <<result, outcome>>
      /\ pc' = [pc EXCEPT ![o] = "leg1"]
      /\ order' = [order EXCEPT ![o]["leg1"] = Sent(Quantity[o])]
      /\ TradeTypes /\ Flow(o)
  BY DEF SubmitLeg1, Step, FlowInv
<1>2. /\ order' \in [Opps -> [Legs -> OrderType]]
      /\ \A q \in Opps, l \in Legs :
            /\ order'[q][l].executed <= order'[q][l].qty
            /\ order'[q][l].reported <= order'[q][l].executed
      /\ Asked(o, "leg1")' = Quantity[o]
      /\ \A l \in Legs : l # "leg1" => Asked(o, l)' = Asked(o, l)
      /\ \A q \in Opps : q # o => order'[q] = order[q]
  <2>1. "leg1" \in Legs
    BY DEF Legs
  <2> QED
    BY <1>0, <1>1, <2>1, SentUpdate
<1>3. Others(o) /\ pc'[o] = "leg1"
  BY <1>1, <1>2 DEF TradeTypes, Others
<1>4. TradeTypes'
  BY <1>1, <1>2 DEF TradeTypes, PC, Holding
<1>5. Flow(o)'
  <2>1. /\ \A l \in Legs : Got(o, l)' = Got(o, l)
        /\ Asked(o, "leg2")' = Asked(o, "leg2") /\ Asked(o, "reverse")' = Asked(o, "reverse")
    BY <1>1, <1>2 DEF Got, Legs
  <2> QED
    BY <1>0, <1>1, <1>2, <1>3, <2>1 DEF Flow, Undecided, Waiting, Legs
<1> QED
  BY <1>3, <1>4, <1>5, FlowStep

\* submitIOC returned r for leg: the result is recorded, and is no more than
\* was asked.
LEMMA Returned ==
    ASSUME TradeTypes, NEW o \in Opps, NEW leg \in Legs, NEW r \in Results(o, leg),
           result' = [result EXCEPT ![o][leg] = r]
    PROVE  /\ result' \in [Opps -> [Legs -> ResultType]]
           /\ result'[o][leg] = r
           /\ r.qty \in Nat /\ r.filled \in BOOLEAN /\ r.qty <= Asked(o, leg)
           /\ \A l \in Legs : l # leg => result'[o][l] = result[o][l]
           /\ \A q \in Opps : q # o => result'[q] = result[q]
<1>1. r \in ResultType /\ r.qty <= Asked(o, leg)
  BY ResultsType
<1>2. r.qty \in Nat /\ r.filled \in BOOLEAN
  BY <1>1 DEF ResultType
<1> QED
  BY <1>1, <1>2, ResultUpdate

\* The quantities of the flow are natural numbers.
LEMMA Amounts ==
    ASSUME TradeTypes, NEW o \in Opps, NEW leg \in Legs
    PROVE  Asked(o, leg) \in Nat /\ Got(o, leg) \in Nat
BY DEF TradeTypes, OrderType, ResultType, Asked, Got

LEMMA FlowMissed ==
    ASSUME FlowInv, NEW o \in Opps, Leg1Missed(o)
    PROVE  FlowInv'
<1>1. PICK r \in Results(o, "leg1") :
         (~r.filled \/ r.qty <= 0) /\ result' = [result EXCEPT ![o]["leg1"] = r]
  BY DEF Leg1Missed
<1>2. /\ pc[o] = "leg1" /\ UNCHANGED order /\ TradeTypes /\ Flow(o)
      /\ pc' = [pc EXCEPT ![o] = "emit"]
      /\ outcome' = [outcome EXCEPT ![o] = "MISSED"]
  BY DEF Leg1Missed, Step, Decide, FlowInv
<1>3. /\ result' \in [Opps -> [Legs -> ResultType]]
      /\ result'[o]["leg1"] = r
      /\ r.qty \in Nat /\ r.filled \in BOOLEAN /\ r.qty <= Asked(o, "leg1")
      /\ \A l \in Legs : l # "leg1" => result'[o][l] = result[o][l]
      /\ \A q \in Opps : q # o => result'[q] = result[q]
  <2>1. "leg1" \in Legs
    BY DEF Legs
  <2> QED
    BY <1>1, <1>2, <2>1, Returned
<1>4. TradeTypes'
  BY <1>2, <1>3 DEF TradeTypes, PC, Holding, Outcome
<1>5. Others(o) /\ pc'[o] = "emit" /\ outcome'[o] = "MISSED"
  BY <1>2, <1>3 DEF TradeTypes, Others
<1>6. \A leg \in Legs : Asked(o, leg) \in Nat /\ Got(o, leg) \in Nat
  BY <1>2, Amounts
<1>7. Flow(o)'
  <2>1. /\ Got(o, "leg1") = 0 /\ Got(o, "leg2") = 0 /\ Got(o, "reverse") = 0
        /\ Asked(o, "leg2") = 0 /\ Asked(o, "reverse") = 0
        /\ Asked(o, "leg1") <= Quantity[o]
    BY <1>2, <1>6 DEF Flow, Undecided, Legs
  <2>2. /\ Got(o, "leg1")' = r.qty /\ result'[o]["leg1"].filled = r.filled
        /\ \A l \in {"leg2", "reverse"} : Got(o, l)' = 0 /\ Asked(o, l)' = 0
        /\ Asked(o, "leg1")' = Asked(o, "leg1")
    BY <1>2, <1>3, <2>1 DEF Asked, Got, Legs
  <2> QED
    BY <1>1, <1>3, <1>5, <2>1, <2>2 DEF Flow, Undecided, Waiting
<1> QED
  BY <1>4, <1>5, <1>7, FlowStep

LEMMA FlowFilled ==
    ASSUME FlowInv, NEW o \in Opps, Leg1Filled(o)
    PROVE  FlowInv'
<1>1. PICK r \in Results(o, "leg1"), next \in {"leg2", "reverse"} :
         /\ result' = [result EXCEPT ![o]["leg1"] = r]
         /\ order' = [order EXCEPT ![o][next] = Sent(r.qty)]
         /\ Step(o, next)
  BY DEF Leg1Filled, Leg2Quantity
<1>2. /\ pc[o] = "leg1" /\ UNCHANGED outcome /\ TradeTypes /\ Flow(o)
      /\ pc' = [pc EXCEPT ![o] = next]
  BY <1>1 DEF Leg1Filled, Step, FlowInv
<1>3. /\ result' \in [Opps -> [Legs -> ResultType]]
      /\ result'[o]["leg1"] = r
      /\ r.qty \in Nat /\ r.qty <= Asked(o, "leg1")
      /\ \A l \in Legs : l # "leg1" => result'[o][l] = result[o][l]
      /\ \A q \in Opps : q # o => result'[q] = result[q]
  <2>1. "leg1" \in Legs
    BY DEF Legs
  <2> QED
    BY <1>1, <1>2, <2>1, Returned
<1>4. /\ order' \in [Opps -> [Legs -> OrderType]]
      /\ \A q \in Opps, l \in Legs :
            /\ order'[q][l].executed <= order'[q][l].qty
            /\ order'[q][l].reported <= order'[q][l].executed
      /\ Asked(o, next)' = r.qty
      /\ \A l \in Legs : l # next => Asked(o, l)' = Asked(o, l)
      /\ \A q \in Opps : q # o => order'[q] = order[q]
  <2>1. next \in Legs
    BY DEF Legs
  <2> QED
    BY <1>1, <1>2, <1>3, <2>1, SentUpdate
<1>5. TradeTypes'
  BY <1>2, <1>3, <1>4 DEF TradeTypes, PC, Holding
<1>6. Others(o) /\ pc'[o] = next
  BY <1>2, <1>3, <1>4 DEF TradeTypes, Others
<1>7. \A leg \in Legs : Asked(o, leg) \in Nat /\ Got(o, leg) \in Nat
  BY <1>2, Amounts
<1>8. Flow(o)'
  <2>1. /\ Got(o, "leg1") = 0 /\ Got(o, "leg2") = 0 /\ Got(o, "reverse") = 0
        /\ Asked(o, "leg2") = 0 /\ Asked(o, "reverse") = 0 /\ outcome[o] = "none"
        /\ Asked(o, "leg1") <= Quantity[o]
    BY <1>2, <1>7 DEF Flow, Undecided, Legs
  <2>2. /\ Got(o, "leg1")' = r.qty /\ Got(o, "leg2")' = 0 /\ Got(o, "reverse")' = 0
        /\ Asked(o, "leg1")' = Asked(o, "leg1")
        /\ Asked(o, next)' = r.qty
        /\ \A l \in {"leg2", "reverse"} : l # next => Asked(o, l)' = 0
    BY <1>3, <1>4, <2>1 DEF Got, Legs
  <2> QED
    BY <1>2, <1>3, <1>6, <2>1, <2>2 DEF Flow, Undecided, Waiting
<1> QED
  BY <1>5, <1>6, <1>8, FlowStep

\* What leg 2 leaves to reverse fits, with it, in what leg 1 reported.
LEMMA ResidualFits ==
    ASSUME NEW qty1 \in Nat, NEW qty2 \in Nat, qty2 <= qty1
    PROVE  Residual(qty1, qty2) \in Nat /\ qty2 + Residual(qty1, qty2) = qty1
BY DEF Residual

LEMMA FlowLeg2 ==
    ASSUME FlowInv, NEW o \in Opps, Leg2Returns(o)
    PROVE  FlowInv'
<1>1. PICK r \in Results(o, "leg2") :
         /\ result' = [result EXCEPT ![o]["leg2"] = r]
         /\ \/ /\ Complete(r, order[o]["leg2"].qty)
               /\ Decide(o, "CLEAN") /\ Step(o, "bookEngine") /\ UNCHANGED order
            \/ /\ order' = [order EXCEPT ![o]["reverse"] =
                               Sent(Residual(result[o]["leg1"].qty, r.qty))]
               /\ Step(o, "reverse") /\ UNCHANGED outcome
  BY DEF Leg2Returns
<1>2. pc[o] = "leg2" /\ TradeTypes /\ Flow(o)
  BY DEF Leg2Returns, FlowInv
<1>3. /\ result' \in [Opps -> [Legs -> ResultType]]
      /\ result'[o]["leg2"] = r
      /\ r.qty \in Nat /\ r.qty <= Asked(o, "leg2")
      /\ \A l \in Legs : l # "leg2" => result'[o][l] = result[o][l]
      /\ \A q \in Opps : q # o => result'[q] = result[q]
  <2>1. "leg2" \in Legs
    BY DEF Legs
  <2> QED
    BY <1>1, <1>2, <2>1, Returned
<1>4. \A leg \in Legs : Asked(o, leg) \in Nat /\ Got(o, leg) \in Nat
  BY <1>2, Amounts
<1>5. /\ Got(o, "leg2") = 0 /\ Asked(o, "reverse") = 0 /\ Got(o, "reverse") = 0
      /\ Asked(o, "leg2") = Got(o, "leg1") /\ outcome[o] = "none"
      /\ Got(o, "leg1") <= Asked(o, "leg1") /\ Asked(o, "leg1") <= Quantity[o]
  BY <1>2, <1>4 DEF Flow, Undecided, Legs
<1>6. /\ Got(o, "leg1")' = Got(o, "leg1") /\ Got(o, "leg2")' = r.qty /\ Got(o, "reverse")' = 0
      /\ Got(o, "leg1") \in Nat /\ r.qty <= Got(o, "leg1")
  BY <1>3, <1>4, <1>5 DEF Got, Legs
<1>7. CASE /\ Complete(r, order[o]["leg2"].qty)
           /\ Decide(o, "CLEAN") /\ Step(o, "bookEngine") /\ UNCHANGED order
  <2>1. r.qty = Got(o, "leg1") /\ Asked(o, "leg1")' = Asked(o, "leg1")
        /\ Asked(o, "leg2")' = Asked(o, "leg2") /\ Asked(o, "reverse")' = 0
    <3>1. /\ \A l \in Legs : Asked(o, l)' = Asked(o, l)
          /\ r.qty >= Asked(o, "leg2")
      BY <1>7 DEF Complete, Asked
    <3> QED
      BY <1>3, <1>5, <1>6, <3>1 DEF Legs
  <2>2. Others(o) /\ pc'[o] = "bookEngine" /\ outcome'[o] = "CLEAN"
    BY <1>2, <1>3, <1>7 DEF TradeTypes, Others, Step, Decide
  <2>3. TradeTypes'
    BY <1>2, <1>3, <1>7 DEF TradeTypes, Step, Decide, PC, Holding, Outcome
  <2>4. Flow(o)'
    BY <1>5, <1>6, <2>1, <2>2 DEF Flow, Undecided, Waiting
  <2> QED
    BY <2>2, <2>3, <2>4, FlowStep
<1>8. CASE /\ order' = [order EXCEPT ![o]["reverse"] =
                           Sent(Residual(result[o]["leg1"].qty, r.qty))]
           /\ Step(o, "reverse") /\ UNCHANGED outcome
  <2>1. PICK qty \in Nat : /\ r.qty + qty = Got(o, "leg1")
                           /\ order' = [order EXCEPT ![o]["reverse"] = Sent(qty)]
    BY <1>3, <1>6, <1>8, ResidualFits DEF Got
  <2>2. /\ order' \in [Opps -> [Legs -> OrderType]]
        /\ \A q \in Opps, l \in Legs :
              /\ order'[q][l].executed <= order'[q][l].qty
              /\ order'[q][l].reported <= order'[q][l].executed
        /\ Asked(o, "reverse")' = qty
        /\ \A l \in Legs : l # "reverse" => Asked(o, l)' = Asked(o, l)
        /\ \A q \in Opps : q # o => order'[q] = order[q]
    <3>1. "reverse" \in Legs
      BY DEF Legs
    <3> QED
      BY <1>2, <2>1, <3>1, SentUpdate
  <2>3. Others(o) /\ pc'[o] = "reverse" /\ outcome' = outcome
    BY <1>2, <1>3, <1>8, <2>2 DEF TradeTypes, Others, Step
  <2>4. TradeTypes'
    BY <1>2, <1>3, <1>8, <2>2 DEF TradeTypes, Step, PC, Holding
  <2>5. Asked(o, "leg1")' = Asked(o, "leg1") /\ Asked(o, "leg2")' = Asked(o, "leg2")
    BY <2>2 DEF Legs
  <2>6. Flow(o)'
    BY <1>5, <1>6, <2>1, <2>2, <2>3, <2>5 DEF Flow, Undecided, Waiting
  <2> QED
    BY <2>3, <2>4, <2>6, FlowStep
<1> QED
  BY <1>1, <1>7, <1>8

\* The reversal returned: what it reports is all that is left to settle.
LEMMA FlowReturned ==
    ASSUME FlowInv, NEW o \in Opps, pc[o] = "reverse",
           NEW r \in Results(o, "reverse"),
           result' = [result EXCEPT ![o]["reverse"] = r],
           UNCHANGED order,
           \/ Complete(r, order[o]["reverse"].qty) /\ Decide(o, "REVERSED") /\ Step(o, "bookEngine")
           \/ Decide(o, "KILL_SWITCH") /\ Step(o, "trip")
    PROVE  FlowInv'
<1>1. TradeTypes /\ Flow(o)
  BY DEF FlowInv
<1>2. /\ result' \in [Opps -> [Legs -> ResultType]]
      /\ result'[o]["reverse"] = r
      /\ r.qty \in Nat /\ r.qty <= Asked(o, "reverse")
      /\ \A l \in Legs : l # "reverse" => result'[o][l] = result[o][l]
      /\ \A q \in Opps : q # o => result'[q] = result[q]
  <2>1. "reverse" \in Legs
    BY DEF Legs
  <2> QED
    BY <1>1, <2>1, Returned
<1>3. \A leg \in Legs : Asked(o, leg) \in Nat /\ Got(o, leg) \in Nat
  BY <1>1, Amounts
<1>4. /\ Got(o, "leg1") <= Asked(o, "leg1") /\ Asked(o, "leg1") <= Quantity[o]
      /\ Got(o, "leg2") <= Asked(o, "leg2") /\ Asked(o, "leg2") <= Got(o, "leg1")
      /\ Got(o, "leg2") + Asked(o, "reverse") = Got(o, "leg1")
  BY <1>1 DEF Flow
<1>5. /\ Got(o, "leg1")' = Got(o, "leg1") /\ Got(o, "leg2")' = Got(o, "leg2")
      /\ Got(o, "reverse")' = r.qty
      /\ \A l \in Legs : Asked(o, l)' = Asked(o, l)
  BY <1>2 DEF Asked, Got, Legs
<1>6. CASE Complete(r, order[o]["reverse"].qty) /\ Decide(o, "REVERSED") /\ Step(o, "bookEngine")
  <2>1. r.qty = Asked(o, "reverse")
    <3>1. r.qty >= Asked(o, "reverse")
      BY <1>6 DEF Complete, Asked
    <3> QED
      BY <1>2, <1>3, <3>1 DEF Legs
  <2>2. Others(o) /\ pc'[o] = "bookEngine" /\ outcome'[o] = "REVERSED"
    BY <1>1, <1>2, <1>6 DEF TradeTypes, Others, Step, Decide
  <2>3. TradeTypes'
    BY <1>1, <1>2, <1>6 DEF TradeTypes, Step, Decide, PC, Holding, Outcome
  <2>4. Flow(o)'
    BY <1>3, <1>4, <1>5, <2>1, <2>2 DEF Flow, Undecided, Waiting, Legs
  <2> QED
    BY <2>2, <2>3, <2>4, FlowStep
<1>7. CASE Decide(o, "KILL_SWITCH") /\ Step(o, "trip")
  <2>1. Others(o) /\ pc'[o] = "trip" /\ outcome'[o] = "KILL_SWITCH"
    BY <1>1, <1>2, <1>7 DEF TradeTypes, Others, Step, Decide
  <2>2. TradeTypes'
    BY <1>1, <1>2, <1>7 DEF TradeTypes, Step, Decide, PC, Holding, Outcome
  <2>3. Flow(o)'
    BY <1>2, <1>3, <1>4, <1>5, <2>1 DEF Flow, Undecided, Waiting, Legs
  <2> QED
    BY <2>1, <2>2, <2>3, FlowStep
<1> QED
  BY <1>6, <1>7

\* A venue's answer changes what is known of an order, not what was asked.
LEMMA FlowAnswer ==
    ASSUME FlowInv, NEW o \in Opps, NEW leg \in Legs, VenueAnswers(o, leg)
    PROVE  FlowInv'
<1>1. TradeTypes /\ Flow(o) /\ UNCHANGED <<pc, result, outcome>>
  BY DEF FlowInv, VenueAnswers
<1>2. PICK executed \in 0..order[o][leg].qty : \E a \in Answers(order[o][leg].qty, executed) :
         order' = [order EXCEPT ![o][leg] =
                     [status |-> "answered", qty |-> @.qty, executed |-> executed,
                      filled |-> a.filled, reported |-> a.reported]]
  BY DEF VenueAnswers
<1>3. PICK a \in Answers(order[o][leg].qty, executed) :
         order' = [order EXCEPT ![o][leg] =
                     [status |-> "answered", qty |-> @.qty, executed |-> executed,
                      filled |-> a.filled, reported |-> a.reported]]
  BY <1>2
<1>4. order[o][leg].qty \in Nat
  BY <1>1 DEF TradeTypes, OrderType
<1>5. a.filled \in BOOLEAN /\ a.reported \in Nat /\ a.reported <= executed
  <2>1. executed \in Nat /\ executed \in 0..executed
    BY <1>4
  <2>2. \A n \in 0..executed :
           Flagged(n).filled \in BOOLEAN /\ Flagged(n).reported \in Nat /\ Flagged(n).reported <= executed
    BY <2>1 DEF Flagged
  <2>3. CASE \E n \in 0..executed : a = Flagged(n)
    BY <2>2, <2>3
  <2>4. CASE a = [filled |-> FALSE, reported |-> executed]
    BY <2>1, <2>4
  <2>5. \/ a \in ExactAnswers(executed) \/ a \in EarlyAnswers(executed)
        \/ a \in UnflaggedAnswers(order[o][leg].qty, executed)
    BY DEF Answers
  <2>6. a \in ExactAnswers(executed) \/ a \in EarlyAnswers(executed)
           => \E n \in 0..executed : a = Flagged(n)
    BY <2>1 DEF ExactAnswers, EarlyAnswers
  <2>7. a \in UnflaggedAnswers(order[o][leg].qty, executed)
           => a = [filled |-> FALSE, reported |-> executed]
    BY DEF UnflaggedAnswers
  <2> QED
    BY <2>3, <2>4, <2>5, <2>6, <2>7
<1>6. PICK x \in OrderType :
         /\ x.qty = order[o][leg].qty /\ x.executed <= x.qty /\ x.reported <= x.executed
         /\ order' = [order EXCEPT ![o][leg] = x]
  <2> DEFINE y == [status |-> "answered", qty |-> order[o][leg].qty, executed |-> executed,
                   filled |-> a.filled, reported |-> a.reported]
  <2>1. y \in OrderType /\ y.executed <= y.qty /\ y.reported <= y.executed
    BY <1>4, <1>5 DEF OrderType
  <2>2. order' = [order EXCEPT ![o][leg] = y]
    BY <1>1, <1>3 DEF TradeTypes
  <2> QED
    BY <2>1, <2>2
<1>7. /\ order' \in [Opps -> [Legs -> OrderType]]
      /\ \A q \in Opps, l \in Legs : order'[q][l] = order[q][l] \/ order'[q][l] = x
      /\ \A q \in Opps, l \in Legs : order'[q][l].qty = order[q][l].qty
  BY <1>1, <1>6 DEF TradeTypes
<1>8. TradeTypes'
  BY <1>1, <1>6, <1>7 DEF TradeTypes
<1>9. ASSUME NEW q \in Opps PROVE Flow(q)'
  <2>1. \A l \in Legs : Asked(q, l)' = Asked(q, l) /\ Got(q, l)' = Got(q, l)
    BY <1>1, <1>7 DEF Asked, Got
  <2>2. Flow(q)
    BY DEF FlowInv
  <2> QED
    BY <1>1, <2>1, <2>2 DEF Flow, Legs
<1> QED
  BY <1>8, <1>9 DEF FlowInv

LEMMA NextFlow == QueueInv /\ FlowInv /\ [Next]_vars => FlowInv'
<1> SUFFICES ASSUME QueueInv, FlowInv, [Next]_vars PROVE FlowInv'
  OBVIOUS
<1>0. ASSUME UNCHANGED <<pc, order, result, outcome>> PROVE FlowInv'
  BY <1>0, FlowFrame DEF FlowInv, TradeTypes
<1>1. CASE UNCHANGED vars
  BY <1>0, <1>1 DEF vars, execVars
<1>2. ASSUME NEW o \in Opps, Submit(o) \/ Execute(o) PROVE FlowInv'
  <2>m. ASSUME NEW to \in PC, Step(o, to), UNCHANGED <<order, result, outcome>>,
               \/ pc[o] \in Early /\ to \in Early
               \/ pc[o] \notin Undecided /\ to \notin Undecided \union {"bookEngine", "bookRisk"}
               \/ pc[o] = "bookEngine" /\ to = "bookRisk"
        PROVE  FlowInv'
    BY <2>m, FlowMove
  <2> USE DEF PC, Early, Undecided, Waiting, Holding, tradeVars
  <2>1. CASE Submit(o)
    BY <2>1, <2>m DEF Submit
  <2>2. CASE SkipInFlight(o)
    BY <2>2, <2>m DEF SkipInFlight
  <2>3. CASE Acquire(o)
    BY <2>3, <2>m DEF Acquire
  <2>4. CASE RiskRejected(o)
    BY <2>4, FlowReject
  <2>5. CASE SubmitLeg1(o)
    BY <2>5, FlowLeg1
  <2>6. CASE Leg1Missed(o)
    BY <2>6, FlowMissed
  <2>7. CASE Leg1Filled(o)
    BY <2>7, FlowFilled
  <2>8. CASE Leg2Returns(o)
    BY <2>8, FlowLeg2
  <2>9. CASE Reversed(o)
    <3>1. PICK r \in Results(o, "reverse") :
             Complete(r, order[o]["reverse"].qty) /\ result' = [result EXCEPT ![o]["reverse"] = r]
      BY <2>9 DEF Reversed
    <3>2. pc[o] = "reverse" /\ Decide(o, "REVERSED") /\ Step(o, "bookEngine") /\ UNCHANGED order
      BY <2>9 DEF Reversed
    <3> QED
      BY <3>1, <3>2, FlowReturned
  <2>10. CASE ReverseFailed(o)
    <3>1. PICK r \in Results(o, "reverse") : result' = [result EXCEPT ![o]["reverse"] = r]
      BY <2>10 DEF ReverseFailed
    <3>2. pc[o] = "reverse" /\ Decide(o, "KILL_SWITCH") /\ Step(o, "trip") /\ UNCHANGED order
      BY <2>10 DEF ReverseFailed, TripUnhedged
    <3> QED
      BY <3>1, <3>2, FlowReturned
  <2>11. CASE TripReturned(o)
    BY <2>11, <2>m DEF TripReturned
  <2>12. CASE BookEngine(o)
    BY <2>12, <2>m DEF BookEngine
  <2>13. CASE BookRisk(o)
    BY <2>13, <2>m DEF BookRisk
  <2>14. CASE Emit(o)
    BY <2>14, <2>m DEF Emit
  <2>15. CASE Release(o)
    BY <2>15, <2>m DEF Release
  <2> QED
    BY <1>2, <2>1, <2>2, <2>3, <2>4, <2>5, <2>6, <2>7, <2>8, <2>9, <2>10, <2>11, <2>12,
       <2>13, <2>14, <2>15 DEF Execute
<1>3. ASSUME NEW o \in Opps, NEW leg \in Legs, VenueAnswers(o, leg) PROVE FlowInv'
  BY <1>3, FlowAnswer
<1>4. ASSUME NEW p, OperatorCall(p) \/ InRiskEngine(p) PROVE FlowInv'
  BY <1>0, <1>4 DEF OperatorCall, InRiskEngine, execVars
<1>5. CASE Dispatch
  <2>1. /\ Head(oppCh) \in Opps /\ pc[Head(oppCh)] = "queued"
        /\ Step(Head(oppCh), "spawned") /\ UNCHANGED <<order, result, outcome>>
    BY <1>5 DEF Dispatch, QueueInv, tradeVars
  <2>2. "spawned" \in PC /\ {"queued", "spawned"} \subseteq Early
    BY DEF PC, Early, Undecided, Waiting
  <2> QED
    BY <2>1, <2>2, FlowMove
<1>6. CASE StopLoop \/ Shutdown \/ Exit
  BY <1>0, <1>6 DEF StopLoop, Shutdown, Exit, tradeVars
<1> QED
  BY <1>1, <1>2, <1>3, <1>4, <1>5, <1>6 DEF Next

-------------------------------------------------------------------------------
LEMMA FlowAlways == Spec => []FlowInv
<1>1. GuardInv => QueueInv
  BY DEF GuardInv
<1> QED
  BY <1>1, InitFlow, NextFlow, InitGuard, NextGuard, PTL DEF Spec

\* However often submitIOC gives up, whatever the adapters report and whichever
\* branch executeTwoLeg takes: leg 2 and the reversal together are never sent
\* for more than leg 1 reported.
THEOREM NeverOverhedged == Spec => []HedgeFitsLeg1
<1>1. FlowInv => HedgeFitsLeg1
  <2> SUFFICES ASSUME FlowInv, NEW o \in Opps
               PROVE  /\ Asked(o, "leg2") <= Got(o, "leg1")
                      /\ Got(o, "leg2") + Asked(o, "reverse") <= Got(o, "leg1")
    BY DEF HedgeFitsLeg1, Asked, Got
  <2> QED
    BY DEF FlowInv, Flow
<1> QED
  BY <1>1, FlowAlways, PTL

\* An outcome CLEAN or REVERSED is only ever decided over three reports that
\* leave nothing open.
ReportsBalance ==
    \A o \in Opps :
        outcome[o] \in {"CLEAN", "REVERSED"} =>
            result[o]["leg1"].qty = result[o]["leg2"].qty + result[o]["reverse"].qty

LEMMA FlowBalances == FlowInv => ReportsBalance
<1> SUFFICES ASSUME FlowInv, NEW o \in Opps, outcome[o] \in {"CLEAN", "REVERSED"}
             PROVE  Got(o, "leg1") = Got(o, "leg2") + Got(o, "reverse")
  BY DEF ReportsBalance, Got
<1>1. Flow(o) /\ \A leg \in Legs : Asked(o, leg) \in Nat /\ Got(o, leg) \in Nat
  BY Amounts DEF FlowInv
<1> QED
  BY <1>1 DEF Flow, Legs

-------------------------------------------------------------------------------
(* What the venues executed *)

\* The engine is told of no fill that the venue did not make, and what it was
\* told of before the venue answered is nothing.
Seen(o, leg) ==
    /\ Got(o, leg) <= order[o][leg].executed
    /\ order[o][leg].status = "sent" => order[o][leg].executed = 0

SeenInv == \A o \in Opps, leg \in Legs : Seen(o, leg)

LEMMA InitSeen == Init => SeenInv
BY DEF Init, SeenInv, Seen, Got, NotSent, NoResult

\* A step that only sends an order nothing was reported of, only records a
\* result, or does both for two legs.
LEMMA SeenStep ==
    ASSUME TradeTypes, SeenInv, NEW o \in Opps,
           \A q \in Opps : q # o => order'[q] = order[q] /\ result'[q] = result[q],
           \A leg \in Legs :
               \/ order'[o][leg] = order[o][leg] /\ result'[o][leg] = result[o][leg]
               \/ /\ order'[o][leg] = order[o][leg]
                  /\ result'[o][leg] \in Results(o, leg)
               \/ /\ \E qty \in Nat : order'[o][leg] = Sent(qty)
                  /\ Got(o, leg) = 0 /\ result'[o][leg] = result[o][leg]
    PROVE  SeenInv'
<1>1. ASSUME NEW q \in Opps, NEW leg \in Legs,
             order'[q][leg] = order[q][leg], result'[q][leg] = result[q][leg]
      PROVE  Seen(q, leg)'
  BY <1>1 DEF SeenInv, Seen, Got
<1>2. ASSUME NEW leg \in Legs, order'[o][leg] = order[o][leg],
             result'[o][leg] \in Results(o, leg)
      PROVE  Seen(o, leg)'
  <2>1. /\ order[o][leg].executed \in Nat /\ order[o][leg].reported \in Nat
        /\ order[o][leg].reported <= order[o][leg].executed
    BY DEF TradeTypes, OrderType
  <2>2. \/ result'[o][leg].qty = 0
        \/ result'[o][leg].qty = order[o][leg].reported
    BY <1>2 DEF Results
  <2> QED
    BY <1>2, <2>1, <2>2 DEF SeenInv, Seen, Got
<1>3. ASSUME NEW leg \in Legs, NEW qty \in Nat, order'[o][leg] = Sent(qty),
             Got(o, leg) = 0, result'[o][leg] = result[o][leg]
      PROVE  Seen(o, leg)'
  BY <1>3, SentType DEF Seen, Got
<1> QED
  BY <1>1, <1>2, <1>3 DEF SeenInv

LEMMA NextSeen == FlowInv /\ SeenInv /\ [Next]_vars => SeenInv'
<1> SUFFICES ASSUME FlowInv, SeenInv, [Next]_vars PROVE SeenInv'
  OBVIOUS
<1>0. TradeTypes /\ \A q \in Opps : Flow(q)
  BY DEF FlowInv
<1>1. ASSUME UNCHANGED <<order, result>> PROVE SeenInv'
  BY <1>1 DEF SeenInv, Seen, Got
<1>2. ASSUME NEW o \in Opps, NEW leg \in Legs, NEW qty \in Nat, Got(o, leg) = 0,
             order' = [order EXCEPT ![o][leg] = Sent(qty)],
             \/ result' = result
             \/ \E l \in Legs : /\ l # leg
                               /\ \E r \in Results(o, l) : result' = [result EXCEPT ![o][l] = r]
      PROVE  SeenInv'
  <2>1. /\ \A q \in Opps : q # o => order'[q] = order[q] /\ result'[q] = result[q]
        /\ order'[o][leg] = Sent(qty) /\ result'[o][leg] = result[o][leg]
        /\ \A l \in Legs : l # leg =>
              /\ order'[o][l] = order[o][l]
              /\ result'[o][l] = result[o][l] \/ result'[o][l] \in Results(o, l)
    BY <1>0, <1>2 DEF TradeTypes
  <2> QED
    BY <1>0, <1>2, <2>1, SeenStep
<1>3. ASSUME NEW o \in Opps, NEW leg \in Legs, NEW r \in Results(o, leg),
             result' = [result EXCEPT ![o][leg] = r], UNCHANGED order
      PROVE  SeenInv'
  <2>1. /\ \A q \in Opps : q # o => result'[q] = result[q]
        /\ result'[o][leg] = r
        /\ \A l \in Legs : l # leg => result'[o][l] = result[o][l]
    BY <1>0, <1>3 DEF TradeTypes
  <2> QED
    BY <1>0, <1>3, <2>1, SeenStep
<1>4. ASSUME NEW o \in Opps, Execute(o) PROVE SeenInv'
  <2>0. \A leg \in Legs : Asked(o, leg) \in Nat /\ Got(o, leg) \in Nat
    BY <1>0, Amounts
  <2>1. Quantity[o] \in Nat /\ {"leg1", "leg2", "reverse"} = Legs
    BY ExecutionAssumption DEF Legs
  <2>2. CASE SubmitLeg1(o)
    <3>1. Got(o, "leg1") = 0
      BY <1>0, <2>2 DEF SubmitLeg1, Flow, Undecided
    <3> QED
      BY <1>2, <2>1, <2>2, <3>1 DEF SubmitLeg1
  <2>3. CASE Leg1Missed(o)
    BY <1>3, <2>1, <2>3 DEF Leg1Missed
  <2>4. CASE Leg1Filled(o)
    <3>1. PICK r \in Results(o, "leg1"), next \in {"leg2", "reverse"} :
             /\ result' = [result EXCEPT ![o]["leg1"] = r]
             /\ order' = [order EXCEPT ![o][next] = Sent(r.qty)]
      BY <2>4 DEF Leg1Filled, Leg2Quantity
    <3>2. Got(o, "leg1") = 0 /\ pc[o] = "leg1"
      BY <1>0, <2>4 DEF Leg1Filled, Flow, Undecided
    <3>3. Got(o, next) = 0
      BY <1>0, <2>0, <2>1, <3>2 DEF Flow
    <3>4. r.qty \in Nat
      BY <1>0, <2>1, ResultsType DEF ResultType
    <3>5. "leg1" # next /\ "leg1" \in Legs /\ next \in Legs
      BY <2>1
    <3> HIDE DEF Sent
    <3> QED
      BY <1>2, <3>1, <3>3, <3>4, <3>5
  <2>5. CASE Leg2Returns(o)
    <3>1. PICK r \in Results(o, "leg2") :
             /\ result' = [result EXCEPT ![o]["leg2"] = r]
             /\ \/ UNCHANGED order
                \/ order' = [order EXCEPT ![o]["reverse"] =
                                Sent(Residual(result[o]["leg1"].qty, r.qty))]
      BY <2>5 DEF Leg2Returns
    <3>2. Got(o, "reverse") = 0
      BY <1>0, <2>0, <2>1, <2>5 DEF Leg2Returns, Flow
    <3>3. r.qty \in Nat
      BY <1>0, <2>1, ResultsType DEF ResultType
    <3>4. Residual(result[o]["leg1"].qty, r.qty) \in Nat
      BY <2>0, <2>1, <3>3 DEF Residual, Got
    <3>5. "leg2" # "reverse" /\ "leg2" \in Legs /\ "reverse" \in Legs
      BY <2>1
    <3>6. CASE UNCHANGED order
      BY <1>3, <3>1, <3>5, <3>6
    <3>7. CASE order' = [order EXCEPT ![o]["reverse"] =
                           Sent(Residual(result[o]["leg1"].qty, r.qty))]
      BY <1>2, <3>1, <3>2, <3>4, <3>5, <3>7
    <3> QED
      BY <3>1, <3>6, <3>7
  <2>6. CASE Reversed(o) \/ ReverseFailed(o)
    BY <1>3, <2>1, <2>6 DEF Reversed, ReverseFailed
  <2>7. CASE \/ SkipInFlight(o) \/ Acquire(o) \/ RiskRejected(o) \/ TripReturned(o)
             \/ BookEngine(o) \/ BookRisk(o) \/ Emit(o) \/ Release(o)
    BY <1>1, <2>7 DEF SkipInFlight, Acquire, RiskRejected, TripReturned, BookEngine, BookRisk,
                      Emit, Release, tradeVars
  <2> QED
    BY <1>4, <2>2, <2>3, <2>4, <2>5, <2>6, <2>7 DEF Execute
<1>5. ASSUME NEW o \in Opps, NEW leg \in Legs, VenueAnswers(o, leg) PROVE SeenInv'
  <2>1. /\ order[o][leg].status = "sent" /\ UNCHANGED result
        /\ order[o][leg].qty \in Nat
    BY <1>0, <1>5 DEF VenueAnswers, TradeTypes, OrderType
  <2>2. PICK x : /\ order' = [order EXCEPT ![o][leg] = x]
                 /\ x.status = "answered" /\ x.executed \in 0..order[o][leg].qty
    <3>1. PICK executed \in 0..order[o][leg].qty : \E a \in Answers(order[o][leg].qty, executed) :
             order' = [order EXCEPT ![o][leg] =
                         [status |-> "answered", qty |-> @.qty, executed |-> executed,
                          filled |-> a.filled, reported |-> a.reported]]
      BY <1>5 DEF VenueAnswers
    <3>2. PICK a \in Answers(order[o][leg].qty, executed) :
             order' = [order EXCEPT ![o][leg] =
                         [status |-> "answered", qty |-> @.qty, executed |-> executed,
                          filled |-> a.filled, reported |-> a.reported]]
      BY <3>1
    <3> DEFINE y == [status |-> "answered", qty |-> order[o][leg].qty, executed |-> executed,
                     filled |-> a.filled, reported |-> a.reported]
    <3>3. order' = [order EXCEPT ![o][leg] = y]
      BY <1>0, <3>2 DEF TradeTypes
    <3>4. y.status = "answered" /\ y.executed \in 0..order[o][leg].qty
      OBVIOUS
    <3> QED
      BY <3>3, <3>4
  <2>3. Got(o, leg) = 0
    BY <1>0, <2>1, Amounts DEF SeenInv, Seen
  <2>4. /\ order'[o][leg] = x
        /\ \A q \in Opps, l \in Legs : q # o \/ l # leg => order'[q][l] = order[q][l]
    BY <1>0, <2>2 DEF TradeTypes
  <2>5. Seen(o, leg)'
    BY <2>1, <2>2, <2>3, <2>4 DEF Seen, Got
  <2> QED
    BY <2>1, <2>4, <2>5 DEF SeenInv, Seen, Got
<1>6. ASSUME NEW p, OperatorCall(p) \/ InRiskEngine(p) PROVE SeenInv'
  BY <1>1, <1>6 DEF OperatorCall, InRiskEngine, execVars
<1>7. CASE UNCHANGED vars \/ \E o \in Opps : Submit(o)
  BY <1>1, <1>7 DEF vars, execVars, Submit, tradeVars
<1>8. CASE Dispatch \/ StopLoop \/ Shutdown \/ Exit
  BY <1>1, <1>8 DEF Dispatch, StopLoop, Shutdown, Exit, tradeVars
<1> QED
  BY <1>4, <1>5, <1>6, <1>7, <1>8 DEF Next

\* Whatever the adapters leave out of their reports, and however often submitIOC
\* gives up: an execution that does not end as KILL_SWITCH is open by no more than
\* what the venues executed unseen.
THEOREM EndsFlatUpToUnseen == Spec => []ExposureIsUnseen
<1>1. FlowInv /\ SeenInv => ExposureIsUnseen
  <2> SUFFICES ASSUME FlowInv, SeenInv, NEW o \in Opps, pc[o] = "done",
                      outcome[o] # "KILL_SWITCH"
               PROVE  /\ Exposure(o) <= Unseen(o, "leg1")
                      /\ -Exposure(o) <= Unseen(o, "leg2") + Unseen(o, "reverse")
    BY DEF ExposureIsUnseen
  <2> DEFINE X(leg) == order[o][leg].executed
  <2>1. /\ Flow(o)
        /\ \A leg \in Legs :
              Asked(o, leg) \in Nat /\ Got(o, leg) \in Nat /\ X(leg) \in Nat /\ Got(o, leg) <= X(leg)
    BY Amounts DEF FlowInv, SeenInv, Seen, TradeTypes, OrderType
  <2>2. outcome[o] \in {"RISK_REJECTED", "MISSED", "CLEAN", "REVERSED"}
    <3>1. outcome[o] # "none"
      BY <2>1 DEF Flow, Undecided, Waiting
    <3> QED
      BY <3>1 DEF FlowInv, TradeTypes, Outcome
  <2>3. /\ Counted(o, "leg2") = Got(o, "leg2") /\ Counted(o, "reverse") = Got(o, "reverse")
        /\ Counted(o, "leg1") \in Nat /\ Counted(o, "leg1") <= Got(o, "leg1")
        /\ Counted(o, "leg1") = Got(o, "leg2") + Got(o, "reverse")
    <3>1. CASE outcome[o] \in {"CLEAN", "REVERSED"}
      BY <2>1, <3>1, FlowBalances DEF ReportsBalance, Counted, Got, Legs
    <3>2. CASE outcome[o] = "MISSED"
      <4>1. Got(o, "leg2") = 0 /\ Got(o, "reverse") = 0
        BY <2>1, <3>2 DEF Flow, Legs
      <4> QED
        BY <2>1, <3>2, <4>1 DEF Counted, Got, Legs
    <3>3. CASE outcome[o] = "RISK_REJECTED"
      <4>1. Got(o, "leg1") = 0 /\ Got(o, "leg2") = 0 /\ Got(o, "reverse") = 0
        BY <2>1, <3>3 DEF Flow, Legs
      <4> QED
        BY <3>3, <4>1 DEF Counted, Got
    <3> QED
      BY <2>2, <3>1, <3>2, <3>3
  <2>4. /\ Exposure(o) = X("leg1") - X("leg2") - X("reverse")
        /\ \A leg \in Legs : Unseen(o, leg) = X(leg) - Counted(o, leg)
    BY DEF Exposure, Unseen
  <2> HIDE DEF X
  <2> QED
    BY <2>1, <2>3, <2>4 DEF Legs
<1> QED
  BY <1>1, FlowAlways, InitSeen, NextSeen, PTL DEF Spec
===============================================================================
