------------------------------ MODULE LimitProofs ------------------------------
(***************************************************************************)
(* The kill switch and the loss limit as the execution engine uses them:   *)
(* how far the daily limit is overshot, whom a tripped switch still lets   *)
(* through, and that an unhedged exposure is published with the switch     *)
(* tripped.                                                                *)
(***************************************************************************)
EXTENDS ExecutionProofs

\* A step of the risk engine that neither books nor resets.
RiskCall(p) ==
    \/ CallValidate(p) \/ RiskStep(p) \/ TornReasonRead(p) \/ Return(p)
    \/ \E reason \in CallerReason : CallTrip(p, reason)

\* Every step leaves the risk engine alone, is one of its steps, or is BookRisk.
LEMMA NextRiskSteps ==
    ASSUME [Next]_vars
    PROVE  \/ UNCHANGED riskVars
           \/ \E p \in Procs : RiskCall(p)
           \/ \E p \in Procs, token \in Tokens : CallReset(p, token)
           \/ \E o \in Opps : BookRisk(o)
<1>0. Opps \subseteq Procs /\ Operators \subseteq Procs
  BY ExecutionAssumption
<1>1. CASE UNCHANGED vars
  BY <1>1 DEF vars
<1>2. ASSUME NEW o \in Opps, Submit(o) \/ Execute(o)
      PROVE  UNCHANGED riskVars \/ RiskCall(o) \/ BookRisk(o)
  <2>1. CASE Submit(o) \/ SkipInFlight(o) \/ SubmitLeg1(o) \/ Leg1Filled(o) \/ Leg2Returns(o)
             \/ Reversed(o) \/ BookEngine(o) \/ Emit(o) \/ Release(o)
    BY <2>1 DEF Submit, SkipInFlight, SubmitLeg1, Leg1Filled, Leg2Returns, Reversed,
                BookEngine, Emit, Release
  <2>2. CASE Acquire(o)
    BY <2>2 DEF Acquire, RiskCall
  <2>3. CASE RiskRejected(o) \/ Leg1Missed(o) \/ TripReturned(o)
    BY <2>3 DEF RiskRejected, Leg1Missed, TripReturned, RiskCall
  <2>4. CASE ReverseFailed(o)
    BY <2>4 DEF ReverseFailed, TripUnhedged, RiskCall, CallerReason
  <2> QED
    BY <1>2, <2>1, <2>2, <2>3, <2>4 DEF Execute
<1>3. ASSUME NEW o \in Opps, NEW leg \in Legs, VenueAnswers(o, leg) PROVE UNCHANGED riskVars
  BY <1>3 DEF VenueAnswers
<1>4. ASSUME NEW p \in Operators, OperatorCall(p)
      PROVE  RiskCall(p) \/ \E token \in Tokens : CallReset(p, token)
  BY <1>4 DEF OperatorCall, RiskCall, CallerReason
<1>5. ASSUME NEW p \in Procs, InRiskEngine(p) PROVE RiskCall(p)
  BY <1>5 DEF InRiskEngine, RiskCall
<1>6. CASE Dispatch \/ StopLoop \/ Shutdown \/ Exit
  BY <1>6 DEF Dispatch, StopLoop, Shutdown, Exit
<1> QED
  BY <1>0, <1>1, <1>2, <1>3, <1>4, <1>5, <1>6 DEF Next

LEMMA NextRiskCases ==
    ASSUME [Next]_vars
    PROVE  \/ UNCHANGED riskVars
           \/ \E p \in Procs : RiskOnly(p)
           \/ \E o \in Opps : BookRisk(o)
<1>1. Tokens \subseteq STRING
  BY ExecutionAssumption
<1> QED
  BY <1>1, NextRiskSteps DEF RiskCall, RiskOnly

-------------------------------------------------------------------------------
(* What an execution books *)

LEMMA ProductInt ==
    ASSUME NEW a \in Int, NEW b \in Int
    PROVE  a * b \in Int
OBVIOUS

LEMMA SalesInt ==
    ASSUME NEW o \in Opps, NEW leg \in Legs, NEW qty \in Nat
    PROVE  Buy(o, leg, qty) \in Int /\ Sell(o, leg, qty) \in Int
<1>1. AvgPrice[o][leg] \in Int /\ 100 + FeePct[o][leg] \in Int /\ 100 - FeePct[o][leg] \in Int
  <2>1. AvgPrice[o][leg] \in Nat /\ FeePct[o][leg] \in 0..100
    BY ExecutionAssumption
  <2> QED
    BY <2>1
<1>2. AvgPrice[o][leg] * qty \in Int
  BY <1>1, ProductInt
<1>3. /\ (AvgPrice[o][leg] * qty) * (100 + FeePct[o][leg]) \in Int
      /\ (AvgPrice[o][leg] * qty) * (100 - FeePct[o][leg]) \in Int
  BY <1>1, <1>2, ProductInt
<1> QED
  BY <1>3 DEF Buy, Sell

\* What an execution books is an integer.
LEMMA PnLType ==
    ASSUME FlowInv, NEW o \in Opps
    PROVE  PnL(o) \in Int
<1>1. \A leg \in Legs : Got(o, leg) \in Nat
  BY Amounts DEF FlowInv
<1>2. /\ Sell(o, "leg2", Got(o, "leg2")) \in Int /\ Buy(o, "leg1", Got(o, "leg1")) \in Int
      /\ Sell(o, "reverse", Got(o, "reverse")) \in Int
      /\ Buy(o, "leg1", Got(o, "reverse")) \in Int
  BY <1>1, SalesInt DEF Legs
<1>3. /\ CalculatePnL(o, Got(o, "leg1"), Got(o, "leg2")) \in Int
      /\ CalculateReverseSlippage(o, Got(o, "reverse")) \in Int
  BY <1>2 DEF CalculatePnL, CalculateReverseSlippage
<1> QED
  BY <1>3 DEF PnL, Got

\* BookRisk books an amount no worse than the worst loss: leg 2 sold all that
\* leg 1 bought, or no more is reversed than leg 1 bought.
LEMMA BookedAmount ==
    ASSUME FlowInv, NEW o \in Opps, BookRisk(o)
    PROVE  /\ RecordCleanExecution(o, PnL(o)) \/ RecordReversal(o, PnL(o))
           /\ PnL(o) \in Int /\ PnL(o) >= -WorstLoss
<1>1. RecordCleanExecution(o, PnL(o)) \/ RecordReversal(o, PnL(o))
  BY DEF BookRisk, RecordInRisk
<1>2. /\ outcome[o] \in {"CLEAN", "REVERSED"} /\ Flow(o)
      /\ \A leg \in Legs : Asked(o, leg) \in Nat /\ Got(o, leg) \in Nat
  BY Amounts DEF BookRisk, FlowInv, Flow
<1>3. Quantity[o] \in Nat
  BY ExecutionAssumption
<1>4. CASE outcome[o] = "CLEAN"
  <2>1. Got(o, "leg1") = Got(o, "leg2") /\ Got(o, "leg1") \in 0..Quantity[o]
    BY <1>2, <1>3, <1>4 DEF Flow, Legs
  <2>2. PnL(o) = CalculatePnL(o, Got(o, "leg1"), Got(o, "leg1"))
    BY <1>4, <2>1 DEF PnL, Got
  <2>3. CalculatePnL(o, Got(o, "leg1"), Got(o, "leg1")) \in Int
    BY <1>2, SalesInt DEF CalculatePnL, Legs
  <2> QED
    BY <1>1, <2>1, <2>2, <2>3, WorstLossAssumption
<1>5. CASE outcome[o] = "REVERSED"
  <2>1. Got(o, "reverse") \in 0..Quantity[o]
    BY <1>2, <1>3 DEF Flow, Legs
  <2>2. PnL(o) = CalculateReverseSlippage(o, Got(o, "reverse"))
    BY <1>5 DEF PnL, Got
  <2>3. CalculateReverseSlippage(o, Got(o, "reverse")) \in Int
    BY <1>2, SalesInt DEF CalculateReverseSlippage, Legs
  <2> QED
    BY <1>1, <2>1, <2>2, <2>3, WorstLossAssumption
<1> QED
  BY <1>2, <1>4, <1>5

LEMMA InitRiskType == Init => RiskTypeOK
BY RiskInitType DEF Init

LEMMA NextRiskType == FlowInv /\ RiskTypeOK /\ [Next]_vars => RiskTypeOK'
<1> SUFFICES ASSUME FlowInv, RiskTypeOK, [Next]_vars PROVE RiskTypeOK'
  OBVIOUS
<1>1. CASE UNCHANGED riskVars
  BY <1>1 DEF riskVars, RiskTypeOK
<1>2. ASSUME NEW p \in Procs, RiskOnly(p) PROVE RiskTypeOK'
  BY <1>2, RiskOnlyType
<1>3. ASSUME NEW o \in Opps, BookRisk(o) PROVE RiskTypeOK'
  <2>1. /\ RecordCleanExecution(o, PnL(o)) \/ RecordReversal(o, PnL(o))
        /\ PnL(o) \in Int /\ o \in Procs
    BY <1>3, BookedAmount, ExecutionAssumption
  <2> QED
    BY <2>1, BookingType
<1> QED
  BY <1>1, <1>2, <1>3, NextRiskCases

-------------------------------------------------------------------------------
(* Where an executing goroutine is in the risk engine *)

\* Outside its calls a goroutine is idle there; accepted from the validation
\* that lets it trade until it books or gives up.
RpcInv ==
    \A o \in Opps :
        /\ pc[o] \in {"leg1", "leg2", "reverse", "bookEngine", "bookRisk"} => rpc[o] = "accepted"
        /\ pc[o] = "trip" => rpc[o] \in {"cas", "writeReason", "tripped"}
        /\ pc[o] \notin Holding \/ pc[o] \in {"emit", "release"} => rpc[o] = "idle"

\* A step of goroutine p in the risk engine moves no other.
LEMMA RiskMovesOne ==
    ASSUME RiskTypeOK, NEW p \in Procs, RiskOnly(p), NEW q \in Procs, q # p
    PROVE  rpc'[q] = rpc[q]
BY DEF RiskOnly, RiskStep, CallValidate, LoadKillSwitch, ReadDaily, ReadPeak, TripCAS,
       WriteReason, ClearReason, TornReasonRead, Return, CallReset, CallTrip, Goto, RiskTypeOK

\* From where to where a step inside the risk engine takes its goroutine.
RiskEdge(from, to) ==
    \/ from = "loadKill" /\ to \in {"loadKill", "rejected", "readDaily"}
    \/ from = "readDaily" /\ to \in {"cas", "readPeak"}
    \/ from = "readPeak" /\ to \in {"cas", "rejected", "accepted"}
    \/ from = "cas" /\ to \in {"writeReason", "tripped"}
    \/ from = "writeReason" /\ to = "tripped"
    \/ from = "clearReason" /\ to = "idle"

LEMMA RiskStepEdge ==
    ASSUME RiskTypeOK, NEW p \in Procs, RiskStep(p) \/ TornReasonRead(p)
    PROVE  RiskEdge(rpc[p], rpc'[p])
<1> USE DEF RiskTypeOK, Goto, RiskEdge
<1>1. CASE LoadKillSwitch(p)
  BY <1>1 DEF LoadKillSwitch
<1>2. CASE ReadDaily(p)
  BY <1>2 DEF ReadDaily
<1>3. CASE ReadPeak(p)
  BY <1>3 DEF ReadPeak
<1>4. CASE TripCAS(p)
  BY <1>4 DEF TripCAS
<1>5. CASE WriteReason(p)
  BY <1>5 DEF WriteReason
<1>6. CASE ClearReason(p)
  BY <1>6 DEF ClearReason
<1>7. CASE TornReasonRead(p)
  BY <1>7 DEF TornReasonRead
<1> QED
  BY <1>1, <1>2, <1>3, <1>4, <1>5, <1>6, <1>7 DEF RiskStep

LEMMA InitRpc == Init => RpcInv
BY ExecutionAssumption DEF Init, RiskInit, RpcInv

LEMMA NextRpc ==
    pc \in [Opps -> PC] /\ QueueInv /\ RiskTypeOK /\ RpcInv /\ [Next]_vars => RpcInv'
<1> SUFFICES ASSUME pc \in [Opps -> PC], QueueInv, RiskTypeOK, RpcInv, [Next]_vars
             PROVE  RpcInv'
  OBVIOUS
<1>0. Opps \subseteq Procs /\ Opps \intersect Operators = {} /\ Operators \subseteq Procs
  BY ExecutionAssumption
<1>f. rpc \in [Procs -> RiskPoint]
  BY DEF RiskTypeOK
<1> USE DEF RpcInv, Holding, Step, Goto
<1>1. CASE UNCHANGED <<pc, rpc>>
  BY <1>1
<1>2. ASSUME NEW o \in Opps, Submit(o) \/ Execute(o) PROVE RpcInv'
  <2>0. o \in Procs
    BY <1>0
  <2>1. CASE Submit(o)
    BY <2>1 DEF Submit, riskVars
  <2>2. CASE SkipInFlight(o)
    BY <2>2 DEF SkipInFlight, riskVars
  <2>3. CASE Acquire(o)
    BY <1>0, <1>f, <2>3 DEF Acquire, CallValidate
  <2>4. CASE RiskRejected(o)
    BY <1>0, <1>f, <2>4 DEF RiskRejected, Return
  <2>5. CASE SubmitLeg1(o)
    BY <2>5 DEF SubmitLeg1, riskVars
  <2>6. CASE Leg1Missed(o)
    BY <1>0, <1>f, <2>6 DEF Leg1Missed, Return
  <2>7. CASE Leg1Filled(o)
    BY <2>7 DEF Leg1Filled, riskVars
  <2>8. CASE Leg2Returns(o)
    BY <2>8 DEF Leg2Returns, riskVars
  <2>9. CASE Reversed(o)
    BY <2>9 DEF Reversed, riskVars
  <2>10. CASE ReverseFailed(o)
    BY <1>0, <1>f, <2>10 DEF ReverseFailed, TripUnhedged, CallTrip
  <2>11. CASE TripReturned(o)
    BY <1>0, <1>f, <2>11 DEF TripReturned, Return
  <2>12. CASE BookEngine(o)
    BY <2>12 DEF BookEngine, riskVars
  <2>13. CASE BookRisk(o)
    BY <1>0, <1>f, <2>13 DEF BookRisk, RecordInRisk, RecordCleanExecution, RecordReversal
  <2>14. CASE Emit(o)
    BY <2>14 DEF Emit, riskVars
  <2>15. CASE Release(o)
    BY <2>15 DEF Release, riskVars
  <2> QED
    BY <1>2, <2>1, <2>2, <2>3, <2>4, <2>5, <2>6, <2>7, <2>8, <2>9, <2>10, <2>11, <2>12,
       <2>13, <2>14, <2>15 DEF Execute
<1>3. ASSUME NEW o \in Opps, NEW leg \in Legs, VenueAnswers(o, leg) PROVE RpcInv'
  BY <1>1, <1>3 DEF VenueAnswers, riskVars
<1>4. ASSUME NEW p \in Operators, OperatorCall(p) PROVE RpcInv'
  <2>1. RiskOnly(p) /\ p \in Procs /\ pc' = pc
    BY <1>0, <1>4, ExecutionAssumption DEF OperatorCall, RiskOnly, CallerReason, execVars
  <2>2. \A o \in Opps : rpc'[o] = rpc[o]
    BY <1>0, <2>1, RiskMovesOne
  <2> QED
    BY <2>1, <2>2
<1>5. ASSUME NEW p \in Procs, InRiskEngine(p) PROVE RpcInv'
  <2>1. RiskOnly(p) /\ (RiskStep(p) \/ TornReasonRead(p)) /\ pc' = pc
    BY <1>5 DEF InRiskEngine, RiskOnly, execVars
  <2>2. \A o \in Opps : o # p => rpc'[o] = rpc[o]
    BY <1>0, <2>1, RiskMovesOne
  <2>3. RiskEdge(rpc[p], rpc'[p])
    BY <2>1, RiskStepEdge
  <2>4. ASSUME p \in Opps
        PROVE  /\ pc[p] \notin {"leg1", "leg2", "reverse", "bookEngine", "bookRisk"}
               /\ pc[p] \in Holding /\ pc[p] \notin {"emit", "release"}
               /\ pc[p] = "trip" => rpc'[p] \in {"cas", "writeReason", "tripped"}
    BY <2>3, <2>4 DEF RiskEdge
  <2> QED
    BY <2>1, <2>2, <2>4
<1>6. CASE Dispatch
  <2>1. /\ Head(oppCh) \in Opps /\ pc[Head(oppCh)] = "queued"
        /\ pc' = [pc EXCEPT ![Head(oppCh)] = "spawned"] /\ UNCHANGED rpc
    BY <1>6 DEF Dispatch, QueueInv, riskVars
  <2> QED
    BY <2>1
<1>7. CASE StopLoop \/ Shutdown \/ Exit
  BY <1>1, <1>7 DEF StopLoop, Shutdown, Exit, riskVars
<1>8. CASE UNCHANGED vars
  BY <1>1, <1>8 DEF vars, riskVars, execVars
<1> QED
  BY <1>2, <1>3, <1>4, <1>5, <1>6, <1>7, <1>8 DEF Next

\* What the properties of this module rest on.
BaseInv == GuardInv /\ FlowInv /\ AnnounceInv /\ RiskTypeOK /\ RpcInv

LEMMA NextBase == BaseInv /\ [Next]_vars => BaseInv'
<1> SUFFICES ASSUME BaseInv, [Next]_vars PROVE BaseInv'
  OBVIOUS
<1>1. pc \in [Opps -> PC] /\ QueueInv
  BY DEF BaseInv, GuardInv
<1>2. GuardInv' /\ FlowInv' /\ AnnounceInv'
  BY <1>1, NextGuard, NextFlow, NextAnnounce DEF BaseInv
<1>3. RiskTypeOK' /\ RpcInv'
  BY <1>1, NextRiskType, NextRpc DEF BaseInv
<1> QED
  BY <1>2, <1>3 DEF BaseInv

LEMMA BaseAlways == Spec => []BaseInv
<1>1. Init => BaseInv
  BY InitGuard, InitFlow, InitAnnounce, InitRiskType, InitRpc DEF BaseInv
<1> QED
  BY <1>1, NextBase, PTL DEF Spec

-------------------------------------------------------------------------------
(* What a tripped switch means *)

\* Without a reset a tripped switch stays tripped, whoever gets past the
\* compare-and-swap leaves it tripped, and a trip ends only when it is through.
TripEdges ==
    /\ killSwitch = "TRIPPED" => killSwitch' = "TRIPPED"
    /\ \A p \in Procs :
          /\ rpc'[p] \in {"writeReason", "tripped"} =>
                rpc[p] \in {"writeReason", "tripped"} \/ killSwitch' = "TRIPPED"
          /\ rpc'[p] = "idle" => rpc[p] \notin {"cas", "writeReason"}

LEMMA StaysTripped ==
    ASSUME NoResets, RiskTypeOK, [Next]_vars
    PROVE  TripEdges
<1> USE DEF RiskTypeOK, Goto, TripEdges
<1>1. CASE UNCHANGED riskVars
  BY <1>1 DEF riskVars
<1>2. ASSUME NEW p \in Procs, RiskCall(p) PROVE TripEdges
  <2>1. CASE RiskStep(p) \/ TornReasonRead(p)
    BY <2>1 DEF RiskStep, LoadKillSwitch, ReadDaily, ReadPeak, TripCAS, WriteReason,
                ClearReason, TornReasonRead
  <2>2. CASE CallValidate(p) \/ Return(p) \/ \E reason \in CallerReason : CallTrip(p, reason)
    BY <2>2 DEF CallValidate, Return, CallTrip
  <2> QED
    BY <1>2, <2>1, <2>2 DEF RiskCall
<1>3. ASSUME NEW o \in Opps, BookRisk(o) PROVE TripEdges
  BY <1>3 DEF BookRisk, RecordInRisk, RecordCleanExecution, RecordReversal
<1>4. ASSUME NEW p \in Procs, NEW token \in Tokens, CallReset(p, token) PROVE TripEdges
  BY <1>4 DEF NoResets, CallReset
<1> QED
  BY <1>1, <1>2, <1>3, <1>4, NextRiskSteps

\* Whoever decides KILL_SWITCH goes on to trip, and leaves the trip with the
\* switch tripped.
UnhedgedInv ==
    \A o \in Opps :
        /\ outcome[o] = "KILL_SWITCH" => pc[o] = "trip" \/ killSwitch = "TRIPPED"
        /\ pc[o] = "trip" /\ rpc[o] \in {"writeReason", "tripped"} => killSwitch = "TRIPPED"
        /\ published[o] # <<>> => published[o] = <<outcome[o]>>

LEMMA InitUnhedged == Init => UnhedgedInv
BY DEF Init, UnhedgedInv

LEMMA NextUnhedged ==
    ASSUME NoResets, BaseInv, UnhedgedInv, [Next]_vars
    PROVE  UnhedgedInv'
<1>0. /\ pc \in [Opps -> PC] /\ QueueInv /\ RiskTypeOK /\ RpcInv /\ RpcInv' /\ AnnounceInv
      /\ TripEdges /\ OutcomeStep
      /\ Opps \subseteq Procs
  <2>1. pc \in [Opps -> PC] /\ QueueInv /\ RiskTypeOK /\ RpcInv /\ RpcInv' /\ AnnounceInv
    BY NextBase DEF BaseInv, GuardInv
  <2>2. TripEdges
    BY <2>1, StaysTripped
  <2> QED
    BY <2>1, <2>2, NextOutcomeStep, ExecutionAssumption
<1> SUFFICES ASSUME NEW o \in Opps
             PROVE  /\ outcome'[o] = "KILL_SWITCH" => pc'[o] = "trip" \/ killSwitch' = "TRIPPED"
                    /\ pc'[o] = "trip" /\ rpc'[o] \in {"writeReason", "tripped"}
                          => killSwitch' = "TRIPPED"
                    /\ published'[o] # <<>> => published'[o] = <<outcome'[o]>>
  BY DEF UnhedgedInv
<1>1. \/ UNCHANGED <<pc[o], outcome[o], published[o]>>
      \/ Moves(pc[o], pc'[o]) /\ UNCHANGED <<outcome[o], published[o]>>
      \/ Decides(pc[o], pc'[o], outcome'[o]) /\ published'[o] = published[o]
      \/ /\ pc[o] = "emit" /\ pc'[o] = "release" /\ outcome'[o] = outcome[o]
         /\ published'[o] = <<outcome[o]>>
  <2>1. CASE UNCHANGED <<pc, outcome, published>>
    BY <2>1
  <2>2. ASSUME NEW q \in Opps, NEW to \in PC,
               Moves(pc[q], to), Step(q, to), UNCHANGED <<outcome, published>>
        PROVE  \/ UNCHANGED <<pc[o], outcome[o], published[o]>>
               \/ Moves(pc[o], pc'[o]) /\ UNCHANGED <<outcome[o], published[o]>>
    BY <1>0, <2>2 DEF Step
  <2>3. ASSUME NEW q \in Opps, NEW to \in PC, NEW out \in Outcome,
               Decides(pc[q], to, out), Step(q, to), Decide(q, out), UNCHANGED published
        PROVE  \/ UNCHANGED <<pc[o], outcome[o], published[o]>>
               \/ Decides(pc[o], pc'[o], outcome'[o]) /\ published'[o] = published[o]
    BY <1>0, <2>3 DEF Step, Decide, AnnounceInv
  <2>4. ASSUME NEW q \in Opps, Emit(q)
        PROVE  \/ UNCHANGED <<pc[o], outcome[o], published[o]>>
               \/ /\ pc[o] = "emit" /\ pc'[o] = "release" /\ outcome'[o] = outcome[o]
                  /\ published'[o] = <<outcome[o]>>
    <3>1. /\ pc[q] = "emit" /\ pc' = [pc EXCEPT ![q] = "release"] /\ outcome' = outcome
          /\ published' = [published EXCEPT ![q] = <<outcome[q]>>]
      BY <1>0, <2>4, EmitPublishes DEF Emit
    <3> QED
      BY <1>0, <3>1 DEF AnnounceInv
  <2> QED
    BY <1>0, <2>1, <2>2, <2>3, <2>4 DEF OutcomeStep
<1>2. pc[o] = "trip" /\ pc'[o] # "trip" => killSwitch' = "TRIPPED"
  <2> SUFFICES ASSUME pc[o] = "trip", pc'[o] # "trip" PROVE killSwitch' = "TRIPPED"
    OBVIOUS
  <2>1. pc'[o] = "emit"
    BY <1>1 DEF Moves, Decides
  <2>2. rpc'[o] = "idle" /\ rpc[o] \in {"cas", "writeReason", "tripped"}
    BY <1>0, <2>1 DEF RpcInv
  <2> QED
    BY <1>0, <2>2 DEF TripEdges, UnhedgedInv
<1>3. outcome'[o] = "KILL_SWITCH" => pc'[o] = "trip" \/ killSwitch' = "TRIPPED"
  BY <1>0, <1>1, <1>2 DEF Decides, UnhedgedInv, TripEdges
<1>4. pc'[o] = "trip" /\ rpc'[o] \in {"writeReason", "tripped"} => killSwitch' = "TRIPPED"
  <2>1. pc'[o] = "trip" => pc[o] = "trip" \/ pc[o] = "reverse"
    BY <1>1 DEF Moves, Decides
  <2> QED
    BY <1>0, <2>1 DEF UnhedgedInv, TripEdges, RpcInv
<1>5. published'[o] # <<>> => published'[o] = <<outcome'[o]>>
  <2>1. CASE Decides(pc[o], pc'[o], outcome'[o]) /\ published'[o] = published[o]
    BY <1>0, <2>1 DEF Decides, AnnounceInv
  <2> QED
    BY <1>1, <2>1 DEF UnhedgedInv
<1> QED
  BY <1>3, <1>4, <1>5

\* The one outcome that leaves a position open is published only after the
\* switch is tripped, however trips, validations and other executions
\* interleave with it.
THEOREM UnhedgedTrips == Spec => []UnhedgedMeansTripped
<1>1. CASE NoResets
  <2>1. BaseInv /\ UnhedgedInv /\ [Next]_vars => UnhedgedInv'
    BY <1>1, NextUnhedged
  <2>2. BaseInv /\ UnhedgedInv => UnhedgedMeansTripped
    <3> SUFFICES ASSUME BaseInv, UnhedgedInv, NEW o \in Opps, published[o] = <<"KILL_SWITCH">>
                 PROVE  killSwitch = "TRIPPED"
      BY DEF UnhedgedMeansTripped
    <3>1. outcome[o] = "KILL_SWITCH" /\ published[o] # <<>>
      BY DEF UnhedgedInv
    <3>2. pc[o] # "trip"
      BY <3>1 DEF BaseInv, AnnounceInv
    <3> QED
      BY <3>1, <3>2 DEF UnhedgedInv
  <2> QED
    BY <2>1, <2>2, BaseAlways, InitUnhedged, PTL DEF Spec
<1>2. CASE ~NoResets
  <2>1. UnhedgedMeansTripped
    BY <1>2 DEF UnhedgedMeansTripped
  <2> QED
    BY <2>1, PTL
<1> QED
  BY <1>1, <1>2

\* A step that leaves the switch tripped admits nobody to trading.
LEMMA AdmitsNobody ==
    ASSUME BaseInv, [Next]_vars, killSwitch = "TRIPPED", killSwitch' = "TRIPPED"
    PROVE  MaySendLeg1' \subseteq MaySendLeg1
<1>0. /\ pc \in [Opps -> PC] /\ RiskTypeOK /\ RpcInv /\ RpcInv' /\ Opps \subseteq Procs
      /\ rpc \in [Procs -> RiskPoint]
  BY NextBase, ExecutionAssumption DEF BaseInv, GuardInv, RiskTypeOK
<1>1. \A p \in Procs :
         /\ rpc'[p] \in {"readDaily", "readPeak"} => rpc[p] \in {"readDaily", "readPeak"}
         /\ rpc'[p] = "accepted" => rpc[p] \in {"readPeak", "accepted"}
  <2> USE <1>0 DEF Goto
  <2>1. CASE UNCHANGED riskVars
    BY <2>1 DEF riskVars
  <2>2. ASSUME NEW p \in Procs, RiskCall(p), NEW q \in Procs
        PROVE  /\ rpc'[q] \in {"readDaily", "readPeak"} => rpc[q] \in {"readDaily", "readPeak"}
               /\ rpc'[q] = "accepted" => rpc[q] \in {"readPeak", "accepted"}
    BY <2>2 DEF RiskCall, CallValidate, RiskStep, LoadKillSwitch, ReadDaily, ReadPeak, TripCAS,
                WriteReason, ClearReason, TornReasonRead, Return, CallTrip
  <2>3. ASSUME NEW o \in Opps, BookRisk(o), NEW q \in Procs
        PROVE  /\ rpc'[q] \in {"readDaily", "readPeak"} => rpc[q] \in {"readDaily", "readPeak"}
               /\ rpc'[q] = "accepted" => rpc[q] \in {"readPeak", "accepted"}
    BY <2>3 DEF BookRisk, RecordInRisk, RecordCleanExecution, RecordReversal
  <2>4. ASSUME NEW p \in Procs, NEW token \in Tokens, CallReset(p, token), NEW q \in Procs
        PROVE  /\ rpc'[q] \in {"readDaily", "readPeak"} => rpc[q] \in {"readDaily", "readPeak"}
               /\ rpc'[q] = "accepted" => rpc[q] \in {"readPeak", "accepted"}
    BY <2>4 DEF CallReset
  <2> QED
    BY <2>1, <2>2, <2>3, <2>4, NextRiskSteps
<1>2. ASSUME NEW o \in Opps, pc'[o] = "validate", rpc'[o] = "accepted"
      PROVE  o \in MaySendLeg1
  <2>1. rpc[o] \in {"readPeak", "accepted"}
    BY <1>0, <1>1, <1>2
  <2>2. pc[o] \in {"validate", "spawned"}
    BY <1>0, <1>2, NextOutcomeStep
       DEF BaseInv, GuardInv, OutcomeStep, Moves, Decides, Step, Emit
  <2>3. pc[o] = "validate"
    BY <1>0, <2>1, <2>2 DEF RpcInv, Holding
  <2> QED
    BY <2>1, <2>3 DEF MaySendLeg1
<1> QED
  BY <1>0, <1>1, <1>2 DEF MaySendLeg1

\* A tripped switch lets nobody start: a first leg sent while it is tripped
\* belongs to a goroutine that had passed the check before the trip.
THEOREM TrippedAdmits == Spec => TrippedAdmitsNobody
<1>1. BaseInv /\ [Next]_vars =>
        [killSwitch = "TRIPPED" /\ killSwitch' = "TRIPPED" => MaySendLeg1' \subseteq MaySendLeg1]_vars
  BY AdmitsNobody
<1> QED
  BY <1>1, BaseAlways, PTL DEF TrippedAdmitsNobody, Spec

-------------------------------------------------------------------------------
(* The types *)

HostInv ==
    /\ Len(oppCh) <= OppChCap
    /\ loop \in {"running", "stopped"}
    /\ inFlight \subseteq Symbols
    /\ enginePnL \in Int
    /\ ctxDone \in BOOLEAN /\ exited \in BOOLEAN

LEMMA InitHost == Init => HostInv
<1>1. OppChCap \in Nat /\ Len(<< >>) = 0
  BY ExecutionAssumption
<1>2. ASSUME Init PROVE Len(oppCh) <= OppChCap /\ enginePnL \in Int
  BY <1>1, <1>2 DEF Init
<1> QED
  BY <1>2 DEF Init, HostInv

LEMMA NextHost == BaseInv /\ HostInv /\ [Next]_vars => HostInv'
<1> SUFFICES ASSUME BaseInv, HostInv, [Next]_vars PROVE HostInv'
  OBVIOUS
<1>0. oppCh \in Seq(Opps) /\ OppChCap \in Nat
  BY ExecutionAssumption DEF BaseInv, GuardInv, QueueInv
<1> USE DEF HostInv
<1>1. CASE UNCHANGED <<oppCh, loop, inFlight, enginePnL, hostVars>>
  BY <1>1 DEF hostVars, Symbols
<1>2. ASSUME NEW o \in Opps, Submit(o) \/ Execute(o) PROVE HostInv'
  <2>1. CASE Submit(o)
    <3>1. Len(oppCh') <= OppChCap
      BY <1>0, <2>1 DEF Submit, HasRoom
    <3> QED
      BY <2>1, <3>1 DEF Submit, tradeVars, hostVars, Symbols
  <2>2. CASE SkipInFlight(o) \/ SubmitLeg1(o) \/ RiskRejected(o) \/ TripReturned(o) \/ BookRisk(o)
             \/ Leg1Missed(o) \/ Leg1Filled(o) \/ Leg2Returns(o) \/ Reversed(o)
             \/ ReverseFailed(o) \/ Emit(o)
    BY <1>1, <2>2 DEF SkipInFlight, SubmitLeg1, RiskRejected, TripReturned, BookRisk, Leg1Missed,
         Leg1Filled, Leg2Returns, Reversed, ReverseFailed, Emit, queueVars, tradeVars
  <2>3. CASE Acquire(o)
    BY <2>3 DEF Acquire, queueVars, tradeVars, hostVars, Symbols
  <2>4. CASE BookEngine(o)
    <3>1. PnL(o) \in Int
      BY PnLType DEF BaseInv
    <3>2. enginePnL' \in Int
      BY <2>4, <3>1 DEF BookEngine
    <3> QED
      BY <2>4, <3>2 DEF BookEngine, queueVars, hostVars, Symbols
  <2>5. CASE Release(o)
    BY <2>5 DEF Release, DeleteMark, queueVars, tradeVars, hostVars, Symbols
  <2> QED
    BY <1>2, <2>1, <2>2, <2>3, <2>4, <2>5 DEF Execute
<1>3. ASSUME NEW o \in Opps, NEW leg \in Legs, VenueAnswers(o, leg) PROVE HostInv'
  BY <1>1, <1>3 DEF VenueAnswers, queueVars
<1>4. ASSUME NEW p, OperatorCall(p) \/ InRiskEngine(p) PROVE HostInv'
  BY <1>1, <1>4 DEF OperatorCall, InRiskEngine, execVars, hostVars
<1>5. CASE Dispatch
  <2>1. Len(oppCh') <= OppChCap
    BY <1>0, <1>5 DEF Dispatch
  <2> QED
    BY <1>5, <2>1 DEF Dispatch, tradeVars, hostVars, Symbols
<1>6. CASE StopLoop \/ Shutdown \/ Exit
  BY <1>6 DEF StopLoop, Shutdown, Exit, queueVars, tradeVars, hostVars, Symbols
<1>7. CASE UNCHANGED vars
  BY <1>1, <1>7 DEF vars, execVars, hostVars
<1> QED
  BY <1>2, <1>3, <1>4, <1>5, <1>6, <1>7 DEF Next

LEMMA OrderTypeOK ==
    ASSUME NEW ord \in OrderType, ord.executed <= ord.qty, ord.reported <= ord.executed
    PROVE  OrderOK(ord)
BY DEF OrderType, OrderOK, NotSent

\* The execution engine and the risk engine under it keep their types, and
\* oppCh its capacity, for any constants.
THEOREM EngineTypes == Spec => []TypeOK
<1>1. BaseInv /\ HostInv => TypeOK
  <2> SUFFICES ASSUME BaseInv, HostInv PROVE TypeOK
    OBVIOUS
  <2>1. RiskTypeOK /\ pc \in [Opps -> PC] /\ oppCh \in Seq(Opps)
    BY DEF BaseInv, GuardInv, QueueInv
  <2>2. TradeTypes /\ published \in [Opps -> Seq(Outcome)]
    BY DEF BaseInv, FlowInv, AnnounceInv
  <2>3. DOMAIN order = Opps /\ \A o \in Opps : DOMAIN order[o] = Legs
    BY <2>2 DEF TradeTypes
  <2>4. \A o \in Opps, leg \in Legs : OrderOK(order[o][leg])
    BY <2>2, OrderTypeOK DEF TradeTypes
  <2> QED
    BY <2>1, <2>2, <2>3, <2>4 DEF TypeOK, HostInv, Symbols, TradeTypes, ResultType
<1> QED
  BY <1>1, BaseAlways, InitHost, NextHost, PTL DEF Spec

-------------------------------------------------------------------------------
(* The two books *)

\* A relation between sets of executions and figures that adds up amounts v:
\* it has the empty set with 0, and with a set and its figure also the set with
\* one execution more.  The least such relation is the sum, and this is the
\* form of it that needs no recursion over finite sets.
AddsUp(v, R) ==
    /\ <<{}, 0>> \in R
    /\ \A S \in SUBSET Opps, d \in Int : \A o \in Opps \ S :
          <<S, d>> \in R => <<S \union {o}, d + v[o]>> \in R

IsTotal(v, S, d) == \A R \in SUBSET ((SUBSET Opps) \X Int) : AddsUp(v, R) => <<S, d>> \in R

\* Nothing adds up to 0, and only to 0.
LEMMA TotalNone ==
    ASSUME NEW v
    PROVE  IsTotal(v, {}, 0)
BY DEF IsTotal, AddsUp

LEMMA TotalOfNone ==
    ASSUME NEW v \in [Opps -> Int], NEW d, IsTotal(v, {}, d)
    PROVE  d = 0
<1> DEFINE R == {x \in (SUBSET Opps) \X Int : x[1] = {} => x[2] = 0}
<1>1. R \in SUBSET ((SUBSET Opps) \X Int)
  OBVIOUS
<1>2. AddsUp(v, R)
  <2>1. <<{}, 0>> \in R
    OBVIOUS
  <2>2. ASSUME NEW S \in SUBSET Opps, NEW e \in Int, NEW o \in Opps \ S
        PROVE  <<S \union {o}, e + v[o]>> \in R
    <3>1. S \union {o} \in SUBSET Opps /\ S \union {o} # {} /\ e + v[o] \in Int
      OBVIOUS
    <3> QED
      BY <3>1
  <2> QED
    BY <2>1, <2>2 DEF AddsUp
<1>3. <<{}, d>> \in R
  BY <1>1, <1>2 DEF IsTotal
<1> QED
  BY <1>3

LEMMA TotalAdd ==
    ASSUME NEW v \in [Opps -> Int], NEW S \in SUBSET Opps, NEW o \in Opps \ S, NEW d \in Int,
           IsTotal(v, S, d)
    PROVE  IsTotal(v, S \union {o}, d + v[o])
BY DEF IsTotal, AddsUp

\* Taking one execution out takes its amount out; what its amount is
\* afterwards makes no difference.
LEMMA TotalRemove ==
    ASSUME NEW v \in [Opps -> Int], NEW w \in [Opps -> Int], NEW S \in SUBSET Opps,
           NEW o \in S, NEW d \in Int, IsTotal(v, S, d),
           \A q \in Opps : q # o => w[q] = v[q]
    PROVE  IsTotal(w, S \ {o}, d - v[o])
<1> SUFFICES ASSUME NEW Q \in SUBSET ((SUBSET Opps) \X Int), AddsUp(w, Q)
             PROVE  <<S \ {o}, d - v[o]>> \in Q
  BY DEF IsTotal
<1> DEFINE In(T, e) == IF o \in T THEN <<T \ {o}, e - v[o]>> \in Q ELSE <<T, e>> \in Q
           R == {x \in (SUBSET Opps) \X Int : In(x[1], x[2])}
<1>1. R \in SUBSET ((SUBSET Opps) \X Int) /\ o \in Opps /\ v[o] \in Int
  OBVIOUS
<1>2. \A T \in SUBSET Opps, e \in Int : <<T, e>> \in R <=> In(T, e)
  OBVIOUS
<1>3. In({}, 0)
  BY DEF AddsUp
<1>4. ASSUME NEW T \in SUBSET Opps, NEW e \in Int, NEW q \in Opps \ T, In(T, e)
      PROVE  In(T \union {q}, e + v[q])
  <2>0. v[q] \in Int /\ e + v[q] \in Int /\ e - v[o] \in Int
    OBVIOUS
  <2>1. CASE o \in T
    <3>1. <<T \ {o}, e - v[o]>> \in Q /\ T \ {o} \in SUBSET Opps /\ q \in Opps \ (T \ {o})
      BY <1>4, <2>1
    <3>2. <<(T \ {o}) \union {q}, (e - v[o]) + w[q]>> \in Q
      BY <2>0, <3>1 DEF AddsUp
    <3>3. w[q] = v[q] /\ (T \ {o}) \union {q} = (T \union {q}) \ {o}
      BY <2>1
    <3>4. (e - v[o]) + v[q] = (e + v[q]) - v[o]
      BY <1>1, <2>0
    <3> QED
      BY <2>1, <3>2, <3>3, <3>4
  <2>2. CASE o \notin T /\ q = o
    <3>1. (T \union {q}) \ {o} = T /\ (e + v[q]) - v[o] = e
      BY <1>1, <2>2
    <3> QED
      BY <1>4, <2>2, <3>1
  <2>3. CASE o \notin T /\ q # o
    <3>1. <<T, e>> \in Q /\ w[q] = v[q]
      BY <1>4, <2>3
    <3>2. <<T \union {q}, e + w[q]>> \in Q
      BY <3>1 DEF AddsUp
    <3> QED
      BY <2>3, <3>1, <3>2
  <2> QED
    BY <2>1, <2>2, <2>3
<1>5. <<S, d>> \in R
  <2> HIDE DEF In
  <2>1. <<{}, 0>> \in R
    BY <1>2, <1>3
  <2>2. ASSUME NEW T \in SUBSET Opps, NEW e \in Int, NEW q \in Opps \ T, <<T, e>> \in R
        PROVE  <<T \union {q}, e + v[q]>> \in R
    <3>1. T \union {q} \in SUBSET Opps /\ e + v[q] \in Int
      OBVIOUS
    <3> QED
      BY <1>2, <1>4, <2>2, <3>1
  <2> HIDE DEF R
  <2>3. AddsUp(v, R)
    BY <2>1, <2>2 DEF AddsUp
  <2> QED
    BY <1>1, <2>3 DEF IsTotal
<1> QED
  BY <1>2, <1>5

\* Executions between their two bookings.
Between == {o \in Opps : pc[o] = "bookRisk"}

\* The engine is ahead of the risk engine by the total of what is between the
\* two bookings.
BooksInv ==
    \A v \in [Opps -> Int] :
        (\A o \in Between : v[o] = PnL(o)) => IsTotal(v, Between, enginePnL - dailyPnL)

CountInv ==
    totalFills = Cardinality(Booked("CLEAN")) /\ reversals = Cardinality(Booked("REVERSED"))

\* What a step does to the books.
BookStep ==
    \/ \E o \in Opps : BookRisk(o)
    \/ /\ UNCHANGED portfolio
       /\ \A q \in Opps : pc[q] = "bookRisk" =>
             pc'[q] = pc[q] /\ result'[q] = result[q] /\ outcome'[q] = outcome[q]
       /\ \/ \E o \in Opps : BookEngine(o)
          \/ /\ UNCHANGED enginePnL
             /\ \A q \in Opps : pc'[q] = "bookRisk" => pc[q] = "bookRisk"

LEMMA RiskOnlyPortfolio ==
    ASSUME NEW p, RiskOnly(p)
    PROVE  UNCHANGED portfolio
BY DEF RiskOnly, RiskStep, CallValidate, LoadKillSwitch, ReadDaily, ReadPeak, TripCAS,
       WriteReason, ClearReason, TornReasonRead, Return, CallReset, CallTrip, portfolio

LEMMA NextBookStep == QueueInv /\ TradeTypes /\ [Next]_vars => BookStep
<1> SUFFICES ASSUME QueueInv, TradeTypes, [Next]_vars, ~\E o \in Opps : BookRisk(o)
             PROVE  BookStep
  BY DEF BookStep
<1>0. UNCHANGED portfolio
  BY NextRiskCases, RiskOnlyPortfolio DEF riskVars, portfolio
<1>t. pc \in [Opps -> PC] /\ result \in [Opps -> [Legs -> ResultType]]
      /\ outcome \in [Opps -> Outcome \union {"none"}]
  BY DEF TradeTypes
<1>m. ASSUME NEW o \in Opps, pc[o] # "bookRisk", NEW to, to # "bookRisk", Step(o, to),
             \A q \in Opps : q # o => result'[q] = result[q] /\ outcome'[q] = outcome[q],
             UNCHANGED enginePnL
      PROVE  BookStep
  <2>1. \A q \in Opps : q # o => pc'[q] = pc[q]
    BY <1>t, <1>m DEF Step
  <2>2. pc'[o] = to
    BY <1>t, <1>m DEF Step
  <2> QED
    BY <1>0, <1>m, <2>1, <2>2 DEF BookStep
<1>1. CASE UNCHANGED <<pc, result, outcome, enginePnL>>
  BY <1>0, <1>1 DEF BookStep
<1>2. ASSUME NEW o \in Opps, Submit(o) \/ Execute(o) PROVE BookStep
  <2>1. CASE Submit(o)
    BY <1>m, <2>1 DEF Submit, tradeVars
  <2>2. CASE SkipInFlight(o)
    BY <1>m, <2>2 DEF SkipInFlight, tradeVars
  <2>3. CASE Acquire(o)
    BY <1>m, <2>3 DEF Acquire, tradeVars
  <2>4. CASE RiskRejected(o)
    BY <1>m, <1>t, <2>4 DEF RiskRejected, Decide
  <2>5. CASE SubmitLeg1(o)
    BY <1>m, <2>5 DEF SubmitLeg1
  <2>6. CASE Leg1Missed(o)
    BY <1>m, <1>t, <2>6 DEF Leg1Missed, Decide
  <2>7. CASE Leg1Filled(o)
    BY <1>m, <1>t, <2>7 DEF Leg1Filled
  <2>8. CASE Leg2Returns(o)
    BY <1>m, <1>t, <2>8 DEF Leg2Returns, Decide
  <2>9. CASE Reversed(o)
    BY <1>m, <1>t, <2>9 DEF Reversed, Decide
  <2>10. CASE ReverseFailed(o)
    BY <1>m, <1>t, <2>10 DEF ReverseFailed, TripUnhedged, Decide
  <2>11. CASE TripReturned(o)
    BY <1>m, <2>11 DEF TripReturned, tradeVars
  <2>12. CASE BookEngine(o)
    <3>1. \A q \in Opps : pc[q] = "bookRisk" =>
             pc'[q] = pc[q] /\ result'[q] = result[q] /\ outcome'[q] = outcome[q]
      BY <1>t, <2>12 DEF BookEngine, Step
    <3> QED
      BY <1>0, <2>12, <3>1 DEF BookStep
  <2>13. CASE Emit(o)
    BY <1>m, <2>13 DEF Emit
  <2>14. CASE Release(o)
    BY <1>m, <2>14 DEF Release, tradeVars
  <2> QED
    BY <1>2, <2>1, <2>2, <2>3, <2>4, <2>5, <2>6, <2>7, <2>8, <2>9, <2>10, <2>11, <2>12,
       <2>13, <2>14 DEF Execute
<1>3. ASSUME NEW o \in Opps, NEW leg \in Legs, VenueAnswers(o, leg) PROVE BookStep
  BY <1>1, <1>3 DEF VenueAnswers
<1>4. ASSUME NEW p, OperatorCall(p) \/ InRiskEngine(p) PROVE BookStep
  BY <1>1, <1>4 DEF OperatorCall, InRiskEngine, execVars
<1>5. CASE Dispatch
  <2>1. Head(oppCh) \in Opps /\ pc[Head(oppCh)] = "queued"
    BY <1>5 DEF Dispatch, QueueInv
  <2> QED
    BY <1>m, <1>5, <2>1 DEF Dispatch, tradeVars
<1>6. CASE StopLoop \/ Shutdown \/ Exit
  BY <1>1, <1>6 DEF StopLoop, Shutdown, Exit, tradeVars
<1>7. CASE UNCHANGED vars
  BY <1>1, <1>7 DEF vars, execVars
<1> QED
  BY <1>2, <1>3, <1>4, <1>5, <1>6, <1>7 DEF Next

\* The figures stay those of the steps of BookStep.
LEMMA NextBooks == BaseInv /\ HostInv /\ BooksInv /\ [Next]_vars => BooksInv'
<1> SUFFICES ASSUME BaseInv, HostInv, BooksInv, [Next]_vars,
                    NEW v \in [Opps -> Int], \A o \in Between' : v[o] = PnL(o)'
             PROVE  IsTotal(v, Between', enginePnL' - dailyPnL')
  BY DEF BooksInv, IsTotal, AddsUp
<1> DEFINE ahead == enginePnL - dailyPnL
<1>0. /\ TradeTypes /\ FlowInv /\ QueueInv
      /\ enginePnL \in Int /\ dailyPnL \in Int /\ ahead \in Int /\ Between \in SUBSET Opps
  BY DEF BaseInv, GuardInv, FlowInv, HostInv, RiskTypeOK, Between
<1>t. pc \in [Opps -> PC] /\ \A o \in Opps : PnL(o) \in Int
  BY <1>0, PnLType DEF TradeTypes
<1>1. ASSUME NEW o \in Opps, BookRisk(o) PROVE IsTotal(v, Between', enginePnL' - dailyPnL')
  <2>1. /\ pc[o] = "bookRisk" /\ pc' = [pc EXCEPT ![o] = "emit"]
        /\ UNCHANGED <<result, outcome, enginePnL>>
    BY <1>1 DEF BookRisk, Step, tradeVars
  <2>2. dailyPnL' = dailyPnL + PnL(o)
    BY <1>0, <1>1, BookedAmount DEF RecordCleanExecution, RecordReversal
  <2>3. o \in Between /\ Between' = Between \ {o}
    BY <1>t, <2>1 DEF Between
  <2>4. \A q \in Opps : PnL(q)' = PnL(q)
    BY <2>1 DEF PnL
  <2> DEFINE u == [v EXCEPT ![o] = PnL(o)]
  <2>5. u \in [Opps -> Int] /\ u[o] = PnL(o) /\ \A q \in Opps : q # o => u[q] = v[q]
    BY <1>t
  <2> HIDE DEF u
  <2>6. \A q \in Between : u[q] = PnL(q)
    BY <2>3, <2>4, <2>5 DEF Between
  <2>7. IsTotal(u, Between, ahead)
    BY <2>5, <2>6 DEF BooksInv
  <2>8. \A q \in Opps : q # o => v[q] = u[q]
    BY <2>5
  <2> HIDE DEF ahead
  <2>9. IsTotal(v, Between \ {o}, ahead - u[o])
    BY <1>0, <2>3, <2>5, <2>7, <2>8, TotalRemove
  <2>10. enginePnL' - dailyPnL' = ahead - u[o]
    BY <1>0, <1>t, <2>1, <2>2, <2>5 DEF ahead
  <2> QED
    BY <2>3, <2>9, <2>10
<1>2. ASSUME NEW o \in Opps, BookEngine(o), UNCHANGED portfolio
      PROVE  IsTotal(v, Between', enginePnL' - dailyPnL')
  <2>1. /\ pc[o] = "bookEngine" /\ pc' = [pc EXCEPT ![o] = "bookRisk"]
        /\ enginePnL' = enginePnL + PnL(o) /\ dailyPnL' = dailyPnL
        /\ UNCHANGED <<result, outcome>>
    BY <1>2 DEF BookEngine, Step, portfolio
  <2>2. o \in Opps \ Between /\ Between' = Between \union {o}
    BY <1>t, <2>1 DEF Between
  <2>3. \A q \in Opps : PnL(q)' = PnL(q)
    BY <2>1 DEF PnL
  <2>4. v[o] = PnL(o) /\ \A q \in Between : v[q] = PnL(q)
    BY <1>0, <2>2, <2>3
  <2>5. IsTotal(v, Between, ahead)
    BY <2>4 DEF BooksInv
  <2> HIDE DEF ahead
  <2>6. IsTotal(v, Between \union {o}, ahead + v[o])
    BY <1>0, <2>2, <2>5, TotalAdd
  <2>7. enginePnL' - dailyPnL' = ahead + v[o]
    BY <1>0, <1>t, <2>1, <2>4 DEF ahead
  <2> QED
    BY <2>2, <2>6, <2>7
<1>3. ASSUME UNCHANGED <<portfolio, enginePnL>>,
             \A q \in Opps : pc[q] = "bookRisk" =>
                pc'[q] = pc[q] /\ result'[q] = result[q] /\ outcome'[q] = outcome[q],
             \A q \in Opps : pc'[q] = "bookRisk" => pc[q] = "bookRisk"
      PROVE  IsTotal(v, Between', enginePnL' - dailyPnL')
  <2>1. Between' = Between
    BY <1>3 DEF Between
  <2>2. \A q \in Between : PnL(q)' = PnL(q)
    BY <1>3 DEF Between, PnL
  <2>3. enginePnL' - dailyPnL' = enginePnL - dailyPnL
    BY <1>3 DEF portfolio
  <2>4. IsTotal(v, Between, enginePnL - dailyPnL)
    BY <2>1, <2>2 DEF BooksInv
  <2> QED
    BY <2>1, <2>3, <2>4
<1>4. BookStep
  BY <1>0, NextBookStep
<1> QED
  BY <1>1, <1>2, <1>3, <1>4 DEF BookStep

\* Only BookRisk changes what is booked, by the execution it books.
LEMMA BookedMoves ==
    ASSUME BaseInv, [Next]_vars, ~\E o \in Opps : BookRisk(o),
           NEW out \in {"CLEAN", "REVERSED"}
    PROVE  Booked(out)' = Booked(out)
<1>0. /\ pc \in [Opps -> PC] /\ outcome \in [Opps -> Outcome \union {"none"}]
      /\ BookStep /\ OutcomeStep /\ AnnounceInv
      /\ \A o \in Opps : Flow(o)
  BY NextBookStep, NextOutcomeStep DEF BaseInv, GuardInv, FlowInv, TradeTypes
<1> SUFFICES ASSUME NEW o \in Opps PROVE o \in Booked(out)' <=> o \in Booked(out)
  BY DEF Booked
<1> DEFINE in == outcome[o] = out /\ pc[o] \notin {"bookEngine", "bookRisk"}
<1>1. CASE pc[o] = "bookRisk"
  <2>1. pc'[o] = "bookRisk"
    BY <1>0, <1>1 DEF BookStep
  <2> QED
    BY <1>1, <2>1 DEF Booked
<1>2. CASE pc[o] # "bookRisk"
  <2>1. CASE UNCHANGED <<pc, outcome>>
    BY <2>1 DEF Booked
  <2>2. ASSUME NEW q \in Opps, NEW to \in PC, Moves(pc[q], to), Step(q, to), UNCHANGED outcome
        PROVE  o \in Booked(out)' <=> o \in Booked(out)
    <3>1. CASE q # o
      <4>1. pc'[o] = pc[o]
        BY <1>0, <2>2, <3>1 DEF Step
      <4> QED
        BY <2>2, <4>1 DEF Booked
    <3>2. CASE q = o
      <4>1. pc'[o] = to
        BY <1>0, <2>2, <3>2 DEF Step
      <4>2. \/ pc[o] = "bookEngine" /\ to = "bookRisk"
            \/ pc[o] \notin {"bookEngine", "bookRisk"} /\ to \notin {"bookEngine", "bookRisk"}
        BY <1>2, <2>2, <3>2 DEF Moves
      <4> QED
        BY <2>2, <4>1, <4>2 DEF Booked
    <3> QED
      BY <3>1, <3>2
  <2>3. ASSUME NEW q \in Opps, NEW to \in PC, NEW x \in Outcome,
               Decides(pc[q], to, x), Step(q, to), Decide(q, x)
        PROVE  o \in Booked(out)' <=> o \in Booked(out)
    <3>1. CASE q # o
      <4>1. pc'[o] = pc[o] /\ outcome'[o] = outcome[o]
        BY <1>0, <2>3, <3>1 DEF Step, Decide
      <4> QED
        BY <4>1 DEF Booked
    <3>2. CASE q = o
      <4>1. pc'[o] = to /\ outcome'[o] = x
        BY <1>0, <2>3, <3>2 DEF Step, Decide
      <4>2. pc[o] \in Undecided /\ (x \in {"CLEAN", "REVERSED"} => to = "bookEngine")
        BY <2>3, <3>2 DEF Decides, Undecided
      <4>3. outcome[o] = "none"
        BY <1>0, <4>2 DEF Flow
      <4> QED
        BY <4>1, <4>2, <4>3 DEF Booked
    <3> QED
      BY <3>1, <3>2
  <2>4. ASSUME NEW q \in Opps, Emit(q) PROVE o \in Booked(out)' <=> o \in Booked(out)
    <3>1. pc[q] = "emit" /\ pc' = [pc EXCEPT ![q] = "release"] /\ UNCHANGED outcome
      BY <1>0, <2>4, EmitPublishes DEF Emit
    <3>2. pc'[o] = pc[o] \/ (pc[o] = "emit" /\ pc'[o] = "release")
      BY <1>0, <3>1
    <3> QED
      BY <3>1, <3>2 DEF Booked
  <2> QED
    BY <1>0, <2>1, <2>2, <2>3, <2>4 DEF OutcomeStep
<1> QED
  BY <1>1, <1>2

LEMMA BookedFinite ==
    ASSUME NEW out
    PROVE  IsFiniteSet(Booked(out)) /\ Booked(out) \subseteq Opps
BY ExecutionAssumption, FS_Subset DEF Booked

LEMMA NextCount == BaseInv /\ CountInv /\ [Next]_vars => CountInv'
<1> SUFFICES ASSUME BaseInv, CountInv, [Next]_vars PROVE CountInv'
  OBVIOUS
<1>0. /\ pc \in [Opps -> PC] /\ FlowInv /\ TradeTypes /\ QueueInv
  BY DEF BaseInv, GuardInv, FlowInv
<1>1. CASE ~\E o \in Opps : BookRisk(o)
  <2>1. UNCHANGED portfolio
    BY <1>0, <1>1, NextBookStep DEF BookStep
  <2>2. Booked("CLEAN")' = Booked("CLEAN") /\ Booked("REVERSED")' = Booked("REVERSED")
    BY <1>1, BookedMoves
  <2> QED
    BY <2>1, <2>2 DEF CountInv, portfolio
<1>2. ASSUME NEW o \in Opps, BookRisk(o) PROVE CountInv'
  <2>1. /\ pc[o] = "bookRisk" /\ pc' = [pc EXCEPT ![o] = "emit"] /\ UNCHANGED outcome
        /\ outcome[o] \in {"CLEAN", "REVERSED"}
    BY <1>0, <1>2 DEF BookRisk, Step, tradeVars, FlowInv, Flow
  <2>2. pc'[o] = "emit" /\ \A q \in Opps : q # o => pc'[q] = pc[q]
    BY <1>0, <2>1
  <2>3. \A out : Booked(out)' = IF out = outcome[o] THEN Booked(out) \union {o} ELSE Booked(out)
    BY <2>1, <2>2 DEF Booked
  <2>4. \A out : o \notin Booked(out)
    BY <2>1 DEF Booked
  <2>5. ASSUME NEW out
        PROVE  Cardinality(Booked(out) \union {o}) = Cardinality(Booked(out)) + 1
    BY <2>4, BookedFinite, FS_AddElement, Zenon
  <2>6. CASE outcome[o] = "CLEAN"
    <3>1. totalFills' = totalFills + 1 /\ reversals' = reversals
      BY <1>2, <2>6 DEF BookRisk, RecordInRisk, RecordCleanExecution
    <3>2. Booked("CLEAN")' = Booked("CLEAN") \union {o} /\ Booked("REVERSED")' = Booked("REVERSED")
      BY <2>3, <2>6
    <3> QED
      BY <2>5, <3>1, <3>2 DEF CountInv
  <2>7. CASE outcome[o] = "REVERSED"
    <3>1. totalFills' = totalFills /\ reversals' = reversals + 1
      BY <1>2, <2>7 DEF BookRisk, RecordInRisk, RecordReversal
    <3>2. Booked("REVERSED")' = Booked("REVERSED") \union {o} /\ Booked("CLEAN")' = Booked("CLEAN")
      BY <2>3, <2>7
    <3> QED
      BY <2>5, <3>1, <3>2 DEF CountInv
  <2> QED
    BY <2>1, <2>6, <2>7
<1> QED
  BY <1>1, <1>2

LEMMA InitBooks == Init => BooksInv /\ CountInv
<1> SUFFICES ASSUME Init PROVE BooksInv /\ CountInv
  OBVIOUS
<1>1. /\ Between = {} /\ Booked("CLEAN") = {} /\ Booked("REVERSED") = {}
      /\ totalFills = 0 /\ reversals = 0
  BY DEF Init, RiskInit, Between, Booked
<1>2. enginePnL - dailyPnL = 0
  BY DEF Init, RiskInit
<1>3. BooksInv
  BY <1>1, <1>2, TotalNone DEF BooksInv
<1>4. CountInv
  BY <1>1, FS_EmptySet DEF CountInv
<1> QED
  BY <1>3, <1>4

\* The engine's own figure and the risk engine's are the same whenever nothing
\* is between the two bookings, and the risk engine's counters are the numbers
\* of executions that ended clean and reversed, for any number of executions
\* booking at once.
THEOREM BooksMatch == Spec => []BooksAgree
<1>1. BaseInv /\ HostInv /\ BooksInv /\ CountInv => BooksAgree
  <2> SUFFICES ASSUME BaseInv, HostInv, BooksInv, \A o \in Opps : pc[o] # "bookRisk"
               PROVE  enginePnL = dailyPnL
    BY DEF CountInv, BooksAgree
  <2>1. enginePnL \in Int /\ dailyPnL \in Int /\ Between = {}
    BY DEF BaseInv, HostInv, RiskTypeOK, Between
  <2> DEFINE zero == [o \in Opps |-> 0]
  <2>2. zero \in [Opps -> Int]
    OBVIOUS
  <2> HIDE DEF zero
  <2>3. IsTotal(zero, {}, enginePnL - dailyPnL)
    BY <2>1, <2>2 DEF BooksInv
  <2>4. enginePnL - dailyPnL = 0
    BY <2>2, <2>3, TotalOfNone
  <2> QED
    BY <2>1, <2>4
<1> QED
  BY <1>1, BaseAlways, InitHost, NextHost, InitBooks, NextBooks, NextCount, PTL DEF Spec

-------------------------------------------------------------------------------
(* The engine as callers of the risk engine, one per symbol *)

\* A figure under check and a reason to write exist only while they are needed.
Cleared ==
    \A p \in Procs :
        /\ rpc[p] # "readPeak" => seenPnL[p] = 0
        /\ rpc[p] \notin {"cas", "writeReason"} => tripReason[p] = NoReason

LEMMA InitCleared == Init => Cleared
BY DEF Init, RiskInit, Cleared

LEMMA NextCleared == RiskTypeOK /\ Cleared /\ [Next]_vars => Cleared'
<1> SUFFICES ASSUME RiskTypeOK, Cleared, [Next]_vars PROVE Cleared'
  OBVIOUS
<1> USE DEF Cleared, RiskTypeOK, Goto
<1>1. CASE UNCHANGED riskVars
  BY <1>1 DEF riskVars
<1>2. ASSUME NEW p \in Procs, RiskOnly(p) PROVE Cleared'
  <2>1. CASE CallValidate(p) \/ LoadKillSwitch(p)
    BY <2>1 DEF CallValidate, LoadKillSwitch
  <2>2. CASE ReadDaily(p)
    BY <2>2 DEF ReadDaily
  <2>3. CASE ReadPeak(p)
    BY <2>3 DEF ReadPeak
  <2>4. CASE TripCAS(p)
    BY <2>4 DEF TripCAS
  <2>5. CASE WriteReason(p) \/ ClearReason(p)
    BY <2>5 DEF WriteReason, ClearReason
  <2>6. CASE TornReasonRead(p) \/ Return(p)
    BY <2>6 DEF TornReasonRead, Return
  <2>7. CASE \E token \in STRING : CallReset(p, token)
    BY <2>7 DEF CallReset
  <2>8. CASE \E reason \in CallerReason : CallTrip(p, reason)
    BY <2>8 DEF CallTrip
  <2> QED
    BY <1>2, <2>1, <2>2, <2>3, <2>4, <2>5, <2>6, <2>7, <2>8 DEF RiskOnly, RiskStep
<1>3. ASSUME NEW o \in Opps, BookRisk(o) PROVE Cleared'
  BY <1>3 DEF BookRisk, RecordInRisk, RecordCleanExecution, RecordReversal
<1> QED
  BY <1>1, <1>2, <1>3, NextRiskCases

\* Who the goroutine p is for the risk engine.
Seat(p) == IF p \in Operators THEN p ELSE SymbolOf[p]

Alone(E) == \A o1, o2 \in E : SymbolOf[o1] = SymbolOf[o2] => o1 = o2

\* F has f of everybody executing and every operator at their seats.
Shows(F, f, E, idle) ==
    /\ F = [s \in Symbols \union Operators |-> F[s]]
    /\ \A p \in E \union Operators : Seat(p) \in Symbols \union Operators /\ F[Seat(p)] = f[p]
    /\ \A s \in Symbols : (\A o \in E : SymbolOf[o] # s) => F[s] = idle

LEMMA PerSymbolShows ==
    ASSUME NEW f, NEW E \in SUBSET Opps, Alone(E), NEW idle
    PROVE  Shows(PerSymbol(f, E, idle), f, E, idle)
<1>0. Opps \intersect Operators = {} /\ Symbols \intersect Operators = {}
  BY ExecutionAssumption DEF Symbols
<1>1. ASSUME NEW o \in E
      PROVE  /\ SymbolOf[o] \in Symbols /\ SymbolOf[o] \notin Operators /\ Seat(o) = SymbolOf[o]
             /\ (CHOOSE q \in E : SymbolOf[q] = SymbolOf[o]) = o
  BY <1>0 DEF Alone, Symbols, Seat
<1>2. \A o \in E : PerSymbol(f, E, idle)[SymbolOf[o]] = f[o]
  BY <1>1 DEF PerSymbol
<1>3. \A p \in Operators : PerSymbol(f, E, idle)[p] = f[p] /\ Seat(p) = p
  BY DEF PerSymbol, Seat
<1>4. \A s \in Symbols : (\A o \in E : SymbolOf[o] # s) => PerSymbol(f, E, idle)[s] = idle
  BY <1>0 DEF PerSymbol
<1>5. PerSymbol(f, E, idle) = [s \in Symbols \union Operators |-> PerSymbol(f, E, idle)[s]]
  BY DEF PerSymbol
<1> QED
  BY <1>1, <1>2, <1>3, <1>4, <1>5 DEF Shows

\* Every seat is an operator's, that of somebody executing, or idle.
LEMMA SeatCases ==
    ASSUME NEW E \in SUBSET Opps, NEW s \in Symbols \union Operators
    PROVE  \/ \E p \in E \union Operators : s = Seat(p)
           \/ s \in Symbols /\ \A o \in E : SymbolOf[o] # s
<1>1. Opps \intersect Operators = {}
  BY ExecutionAssumption
<1> QED
  BY <1>1 DEF Seat

LEMMA SeatsApart ==
    ASSUME NEW E \in SUBSET Opps, Alone(E),
           NEW p \in E \union Operators, NEW q \in E \union Operators, Seat(p) = Seat(q)
    PROVE  p = q
<1>1. Opps \intersect Operators = {} /\ Symbols \intersect Operators = {}
  BY ExecutionAssumption DEF Symbols
<1>2. \A o \in Opps : SymbolOf[o] \in Symbols
  BY DEF Symbols
<1> QED
  BY <1>1, <1>2 DEF Seat, Alone

\* One goroutine moving is one seat moving.
SeatMoves(F, G, p, x) == G = [F EXCEPT ![Seat(p)] = x]

LEMMA PerSymbolMoves ==
    ASSUME NEW E \in SUBSET Opps, Alone(E), NEW f, NEW g, NEW idle,
           NEW p \in E \union Operators,
           \A q \in E \union Operators : q # p => g[q] = f[q]
    PROVE  SeatMoves(PerSymbol(f, E, idle), PerSymbol(g, E, idle), p, g[p])
<1> DEFINE F == PerSymbol(f, E, idle)
           G == PerSymbol(g, E, idle)
<1>1. Shows(F, f, E, idle)
  BY PerSymbolShows
<1>2. Shows(G, g, E, idle)
  BY PerSymbolShows
<1> HIDE DEF F, G
<1>3. ASSUME NEW s \in Symbols \union Operators
      PROVE  G[s] = IF s = Seat(p) THEN g[p] ELSE F[s]
  <2>1. ASSUME NEW q \in E \union Operators, s = Seat(q)
        PROVE  G[s] = IF s = Seat(p) THEN g[p] ELSE F[s]
    <3>1. s = Seat(p) <=> q = p
      BY <2>1, SeatsApart
    <3> QED
      BY <1>1, <1>2, <2>1, <3>1 DEF Shows
  <2>2. CASE s \in Symbols /\ \A o \in E : SymbolOf[o] # s
    <3>1. s # Seat(p)
      <4>1. Symbols \intersect Operators = {}
        BY ExecutionAssumption DEF Symbols
      <4> QED
        BY <2>2, <4>1 DEF Seat
    <3> QED
      BY <1>1, <1>2, <2>2, <3>1 DEF Shows
  <2>3. (\E q \in E \union Operators : s = Seat(q)) \/ (s \in Symbols /\ \A q \in E : SymbolOf[q] # s)
    BY SeatCases
  <2> QED
    BY <2>1, <2>2, <2>3
<1>4. G = [F EXCEPT ![Seat(p)] = g[p]]
  BY <1>1, <1>2, <1>3 DEF Shows
<1> QED
  BY <1>4 DEF F, G, SeatMoves

LEMMA PerSymbolStays ==
    ASSUME NEW E \in SUBSET Opps, Alone(E), NEW f, NEW g, NEW idle,
           \A q \in E \union Operators : g[q] = f[q]
    PROVE  PerSymbol(g, E, idle) = PerSymbol(f, E, idle)
<1> DEFINE F == PerSymbol(f, E, idle)
           G == PerSymbol(g, E, idle)
<1>1. Shows(F, f, E, idle)
  BY PerSymbolShows
<1>2. Shows(G, g, E, idle)
  BY PerSymbolShows
<1> HIDE DEF F, G
<1>3. ASSUME NEW s \in Symbols \union Operators PROVE G[s] = F[s]
  <2>1. (\E q \in E \union Operators : s = Seat(q)) \/ (s \in Symbols /\ \A q \in E : SymbolOf[q] # s)
    BY SeatCases
  <2> QED
    BY <1>1, <1>2, <2>1 DEF Shows
<1>4. G = F
  BY <1>1, <1>2, <1>3 DEF Shows
<1> QED
  BY <1>4 DEF F, G

\* Somebody with nothing to show joins or leaves those executing unseen.
LEMMA IdleUnseen ==
    ASSUME NEW D \in SUBSET Opps, NEW o \in Opps, o \notin D, NEW E, E = D \union {o}, Alone(E),
           NEW f, NEW idle, f[o] = idle
    PROVE  PerSymbol(f, E, idle) = PerSymbol(f, D, idle)
<1> DEFINE F == PerSymbol(f, D, idle)
           G == PerSymbol(f, E, idle)
<1>0. Alone(D) /\ E \in SUBSET Opps /\ D \subseteq E
  BY DEF Alone
<1>1. Shows(F, f, D, idle)
  BY <1>0, PerSymbolShows
<1>2. Shows(G, f, E, idle)
  BY <1>0, PerSymbolShows
<1> HIDE DEF F, G
<1>3. ASSUME NEW s \in Symbols \union Operators PROVE G[s] = F[s]
  <2>1. ASSUME NEW q \in D \union Operators, s = Seat(q) PROVE G[s] = F[s]
    BY <1>0, <1>1, <1>2, <2>1 DEF Shows
  <2>2. CASE s \in Symbols /\ \A q \in D : SymbolOf[q] # s
    <3>1. CASE s = SymbolOf[o]
      <4>1. Seat(o) = s /\ o \in E
        BY <3>1, ExecutionAssumption DEF Seat
      <4> QED
        BY <1>1, <1>2, <2>2, <4>1 DEF Shows
    <3>2. CASE s # SymbolOf[o]
      BY <1>1, <1>2, <2>2, <3>2 DEF Shows
    <3> QED
      BY <3>1, <3>2
  <2>3. (\E q \in D \union Operators : s = Seat(q)) \/ (s \in Symbols /\ \A q \in D : SymbolOf[q] # s)
    BY SeatCases
  <2> QED
    BY <2>1, <2>2, <2>3
<1>4. G = F
  BY <1>1, <1>2, <1>3 DEF Shows
<1> QED
  BY <1>4 DEF F, G

\* One step of the engine, as the risk engine sees it.
CallerStep ==
    \/ UNCHANGED riskVars /\ (Executing' = Executing \/ \E o \in Opps : Release(o))
    \/ \E o \in Opps : Acquire(o)
    \/ \E o \in Executing :
          /\ Executing' = Executing
          /\ \/ Return(o)
             \/ rpc[o] = "accepted" /\ CallTrip(o, "UNHEDGED_EXPOSURE")
             \/ BookRisk(o)
    \/ \E p \in Operators : OperatorCall(p)
    \/ \E p \in Procs : InRiskEngine(p)

LEMMA NextCallerStep ==
    ASSUME pc \in [Opps -> PC], QueueInv, RpcInv, [Next]_vars
    PROVE  CallerStep
<1>m. ASSUME NEW o \in Opps, NEW to \in PC, Step(o, to), pc[o] \in Holding <=> to \in Holding
      PROVE  Executing' = Executing
  BY <1>m DEF Step, Executing
<1>p. {"queued", "dropped", "spawned", "skipped", "leg1", "leg2", "reverse", "trip",
       "bookEngine", "bookRisk", "emit", "release"} \subseteq PC
  BY DEF PC, Waiting, Holding
<1>h. /\ {"validate", "leg1", "leg2", "reverse", "trip", "bookEngine", "bookRisk", "emit",
          "release"} = Holding
      /\ {"detected", "queued", "dropped", "spawned", "skipped"} \intersect Holding = {}
  BY DEF Holding
<1>1. CASE UNCHANGED <<riskVars, pc>>
  BY <1>1 DEF CallerStep, Executing
<1>2. ASSUME NEW o \in Opps, Submit(o) \/ Execute(o) PROVE CallerStep
  <2>1. CASE Submit(o)
    <3>1. Executing' = Executing
      BY <1>m, <1>p, <1>h, <2>1 DEF Submit
    <3> QED
      BY <2>1, <3>1 DEF Submit, CallerStep
  <2>2. CASE SkipInFlight(o)
    <3>1. Executing' = Executing
      BY <1>m, <1>p, <1>h, <2>2 DEF SkipInFlight
    <3> QED
      BY <2>2, <3>1 DEF SkipInFlight, CallerStep
  <2>3. CASE Acquire(o) \/ (Release(o) /\ UNCHANGED riskVars)
    BY <2>3 DEF CallerStep
  <2>4. CASE RiskRejected(o)
    <3>1. Executing' = Executing /\ o \in Executing
      BY <1>m, <1>p, <1>h, <2>4 DEF RiskRejected, Executing
    <3> QED
      BY <2>4, <3>1 DEF RiskRejected, CallerStep
  <2>5. CASE SubmitLeg1(o)
    <3>1. Executing' = Executing
      BY <1>m, <1>p, <1>h, <2>5 DEF SubmitLeg1
    <3> QED
      BY <2>5, <3>1 DEF SubmitLeg1, CallerStep
  <2>6. CASE Leg1Missed(o)
    <3>1. Executing' = Executing /\ o \in Executing
      BY <1>m, <1>p, <1>h, <2>6 DEF Leg1Missed, Executing
    <3> QED
      BY <2>6, <3>1 DEF Leg1Missed, CallerStep
  <2>7. CASE Leg1Filled(o)
    <3>1. Executing' = Executing
      BY <1>m, <1>p, <1>h, <2>7 DEF Leg1Filled
    <3> QED
      BY <2>7, <3>1 DEF Leg1Filled, CallerStep
  <2>8. CASE Leg2Returns(o)
    <3>1. Executing' = Executing
      BY <1>m, <1>p, <1>h, <2>8 DEF Leg2Returns
    <3> QED
      BY <2>8, <3>1 DEF Leg2Returns, CallerStep
  <2>9. CASE Reversed(o)
    <3>1. Executing' = Executing
      BY <1>m, <1>p, <1>h, <2>9 DEF Reversed
    <3> QED
      BY <2>9, <3>1 DEF Reversed, CallerStep
  <2>10. CASE ReverseFailed(o)
    <3>1. Executing' = Executing /\ o \in Executing
      BY <1>m, <1>p, <1>h, <2>10 DEF ReverseFailed, TripUnhedged, Executing
    <3>2. rpc[o] = "accepted"
      BY <2>10 DEF ReverseFailed, RpcInv
    <3> QED
      BY <2>10, <3>1, <3>2 DEF ReverseFailed, TripUnhedged, CallerStep
  <2>11. CASE TripReturned(o)
    <3>1. Executing' = Executing /\ o \in Executing
      BY <1>m, <1>p, <1>h, <2>11 DEF TripReturned, Executing
    <3> QED
      BY <2>11, <3>1 DEF TripReturned, CallerStep
  <2>12. CASE BookEngine(o)
    <3>1. Executing' = Executing
      BY <1>m, <1>p, <1>h, <2>12 DEF BookEngine
    <3> QED
      BY <2>12, <3>1 DEF BookEngine, CallerStep
  <2>13. CASE BookRisk(o)
    <3>1. Executing' = Executing /\ o \in Executing
      BY <1>m, <1>p, <1>h, <2>13 DEF BookRisk, Executing
    <3> QED
      BY <2>13, <3>1 DEF CallerStep
  <2>14. CASE Emit(o)
    <3>1. Executing' = Executing
      BY <1>m, <1>p, <1>h, <2>14 DEF Emit
    <3> QED
      BY <2>14, <3>1 DEF Emit, CallerStep
  <2>15. CASE Release(o)
    BY <2>3, <2>15 DEF Release
  <2> QED
    BY <1>2, <2>1, <2>2, <2>3, <2>4, <2>5, <2>6, <2>7, <2>8, <2>9, <2>10, <2>11, <2>12,
       <2>13, <2>14, <2>15 DEF Execute
<1>3. ASSUME NEW o \in Opps, NEW leg \in Legs, VenueAnswers(o, leg) PROVE CallerStep
  BY <1>1, <1>3 DEF VenueAnswers
<1>4. CASE (\E p \in Operators : OperatorCall(p)) \/ \E p \in Procs : InRiskEngine(p)
  BY <1>4 DEF CallerStep
<1>5. CASE Dispatch
  <2>1. Head(oppCh) \in Opps /\ pc[Head(oppCh)] = "queued"
    BY <1>5 DEF Dispatch, QueueInv
  <2>2. Executing' = Executing
    BY <1>m, <1>p, <1>h, <1>5, <2>1 DEF Dispatch
  <2> QED
    BY <1>5, <2>2 DEF Dispatch, CallerStep
<1>6. CASE StopLoop \/ Shutdown \/ Exit
  BY <1>1, <1>6 DEF StopLoop, Shutdown, Exit
<1>7. CASE UNCHANGED vars
  BY <1>1, <1>7 DEF vars, execVars
<1> QED
  BY <1>2, <1>3, <1>4, <1>5, <1>6, <1>7 DEF Next

\* Every step but a stutter is taken by a process that has not faulted.
LEMMA NextRunning == [Next]_vars => UNCHANGED vars \/ ~panicked
BY DEF Next, Running

\* The seat of p is where p is, and moves as p moves.
Follows(p) ==
    /\ Seat(p) \in Symbols \union Operators
    /\ rpcPerSymbol[Seat(p)] = rpc[p]
    /\ seenPerSymbol[Seat(p)] = seenPnL[p]
    /\ reasonPerSymbol[Seat(p)] = tripReason[p]
    /\ \A x : rpc' = [rpc EXCEPT ![p] = x] => rpcPerSymbol' = [rpcPerSymbol EXCEPT ![Seat(p)] = x]
    /\ \A x : seenPnL' = [seenPnL EXCEPT ![p] = x]
                 => seenPerSymbol' = [seenPerSymbol EXCEPT ![Seat(p)] = x]
    /\ \A x : tripReason' = [tripReason EXCEPT ![p] = x]
                 => reasonPerSymbol' = [reasonPerSymbol EXCEPT ![Seat(p)] = x]
    /\ rpc' = rpc => rpcPerSymbol' = rpcPerSymbol
    /\ seenPnL' = seenPnL => seenPerSymbol' = seenPerSymbol
    /\ tripReason' = tripReason => reasonPerSymbol' = reasonPerSymbol

LEMMA SeatFollows ==
    ASSUME RiskTypeOK, OneInFlightPerSymbol, Executing' = Executing,
           NEW p \in Executing \union Operators
    PROVE  Follows(p)
<1>0. /\ Executing \in SUBSET Opps /\ Alone(Executing)
      /\ p \in Procs /\ Executing \union Operators \subseteq Procs
      /\ rpc \in [Procs -> RiskPoint] /\ seenPnL \in [Procs -> Int]
      /\ tripReason \in [Procs -> Reason \union {NoReason}]
  BY ExecutionAssumption DEF Executing, Alone, OneInFlightPerSymbol, RiskTypeOK
<1>1. /\ rpcPerSymbol' = PerSymbol(rpc', Executing, "idle")
      /\ seenPerSymbol' = PerSymbol(seenPnL', Executing, 0)
      /\ reasonPerSymbol' = PerSymbol(tripReason', Executing, NoReason)
  BY DEF rpcPerSymbol, seenPerSymbol, reasonPerSymbol, PerSymbol, Symbols
<1>2. ASSUME NEW f, NEW idle
      PROVE  Seat(p) \in Symbols \union Operators /\ PerSymbol(f, Executing, idle)[Seat(p)] = f[p]
  <2>1. Shows(PerSymbol(f, Executing, idle), f, Executing, idle)
    BY <1>0, PerSymbolShows
  <2> QED
    BY <2>1 DEF Shows
<1>3. ASSUME NEW T, NEW f \in [Procs -> T], NEW x, NEW idle
      PROVE  PerSymbol([f EXCEPT ![p] = x], Executing, idle)
                = [PerSymbol(f, Executing, idle) EXCEPT ![Seat(p)] = x]
  <2> DEFINE g == [f EXCEPT ![p] = x]
  <2>1. g[p] = x /\ \A q \in Executing \union Operators : q # p => g[q] = f[q]
    BY <1>0
  <2> HIDE DEF g
  <2>2. Executing \in SUBSET Opps /\ Alone(Executing)
    BY <1>0
  <2>3. SeatMoves(PerSymbol(f, Executing, idle), PerSymbol(g, Executing, idle), p, g[p])
    BY <2>1, <2>2, PerSymbolMoves
  <2> QED
    BY <2>1, <2>3 DEF g, SeatMoves
<1>4. /\ rpcPerSymbol = PerSymbol(rpc, Executing, "idle")
      /\ seenPerSymbol = PerSymbol(seenPnL, Executing, 0)
      /\ reasonPerSymbol = PerSymbol(tripReason, Executing, NoReason)
  BY DEF rpcPerSymbol, seenPerSymbol, reasonPerSymbol
<1>5. /\ Seat(p) \in Symbols \union Operators
      /\ rpcPerSymbol[Seat(p)] = rpc[p]
      /\ seenPerSymbol[Seat(p)] = seenPnL[p]
      /\ reasonPerSymbol[Seat(p)] = tripReason[p]
  BY <1>2, <1>4
<1>6. ASSUME NEW x, rpc' = [rpc EXCEPT ![p] = x]
      PROVE  rpcPerSymbol' = [rpcPerSymbol EXCEPT ![Seat(p)] = x]
  BY <1>0, <1>1, <1>3, <1>4, <1>6, Zenon
<1>7. ASSUME NEW x, seenPnL' = [seenPnL EXCEPT ![p] = x]
      PROVE  seenPerSymbol' = [seenPerSymbol EXCEPT ![Seat(p)] = x]
  BY <1>0, <1>1, <1>3, <1>4, <1>7, Zenon
<1>8. ASSUME NEW x, tripReason' = [tripReason EXCEPT ![p] = x]
      PROVE  reasonPerSymbol' = [reasonPerSymbol EXCEPT ![Seat(p)] = x]
  BY <1>0, <1>1, <1>3, <1>4, <1>8, Zenon
<1>9. /\ rpc' = rpc => rpcPerSymbol' = rpcPerSymbol
      /\ seenPnL' = seenPnL => seenPerSymbol' = seenPerSymbol
      /\ tripReason' = tripReason => reasonPerSymbol' = reasonPerSymbol
  BY <1>1, <1>4
<1> QED
  BY <1>5, <1>6, <1>7, <1>8, <1>9, Zenon DEF Follows

\* A step inside the risk engine is one at the goroutine's seat.
LEMMA InsideSeen ==
    ASSUME RiskTypeOK, RpcInv, OneInFlightPerSymbol, ~panicked,
           NEW p \in Procs, InRiskEngine(p)
    PROVE  Callers!Next
<1> DEFINE s == Seat(p)
<1>0. Executing' = Executing /\ (RiskStep(p) \/ TornReasonRead(p))
  BY DEF InRiskEngine, execVars, Executing
<1>1. rpc[p] \notin {"idle", "accepted"}
  BY <1>0 DEF RiskStep, LoadKillSwitch, ReadDaily, ReadPeak, TripCAS, WriteReason, ClearReason,
              TornReasonRead
<1>a. ASSUME NEW q \in Procs, rpc[q] # "idle" PROVE q \in Executing \union Operators
  BY <1>a, ExecutionAssumption DEF RpcInv, Executing
<1>2. Follows(p) /\ s \in Symbols \union Operators
  <2>1. p \in Executing \union Operators
    BY <1>1, <1>a
  <2>2. Follows(p)
    BY <1>0, <2>1, SeatFollows
  <2> QED
    BY <2>2 DEF Follows
<1> HIDE DEF s
<1> USE DEF Goto, Callers!Goto, portfolio, Callers!portfolio, NoReason, Callers!NoReason
<1>f. /\ rpcPerSymbol[s] = rpc[p] /\ seenPerSymbol[s] = seenPnL[p]
      /\ reasonPerSymbol[s] = tripReason[p]
      /\ \A x : rpc' = [rpc EXCEPT ![p] = x] => rpcPerSymbol' = [rpcPerSymbol EXCEPT ![s] = x]
      /\ \A x : seenPnL' = [seenPnL EXCEPT ![p] = x]
                   => seenPerSymbol' = [seenPerSymbol EXCEPT ![s] = x]
      /\ \A x : tripReason' = [tripReason EXCEPT ![p] = x]
                   => reasonPerSymbol' = [reasonPerSymbol EXCEPT ![s] = x]
      /\ rpc' = rpc => rpcPerSymbol' = rpcPerSymbol
      /\ seenPnL' = seenPnL => seenPerSymbol' = seenPerSymbol
      /\ tripReason' = tripReason => reasonPerSymbol' = reasonPerSymbol
  BY <1>2 DEF Follows, s
<1>3. CASE LoadKillSwitch(p)
  <2>1. Callers!LoadKillSwitch(s)
    BY <1>f, <1>3 DEF LoadKillSwitch, Callers!LoadKillSwitch
  <2> QED
    BY <1>2, <2>1 DEF Callers!Next, Callers!RiskStep
<1>4. CASE ReadDaily(p)
  <2>1. Callers!ReadDaily(s)
    BY <1>f, <1>4 DEF ReadDaily, Callers!ReadDaily, LossLimitBreached, Callers!LossLimitBreached
  <2> QED
    BY <1>2, <2>1 DEF Callers!Next, Callers!RiskStep
<1>5. CASE ReadPeak(p)
  <2>1. Callers!ReadPeak(s)
    BY <1>f, <1>5 DEF ReadPeak, Callers!ReadPeak, DrawdownBreached, Callers!DrawdownBreached,
                      MinViableMs, Callers!MinViableMs
  <2> QED
    BY <1>2, <2>1 DEF Callers!Next, Callers!RiskStep
<1>6. CASE TripCAS(p)
  <2>1. Callers!TripCAS(s)
    BY <1>f, <1>6 DEF TripCAS, Callers!TripCAS
  <2> QED
    BY <1>2, <2>1 DEF Callers!Next, Callers!RiskStep
<1>7. CASE WriteReason(p)
  <2>1. Callers!WriteReason(s)
    BY <1>f, <1>7 DEF WriteReason, Callers!WriteReason
  <2> QED
    BY <1>2, <2>1 DEF Callers!Next, Callers!RiskStep
<1>8. CASE ClearReason(p)
  <2>1. Callers!ClearReason(s)
    BY <1>f, <1>8 DEF ClearReason, Callers!ClearReason
  <2> QED
    BY <1>2, <2>1 DEF Callers!Next, Callers!RiskStep
<1>9. CASE TornReasonRead(p)
  <2>1. PICK q \in Procs \ {p} :
           \/ rpc[q] = "writeReason" /\ killReason = NoReason
           \/ rpc[q] = "clearReason" /\ killReason # NoReason
    BY <1>9 DEF TornReasonRead
  <2>2. p \in Executing \union Operators /\ q \in Executing \union Operators
    BY <1>1, <1>a, <2>1
  <2>3. Follows(q) /\ Seat(q) # s
    <3>1. Executing \in SUBSET Opps /\ Alone(Executing)
      BY DEF Executing, Alone, OneInFlightPerSymbol
    <3> QED
      BY <1>0, <2>1, <2>2, <3>1, SeatFollows, SeatsApart DEF s
  <2>4. Seat(q) \in (Symbols \union Operators) \ {s} /\ rpcPerSymbol[Seat(q)] = rpc[q]
    BY <2>3 DEF Follows
  <2>5. Callers!TornReasonRead(s)
    BY <1>f, <1>9, <2>1, <2>4 DEF TornReasonRead, Callers!TornReasonRead
  <2> QED
    BY <1>2, <2>5 DEF Callers!Next
<1> QED
  BY <1>0, <1>3, <1>4, <1>5, <1>6, <1>7, <1>8, <1>9 DEF RiskStep

\* What the goroutine of an execution or of an operator calls, its seat calls.
LEMMA CallsSeen ==
    ASSUME NEW p, Follows(p)
    PROVE  /\ Return(p) => Callers!Return(Seat(p))
           /\ \A reason : CallTrip(p, reason) => Callers!CallTrip(Seat(p), reason)
           /\ \A token : CallReset(p, token) => Callers!CallReset(Seat(p), token)
           /\ \A pnl : RecordCleanExecution(p, pnl) => Callers!RecordCleanExecution(Seat(p), pnl)
           /\ \A pnl : RecordReversal(p, pnl) => Callers!RecordReversal(Seat(p), pnl)
<1> DEFINE s == Seat(p)
<1>f. /\ rpcPerSymbol[s] = rpc[p]
      /\ \A x : rpc' = [rpc EXCEPT ![p] = x] => rpcPerSymbol' = [rpcPerSymbol EXCEPT ![s] = x]
      /\ \A x : tripReason' = [tripReason EXCEPT ![p] = x]
                   => reasonPerSymbol' = [reasonPerSymbol EXCEPT ![s] = x]
      /\ seenPnL' = seenPnL => seenPerSymbol' = seenPerSymbol
      /\ tripReason' = tripReason => reasonPerSymbol' = reasonPerSymbol
  BY DEF Follows
<1> HIDE DEF s
<1> USE DEF Goto, Callers!Goto, portfolio, Callers!portfolio
<1>1. Return(p) => Callers!Return(s)
  BY <1>f DEF Return, Callers!Return
<1>2. ASSUME NEW reason, CallTrip(p, reason) PROVE Callers!CallTrip(s, reason)
  BY <1>f, <1>2 DEF CallTrip, Callers!CallTrip
<1>3. ASSUME NEW token, CallReset(p, token) PROVE Callers!CallReset(s, token)
  BY <1>f, <1>3 DEF CallReset, Callers!CallReset
<1>4. ASSUME NEW pnl, RecordCleanExecution(p, pnl) PROVE Callers!RecordCleanExecution(s, pnl)
  BY <1>f, <1>4 DEF RecordCleanExecution, Callers!RecordCleanExecution, PeakAfter,
                    Callers!PeakAfter
<1>5. ASSUME NEW pnl, RecordReversal(p, pnl) PROVE Callers!RecordReversal(s, pnl)
  BY <1>f, <1>5 DEF RecordReversal, Callers!RecordReversal
<1> QED
  BY <1>1, <1>2, <1>3, <1>4, <1>5 DEF s

\* Taking the mark and validating is the symbol validating.
LEMMA AcquireSeen ==
    ASSUME RiskTypeOK, pc \in [Opps -> PC], Cleared, OneInFlightPerSymbol',
           NEW o \in Opps, Acquire(o)
    PROVE  SymbolOf[o] \in Symbols /\ Callers!CallValidate(SymbolOf[o])
<1>1. /\ pc[o] = "spawned" /\ pc' = [pc EXCEPT ![o] = "validate"]
      /\ rpc[o] = "idle" /\ rpc' = [rpc EXCEPT ![o] = "loadKill"]
      /\ UNCHANGED <<killSwitch, killReason, portfolio, seenPnL, tripReason, panicked>>
  BY DEF Acquire, CallValidate, Step, Goto
<1> DEFINE E == Executing \union {o}
<1>2. Executing' = E /\ o \in Opps /\ o \notin Executing /\ Executing \in SUBSET Opps
  BY <1>1 DEF Executing, Holding
<1>3. Alone(E) /\ Alone(Executing)
  BY <1>2 DEF OneInFlightPerSymbol, Alone, Executing
<1>4. seenPnL[o] = 0 /\ tripReason[o] = NoReason /\ o \in Procs /\ rpc \in [Procs -> RiskPoint]
  BY <1>1, ExecutionAssumption DEF Cleared, RiskTypeOK
<1>5. /\ rpcPerSymbol' = PerSymbol(rpc', E, "idle")
      /\ seenPerSymbol' = PerSymbol(seenPnL, E, 0)
      /\ reasonPerSymbol' = PerSymbol(tripReason, E, NoReason)
  BY <1>1, <1>2 DEF rpcPerSymbol, seenPerSymbol, reasonPerSymbol, PerSymbol, Symbols
<1>e. E = Executing \union {o}
  OBVIOUS
<1> HIDE DEF E
<1>i. ASSUME NEW f, NEW idle, f[o] = idle
      PROVE  PerSymbol(f, E, idle) = PerSymbol(f, Executing, idle)
  BY <1>2, <1>3, <1>e, <1>i, IdleUnseen
<1>6. seenPerSymbol' = seenPerSymbol /\ reasonPerSymbol' = reasonPerSymbol
  <2>1. PerSymbol(seenPnL, E, 0) = PerSymbol(seenPnL, Executing, 0)
    BY <1>4, <1>i
  <2>2. PerSymbol(tripReason, E, NoReason) = PerSymbol(tripReason, Executing, NoReason)
    BY <1>4, <1>i
  <2> QED
    BY <1>5, <2>1, <2>2 DEF seenPerSymbol, reasonPerSymbol
<1>7. /\ rpcPerSymbol' = [rpcPerSymbol EXCEPT ![Seat(o)] = "loadKill"]
      /\ rpcPerSymbol[Seat(o)] = "idle"
  <2>1. /\ rpc'[o] = "loadKill" /\ \A q \in E \union Operators : q # o => rpc'[q] = rpc[q]
        /\ E \in SUBSET Opps /\ o \in E
    BY <1>1, <1>2, <1>4, <1>e, ExecutionAssumption
  <2>2. PerSymbol(rpc, E, "idle") = rpcPerSymbol
    <3>1. PerSymbol(rpc, E, "idle") = PerSymbol(rpc, Executing, "idle")
      BY <1>1, <1>i
    <3> QED
      BY <3>1 DEF rpcPerSymbol
  <2>3. Shows(PerSymbol(rpc, E, "idle"), rpc, E, "idle")
    BY <1>3, <2>1, PerSymbolShows
  <2>4. ASSUME NEW g, \A q \in E \union Operators : q # o => g[q] = rpc[q]
        PROVE  SeatMoves(PerSymbol(rpc, E, "idle"), PerSymbol(g, E, "idle"), o, g[o])
    <3>1. o \in E \union Operators
      BY <2>1
    <3> QED
      BY <1>3, <2>1, <2>4, <3>1, PerSymbolMoves
  <2>5. SeatMoves(PerSymbol(rpc, E, "idle"), PerSymbol(rpc', E, "idle"), o, rpc'[o])
    BY <2>1, <2>4
  <2>6. rpcPerSymbol[Seat(o)] = "idle"
    BY <1>1, <2>1, <2>2, <2>3 DEF Shows
  <2> QED
    BY <1>5, <2>1, <2>2, <2>5, <2>6 DEF SeatMoves
<1>8. Seat(o) = SymbolOf[o] /\ Seat(o) \in Symbols
  BY ExecutionAssumption DEF Seat, Symbols
<1> QED
  BY <1>1, <1>6, <1>7, <1>8 DEF Callers!CallValidate, Callers!Goto, portfolio, Callers!portfolio

\* Deleting the mark leaves the symbol idle as it was.
LEMMA ReleaseSeen ==
    ASSUME pc \in [Opps -> PC], RpcInv, Cleared, OneInFlightPerSymbol,
           NEW o \in Opps, Release(o)
    PROVE  UNCHANGED <<rpcPerSymbol, seenPerSymbol, reasonPerSymbol>>
<1> DEFINE D == Executing \ {o}
<1>1. /\ pc[o] = "release" /\ pc' = [pc EXCEPT ![o] = "done"]
      /\ UNCHANGED <<rpc, seenPnL, tripReason>>
  BY DEF Release, Step, riskVars
<1>2. Executing' = D /\ D \in SUBSET Opps /\ o \notin D /\ Executing = D \union {o}
  BY <1>1 DEF Executing, Holding
<1>3. rpc[o] = "idle" /\ seenPnL[o] = 0 /\ tripReason[o] = NoReason
  BY <1>1, ExecutionAssumption DEF RpcInv, Cleared
<1>4. Alone(Executing)
  BY DEF OneInFlightPerSymbol, Alone, Executing
<1>5. /\ rpcPerSymbol' = PerSymbol(rpc, D, "idle")
      /\ seenPerSymbol' = PerSymbol(seenPnL, D, 0)
      /\ reasonPerSymbol' = PerSymbol(tripReason, D, NoReason)
  BY <1>1, <1>2 DEF rpcPerSymbol, seenPerSymbol, reasonPerSymbol, PerSymbol, Symbols
<1> HIDE DEF D
<1>6. PerSymbol(rpc, Executing, "idle") = PerSymbol(rpc, D, "idle")
  BY <1>2, <1>3, <1>4, IdleUnseen
<1>7. PerSymbol(seenPnL, Executing, 0) = PerSymbol(seenPnL, D, 0)
  BY <1>2, <1>3, <1>4, IdleUnseen
<1>8. PerSymbol(tripReason, Executing, NoReason) = PerSymbol(tripReason, D, NoReason)
  BY <1>2, <1>3, <1>4, IdleUnseen
<1> QED
  BY <1>5, <1>6, <1>7, <1>8 DEF rpcPerSymbol, seenPerSymbol, reasonPerSymbol

LEMMA InitCallers == Init => Callers!Init
<1> SUFFICES ASSUME Init PROVE Callers!Init
  OBVIOUS
<1>1. /\ Executing = {}
      /\ rpc = [p \in Procs |-> "idle"] /\ seenPnL = [p \in Procs |-> 0]
      /\ tripReason = [p \in Procs |-> NoReason]
  BY DEF Init, RiskInit, Executing, Holding
<1>2. Operators \subseteq Procs
  BY ExecutionAssumption
<1>3. /\ rpcPerSymbol = [p \in Symbols \union Operators |-> "idle"]
      /\ seenPerSymbol = [p \in Symbols \union Operators |-> 0]
      /\ reasonPerSymbol = [p \in Symbols \union Operators |-> NoReason]
  BY <1>1, <1>2 DEF rpcPerSymbol, seenPerSymbol, reasonPerSymbol, PerSymbol
<1> QED
  BY <1>3 DEF Init, RiskInit, Callers!Init, Callers!RiskInit, NoReason, Callers!NoReason

\* There are fewer executions booked than opportunities while one is to book.
LEMMA RoomToBook ==
    ASSUME CountInv, NEW o \in Opps, pc[o] = "bookRisk"
    PROVE  totalFills < Cardinality(Opps) /\ reversals < Cardinality(Opps)
<1>1. /\ IsFiniteSet(Opps \ {o}) /\ Cardinality(Opps \ {o}) = Cardinality(Opps) - 1
      /\ Cardinality(Opps) \in Nat
  BY ExecutionAssumption, FS_RemoveElement, FS_CardinalityType
<1>2. ASSUME NEW out
      PROVE  Cardinality(Booked(out)) \in Nat /\ Cardinality(Booked(out)) <= Cardinality(Opps \ {o})
  <2>1. Booked(out) \in SUBSET (Opps \ {o})
    BY DEF Booked
  <2> QED
    BY <1>1, <2>1, FS_Subset, FS_CardinalityType
<1>3. Cardinality(Booked("CLEAN")) < Cardinality(Opps) /\ Cardinality(Booked("REVERSED")) < Cardinality(Opps)
  BY <1>1, <1>2
<1> QED
  BY <1>3 DEF CountInv

\* What an execution books is what one of the callers may book.
LEMMA BookedOffered ==
    ASSUME FlowInv, NEW o \in Opps, BookRisk(o)
    PROVE  \/ RecordCleanExecution(o, PnL(o)) /\ PnL(o) \in CleanPnLs
           \/ RecordReversal(o, PnL(o)) /\ PnL(o) \in ReversalPnLs
<1>1. /\ outcome[o] \in {"CLEAN", "REVERSED"} /\ Flow(o)
      /\ \A leg \in Legs : Asked(o, leg) \in Nat /\ Got(o, leg) \in Nat
  BY Amounts DEF BookRisk, FlowInv, Flow
<1>2. Quantity[o] \in Nat
  BY ExecutionAssumption
<1>3. CASE outcome[o] = "CLEAN"
  <2>1. Got(o, "leg1") = Got(o, "leg2") /\ Got(o, "leg1") \in 0..Quantity[o]
    BY <1>1, <1>2, <1>3 DEF Flow, Legs
  <2>2. PnL(o) = CalculatePnL(o, Got(o, "leg1"), Got(o, "leg1"))
    BY <1>3, <2>1 DEF PnL, Got
  <2>3. PnL(o) \in CleanPnLs
    BY <2>1, <2>2 DEF CleanPnLs
  <2> QED
    BY <1>3, <2>3 DEF BookRisk, RecordInRisk
<1>4. CASE outcome[o] = "REVERSED"
  <2>1. Got(o, "reverse") \in 0..Quantity[o]
    BY <1>1, <1>2 DEF Flow, Legs
  <2>2. PnL(o) = CalculateReverseSlippage(o, Got(o, "reverse"))
    BY <1>4 DEF PnL, Got
  <2>3. PnL(o) \in ReversalPnLs
    BY <2>1, <2>2 DEF ReversalPnLs
  <2> QED
    BY <1>4, <2>3 DEF BookRisk, RecordInRisk
<1> QED
  BY <1>1, <1>3, <1>4

LEMMA NextCallers ==
    BaseInv /\ CountInv /\ Cleared /\ [Next]_vars => [Callers!Next]_(Callers!riskVars)
<1> SUFFICES ASSUME BaseInv, CountInv, Cleared, [Next]_vars
             PROVE  [Callers!Next]_(Callers!riskVars)
  OBVIOUS
<1>0. /\ pc \in [Opps -> PC] /\ QueueInv /\ RpcInv /\ RiskTypeOK /\ FlowInv
      /\ OneInFlightPerSymbol /\ OneInFlightPerSymbol'
  BY NextBase DEF BaseInv, GuardInv, MarkInv
<1>1. CASE UNCHANGED <<riskVars, Executing>>
  BY <1>1 DEF riskVars, Callers!riskVars, portfolio, Callers!portfolio, rpcPerSymbol,
              seenPerSymbol, reasonPerSymbol, PerSymbol, Symbols
<1>2. CASE UNCHANGED vars
  BY <1>1, <1>2 DEF vars, execVars, Executing
<1>3. CASE ~panicked
  <2>1. ASSUME NEW o \in Opps, Release(o) PROVE UNCHANGED Callers!riskVars
    <3>1. UNCHANGED <<rpcPerSymbol, seenPerSymbol, reasonPerSymbol>>
      BY <1>0, <2>1, ReleaseSeen
    <3> QED
      BY <2>1, <3>1 DEF Release, riskVars, Callers!riskVars, portfolio
  <2>2. ASSUME NEW o \in Opps, Acquire(o) PROVE Callers!Next
    <3>1. SymbolOf[o] \in Symbols /\ Callers!CallValidate(SymbolOf[o])
      BY <1>0, <2>2, AcquireSeen
    <3> QED
      BY <1>3, <3>1 DEF Callers!Next, Callers!ExecutorCall
  <2>3. ASSUME NEW o \in Executing, Executing' = Executing,
               \/ Return(o)
               \/ rpc[o] = "accepted" /\ CallTrip(o, "UNHEDGED_EXPOSURE")
               \/ BookRisk(o)
        PROVE  Callers!Next
    <3>1. o \in Opps /\ Follows(o) /\ Seat(o) \in Symbols /\ rpcPerSymbol[Seat(o)] = rpc[o]
      <4>1. o \in Opps /\ Seat(o) \in Symbols
        BY ExecutionAssumption DEF Executing, Seat, Symbols
      <4>2. Follows(o)
        BY <1>0, <2>3, SeatFollows
      <4> QED
        BY <4>1, <4>2 DEF Follows
    <3>2. CASE Return(o)
      <4>1. Callers!Return(Seat(o))
        BY <3>1, <3>2, CallsSeen
      <4> QED
        BY <1>3, <3>1, <4>1 DEF Callers!Next, Callers!ExecutorCall
    <3>3. CASE rpc[o] = "accepted" /\ CallTrip(o, "UNHEDGED_EXPOSURE")
      <4>1. Callers!CallTrip(Seat(o), "UNHEDGED_EXPOSURE")
        BY <3>1, <3>3, CallsSeen
      <4> QED
        BY <1>3, <3>1, <3>3, <4>1 DEF Callers!Next, Callers!ExecutorCall
    <3>4. CASE BookRisk(o)
      <4>1. totalFills < Cardinality(Opps) /\ reversals < Cardinality(Opps)
        BY <3>1, <3>4, RoomToBook DEF BookRisk
      <4>2. CASE RecordCleanExecution(o, PnL(o)) /\ PnL(o) \in CleanPnLs
        <5>1. Callers!RecordCleanExecution(Seat(o), PnL(o)) /\ rpc[o] = "accepted"
          BY <3>1, <4>2, CallsSeen DEF RecordCleanExecution
        <5> QED
          BY <1>3, <3>1, <4>1, <4>2, <5>1 DEF Callers!Next, Callers!ExecutorCall
      <4>3. CASE RecordReversal(o, PnL(o)) /\ PnL(o) \in ReversalPnLs
        <5>1. Callers!RecordReversal(Seat(o), PnL(o)) /\ rpc[o] = "accepted"
          BY <3>1, <4>3, CallsSeen DEF RecordReversal
        <5> QED
          BY <1>3, <3>1, <4>1, <4>3, <5>1 DEF Callers!Next, Callers!ExecutorCall
      <4> QED
        BY <1>0, <3>1, <3>4, <4>2, <4>3, BookedOffered
    <3> QED
      BY <2>3, <3>2, <3>3, <3>4
  <2>4. ASSUME NEW p \in Operators, OperatorCall(p) PROVE Callers!Next
    <3>1. Follows(p) /\ Seat(p) = p
      <4>1. Executing' = Executing
        BY <2>4 DEF OperatorCall, execVars, Executing
      <4> QED
        BY <1>0, <4>1, SeatFollows DEF Seat
    <3>2. Callers!OperatorCall(p)
      BY <2>4, <3>1, CallsSeen DEF OperatorCall, Callers!OperatorCall
    <3> QED
      BY <1>3, <3>2 DEF Callers!Next
  <2>5. ASSUME NEW p \in Procs, InRiskEngine(p) PROVE Callers!Next
    BY <1>0, <1>3, <2>5, InsideSeen
  <2>6. CallerStep
    BY <1>0, NextCallerStep
  <2> QED
    BY <1>1, <2>1, <2>2, <2>3, <2>4, <2>5, <2>6 DEF CallerStep
<1> QED
  BY <1>2, <1>3, NextRunning

\* The execution engine implements RiskCallers with one executor per symbol:
\* what any opportunity does at the risk engine, its symbol does.
THEOREM ImplementsCallers == Spec => RefinesCallers
<1>1. BaseInv /\ Cleared /\ [Next]_vars => Cleared'
  BY NextCleared DEF BaseInv
<1> QED
  BY <1>1, BaseAlways, InitCallers, NextCallers, InitCleared, InitBooks, NextCount,
     PTL DEF Spec, RefinesCallers, Callers!Spec

-------------------------------------------------------------------------------
(* What is proved of those callers, carried over *)

LEMMA SymbolsFinite ==
    IsFiniteSet(Symbols) /\ Cardinality(Symbols) \in Nat
<1> DEFINE f == [o \in Opps |-> SymbolOf[o]]
<1>1. f \in Surjection(Opps, Symbols)
  BY DEF Symbols, Surjection
<1> QED
  BY <1>1, ExecutionAssumption, FS_Surjection, FS_CardinalityType

\* The theorems of RiskCallersProofs, about the symbols as executors.
Proved == INSTANCE RiskCallersProofs
    WITH Procs <- Symbols \union Operators, Executors <- Symbols,
         MaxFills <- Cardinality(Opps), MaxReversals <- Cardinality(Opps),
         rpc <- rpcPerSymbol, seenPnL <- seenPerSymbol, tripReason <- reasonPerSymbol

LEMMA CallersAreProved == RefinesCallers => Proved!Spec
<1>1. Callers!Init => Proved!Init
  BY DEF Callers!Init, Proved!Init, Callers!RiskInit, Proved!RiskInit, Callers!NoReason,
         Proved!NoReason
<1>2. [Callers!Next]_(Callers!riskVars) => [Proved!Next]_(Proved!riskVars)
  BY DEF
     Callers!RiskInit, Proved!RiskInit, Callers!Next, Proved!Next, Callers!ExecutorCall,
     Proved!ExecutorCall, Callers!OperatorCall, Proved!OperatorCall,
     Callers!CallValidate, Proved!CallValidate, Callers!RecordCleanExecution,
     Proved!RecordCleanExecution, Callers!RecordReversal, Proved!RecordReversal,
     Callers!CallTrip, Proved!CallTrip, Callers!Return, Proved!Return,
     Callers!CallReset, Proved!CallReset, Callers!RiskStep, Proved!RiskStep,
     Callers!TornReasonRead, Proved!TornReasonRead, Callers!LoadKillSwitch,
     Proved!LoadKillSwitch, Callers!ReadDaily, Proved!ReadDaily, Callers!ReadPeak,
     Proved!ReadPeak, Callers!TripCAS, Proved!TripCAS, Callers!WriteReason,
     Proved!WriteReason, Callers!ClearReason, Proved!ClearReason, Callers!Goto,
     Proved!Goto, Callers!portfolio, Proved!portfolio, Callers!riskVars,
     Proved!riskVars, Callers!NoReason, Proved!NoReason, Callers!PeakAfter,
     Proved!PeakAfter, Callers!LossLimitBreached, Proved!LossLimitBreached,
     Callers!DrawdownBreached, Proved!DrawdownBreached, Callers!MinViableMs,
     Proved!MinViableMs
<1> QED
  BY <1>1, <1>2, PTL DEF RefinesCallers, Callers!Spec, Proved!Spec

\* What RiskCallers assumes of its callers the symbols meet: the worst loss
\* bounds what they may book.
LEMMA SymbolsAssumption == Proved!RiskCallersAssumption
<1>1. ASSUME NEW o \in Opps, NEW qty \in 0..Quantity[o]
      PROVE  /\ CalculatePnL(o, qty, qty) \in Int /\ CalculatePnL(o, qty, qty) >= -WorstLoss
             /\ CalculateReverseSlippage(o, qty) \in Int
             /\ CalculateReverseSlippage(o, qty) >= -WorstLoss
  <2>1. qty \in Nat
    BY ExecutionAssumption
  <2>2. \A leg \in Legs : Sell(o, leg, qty) \in Int /\ Buy(o, leg, qty) \in Int
    BY <2>1, SalesInt
  <2>3. CalculatePnL(o, qty, qty) \in Int /\ CalculateReverseSlippage(o, qty) \in Int
    BY <2>2 DEF CalculatePnL, CalculateReverseSlippage, Legs
  <2> QED
    BY <2>3, WorstLossAssumption
<1>2. \A pnl \in CleanPnLs \union ReversalPnLs : pnl \in Int /\ pnl >= -WorstLoss
  BY <1>1 DEF CleanPnLs, ReversalPnLs
<1>3. IsFiniteSet(Symbols) /\ Cardinality(Opps) \in Nat
  BY SymbolsFinite, ExecutionAssumption, FS_CardinalityType
<1>4. Proved!IsFiniteSet(Symbols)
  BY <1>3 DEF IsFiniteSet, Proved!IsFiniteSet
<1> QED
  BY <1>2, <1>3, <1>4, ExecutionAssumption DEF Proved!RiskCallersAssumption, Symbols

\* Because an execution holds its symbol's mark from before its checks until
\* after its booking, the daily loss and the drawdown exceed their limits by no
\* more than one worst loss per symbol, whatever the number of opportunities and
\* however often operators reset the switch.
THEOREM OvershootPerSymbol == Spec => []OvershootBoundedBySymbols
<1>1. Proved!Spec => []Proved!LossOvershootBounded
  BY Proved!OvershootBounded, SymbolsAssumption, RiskAssumption
<1>2. Proved!Spec => []Proved!DrawdownOvershootBounded
  BY Proved!DrawdownBounded, SymbolsAssumption, RiskAssumption
<1>3. Proved!LossOvershootBounded /\ Proved!DrawdownOvershootBounded => OvershootBoundedBySymbols
  <2>1. Proved!Cardinality(Symbols) = Cardinality(Symbols)
    BY DEF Cardinality, Proved!Cardinality
  <2>2. Proved!Snapshot = Snapshot
    BY DEF Snapshot, Proved!Snapshot
  <2> QED
    BY <2>1, <2>2 DEF Proved!LossOvershootBounded, Proved!DrawdownOvershootBounded,
                      OvershootBoundedBySymbols
<1> QED
  BY <1>1, <1>2, <1>3, ImplementsCallers, CallersAreProved, PTL

\* As long as no operator resets, a tripped switch has its reason once its
\* winner has written it and the first reason stays, through every execution.
THEOREM ReasonsRecorded ==
    ASSUME NoResets
    PROVE  Spec => []ReasonMatchesSwitch /\ FirstReasonSticks
<1> DEFINE Kept == killReason # NoReason => killReason' = killReason
           KeptPerSymbol == killReason # Proved!NoReason => killReason' = killReason
<1>0. Proved!NoResets
  BY DEF NoResets, Proved!NoResets
<1>1. Proved!Spec => []Proved!ReasonMatchesSwitch
  BY <1>0, Proved!ReasonFollowsSwitch, SymbolsAssumption, RiskAssumption
<1>2. Proved!Spec => Proved!FirstReasonSticks
  BY <1>0, Proved!FirstReasonKept, SymbolsAssumption, RiskAssumption
<1>3. BaseInv /\ Proved!ReasonMatchesSwitch => ReasonMatchesSwitch
  <2> SUFFICES ASSUME BaseInv, \A p \in Procs : rpc[p] # "writeReason"
               PROVE  \A s \in Symbols \union Operators : rpcPerSymbol[s] # "writeReason"
    BY DEF ReasonMatchesSwitch, Proved!ReasonMatchesSwitch, NoReason, Proved!NoReason
  <2>1. Executing \in SUBSET Opps /\ Alone(Executing)
    BY DEF BaseInv, GuardInv, MarkInv, OneInFlightPerSymbol, Executing, Alone
  <2>2. Shows(rpcPerSymbol, rpc, Executing, "idle")
    BY <2>1, PerSymbolShows DEF rpcPerSymbol
  <2>3. \A p \in Executing \union Operators : rpc[p] # "writeReason"
    BY <2>1, ExecutionAssumption
  <2>4. ASSUME NEW s \in Symbols \union Operators
        PROVE  rpcPerSymbol[s] # "writeReason"
    <3>1. CASE \E p \in Executing \union Operators : s = Seat(p)
      BY <2>2, <2>3, <3>1 DEF Shows
    <3>2. CASE s \in Symbols /\ \A o \in Executing : SymbolOf[o] # s
      BY <2>2, <3>2 DEF Shows
    <3> QED
      BY <2>1, <3>1, <3>2, SeatCases
  <2> QED
    BY <2>4
<1>4. [KeptPerSymbol]_(Proved!riskVars) => [Kept]_riskVars
  BY DEF riskVars, Proved!riskVars, NoReason, Proved!NoReason
<1>5. Proved!FirstReasonSticks => [][KeptPerSymbol]_(Proved!riskVars)
  BY DEF Proved!FirstReasonSticks
<1>6. [][Kept]_riskVars => FirstReasonSticks
  BY DEF FirstReasonSticks
<1> HIDE DEF Kept, KeptPerSymbol
<1> QED
  BY <1>1, <1>2, <1>3, <1>4, <1>5, <1>6, BaseAlways, ImplementsCallers, CallersAreProved, PTL
===============================================================================
