---------------------------- MODULE ExecutionEngine ----------------------------
(***************************************************************************)
(* The execution engine of internal/execution/engine.go over the risk      *)
(* engine: opportunities wait in the bounded oppCh, the engine's loop      *)
(* starts one goroutine of executeTwoLeg for each, and the goroutine takes *)
(* its symbol's in-flight mark, validates, sends leg 1, hedges it with     *)
(* leg 2 or reverses it, books the result and publishes one event.         *)
(*                                                                         *)
(* A venue executes an order it was sent at any later time, even when      *)
(* submitIOC has stopped waiting for it, and its adapter reports what was  *)
(* executed in one of the ways of AdapterContract.  Timers may fire at any *)
(* time.  An opportunity and the goroutine that executes it have one name. *)
(***************************************************************************)
EXTENDS RiskEngine, AdapterContract, FiniteSets, Sequences

CONSTANTS
    Opps,             \* opportunities the detector submits
    Operators,        \* goroutines of the gateway's /kill and /reset handlers
    Tokens,           \* values of the X-Operator-Token header
    SymbolOf,         \* SymbolOf[o]: opp.Leg1.Symbol
    Quantity,         \* Quantity[o]: opp.Leg1.Quantity, in lots
    AvgPrice,         \* AvgPrice[o][leg]: price the venue fills the leg at
    FeePct,           \* FeePct[o][leg]: taker fee of the leg's venue
    WorstLoss,        \* no execution books a loss above it
    OppChCap,         \* capacity of oppCh
    MayShutdown       \* whether a signal may end the process

Legs == {"leg1", "leg2", "reverse"}

\* calculatePnL and calculateReverseSlippage, in hundredths so that the fees
\* stay integers.  The reverse order goes to leg 1's venue.
Buy(o, leg, qty)  == AvgPrice[o][leg] * qty * (100 + FeePct[o][leg])
Sell(o, leg, qty) == AvgPrice[o][leg] * qty * (100 - FeePct[o][leg])

CalculatePnL(o, qty1, qty2)    == Sell(o, "leg2", qty2) - Buy(o, "leg1", qty1)
CalculateReverseSlippage(o, qty) == Sell(o, "reverse", qty) - Buy(o, "leg1", qty)

ASSUME ExecutionAssumption ==
    /\ Procs = Opps \union Operators
    /\ Opps \intersect Operators = {}
    /\ {SymbolOf[o] : o \in Opps} \intersect Operators = {}
    /\ IsFiniteSet(Opps)
    /\ Tokens \subseteq STRING
    /\ Quantity \in [Opps -> Nat \ {0}]
    /\ AvgPrice \in [Opps -> [Legs -> Nat]]
    /\ FeePct \in [Opps -> [Legs -> 0..100]]
    /\ \A o \in Opps : FeePct[o]["reverse"] = FeePct[o]["leg1"]
    /\ WorstLoss \in Nat /\ OppChCap \in Nat
    /\ AnswerKinds \subseteq {"exact", "early", "unflagged"}
    /\ MayShutdown \in BOOLEAN

\* The worst a single execution can book.
ASSUME WorstLossAssumption ==
    \A o \in Opps : \A qty \in 0..Quantity[o] :
        /\ CalculatePnL(o, qty, qty) >= -WorstLoss
        /\ CalculateReverseSlippage(o, qty) >= -WorstLoss

VARIABLES
    pc,               \* pc[o]: where the opportunity, then its goroutine, is
    oppCh,            \* the channel Submit sends on
    loop,             \* the loop of Start: running or stopped
    inFlight,         \* the symbols marked in Engine.inFlight
    order,            \* order[o][leg]: the order at its venue
    result,           \* result[o][leg]: what submitIOC returned for the leg
    outcome,          \* outcome[o]: event.Outcome
    enginePnL,        \* Engine.dailyPnL
    published,        \* published[o]: the outcomes handed to the pipeline
    ctxDone,          \* main has cancelled the context
    exited            \* the process has ended

execVars == <<pc, oppCh, loop, inFlight, order, result, outcome, enginePnL,
              published, ctxDone, exited>>
vars == <<riskVars, execVars>>

Outcome == {"RISK_REJECTED", "MISSED", "CLEAN", "REVERSED", "KILL_SWITCH"}

\* "detected" to "spawned" before the in-flight mark, "validate" to "release"
\* while it is held.
Waiting == {"detected", "queued", "spawned"}
Holding == {"validate", "leg1", "leg2", "reverse", "trip", "bookEngine", "bookRisk",
            "emit", "release"}
PC == Waiting \union Holding \union {"dropped", "skipped", "done"}

NotSent  == [status |-> "none", qty |-> 0, executed |-> 0, filled |-> FALSE, reported |-> 0]
NoResult == [filled |-> FALSE, qty |-> 0, from |-> "none"]

Init ==
    /\ RiskInit
    /\ pc = [o \in Opps |-> "detected"]
    /\ oppCh = <<>>
    /\ loop = "running"
    /\ inFlight = {}
    /\ order = [o \in Opps |-> [leg \in Legs |-> NotSent]]
    /\ result = [o \in Opps |-> [leg \in Legs |-> NoResult]]
    /\ outcome = [o \in Opps |-> "none"]
    /\ enginePnL = 0
    /\ published = [o \in Opps |-> <<>>]
    /\ ctxDone = FALSE
    /\ exited = FALSE

Step(o, point) == pc' = [pc EXCEPT ![o] = point]
Decide(o, out) == outcome' = [outcome EXCEPT ![o] = out]

queueVars == <<oppCh, loop>>
tradeVars == <<order, result, outcome, enginePnL, published>>
hostVars  == <<ctxDone, exited>>

-------------------------------------------------------------------------------
(* The channel and the loop *)

\* Mutant: the send succeeds one element beyond the capacity.
HasRoomOffByOne == Len(oppCh) <= OppChCap

HasRoom == Len(oppCh) < OppChCap

\* Submit: a non-blocking send; an opportunity that finds oppCh full is lost.
Submit(o) ==
    /\ pc[o] = "detected"
    /\ IF HasRoom
       THEN oppCh' = Append(oppCh, o) /\ Step(o, "queued")
       ELSE UNCHANGED oppCh /\ Step(o, "dropped")
    /\ UNCHANGED <<riskVars, loop, inFlight, tradeVars, hostVars>>

\* Start receives the oldest opportunity and starts its goroutine.  With the
\* context cancelled the select may still choose the channel.
Dispatch ==
    /\ loop = "running"
    /\ oppCh # <<>>
    /\ Step(Head(oppCh), "spawned")
    /\ oppCh' = Tail(oppCh)
    /\ UNCHANGED <<riskVars, loop, inFlight, tradeVars, hostVars>>

StopLoop ==
    /\ loop = "running"
    /\ ctxDone
    /\ loop' = "stopped"
    /\ UNCHANGED <<riskVars, pc, oppCh, inFlight, tradeVars, hostVars>>

-------------------------------------------------------------------------------
(* executeTwoLeg *)

\* The in-flight guard: one critical section of inFlightMu.
SkipInFlight(o) ==
    /\ pc[o] = "spawned"
    /\ SymbolOf[o] \in inFlight
    /\ Step(o, "skipped")
    /\ UNCHANGED <<riskVars, queueVars, inFlight, tradeVars, hostVars>>

\* Mutant: the mark is taken without looking.
AcquireBlindly(o) ==
    /\ pc[o] = "spawned"
    /\ inFlight' = inFlight \union {SymbolOf[o]}
    /\ Step(o, "validate")
    /\ CallValidate(o)
    /\ UNCHANGED <<queueVars, tradeVars, hostVars>>

Acquire(o) ==
    /\ pc[o] = "spawned"
    /\ SymbolOf[o] \notin inFlight
    /\ inFlight' = inFlight \union {SymbolOf[o]}
    /\ Step(o, "validate")
    /\ CallValidate(o)
    /\ UNCHANGED <<queueVars, tradeVars, hostVars>>

RiskRejected(o) ==
    /\ pc[o] = "validate"
    /\ rpc[o] \in {"rejected", "tripped"}
    /\ Return(o)
    /\ Decide(o, "RISK_REJECTED")
    /\ Step(o, "emit")
    /\ UNCHANGED <<queueVars, inFlight, order, result, enginePnL, published, hostVars>>

\* The goroutine submitIOC starts hands the order to the adapter.
Sent(qty) == [NotSent EXCEPT !.status = "sent", !.qty = qty]

SubmitLeg1(o) ==
    /\ pc[o] = "validate"
    /\ rpc[o] = "accepted"
    /\ order' = [order EXCEPT ![o]["leg1"] = Sent(Quantity[o])]
    /\ Step(o, "leg1")
    /\ UNCHANGED <<riskVars, queueVars, inFlight, result, outcome, enginePnL,
                   published, hostVars>>

\* What submitIOC may return for a leg now: the adapter's answer when there is
\* one, a timeout, or a cancellation; the select prefers none of them.
\* Mutant: submitIOC has no timeout of its own.
ResultsWithoutTimeout(o, leg) ==
    IF order[o][leg].status = "answered"
    THEN {[filled |-> order[o][leg].filled, qty |-> order[o][leg].reported, from |-> "answer"]}
    ELSE {}

Results(o, leg) ==
    LET Failed(why) == [filled |-> FALSE, qty |-> 0, from |-> why]
        own == order[o][leg] IN
    {Failed("timeout")}
    \union (IF ctxDone THEN {Failed("cancelled")} ELSE {})
    \union (IF own.status = "answered"
            THEN {[filled |-> own.filled, qty |-> own.reported, from |-> "answer"]} ELSE {})

\* Mutant: the early return of a miss forgets its event.
Leg1MissedSilently(o) ==
    /\ pc[o] = "leg1"
    /\ \E r \in Results(o, "leg1") :
          /\ ~r.filled \/ r.qty <= 0
          /\ result' = [result EXCEPT ![o]["leg1"] = r]
    /\ Return(o)
    /\ Decide(o, "MISSED")
    /\ Step(o, "release")
    /\ UNCHANGED <<queueVars, inFlight, order, enginePnL, published, hostVars>>

\* Leg 1 missed: nothing to hedge.
Leg1Missed(o) ==
    /\ pc[o] = "leg1"
    /\ \E r \in Results(o, "leg1") :
          /\ ~r.filled \/ r.qty <= 0
          /\ result' = [result EXCEPT ![o]["leg1"] = r]
    /\ Return(o)
    /\ Decide(o, "MISSED")
    /\ Step(o, "emit")
    /\ UNCHANGED <<queueVars, inFlight, order, enginePnL, published, hostVars>>

\* Mutant: leg 2 is sent for the quantity leg 1 was asked for.
Leg2AsRequested(o, qty1) == Quantity[o]

\* Leg 2 hedges what leg 1 reported as filled.
Leg2Quantity(o, qty1) == qty1

Leg1Filled(o) ==
    /\ pc[o] = "leg1"
    /\ \E r \in Results(o, "leg1") :
          /\ r.filled /\ r.qty > 0
          /\ result' = [result EXCEPT ![o]["leg1"] = r]
          /\ \/ order' = [order EXCEPT ![o]["leg2"] = Sent(Leg2Quantity(o, r.qty))] /\ Step(o, "leg2")
             \/ order' = [order EXCEPT ![o]["reverse"] = Sent(r.qty)] /\ Step(o, "reverse")
    /\ UNCHANGED <<riskVars, queueVars, inFlight, outcome, enginePnL, published, hostVars>>

\* Mutant: any fill of leg 2 counts as a complete one.
AnyFill(r, qty)    == r.filled /\ r.qty > 0

Complete(r, qty)   == r.filled /\ r.qty >= qty

Residual(qty1, qty2) == IF qty1 - qty2 < 0 THEN 0 ELSE qty1 - qty2

Leg2Returns(o) ==
    /\ pc[o] = "leg2"
    /\ \E r \in Results(o, "leg2") :
          /\ result' = [result EXCEPT ![o]["leg2"] = r]
          /\ \/ /\ Complete(r, order[o]["leg2"].qty)
                /\ Decide(o, "CLEAN")
                /\ Step(o, "bookEngine")
                /\ UNCHANGED order
             \/ /\ ~Complete(r, order[o]["leg2"].qty)
                /\ order' = [order EXCEPT ![o]["reverse"] =
                                Sent(Residual(result[o]["leg1"].qty, r.qty))]
                /\ Step(o, "reverse")
                /\ UNCHANGED outcome
    /\ UNCHANGED <<riskVars, queueVars, inFlight, enginePnL, published, hostVars>>

\* reverseHedge: a market order for the residual on leg 1's venue.
Reversed(o) ==
    /\ pc[o] = "reverse"
    /\ \E r \in Results(o, "reverse") :
          /\ Complete(r, order[o]["reverse"].qty)
          /\ result' = [result EXCEPT ![o]["reverse"] = r]
    /\ Decide(o, "REVERSED")
    /\ Step(o, "bookEngine")
    /\ UNCHANGED <<riskVars, queueVars, inFlight, order, enginePnL, published, hostVars>>

\* Mutant: the unhedged exposure is reported but the switch is not tripped.
OnlyReports(o) ==
    /\ Return(o)
    /\ Step(o, "emit")

TripUnhedged(o) ==
    /\ CallTrip(o, "UNHEDGED_EXPOSURE")
    /\ Step(o, "trip")

ReverseFailed(o) ==
    /\ pc[o] = "reverse"
    /\ \E r \in Results(o, "reverse") :
          /\ ~Complete(r, order[o]["reverse"].qty)
          /\ result' = [result EXCEPT ![o]["reverse"] = r]
    /\ Decide(o, "KILL_SWITCH")
    /\ TripUnhedged(o)
    /\ UNCHANGED <<queueVars, inFlight, order, enginePnL, published, hostVars>>

TripReturned(o) ==
    /\ pc[o] = "trip"
    /\ rpc[o] = "tripped"
    /\ Return(o)
    /\ Step(o, "emit")
    /\ UNCHANGED <<queueVars, inFlight, tradeVars, hostVars>>

PnL(o) ==
    IF outcome[o] = "CLEAN"
    THEN CalculatePnL(o, result[o]["leg1"].qty, result[o]["leg2"].qty)
    ELSE CalculateReverseSlippage(o, result[o]["reverse"].qty)

\* The two books are under two mutexes, taken one after the other.
BookEngine(o) ==
    /\ pc[o] = "bookEngine"
    /\ enginePnL' = enginePnL + PnL(o)
    /\ Step(o, "bookRisk")
    /\ UNCHANGED <<riskVars, queueVars, inFlight, order, result, outcome, published, hostVars>>

\* Mutant: a reversal is only counted in the engine's own book.
RecordInRiskCleanOnly(o) ==
    IF outcome[o] = "CLEAN" THEN RecordCleanExecution(o, PnL(o)) ELSE Return(o)

RecordInRisk(o) ==
    IF outcome[o] = "CLEAN" THEN RecordCleanExecution(o, PnL(o)) ELSE RecordReversal(o, PnL(o))

BookRisk(o) ==
    /\ pc[o] = "bookRisk"
    /\ RecordInRisk(o)
    /\ Step(o, "emit")
    /\ UNCHANGED <<queueVars, inFlight, tradeVars, hostVars>>

\* emitEvent: a failed publication is only logged.
Emit(o) ==
    /\ pc[o] = "emit"
    /\ published' = [published EXCEPT ![o] = Append(@, outcome[o])]
    /\ Step(o, "release")
    /\ UNCHANGED <<riskVars, queueVars, inFlight, order, result, outcome, enginePnL, hostVars>>

\* Mutant: the mark is never deleted.
KeepMark(o) == UNCHANGED inFlight

DeleteMark(o) == inFlight' = inFlight \ {SymbolOf[o]}

\* The deferred delete.
Release(o) ==
    /\ pc[o] = "release"
    /\ DeleteMark(o)
    /\ Step(o, "done")
    /\ UNCHANGED <<riskVars, queueVars, tradeVars, hostVars>>

-------------------------------------------------------------------------------
(* The venues, the operators and the host *)

VenueAnswers(o, leg) ==
    /\ order[o][leg].status = "sent"
    /\ \E executed \in 0..order[o][leg].qty :
          \E a \in Answers(order[o][leg].qty, executed) :
             order' = [order EXCEPT ![o][leg] =
                         [status |-> "answered", qty |-> @.qty, executed |-> executed,
                          filled |-> a.filled, reported |-> a.reported]]
    /\ UNCHANGED <<riskVars, pc, queueVars, inFlight, result, outcome, enginePnL,
                   published, hostVars>>

\* killHandler and resetHandler
OperatorCall(p) ==
    /\ \/ rpc[p] = "idle" /\ CallTrip(p, "MANUAL_OPERATOR_TRIP")
       \/ \E token \in Tokens : CallReset(p, token)
       \/ Return(p)
    /\ UNCHANGED execVars

InRiskEngine(p) ==
    /\ RiskStep(p) \/ TornReasonRead(p)
    /\ UNCHANGED execVars

\* main cancels the context, sleeps for three seconds and returns.
Shutdown ==
    /\ MayShutdown /\ ~ctxDone
    /\ ctxDone' = TRUE
    /\ UNCHANGED <<riskVars, pc, queueVars, inFlight, tradeVars, exited>>

Exit ==
    /\ ctxDone
    /\ exited' = TRUE
    /\ UNCHANGED <<riskVars, pc, queueVars, inFlight, tradeVars, ctxDone>>

-------------------------------------------------------------------------------
Execute(o) ==
    \/ SkipInFlight(o) \/ Acquire(o) \/ RiskRejected(o) \/ SubmitLeg1(o)
    \/ Leg1Missed(o) \/ Leg1Filled(o) \/ Leg2Returns(o)
    \/ Reversed(o) \/ ReverseFailed(o) \/ TripReturned(o)
    \/ BookEngine(o) \/ BookRisk(o) \/ Emit(o) \/ Release(o)

Running == ~panicked /\ ~exited

Next ==
    /\ Running
    /\ \/ \E o \in Opps : Submit(o) \/ Execute(o)
       \/ \E o \in Opps, leg \in Legs : VenueAnswers(o, leg)
       \/ \E p \in Operators : OperatorCall(p)
       \/ \E p \in Procs : InRiskEngine(p)
       \/ Dispatch \/ StopLoop \/ Shutdown \/ Exit

Spec == Init /\ [][Next]_vars

\* The loop and every goroutine are scheduled again, and the timer of a wait
\* fires: an executing goroutine always has a step it can take.  Venues owe
\* no answer, and the detector, the operators and the host owe no call.
Fairness ==
    /\ WF_vars(Running /\ Dispatch)
    /\ \A o \in Opps : WF_vars(Running /\ (Execute(o) \/ InRiskEngine(o)))

FairSpec == Spec /\ Fairness
===============================================================================
