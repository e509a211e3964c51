------------------------------ MODULE RiskCallers ------------------------------
(***************************************************************************)
(* The risk engine closed with the callers it has: executors, which        *)
(* validate an opportunity, execute it when accepted and then book a clean *)
(* execution, book a reversal, trip the kill switch or book nothing (a     *)
(* missed first leg); and operators, the gateway's /kill and /reset        *)
(* handlers, which call in at any time.  How an execution ends is left     *)
(* open here; ExecutionEngine says which ending follows from which fills.  *)
(***************************************************************************)
EXTENDS RiskEngine, FiniteSets

CONSTANTS
    Executors,        \* goroutines of executeTwoLeg
    Operators,        \* goroutines of the gateway's handlers
    Tokens,           \* values of the X-Operator-Token header
    CleanPnLs,        \* profit or loss a clean execution may book
    ReversalPnLs,     \* slippage a reversal may book
    WorstLoss,        \* no execution books a loss above it
    MaxFills,         \* bound on totalFills
    MaxReversals      \* bound on reversals

ASSUME RiskCallersAssumption ==
    /\ Procs = Executors \union Operators
    /\ Executors \intersect Operators = {}
    /\ IsFiniteSet(Executors)
    /\ WorstLoss \in Nat
    /\ CleanPnLs \subseteq Int
    /\ ReversalPnLs \subseteq Int
    /\ \A pnl \in CleanPnLs \union ReversalPnLs : pnl >= -WorstLoss
    /\ Tokens \subseteq STRING
    /\ MaxFills \in Nat /\ MaxReversals \in Nat

-------------------------------------------------------------------------------
Init == RiskInit

ExecutorCall(p) ==
    \/ CallValidate(p)
    \/ /\ rpc[p] = "accepted"
       /\ \/ \E pnl \in CleanPnLs : totalFills < MaxFills /\ RecordCleanExecution(p, pnl)
          \/ \E pnl \in ReversalPnLs : reversals < MaxReversals /\ RecordReversal(p, pnl)
          \/ CallTrip(p, "UNHEDGED_EXPOSURE")
    \/ Return(p)

OperatorCall(p) ==
    \/ CallTrip(p, "MANUAL_OPERATOR_TRIP")
    \/ \E token \in Tokens : CallReset(p, token)
    \/ Return(p)

Next ==
    /\ ~panicked
    /\ \/ \E p \in Executors : ExecutorCall(p)
       \/ \E p \in Operators : OperatorCall(p)
       \/ \E p \in Procs : RiskStep(p) \/ TornReasonRead(p)

Spec == Init /\ [][Next]_riskVars

\* A goroutine inside an operation is scheduled again; nothing makes a caller
\* call.
Fairness == \A p \in Procs : WF_riskVars(~panicked /\ RiskStep(p))

FairSpec == Spec /\ Fairness

-------------------------------------------------------------------------------
TypeOK == RiskTypeOK

NoResets == \A token \in Tokens : token = ""

\* Executors that have passed the daily-loss check and not yet booked.
Committed == {p \in Executors : rpc[p] \in {"readPeak", "accepted"}}

\* The daily-loss check reads dailyPnL before the execution it admits books
\* its own loss, so the limit can be overshot; but by no more than one worst
\* loss per executor, however checks and bookings interleave and however often
\* the switch is reset.
LossOvershootBounded ==
    dailyPnL >= -DailyLossLimit - WorstLoss * Cardinality(Executors)

\* The inductive form: what is left of the overshoot is one worst loss for
\* every executor not committed.
OvershootBudget ==
    dailyPnL >= -DailyLossLimit
                - WorstLoss * (Cardinality(Executors) - Cardinality(Committed))

\* The drawdown check compares a daily figure with a peak read in a later
\* critical section, and books later still.  Whatever is booked in between, the
\* drawdown the dashboard shows exceeds its limit by no more than one worst loss
\* per executor: a stale figure admits only the goroutine that holds it.
DrawdownOvershootBounded ==
    LET drawdown == Snapshot.drawdown IN
    100 * drawdown[1] <= MaxDrawdownPct * drawdown[2]
                         + 100 * (WorstLoss * Cardinality(Executors))

\* Executors the drawdown check has let pass, or is about to.
Admitted ==
    {p \in Executors :
        \/ rpc[p] = "accepted"
        \/ rpc[p] = "readPeak" /\ ~DrawdownBreached(peakPnL, seenPnL[p])}

\* The inductive form, as OvershootBudget.
DrawdownBudget ==
    peakPnL > 0 =>
        100 * (peakPnL - dailyPnL)
            <= MaxDrawdownPct * peakPnL
               + 100 * (WorstLoss * (Cardinality(Executors) - Cardinality(Admitted)))

\* RecordReversal leaves the peak alone, though a reversal into a market that has
\* moved may gain.  The figure the drawdown is measured from therefore falls
\* behind the highest daily figure, but by no more than the reversals brought in:
\* every clean execution is accounted for, in whatever order they are booked.
PeakMissesOnlyReversals ==
    \A gain \in ReversalPnLs \union {0} :
        (\A pnl \in ReversalPnLs \union {0} : pnl <= gain)
            => dailyPnL <= peakPnL + gain * reversals

\* An opportunity validated while the daily loss is over the limit ends with
\* the switch tripped, unless the loss is first made good by an execution
\* already under way.
BreachTripsSwitch ==
    \A p \in Executors :
        (rpc[p] \in {"loadKill", "readDaily"} /\ LossLimitBreached)
            ~> (killSwitch = "TRIPPED" \/ ~LossLimitBreached \/ panicked)
===============================================================================
