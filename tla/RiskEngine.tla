------------------------------ MODULE RiskEngine ------------------------------
(***************************************************************************)
(* The risk engine of internal/risk/engine.go: the kill switch, the two    *)
(* profit-and-loss figures it guards, and the operations that read and     *)
(* change them.  The engine has no goroutine of its own: its operations    *)
(* run in the goroutines of its callers, so each operation is cut where    *)
(* another goroutine can come between two of its accesses to shared state  *)
(* (an atomic instruction, or a critical section of e.mu, is one step).    *)
(*                                                                         *)
(* The module declares the state and the steps.  RiskCallers closes it     *)
(* with callers that only respect the order of calls, ExecutionEngine with *)
(* the two-leg execution that really calls it.                             *)
(*                                                                         *)
(* Money is counted in integer units; the comparisons are the code's, with *)
(* the drawdown fraction multiplied out.                                   *)
(***************************************************************************)
EXTENDS Integers

CONSTANTS
    Procs,            \* goroutines that call the engine
    DailyLossLimit,   \* RiskParams.DailyLossLimit
    MaxDrawdownPct,   \* RiskParams.MaxDrawdown, in percent
    LegTimeoutMs      \* RiskParams.LegTimeoutMs

ASSUME RiskAssumption ==
    /\ DailyLossLimit \in Nat
    /\ MaxDrawdownPct \in Nat
    /\ LegTimeoutMs \in Int

VARIABLES
    killSwitch,       \* SAFE or TRIPPED, accessed with sync/atomic
    killReason,       \* written under e.mu, read by LoadKillSwitch without it
    dailyPnL,
    peakPnL,
    totalFills,
    reversals,
    rpc,              \* rpc[p]: where goroutine p is in its call
    seenPnL,          \* seenPnL[p]: the copy of dailyPnL p checks
    tripReason,       \* tripReason[p]: the argument of p's TripKillSwitch
    panicked          \* a torn read of killReason has faulted the process

portfolio == <<dailyPnL, peakPnL, totalFills, reversals>>
riskVars  == <<killSwitch, killReason, dailyPnL, peakPnL, totalFills, reversals,
               rpc, seenPnL, tripReason, panicked>>

NoReason    == ""
LimitReason == {"DAILY_LOSS_LIMIT", "MAX_DRAWDOWN"}
CallerReason == {"UNHEDGED_EXPOSURE", "MANUAL_OPERATOR_TRIP"}
Reason      == LimitReason \union CallerReason

\* The points of a call.  "accepted" lasts until the caller has finished the
\* execution that was accepted and booked or abandoned it.
RiskPoint == {"idle", "loadKill", "readDaily", "readPeak", "accepted", "rejected",
              "cas", "writeReason", "tripped", "clearReason"}

\* minViableBudget of ValidateOpportunity
MinViableMs == 5

RiskInit ==
    /\ killSwitch = "SAFE"
    /\ killReason = NoReason
    /\ dailyPnL = 0 /\ peakPnL = 0
    /\ totalFills = 0 /\ reversals = 0
    /\ rpc = [p \in Procs |-> "idle"]
    /\ seenPnL = [p \in Procs |-> 0]
    /\ tripReason = [p \in Procs |-> NoReason]
    /\ panicked = FALSE

Goto(p, point) == rpc' = [rpc EXCEPT ![p] = point]

(***************************************************************************)
(* ValidateOpportunity                                                     *)
(***************************************************************************)
CallValidate(p) ==
    /\ rpc[p] = "idle"
    /\ Goto(p, "loadKill")
    /\ UNCHANGED <<killSwitch, killReason, portfolio, seenPnL, tripReason, panicked>>

\* Mutant: the switch is not looked at.
LoadKillSwitchIgnored(p) ==
    /\ rpc[p] = "loadKill"
    /\ Goto(p, "readDaily")
    /\ UNCHANGED <<killSwitch, killReason, portfolio, seenPnL, tripReason, panicked>>

LoadKillSwitch(p) ==
    /\ rpc[p] = "loadKill"
    /\ Goto(p, IF killSwitch = "TRIPPED" THEN "rejected" ELSE "readDaily")
    /\ UNCHANGED <<killSwitch, killReason, portfolio, seenPnL, tripReason, panicked>>

\* Formatting the rejection reads killReason outside the mutex.  While another
\* goroutine is replacing an empty string by a reason, or the reverse, the two
\* words of the string can be read from different values: a length with a nil
\* pointer, and the process faults.
TornReasonRead(p) ==
    /\ rpc[p] = "loadKill"
    /\ killSwitch = "TRIPPED"
    /\ \E q \in Procs \ {p} :
          \/ rpc[q] = "writeReason" /\ killReason = NoReason
          \/ rpc[q] = "clearReason" /\ killReason # NoReason
    /\ panicked' = TRUE
    /\ UNCHANGED <<killSwitch, killReason, portfolio, rpc, seenPnL, tripReason>>

\* Mutant: the limit is compared without its sign.
LossLimitUnsigned == dailyPnL > DailyLossLimit

LossLimitBreached == dailyPnL < -DailyLossLimit

\* Mutant: a breach is an error but does not trip the switch.
ReadDailyOnlyRejects(p) ==
    /\ rpc[p] = "readDaily"
    /\ Goto(p, IF dailyPnL < -DailyLossLimit THEN "rejected" ELSE "readPeak")
    /\ seenPnL' = [seenPnL EXCEPT ![p] = dailyPnL]
    /\ UNCHANGED <<killSwitch, killReason, portfolio, tripReason, panicked>>

ReadDaily(p) ==
    /\ rpc[p] = "readDaily"
    /\ IF LossLimitBreached
       THEN /\ Goto(p, "cas")
            /\ tripReason' = [tripReason EXCEPT ![p] = "DAILY_LOSS_LIMIT"]
            /\ UNCHANGED seenPnL
       ELSE /\ Goto(p, "readPeak")
            /\ seenPnL' = [seenPnL EXCEPT ![p] = dailyPnL]
            /\ UNCHANGED tripReason
    /\ UNCHANGED <<killSwitch, killReason, portfolio, panicked>>

\* Mutant: the fraction is compared the wrong way round.
DrawdownSwapped(peak, daily) ==
    peak > 0 /\ (daily - peak) * 100 > MaxDrawdownPct * peak

DrawdownBreached(peak, daily) ==
    peak > 0 /\ (peak - daily) * 100 > MaxDrawdownPct * peak

\* The peak is read in a critical section of its own and compared with the
\* dailyPnL read before; the budget check that follows reads only parameters.
ReadPeak(p) ==
    /\ rpc[p] = "readPeak"
    /\ IF DrawdownBreached(peakPnL, seenPnL[p])
       THEN /\ Goto(p, "cas")
            /\ tripReason' = [tripReason EXCEPT ![p] = "MAX_DRAWDOWN"]
       ELSE /\ Goto(p, IF LegTimeoutMs < MinViableMs THEN "rejected" ELSE "accepted")
            /\ UNCHANGED tripReason
    /\ seenPnL' = [seenPnL EXCEPT ![p] = 0]
    /\ UNCHANGED <<killSwitch, killReason, portfolio, panicked>>

(***************************************************************************)
(* TripKillSwitch: only the goroutine whose compare-and-swap succeeds goes *)
(* on to write the reason.                                                 *)
(***************************************************************************)
CallTrip(p, reason) ==
    /\ rpc[p] \in {"idle", "accepted"}
    /\ Goto(p, "cas")
    /\ tripReason' = [tripReason EXCEPT ![p] = reason]
    /\ UNCHANGED <<killSwitch, killReason, portfolio, seenPnL, panicked>>

\* Mutant: the winner does not go on to write its reason.
TripWithoutReason(p) ==
    /\ rpc[p] = "cas"
    /\ killSwitch' = "TRIPPED"
    /\ Goto(p, "tripped")
    /\ tripReason' = [tripReason EXCEPT ![p] = NoReason]
    /\ UNCHANGED <<killReason, portfolio, seenPnL, panicked>>

\* Mutant: a plain store instead of the compare-and-swap.
TripPlainStore(p) ==
    /\ rpc[p] = "cas"
    /\ killSwitch' = "TRIPPED"
    /\ Goto(p, "writeReason")
    /\ UNCHANGED <<killReason, portfolio, seenPnL, tripReason, panicked>>

TripCAS(p) ==
    /\ rpc[p] = "cas"
    /\ \/ /\ killSwitch = "SAFE"
          /\ killSwitch' = "TRIPPED"
          /\ Goto(p, "writeReason")
          /\ UNCHANGED tripReason
       \/ /\ killSwitch = "TRIPPED"
          /\ Goto(p, "tripped")
          /\ tripReason' = [tripReason EXCEPT ![p] = NoReason]
          /\ UNCHANGED killSwitch
    /\ UNCHANGED <<killReason, portfolio, seenPnL, panicked>>

WriteReason(p) ==
    /\ rpc[p] = "writeReason"
    /\ killReason' = tripReason[p]
    /\ tripReason' = [tripReason EXCEPT ![p] = NoReason]
    /\ Goto(p, "tripped")
    /\ UNCHANGED <<killSwitch, portfolio, seenPnL, panicked>>

(***************************************************************************)
(* ResetKillSwitch: an empty token is refused and changes nothing.         *)
(***************************************************************************)
CallReset(p, token) ==
    /\ rpc[p] = "idle"
    /\ token # ""
    /\ killSwitch' = "SAFE"
    /\ Goto(p, "clearReason")
    /\ UNCHANGED <<killReason, portfolio, seenPnL, tripReason, panicked>>

ClearReason(p) ==
    /\ rpc[p] = "clearReason"
    /\ killReason' = NoReason
    /\ Goto(p, "idle")
    /\ UNCHANGED <<killSwitch, portfolio, seenPnL, tripReason, panicked>>

(***************************************************************************)
(* Recording: each runs under e.mu, and ends the accepted execution of p.  *)
(***************************************************************************)
PeakKept(daily, peak)     == peak     \* Mutant: the peak is never raised.
PeakAssigned(daily, peak) == daily    \* Mutant: the comparison is missing.

PeakAfter(daily, peak) == IF daily > peak THEN daily ELSE peak

RecordCleanExecution(p, pnl) ==
    /\ rpc[p] = "accepted"
    /\ dailyPnL' = dailyPnL + pnl
    /\ peakPnL' = PeakAfter(dailyPnL + pnl, peakPnL)
    /\ totalFills' = totalFills + 1
    /\ Goto(p, "idle")
    /\ UNCHANGED <<killSwitch, killReason, reversals, seenPnL, tripReason, panicked>>

RecordReversal(p, slippage) ==
    /\ rpc[p] = "accepted"
    /\ dailyPnL' = dailyPnL + slippage
    /\ reversals' = reversals + 1
    /\ Goto(p, "idle")
    /\ UNCHANGED <<killSwitch, killReason, peakPnL, totalFills, seenPnL, tripReason, panicked>>

\* Snapshot, for the dashboard: read under e.mu, with one load of the switch.
\* The drawdown is kept as a fraction.
Snapshot ==
    [killSwitchState |-> killSwitch, killReason |-> killReason,
     dailyPnL |-> dailyPnL, peakPnL |-> peakPnL,
     drawdown |-> IF peakPnL > 0 THEN <<peakPnL - dailyPnL, peakPnL>> ELSE <<0, 1>>,
     totalFills |-> totalFills, reversals |-> reversals]

\* The call has returned (or the accepted execution has ended with nothing to
\* book) and the goroutine goes on.
Return(p) ==
    /\ rpc[p] \in {"accepted", "rejected", "tripped"}
    /\ Goto(p, "idle")
    /\ UNCHANGED <<killSwitch, killReason, portfolio, seenPnL, tripReason, panicked>>

\* The steps a goroutine takes inside an operation it has called.
RiskStep(p) ==
    \/ LoadKillSwitch(p) \/ ReadDaily(p) \/ ReadPeak(p)
    \/ TripCAS(p) \/ WriteReason(p) \/ ClearReason(p)

RiskTypeOK ==
    /\ killSwitch \in {"SAFE", "TRIPPED"}
    /\ killReason \in Reason \union {NoReason}
    /\ dailyPnL \in Int /\ peakPnL \in Nat
    /\ totalFills \in Nat /\ reversals \in Nat
    /\ rpc \in [Procs -> RiskPoint]
    /\ seenPnL \in [Procs -> Int]
    /\ tripReason \in [Procs -> Reason \union {NoReason}]
    /\ panicked \in BOOLEAN

\* TripKillSwitch sets the switch and then the reason in two steps.  As long
\* as no operator resets, the switch is tripped exactly when a reason is on
\* record, except while the winner of the compare-and-swap is between the two.
ReasonMatchesSwitch ==
    (\A p \in Procs : rpc[p] # "writeReason") =>
        (killSwitch = "TRIPPED" <=> killReason # NoReason)

\* Of several goroutines that trip the switch together one writes the reason:
\* the reason on record is never overwritten by a later trip.
FirstReasonSticks == [][killReason # NoReason => killReason' = killReason]_riskVars
===============================================================================
