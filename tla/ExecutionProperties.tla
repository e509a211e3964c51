------------------------- MODULE ExecutionProperties -------------------------
(***************************************************************************)
(* What the execution engine should guarantee: the properties that hold,   *)
(* and those its comments state and its steps do not keep.                 *)
(***************************************************************************)
EXTENDS ExecutionEngine

OrderOK(ord) ==
    /\ ord.status \in {"none", "sent", "answered"}
    /\ ord.qty \in Nat
    /\ ord.executed \in 0..ord.qty
    /\ ord.reported \in 0..ord.executed
    /\ ord.filled \in BOOLEAN
    /\ DOMAIN ord = DOMAIN NotSent

TypeOK ==
    /\ RiskTypeOK
    /\ pc \in [Opps -> PC]
    /\ oppCh \in Seq(Opps) /\ Len(oppCh) <= OppChCap
    /\ loop \in {"running", "stopped"}
    /\ inFlight \subseteq {SymbolOf[o] : o \in Opps}
    /\ DOMAIN order = Opps
    /\ \A o \in Opps : DOMAIN order[o] = Legs /\ \A leg \in Legs : OrderOK(order[o][leg])
    /\ result \in [Opps -> [Legs -> [filled : BOOLEAN, qty : Nat,
                                     from : {"none", "answer", "timeout", "cancelled"}]]]
    /\ outcome \in [Opps -> Outcome \union {"none"}]
    /\ enginePnL \in Int
    /\ published \in [Opps -> Seq(Outcome)]
    /\ ctxDone \in BOOLEAN /\ exited \in BOOLEAN

\* The in-flight guard: two opportunities on one symbol are never both between
\* taking the mark and deleting it, however their goroutines interleave.
OneInFlightPerSymbol ==
    \A o1, o2 \in Opps :
        pc[o1] \in Holding /\ pc[o2] \in Holding /\ SymbolOf[o1] = SymbolOf[o2] => o1 = o2

\* An execution is never hedged past what its first leg reported: what leg 2
\* reported and what the reversal was sent for add up to no more.
HedgeFitsLeg1 ==
    \A o \in Opps :
        /\ order[o]["leg2"].qty <= result[o]["leg1"].qty
        /\ result[o]["leg2"].qty + order[o]["reverse"].qty <= result[o]["leg1"].qty

\* The position at the venues.
Exposure(o) ==
    order[o]["leg1"].executed - order[o]["leg2"].executed - order[o]["reverse"].executed

\* What the venue executed of an order beyond what the engine counted: after
\* submitIOC gave up on it, after an answer that came too soon, or, for a first
\* leg taken as missed, at all.
Counted(o, leg) == IF leg = "leg1" /\ outcome[o] = "MISSED" THEN 0 ELSE result[o][leg].qty
Unseen(o, leg)  == order[o][leg].executed - Counted(o, leg)

\* The engine loses no exposure of its own making: an execution that does not end
\* as KILL_SWITCH is open by no more than what the venues executed unseen, of the
\* first leg in one direction and of the others in the other.  Whose every fill
\* was reported is flat.
ExposureIsUnseen ==
    \A o \in Opps :
        pc[o] = "done" /\ outcome[o] # "KILL_SWITCH" =>
            /\ Exposure(o) <= Unseen(o, "leg1")
            /\ -Exposure(o) <= Unseen(o, "leg2") + Unseen(o, "reverse")

NoResets == \A token \in Tokens : token = ""

\* An unhedged exposure is published only with the switch already tripped;
\* without an operator's reset it stays tripped.
UnhedgedMeansTripped ==
    NoResets => \A o \in Opps : published[o] = <<"KILL_SWITCH">> => killSwitch = "TRIPPED"

\* Goroutines that may still send a first leg, having seen the switch safe.
MaySendLeg1 ==
    {o \in Opps : rpc[o] \in {"readDaily", "readPeak"} \/ (pc[o] = "validate" /\ rpc[o] = "accepted")}

\* While the switch stays tripped no goroutine joins those that may still send
\* a first leg: what slips through was already past the check.
TrippedAdmitsNobody ==
    [][killSwitch = "TRIPPED" /\ killSwitch' = "TRIPPED" => MaySendLeg1' \subseteq MaySendLeg1]_vars

\* The in-flight guard bounds how far the limits are overshot: the daily loss
\* and the drawdown the dashboard shows each exceed theirs by no more than one
\* worst loss per symbol, since at most one execution per symbol is between its
\* checks and its booking.
Symbols == {SymbolOf[o] : o \in Opps}

OvershootBoundedBySymbols ==
    LET overshoot == WorstLoss * Cardinality(Symbols)
        drawdown  == Snapshot.drawdown IN
    /\ dailyPnL >= -DailyLossLimit - overshoot
    /\ 100 * drawdown[1] <= MaxDrawdownPct * drawdown[2] + 100 * overshoot

\* Executions that ended as out and are through their bookings.
Booked(out) == {o \in Opps : outcome[o] = out /\ pc[o] \notin {"bookEngine", "bookRisk"}}

\* The engine's book and the risk engine's differ by exactly what is between
\* the two bookings, and the risk engine has counted every execution that
\* passed them once, as what it ended as.
BooksAgree ==
    /\ (\A o \in Opps : pc[o] # "bookRisk") => enginePnL = dailyPnL
    /\ totalFills = Cardinality(Booked("CLEAN"))
    /\ reversals = Cardinality(Booked("REVERSED"))

\* The lifecycle ArbLifecycle promises, refined.
StatusOf(point) ==
    CASE point \in Waiting -> "waiting"
      [] point \in {"dropped", "skipped"} -> "turnedAway"
      [] point \in Holding -> "open"
      [] point = "done" -> "closed"

Lifecycle == INSTANCE ArbLifecycle
    WITH status <- [o \in Opps |-> StatusOf(pc[o])], announced <- published

RefinesLifecycle == Lifecycle!Spec

\* Seen from the risk engine there is one executor per symbol: the opportunity
\* on it that holds the mark, and an idle one when none does.
Executing == {o \in Opps : pc[o] \in Holding}

PerSymbol(f, executing, idle) ==
    [p \in Symbols \union Operators |->
        IF p \in Operators THEN f[p]
        ELSE IF \E o \in executing : SymbolOf[o] = p
             THEN f[CHOOSE o \in executing : SymbolOf[o] = p]
             ELSE idle]

rpcPerSymbol    == PerSymbol(rpc, Executing, "idle")
seenPerSymbol   == PerSymbol(seenPnL, Executing, 0)
reasonPerSymbol == PerSymbol(tripReason, Executing, NoReason)

CleanPnLs    == UNION {{CalculatePnL(o, qty, qty) : qty \in 0..Quantity[o]} : o \in Opps}
ReversalPnLs == UNION {{CalculateReverseSlippage(o, qty) : qty \in 0..Quantity[o]} : o \in Opps}

Callers == INSTANCE RiskCallers
    WITH Procs <- Symbols \union Operators, Executors <- Symbols,
         MaxFills <- Cardinality(Opps), MaxReversals <- Cardinality(Opps),
         rpc <- rpcPerSymbol, seenPnL <- seenPerSymbol, tripReason <- reasonPerSymbol

\* With the mark of a symbol to itself, an execution is one of the callers the
\* bounds of RiskCallers are stated for: between its check and its booking it
\* stands for its symbol, books at most once and nothing else on the symbol
\* calls in.
RefinesCallers == Callers!Spec

\* Every opportunity in the channel is executed or skipped, unless the process
\* is told to stop or faults.
QueuedResolves ==
    \A o \in Opps :
        pc[o] = "queued" ~> (pc[o] \in {"skipped", "done"} \/ ctxDone \/ panicked)

\* A symbol marked in flight is released, also while the process shuts down,
\* unless the process ends first: no venue can block a symbol for good.
SymbolFreed ==
    \A s \in Symbols : s \in inFlight ~> (s \notin inFlight \/ ~Running)

-------------------------------------------------------------------------------
(* Statements of the source's comments that its steps do not keep *)

\* "Reverse filled — exposure closed": an execution published as REVERSED is
\* flat at the venues.
ReversedMeansFlat ==
    \A o \in Opps : published[o] = <<"REVERSED">> => Exposure(o) = 0

\* "Either counts as filled if executedQty > 0": a first leg reported with a
\* positive quantity is not published as missed.
MissedReportsNothing ==
    \A o \in Opps : published[o] = <<"MISSED">> => result[o]["leg1"].qty = 0

===============================================================================
