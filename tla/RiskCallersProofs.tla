--------------------------- MODULE RiskCallersProofs ---------------------------
(***************************************************************************)
(* The risk engine under any number of executors and operators.            *)
(***************************************************************************)
EXTENDS RiskCallers, RiskEngineProofs

\* Every step of Next is one that books nothing, or a booking by an executor.
LEMMA NextCases ==
    ASSUME Next
    PROVE  \/ \E p \in Procs : RiskOnly(p)
           \/ \E p \in Executors, pnl \in CleanPnLs \union ReversalPnLs :
                 RecordCleanExecution(p, pnl) \/ RecordReversal(p, pnl)
<1>1. CASE \E p \in Executors : ExecutorCall(p)
  <2>1. PICK p \in Executors : ExecutorCall(p)
    BY <1>1
  <2>2. p \in Procs
    BY RiskCallersAssumption
  <2>3. CASE CallValidate(p) \/ CallTrip(p, "UNHEDGED_EXPOSURE") \/ Return(p)
    BY <2>2, <2>3 DEF RiskOnly, CallerReason
  <2>4. CASE \E pnl \in CleanPnLs : RecordCleanExecution(p, pnl)
    BY <2>4
  <2>5. CASE \E pnl \in ReversalPnLs : RecordReversal(p, pnl)
    BY <2>5
  <2> QED
    BY <2>1, <2>3, <2>4, <2>5 DEF ExecutorCall
<1>2. CASE \E p \in Operators : OperatorCall(p)
  <2>1. PICK p \in Operators : OperatorCall(p)
    BY <1>2
  <2>2. p \in Procs /\ Tokens \subseteq STRING
    BY RiskCallersAssumption
  <2> QED
    BY <2>1, <2>2 DEF OperatorCall, RiskOnly, CallerReason
<1>3. CASE \E p \in Procs : RiskStep(p) \/ TornReasonRead(p)
  BY <1>3 DEF RiskOnly
<1> QED
  BY <1>1, <1>2, <1>3 DEF Next

-------------------------------------------------------------------------------
LEMMA InitType == Init => TypeOK
BY RiskInitType DEF Init, TypeOK

LEMMA NextType == TypeOK /\ [Next]_riskVars => TypeOK'
<1> SUFFICES ASSUME TypeOK, [Next]_riskVars PROVE TypeOK'
  OBVIOUS
<1>1. CASE \E p \in Procs : RiskOnly(p)
  BY <1>1, RiskOnlyType DEF TypeOK
<1>2. CASE \E p \in Executors, pnl \in CleanPnLs \union ReversalPnLs :
              RecordCleanExecution(p, pnl) \/ RecordReversal(p, pnl)
  <2>1. PICK p \in Executors, pnl \in CleanPnLs \union ReversalPnLs :
              RecordCleanExecution(p, pnl) \/ RecordReversal(p, pnl)
    BY <1>2
  <2>2. p \in Procs /\ pnl \in Int
    BY RiskCallersAssumption
  <2> QED
    BY <2>1, <2>2, BookingType DEF TypeOK
<1>3. CASE UNCHANGED riskVars
  BY <1>3 DEF riskVars, TypeOK, RiskTypeOK
<1> QED
  BY <1>1, <1>2, <1>3, NextCases

\* The state always has its types.
THEOREM TypeCorrect == Spec => []TypeOK
  BY InitType, NextType, PTL DEF Spec

-------------------------------------------------------------------------------
(* The overshoot of the daily-loss limit *)

LEMMA CommittedIsCommittedIn == Committed = CommittedIn(Executors)
BY DEF Committed, CommittedIn

LEMMA CommittedFits ==
    /\ IsFiniteSet(Executors) /\ Cardinality(Executors) \in Nat
    /\ Cardinality(CommittedIn(Executors)) \in Nat
    /\ Cardinality(CommittedIn(Executors)) <= Cardinality(Executors)
<1>1. CommittedIn(Executors) \in SUBSET Executors
  BY DEF CommittedIn
<1> QED
  BY <1>1, RiskCallersAssumption, FS_Subset, FS_CardinalityType

LEMMA CommittedFitsNext ==
    Cardinality(CommittedIn(Executors)') <= Cardinality(Executors)
<1>1. CommittedIn(Executors)' \in SUBSET Executors
  BY DEF CommittedIn
<1> QED
  BY <1>1, RiskCallersAssumption, FS_Subset

LEMMA InitBudget == Init => OvershootBudget
<1> SUFFICES ASSUME Init PROVE OvershootBudget
  OBVIOUS
<1> DEFINE room == Cardinality(Executors) - Cardinality(CommittedIn(Executors))
<1>1. room \in Nat
  BY CommittedFits
<1>2. WorstLoss * 0 <= WorstLoss * room
  BY <1>1, ProductMonotone, RiskCallersAssumption
<1>3. dailyPnL = 0
  BY DEF Init, RiskInit
<1> HIDE DEF room
<1>4. dailyPnL >= -DailyLossLimit - WorstLoss * room
  BY <1>1, <1>2, <1>3, RiskAssumption, RiskCallersAssumption
<1> QED
  BY <1>4, CommittedIsCommittedIn DEF OvershootBudget, room

LEMMA NextBudget == TypeOK /\ OvershootBudget /\ [Next]_riskVars => OvershootBudget'
<1> SUFFICES ASSUME TypeOK, OvershootBudget, [Next]_riskVars PROVE OvershootBudget'
  OBVIOUS
<1> DEFINE B == Budget(Executors, Cardinality(Executors), WorstLoss)
<1>1. B /\ Executors \in SUBSET Procs /\ WorstLoss \in Nat
  BY CommittedIsCommittedIn, RiskCallersAssumption DEF OvershootBudget, Budget
<1> SUFFICES B'
  BY DEF OvershootBudget, Budget, Committed, CommittedIn
<1>2. CASE \E p \in Procs : RiskOnly(p)
  <2>1. PICK p \in Procs : RiskOnly(p)
    BY <1>2
  <2>2. /\ RiskTypeOK /\ IsFiniteSet(Executors) /\ Cardinality(Executors) \in Nat
        /\ Cardinality(CommittedIn(Executors)') <= Cardinality(Executors)
    BY CommittedFits, CommittedFitsNext DEF TypeOK
  <2> QED
    BY <1>1, <2>1, <2>2, RiskOnlyBudget
<1>3. CASE \E p \in Executors, pnl \in CleanPnLs \union ReversalPnLs :
              RecordCleanExecution(p, pnl) \/ RecordReversal(p, pnl)
  <2>1. PICK p \in Executors, pnl \in CleanPnLs \union ReversalPnLs :
              RecordCleanExecution(p, pnl) \/ RecordReversal(p, pnl)
    BY <1>3
  <2>2. p \in Procs /\ pnl \in Int /\ pnl >= -WorstLoss
    BY RiskCallersAssumption
  <2>3. RiskTypeOK /\ IsFiniteSet(Executors) /\ Cardinality(Executors) \in Nat
    BY CommittedFits DEF TypeOK
  <2> QED
    BY <1>1, <2>1, <2>2, <2>3, BookingBudget
<1>4. CASE UNCHANGED riskVars
  BY <1>1, <1>4 DEF riskVars, Budget, CommittedIn
<1> QED
  BY <1>2, <1>3, <1>4, NextCases

\* However many executors there are, and however their checks and bookings
\* interleave, the daily loss never exceeds the limit by more than one worst
\* loss per executor.
THEOREM OvershootBounded == Spec => []LossOvershootBounded
<1>1. TypeOK /\ OvershootBudget => LossOvershootBounded
  <2> SUFFICES ASSUME TypeOK, OvershootBudget PROVE LossOvershootBounded
    OBVIOUS
  <2> DEFINE n == Cardinality(Executors)
             c == Cardinality(Committed)
  <2>1. n \in Nat /\ c \in Nat /\ c <= n
    BY CommittedFits, CommittedIsCommittedIn
  <2>2. WorstLoss * (n - c) <= WorstLoss * n
    <3>1. n - c <= n
      BY <2>1
    <3> QED
      BY <2>1, <3>1, ProductMonotone, RiskCallersAssumption
  <2>3. dailyPnL >= -DailyLossLimit - WorstLoss * (n - c)
    BY DEF OvershootBudget
  <2>4. dailyPnL \in Int /\ WorstLoss * n \in Int /\ WorstLoss * (n - c) \in Int
    BY <2>1, RiskCallersAssumption DEF TypeOK, RiskTypeOK
  <2> HIDE DEF n, c
  <2>5. dailyPnL >= -DailyLossLimit - WorstLoss * n
    <3> DEFINE x == WorstLoss * (n - c)
               y == WorstLoss * n
    <3> HIDE DEF x, y
    <3>1. x <= y /\ dailyPnL >= -DailyLossLimit - x /\ x \in Int /\ y \in Int
      BY <2>2, <2>3, <2>4 DEF x, y
    <3>2. dailyPnL >= -DailyLossLimit - y
      BY <2>4, <3>1, RiskAssumption
    <3> QED
      BY <3>2 DEF y
  <2> QED
    BY <2>5 DEF LossOvershootBounded, n
<1> QED
  BY <1>1, InitBudget, NextBudget, TypeCorrect, PTL DEF Spec

-------------------------------------------------------------------------------
(* The overshoot of the drawdown limit *)

\* The budget with the products named: room is what is left of the overshoot.
Room == WorstLoss * (Cardinality(Executors) - Cardinality(Admitted))

LEMMA AdmittedFits ==
    /\ IsFiniteSet(Admitted) /\ Cardinality(Admitted) \in Nat
    /\ Cardinality(Executors) \in Nat /\ Cardinality(Admitted) <= Cardinality(Executors)
    /\ IsFiniteSet(Admitted') /\ Cardinality(Admitted') \in Nat
    /\ Cardinality(Admitted') <= Cardinality(Executors)
<1>1. Admitted \in SUBSET Executors /\ Admitted' \in SUBSET Executors
  BY DEF Admitted
<1> QED
  BY <1>1, RiskCallersAssumption, FS_Subset, FS_CardinalityType

LEMMA RoomIsNat == Room \in Nat /\ Room' \in Nat
<1> DEFINE n == Cardinality(Executors)
           a == Cardinality(Admitted)
           b == Cardinality(Admitted')
<1>1. n \in Nat /\ a \in Nat /\ b \in Nat /\ a <= n /\ b <= n /\ WorstLoss \in Nat
  BY AdmittedFits, RiskCallersAssumption
<1>2. n - a \in Nat /\ n - b \in Nat
  BY <1>1
<1> HIDE DEF n, a, b
<1>3. WorstLoss * 0 <= WorstLoss * (n - a) /\ WorstLoss * 0 <= WorstLoss * (n - b)
  BY <1>1, <1>2, ProductMonotone
<1>4. WorstLoss * (n - a) \in Nat /\ WorstLoss * (n - b) \in Nat
  BY <1>1, <1>2, <1>3
<1> QED
  BY <1>4 DEF Room, n, a, b

\* A figure within the limit fits in any room.
LEMMA WithinDrawdown ==
    ASSUME TypeOK, ~DrawdownBreached(peakPnL, dailyPnL)
    PROVE  DrawdownBudget
<1>1. peakPnL \in Nat /\ dailyPnL \in Int /\ MaxDrawdownPct \in Nat /\ Room \in Nat
  BY RiskAssumption, RoomIsNat DEF TypeOK, RiskTypeOK
<1>2. peakPnL > 0 => 100 * (peakPnL - dailyPnL) <= MaxDrawdownPct * peakPnL + 100 * Room
  <2> DEFINE limit == MaxDrawdownPct * peakPnL
  <2>1. limit \in Int
    BY <1>1
  <2>2. peakPnL > 0 => ~((peakPnL - dailyPnL) * 100 > limit)
    BY DEF DrawdownBreached
  <2> HIDE DEF limit
  <2>3. peakPnL > 0 => 100 * (peakPnL - dailyPnL) <= limit + 100 * Room
    BY <1>1, <2>1, <2>2
  <2> QED
    BY <2>3 DEF limit
<1> QED
  BY <1>2 DEF DrawdownBudget, Room

LEMMA WithinDrawdownNext ==
    TypeOK' /\ ~DrawdownBreached(peakPnL, dailyPnL)' => DrawdownBudget'
BY WithinDrawdown, PTL

LEMMA MoreRoom ==
    ASSUME NEW loss \in Int, NEW limit \in Int, NEW x \in Nat, NEW y \in Nat,
           x <= y, loss <= limit + 100 * x
    PROVE  loss <= limit + 100 * y
OBVIOUS

\* A step that leaves both figures alone and admits nobody keeps the budget.
LEMMA RoomGrows ==
    ASSUME TypeOK, DrawdownBudget, UNCHANGED <<dailyPnL, peakPnL>>,
           Admitted' \subseteq Admitted
    PROVE  DrawdownBudget'
<1> DEFINE n == Cardinality(Executors)
           a == Cardinality(Admitted)
           b == Cardinality(Admitted')
<1>1. n \in Nat /\ a \in Nat /\ b \in Nat /\ b <= a /\ WorstLoss \in Nat
  BY AdmittedFits, FS_Subset, RiskCallersAssumption
<1>2. n - a \in Int /\ n - b \in Int /\ n - a <= n - b
  BY <1>1
<1> HIDE DEF n, a, b
<1>3. WorstLoss * (n - a) <= WorstLoss * (n - b)
  BY <1>1, <1>2, ProductMonotone
<1>4. Room <= Room' /\ Room \in Nat /\ Room' \in Nat
  BY <1>3, RoomIsNat DEF Room, n, a, b
<1>5. peakPnL > 0 => 100 * (peakPnL - dailyPnL) <= MaxDrawdownPct * peakPnL + 100 * Room
  BY DEF DrawdownBudget, Room
<1>6. peakPnL > 0 => 100 * (peakPnL - dailyPnL) <= MaxDrawdownPct * peakPnL + 100 * Room'
  <2> DEFINE limit == MaxDrawdownPct * peakPnL
  <2>1. limit \in Int /\ peakPnL \in Nat /\ dailyPnL \in Int
    BY RiskAssumption DEF TypeOK, RiskTypeOK
  <2>2. peakPnL > 0 => 100 * (peakPnL - dailyPnL) <= limit + 100 * Room
    BY <1>5
  <2> HIDE DEF limit
  <2>3. peakPnL > 0 => 100 * (peakPnL - dailyPnL) <= limit + 100 * Room'
    <3>1. 100 * (peakPnL - dailyPnL) \in Int
      BY <2>1
    <3> QED
      BY <1>4, <2>1, <2>2, <3>1, MoreRoom
  <2> QED
    BY <2>3 DEF limit
<1> QED
  BY <1>6 DEF DrawdownBudget, Room

LEMMA NobodyElse ==
    ASSUME NEW p, UNCHANGED peakPnL, p \in Admitted' => p \in Admitted,
           \A q \in Executors : q # p => rpc'[q] = rpc[q] /\ seenPnL'[q] = seenPnL[q]
    PROVE  Admitted' \subseteq Admitted
BY DEF Admitted, DrawdownBreached

LEMMA PointOutside ==
    ASSUME TypeOK, NEW p \in Procs, UNCHANGED <<dailyPnL, peakPnL, seenPnL>>,
           NEW point \in RiskPoint, point \notin {"accepted", "readPeak"},
           rpc' = [rpc EXCEPT ![p] = point]
    PROVE  Admitted' \subseteq Admitted
<1>1. rpc \in [Procs -> RiskPoint]
  BY DEF TypeOK, RiskTypeOK
<1>2. rpc'[p] = point /\ \A q \in Executors : q # p => rpc'[q] = rpc[q]
  BY <1>1, RiskCallersAssumption
<1>3. p \notin Admitted'
  BY <1>2 DEF Admitted
<1> QED
  BY <1>2, <1>3, NobodyElse

\* Who is past the drawdown check changes only in the check itself, and in the
\* reading of the daily figure that it compares.
LEMMA RiskOnlyAdmits ==
    ASSUME TypeOK, NEW p \in Procs, RiskOnly(p)
    PROVE  /\ UNCHANGED <<dailyPnL, peakPnL>>
           /\ Admitted' \subseteq Admitted \/ ~DrawdownBreached(peakPnL, dailyPnL)
<1> USE DEF TypeOK, RiskTypeOK, Goto, portfolio, Admitted
<1>1. CASE CallValidate(p)
  BY <1>1 DEF CallValidate
<1>2. CASE LoadKillSwitch(p)
  BY <1>2 DEF LoadKillSwitch
<1>3. CASE ReadDaily(p)
  <2>1. UNCHANGED <<dailyPnL, peakPnL>>
    BY <1>3 DEF ReadDaily
  <2>2. /\ \A q \in Procs : q # p => rpc'[q] = rpc[q] /\ seenPnL'[q] = seenPnL[q]
        /\ rpc'[p] = "cas" \/ (rpc'[p] = "readPeak" /\ seenPnL'[p] = dailyPnL)
    <3>1. rpc \in [Procs -> RiskPoint] /\ seenPnL \in [Procs -> Int]
      OBVIOUS
    <3>2. CASE LossLimitBreached
      <4>1. rpc' = [rpc EXCEPT ![p] = "cas"] /\ seenPnL' = seenPnL
        BY <1>3, <3>2 DEF ReadDaily
      <4>2. rpc'[p] = "cas" /\ \A q \in Procs : q # p => rpc'[q] = rpc[q]
        BY <3>1, <4>1
      <4>3. \A q \in Procs : seenPnL'[q] = seenPnL[q]
        BY <4>1
      <4> QED
        BY <4>2, <4>3
    <3>3. CASE ~LossLimitBreached
      <4>1. rpc' = [rpc EXCEPT ![p] = "readPeak"] /\ seenPnL' = [seenPnL EXCEPT ![p] = dailyPnL]
        BY <1>3, <3>3 DEF ReadDaily
      <4> QED
        BY <3>1, <4>1, Zenon
    <3> QED
      BY <3>2, <3>3
  <2>3. CASE DrawdownBreached(peakPnL, dailyPnL)
    <3>1. p \notin Admitted'
      BY <2>1, <2>2, <2>3
    <3> QED
      BY <2>1, <2>2, <3>1, NobodyElse, RiskCallersAssumption
  <2> QED
    BY <2>1, <2>3
<1>4. CASE ReadPeak(p)
  <2>1. UNCHANGED <<dailyPnL, peakPnL>>
    BY <1>4 DEF ReadPeak
  <2>2. /\ seenPnL' = [seenPnL EXCEPT ![p] = 0]
        /\ rpc \in [Procs -> RiskPoint] /\ seenPnL \in [Procs -> Int]
        /\ rpc[p] = "readPeak"
    BY <1>4 DEF ReadPeak
  <2>3. \/ rpc' = [rpc EXCEPT ![p] = "cas"] \/ rpc' = [rpc EXCEPT ![p] = "rejected"]
        \/ rpc' = [rpc EXCEPT ![p] = "accepted"] /\ ~DrawdownBreached(peakPnL, seenPnL[p])
    BY <1>4 DEF ReadPeak
  <2>4. /\ \A q \in Procs : q # p => rpc'[q] = rpc[q]
        /\ rpc'[p] \in {"cas", "rejected", "accepted"}
        /\ rpc'[p] = "accepted" => ~DrawdownBreached(peakPnL, seenPnL[p])
    BY <2>2, <2>3
  <2>5. \A q \in Procs : q # p => seenPnL'[q] = seenPnL[q]
    BY <2>2, Zenon
  <2>6. p \in Admitted' => p \in Admitted
    BY <2>2, <2>4
  <2> QED
    BY <2>1, <2>4, <2>5, <2>6, NobodyElse, RiskCallersAssumption
<1>5. CASE TripCAS(p)
  <2>1. UNCHANGED <<dailyPnL, peakPnL, seenPnL>>
    BY <1>5 DEF TripCAS
  <2>2. \E point \in {"writeReason", "tripped"} : rpc' = [rpc EXCEPT ![p] = point]
    BY <1>5 DEF TripCAS
  <2> QED
    BY <2>1, <2>2, PointOutside
<1>6. CASE WriteReason(p)
  BY <1>6 DEF WriteReason
<1>7. CASE ClearReason(p)
  BY <1>7 DEF ClearReason
<1>8. CASE TornReasonRead(p)
  BY <1>8 DEF TornReasonRead
<1>9. CASE Return(p)
  BY <1>9 DEF Return
<1>10. CASE \E token \in STRING : CallReset(p, token)
  <2>1. UNCHANGED <<dailyPnL, peakPnL, seenPnL>> /\ rpc' = [rpc EXCEPT ![p] = "clearReason"]
    BY <1>10 DEF CallReset
  <2> QED
    BY <2>1, PointOutside
<1>11. CASE \E reason \in CallerReason : CallTrip(p, reason)
  BY <1>11 DEF CallTrip
<1> QED
  BY <1>1, <1>2, <1>3, <1>4, <1>5, <1>6, <1>7, <1>8, <1>9, <1>10, <1>11 DEF RiskOnly, RiskStep

LEMMA BookingDrawdown ==
    ASSUME TypeOK, DrawdownBudget, NEW p \in Executors, NEW pnl \in Int, pnl >= -WorstLoss,
           RecordCleanExecution(p, pnl) \/ RecordReversal(p, pnl), TypeOK'
    PROVE  DrawdownBudget'
<1>1. /\ dailyPnL' = dailyPnL + pnl /\ dailyPnL \in Int
      /\ peakPnL' = peakPnL \/ peakPnL' = dailyPnL'
      /\ peakPnL \in Nat /\ peakPnL' \in Nat /\ dailyPnL' \in Int
      /\ rpc[p] = "accepted" /\ rpc' = [rpc EXCEPT ![p] = "idle"]
      /\ rpc \in [Procs -> RiskPoint] /\ p \in Procs /\ UNCHANGED seenPnL
  BY RiskCallersAssumption
     DEF RecordCleanExecution, RecordReversal, PeakAfter, TypeOK, RiskTypeOK, Goto
\* A new peak is no drawdown.
<1>2. CASE peakPnL' = dailyPnL'
  <2>1. ~DrawdownBreached(peakPnL, dailyPnL)'
    <3> DEFINE limit == MaxDrawdownPct * peakPnL'
    <3>1. MaxDrawdownPct * 0 <= limit /\ limit \in Int
      <4>1. 0 \in Int /\ peakPnL' \in Int /\ 0 <= peakPnL' /\ MaxDrawdownPct \in Nat
        BY <1>1, RiskAssumption
      <4> DEFINE w == MaxDrawdownPct
                 b == peakPnL'
      <4>2. w \in Nat /\ b \in Int /\ 0 <= b
        BY <4>1
      <4> HIDE DEF w, b
      <4>3. w * 0 <= w * b /\ w * b \in Int
        BY <4>2, ProductMonotone
      <4> QED
        BY <4>3 DEF w, b
    <3>2. limit >= 0 /\ (peakPnL' - dailyPnL') * 100 = 0
      BY <1>1, <1>2, <3>1, RiskAssumption
    <3> HIDE DEF limit
    <3>3. ~((peakPnL' - dailyPnL') * 100 > limit)
      BY <3>1, <3>2
    <3> QED
      BY <3>3 DEF DrawdownBreached, limit
  <2>2. TypeOK' /\ ~DrawdownBreached(peakPnL, dailyPnL)' => DrawdownBudget'
    BY WithinDrawdownNext
  <2> QED
    BY <2>1, <2>2
\* Else the loss is paid with the place of the executor that books it.
<1>3. CASE peakPnL' = peakPnL
  <2>1. p \in Admitted /\ Admitted' = Admitted \ {p}
    BY <1>1, <1>3, RiskCallersAssumption DEF Admitted, DrawdownBreached
  <2>2. Cardinality(Admitted') = Cardinality(Admitted) - 1
    BY <2>1, AdmittedFits, FS_RemoveElement
  <2>3. Room' = Room + WorstLoss
    <3> DEFINE n == Cardinality(Executors)
               a == Cardinality(Admitted)
               b == Cardinality(Admitted')
    <3>1. n \in Nat /\ a \in Nat /\ b = a - 1 /\ WorstLoss \in Nat
      BY <2>2, AdmittedFits, RiskCallersAssumption
    <3>2. n - a \in Int /\ n - b = (n - a) + 1
      BY <3>1
    <3> HIDE DEF n, a, b
    <3>3. WorstLoss * (n - b) = WorstLoss * (n - a) + WorstLoss
      BY <3>1, <3>2, ProductStep
    <3> QED
      BY <3>3 DEF Room, n, a, b
  <2>4. peakPnL > 0 => 100 * (peakPnL - dailyPnL) <= MaxDrawdownPct * peakPnL + 100 * Room
    BY DEF DrawdownBudget, Room
  <2>5. peakPnL' > 0 => 100 * (peakPnL' - dailyPnL') <= MaxDrawdownPct * peakPnL' + 100 * Room'
    <3> DEFINE limit == MaxDrawdownPct * peakPnL
               x == Room
    <3>1. limit \in Int /\ x \in Nat /\ WorstLoss \in Nat
      BY <1>1, RoomIsNat, RiskAssumption, RiskCallersAssumption
    <3>2. peakPnL > 0 => 100 * (peakPnL - dailyPnL) <= limit + 100 * x
      BY <2>4
    <3> HIDE DEF limit, x
    <3>3. peakPnL > 0 => 100 * (peakPnL - (dailyPnL + pnl)) <= limit + 100 * (x + WorstLoss)
      BY <1>1, <3>1, <3>2
    <3> QED
      BY <1>1, <1>3, <2>3, <3>3 DEF limit, x
  <2> QED
    BY <2>5 DEF DrawdownBudget, Room
<1> QED
  BY <1>1, <1>2, <1>3

LEMMA NextDrawdown == TypeOK /\ DrawdownBudget /\ [Next]_riskVars => DrawdownBudget'
<1> SUFFICES ASSUME TypeOK, DrawdownBudget, [Next]_riskVars PROVE DrawdownBudget'
  OBVIOUS
<1>1. TypeOK'
  BY NextType
<1>2. CASE \E p \in Procs : RiskOnly(p)
  <2>1. PICK p \in Procs : RiskOnly(p)
    BY <1>2
  <2>2. UNCHANGED <<dailyPnL, peakPnL>>
    BY <2>1, RiskOnlyAdmits
  <2>3. CASE Admitted' \subseteq Admitted
    BY <2>2, <2>3, RoomGrows
  <2>4. CASE ~DrawdownBreached(peakPnL, dailyPnL)
    <3>1. ~DrawdownBreached(peakPnL, dailyPnL)'
      BY <2>2, <2>4 DEF DrawdownBreached
    <3> QED
      BY <1>1, <3>1, WithinDrawdownNext
  <2> QED
    BY <2>1, <2>3, <2>4, RiskOnlyAdmits
<1>3. CASE \E p \in Executors, pnl \in CleanPnLs \union ReversalPnLs :
              RecordCleanExecution(p, pnl) \/ RecordReversal(p, pnl)
  <2>1. PICK p \in Executors, pnl \in CleanPnLs \union ReversalPnLs :
              RecordCleanExecution(p, pnl) \/ RecordReversal(p, pnl)
    BY <1>3
  <2>2. pnl \in Int /\ pnl >= -WorstLoss
    BY RiskCallersAssumption
  <2> QED
    BY <1>1, <2>1, <2>2, BookingDrawdown
<1>4. CASE UNCHANGED riskVars
  BY <1>4 DEF riskVars, DrawdownBudget, Admitted, DrawdownBreached
<1> QED
  BY <1>2, <1>3, <1>4, NextCases

\* However stale the figures of a drawdown check are when it is acted upon, the
\* drawdown never exceeds its limit by more than one worst loss per executor.
THEOREM DrawdownBounded == Spec => []DrawdownOvershootBounded
<1>1. Init => DrawdownBudget
  BY DEF Init, RiskInit, DrawdownBudget
<1>2. TypeOK /\ DrawdownBudget => DrawdownOvershootBounded
  <2> SUFFICES ASSUME TypeOK, DrawdownBudget PROVE DrawdownOvershootBounded
    OBVIOUS
  <2> DEFINE all == WorstLoss * Cardinality(Executors)
  <2>1. Room <= all /\ Room \in Nat /\ all \in Nat
    <3> DEFINE n == Cardinality(Executors)
               a == Cardinality(Admitted)
    <3>1. n \in Nat /\ a \in Nat /\ WorstLoss \in Nat
      BY AdmittedFits, RiskCallersAssumption
    <3>2. n - a \in Int /\ n - a <= n
      BY <3>1
    <3> HIDE DEF n, a
    <3>3. WorstLoss * (n - a) <= WorstLoss * n /\ WorstLoss * n \in Int
      BY <3>1, <3>2, ProductMonotone
    <3>4. Room <= all /\ all \in Int
      BY <3>3 DEF Room, n, a
    <3> HIDE DEF all
    <3> QED
      BY <3>4, RoomIsNat
  <2>2. peakPnL \in Nat /\ dailyPnL \in Int /\ MaxDrawdownPct \in Nat
    BY RiskAssumption DEF TypeOK, RiskTypeOK
  <2> HIDE DEF all
  <2>3. CASE peakPnL > 0
    <3> DEFINE limit == MaxDrawdownPct * peakPnL
               loss == 100 * (peakPnL - dailyPnL)
    <3>1. limit \in Int /\ loss \in Int
      BY <2>2
    <3>2. loss <= limit + 100 * Room
      BY <2>3 DEF DrawdownBudget, Room
    <3>3. loss <= limit + 100 * all
      <4> HIDE DEF limit, loss
      <4> QED
        BY <2>1, <3>1, <3>2, MoreRoom
    <3> QED
      BY <2>3, <3>3 DEF DrawdownOvershootBounded, Snapshot, all
  <2>4. CASE ~(peakPnL > 0)
    <3>1. 100 * 0 <= MaxDrawdownPct * 1 + 100 * all
      BY <2>1, <2>2
    <3> QED
      BY <2>4, <3>1 DEF DrawdownOvershootBounded, Snapshot, all
  <2> QED
    BY <2>3, <2>4
<1> QED
  BY <1>1, <1>2, NextDrawdown, TypeCorrect, PTL DEF Spec

-------------------------------------------------------------------------------
(* The reason on record, without resets *)

\* At most one goroutine is between winning the compare-and-swap and writing
\* its reason; until it has written, no reason is on record.
TripInv ==
    /\ \A p \in Procs : rpc[p] # "clearReason"
    /\ \A p \in Procs : rpc[p] \in {"cas", "writeReason"} => tripReason[p] # NoReason
    /\ \A p, q \in Procs : rpc[p] = "writeReason" /\ rpc[q] = "writeReason" => p = q
    /\ \A p \in Procs :
          rpc[p] = "writeReason" => killSwitch = "TRIPPED" /\ killReason = NoReason
    /\ ReasonMatchesSwitch

\* Without resets every step is a booking or a step of another operation.
LEMMA NextCasesNoResets ==
    ASSUME NoResets, Next
    PROVE  \/ \E p \in Procs :
                 \/ CallValidate(p) \/ RiskStep(p) \/ TornReasonRead(p) \/ Return(p)
                 \/ \E reason \in CallerReason : CallTrip(p, reason)
           \/ \E p \in Procs, pnl \in CleanPnLs \union ReversalPnLs :
                 RecordCleanExecution(p, pnl) \/ RecordReversal(p, pnl)
<1>1. \A p : ~ \E token \in Tokens : CallReset(p, token)
  BY DEF NoResets, CallReset
<1>2. Executors \subseteq Procs /\ Operators \subseteq Procs
  BY RiskCallersAssumption
<1>3. CASE \E p \in Executors : ExecutorCall(p)
  BY <1>2, <1>3 DEF ExecutorCall, CallerReason
<1>4. CASE \E p \in Operators : OperatorCall(p)
  BY <1>1, <1>2, <1>4 DEF OperatorCall, CallerReason
<1> QED
  BY <1>3, <1>4 DEF Next

LEMMA InitTrip == Init => TripInv
BY DEF Init, RiskInit, TripInv, ReasonMatchesSwitch

\* Each step keeps TripInv, and keeps a reason once it is on record.
LEMMA NextTrip ==
    ASSUME NoResets, TypeOK, TripInv, [Next]_riskVars
    PROVE  TripInv' /\ (killReason # NoReason => killReason' = killReason)
<1> USE DEF TypeOK, RiskTypeOK, TripInv, ReasonMatchesSwitch, Goto, portfolio, NoReason
<1>1. ASSUME NEW p \in Procs, CallValidate(p)
      PROVE  TripInv' /\ (killReason # NoReason => killReason' = killReason)
  BY <1>1 DEF CallValidate
<1>2. ASSUME NEW p \in Procs, LoadKillSwitch(p)
      PROVE  TripInv' /\ (killReason # NoReason => killReason' = killReason)
  BY <1>2 DEF LoadKillSwitch
<1>3. ASSUME NEW p \in Procs, ReadDaily(p)
      PROVE  TripInv' /\ (killReason # NoReason => killReason' = killReason)
  BY <1>3 DEF ReadDaily
<1>4. ASSUME NEW p \in Procs, ReadPeak(p)
      PROVE  TripInv' /\ (killReason # NoReason => killReason' = killReason)
  BY <1>4 DEF ReadPeak
<1>5. ASSUME NEW p \in Procs, TripCAS(p)
      PROVE  TripInv' /\ (killReason # NoReason => killReason' = killReason)
  BY <1>5 DEF TripCAS
<1>6. ASSUME NEW p \in Procs, WriteReason(p)
      PROVE  TripInv' /\ (killReason # NoReason => killReason' = killReason)
  BY <1>6 DEF WriteReason
<1>7. ASSUME NEW p \in Procs, ClearReason(p)
      PROVE  TripInv' /\ (killReason # NoReason => killReason' = killReason)
  BY <1>7 DEF ClearReason
<1>8. ASSUME NEW p \in Procs, TornReasonRead(p)
      PROVE  TripInv' /\ (killReason # NoReason => killReason' = killReason)
  BY <1>8 DEF TornReasonRead
<1>9. ASSUME NEW p \in Procs, Return(p)
      PROVE  TripInv' /\ (killReason # NoReason => killReason' = killReason)
  BY <1>9 DEF Return
<1>10. ASSUME NEW p \in Procs, NEW reason \in CallerReason, CallTrip(p, reason)
       PROVE  TripInv' /\ (killReason # NoReason => killReason' = killReason)
  BY <1>10 DEF CallTrip, CallerReason
<1>11. ASSUME NEW p \in Procs, NEW pnl \in CleanPnLs \union ReversalPnLs,
              RecordCleanExecution(p, pnl) \/ RecordReversal(p, pnl)
       PROVE  TripInv' /\ (killReason # NoReason => killReason' = killReason)
  BY <1>11 DEF RecordCleanExecution, RecordReversal
<1>12. CASE UNCHANGED riskVars
  BY <1>12 DEF riskVars
<1> QED
  BY <1>1, <1>2, <1>3, <1>4, <1>5, <1>6, <1>7, <1>8, <1>9, <1>10, <1>11, <1>12,
     NextCasesNoResets DEF RiskStep

\* As long as no operator resets, a tripped switch has its reason as soon as
\* its winner has written it, and an untripped one has none.
THEOREM ReasonFollowsSwitch ==
    ASSUME NoResets
    PROVE  Spec => []ReasonMatchesSwitch
<1>1. TypeOK /\ TripInv /\ [Next]_riskVars => TripInv'
  BY NextTrip
<1>2. TripInv => ReasonMatchesSwitch
  BY DEF TripInv
<1> QED
  BY <1>1, <1>2, InitTrip, TypeCorrect, PTL DEF Spec

\* As long as no operator resets, the reason on record is never overwritten.
THEOREM FirstReasonKept ==
    ASSUME NoResets
    PROVE  Spec => FirstReasonSticks
<1>1. TypeOK /\ TripInv /\ [Next]_riskVars => TripInv'
  BY NextTrip
<1>2. TypeOK /\ TripInv /\ [Next]_riskVars
        => [killReason # NoReason => killReason' = killReason]_riskVars
  BY NextTrip
<1> QED
  BY <1>1, <1>2, InitTrip, TypeCorrect, PTL DEF Spec, FirstReasonSticks

-------------------------------------------------------------------------------
(* The peak *)

\* For one bound on what a reversal gains: each booking keeps the daily figure
\* within the peak and what the reversals so far may have brought in.
PeakWithin(gain) == dailyPnL <= peakPnL + gain * reversals

LEMMA NextPeak ==
    ASSUME TypeOK, [Next]_riskVars, NEW gain \in Nat,
           \A pnl \in ReversalPnLs : pnl <= gain, PeakWithin(gain)
    PROVE  PeakWithin(gain)'
<1>1. dailyPnL \in Int /\ peakPnL \in Nat /\ reversals \in Nat
  BY DEF TypeOK, RiskTypeOK
<1>2. gain * reversals \in Nat
  <2>1. gain * 0 <= gain * reversals
    BY <1>1, ProductMonotone
  <2> QED
    BY <1>1, <2>1
<1>3. CASE UNCHANGED <<dailyPnL, peakPnL, reversals>>
  BY <1>3 DEF PeakWithin
\* A clean execution raises the peak to the figure it leads to, or stays below.
<1>4. ASSUME NEW p \in Executors, NEW pnl \in CleanPnLs, RecordCleanExecution(p, pnl)
      PROVE  PeakWithin(gain)'
  <2>1. /\ pnl \in Int /\ dailyPnL' = dailyPnL + pnl /\ reversals' = reversals
        /\ peakPnL' = IF dailyPnL' > peakPnL THEN dailyPnL' ELSE peakPnL
    BY <1>4, RiskCallersAssumption DEF RecordCleanExecution, PeakAfter
  <2>2. dailyPnL' <= peakPnL' /\ dailyPnL' \in Int /\ peakPnL' \in Int
    BY <1>1, <2>1
  <2> DEFINE brought == gain * reversals
  <2>3. brought \in Nat /\ gain * reversals' = brought
    BY <1>2, <2>1
  <2> HIDE DEF brought
  <2>4. ASSUME NEW x \in Int, NEW y \in Int, x <= y PROVE x <= y + brought
    BY <2>3, <2>4
  <2>5. dailyPnL' <= peakPnL' + brought
    BY <2>2, <2>4
  <2> QED
    BY <2>3, <2>5 DEF PeakWithin
\* A reversal is counted with the figure it raises.
<1>5. ASSUME NEW p \in Executors, NEW pnl \in ReversalPnLs, RecordReversal(p, pnl)
      PROVE  PeakWithin(gain)'
  <2>1. /\ pnl \in Int /\ pnl <= gain /\ dailyPnL' = dailyPnL + pnl
        /\ peakPnL' = peakPnL /\ reversals' = reversals + 1
    BY <1>5, RiskCallersAssumption DEF RecordReversal
  <2> DEFINE brought == gain * reversals
  <2>2. gain * reversals' = brought + gain
    BY <1>1, <2>1, ProductStep
  <2>3. brought \in Nat /\ dailyPnL <= peakPnL + brought
    BY <1>2 DEF PeakWithin
  <2> HIDE DEF brought
  <2>4. dailyPnL' <= peakPnL' + (brought + gain)
    BY <1>1, <2>1, <2>3
  <2> QED
    BY <2>2, <2>4 DEF PeakWithin
<1>6. ASSUME NEW p \in Procs, RiskStep(p) \/ TornReasonRead(p)
      PROVE  UNCHANGED <<dailyPnL, peakPnL, reversals>>
  BY <1>6 DEF RiskStep, LoadKillSwitch, ReadDaily, ReadPeak, TripCAS, WriteReason,
              ClearReason, TornReasonRead, portfolio
<1>7. ASSUME NEW p \in Operators, OperatorCall(p)
      PROVE  UNCHANGED <<dailyPnL, peakPnL, reversals>>
  BY <1>7 DEF OperatorCall, CallTrip, CallReset, Return, portfolio
<1>8. ASSUME NEW p, CallValidate(p) \/ CallTrip(p, "UNHEDGED_EXPOSURE") \/ Return(p)
      PROVE  UNCHANGED <<dailyPnL, peakPnL, reversals>>
  BY <1>8 DEF CallValidate, CallTrip, Return, portfolio
<1>9. CASE UNCHANGED riskVars
  BY <1>3, <1>9 DEF riskVars, portfolio
<1> QED
  BY <1>3, <1>4, <1>5, <1>6, <1>7, <1>8, <1>9 DEF Next, ExecutorCall

\* The peak falls behind the daily figure by no more than the reversals gained,
\* for any bookings in any order.
THEOREM PeakMisses == Spec => []PeakMissesOnlyReversals
<1>1. Init => PeakMissesOnlyReversals
  <2> SUFFICES ASSUME Init, NEW gain \in ReversalPnLs \union {0}
               PROVE  dailyPnL <= peakPnL + gain * reversals
    BY DEF PeakMissesOnlyReversals
  <2>1. gain \in Int /\ dailyPnL = 0 /\ peakPnL = 0 /\ reversals = 0
    BY RiskCallersAssumption DEF Init, RiskInit
  <2> QED
    BY <2>1
<1>2. TypeOK /\ PeakMissesOnlyReversals /\ [Next]_riskVars => PeakMissesOnlyReversals'
  <2> SUFFICES ASSUME TypeOK, PeakMissesOnlyReversals, [Next]_riskVars,
                      NEW gain \in ReversalPnLs \union {0},
                      \A pnl \in ReversalPnLs \union {0} : pnl <= gain
               PROVE  (dailyPnL <= peakPnL + gain * reversals)'
    BY DEF PeakMissesOnlyReversals
  <2>1. gain \in Int /\ 0 <= gain
    BY RiskCallersAssumption
  <2>2. PeakWithin(gain)
    BY DEF PeakMissesOnlyReversals, PeakWithin
  <2>3. gain \in Nat /\ \A pnl \in ReversalPnLs : pnl <= gain
    BY <2>1
  <2>4. PeakWithin(gain)'
    BY <2>2, <2>3, NextPeak
  <2> QED
    BY <2>4 DEF PeakWithin
<1> QED
  BY <1>1, <1>2, TypeCorrect, PTL DEF Spec
===============================================================================
