--------------------------- MODULE RiskEngineProofs ---------------------------
(***************************************************************************)
(* Lemmas about the steps of the risk engine, for any caller: each keeps   *)
(* the types, and a loss budget counted in goroutines that are committed   *)
(* (past the daily-loss check and not yet booked) survives every step.     *)
(***************************************************************************)
EXTENDS RiskEngine, FiniteSetTheorems, TLAPS

\* Steps that book nothing.
RiskOnly(p) ==
    \/ CallValidate(p) \/ RiskStep(p) \/ TornReasonRead(p) \/ Return(p)
    \/ \E token \in STRING : CallReset(p, token)
    \/ \E reason \in CallerReason : CallTrip(p, reason)

LEMMA ZeroUpdate ==
    ASSUME NEW S, NEW f \in [S -> Int], NEW x \in S
    PROVE  [f EXCEPT ![x] = 0] \in [S -> Int]
OBVIOUS

LEMMA ZeroFunction ==
    ASSUME NEW S
    PROVE  [x \in S |-> 0] \in [S -> Int]
OBVIOUS

\* The initial state has its types.
LEMMA RiskInitType == RiskInit => RiskTypeOK
<1> SUFFICES ASSUME RiskInit PROVE RiskTypeOK
  OBVIOUS
<1>1. /\ killSwitch \in {"SAFE", "TRIPPED"}
      /\ killReason \in Reason \union {NoReason}
      /\ panicked \in BOOLEAN
  BY DEF RiskInit
<1>2. rpc \in [Procs -> RiskPoint]
  BY DEF RiskInit, RiskPoint
<1>3. tripReason \in [Procs -> Reason \union {NoReason}]
  BY DEF RiskInit
<1>4. seenPnL \in [Procs -> Int]
  BY ZeroFunction, Zenon DEF RiskInit
<1>5. dailyPnL \in Int /\ peakPnL \in Nat /\ totalFills \in Nat /\ reversals \in Nat
  BY SMT DEF RiskInit
<1> QED
  BY <1>1, <1>2, <1>3, <1>4, <1>5, Zenon DEF RiskTypeOK

\* Every step of the risk engine that books nothing keeps the types.
LEMMA RiskOnlyType ==
    ASSUME RiskTypeOK, NEW p \in Procs, RiskOnly(p)
    PROVE  RiskTypeOK'
<1> USE DEF RiskTypeOK, RiskPoint, Goto, portfolio, Reason, LimitReason, CallerReason, NoReason
<1>1. CASE CallValidate(p)
  BY <1>1 DEF CallValidate
<1>2. CASE LoadKillSwitch(p)
  BY <1>2 DEF LoadKillSwitch
<1>3. CASE ReadDaily(p)
  BY <1>3 DEF ReadDaily
<1>4. CASE ReadPeak(p)
  <2>1. \E point \in {"cas", "rejected", "accepted"} : rpc' = [rpc EXCEPT ![p] = point]
    BY <1>4 DEF ReadPeak
  <2>2. tripReason' \in {tripReason, [tripReason EXCEPT ![p] = "MAX_DRAWDOWN"]}
    BY <1>4 DEF ReadPeak
  <2>3. UNCHANGED <<killSwitch, killReason, portfolio, panicked>>
    BY <1>4 DEF ReadPeak
  <2>4. seenPnL' = [seenPnL EXCEPT ![p] = 0]
    BY <1>4 DEF ReadPeak
  <2>5. rpc' \in [Procs -> RiskPoint]
    BY <2>1
  <2>6. tripReason' \in [Procs -> Reason \union {NoReason}]
    BY <2>2
  <2>7. seenPnL' \in [Procs -> Int]
    <3>1. seenPnL \in [Procs -> Int]
      OBVIOUS
    <3> QED
      BY <2>4, <3>1, ZeroUpdate, Zenon
  <2> QED
    BY <2>3, <2>5, <2>6, <2>7
<1>5. CASE TripCAS(p)
  BY <1>5 DEF TripCAS
<1>6. CASE WriteReason(p)
  BY <1>6 DEF WriteReason
<1>7. CASE ClearReason(p)
  BY <1>7 DEF ClearReason
<1>8. CASE TornReasonRead(p)
  BY <1>8 DEF TornReasonRead
<1>9. CASE Return(p)
  BY <1>9 DEF Return
<1>10. CASE \E token \in STRING : CallReset(p, token)
  BY <1>10 DEF CallReset
<1>11. CASE \E reason \in CallerReason : CallTrip(p, reason)
  BY <1>11 DEF CallTrip
<1> QED
  BY <1>1, <1>2, <1>3, <1>4, <1>5, <1>6, <1>7, <1>8, <1>9, <1>10, <1>11 DEF RiskOnly, RiskStep

\* Booking an integer keeps the types; the peak stays a natural number because
\* it only ever replaces a smaller one.
LEMMA BookingType ==
    ASSUME RiskTypeOK, NEW p \in Procs, NEW pnl \in Int,
           RecordCleanExecution(p, pnl) \/ RecordReversal(p, pnl)
    PROVE  RiskTypeOK'
<1> USE DEF RiskTypeOK, RiskPoint, Goto
<1>1. CASE RecordCleanExecution(p, pnl)
  BY <1>1 DEF RecordCleanExecution, PeakAfter
<1>2. CASE RecordReversal(p, pnl)
  BY <1>2 DEF RecordReversal
<1> QED
  BY <1>1, <1>2

\* Goroutines of a set that have passed the daily-loss check and not booked.
CommittedIn(S) == {p \in S : rpc[p] \in {"readPeak", "accepted"}}

\* A step that books nothing leaves the figure alone and commits nobody, unless
\* it is a check that found the figure within the limit.
LEMMA RiskOnlyCommits ==
    ASSUME RiskTypeOK, NEW p \in Procs, RiskOnly(p), NEW S \in SUBSET Procs
    PROVE  /\ dailyPnL' = dailyPnL
           /\ \/ CommittedIn(S)' \subseteq CommittedIn(S)
              \/ /\ CommittedIn(S)' \subseteq CommittedIn(S) \union {p}
                 /\ dailyPnL >= -DailyLossLimit
<1> USE DEF RiskTypeOK, Goto, portfolio, CommittedIn
<1>1. CASE CallValidate(p)
  BY <1>1 DEF CallValidate
<1>2. CASE LoadKillSwitch(p)
  BY <1>2 DEF LoadKillSwitch
<1>3. CASE ReadDaily(p)
  <2>1. CASE LossLimitBreached
    BY <1>3, <2>1 DEF ReadDaily
  <2>2. CASE ~LossLimitBreached
    <3>1. dailyPnL >= -DailyLossLimit
      BY <2>2, RiskAssumption DEF LossLimitBreached
    <3>2. dailyPnL' = dailyPnL /\ CommittedIn(S)' \subseteq CommittedIn(S) \union {p}
      BY <1>3, <2>2 DEF ReadDaily
    <3> QED
      BY <3>1, <3>2
  <2> QED
    BY <2>1, <2>2
<1>4. CASE ReadPeak(p)
  BY <1>4 DEF ReadPeak
<1>5. CASE TripCAS(p)
  BY <1>5 DEF TripCAS
<1>6. CASE WriteReason(p)
  BY <1>6 DEF WriteReason
<1>7. CASE ClearReason(p)
  BY <1>7 DEF ClearReason
<1>8. CASE TornReasonRead(p)
  BY <1>8 DEF TornReasonRead
<1>9. CASE Return(p)
  BY <1>9 DEF Return
<1>10. CASE \E token \in STRING : CallReset(p, token)
  BY <1>10 DEF CallReset
<1>11. CASE \E reason \in CallerReason : CallTrip(p, reason)
  BY <1>11 DEF CallTrip
<1> QED
  BY <1>1, <1>2, <1>3, <1>4, <1>5, <1>6, <1>7, <1>8, <1>9, <1>10, <1>11 DEF RiskOnly, RiskStep

\* The overshoot budget of a finite set S of executors with n places: what has
\* been lost beyond the limit and one worst loss for each committed executor
\* fit in n worst losses.
Budget(S, n, worst) ==
    dailyPnL >= -DailyLossLimit - worst * (n - Cardinality(CommittedIn(S)))

LEMMA ProductMonotone ==
    ASSUME NEW w \in Nat, NEW a \in Int, NEW b \in Int, a <= b
    PROVE  w * a <= w * b
OBVIOUS

LEMMA ProductStep ==
    ASSUME NEW w \in Nat, NEW a \in Int
    PROVE  w * (a + 1) = w * a + w
OBVIOUS

\* A step that books nothing keeps the budget, provided the executor a check
\* may admit still has a place.
LEMMA RiskOnlyBudget ==
    ASSUME RiskTypeOK, NEW p \in Procs, RiskOnly(p),
           NEW S \in SUBSET Procs, IsFiniteSet(S),
           NEW n \in Nat, NEW worst \in Nat,
           Budget(S, n, worst),
           Cardinality(CommittedIn(S)') <= n
    PROVE  Budget(S, n, worst)'
<1> DEFINE C == CommittedIn(S)
<1>1. C \in SUBSET S /\ C' \in SUBSET S
  BY DEF CommittedIn
<1>2. /\ IsFiniteSet(C) /\ Cardinality(C) \in Nat
      /\ IsFiniteSet(C') /\ Cardinality(C') \in Nat
  BY <1>1, FS_Subset, FS_CardinalityType
<1>3. dailyPnL' = dailyPnL /\ dailyPnL \in Int
  BY RiskOnlyCommits DEF RiskTypeOK
<1>4. CASE C' \subseteq C
  <2>1. Cardinality(C') <= Cardinality(C)
    BY <1>2, <1>4, FS_Subset
  <2>2. worst * (n - Cardinality(C)) <= worst * (n - Cardinality(C'))
    <3>1. n - Cardinality(C) <= n - Cardinality(C')
      BY <1>2, <2>1
    <3> QED
      BY <1>2, <3>1, ProductMonotone
  <2> HIDE DEF C
  <2>3. dailyPnL >= -DailyLossLimit - worst * (n - Cardinality(C))
    BY DEF Budget, C
  <2>4. dailyPnL' >= -DailyLossLimit - worst * (n - Cardinality(C'))
    BY <1>2, <1>3, <2>2, <2>3, RiskAssumption
  <2> QED
    BY <2>4 DEF Budget, C
<1>5. CASE dailyPnL >= -DailyLossLimit
  <2>1. 0 <= n - Cardinality(C')
    BY <1>2
  <2>2. worst * 0 <= worst * (n - Cardinality(C'))
    BY <1>2, <2>1, ProductMonotone
  <2> HIDE DEF C
  <2>3. dailyPnL' >= -DailyLossLimit - worst * (n - Cardinality(C'))
    BY <1>2, <1>3, <1>5, <2>2, RiskAssumption
  <2> QED
    BY <2>3 DEF Budget, C
<1> QED
  BY <1>4, <1>5, RiskOnlyCommits

\* Booking spends the place of the executor that books.
LEMMA BookingBudget ==
    ASSUME RiskTypeOK, NEW p \in Procs, NEW pnl \in Int,
           RecordCleanExecution(p, pnl) \/ RecordReversal(p, pnl),
           NEW S \in SUBSET Procs, IsFiniteSet(S), p \in S,
           NEW n \in Nat, NEW worst \in Nat, pnl >= -worst,
           Budget(S, n, worst)
    PROVE  Budget(S, n, worst)'
<1> DEFINE C == CommittedIn(S)
<1>1. p \in C /\ C' = C \ {p}
  BY DEF CommittedIn, RecordCleanExecution, RecordReversal, Goto, RiskTypeOK
<1>2. C \in SUBSET S
  BY DEF CommittedIn
<1>3. IsFiniteSet(C) /\ Cardinality(C) \in Nat
  BY <1>2, FS_Subset, FS_CardinalityType
<1>4. Cardinality(C') = Cardinality(C) - 1
  BY <1>1, <1>3, FS_RemoveElement
<1>5. dailyPnL' = dailyPnL + pnl /\ dailyPnL \in Int
  BY DEF RecordCleanExecution, RecordReversal, RiskTypeOK
<1> HIDE DEF C
<1>6. worst * (n - Cardinality(C')) = worst * (n - Cardinality(C)) + worst
  <2>1. n - Cardinality(C') = (n - Cardinality(C)) + 1
    BY <1>3, <1>4
  <2> QED
    BY <1>3, <2>1, ProductStep
<1>7. dailyPnL >= -DailyLossLimit - worst * (n - Cardinality(C))
  BY DEF Budget, C
<1>8. dailyPnL' >= -DailyLossLimit - worst * (n - Cardinality(C'))
  <2> DEFINE x == worst * (n - Cardinality(C))
  <2>1. x \in Int
    BY <1>3
  <2> HIDE DEF x
  <2> QED
    BY <1>5, <1>6, <1>7, <2>1, RiskAssumption DEF x
<1> QED
  BY <1>8 DEF Budget, C
===============================================================================
