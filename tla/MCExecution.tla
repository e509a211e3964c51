----------------------------- MODULE MCExecution -----------------------------
EXTENDS ExecutionProperties, TLC

CONSTANTS o1, o2, o3, op1

NoOperator == {}
OneOperator == {op1}

OneOpp   == {o1}
TwoOpps  == {o1, o2}
ThreeOpps == {o1, o2, o3}

Procs1   == OneOpp
Procs1Op == OneOpp \union OneOperator
Procs2   == TwoOpps
Procs2Op == TwoOpps \union OneOperator
Procs3   == ThreeOpps

SameSymbol == [o \in Opps |-> "BTC"]
TwoSymbols == [o \in Opps |-> IF o = o2 THEN "ETH" ELSE "BTC"]

OneLot  == [o \in Opps |-> 1]
TwoLots == [o \in Opps |-> 2]

\* Leg 2 sells above leg 1's price, the reversal below it.
LosingPrices == [o \in Opps |-> [leg1 |-> 10, leg2 |-> 13, reverse |-> 9]]
Fees == [o \in Opps |-> [leg \in {"leg1", "leg2", "reverse"} |-> 1]]
===============================================================================
