----------------------------- MODULE MCFixSession -----------------------------
EXTENDS FixSession, TLC

CONSTANTS o1, o2

OneOrder  == {o1}
TwoOrders == {o1, o2}

TwoLots == [o \in Orders |-> 2]
OneLot  == [o \in Orders |-> 1]
===============================================================================
