----------------------------- MODULE MCMarketData -----------------------------
EXTENDS MarketData, TLC

CONSTANTS v1, v2, v3

TwoVenues   == {v1, v2}
ThreeVenues == {v1, v2, v3}
OneSymbol   == {"BTC"}

\* From 1001 up to 1003 the spread is wide enough, but the size it gives is below
\* the lower limit; from 1004 up to 1007 the size is within the limits, and from
\* 1001 up to 1007 above the upper one.  The other spreads are negative.
SomeBooks == {[bid |-> 1000, ask |-> 1001], [bid |-> 1003, ask |-> 1004],
              [bid |-> 1007, ask |-> 1008], [bid |-> 0, ask |-> 1001]}
===============================================================================
