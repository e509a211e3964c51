----------------------------- MODULE MCRiskCallers -----------------------------
EXTENDS RiskCallers

CONSTANTS e1, e2, op1

MCExecutors == {e1, e2}
MCOperators == {op1}
MCProcs     == MCExecutors \union MCOperators

\* A clean execution may lose money to fees and slippage.
MCMixedPnL == {-2, 1}

\* A reversal loses, or gains on a market that has moved.
MCSlippage == {-1, 1}
===============================================================================
