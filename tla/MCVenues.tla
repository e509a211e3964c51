------------------------------- MODULE MCVenues -------------------------------
\* An instance of Host: one order of two lots to any of the registered venues,
\* one of each kind, or to a name nobody registered.
EXTENDS Host

CONSTANTS o1, binance, kraken, alpaca, synthetic, unknown

TwoLots == [o \in {o1} |-> 2]

AllNames == {binance, kraken, alpaca, synthetic, unknown}

FourVenues ==
    [name \in {binance, kraken, alpaca, synthetic} |->
        CASE name = binance -> "binance" [] name = kraken -> "kraken"
          [] name = alpaca -> "alpaca" [] OTHER -> "synthetic"]
===============================================================================
