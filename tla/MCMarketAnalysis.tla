-------------------------- MODULE MCMarketAnalysis --------------------------
(* Instances of MarketAnalysis for TLC: candles of one price each.          *)
EXTENDS MarketAnalysis

Flat(prices) == {[high |-> p, low |-> p, close |-> p] : p \in prices}

Flat4 == Flat(1 .. 4)
=============================================================================
