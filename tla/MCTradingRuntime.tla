-------------------------- MODULE MCTradingRuntime --------------------------
(* Instances of TradingRuntime for TLC; the cfg files choose the faults.    *)
EXTENDS TradingRuntime, TLC

(* Setups differ by nothing but their ids.                                  *)
Symmetry == Permutations(Ids)
=============================================================================
