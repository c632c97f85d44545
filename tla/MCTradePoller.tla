---------------------------- MODULE MCTradePoller ----------------------------
(* Instances of TradePoller for TLC: loops are interchangeable, and so are   *)
(* offers when all are received.                                             *)
EXTENDS TradePoller, TLC

Symmetry == Permutations(Loops) \cup Permutations(Offers)
=============================================================================
