---------------------------- MODULE MCMarketData ----------------------------
(***************************************************************************)
(* Instances of MarketData.  Keys, tokens and connections are each as good *)
(* as another, and no liveness is checked, so all three are symmetric.     *)
(***************************************************************************)
EXTENDS MarketData, TLC

Symmetry == Permutations(Keys) \cup Permutations(Tokens) \cup Permutations(Conns)
=============================================================================
