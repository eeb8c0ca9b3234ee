---------------------------- MODULE MCLifecycle ----------------------------
(***************************************************************************)
(* An instance of Lifecycle: a plugin with a coin and one without, and a   *)
(* coin that neither trades.                                               *)
(***************************************************************************)
EXTENDS Lifecycle

CONSTANTS p1, p2, coin1, coin2

MCSpecs == <<p1, p2>>
MCCoinOf == [p \in {p1, p2} |-> IF p = p1 THEN coin1 ELSE NoCoin]
MCMaxSubs == [p \in {p1, p2} |-> IF p = p1 THEN 2 ELSE 0]
=============================================================================
