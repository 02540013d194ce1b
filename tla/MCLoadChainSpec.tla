--------------------------- MODULE MCLoadChainSpec ---------------------------
(***************************************************************************)
(* The parameter authority for TLC: two pre-Cancun forks stand for the 14, *)
(* every genesis field is unset, 0 or 1 (osaka_time unset, 1 or 2), and    *)
(* the wall clock runs from 0 to 2, so that a node may start before Osaka, *)
(* cross it while running, and be restarted after it.  The blob constants  *)
(* are scaled down with their order kept: Osaka's target and maximum are   *)
(* below Load's, and a blob cache of two epochs of the target is not a    *)
(* multiple of reth's default transaction limit.                           *)
(***************************************************************************)
EXTENDS LoadChainSpec

CONSTANTS none, homestead, london, randaoOne

MCPreCancunForks == {homestead, london}
MCCancunParams == [target |-> 1, max |-> 2, perTx |-> 2, fraction |-> 3]
MCOsakaParams == [target |-> 2, max |-> 3, perTx |-> 1, fraction |-> 5]
=============================================================================
