--------------------------- MODULE MCLoadEngineApi ---------------------------
(***************************************************************************)
(* The engine API for TLC: two prev_randao values (Load's and another),    *)
(* a budget of 2 versioned hashes with requests of up to 3, Prague at      *)
(* genesis as validate_genesis forces it, Osaka at second 1 of a clock     *)
(* that runs from 0 to 1, and three calls: enough for a bad request of    *)
(* each version to follow a good one.                                      *)
(***************************************************************************)
EXTENDS LoadEngineApi

CONSTANTS randaoOne, randaoZero

MCPrevRandaos == {randaoOne, randaoZero}
=============================================================================
