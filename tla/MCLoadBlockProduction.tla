------------------------ MODULE MCLoadBlockProduction ------------------------
(***************************************************************************)
(* Block production for TLC, on the builder's instance: two senders with  *)
(* blob transactions of up to 2 blobs against a Load cap of 3, so that two *)
(* sidecars can carry 4 blobs, Prague at genesis and Osaka at 2.          *)
(***************************************************************************)
EXTENDS LoadBlockProduction

CONSTANTS s1, s2, randaoOne, randaoZero, noBest

MCSenders == {s1, s2}
MCPrevRandaos == {randaoOne, randaoZero}
MCTimestamps == 0 .. 2
MCTxGas == {1, 2}
MCTips == {1}
MCSealExtra == {0}
=============================================================================
