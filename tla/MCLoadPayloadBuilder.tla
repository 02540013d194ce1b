------------------------ MODULE MCLoadPayloadBuilder ------------------------
(***************************************************************************)
(* A small instance of the block assembly loop: two senders with two       *)
(* transactions each, a gas limit that one or two transactions fill, a    *)
(* blob cap of 3 (2 from Osaka on) that two blob transactions of up to 2   *)
(* blobs can hit exactly or overflow, and a block size limit reached by    *)
(* the third transaction from Osaka on.  Timestamps 0..2 cover a stale     *)
(* attribute timestamp, a Prague and an Osaka block.                       *)
(***************************************************************************)
EXTENDS LoadPayloadBuilder

CONSTANTS s1, s2, randaoOne, randaoZero, noBest

MCSenders == {s1, s2}
MCPrevRandaos == {randaoOne, randaoZero}
MCTimestamps == 0 .. 2
MCTxGas == {1, 2}
MCTips == {1, 2}
MCSealExtra == {0, 3}

=============================================================================
