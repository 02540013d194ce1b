--------------------------- MODULE MCBuilderCancel ---------------------------
(***************************************************************************)
(* The block assembly loop of MCLoadPayloadBuilder with a history          *)
(* variable: pulledAfterCancel records that the loop took a candidate from *)
(* the iterator while the cancellation was already signalled, and went on  *)
(* to the next candidate instead of returning Cancelled.                   *)
(*                                                                         *)
(* default_load_payload checks the candidate's gas limit before            *)
(* cancel.is_cancelled() (builder.rs 254-264) and does not check the       *)
(* cancellation after the loop; the spec (4.3 Selecting, step 1, and 5)    *)
(* has the loop poll the signal at the top of every iteration, so that an  *)
(* interrupted build surfaces no payload.                                  *)
(***************************************************************************)
EXTENDS MCLoadPayloadBuilder

VARIABLE pulledAfterCancel

(* A loop iteration on a candidate, with the cancellation signalled, that  *)
(* does not return Cancelled.  With cancel set every other outcome of the  *)
(* loop body is guarded off (PassedEarlyChecks), so only the gas skip       *)
(* remains; PoolSkipsBlob happens inside the iterator, not in the loop.    *)
ContinuedPastCancel ==
    /\ cancel /\ pc = "select"
    /\ \E s \in Senders, tx \in PoolTx :
          /\ pool[s] > 0
          /\ ~(skipBlobs /\ tx.blobs > 0)
          /\ SkipGasLimit(s, tx)

InitH == Init /\ pulledAfterCancel = FALSE

NextH ==
    /\ Next
    /\ pulledAfterCancel' = (pulledAfterCancel \/ ContinuedPastCancel)

SpecH == InitH /\ [][NextH]_<<vars, pulledAfterCancel>>

(* Once the loop has met a candidate after the cancellation was signalled, *)
(* the build does not hand out a payload: it ends Cancelled (spec 4.3,     *)
(* step 1: "terminate immediately with Cancelled, no partial payload is    *)
(* emitted"), whatever the candidate's gas.                                *)
CancelledBuildNotSurfaced ==
    pulledAfterCancel => pc /= "Better"

=============================================================================
