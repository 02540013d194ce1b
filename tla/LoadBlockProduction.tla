------------------------ MODULE LoadBlockProduction ------------------------
(***************************************************************************)
(* Block production end to end: the consensus client's                     *)
(* forkchoiceUpdated with attributes (src/src/engine/rpc.rs and            *)
(* validator.rs) starts the payload job, default_load_payload builds it    *)
(* (LoadPayloadBuilder), and getPayloadV1..V5 hand the best payload out    *)
(* through the TryFrom conversions of src/src/engine/payload.rs.  The      *)
(* consensus client then submits the envelope to a node's newPayload.      *)
(*                                                                         *)
(* The attributes the client will send are the builder's attrs, chosen in *)
(* Init; the build starts only once a forkchoiceUpdated carrying them was  *)
(* accepted.  reth's own checks behind the Load ones are a free choice,    *)
(* except that getPayloadV3/V4/V5 serve only the payloads of their fork.   *)
(***************************************************************************)
EXTENDS LoadPayloadBuilder

VARIABLES
    job,        \* "pending", "started" or "refused": the forkchoiceUpdated
    served,     \* the envelopes getPayload has handed out
    missing     \* a getPayload was answered MissingPayload

(* The chains the node runs on activate Prague no later than Osaka:        *)
(* validate_genesis (src/src/chainspec/mod.rs) refuses a genesis with      *)
(* prague_time other than 0 (DeriveContract).  An Osaka block is served    *)
(* by getPayloadV5 and resubmitted with newPayloadV4, which carries        *)
(* requests.                                                               *)
ASSUME ForkOrderAssumption == PragueTime <= OsakaTime

engineVars == <<job, served, missing>>
builderVars == vars

(* An envelope, reduced to what newPayload's Load checks read.             *)
Envelope(version, blobs) ==
    [version |-> version, prevRandao |-> attrs.prevRandao,
     timestamp |-> attrs.timestamp, hashes |-> IF version >= 3 THEN blobs ELSE 0]

-----------------------------------------------------------------------------
ProductionInit ==
    /\ Init
    /\ job = "pending"
    /\ served = {}
    /\ missing = FALSE

(* fork_choice_updated_v1..v3 with the job's attributes: the Load checks,  *)
(* and reth's, decide whether try_new's job starts.                        *)
Forkchoice ==
    /\ job = "pending"
    /\ \E version \in 1 .. 3, upstreamOk \in BOOLEAN :
          job' = IF ForkchoiceAttributesChecks(version, attrs) /\ upstreamOk
                 THEN "started" ELSE "refused"
    /\ UNCHANGED <<builderVars, served, missing>>

(* get_payload_v1..v5 on the job's best payload.  V3..V5 serve only a      *)
(* payload of their own fork (reth's check), converted by TryFrom; V1 and  *)
(* V2 convert without sidecars, if reth serves them at all.                *)
GetPayload ==
    /\ job = "started" /\ pc = "Better"
    /\ \E version \in 1 .. 5 :
          /\ IF version >= 3
             THEN /\ version = GetPayloadVersion
                  /\ EnvelopeFromBuilt(version, payload.sidecars) = "Ok"
             ELSE \E upstreamOk \in BOOLEAN : upstreamOk
          /\ served' = served \cup {Envelope(version, payload.blobs)}
    /\ UNCHANGED <<builderVars, job, missing>>

(* get_payload_vN on a job with no payload: on_missing_payload answers     *)
(* AwaitInProgress (build_payload_builder sets await_payload_on_missing),  *)
(* so the call waits while the build runs, and is answered MissingPayload  *)
(* once the build ended cancelled or in error with no earlier best.  A     *)
(* job with an earlier best payload serves that one instead.               *)
GetPayloadMissing ==
    /\ job = "started"
    /\ pc \in {"Cancelled", "Error"} /\ best = NoBest
    /\ missing' = TRUE
    /\ UNCHANGED <<builderVars, job, served>>

(* The build runs once its job is started; the driver may cancel it then.  *)
BuildStep ==
    /\ job = "started"
    /\ Next
    /\ UNCHANGED engineVars

ProductionNext == Forkchoice \/ GetPayload \/ GetPayloadMissing \/ BuildStep

ProductionSpec ==
    ProductionInit /\ [][ProductionNext]_<<builderVars, engineVars>>

-----------------------------------------------------------------------------
(* The newPayload version a consensus client submits an envelope with.     *)
NewPayloadVersionFor(version) == IF version <= 3 THEN version ELSE 4

(* Spec 8 (idempotence): re-running the guard's checks on what the node    *)
(* built never fails.  Every envelope getPayload hands out passes the Load *)
(* checks of newPayload: the handler's versioned-hash and prev_randao      *)
(* checks and the validator's.  The blob count of a block is bounded by    *)
(* the selection loop's cap alone: guard_sidecars counts sidecars, not     *)
(* blobs, and the prev_randao by the forkchoice checks alone.              *)
BuiltPassesNewPayload ==
    \A e \in served :
        LET p == LoadExecutionData(NewPayloadVersionFor(e.version), e.prevRandao,
                                   e.timestamp, e.hashes)
        IN  /\ NewPayloadVersionFor(e.version) >= 3 =>
                  ValidateBlobRequest(e.hashes) /\ EnsureLoadPrevRandao(e.prevRandao)
            /\ ValidatePayloadFields(p, e.timestamp >= PragueTime)

=============================================================================
