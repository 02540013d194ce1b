-------------------------- MODULE LoadPayloadGuard --------------------------
(***************************************************************************)
(* The protocol-invariant guard of load-reth: the stateless checks that    *)
(* enforce Load's network rules at every boundary a block crosses.         *)
(*                                                                         *)
(*   - validate_prev_randao / validate_payload_attributes                  *)
(*     (src/src/engine/payload.rs): attribute checks before a build;       *)
(*   - guard_sidecars and the TryFrom conversions to the V3/V4/V5 wire     *)
(*     envelopes (src/src/engine/payload.rs): checks on the way out.       *)
(*                                                                         *)
(* A prev_randao value is abstracted to a member of a small set, a         *)
(* timestamp to a natural number, and the BlobSidecars collection of a     *)
(* built payload to a sequence of per-transaction sidecar records          *)
(* [kind |-> "Eip4844" | "Eip7594", blobs |-> n]: the code's BlobSidecars  *)
(* enum is Empty when the sequence is empty, otherwise the kind of its     *)
(* elements.                                                               *)
(***************************************************************************)
EXTENDS Naturals, Sequences

CONSTANTS
    LoadPrevRandao,     \* LOAD_PREVRANDAO, the constant 0x01
    LoadMaxBlobCount    \* LOAD_MAX_BLOB_COUNT (1024 in the code)

ASSUME LoadMaxBlobCountAssumption == LoadMaxBlobCount \in Nat \ {0}

SidecarKinds == {"Eip4844", "Eip7594"}

(* validate_prev_randao: the attribute's prev_randao is Load's constant.   *)
ValidatePrevRandao(prevRandao) == prevRandao = LoadPrevRandao

(* validate_payload_attributes: prev_randao first, then the timestamp must *)
(* strictly exceed the parent's.                                           *)
ValidatePayloadAttributes(parentTimestamp, attrs) ==
    IF ~ValidatePrevRandao(attrs.prevRandao) THEN "InvalidPrevRandao"
    ELSE IF attrs.timestamp <= parentTimestamp THEN "InvalidTimestamp"
    ELSE "Ok"

(* rpc.rs ensure_load_prev_randao: the engine API's own randao check.     *)
EnsureLoadPrevRandao(prevRandao) == prevRandao = LoadPrevRandao

(* rpc.rs validate_blob_request: at most LOAD_MAX_BLOB_COUNT versioned     *)
(* hashes in a newPayloadV3/V4 or getBlobs request.                        *)
ValidateBlobRequest(hashes) == hashes <= LoadMaxBlobCount

(* An inbound execution payload, reduced to what the Load checks read:    *)
(* its prev_randao and timestamp, and its sidecar: whether it carries the  *)
(* Cancun fields (with that many versioned hashes) and Prague requests.    *)
(* LoadExecutionData::from(ExecutionPayloadV1 / ExecutionPayloadInputV2):  *)
(* ExecutionPayloadSidecar::none().                                        *)
ExecutionDataNoSidecar(prevRandao, timestamp) ==
    [prevRandao |-> prevRandao, timestamp |-> timestamp,
     cancun |-> FALSE, hashes |-> 0, requests |-> FALSE]

(* LoadExecutionData::v3: the sidecar carries the Cancun fields.           *)
ExecutionDataV3(prevRandao, timestamp, hashes) ==
    [ExecutionDataNoSidecar(prevRandao, timestamp) EXCEPT
        !.cancun = TRUE, !.hashes = hashes]

(* LoadExecutionData::v4: the Cancun fields and the Prague requests.       *)
ExecutionDataV4(prevRandao, timestamp, hashes) ==
    [ExecutionDataV3(prevRandao, timestamp, hashes) EXCEPT !.requests = TRUE]

(* The LoadExecutionData the newPayload handler of a version builds.       *)
LoadExecutionData(version, prevRandao, timestamp, hashes) ==
    CASE version = 4 -> ExecutionDataV4(prevRandao, timestamp, hashes)
      [] version = 3 -> ExecutionDataV3(prevRandao, timestamp, hashes)
      [] OTHER       -> ExecutionDataNoSidecar(prevRandao, timestamp)

(* Mutant: the validator leaves the payload's prev_randao unchecked.      *)
ValidatePayloadFieldsNoRandao(payload, pragueActive) ==
    /\ payload.cancun => payload.hashes <= LoadMaxBlobCount
    /\ pragueActive \/ ~payload.requests

(* LoadEngineValidator::validate_version_specific_fields for a payload:    *)
(* the constant prev_randao, at most LOAD_MAX_BLOB_COUNT versioned hashes, *)
(* and requests only once Prague is active at the payload's timestamp.     *)
ValidatePayloadFields(payload, pragueActive) ==
    /\ payload.prevRandao = LoadPrevRandao
    /\ payload.cancun => payload.hashes <= LoadMaxBlobCount
    /\ pragueActive \/ ~payload.requests

(* LoadEngineValidator::ensure_well_formed_attributes (and the attributes  *)
(* branch of validate_version_specific_fields): the constant prev_randao.  *)
ValidateAttributesFields(attrs) == attrs.prevRandao = LoadPrevRandao

(* LoadPayloadBuilderAttributes::try_new: the builder attributes are made  *)
(* only for the constant prev_randao.                                      *)
BuilderAttributesTryNew(attrs) == ValidatePrevRandao(attrs.prevRandao)

(* The Load checks forkchoiceUpdated attributes pass on their way to a    *)
(* payload job: the V3 handler's own check, the validator's, try_new's.    *)
ForkchoiceAttributesChecks(version, attrs) ==
    /\ version = 3 => EnsureLoadPrevRandao(attrs.prevRandao)
    /\ ValidateAttributesFields(attrs)
    /\ BuilderAttributesTryNew(attrs)

(* LoadLocalPayloadAttributesBuilder::build: the dev-mode miner's          *)
(* attributes always carry LOAD_PREVRANDAO.                                *)
LocalPayloadAttributes(timestamp) ==
    [prevRandao |-> LoadPrevRandao, timestamp |-> timestamp]

(* The variant of the BlobSidecars enum a sidecar sequence stands for.     *)
SidecarTag(sidecars) ==
    IF sidecars = <<>> THEN "Empty" ELSE sidecars[1].kind

(* LoadBuiltPayload::guard_sidecars: EIP-7594 sidecars are always refused; *)
(* EIP-4844 ones are refused when there are more sidecars than max_blobs.  *)
(* The count is that of sidecars (one per blob transaction), not blobs.    *)
GuardSidecars(sidecars, maxBlobs) ==
    CASE SidecarTag(sidecars) = "Eip7594" -> "UnexpectedEip7594Sidecars"
      [] SidecarTag(sidecars) = "Eip4844" /\ Len(sidecars) > maxBlobs
                                         -> "UnexpectedEip4844Sidecars"
      [] OTHER -> "Ok"

(* The upstream EthBuiltPayload -> ExecutionPayloadEnvelopeV3/V4/V5        *)
(* conversions the Load ones delegate to after the guard: V3 and V4 carry  *)
(* a BlobsBundleV1 and refuse EIP-7594 sidecars, V5 carries a              *)
(* BlobsBundleV2 and refuses EIP-4844 sidecars.                            *)
UpstreamEnvelope(version, sidecars) ==
    CASE version \in {3, 4} /\ SidecarTag(sidecars) = "Eip7594"
                                    -> "UnexpectedEip7594Sidecars"
      [] version = 5 /\ SidecarTag(sidecars) = "Eip4844"
                                    -> "UnexpectedEip4844Sidecars"
      [] OTHER -> "Ok"

(* TryFrom<LoadBuiltPayload> for ExecutionPayloadEnvelopeV3/V4/V5: the     *)
(* guard with LOAD_MAX_BLOB_COUNT, then the upstream conversion.           *)
EnvelopeFromBuilt(version, sidecars) ==
    IF GuardSidecars(sidecars, LoadMaxBlobCount) # "Ok"
    THEN GuardSidecars(sidecars, LoadMaxBlobCount)
    ELSE UpstreamEnvelope(version, sidecars)

=============================================================================
