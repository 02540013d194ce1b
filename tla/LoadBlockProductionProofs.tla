---------------------- MODULE LoadBlockProductionProofs ----------------------
(***************************************************************************)
(* Proof that block production is idempotent (spec 8): every envelope      *)
(* getPayload hands out passes the Load checks of newPayload, for every    *)
(* fork schedule with Prague no later than Osaka, cap, gas limit and pool. *)
(*                                                                         *)
(* BuiltPassesNewPayload is not inductive: it speaks of the envelopes      *)
(* served, which are made from the payload and the attributes of the       *)
(* moment.  ProductionInv records what getPayload knew when it served      *)
(* one: the attributes passed the forkchoice checks, the payload was       *)
(* within the blob cap (BlobCapInv of the builder), and a V4/V5 envelope   *)
(* was served for a Prague block.  The attributes never change.            *)
(***************************************************************************)
EXTENDS LoadBlockProduction, LoadPayloadBuilderProofs

(* What every served envelope carries.                                     *)
ServedWellFormed(e) ==
    /\ e.version \in 1 .. 5
    /\ e.prevRandao = LoadPrevRandao
    /\ e.timestamp = attrs.timestamp
    /\ e.hashes \in 0 .. LoadMaxBlobCount
    /\ e.version >= 4 => attrs.timestamp >= PragueTime
    /\ e.version < 3 => e.hashes = 0

ProductionInv ==
    /\ IInv
    /\ job \in {"pending", "started", "refused"}
    /\ job = "started" => attrs.prevRandao = LoadPrevRandao
    /\ \A e \in served : ServedWellFormed(e)


(* Every production step is a step of the builder or leaves the builder's  *)
(* state alone, so the builder's invariants carry over.                    *)
LEMMA ProductionIsBuilderStep ==
  [ProductionNext]_<<builderVars, engineVars>> => [Next]_vars
BY DEF ProductionNext, Forkchoice, GetPayload, GetPayloadMissing, BuildStep,
       builderVars, engineVars

(* No builder step changes the attributes.                                 *)
LEMMA AttrsKept ==
  ASSUME [Next]_vars PROVE attrs' = attrs
<1>1. CASE SelectNext
  BY <1>1 DEF SelectNext
<1>2. CASE Seal
  BY <1>2 DEF Seal
<1>. QED
  BY <1>1, <1>2 DEF Next, Build, StartBuild, StartFails, Abort, Cancel, vars

LEMMA InitProductionInv == ProductionInit => ProductionInv
BY InitIInv DEF ProductionInit, ProductionInv

(* getPayload serves the sealed payload of the started job, within the     *)
(* blob cap, from the version of its fork.                                 *)
LEMMA GetPayloadServesWellFormed ==
  ASSUME ProductionInv, GetPayload
  PROVE  ProductionInv'
<1>1. PICK version \in 1 .. 5 :
        /\ IF version >= 3
           THEN /\ version = GetPayloadVersion
                /\ EnvelopeFromBuilt(version, payload.sidecars) = "Ok"
           ELSE \E upstreamOk \in BOOLEAN : upstreamOk
        /\ served' = served \cup {Envelope(version, payload.blobs)}
  BY DEF GetPayload
<1>2. /\ UNCHANGED <<builderVars, job>>
      /\ job = "started" /\ pc = "Better"
  BY DEF GetPayload
<1>3. /\ payload.blobs = blobCount
      /\ blobCount \in 0 .. LoadMaxBlobCount
  BY <1>2, LoadMaxBlobCountAssumption DEF ProductionInv, IInv, BlobCapInv, TypeOK
<1>4. version >= 4 => attrs.timestamp >= PragueTime
  <2>1. version >= 4 => GetPayloadVersion \in {4, 5}
    BY <1>1 DEF GetPayloadVersion
  <2>2. attrs.timestamp \in Nat /\ PragueTime \in Nat /\ OsakaTime \in Nat
    BY BuilderAssumption DEF ProductionInv, IInv, TypeOK
  <2>. QED
    BY <2>1, <2>2, ForkOrderAssumption DEF GetPayloadVersion, IsOsaka, IsPrague
<1>5. ServedWellFormed(Envelope(version, payload.blobs))
  <2> DEFINE env == Envelope(version, payload.blobs)
  <2>1. attrs.prevRandao = LoadPrevRandao
    BY <1>2 DEF ProductionInv
  <2>2. /\ env.version = version /\ env.prevRandao = attrs.prevRandao
        /\ env.timestamp = attrs.timestamp
        /\ env.hashes = IF version >= 3 THEN payload.blobs ELSE 0
    BY DEF Envelope
  <2>3. env.hashes \in 0 .. LoadMaxBlobCount
    BY <1>3, <2>2, LoadMaxBlobCountAssumption
  <2>. QED
    BY <1>4, <2>1, <2>2, <2>3 DEF ServedWellFormed
<1>6. IInv' /\ attrs' = attrs /\ job' = job
  BY <1>2, NextIInv DEF ProductionInv, builderVars, vars
<1>7. \A e \in served' : ServedWellFormed(e)'
  BY <1>1, <1>5, <1>6 DEF ProductionInv, ServedWellFormed
<1>. QED
  BY <1>6, <1>7 DEF ProductionInv

LEMMA StepProductionInv ==
  ProductionInv /\ [ProductionNext]_<<builderVars, engineVars>> => ProductionInv'
<1> SUFFICES ASSUME ProductionInv, [ProductionNext]_<<builderVars, engineVars>>
             PROVE  ProductionInv'
  OBVIOUS
<1>1. IInv' /\ attrs' = attrs
  BY ProductionIsBuilderStep, NextIInv, AttrsKept DEF ProductionInv
<1>2. CASE Forkchoice
  <2>1. PICK version \in 1 .. 3, upstreamOk \in BOOLEAN :
          job' = IF ForkchoiceAttributesChecks(version, attrs) /\ upstreamOk
                 THEN "started" ELSE "refused"
    BY <1>2 DEF Forkchoice
  <2>2. job' = "started" => attrs.prevRandao = LoadPrevRandao
    BY <2>1 DEF ForkchoiceAttributesChecks, ValidateAttributesFields
  <2>. QED
    BY <1>1, <1>2, <2>1, <2>2
    DEF Forkchoice, ProductionInv, ServedWellFormed
<1>3. CASE GetPayload
  BY <1>3, GetPayloadServesWellFormed
<1>4. CASE GetPayloadMissing \/ BuildStep
  BY <1>1, <1>4 DEF GetPayloadMissing, BuildStep, engineVars, ProductionInv,
                    ServedWellFormed
<1>5. CASE UNCHANGED <<builderVars, engineVars>>
  BY <1>1, <1>5 DEF engineVars, ProductionInv, ServedWellFormed
<1>. QED
  BY <1>2, <1>3, <1>4, <1>5 DEF ProductionNext

(* An envelope that was well formed when served passes newPayload's Load   *)
(* checks of the version a consensus client submits it with.               *)
LEMMA InvPasses == ProductionInv => BuiltPassesNewPayload
<1> SUFFICES ASSUME ProductionInv, NEW e \in served
             PROVE  LET p == LoadExecutionData(NewPayloadVersionFor(e.version),
                                               e.prevRandao, e.timestamp, e.hashes)
                    IN  /\ NewPayloadVersionFor(e.version) >= 3 =>
                              ValidateBlobRequest(e.hashes)
                              /\ EnsureLoadPrevRandao(e.prevRandao)
                        /\ ValidatePayloadFields(p, e.timestamp >= PragueTime)
  BY DEF BuiltPassesNewPayload
<1>1. ServedWellFormed(e)
  BY DEF ProductionInv
<1>2. e.version \in 1 .. 5 /\ e.hashes \in 0 .. LoadMaxBlobCount
  BY <1>1 DEF ServedWellFormed
<1>. QED
  BY <1>1, <1>2
  DEF ServedWellFormed, NewPayloadVersionFor, LoadExecutionData, ExecutionDataV4,
      ExecutionDataV3, ExecutionDataNoSidecar, ValidateBlobRequest,
      EnsureLoadPrevRandao, ValidatePayloadFields

(* Block production is idempotent: every envelope getPayloadV1..V5 hands   *)
(* out for a job started by forkchoiceUpdated passes the versioned-hash    *)
(* and prev_randao checks of newPayload and the validator's field checks,  *)
(* for every fork schedule with Prague no later than Osaka, blob cap and   *)
(* pool.                                                                   *)
THEOREM ProductionIdempotent == ProductionSpec => []BuiltPassesNewPayload
<1>1. ProductionSpec => []ProductionInv
  BY InitProductionInv, StepProductionInv, PTL DEF ProductionSpec
<1>. QED
  BY <1>1, InvPasses, PTL

=============================================================================
