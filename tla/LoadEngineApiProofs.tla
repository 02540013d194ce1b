------------------------- MODULE LoadEngineApiProofs -------------------------
(***************************************************************************)
(* Proofs about the engine API model (LoadEngineApi): that Load's network  *)
(* rules hold for every payload job and every imported payload, for every  *)
(* value of the constants.  The invariant is inductive together with       *)
(* TypeOK: each handler adds to jobs or imported only what passed the      *)
(* checks it ran.                                                          *)
(***************************************************************************)
EXTENDS LoadEngineApi, TLAPS

IInv == TypeOK /\ LoadRulesOnAccepted

(* A newPayload call that is answered Accepted passed the validator's     *)
(* field checks, whatever its version.                                     *)
LEMMA AcceptedPassedValidator ==
    ASSUME NEW version, NEW payload, NEW upstreamOk,
           NewPayload(version, payload, upstreamOk),
           response' = "Accepted"
    PROVE  ValidatePayloadFields(payload, payload.timestamp >= PragueTime)
BY DEF NewPayload

(* A forkchoiceUpdated call that starts a payload job passed try_new.      *)
LEMMA ValidPassedTryNew ==
    ASSUME NEW version, NEW attrs, NEW upstreamOk,
           ForkchoiceWithAttributes(version, attrs, upstreamOk),
           response' = "Valid"
    PROVE  BuilderAttributesTryNew(attrs)
BY DEF ForkchoiceWithAttributes

LEMMA InitIInv == Init => IInv
BY EngineApiAssumption
   DEF Init, IInv, TypeOK, LoadRulesOnAccepted

(* Every step keeps the counters typed and only adds checked entries to    *)
(* jobs and imported.                                                      *)
LEMMA StepIInv == IInv /\ [Next]_vars => IInv'
<1> SUFFICES ASSUME IInv, [Next]_vars PROVE IInv'
    OBVIOUS
<1> USE EngineApiAssumption DEF IInv, TypeOK
<1>1. CASE ReceiveNewPayload
  <2>1. PICK version \in 1 .. 4, r \in PrevRandaos, ts \in Timestamps,
             hashes \in 0 .. MaxHashes, upstreamOk \in BOOLEAN :
               NewPayload(version, LoadExecutionData(version, r, ts, hashes),
                          upstreamOk)
    BY <1>1 DEF ReceiveNewPayload
  <2> DEFINE payload == LoadExecutionData(version, r, ts, hashes)
  <2>2. TypeOK'
    BY <1>1 DEF ReceiveNewPayload, Serve, BlobVars
  <2>4. ASSUME NEW p \in imported'
        PROVE  /\ p.prevRandao = LoadPrevRandao
               /\ p.hashes <= LoadMaxBlobCount
               /\ p.requests => p.timestamp >= PragueTime
    <3>1. CASE p \in imported
      BY <3>1 DEF LoadRulesOnAccepted
    <3>2. CASE p \notin imported
      <4>1. p = payload /\ response' = "Accepted"
        BY <2>1, <3>2, <2>4 DEF NewPayload
      <4>2. ValidatePayloadFields(payload, payload.timestamp >= PragueTime)
        BY <2>1, <4>1, AcceptedPassedValidator
      <4>3. payload.hashes <= LoadMaxBlobCount
        <5>1. payload.cancun \/ payload.hashes = 0
          BY DEF LoadExecutionData, ExecutionDataV4, ExecutionDataV3,
                 ExecutionDataNoSidecar
        <5>2. QED
          BY <4>2, <5>1, LoadMaxBlobCountAssumption DEF ValidatePayloadFields
      <4>4. QED
        BY <4>1, <4>2, <4>3 DEF ValidatePayloadFields
    <3>3. QED
      BY <3>1, <3>2
  <2>5. LoadRulesOnAccepted'
    <3>1. jobs' = jobs
      BY <1>1 DEF ReceiveNewPayload
    <3>2. QED
      BY <2>4, <3>1 DEF LoadRulesOnAccepted
  <2>6. QED
    BY <2>2, <2>5
<1>2. CASE ReceiveForkchoiceUpdated
  <2>1. TypeOK'
    BY <1>2 DEF ReceiveForkchoiceUpdated, ForkchoiceWithAttributes, Serve,
                BlobVars, Attributes
  <2>3. ASSUME NEW a \in jobs' PROVE a.prevRandao = LoadPrevRandao
    <3>1. CASE a \in jobs
      BY <3>1 DEF LoadRulesOnAccepted
    <3>2. CASE a \notin jobs
      <4>1. PICK version \in 1 .. 3, attrs \in Attributes, upstreamOk \in BOOLEAN :
                 ForkchoiceWithAttributes(version, attrs, upstreamOk)
        BY <1>2, <3>2, <2>3 DEF ReceiveForkchoiceUpdated
      <4>2. a = attrs /\ response' = "Valid"
        BY <4>1, <3>2, <2>3 DEF ForkchoiceWithAttributes
      <4>3. QED
        BY <4>1, <4>2, ValidPassedTryNew
           DEF BuilderAttributesTryNew, ValidatePrevRandao
    <3>3. QED
      BY <3>1, <3>2
  <2>4. LoadRulesOnAccepted'
    BY <1>2, <2>3 DEF ReceiveForkchoiceUpdated, LoadRulesOnAccepted
  <2>5. QED
    BY <2>1, <2>4
<1>3. CASE LocalMinerForkchoice
  <2>1. PICK ts \in Timestamps :
          jobs' = IF BuilderAttributesTryNew(LocalPayloadAttributes(ts))
                  THEN jobs \cup {LocalPayloadAttributes(ts)} ELSE jobs
    BY <1>3 DEF LocalMinerForkchoice
  <2>2. LocalPayloadAttributes(ts) \in Attributes
    BY DEF LocalPayloadAttributes, Attributes
  <2>3. QED
    BY <1>3, <2>1, <2>2
       DEF LocalMinerForkchoice, BlobVars, LoadRulesOnAccepted,
           LocalPayloadAttributes
<1>4. CASE ReceiveGetBlobs
  <2>1. PICK version \in 1 .. 3, asked \in 0 .. MaxHashes :
          CASE version >= 2 /\ ~IsOsakaActive(now) ->
                    response' = "UnsupportedFork" /\ UNCHANGED BlobVars
            [] ~ValidateBlobRequest(asked) ->
                    response' = "BlobRequestTooLarge" /\ UNCHANGED BlobVars
            [] version = 3 /\ syncing ->
                    response' = "OkNone" /\ UNCHANGED BlobVars
            [] OTHER -> PoolAnswers(version, asked)
    BY <1>4 DEF ReceiveGetBlobs
  <2>2. UNCHANGED BlobVars \/ PoolAnswers(version, asked)
    BY <2>1
  <2>3. TypeOK'
    <3>1. CASE UNCHANGED BlobVars
      BY <1>4, <3>1 DEF ReceiveGetBlobs, Serve, BlobVars
    <3>2. CASE PoolAnswers(version, asked)
      <4>1. \E hits \in 0 .. asked : RecordGetBlobs(hits, asked - hits)
            \/ UNCHANGED BlobVars
        BY <3>2 DEF PoolAnswers, RecordGetBlobsV2None
      <4>2. QED
        BY <1>4, <4>1
           DEF ReceiveGetBlobs, Serve, BlobVars, RecordGetBlobs
    <3>3. QED
      BY <2>2, <3>1, <3>2
  <2>4. LoadRulesOnAccepted'
    BY <1>4 DEF ReceiveGetBlobs, LoadRulesOnAccepted
  <2>5. QED
    BY <2>3, <2>4
<1>5. CASE ReceiveQuery
  BY <1>5 DEF ReceiveQuery, Serve, BlobVars, LoadRulesOnAccepted
<1>6. CASE SyncStatusChanges
  <2>1. syncing' \in BOOLEAN
    BY <1>6 DEF SyncStatusChanges
  <2>2. QED
    BY <1>6, <2>1 DEF SyncStatusChanges, BlobVars, LoadRulesOnAccepted
<1>7. CASE Tick
  BY <1>7 DEF Tick, BlobVars, LoadRulesOnAccepted
<1>8. CASE UNCHANGED vars
  BY <1>8 DEF vars, LoadRulesOnAccepted
<1>9. QED
  BY <1>1, <1>2, <1>3, <1>4, <1>5, <1>6, <1>7, <1>8 DEF Next

(* Whatever version of newPayload or forkchoiceUpdated the consensus       *)
(* client (or the dev-mode miner) uses, every payload job the engine API   *)
(* starts carries LOAD_PREVRANDAO, and every payload it hands the engine   *)
(* tree carries LOAD_PREVRANDAO, at most LOAD_MAX_BLOB_COUNT hashes and    *)
(* requests only from Prague on: the validator and try_new catch what the  *)
(* V1/V2 handlers let through.                                             *)
THEOREM LoadRulesCorrect == Spec => []LoadRulesOnAccepted
<1>1. Spec => []IInv
  BY InitIInv, StepIInv, PTL DEF Spec
<1>2. QED
  BY <1>1, PTL DEF IInv

=============================================================================
