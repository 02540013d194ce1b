--------------------------- MODULE LoadEngineApi ---------------------------
(***************************************************************************)
(* The engine API of load-reth as the consensus client sees it:            *)
(*                                                                         *)
(*   - LoadEngineApi (src/src/engine/rpc.rs): the handlers that wrap        *)
(*     reth's EngineApi, with Load's own checks on newPayloadV3/V4,        *)
(*     forkchoiceUpdatedV3 and getBlobsV1/V2/V3, and the blob metrics;     *)
(*   - LoadEngineValidator (src/src/engine/validator.rs): the checks reth's *)
(*     EngineApi calls on every payload and payload attributes;            *)
(*   - LoadPayloadBuilderAttributes::try_new and the dev-mode attributes   *)
(*     builder (src/src/engine/payload.rs).                                *)
(*                                                                         *)
(* The consensus client (and, in dev mode, the local miner) is the         *)
(* environment: it issues any request of any version with any inputs.      *)
(* reth's own checks and outcomes behind the Load ones (its version and    *)
(* fork rules, the engine tree's verdict, the pool's answer) are a free    *)
(* choice.  A payload job is recorded by the attributes it was started     *)
(* with, a payload handed to the engine tree by its LoadExecutionData.     *)
(***************************************************************************)
EXTENDS Naturals, LoadPayloadGuard

CONSTANTS
    PrevRandaos,    \* the prev_randao values a request may carry
    Timestamps,     \* the timestamps a payload or attributes may carry
    PragueTime,     \* the chain's Prague activation (0: validate_genesis)
    OsakaTime,      \* the chain's Osaka activation
    MaxTime,        \* the last second of the wall clock in a run
    MaxHashes,      \* the most versioned hashes a request carries
    MaxCalls        \* the engine API calls of a run

ASSUME EngineApiAssumption ==
    /\ LoadPrevRandao \in PrevRandaos
    /\ Timestamps \subseteq Nat /\ PragueTime \in Nat /\ OsakaTime \in Nat
    /\ MaxTime \in Nat /\ MaxHashes \in Nat /\ MaxCalls \in Nat

Attributes == [prevRandao: PrevRandaos, timestamp: Timestamps]

VARIABLES
    now,            \* the wall clock getBlobsV2/V3 read
    syncing,        \* the is_syncing closure's answer
    calls,          \* engine API calls served so far
    jobs,           \* the attributes of every payload job started
    imported,       \* the payloads handed to the engine tree
    blobHits,       \* the getBlobs hit counter
    blobMisses,     \* the getBlobs miss counter
    response        \* the answer to the last call

vars == <<now, syncing, calls, jobs, imported, blobHits, blobMisses,
          response>>

IsOsakaActive(ts) == ts >= OsakaTime

-----------------------------------------------------------------------------
Init ==
    /\ now \in 0 .. MaxTime
    /\ syncing \in BOOLEAN
    /\ calls = 0
    /\ jobs = {}
    /\ imported = {}
    /\ blobHits = 0 /\ blobMisses = 0
    /\ response = "None"

(* Every handler serves one call.                                          *)
Serve == calls < MaxCalls /\ calls' = calls + 1

BlobVars == <<blobHits, blobMisses>>

(* new_payload_v1..v4: V3 and V4 check the request's versioned hashes and  *)
(* its prev_randao first; reth's new_payload_vN_metered then runs the      *)
(* validator's payload checks and its own, and hands the payload to the    *)
(* engine tree.                                                            *)
NewPayload(version, payload, upstreamOk) ==
    /\ response' =
         CASE version >= 3 /\ ~ValidateBlobRequest(payload.hashes)
                -> "BlobRequestTooLarge"
           [] version >= 3 /\ ~EnsureLoadPrevRandao(payload.prevRandao)
                -> "InvalidParams"
           [] ~ValidatePayloadFields(payload, payload.timestamp >= PragueTime)
                -> "InvalidParams"
           [] ~upstreamOk -> "UpstreamError"
           [] OTHER -> "Accepted"
    /\ imported' = IF response' = "Accepted" THEN imported \cup {payload}
                   ELSE imported

ReceiveNewPayload ==
    /\ Serve
    /\ \E version \in 1 .. 4, r \in PrevRandaos, ts \in Timestamps,
          hashes \in 0 .. MaxHashes, upstreamOk \in BOOLEAN :
          NewPayload(version, LoadExecutionData(version, r, ts, hashes), upstreamOk)
    /\ UNCHANGED <<now, syncing, jobs, BlobVars>>

(* fork_choice_updated_v1..v3 with attributes: V3 checks their prev_randao *)
(* first; reth then runs ensure_well_formed_attributes and its own checks, *)
(* applies the forkchoice (answered SYNCING while the node syncs) and      *)
(* starts a payload job with LoadPayloadBuilderAttributes::try_new.        *)
ForkchoiceWithAttributes(version, attrs, upstreamOk) ==
    /\ response' =
         CASE version = 3 /\ ~EnsureLoadPrevRandao(attrs.prevRandao) -> "InvalidParams"
           [] ~ValidateAttributesFields(attrs) -> "InvalidParams"
           [] ~upstreamOk -> "UpstreamError"
           [] syncing -> "Syncing"
           [] ~BuilderAttributesTryNew(attrs) -> "InvalidPayloadAttributes"
           [] OTHER -> "Valid"
    /\ jobs' = IF response' = "Valid" THEN jobs \cup {attrs} ELSE jobs

ReceiveForkchoiceUpdated ==
    /\ Serve
    /\ \/ \E version \in 1 .. 3, attrs \in Attributes, upstreamOk \in BOOLEAN :
             ForkchoiceWithAttributes(version, attrs, upstreamOk)
       \/ /\ response' = IF syncing THEN "Syncing" ELSE "Valid"
          /\ UNCHANGED jobs
    /\ UNCHANGED <<now, syncing, imported, BlobVars>>

(* Dev mode: the local miner asks the engine tree for a block directly,    *)
(* not through the RPC handlers, with the attributes of                    *)
(* LoadLocalPayloadAttributesBuilder; the job is made by try_new alone.    *)
LocalMinerForkchoice ==
    /\ \E ts \in Timestamps :
          LET attrs == LocalPayloadAttributes(ts)
          IN  jobs' = IF BuilderAttributesTryNew(attrs) THEN jobs \cup {attrs}
                      ELSE jobs
    /\ UNCHANGED <<now, syncing, calls, imported, BlobVars, response>>

(* record_get_blobs(hits, misses).                                         *)
RecordGetBlobs(hits, misses) ==
    /\ blobHits' = blobHits + hits
    /\ blobMisses' = blobMisses + misses

(* get_blobs_v2: a None answer (some blob missing) counts every hash as a  *)
(* miss.                                                                   *)
RecordGetBlobsV2None(asked) == RecordGetBlobs(0, asked)

(* The pool's answer to a call that reached it: an error (Internal), or    *)
(* which of the `asked` blobs it holds.  V1 and V3 return one Option per   *)
(* hash; V2 returns all of them or None.                                   *)
PoolAnswers(version, asked) ==
    \/ /\ response' = "Internal"
       /\ UNCHANGED BlobVars
    \/ /\ version \in {1, 3}
       /\ response' = "Ok"
       /\ \E hits \in 0 .. asked : RecordGetBlobs(hits, asked - hits)
    \/ /\ version = 2
       /\ \/ /\ response' = "Ok"
             /\ RecordGetBlobs(asked, 0)
          \/ /\ response' = "OkNone"
             /\ RecordGetBlobsV2None(asked)

(* get_blobs_v1..v3: V2 and V3 refuse calls before Osaka by the wall       *)
(* clock; then the request size; V3 answers None while syncing, without    *)
(* metrics; the rest go to the pool.                                       *)
ReceiveGetBlobs ==
    /\ Serve
    /\ \E version \in 1 .. 3, asked \in 0 .. MaxHashes :
          CASE version >= 2 /\ ~IsOsakaActive(now) ->
                    response' = "UnsupportedFork" /\ UNCHANGED BlobVars
            [] ~ValidateBlobRequest(asked) ->
                    response' = "BlobRequestTooLarge" /\ UNCHANGED BlobVars
            [] version = 3 /\ syncing ->
                    response' = "OkNone" /\ UNCHANGED BlobVars
            [] OTHER -> PoolAnswers(version, asked)
    /\ UNCHANGED <<now, syncing, jobs, imported>>

(* get_payload_bodies_by_hash_v1 / by_range_v1 pass reth's answer or its  *)
(* error through; get_client_version_v1 appends Load's entry to reth's      *)
(* (or passes its error); exchange_capabilities always answers reth's      *)
(* capabilities, Load's and the peer's.  None reads or writes the state    *)
(* the Load rules are about.                                               *)
ReceiveQuery ==
    /\ Serve
    /\ \/ response' \in {"Bodies", "UpstreamError"}
       \/ response' \in {"ClientVersionsWithLoad", "UpstreamError"}
       \/ response' = "CapabilitiesWithLoad"
    /\ UNCHANGED <<now, syncing, jobs, imported, BlobVars>>

(* The node starts or stops syncing.                                       *)
SyncStatusChanges ==
    /\ syncing' = ~syncing
    /\ UNCHANGED <<now, calls, jobs, imported, BlobVars, response>>

Tick ==
    /\ now < MaxTime
    /\ now' = now + 1
    /\ UNCHANGED <<syncing, calls, jobs, imported, BlobVars, response>>

Next ==
    \/ ReceiveNewPayload \/ ReceiveForkchoiceUpdated \/ LocalMinerForkchoice
    \/ ReceiveGetBlobs \/ ReceiveQuery \/ SyncStatusChanges \/ Tick

Spec == Init /\ [][Next]_vars

-----------------------------------------------------------------------------
TypeOK ==
    /\ now \in 0 .. MaxTime
    /\ syncing \in BOOLEAN
    /\ calls \in 0 .. MaxCalls
    /\ jobs \subseteq Attributes
    /\ blobHits \in Nat /\ blobMisses \in Nat

(* Load's network rules hold for everything the engine API lets through,   *)
(* whatever the request version: every payload job was started with       *)
(* LOAD_PREVRANDAO, and every payload handed to the engine tree carries    *)
(* it, at most LOAD_MAX_BLOB_COUNT versioned hashes, and requests only     *)
(* from Prague on.  forkchoiceUpdatedV1/V2 and newPayloadV1/V2 skip the    *)
(* wrapper's checks: the validator and try_new must catch them.            *)
LoadRulesOnAccepted ==
    /\ \A attrs \in jobs : attrs.prevRandao = LoadPrevRandao
    /\ \A payload \in imported :
          /\ payload.prevRandao = LoadPrevRandao
          /\ payload.hashes <= LoadMaxBlobCount
          /\ payload.requests => payload.timestamp >= PragueTime

=============================================================================
