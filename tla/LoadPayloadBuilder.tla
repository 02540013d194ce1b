------------------------- MODULE LoadPayloadBuilder -------------------------
(***************************************************************************)
(* One run of default_load_payload (src/src/engine/builder.rs), the block  *)
(* assembly loop of load-reth, against an opaque transaction pool and an   *)
(* external driver that may cancel the build at any time.                  *)
(*                                                                         *)
(* The pool's BestTransactions iterator is modelled by what the builder    *)
(* relies on: pool[s] is the number of pending transactions of sender s    *)
(* still offered, in nonce order; next() yields the head of some sender,   *)
(* mark_invalid drops the sender's remaining chain (the transaction and    *)
(* its descendants), and after skip_blobs() the iterator drops any blob    *)
(* transaction it meets, with its descendants.  The attributes of a        *)
(* yielded transaction (gas limit, blob count, size, tip, what the blob    *)
(* store and the EVM answer) are chosen when it is yielded: the pool is    *)
(* opaque and a transaction is yielded once.                               *)
(*                                                                         *)
(* Each loop iteration is one step: it runs single-threaded and reads the  *)
(* cancellation flag once, so an interleaving of the driver's Cancel with  *)
(* the middle of an iteration is equivalent to one before or after it.     *)
(***************************************************************************)
EXTENDS LoadPayloadGuard

CONSTANTS
    Senders,            \* accounts with pending transactions in the pool
    Depth,              \* pending transactions per sender (a nonce chain)
    GasLimit,           \* block_gas_limit of the block being built
    TxGas,              \* gas limits a pool transaction may declare
    Tips,               \* effective tips per gas
    MaxBlobsPerTx,      \* LOAD_MAX_BLOBS_PER_TX, enforced at pool admission
    OsakaMaxBlobCount,  \* BlobParams::osaka().max_blob_count
    TxSizes,            \* RLP lengths of transactions
    SizeOverhead,       \* withdrawals length + 1024 in the size estimate
    SealExtra,          \* what sealing adds to the transactions' length
    MaxRlpBlockSize,    \* MAX_RLP_BLOCK_SIZE
    PragueTime,         \* activation timestamps of the chain spec
    OsakaTime,
    Timestamps,         \* attribute and parent timestamps
    PrevRandaos,        \* prev_randao values an attribute may carry
    BestFees,           \* fees of the best payload the job already holds
    NoBest              \* best_payload = None

ASSUME BuilderAssumption ==
    /\ Depth \in Nat /\ GasLimit \in Nat
    /\ TxGas \subseteq Nat \ {0} /\ Tips \subseteq Nat /\ TxSizes \subseteq Nat
    /\ MaxBlobsPerTx \in Nat \ {0} /\ OsakaMaxBlobCount \in Nat
    /\ SizeOverhead \in Nat /\ SealExtra \subseteq Nat /\ MaxRlpBlockSize \in Nat
    /\ PragueTime \in Nat /\ OsakaTime \in Nat /\ Timestamps \subseteq Nat
    /\ BestFees \subseteq Nat /\ NoBest \notin Nat
    /\ LoadPrevRandao \in PrevRandaos

VARIABLES
    pc,                 \* "validate", "select" or the BuildOutcome reached
    attrs,              \* the payload attributes: [prevRandao, timestamp]
    parentTimestamp,    \* parent_header.timestamp
    best,               \* best_payload's fees, or NoBest
    cancel,             \* the job's cancellation flag
    pool,               \* pool[s]: transactions of s still offered
    skipBlobs,          \* skip_blobs() has been called on the iterator
    gasUsed,            \* cumulative_gas_used
    blobCount,          \* block_blob_count
    rlpLength,          \* block_transactions_rlp_length
    fees,               \* total_fees
    sidecars,           \* blob_sidecars, one record per blob transaction
    payload             \* the sealed payload once pc = "Better"

vars == <<pc, attrs, parentTimestamp, best, cancel, pool, skipBlobs,
          gasUsed, blobCount, rlpLength, fees, sidecars, payload>>

Terminal == {"Cancelled", "Aborted", "Better", "Error"}

-----------------------------------------------------------------------------
(* Chain-spec queries at the attributes' timestamp.                        *)

IsOsaka == attrs.timestamp >= OsakaTime
IsPrague == attrs.timestamp >= PragueTime

(* Mutant: the cap ignores the fork's blob params.                        *)
ComputeLoadBlobCapNoFork(osaka) == LoadMaxBlobCount

(* compute_load_blob_cap: the blob params of the active fork (Load's own   *)
(* for Cancun and Prague, BlobParams::osaka() from Osaka on), clamped to   *)
(* LOAD_MAX_BLOB_COUNT.                                                    *)
ComputeLoadBlobCap(osaka) ==
    LET forkMax == IF osaka THEN OsakaMaxBlobCount ELSE LoadMaxBlobCount
    IN  IF forkMax < LoadMaxBlobCount THEN forkMax ELSE LoadMaxBlobCount

MaxBlobCount == ComputeLoadBlobCap(IsOsaka)

(* Mutant: the loop keeps accepting only EIP-4844 sidecars after Osaka.    *)
RequiredSidecarKindPreOsaka == "Eip4844"

(* The sidecar kind the active fork requires of a blob transaction.        *)
RequiredSidecarKind == IF IsOsaka THEN "Eip7594" ELSE "Eip4844"

(* is_better_payload: no best yet, or strictly more fees.                  *)
IsBetterPayload(bestFees, newFees) ==
    IF bestFees = NoBest THEN TRUE ELSE newFees > bestFees

(* A yielded pool transaction, before the blob store and the EVM answer.   *)
PoolTx == [gas: TxGas, blobs: 0 .. MaxBlobsPerTx, size: TxSizes, tip: Tips]

(* The pool has nothing more to offer: the while-let loop ends.            *)
Exhausted == \A s \in Senders : pool[s] = 0

(* mark_invalid: the transaction and its descendants leave the iterator.   *)
MarkInvalid(s) == pool' = [pool EXCEPT ![s] = 0]

(* next() moved past the transaction; its successor becomes eligible.      *)
Consume(s) == pool' = [pool EXCEPT ![s] = @ - 1]

Accumulators == <<gasUsed, blobCount, rlpLength, fees, sidecars>>

-----------------------------------------------------------------------------
Init ==
    /\ pc = "validate"
    /\ attrs \in [prevRandao: PrevRandaos, timestamp: Timestamps]
    /\ parentTimestamp \in Timestamps
    /\ best \in BestFees \cup {NoBest}
    /\ cancel = FALSE
    /\ pool = [s \in Senders |-> Depth]
    /\ skipBlobs = FALSE
    /\ gasUsed = 0 /\ blobCount = 0 /\ rlpLength = 0 /\ fees = 0
    /\ sidecars = <<>>
    /\ payload = [fees |-> 0, blobs |-> 0, gas |-> 0, sidecars |-> <<>>,
                  requests |-> FALSE]

(* validate_payload_attributes succeeds; the state view, the EVM builder   *)
(* and the pre-execution changes are set up.                               *)
StartBuild ==
    /\ pc = "validate"
    /\ ValidatePayloadAttributes(parentTimestamp, attrs) = "Ok"
    /\ pc' = "select"
    /\ UNCHANGED <<attrs, parentTimestamp, best, cancel, pool, skipBlobs,
                   Accumulators, payload>>

(* The attributes are refused, or opening the state, building the EVM or   *)
(* the pre-execution changes fail: the build errors before any selection.  *)
StartFails ==
    /\ pc = "validate"
    /\ pc' = "Error"
    /\ UNCHANGED <<attrs, parentTimestamp, best, cancel, pool, skipBlobs,
                   Accumulators, payload>>

(* After skip_blobs() the iterator drops a blob transaction it meets,      *)
(* marking it invalid so that its descendants are not returned either.     *)
PoolSkipsBlob(s, tx) ==
    /\ skipBlobs /\ tx.blobs > 0
    /\ MarkInvalid(s)
    /\ UNCHANGED <<pc, cancel, skipBlobs, Accumulators, payload>>

(* Mutant: the gas check ignores the transaction's own gas limit.          *)
ExceedsGasUsedOnly(tx) == gasUsed >= GasLimit

(* The first check of the loop body: the transaction's gas limit would     *)
(* overflow the block.  It is made before the cancellation check.          *)
ExceedsGas(tx) == gasUsed + tx.gas > GasLimit

SkipGasLimit(s, tx) ==
    /\ ExceedsGas(tx)
    /\ MarkInvalid(s)
    /\ UNCHANGED <<pc, cancel, skipBlobs, Accumulators, payload>>

ObserveCancel(s, tx) ==
    /\ ~ExceedsGas(tx) /\ cancel
    /\ pc' = "Cancelled"
    /\ UNCHANGED <<cancel, pool, skipBlobs, Accumulators, payload>>

(* The size estimate with the transaction is over MAX_RLP_BLOCK_SIZE       *)
(* (checked from Osaka on).                                                *)
Oversized(tx) == IsOsaka /\ rlpLength + tx.size + SizeOverhead > MaxRlpBlockSize

(* The checks that precede the sidecar fetch passed.                       *)
PassedEarlyChecks(tx) == ~ExceedsGas(tx) /\ ~cancel /\ ~Oversized(tx)

SkipOversized(s, tx) ==
    /\ ~ExceedsGas(tx) /\ ~cancel /\ Oversized(tx)
    /\ MarkInvalid(s)
    /\ UNCHANGED <<pc, cancel, skipBlobs, Accumulators, payload>>

(* Mutant: the cap check leaves out the transaction's own blobs.          *)
ExceedsBlobCapCountOnly(tx) == tx.blobs > 0 /\ blobCount > MaxBlobCount

(* TooManyEip4844Blobs: the blob transaction would exceed the cap.         *)
ExceedsBlobCap(tx) == tx.blobs > 0 /\ blobCount + tx.blobs > MaxBlobCount

SkipBlobCap(s, tx) ==
    /\ PassedEarlyChecks(tx) /\ ExceedsBlobCap(tx)
    /\ MarkInvalid(s)
    /\ UNCHANGED <<pc, cancel, skipBlobs, Accumulators, payload>>

(* pool.get_blob for a blob transaction that fits the cap answers with an  *)
(* error (propagated by ?), None, or a sidecar of either kind.  None, or a *)
(* sidecar of the kind the active fork does not take, marks the            *)
(* transaction invalid.                                                    *)
SkipSidecar(s, tx) ==
    /\ PassedEarlyChecks(tx) /\ tx.blobs > 0 /\ ~ExceedsBlobCap(tx)
    /\ MarkInvalid(s)
    /\ UNCHANGED <<pc, cancel, skipBlobs, Accumulators, payload>>

BlobStoreFails(s, tx) ==
    /\ PassedEarlyChecks(tx) /\ tx.blobs > 0 /\ ~ExceedsBlobCap(tx)
    /\ pc' = "Error"
    /\ UNCHANGED <<cancel, pool, skipBlobs, Accumulators, payload>>

(* The transaction reaches execute_transaction: it passed every check and, *)
(* if it carries blobs, the store returned a sidecar of the required kind. *)
ReachesExecution(tx) ==
    /\ PassedEarlyChecks(tx) /\ ~ExceedsBlobCap(tx)

(* InvalidTx with nonce too low: skipped, without mark_invalid.            *)
ExecNonceTooLow(s, tx) ==
    /\ ReachesExecution(tx)
    /\ Consume(s)
    /\ UNCHANGED <<pc, cancel, skipBlobs, Accumulators, payload>>

(* Any other InvalidTx: the transaction and its descendants are skipped.   *)
ExecInvalid(s, tx) ==
    /\ ReachesExecution(tx)
    /\ MarkInvalid(s)
    /\ UNCHANGED <<pc, cancel, skipBlobs, Accumulators, payload>>

(* Any other execution error aborts the build.                             *)
ExecFatal(s, tx) ==
    /\ ReachesExecution(tx)
    /\ pc' = "Error"
    /\ UNCHANGED <<cancel, pool, skipBlobs, Accumulators, payload>>

(* Mutant: skip_blobs() one blob before the cap.                          *)
ReachedBlobCapEarly(count) == count + 1 >= MaxBlobCount

(* block_blob_count == max_blob_count: the cap is reached exactly.         *)
ReachedBlobCap(count) == count = MaxBlobCount

(* Mutant: a sidecar is pushed for every executed transaction.           *)
PushSidecarAlways(tx) ==
    Append(sidecars, [kind |-> RequiredSidecarKind, blobs |-> tx.blobs])

(* push_sidecar_variant: the sidecar fetched for a blob transaction.       *)
PushSidecar(tx) ==
    IF tx.blobs > 0
    THEN Append(sidecars, [kind |-> RequiredSidecarKind, blobs |-> tx.blobs])
    ELSE sidecars

(* Successful execution: blob count (and skip_blobs once the cap is hit    *)
(* exactly), RLP length, fees, gas and the sidecar are accumulated.        *)
Include(s, tx) ==
    /\ ReachesExecution(tx)
    /\ \E used \in 1 .. tx.gas :
         /\ gasUsed' = gasUsed + used
         /\ fees' = fees + tx.tip * used
    /\ blobCount' = blobCount + tx.blobs
    /\ skipBlobs' = (skipBlobs \/ (tx.blobs > 0 /\ ReachedBlobCap(blobCount')))
    /\ rlpLength' = rlpLength + tx.size
    /\ sidecars' = PushSidecar(tx)
    /\ Consume(s)
    /\ UNCHANGED <<pc, cancel, payload>>

(* One iteration of the selection loop on the head transaction of s.       *)
SelectNext ==
    /\ pc = "select"
    /\ \E s \in Senders, tx \in PoolTx :
         /\ pool[s] > 0
         /\ \/ PoolSkipsBlob(s, tx)
            \/ /\ ~(skipBlobs /\ tx.blobs > 0)
               /\ \/ SkipGasLimit(s, tx)
                  \/ ObserveCancel(s, tx)
                  \/ SkipOversized(s, tx)
                  \/ SkipBlobCap(s, tx)
                  \/ SkipSidecar(s, tx)
                  \/ BlobStoreFails(s, tx)
                  \/ ExecNonceTooLow(s, tx)
                  \/ ExecInvalid(s, tx)
                  \/ ExecFatal(s, tx)
                  \/ Include(s, tx)
    /\ UNCHANGED <<attrs, parentTimestamp, best>>

(* The pool is exhausted and the fees do not beat the best payload.        *)
Abort ==
    /\ pc = "select" /\ Exhausted
    /\ ~IsBetterPayload(best, fees)
    /\ pc' = "Aborted"
    /\ UNCHANGED <<attrs, parentTimestamp, best, cancel, pool, skipBlobs,
                   Accumulators, payload>>

(* builder.finish, then the sealed block's size is checked from Osaka on;  *)
(* the requests are kept only from Prague on.                              *)
Seal ==
    /\ pc = "select" /\ Exhausted
    /\ IsBetterPayload(best, fees)
    /\ \E extra \in SealExtra :
         IF IsOsaka /\ rlpLength + extra > MaxRlpBlockSize
         THEN /\ pc' = "Error"
              /\ UNCHANGED payload
         ELSE /\ pc' = "Better"
              /\ payload' = [fees |-> fees, blobs |-> blobCount, gas |-> gasUsed,
                             sidecars |-> sidecars, requests |-> IsPrague]
    /\ UNCHANGED <<attrs, parentTimestamp, best, cancel, pool, skipBlobs,
                   Accumulators>>

(* The payload job's driver cancels the build (the job is dropped or a     *)
(* newer build supersedes it).                                             *)
Cancel ==
    /\ ~cancel
    /\ cancel' = TRUE
    /\ UNCHANGED <<pc, attrs, parentTimestamp, best, pool, skipBlobs,
                   Accumulators, payload>>

Build == StartBuild \/ StartFails \/ SelectNext \/ Abort \/ Seal

Next == Build \/ Cancel

(* The loop is synchronous code that runs until it returns: weak fairness  *)
(* of the builder's own steps.  The driver is not obliged to cancel.       *)
Spec == Init /\ [][Next]_vars /\ WF_vars(Build)

-----------------------------------------------------------------------------
(* The getPayload version the engine API serves for the payload's fork.    *)
GetPayloadVersion == IF IsOsaka THEN 5 ELSE IF IsPrague THEN 4 ELSE 3

(* The total blob count of a sidecar sequence.                             *)
SumBlobs(sc) ==
    LET sum[i \in 0 .. Len(sc)] == IF i = 0 THEN 0 ELSE sum[i - 1] + sc[i].blobs
    IN  sum[Len(sc)]

SidecarSeqs == Seq([kind: SidecarKinds, blobs: 1 .. MaxBlobsPerTx])

TypeOK ==
    /\ pc \in {"validate", "select"} \cup Terminal
    /\ attrs \in [prevRandao: PrevRandaos, timestamp: Timestamps]
    /\ parentTimestamp \in Timestamps
    /\ best \in BestFees \cup {NoBest}
    /\ cancel \in BOOLEAN
    /\ pool \in [Senders -> 0 .. Depth]
    /\ skipBlobs \in BOOLEAN
    /\ gasUsed \in Nat /\ blobCount \in Nat /\ rlpLength \in Nat /\ fees \in Nat
    /\ sidecars \in SidecarSeqs
    /\ payload \in [fees: Nat, blobs: Nat, gas: Nat, sidecars: SidecarSeqs,
                    requests: BOOLEAN]

(* The block's blob count never exceeds LOAD_MAX_BLOB_COUNT, nor, from     *)
(* Osaka on, the smaller Osaka maximum: the selection loop's cap check     *)
(* against compute_load_blob_cap, across any number of included,           *)
(* skipped and failed blob transactions.                                   *)
BlobCapInv ==
    /\ blobCount <= LoadMaxBlobCount
    /\ IsOsaka => blobCount <= OsakaMaxBlobCount
    /\ pc = "Better" => payload.blobs = blobCount

(* The gas the block uses never exceeds its gas limit, although the loop   *)
(* checks each transaction's declared gas limit, not the gas it will use.  *)
GasInv ==
    /\ gasUsed <= GasLimit
    /\ pc = "Better" => payload.gas = gasUsed

(* The sidecars kept for the block carry exactly the blobs counted, and    *)
(* all of the kind the fork of the block requires: a blob count is added   *)
(* only for an executed transaction, a sidecar only for the same one.      *)
SidecarsMatchBlobs ==
    /\ SumBlobs(sidecars) = blobCount
    /\ \A i \in 1 .. Len(sidecars) :
           sidecars[i].kind = IF IsOsaka THEN "Eip7594" ELSE "Eip4844"

(* skip_blobs() is called only once the block holds exactly the cap: no    *)
(* blob transaction that could still fit is dropped by the iterator.       *)
BlobsSkippedOnlyAtCap ==
    skipBlobs => blobCount = MaxBlobCount

(* A payload built for a fork can be handed out by the getPayload version  *)
(* of that fork (payload.rs header: blob payloads capped and converted).   *)
BuiltPayloadDeliverable ==
    pc = "Better" => EnvelopeFromBuilt(GetPayloadVersion, payload.sidecars) = "Ok"

=============================================================================
