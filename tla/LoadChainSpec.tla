--------------------------- MODULE LoadChainSpec ---------------------------
(***************************************************************************)
(* The network parameter authority of load-reth and its readers:           *)
(*                                                                         *)
(*   - LoadChainSpec::from_genesis / validate_genesis                      *)
(*     (src/src/chainspec/mod.rs): the genesis is checked against          *)
(*     "proof-of-stake with every fork up to Prague at genesis", unset     *)
(*     fields are filled in, and the blob schedule is overridden;          *)
(*   - blob_params_at_timestamp, delegated to reth's ChainSpec: the        *)
(*     scheduled parameters of the fork active at a timestamp;             *)
(*   - LoadEvmConfig::load_blob_params_at / enforce_load_blob_env          *)
(*     (src/src/evm/mod.rs): the blob parameters the EVM executes with;    *)
(*   - LoadPoolBuilder::build_pool (src/src/pool/mod.rs): the blob cache   *)
(*     and the blob subpool limits, sized once at start-up from the        *)
(*     parameters active at the wall clock.                                *)
(*                                                                         *)
(* The node is started on a genesis file and a pool configuration, may be  *)
(* restarted, and its wall clock advances.  A genesis field is an option:  *)
(* None or an activation point from a small set; a set of blob parameters  *)
(* is a record of the fields Load overrides.                               *)
(***************************************************************************)
EXTENDS Naturals, LoadPayloadGuard

CONSTANTS
    None,               \* an unset Option field
    PreCancunForks,     \* the 14 block-activated forks, homestead .. gray glacier
    Activations,        \* the activation points a genesis field may hold
    OsakaTimes,         \* the values osaka_time may hold
    LoadTargetBlobCount,    \* LOAD_TARGET_BLOB_COUNT (512)
    LoadMaxBlobsPerTx,      \* LOAD_MAX_BLOBS_PER_TX (32)
    LoadBlobUpdateFraction, \* LOAD_BLOB_UPDATE_FRACTION (5_007_716)
    CancunParams,       \* BlobParams::cancun()
    OsakaParams,        \* BlobParams::osaka()
    EpochSlots,         \* EPOCH_SLOTS (32)
    CacheOverrides,     \* the --txpool blob cache sizes an operator may set
    DefaultBlobTxs,     \* the blob subpool max_txs reth's configuration may hold
    DefaultBlobBytes,   \* the blob subpool max_size reth's configuration may hold
    MaxTime             \* the last wall-clock second of a run

BlobParamsType == [target: Nat, max: Nat, perTx: Nat, fraction: Nat]

ASSUME ChainSpecAssumption ==
    /\ None \notin Nat
    /\ 0 \in Activations /\ Activations \subseteq Nat
    /\ OsakaTimes \subseteq Nat
    /\ {CancunParams, OsakaParams} \subseteq BlobParamsType
    /\ {LoadTargetBlobCount, LoadMaxBlobsPerTx, LoadBlobUpdateFraction,
        EpochSlots, MaxTime} \subseteq Nat \ {0}
    /\ CacheOverrides \subseteq Nat
    /\ DefaultBlobTxs \subseteq Nat \ {0} /\ DefaultBlobBytes \subseteq Nat

Opt(S) == S \cup {None}

(* The Genesis config fields validate_genesis reads or writes.  ttd is     *)
(* terminal_total_difficulty, ttdPassed terminal_total_difficulty_passed,  *)
(* merge merge_netsplit_block, pre the pre-Cancun fork blocks.             *)
Genesis ==
    [cancun: Opt(Activations), ttd: Opt(Activations), ttdPassed: BOOLEAN,
     merge: Opt(Activations), pre: [PreCancunForks -> Opt(Activations)],
     shanghai: Opt(Activations), prague: Opt(Activations),
     osaka: Opt(OsakaTimes)]

(* The blob cache size and the blob subpool limits of reth's PoolConfig    *)
(* before build_pool adjusts them: the operator's cache override (None     *)
(* when unset) and the default blob SubPoolLimit.                          *)
PoolConfig ==
    [cacheOverride: Opt(CacheOverrides), maxTxs: DefaultBlobTxs,
     maxSize: DefaultBlobBytes]

VARIABLES
    genesis,        \* the genesis file the node is started on
    chainArg,       \* the --chain argument: "load", "load-dev" or a path
    poolConfig,     \* the pool configuration from the command line
    node,           \* "down", "running", "failed" (from_genesis erred),
                    \* or "unparsable" (the genesis file was not read)
    chain,          \* the LoadChainSpec built by from_genesis
    now,            \* the wall clock, in seconds
    blobCache,      \* pool_config.blob_cache_size after build_pool
    blobLimit       \* pool_config.blob_limit after build_pool

vars == <<genesis, chainArg, poolConfig, node, chain, now, blobCache, blobLimit>>

(* The chains LoadChainSpecParser knows by name; any other argument is a   *)
(* path to a genesis file.                                                 *)
ChainArgs == {"load", "load-dev", "path"}

-----------------------------------------------------------------------------
(* validate_genesis, with its early bails: cancun_time must be Some(0); a  *)
(* set TTD, merge_netsplit_block, pre-Cancun fork block, shanghai_time or  *)
(* prague_time must be 0.  Which bail fires is only in the error message:  *)
(* from_genesis discards the genesis on any of them.                       *)
SetToZeroOrUnset(v) == v \in {None, 0}

(* Mutant: the shanghai_time check is left out.                          *)
ValidateGenesisNoShanghai(g) ==
    /\ g.cancun = 0
    /\ SetToZeroOrUnset(g.ttd)
    /\ SetToZeroOrUnset(g.merge)
    /\ \A f \in PreCancunForks : SetToZeroOrUnset(g.pre[f])
    /\ SetToZeroOrUnset(g.prague)

ValidateGenesis(g) ==
    /\ g.cancun = 0
    /\ SetToZeroOrUnset(g.ttd)
    /\ SetToZeroOrUnset(g.merge)
    /\ \A f \in PreCancunForks : SetToZeroOrUnset(g.pre[f])
    /\ SetToZeroOrUnset(g.shanghai)
    /\ SetToZeroOrUnset(g.prague)

(* An unset field is written to activate at genesis; a set one is kept.    *)
FillUnset(v) == IF v = None THEN 0 ELSE v

(* The Load blob parameters from_genesis installs for Cancun and Prague.   *)
LoadBlobParams ==
    [target |-> LoadTargetBlobCount, max |-> LoadMaxBlobCount,
     perTx |-> LoadMaxBlobsPerTx, fraction |-> LoadBlobUpdateFraction]

(* from_genesis after a successful validation: the normalised genesis      *)
(* (TTD filled with 0, ttd_passed forced true), and the blob schedule      *)
(* cancun = prague = Load's parameters, osaka = BlobParams::osaka(), no    *)
(* scheduled entries.  osaka_time is taken from the genesis as it is.      *)
(* Mutant: Prague keeps the inherited parameters (only Cancun overridden). *)
FromGenesisPragueInherited(g) ==
    [cancun |-> g.cancun, ttd |-> FillUnset(g.ttd), ttdPassed |-> TRUE,
     merge |-> FillUnset(g.merge),
     pre |-> [f \in PreCancunForks |-> FillUnset(g.pre[f])],
     shanghai |-> FillUnset(g.shanghai), prague |-> FillUnset(g.prague),
     osaka |-> g.osaka,
     blob |-> [cancun |-> LoadBlobParams, prague |-> CancunParams,
               osaka |-> OsakaParams]]

FromGenesis(g) ==
    [cancun |-> g.cancun, ttd |-> FillUnset(g.ttd), ttdPassed |-> TRUE,
     merge |-> FillUnset(g.merge),
     pre |-> [f \in PreCancunForks |-> FillUnset(g.pre[f])],
     shanghai |-> FillUnset(g.shanghai), prague |-> FillUnset(g.prague),
     osaka |-> g.osaka,
     blob |-> [cancun |-> LoadBlobParams, prague |-> LoadBlobParams,
               osaka |-> OsakaParams]]

Active(activation, ts) == activation # None /\ ts >= activation

(* ChainSpec::blob_params_at_timestamp (reached through the EthChainSpec   *)
(* delegation of chainspec/mod.rs): the parameters of the latest active    *)
(* fork among Osaka, Prague and Cancun, None before Cancun.  The forks    *)
(* are tried latest first, so the chain of IFs keeps their priority.      *)
BlobParamsAtTimestamp(cs, ts) ==
    IF Active(cs.osaka, ts) THEN cs.blob.osaka
    ELSE IF Active(cs.prague, ts) THEN cs.blob.prague
    ELSE IF Active(cs.cancun, ts) THEN cs.blob.cancun
    ELSE None

(* LoadEvmConfig::load_blob_params_at: the chain's parameters at ts (or    *)
(* Cancun's), with target, max, per-transaction cap and update fraction    *)
(* replaced by Load's constants.                                           *)
LoadBlobParamsAt(cs, ts) ==
    LET p == IF BlobParamsAtTimestamp(cs, ts) = None THEN CancunParams
             ELSE BlobParamsAtTimestamp(cs, ts)
    IN  [p EXCEPT !.target = LoadTargetBlobCount, !.max = LoadMaxBlobCount,
                  !.perTx = LoadMaxBlobsPerTx, !.fraction = LoadBlobUpdateFraction]

(* enforce_load_blob_env, reduced to the blob limits it installs in the    *)
(* EVM's configuration: max_blobs_per_tx and the per-block maximum its     *)
(* excess-blob-gas clamp and blob gas price are computed from.             *)
EnforceLoadBlobEnv(cs, ts) ==
    [perTx |-> LoadBlobParamsAt(cs, ts).perTx, max |-> LoadBlobParamsAt(cs, ts).max,
     fraction |-> LoadBlobUpdateFraction]

(* The same limits as the chain's schedule states them at ts.              *)
ScheduledBlobLimits(cs, ts) ==
    [perTx |-> BlobParamsAtTimestamp(cs, ts).perTx,
     max |-> BlobParamsAtTimestamp(cs, ts).max,
     fraction |-> BlobParamsAtTimestamp(cs, ts).fraction]

MaxNat(a, b) == IF a >= b THEN a ELSE b

(* build_pool: the blob cache is two epochs of the target blob count at    *)
(* the wall clock, unless the operator set a size.                         *)
BlobCacheSize(cs, ts, pc) ==
    LET p == IF BlobParamsAtTimestamp(cs, ts) = None THEN CancunParams
             ELSE BlobParamsAtTimestamp(cs, ts)
    IN  IF pc.cacheOverride = None THEN p.target * EpochSlots * 2
        ELSE pc.cacheOverride

(* Mutant: the scale rounds down.                                         *)
BlobLimitScaleFloor(target, pc) == target \div MaxNat(pc.maxTxs, 1)

(* The subpool's byte limit is scaled by ceil(target / default max_txs).   *)
BlobLimitScale(target, pc) ==
    (target + pc.maxTxs - 1) \div MaxNat(pc.maxTxs, 1)

(* build_pool: room for four blob caches' worth of full blob transactions, *)
(* at least LOAD_TARGET_BLOB_COUNT of them and never fewer than reth's     *)
(* default; the byte limit scales with the transaction count.              *)
BlobSubpoolLimit(cache, pc) ==
    LET minBlobTxs == MaxNat((cache * 4) \div LoadMaxBlobsPerTx, LoadTargetBlobCount)
        target == MaxNat(pc.maxTxs, minBlobTxs)
    IN  [maxTxs |-> target, maxSize |-> pc.maxSize * BlobLimitScale(target, pc)]

-----------------------------------------------------------------------------
Init ==
    /\ genesis \in Genesis
    /\ chainArg \in ChainArgs
    /\ poolConfig \in PoolConfig
    /\ node = "down"
    /\ chain = None
    /\ now \in 0 .. MaxTime
    /\ blobCache = 0
    /\ blobLimit = [maxTxs |-> 0, maxSize |-> 0]

(* LoadChainSpecParser::parse and then the node's launch: from_genesis     *)
(* succeeds, and build_pool sizes the blob cache and subpool at `now`.     *)
Start ==
    /\ node = "down"
    /\ ValidateGenesis(genesis)
    /\ LET cs == FromGenesis(genesis)
           cache == BlobCacheSize(cs, now, poolConfig)
       IN  /\ chain' = cs
           /\ blobCache' = cache
           /\ blobLimit' = BlobSubpoolLimit(cache, poolConfig)
    /\ node' = "running"
    /\ UNCHANGED <<genesis, chainArg, poolConfig, now>>

(* from_genesis returns the validation error: the node does not start.    *)
StartFails ==
    /\ node = "down"
    /\ ~ValidateGenesis(genesis)
    /\ node' = "failed"
    /\ UNCHANGED <<genesis, chainArg, poolConfig, chain, now, blobCache, blobLimit>>

(* LoadChainSpecParser::parse: a genesis file named by a path may fail to  *)
(* be read or deserialised (parse_genesis); the genesis of "load" and      *)
(* "load-dev" is compiled into the binary and parsed by serde_json alone.  *)
(* Either way the node exits before from_genesis.                          *)
ParseFails ==
    /\ node = "down"
    /\ chainArg = "path"
    /\ node' = "unparsable"
    /\ UNCHANGED <<genesis, chainArg, poolConfig, chain, now, blobCache, blobLimit>>

(* The process is stopped and started again later on the same files.      *)
Restart ==
    /\ node = "running"
    /\ node' = "down"
    /\ UNCHANGED <<genesis, chainArg, poolConfig, chain, now, blobCache, blobLimit>>

Tick ==
    /\ now < MaxTime
    /\ now' = now + 1
    /\ UNCHANGED <<genesis, chainArg, poolConfig, node, chain, blobCache, blobLimit>>

Next == Start \/ StartFails \/ ParseFails \/ Restart \/ Tick

Spec == Init /\ [][Next]_vars

-----------------------------------------------------------------------------
TypeOK ==
    /\ genesis \in Genesis
    /\ poolConfig \in PoolConfig
    /\ chainArg \in ChainArgs
    /\ node \in {"down", "running", "failed", "unparsable"}
    /\ now \in 0 .. MaxTime
    /\ blobCache \in Nat
    /\ blobLimit \in [maxTxs: Nat, maxSize: Nat]

(* Proof of stake from block zero (spec 4.1): Cancun at genesis, and no   *)
(* TTD, merge block, pre-Cancun fork, Shanghai or Prague after genesis.    *)
PosFromGenesis(g) ==
    /\ g.cancun = 0
    /\ \A v \in {g.ttd, g.merge, g.shanghai, g.prague} \cup
                 {g.pre[f] : f \in PreCancunForks} : v \in {None, 0}

(* The derivation contract of from_genesis: the node starts exactly on the *)
(* genesis files that describe proof of stake from block zero, and then    *)
(* every fork up to Prague, the TTD and the merge block activate at        *)
(* genesis, with the TTD marked as passed, whether the file set them to 0  *)
(* or left them unset.                                                     *)
DeriveContract ==
    /\ node \in {"running", "failed"} => (node = "running" <=> PosFromGenesis(genesis))
    /\ node = "running" =>
          /\ \A v \in {chain.cancun, chain.ttd, chain.merge, chain.shanghai,
                        chain.prague} \cup {chain.pre[f] : f \in PreCancunForks} :
                 v = 0
          /\ chain.ttdPassed

(* Until Osaka activates, the EVM executes every block the node has       *)
(* reached with the blob limits of the chain's schedule, the one the      *)
(* payload builder's cap, the consensus checks and the pool read: the      *)
(* override of from_genesis and the one of load_blob_params_at agree.      *)
EvmAgreesWithScheduleBeforeOsaka ==
    node = "running" =>
        \A ts \in 0 .. now :
            ~Active(chain.osaka, ts) =>
                EnforceLoadBlobEnv(chain, ts) = ScheduledBlobLimits(chain, ts)

(* build_pool never lowers the bytes the blob subpool allows per           *)
(* transaction below reth's default: the byte limit is scaled by the       *)
(* rounded-up ratio of the new transaction limit to the default one.       *)
BlobSubpoolKeepsBytesPerTx ==
    node = "running" =>
        blobLimit.maxSize * poolConfig.maxTxs >= poolConfig.maxSize * blobLimit.maxTxs

(* Spec 4.1: the data-availability parameters (budget, target, per-tx cap, *)
(* fee coefficient) are overridden unconditionally with Load's constants:  *)
(* at every timestamp the node has reached, the chain's schedule carries   *)
(* them.                                                                   *)
LoadBudgetAtEveryTimestamp ==
    node = "running" =>
        \A ts \in 0 .. now : BlobParamsAtTimestamp(chain, ts) = LoadBlobParams

=============================================================================
