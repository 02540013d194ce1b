------------------------- MODULE LoadChainSpecProofs -------------------------
(***************************************************************************)
(* Proofs about the parameter authority (LoadChainSpec), for every genesis *)
(* file, pool configuration, fork set and blob constants.                  *)
(*                                                                         *)
(* DeriveContract is not inductive as it stands: it speaks of the genesis  *)
(* through PosFromGenesis, while the steps speak of validate_genesis and   *)
(* from_genesis.  ChainInv records what a running node was started with:   *)
(* the chain is from_genesis of a genesis that passed validation, and a    *)
(* failed node's genesis did not pass.  The node never changes its files,  *)
(* so this survives restarts and the clock.                                *)
(***************************************************************************)
EXTENDS LoadChainSpec, TLAPS

ChainInv ==
    /\ node = "running" => ValidateGenesis(genesis) /\ chain = FromGenesis(genesis)
    /\ node = "failed" => ~ValidateGenesis(genesis)

IInv == TypeOK /\ ChainInv /\ BlobSubpoolKeepsBytesPerTx

(* validate_genesis accepts exactly the genesis files that describe proof  *)
(* of stake from block zero.                                               *)
LEMMA ValidateIsPos ==
  ASSUME NEW g \in Genesis
  PROVE  ValidateGenesis(g) <=> PosFromGenesis(g)
BY Zenon DEF ValidateGenesis, PosFromGenesis, SetToZeroOrUnset

(* from_genesis of a validated genesis activates every fork up to Prague,  *)
(* the TTD and the merge block at genesis.                                 *)
LEMMA FromGenesisAtZero ==
  ASSUME NEW g \in Genesis, ValidateGenesis(g)
  PROVE  LET cs == FromGenesis(g) IN
         /\ cs.cancun = 0 /\ cs.ttd = 0 /\ cs.merge = 0
         /\ cs.shanghai = 0 /\ cs.prague = 0
         /\ \A f \in PreCancunForks : cs.pre[f] = 0
         /\ cs.ttdPassed
BY DEF ValidateGenesis, SetToZeroOrUnset, FromGenesis, FillUnset

(* Load's blob parameters have the type of a set of blob parameters.       *)
LEMMA LoadBlobParamsType == LoadBlobParams \in BlobParamsType
BY ChainSpecAssumption, LoadMaxBlobCountAssumption
   DEF LoadBlobParams, BlobParamsType

(* On a chain from a validated genesis, Cancun is active at every          *)
(* timestamp, so before Osaka the schedule answers Load's parameters (the  *)
(* Prague or the Cancun entry, both overridden), and from Osaka on the     *)
(* Osaka ones.                                                             *)
LEMMA ScheduleOfValidChain ==
  ASSUME NEW g \in Genesis, ValidateGenesis(g), NEW ts \in Nat
  PROVE  BlobParamsAtTimestamp(FromGenesis(g), ts) =
           IF Active(FromGenesis(g).osaka, ts) THEN OsakaParams ELSE LoadBlobParams
<1>1. FromGenesis(g).cancun = 0 /\ FromGenesis(g).prague = 0
  BY FromGenesisAtZero
<1>2. Active(FromGenesis(g).prague, ts) /\ Active(FromGenesis(g).cancun, ts)
  BY <1>1, ChainSpecAssumption DEF Active
<1>. QED
  BY <1>2 DEF BlobParamsAtTimestamp, FromGenesis

(* The blob parameters build_pool reads at the wall clock are a set of     *)
(* blob parameters.                                                        *)
LEMMA ScheduleType ==
  ASSUME NEW g \in Genesis, ValidateGenesis(g), NEW ts \in Nat
  PROVE  BlobParamsAtTimestamp(FromGenesis(g), ts) \in BlobParamsType
BY ScheduleOfValidChain, LoadBlobParamsType, ChainSpecAssumption

(* Rounding the ratio up: ceil(t / m) * m >= t.                            *)
LEMMA CeilDivCovers ==
  ASSUME NEW t \in Nat, NEW m \in Nat \ {0}
  PROVE  /\ (t + m - 1) \div m \in Nat
         /\ ((t + m - 1) \div m) * m >= t
<1> DEFINE q == (t + m - 1) \div m
           r == (t + m - 1) % m
<1>1. t + m - 1 = q * m + r /\ r \in 0 .. m - 1 /\ q \in Nat
  BY SMT
<1>. QED
  BY <1>1, SMT

(* build_pool's subpool limit, for a blob cache size and a pool            *)
(* configuration: both limits are naturals, and the bytes per transaction  *)
(* are not lowered.                                                        *)
LEMMA SubpoolLimitKeepsBytes ==
  ASSUME NEW cache \in Nat, NEW pc \in PoolConfig
  PROVE  LET lim == BlobSubpoolLimit(cache, pc) IN
         /\ lim \in [maxTxs: Nat, maxSize: Nat]
         /\ lim.maxSize * pc.maxTxs >= pc.maxSize * lim.maxTxs
<1> DEFINE m == pc.maxTxs
           minBlobTxs == MaxNat((cache * 4) \div LoadMaxBlobsPerTx, LoadTargetBlobCount)
           target == MaxNat(m, minBlobTxs)
           scale == (target + m - 1) \div m
<1>1. m \in Nat \ {0} /\ pc.maxSize \in Nat
  BY ChainSpecAssumption DEF PoolConfig
<1>2. minBlobTxs \in Nat
  BY ChainSpecAssumption DEF MaxNat
<1>3. target \in Nat /\ target >= m
  BY <1>1, <1>2 DEF MaxNat
<1>4. scale \in Nat /\ scale * m >= target
  BY <1>1, <1>3, CeilDivCovers
<1>5. BlobLimitScale(target, pc) = scale
  BY <1>1 DEF BlobLimitScale, MaxNat
<1>6. BlobSubpoolLimit(cache, pc) = [maxTxs |-> target, maxSize |-> pc.maxSize * scale]
  BY <1>5 DEF BlobSubpoolLimit
<1>7. pc.maxSize * scale * m >= pc.maxSize * target
  <2>1. pc.maxSize * (scale * m) >= pc.maxSize * target
    BY <1>1, <1>3, <1>4, SMT
  <2>. QED
    BY <1>1, <1>4, <2>1, SMT
<1>. QED
  BY <1>1, <1>3, <1>4, <1>6, <1>7

-----------------------------------------------------------------------------
LEMMA InitIInv == Init => IInv
BY ChainSpecAssumption
   DEF Init, IInv, TypeOK, ChainInv, BlobSubpoolKeepsBytesPerTx

(* Start sizes the blob cache and the subpool from a validated genesis:    *)
(* the new state is typed and keeps the bytes per blob transaction.        *)
LEMMA StartIInv ==
  ASSUME IInv, Start
  PROVE  IInv'
<1> DEFINE cs == FromGenesis(genesis)
           cache == BlobCacheSize(cs, now, poolConfig)
<1>1. /\ ValidateGenesis(genesis)
      /\ chain' = cs /\ blobCache' = cache
      /\ blobLimit' = BlobSubpoolLimit(cache, poolConfig)
      /\ node' = "running"
      /\ UNCHANGED <<genesis, chainArg, poolConfig, now>>
  BY DEF Start
<1>2. genesis \in Genesis /\ poolConfig \in PoolConfig /\ now \in Nat
  BY DEF IInv, TypeOK
<1>3. cache \in Nat
  <2> DEFINE p == IF BlobParamsAtTimestamp(cs, now) = None THEN CancunParams
                  ELSE BlobParamsAtTimestamp(cs, now)
  <2>1. BlobParamsAtTimestamp(cs, now) \in BlobParamsType
    BY <1>1, <1>2, ScheduleType
  <2>2. CancunParams \in BlobParamsType /\ EpochSlots \in Nat
        /\ CacheOverrides \subseteq Nat
    BY ChainSpecAssumption
  <2>3. p.target \in Nat
    BY <2>1, <2>2 DEF BlobParamsType
  <2>4. poolConfig.cacheOverride \in CacheOverrides \cup {None}
    BY <1>2 DEF PoolConfig, Opt
  <2>5. cache = IF poolConfig.cacheOverride = None THEN p.target * EpochSlots * 2
                ELSE poolConfig.cacheOverride
    BY DEF BlobCacheSize
  <2>6. CASE poolConfig.cacheOverride = None
    <3>1. p.target * EpochSlots * 2 \in Nat
      BY <2>2, <2>3
    <3>. QED
      BY <2>5, <2>6, <3>1
  <2>7. CASE poolConfig.cacheOverride # None
    BY <2>2, <2>4, <2>5, <2>7
  <2>. QED
    BY <2>6, <2>7
<1>4. /\ blobLimit' \in [maxTxs: Nat, maxSize: Nat]
      /\ blobLimit'.maxSize * poolConfig'.maxTxs
           >= poolConfig'.maxSize * blobLimit'.maxTxs
  BY <1>1, <1>2, <1>3, SubpoolLimitKeepsBytes
<1>. QED
  BY <1>1, <1>3, <1>4 DEF IInv, TypeOK, ChainInv, BlobSubpoolKeepsBytesPerTx

LEMMA StepIInv == IInv /\ [Next]_vars => IInv'
<1> SUFFICES ASSUME IInv, [Next]_vars PROVE IInv'
  OBVIOUS
<1> USE DEF IInv, TypeOK, ChainInv, BlobSubpoolKeepsBytesPerTx
<1>1. CASE Start
  BY <1>1, StartIInv
<1>2. CASE StartFails
  BY <1>2 DEF StartFails
<1>3. CASE ParseFails
  BY <1>3 DEF ParseFails
<1>4. CASE Restart
  BY <1>4 DEF Restart
<1>5. CASE Tick
  <2>1. MaxTime \in Nat
    BY ChainSpecAssumption
  <2>. QED
    BY <1>5, <2>1 DEF Tick
<1>6. CASE UNCHANGED vars
  BY <1>6 DEF vars
<1>. QED
  BY <1>1, <1>2, <1>3, <1>4, <1>5, <1>6 DEF Next

LEMMA IInvHolds == Spec => []IInv
BY InitIInv, StepIInv, PTL DEF Spec

(* The derivation contract follows from what the running node was started  *)
(* with.                                                                   *)
LEMMA IInvDerive == IInv => DeriveContract
<1> SUFFICES ASSUME IInv PROVE DeriveContract
  OBVIOUS
<1>1. genesis \in Genesis
  BY DEF IInv, TypeOK
<1>2. node \in {"running", "failed"} => (node = "running" <=> PosFromGenesis(genesis))
  BY <1>1, ValidateIsPos DEF IInv, ChainInv
<1>3. ASSUME node = "running"
      PROVE  /\ \A v \in {chain.cancun, chain.ttd, chain.merge, chain.shanghai,
                           chain.prague} \cup {chain.pre[f] : f \in PreCancunForks} :
                    v = 0
             /\ chain.ttdPassed
  <2>1. ValidateGenesis(genesis) /\ chain = FromGenesis(genesis)
    BY <1>3 DEF IInv, ChainInv
  <2>. QED
    BY <1>1, <2>1, FromGenesisAtZero
<1>. QED
  BY <1>2, <1>3 DEF DeriveContract

(* Before Osaka, enforce_load_blob_env installs Load's limits, and the     *)
(* schedule of a chain from a validated genesis states the same ones.      *)
LEMMA IInvEvm == IInv => EvmAgreesWithScheduleBeforeOsaka
<1> SUFFICES ASSUME IInv, node = "running", NEW ts \in 0 .. now,
                    ~Active(chain.osaka, ts)
             PROVE  EnforceLoadBlobEnv(chain, ts) = ScheduledBlobLimits(chain, ts)
  BY DEF EvmAgreesWithScheduleBeforeOsaka
<1>1. genesis \in Genesis /\ ValidateGenesis(genesis)
      /\ chain = FromGenesis(genesis) /\ ts \in Nat
  BY DEF IInv, ChainInv, TypeOK
<1>2. BlobParamsAtTimestamp(chain, ts) = LoadBlobParams
  BY <1>1, ScheduleOfValidChain
<1>3. LET p == IF BlobParamsAtTimestamp(chain, ts) = None THEN CancunParams
               ELSE BlobParamsAtTimestamp(chain, ts)
      IN  p \in BlobParamsType
  BY <1>2, LoadBlobParamsType, ChainSpecAssumption
<1>4. /\ LoadBlobParamsAt(chain, ts).perTx = LoadMaxBlobsPerTx
      /\ LoadBlobParamsAt(chain, ts).max = LoadMaxBlobCount
  BY <1>3 DEF LoadBlobParamsAt, BlobParamsType
<1>. QED
  BY <1>2, <1>4 DEF EnforceLoadBlobEnv, ScheduledBlobLimits, LoadBlobParams

(* from_genesis derives the chain Load promises: the node starts exactly   *)
(* on genesis files that describe proof of stake from block zero, and      *)
(* then every fork up to Prague, the TTD and the merge block are at        *)
(* genesis with the TTD marked passed, across restarts and for any fork    *)
(* set, activation values and genesis file.                                *)
THEOREM DeriveCorrect == Spec => []DeriveContract
BY IInvHolds, IInvDerive, PTL

(* Before Osaka the EVM's blob limits (load_blob_params_at and             *)
(* enforce_load_blob_env) agree with the chain's schedule at every         *)
(* timestamp the node has reached, for every choice of the constants.      *)
THEOREM EvmAgreesCorrect == Spec => []EvmAgreesWithScheduleBeforeOsaka
BY IInvHolds, IInvEvm, PTL

(* build_pool never lowers the bytes the blob subpool allows per           *)
(* transaction below reth's default: ceil(target / default) times the      *)
(* default byte limit, for every cache size, blob constants and pool       *)
(* configuration.                                                          *)
THEOREM SubpoolBytesCorrect == Spec => []BlobSubpoolKeepsBytesPerTx
BY IInvHolds, PTL DEF IInv

=============================================================================
