# TLA+ verification of load-reth

load-reth is a reth-based execution client for the Load network. On top of
upstream reth it adds:
- network rules: a constant `prev_randao`, a blob budget of 1024 per block,
  and every fork up to Prague active at genesis;
- a chain spec that enforces those rules on the genesis and overrides the
  blob schedule;
- an engine API wrapper and a payload validator that check the rules on
  every request;
- a block builder that enforces the rules;
- pool sizing for the larger blob budget;
- an admission gate in front of three hot RPC methods.

This directory models those parts in TLA+ and model-checks them with TLC.
With TLAPS it proves every safety invariant the passing runs check:
- the gate's accounting and its refinement of an abstract admission gate;
- the builder's blob cap, gas bound, best-payload rule, skip-blobs rule and
  sidecar accounting;
- the engine API's Load rules;
- the chain spec's derivation contract, EVM blob limits and subpool sizing;
- the idempotence of block production.

Liveness stays with TLC (see section 5).

## 1. Inventory

| Part | Source | State | Operations | Module |
|---|---|---|---|---|
| Admission Control Gate | `rpc/backpressure.rs` | per guarded method: `AtomicUsize` in-flight counter, limit read from the environment, in-flight gauge, rejected counter (record_rejected, record_inflight) | `call`, `batch` (bypass, entries, response-size limit), `classify_method`, `try_acquire`, `release`, `parse_env_limit`, `parse_env_mb_as_bytes` | `LoadRpcBackpressure`, abstract `LoadAdmissionGate` (modelled) |
| Block Assembly Engine | `engine/builder.rs` | one build: cumulative gas, blob count, RLP length, fees, sidecars, the iterator's skip-blobs flag; shared cancel flag | `default_load_payload`, `compute_load_blob_cap` | `LoadPayloadBuilder` (partly) |
| Guard, build side | `engine/payload.rs` | none (pure checks) | `validate_prev_randao`, `validate_payload_attributes`, `guard_sidecars`, `TryFrom` envelopes, `try_new`, dev-mode attributes, `LoadExecutionData` | `LoadPayloadGuard` (modelled) |
| Guard, engine API | `engine/rpc.rs`, `engine/validator.rs`, `metrics.rs` | the payload jobs started, the payloads imported, the getBlobs metrics | `new_payload_v1..v4`, `fork_choice_updated_v1..v3`, `get_blobs_v1..v3`, `get_payload_v1..v5`, `validate_version_specific_fields`, `ensure_well_formed_attributes` | `LoadEngineApi`, `LoadBlockProduction` (partly) |
| Network Parameter Authority | `chainspec/mod.rs` | the chain spec built from the genesis | `validate_genesis`, `from_genesis`, `blob_params_at_timestamp` | `LoadChainSpec` (modelled) |
| EVM configuration | `evm/mod.rs` | none | `load_blob_params_at`, `enforce_load_blob_env` (limits only) | `LoadChainSpec` (partly) |
| Pool sizing | `pool/mod.rs` | the blob cache and blob subpool limits | `build_pool` | `LoadChainSpec` (modelled) |
| Wiring, CLI, primitives | `node/`, `main.rs`, `lib.rs`, `rpc/mod.rs`, `version.rs`, `consensus/`, `primitives/`, `transaction/` | none | assembly and type aliases | not modelled (no transitions) |

All source paths are under `src/src/`.

How the parts interact:
- The node is started on a genesis file. `from_genesis` validates it and
  builds the chain spec. `build_pool` then sizes the blob pool from the
  parameters active at the wall clock.
- The consensus client calls the engine API. `forkchoiceUpdated` with
  attributes passes the V3 check, the validator and `try_new`, and then
  starts a payload job. The job runs `default_load_payload`.
- `getPayload` converts the best payload to the envelope of its fork.
  `guard_sidecars` runs in every conversion.
- `newPayload` checks an incoming payload (the V3/V4 pre-checks and the
  validator) before the engine tree executes it. The EVM executes with Load's
  blob parameters (`enforce_load_blob_env`).
- `getBlobs` serves blobs from the pool and records hit and miss metrics.
- The RPC gate is independent of the engine. It wraps only
  `eth_sendRawTransaction`, `eth_getTransactionCount` and
  `eth_sendRawTransactionSync`, both as single calls and inside batches.

What makes these parts hard:
- **Gate.** Handler tasks run concurrently on a multi-threaded runtime.
  - Every atomic operation is a separate step.
  - The gauge is written from a value read one step earlier.
  - The permit must be dropped on every exit path, including a batch's early
    return when its response exceeds the size limit.
- **Builder.** The loop is cancellable from outside and has many exits.
  Its caps depend on the fork at the attribute timestamp.
- **Engine API.** Four versions of each request, and only some of them run
  Load's own checks. Every version must still respect the rules.
- **Chain spec.** Three readers take the blob parameters from different places:
  - the schedule installed by `from_genesis`;
  - the EVM's re-imposed constants;
  - the pool's sizing at start-up.

## 2. Modules

- `LoadPayloadGuard.tla`: the stateless checks of `payload.rs`, `rpc.rs` and
  `validator.rs`, as operators.
  - A sidecar collection is a sequence of `[kind, blobs]` records.
  - An inbound payload is `LoadExecutionData`, reduced to what the checks
    read: its `prev_randao`, timestamp, Cancun fields (with their hash count)
    and Prague requests. It is built by the code's constructors:
    `ExecutionDataNoSidecar` for V1/V2, then `ExecutionDataV3` and
    `ExecutionDataV4`.
- `LoadPayloadBuilder.tla` (EXTENDS the guard): one run of
  `default_load_payload`.
  - One step per loop iteration, with one disjunct per branch of the loop
    body, in the code's order.
  - The pool's iterator is abstracted to a count of pending transactions per
    sender. The blob store's and the EVM's answers are free choices.
  - Cancellation is an environment action.
- `LoadRpcBackpressure.tla`: the gate.
  - **State.** Each task has a `pc`, the method it is serving and the value
    of its last load or `fetch_sub`. While it serves a batch, it also has the
    batch's remaining entries (`batch`) and the number of responses appended
    (`answered`). Each method has `inflight`, `gauge` and `rejected`.
  - **Limits.** `Limit` is `from_env` and `limit_for`: each limit variable is
    one of not present, not unicode, unparsable, or parsed to a value.
    `parse_env_limit` falls back to the default on every case but the last.
    `BatchResponseLimit` is `parse_env_mb_as_bytes`, with saturation at
    `usize::MAX`.
  - **Actions.** One action per atomic step of `call` and `try_acquire`/
    `release`:
    - the classification;
    - the load (reject, counting a rejection, or proceed);
    - the compare-exchange (success, or a failure that may be spurious);
    - the accepted gauge write;
    - the end of the inner call;
    - `fetch_sub`, and the released gauge write.
  - **Batches.** `batch` is modelled entry by entry:
    - `ReceiveBatch` is the `has_guarded_call` bypass. A batch with no
      guarded call goes to the inner service whole.
    - `BatchCall` sends a call through the same steps as `call()`.
    - `BatchNotification` covers a notification. `BatchInvalid` covers an
      invalid entry.
    - `AppendResponse` appends a response within the size limit.
      `BatchTooLarge` is the early return. `FinishBatch` ends the batch.
    - A response is counted as one unit of the size limit.
    - The `notification()` branch of `finish` cannot be reached here: a batch
      with a guarded call always has a response.
- `LoadAdmissionGate.tla`: the gate's contract. Each method has a set of
  holders. `Admit` happens only below the limit, `Reject` only at it, and
  `Release` removes a holder. `LoadRpcBackpressure` instantiates it with
  `holders <- [m |-> Holders(m)]`. The result is the property `GateContract`.
- `LoadChainSpec.tla` (EXTENDS the guard): the parameter authority and its
  readers.
  - **State.** The genesis file and the pool configuration (chosen in
    `Init`), the node's status, the chain spec, the wall clock, the blob
    cache and the blob subpool limit.
  - **Validation.** `ValidateGenesis` follows every bail of
    `validate_genesis`. `FromGenesis` is the normalised genesis with the
    overridden blob schedule.
  - **Actions.**
    - `Start` is from_genesis followed by `build_pool` at the wall clock.
    - `StartFails` is the validation error.
    - `ParseFails` is `LoadChainSpecParser::parse` failing to read a genesis
      file given by path. The built-in `load` and `load-dev` genesis are
      compiled in and are only deserialised.
    - `Restart` and `Tick` are environment actions.
- `LoadEngineApi.tla` (EXTENDS the guard): the engine API as a request
  handler.
  - The consensus client issues requests of every version with any inputs.
  - reth's own checks behind the Load ones are free choices, and so are the
    engine tree's verdict and the pool's answers.
  - The dev-mode miner's forkchoice is an action of its own.
  - `ReceiveQuery` covers the payload-bodies, client-version and
    capabilities handlers. They answer, or pass reth's error through, and
    touch no Load state.
  - `SyncStatusChanges` and `Tick` move the `is_syncing` answer and the wall
    clock.
- `LoadBlockProduction.tla` (EXTENDS the builder): composition. A
  `forkchoiceUpdated` carrying the builder's attributes starts the job; the
  build runs; `getPayloadV1..V5` hand out envelopes of the best payload.
  With no payload, `on_missing_payload` answers `AwaitInProgress`: the call
  waits for the build. If the build ends cancelled or in error with no
  earlier best, the answer is `MissingPayload` (`GetPayloadMissing`).
- `MC*.tla`: TLC instances. `*Proofs.tla`: TLAPS proofs.

## 3. Runs

| Run | Config | Expect | What it shows |
|---|---|---|---|
| `builder_safety` | `MCLoadPayloadBuilder.cfg` | pass | `TypeOK`, `BlobCapInv`, `GasInv`, `SidecarsMatchBlobs`, `BlobsSkippedOnlyAtCap` over every build |
| `builder_osaka_delivery` | `MCBuilderDeliverable.cfg` | violation | `BuiltPayloadDeliverable`: an Osaka blob payload cannot be converted to any envelope |
| `builder_cancel_surfaced` | `MCBuilderCancel.cfg` | violation | `CancelledBuildNotSurfaced`: a build that met a candidate after its cancellation is still sealed as Better |
| `gate_accounting` | `MCLoadRpcBackpressure.cfg` | pass | `ExactAccounting`, `CounterBounded`, `CountersDrain` (liveness), about 620k states |
| `gate_batches` | `MCGateBatches.cfg` | pass | `GuardedWorkBounded`, and `GateContract` (the refinement) over batches |
| `gate_gauge` | `MCGateGauge.cfg` | violation | `GaugeMatchesWhenQuiescent`: the gauge stays at 1 after all calls finished |
| `chainspec_derive` | `MCLoadChainSpec.cfg` | pass | `DeriveContract`, `EvmAgreesWithScheduleBeforeOsaka`, `BlobSubpoolKeepsBytesPerTx`, about 1.1M states |
| `chainspec_osaka_budget` | `MCChainSpecOsaka.cfg` | violation | `LoadBudgetAtEveryTimestamp`: from Osaka on the schedule carries Ethereum's Osaka parameters |
| `engine_api_rules` | `MCLoadEngineApi.cfg` | pass | `LoadRulesOnAccepted` over every version of every request |
| `block_production_roundtrip` | `MCLoadBlockProduction.cfg` | pass | `BuiltPassesNewPayload`: what getPayload serves passes newPayload's Load checks |

Bounds, and why they are enough:
- **Builder.**
  - Two senders with chains of 2 transactions.
  - Gas limit 3, with transaction gas in {1, 2}: both the gas skip and the
    exact fill happen.
  - Load's blob cap is 3 and Osaka's is 2, with 0..2 blobs per transaction.
    The cap is both hit exactly and overshot, before and after Osaka.
  - Timestamps 0..2, with Prague at 0 and Osaka at 2.
  - Every action and every disjunct of `SelectNext` fires.
- **Gate, single calls.**
  - Three tasks serve 2 calls each.
  - The effective limits are 1, 2 and 0. They come from three different
    environment cases: parsed, not present, and unparsable with default 0.
  - There is also an unguarded method.
  - `usize::MAX = 3`, so a wrap is representable.
- **Gate, batches.**
  - Two tasks serve one request each.
  - The batches are:
    - two guarded calls;
    - a disabled call with a notification;
    - an invalid entry, two guarded calls and a notification.
  - The response limit is 1 parsed MiB of 2 units. A batch therefore
    overflows at its third response: both the early return and the normal
    finish happen.
- **Chain spec.**
  - Every genesis field is unset, 0 or 1, and `osaka_time` is unset, 1 or 2.
  - Two pre-Cancun forks stand for the fourteen.
  - The clock runs from 0 to 2, so a node can start before Osaka and cross
    it.
  - The blob constants are scaled down with their order kept.
  - The default transaction limits are 1 and 5. With 5 the scale is not
    exact, so the rounding matters.
- **Engine API.**
  - Two `prev_randao` values, 0..3 hashes against a budget of 2.
  - Timestamps 0 and 1, with Osaka at 1.
  - Three calls, so that a bad request of any version can follow a good one.

`CHECK_DEADLOCK FALSE`:
- every run bounds the calls or requests served, or the clock;
- a build stops in its outcome;
- a node whose genesis is refused exits.

Fairness (only the gate has a liveness property):
- **Builder.** `Spec` carries `WF_vars(Build)`, as the loop is synchronous
  code that runs until it returns, but no run checks a liveness property of
  the builder: with a finite pool every build ends whatever the loop does.
- **Gate.**
  - Weak fairness of each task's steps: the tokio runtime polls every ready
    task.
  - Strong fairness of a successful compare-exchange:
    `compare_exchange_weak` may fail spuriously, but not forever.
  - The inner call is assumed to finish, because the upstream handlers have
    timeouts.

## 4. Findings

1. **Osaka blob payloads cannot be delivered.**
   - **Cause.** After Osaka the builder keeps only EIP-7594 sidecars
     (`builder.rs:314-319`). `guard_sidecars` (`payload.rs:219`) refuses
     every 7594 collection, and upstream V5 refuses 4844.
   - **Effect.** A blob block built after Osaka fails every `getPayload`
     conversion.
2. **The in-flight gauge can stay stale.**
   - **Cause.** `release` sets the gauge to `prev-1` in a step after its
     `fetch_sub`. `try_acquire` does the same with `inflight+1`.
   - **Effect.** Racing tasks can leave the gauge at 1 with nothing in
     flight. Only the metric is wrong.
3. **Load's blob budget is not in force from Osaka on.**
   - **Cause.** `from_genesis` installs `BlobParams::osaka()` as the Osaka
     entry of the schedule (`chainspec/mod.rs:65`), and `validate_genesis`
     accepts any `osaka_time`.
   - **Effect.** From Osaka on, `blob_params_at_timestamp` returns
     Ethereum's parameters, and the spec's unconditional override does not
     hold. The pool sizes itself from those parameters and the builder caps
     at the Osaka maximum. Only the EVM (`load_blob_params_at`) re-imposes
     Load's constants.
   - **Before Osaka** the EVM and the schedule agree
     (`EvmAgreesWithScheduleBeforeOsaka` holds).

4. **A cancelled build can still hand out a payload.**
   - **Cause.** The loop checks a candidate's gas limit before
     `cancel.is_cancelled()`, and skips an over-gas candidate with
     `continue` (`builder.rs:254-264`). Nothing checks the cancellation
     after the loop.
   - **Effect.** A build cancelled while its remaining candidates all exceed
     the gas limit runs on to `is_better_payload` and returns `Better`. The
     spec (4.3 step 1, and 5) has the loop poll the signal at the top of
     every iteration, and an interrupted build emit no payload.
   - **Model.** `MCBuilderCancel.tla` adds a history variable,
     `pulledAfterCancel`, set by a loop iteration that meets a candidate
     with `cancel` set and does not return `Cancelled`. TLC's trace has
     7 states: one transaction executed, the cancellation, an over-gas
     candidate skipped, the seal.

Findings 1 and 3 share one cause: `osaka_time` is not pinned.

## 5. Proofs

`LoadRpcBackpressureProofs.tla` proves five theorems. They hold for every
finite set of tasks, every set of methods, every environment and default
limit within `usize`, every set of batches and every `usize::MAX > 0`:
- `TypeCorrect`: `Spec => []TypeOK`.
- `AccountingCorrect`: `Spec => [](ExactAccounting /\ CounterBounded)`,
  and `CounterBoundedCorrect`, its second half on its own.
- `GuardedWorkCorrect`: `Spec => []GuardedWorkBounded`. The guarded calls of
  a method in the inner service never exceed its limit, batches included.
- `GateRefinement`: `Spec => GateContract`. The gate implements
  `LoadAdmissionGate`.

Why the invariant is strengthened. `ExactAccounting` is not inductive alone,
because a successful compare-exchange keeps the bound only if the value read
was below the limit. The inductive invariant `IInv` therefore adds
`GateShape`:
- every task inside the gate serves a method of `Methods`;
- `SeenBelowLimit`: a task in `cas` or `acquired` read a value below its
  limit;
- `InnerUnguarded`: a task in the inner service without a permit serves an
  unguarded method. This is what makes `GuardedWorkBounded` follow: the
  guarded calls in the inner service are exactly the permit holders
  (`WorkWithinHolders`). `BatchCallUngated`, a batch call sent to the inner
  service without the gate, breaks it.

How the step proof is organised:
- `IInv /\ Step(t) => IInv'` has one case per action.
- Steps that neither admit nor release (`Quiet`) keep every method's holders
  (`QuietKeepsHolders`).
- `CasSucceed` adds a holder (`FS_AddElement`). `Release` removes one
  (`FS_RemoveElement`), and the counter is at least 1 there, so the modulus
  never wraps.
- The batch sequences are kept out of the SMT obligations. `TypeOK` is split
  into `TypeCore` and `BatchTyped` (lemmas `TypeSplit` and `BatchKept`).

The refinement:
- `InitRefines`: empty holder sets map to the abstract `Init`.
- `StepRefines`:
  - `CasSucceed` is `Admit`; its bound comes from `SeenBelowLimit`.
  - `LoadAndReject` is `Reject`; the counter equals the holder count there.
  - `Release` is `Release`.
  - Every other step is a stutter of `holders` and `rejected`.

Constant assumption (`GateAssumption`):
- `Threads` finite;
- `usize::MAX` a positive natural;
- every parsed environment value and default limit within `usize`, and a
  positive MiB;
- the unguarded name is not a guarded method;
- batches are sequences of methods, notifications and invalid entries.

`LoadPayloadBuilderProofs.tla` proves five theorems for every
configuration that `BuilderAssumption` allows:
- `BuildTypeCorrect`;
- `BlobCapCorrect`: `Spec => []BlobCapInv`;
- `GasCorrect`;
- `BlobsSkippedCorrect`;
- `SidecarsCorrect`: `Spec => []SidecarsMatchBlobs`.

There `IInv == TypeOK /\ BlobCapInv` is already inductive:
- the fork, and with it the cap, is fixed for the whole build;
- only `Include` moves the blob count, and it is guarded by the cap
  (lemma `CapIsMin`).

`LoopInv` (`GasInv /\ BlobsSkippedOnlyAtCap`)
is inductive relative to `IInv` (lemmas `SelectNextLoopInv` and
`NextLoopInv`):
- the gas used grows by at most the declared limit that `ExceedsGas` checked;
- only `Seal` reaches `Better`, sealing the current gas, and nothing changes
  the payload afterwards;
- `skip_blobs` is set at the cap, and afterwards the iterator drops every
  blob transaction (`PoolSkipsBlob` and the loop's guard), so `Include` adds
  no blob.

`SidecarsMatchBlobs` needs the recursive sum `SumBlobs`. Its argument
avoids induction over the sequence:
- `IsBlobSum(sc, g)` says that `g` satisfies the recursive equation of
  `SumBlobs` on `sc`;
- `SumBlobs(sc)` is by definition `(CHOOSE g : IsBlobSum(sc, g))[Len(sc)]`
  (lemma `SumBlobsChoice`).

The inductive invariant `SumInv` has two parts:
- `BlobSumIs(sidecars, blobCount)`: some running-sum function exists, and
  every such function ends at `blobCount`;
- every sidecar has `RequiredSidecarKind`.

Both parts of `BlobSumIs` carry over an `Append` pointwise (lemmas
`AppendBlobSumExists`, `AppendBlobSumUnique` and `AppendBlobSumIs`).
`Include` is the only step that changes `sidecars` or `blobCount`, and it
pushes a sidecar exactly when it adds that sidecar's blobs (lemma
`IncludeSumInv`). From `SumInv` the `CHOOSE` picks some running sum, and
that sum ends at `blobCount` (lemma `SumInvMatches`).

TLC cannot evaluate `SumInv` as an invariant, because `\A g` ranges over
every value. The recursion has exactly one solution, so on reachable states
`SumInv` says no more than `SidecarsMatchBlobs`, which the `builder_safety`
run checks. What `SumBlobs` computes for an arbitrary sequence is not
proved: that would take induction over data.

`LoadEngineApiProofs.tla` proves `LoadRulesCorrect`:
`Spec => []LoadRulesOnAccepted`, for every constant that
`EngineApiAssumption` allows. The invariant is inductive together with
`TypeOK`:
- a job or an imported payload is added only on the `Valid` or `Accepted`
  answer. That answer is the CASE's `OTHER`, reached only when every check
  passed (lemmas `ValidPassedTryNew` and `AcceptedPassedValidator`);
- a V1 or V2 payload carries no Cancun fields, so its zero hashes are within
  the cap.

`LoadChainSpecProofs.tla` proves three theorems for every genesis, pool
configuration and blob constant that `ChainSpecAssumption` allows:
- `DeriveCorrect`: `Spec => []DeriveContract`;
- `EvmAgreesCorrect`: `Spec => []EvmAgreesWithScheduleBeforeOsaka`;
- `SubpoolBytesCorrect`: `Spec => []BlobSubpoolKeepsBytesPerTx`.

`DeriveContract` is stated in terms of the genesis (`PosFromGenesis`). The
steps, however, speak of `validate_genesis` and `from_genesis`, so the
inductive invariant adds `ChainInv`:
- a running node's genesis passed validation and its chain is
  `FromGenesis(genesis)`;
- a failed node's genesis did not pass.

The lemmas:
- `ValidateIsPos`: validation is exactly proof of stake from block zero.
- `FromGenesisAtZero`: a validated genesis yields forks at 0.
- `ScheduleOfValidChain`: Cancun is active at every timestamp, so before
  Osaka the schedule answers Load's parameters.
- `CeilDivCovers`: `((t + m - 1) \div m) * m >= t`, which gives the subpool
  bound.

For this proof `BlobParamsAtTimestamp` was changed from a CASE to a chain of
IFs. The forks' guards overlap, a TLA+ CASE with overlapping guards picks any
true arm, and the code tries the latest fork first. TLC, which takes the
first true arm, gave the same results before and after.

`LoadBlockProductionProofs.tla` proves `ProductionIdempotent`:
`ProductionSpec => []BuiltPassesNewPayload`.
- **Assumption.** It adds one assumption, `ForkOrderAssumption ==
  PragueTime <= OsakaTime`. The code guarantees it: `validate_genesis` forces
  Prague to 0 (`DeriveCorrect`). Without it, an Osaka block served by
  getPayloadV5 and resubmitted with newPayloadV4 would carry requests before
  Prague.
- **Inductive invariant.** `ProductionInv` adds to the builder's `IInv`:
  - every served envelope carries `LOAD_PREVRANDAO`;
  - its hash count is within the cap;
  - it has V4 or V5 only for a Prague block;
  - V1 and V2 envelopes carry no hashes.

  Every production step is a builder step or a stutter of the builder
  (`ProductionIsBuilderStep`), so the builder's lemmas carry over.

Every inductive invariant above was checked with TLC on the instance of its
run (1.1M states for the chain spec, 4,418 for block production) before it
was proved. The exception is `SumInv`, for the reason given with it.

Only model-checked:
- liveness (`CountersDrain`), which is out of the provers'
  reach: it needs fairness and ENABLED;
- the violation runs, whose properties are false by design.

## 6. Not modelled

- **Engine API metrics and upstream checks.** The latency metrics, and the
  upstream block checks of `ensure_well_formed_payload`, which are free
  choices.
- **EVM fee arithmetic.** The excess-blob-gas clamp and the blob fee
  (`calc_blob_fee` is upstream).
- **Builder variants.** `build_empty_payload` and `on_missing_payload` call
  the same function as the modelled build. `LoadPayloadBuilder::new` is
  wiring.
- **Node wiring, CLI, type aliases and version strings.** No state
  transitions.
- **reth itself.** The pool's state machine, the engine tree and the
  networking are free choices at the points where load-reth calls them.
