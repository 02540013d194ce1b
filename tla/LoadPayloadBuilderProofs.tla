---------------------- MODULE LoadPayloadBuilderProofs ----------------------
(***************************************************************************)
(* Proofs about default_load_payload (src/src/engine/builder.rs), for      *)
(* every fork schedule, blob caps, gas limit and pool.                     *)
(*                                                                         *)
(* BlobCapInv is inductive together with TypeOK: the only step that moves  *)
(* the blob count is Include, which the cap check guards with the cap of   *)
(* the attributes' fork, and the attributes never change after Init.       *)
(***************************************************************************)
EXTENDS LoadPayloadBuilder, SequenceTheorems, TLAPS

IInv == TypeOK /\ BlobCapInv

(* The sidecar record of an executed blob transaction has the type of a    *)
(* sidecar sequence element.                                               *)
LEMMA PushSidecarType ==
  ASSUME TypeOK, NEW tx \in PoolTx
  PROVE  PushSidecar(tx) \in SidecarSeqs
<1>1. CASE tx.blobs > 0
  <2>1. [kind |-> RequiredSidecarKind, blobs |-> tx.blobs]
          \in [kind: SidecarKinds, blobs: 1 .. MaxBlobsPerTx]
    BY <1>1 DEF PoolTx, RequiredSidecarKind, SidecarKinds
  <2>. QED
    BY <1>1, <2>1, AppendProperties DEF TypeOK, PushSidecar, SidecarSeqs
<1>2. CASE ~(tx.blobs > 0)
  BY <1>2 DEF TypeOK, PushSidecar
<1>. QED
  BY <1>1, <1>2

(* A count within both LOAD_MAX_BLOB_COUNT and, from Osaka on, the Osaka   *)
(* maximum is within compute_load_blob_cap, and conversely.                *)
LEMMA CapIsMin ==
  ASSUME NEW n \in Nat
  PROVE  n <= MaxBlobCount
           <=> (n <= LoadMaxBlobCount /\ (IsOsaka => n <= OsakaMaxBlobCount))
  BY BuilderAssumption, LoadMaxBlobCountAssumption
  DEF MaxBlobCount, ComputeLoadBlobCap

(* The cap is a natural number.                                            *)
LEMMA CapIsNat == MaxBlobCount \in Nat
  BY BuilderAssumption, LoadMaxBlobCountAssumption
  DEF MaxBlobCount, ComputeLoadBlobCap

LEMMA InitIInv == Init => IInv
<1> SUFFICES ASSUME Init PROVE IInv
  OBVIOUS
<1>1. sidecars \in SidecarSeqs /\ payload.sidecars \in SidecarSeqs
  BY EmptySeq DEF Init, SidecarSeqs
<1>2. payload \in [fees: Nat, blobs: Nat, gas: Nat, sidecars: SidecarSeqs,
                   requests: BOOLEAN]
  <2>1. payload = [fees |-> 0, blobs |-> 0, gas |-> 0, sidecars |-> <<>>,
                   requests |-> FALSE]
    BY DEF Init
  <2>. QED
    BY <1>1, <2>1
<1>3. pool \in [Senders -> 0 .. Depth]
  BY BuilderAssumption DEF Init
<1>4. TypeOK
  BY <1>1, <1>2, <1>3, Zenon DEF Init, TypeOK, Terminal
<1>5. BlobCapInv
  BY LoadMaxBlobCountAssumption, BuilderAssumption DEF Init, BlobCapInv
<1>. QED
  BY <1>4, <1>5 DEF IInv

(* One iteration of the selection loop preserves the invariant.            *)
LEMMA SelectNextIInv ==
  ASSUME IInv, SelectNext
  PROVE  IInv'
<1> PICK s \in Senders, tx \in PoolTx :
          /\ pool[s] > 0
          /\ \/ PoolSkipsBlob(s, tx)
             \/ /\ ~(skipBlobs /\ tx.blobs > 0)
                /\ \/ SkipGasLimit(s, tx)
                   \/ ObserveCancel(s, tx)
                   \/ SkipOversized(s, tx)
                   \/ SkipBlobCap(s, tx)
                   \/ SkipSidecar(s, tx)
                   \/ BlobStoreFails(s, tx)
                   \/ ExecNonceTooLow(s, tx)
                   \/ ExecInvalid(s, tx)
                   \/ ExecFatal(s, tx)
                   \/ Include(s, tx)
  BY DEF SelectNext
<1>0. /\ pc = "select"
      /\ UNCHANGED <<attrs, parentTimestamp, best>>
  BY DEF SelectNext
<1> DEFINE Kept == UNCHANGED <<cancel, skipBlobs, Accumulators, payload>>
<1>1. ASSUME Kept, pool' \in [Senders -> 0 .. Depth],
             pc' \in {"select", "Cancelled", "Error"}
      PROVE  IInv'
  BY <1>0, <1>1 DEF IInv, TypeOK, BlobCapInv, Accumulators, IsOsaka, Terminal
<1>2. [pool EXCEPT ![s] = 0] \in [Senders -> 0 .. Depth]
  BY BuilderAssumption DEF IInv, TypeOK
<1>3. [pool EXCEPT ![s] = @ - 1] \in [Senders -> 0 .. Depth]
  BY BuilderAssumption DEF IInv, TypeOK
<1>4. CASE PoolSkipsBlob(s, tx)
  BY <1>4, <1>1, <1>2, <1>0 DEF PoolSkipsBlob, MarkInvalid
<1>5. CASE SkipGasLimit(s, tx) \/ SkipOversized(s, tx) \/ SkipBlobCap(s, tx)
           \/ SkipSidecar(s, tx) \/ ExecInvalid(s, tx)
  BY <1>5, <1>1, <1>2, <1>0
  DEF SkipGasLimit, SkipOversized, SkipBlobCap, SkipSidecar, ExecInvalid, MarkInvalid
<1>6. CASE ObserveCancel(s, tx) \/ BlobStoreFails(s, tx) \/ ExecFatal(s, tx)
  BY <1>6, <1>1, <1>0 DEF ObserveCancel, BlobStoreFails, ExecFatal, IInv, TypeOK
<1>7. CASE ExecNonceTooLow(s, tx)
  BY <1>7, <1>1, <1>3, <1>0 DEF ExecNonceTooLow, Consume
<1>8. CASE Include(s, tx)
  <2>1. PICK used \in 1 .. tx.gas :
          gasUsed' = gasUsed + used /\ fees' = fees + tx.tip * used
    BY <1>8 DEF Include
  <2>2. /\ blobCount' = blobCount + tx.blobs
        /\ ~ExceedsBlobCap(tx)
        /\ sidecars' = PushSidecar(tx)
        /\ pool' = [pool EXCEPT ![s] = @ - 1]
        /\ rlpLength' = rlpLength + tx.size
        /\ skipBlobs' \in BOOLEAN
        /\ UNCHANGED <<pc, cancel, payload>>
    BY <1>8 DEF Include, ReachesExecution, Consume
  <2>3. blobCount \in Nat /\ tx.blobs \in Nat
    BY DEF IInv, TypeOK, PoolTx
  <2>4. blobCount <= MaxBlobCount
    BY <2>3, CapIsMin DEF IInv, BlobCapInv
  <2>5. blobCount' <= MaxBlobCount
    BY <2>2, <2>3, <2>4, CapIsNat DEF ExceedsBlobCap
  <2>6. BlobCapInv'
    <3>1. blobCount' \in Nat
      BY <2>2, <2>3
    <3>2. blobCount' <= LoadMaxBlobCount /\ (IsOsaka => blobCount' <= OsakaMaxBlobCount)
      BY <2>5, <3>1, CapIsMin
    <3>. QED
      BY <1>0, <2>2, <3>2 DEF IInv, BlobCapInv, IsOsaka
  <2>7. TypeOK'
    <3>1. sidecars' \in SidecarSeqs
      BY <2>2, PushSidecarType DEF IInv
    <3>2. /\ tx.gas \in Nat /\ tx.tip \in Nat /\ tx.size \in Nat
          /\ used \in Nat
      <4>1. tx.gas \in TxGas /\ tx.tip \in Tips /\ tx.size \in TxSizes
        BY DEF PoolTx
      <4>2. tx.gas \in Nat /\ tx.tip \in Nat /\ tx.size \in Nat
        BY <4>1, BuilderAssumption, Zenon
      <4>. QED
        BY <2>1, <4>2
    <3>3. tx.tip * used \in Nat
      BY <3>2
    <3>4. /\ gasUsed' \in Nat /\ fees' \in Nat
          /\ blobCount' \in Nat /\ rlpLength' \in Nat
      BY <2>1, <2>2, <2>3, <3>2, <3>3 DEF IInv, TypeOK
    <3>. QED
      BY <1>0, <1>3, <2>2, <3>1, <3>4 DEF IInv, TypeOK
  <2>. QED
    BY <2>6, <2>7 DEF IInv
<1>. QED
  BY <1>4, <1>5, <1>6, <1>7, <1>8

(* Every step of the build and of its driver preserves the invariant.      *)
LEMMA NextIInv ==
  ASSUME IInv, [Next]_vars
  PROVE  IInv'
<1>1. CASE StartBuild \/ StartFails
  BY <1>1 DEF StartBuild, StartFails, IInv, TypeOK, BlobCapInv, Accumulators,
             IsOsaka, Terminal
<1>2. CASE SelectNext
  BY <1>2, SelectNextIInv
<1>3. CASE Abort
  BY <1>3 DEF Abort, IInv, TypeOK, BlobCapInv, Accumulators, IsOsaka, Terminal
<1>4. CASE Seal
  <2>1. PICK extra \in SealExtra :
          IF IsOsaka /\ rlpLength + extra > MaxRlpBlockSize
          THEN pc' = "Error" /\ UNCHANGED payload
          ELSE /\ pc' = "Better"
               /\ payload' = [fees |-> fees, blobs |-> blobCount, gas |-> gasUsed,
                              sidecars |-> sidecars, requests |-> IsPrague]
    BY <1>4 DEF Seal
  <2>2. UNCHANGED <<attrs, parentTimestamp, best, cancel, pool, skipBlobs,
                    Accumulators>>
    BY <1>4 DEF Seal
  <2>3. CASE IsOsaka /\ rlpLength + extra > MaxRlpBlockSize
    BY <2>1, <2>2, <2>3 DEF IInv, TypeOK, BlobCapInv, Accumulators, IsOsaka, Terminal
  <2>4. CASE ~(IsOsaka /\ rlpLength + extra > MaxRlpBlockSize)
    <3>1. pc' = "Better"
          /\ payload' = [fees |-> fees, blobs |-> blobCount, gas |-> gasUsed,
                         sidecars |-> sidecars, requests |-> IsPrague]
      BY <2>1, <2>4
    <3>2. payload' \in [fees: Nat, blobs: Nat, gas: Nat, sidecars: SidecarSeqs,
                        requests: BOOLEAN]
      BY <3>1 DEF IInv, TypeOK, IsPrague
    <3>. QED
      BY <2>2, <3>1, <3>2 DEF IInv, TypeOK, BlobCapInv, Accumulators, IsOsaka, Terminal
  <2>. QED
    BY <2>3, <2>4
<1>5. CASE Cancel
  BY <1>5 DEF Cancel, IInv, TypeOK, BlobCapInv, Accumulators, IsOsaka
<1>6. CASE UNCHANGED vars
  BY <1>6 DEF vars, IInv, TypeOK, BlobCapInv, Accumulators, IsOsaka
<1>. QED
  BY <1>1, <1>2, <1>3, <1>4, <1>5, <1>6 DEF Next, Build

(* Type correctness of the build: every accumulator, the iterator's       *)
(* per-sender chains and the sealed payload keep their types.              *)
THEOREM BuildTypeCorrect == Spec => []TypeOK
  BY InitIInv, NextIInv, PTL DEF Spec, IInv

(* The blob cap of the selection loop holds for every configuration: the   *)
(* block's blob count never exceeds LOAD_MAX_BLOB_COUNT, nor the Osaka     *)
(* maximum from Osaka on, and a sealed payload carries that count.         *)
THEOREM BlobCapCorrect == Spec => []BlobCapInv
  BY InitIInv, NextIInv, PTL DEF Spec, IInv

-----------------------------------------------------------------------------
(* The loop's other safety invariants are inductive relative to IInv:      *)
(* the gas check bounds the gas used, only Seal reaches "Better" and it    *)
(* seals the current accumulators, and skip_blobs is called at the cap,    *)
(* after which the iterator drops every blob transaction so that the       *)
(* count cannot move again.                                                *)
LoopInv == GasInv /\ BlobsSkippedOnlyAtCap

LEMMA InitLoopInv == Init => LoopInv
  BY BuilderAssumption DEF Init, LoopInv, GasInv, BlobsSkippedOnlyAtCap

(* One iteration of the selection loop preserves LoopInv.                  *)
LEMMA SelectNextLoopInv ==
  ASSUME IInv, LoopInv, SelectNext
  PROVE  LoopInv'
<1> PICK s \in Senders, tx \in PoolTx :
          /\ pool[s] > 0
          /\ \/ PoolSkipsBlob(s, tx)
             \/ /\ ~(skipBlobs /\ tx.blobs > 0)
                /\ \/ SkipGasLimit(s, tx)
                   \/ ObserveCancel(s, tx)
                   \/ SkipOversized(s, tx)
                   \/ SkipBlobCap(s, tx)
                   \/ SkipSidecar(s, tx)
                   \/ BlobStoreFails(s, tx)
                   \/ ExecNonceTooLow(s, tx)
                   \/ ExecInvalid(s, tx)
                   \/ ExecFatal(s, tx)
                   \/ Include(s, tx)
  BY DEF SelectNext
<1>0. /\ pc = "select"
      /\ UNCHANGED <<attrs, parentTimestamp, best>>
  BY DEF SelectNext
<1>1. ASSUME UNCHANGED <<skipBlobs, Accumulators, payload>>,
             pc' \in {"select", "Cancelled", "Error"}
      PROVE  LoopInv'
  BY <1>0, <1>1 DEF LoopInv, GasInv, BlobsSkippedOnlyAtCap, Accumulators, MaxBlobCount, IsOsaka
<1>2. CASE \/ PoolSkipsBlob(s, tx) \/ SkipGasLimit(s, tx)
           \/ SkipOversized(s, tx) \/ SkipBlobCap(s, tx) \/ SkipSidecar(s, tx)
           \/ ExecNonceTooLow(s, tx) \/ ExecInvalid(s, tx)
  BY <1>2, <1>1, <1>0
  DEF PoolSkipsBlob, SkipGasLimit, SkipOversized, SkipBlobCap, SkipSidecar,
      ExecNonceTooLow, ExecInvalid
<1>3. CASE ObserveCancel(s, tx) \/ BlobStoreFails(s, tx) \/ ExecFatal(s, tx)
  BY <1>3, <1>1 DEF ObserveCancel, BlobStoreFails, ExecFatal
<1>4. CASE ~(skipBlobs /\ tx.blobs > 0) /\ Include(s, tx)
  <2>1. PICK used \in 1 .. tx.gas : gasUsed' = gasUsed + used
    BY <1>4 DEF Include
  <2>2. /\ blobCount' = blobCount + tx.blobs
        /\ skipBlobs' = (skipBlobs \/ (tx.blobs > 0 /\ ReachedBlobCap(blobCount')))
        /\ ~(skipBlobs /\ tx.blobs > 0)
        /\ ~ExceedsGas(tx)
        /\ UNCHANGED <<pc, payload>>
    BY <1>4 DEF Include, ReachesExecution, PassedEarlyChecks
  <2>3. /\ gasUsed \in Nat /\ blobCount \in Nat
        /\ tx.gas \in Nat /\ tx.blobs \in Nat
    <3>1. tx.gas \in TxGas /\ tx.blobs \in 0 .. MaxBlobsPerTx
      BY DEF PoolTx
    <3>2. tx.gas \in Nat
      BY <3>1, BuilderAssumption, Zenon
    <3>. QED
      BY <3>1, <3>2 DEF IInv, TypeOK
  <2>4. GasInv'
    BY <1>0, <2>1, <2>2, <2>3, BuilderAssumption
    DEF ExceedsGas, GasInv, LoopInv
  <2>6. BlobsSkippedOnlyAtCap'
    <3>1. CASE skipBlobs
      BY <1>0, <2>2, <2>3, <3>1
      DEF LoopInv, BlobsSkippedOnlyAtCap, MaxBlobCount, IsOsaka
    <3>2. CASE ~skipBlobs
      BY <1>0, <2>2, <3>2
      DEF BlobsSkippedOnlyAtCap, ReachedBlobCap, MaxBlobCount, IsOsaka
    <3>. QED
      BY <3>1, <3>2
  <2>. QED
    BY <2>4, <2>6 DEF LoopInv
<1>. QED
  BY <1>2, <1>3, <1>4

(* Every step of the build and of its driver preserves LoopInv.            *)
LEMMA NextLoopInv ==
  ASSUME IInv, LoopInv, [Next]_vars
  PROVE  LoopInv'
<1> USE DEF LoopInv, GasInv, BlobsSkippedOnlyAtCap,
            MaxBlobCount, IsOsaka, Accumulators
<1>1. CASE StartBuild \/ StartFails \/ Abort
  BY <1>1 DEF StartBuild, StartFails, Abort
<1>2. CASE SelectNext
  BY <1>2, SelectNextLoopInv
<1>3. CASE Seal
  <2>1. PICK extra \in SealExtra :
          IF IsOsaka /\ rlpLength + extra > MaxRlpBlockSize
          THEN pc' = "Error" /\ UNCHANGED payload
          ELSE /\ pc' = "Better"
               /\ payload' = [fees |-> fees, blobs |-> blobCount, gas |-> gasUsed,
                              sidecars |-> sidecars, requests |-> IsPrague]
    BY <1>3 DEF Seal
  <2>2. /\ UNCHANGED <<attrs, parentTimestamp, best, cancel, pool, skipBlobs,
                       Accumulators>>
        /\ IsBetterPayload(best, fees)
        /\ pc = "select"
    BY <1>3 DEF Seal
  <2>3. CASE IsOsaka /\ rlpLength + extra > MaxRlpBlockSize
    BY <2>1, <2>2, <2>3
  <2>4. CASE ~(IsOsaka /\ rlpLength + extra > MaxRlpBlockSize)
    BY <2>1, <2>2, <2>4 DEF IsBetterPayload
  <2>. QED
    BY <2>3, <2>4
<1>4. CASE Cancel
  BY <1>4 DEF Cancel
<1>5. CASE UNCHANGED vars
  BY <1>5 DEF vars
<1>. QED
  BY <1>1, <1>2, <1>3, <1>4, <1>5 DEF Next, Build

(* The loop's two safety invariants hold in every reachable state.         *)
LEMMA LoopSafety ==
    Spec => [](GasInv /\ BlobsSkippedOnlyAtCap)
<1>1. Init => IInv /\ LoopInv
  BY InitIInv, InitLoopInv
<1>2. IInv /\ LoopInv /\ [Next]_vars => (IInv /\ LoopInv)'
  BY NextIInv, NextLoopInv
<1>. QED
  BY <1>1, <1>2, PTL DEF Spec, LoopInv

(* The block assembly loop keeps the gas used within the block gas limit   *)
(* although it checks each transaction's declared gas limit rather than    *)
(* the gas it uses, and a sealed payload reports that gas, for every gas   *)
(* limit and pool.                                                         *)
THEOREM GasCorrect == Spec => []GasInv
  BY LoopSafety, PTL

(* skip_blobs() is called only with the block at exactly the blob cap of  *)
(* its fork, and the count stays there: no blob transaction that could     *)
(* still fit is dropped by the iterator, for every fork schedule and cap.  *)
THEOREM BlobsSkippedCorrect == Spec => []BlobsSkippedOnlyAtCap
  BY LoopSafety, PTL


-----------------------------------------------------------------------------
(* SidecarsMatchBlobs speaks of SumBlobs, a recursive function over the    *)
(* sidecar indices.  Rather than what it computes for every sequence,      *)
(* which takes induction, the proof carries the equation that defines it:  *)
(* g is a running sum of the blobs of sc.                                  *)
IsBlobSum(sc, g) ==
    g = [i \in 0 .. Len(sc) |-> IF i = 0 THEN 0 ELSE g[i - 1] + sc[i].blobs]

(* SumBlobs is the end of the running sum its definition chooses.          *)
LEMMA SumBlobsChoice ==
  ASSUME NEW sc
  PROVE  SumBlobs(sc) = (CHOOSE g : IsBlobSum(sc, g))[Len(sc)]
BY DEF SumBlobs, IsBlobSum


(* A running sum of sc extends to one of Append(sc, r).                    *)
LEMMA AppendBlobSumExists ==
  ASSUME NEW S, NEW sc \in Seq(S), NEW r, NEW g, IsBlobSum(sc, g)
  PROVE  IsBlobSum(Append(sc, r),
                   [i \in 0 .. Len(sc) + 1 |->
                      IF i <= Len(sc) THEN g[i] ELSE g[Len(sc)] + r.blobs])
<1> DEFINE n == Len(sc)
           s2 == Append(sc, r)
           g2 == [i \in 0 .. n + 1 |-> IF i <= n THEN g[i] ELSE g[n] + r.blobs]
<1>1. n \in Nat /\ Len(s2) = n + 1 /\ s2[n + 1] = r
      /\ \A i \in 1 .. n : s2[i] = sc[i]
  BY AppendProperties
<1>2. \A i \in 0 .. n : g[i] = IF i = 0 THEN 0 ELSE g[i - 1] + sc[i].blobs
  BY <1>1 DEF IsBlobSum
<1>3. ASSUME NEW i \in 0 .. n + 1
      PROVE  g2[i] = IF i = 0 THEN 0 ELSE g2[i - 1] + s2[i].blobs
  <2>1. CASE i = 0
    BY <1>1, <1>2, <2>1
  <2>2. CASE i \in 1 .. n
    BY <1>1, <1>2, <2>2
  <2>3. CASE i = n + 1
    BY <1>1, <2>3
  <2>. QED
    BY <1>1, <2>1, <2>2, <2>3
<1>. QED
  BY <1>1, <1>3 DEF IsBlobSum

(* A running sum of Append(sc, r) is one of sc, followed by r's blobs.     *)
LEMMA AppendBlobSumUnique ==
  ASSUME NEW S, NEW sc \in Seq(S), NEW r, NEW g, IsBlobSum(Append(sc, r), g)
  PROVE  /\ IsBlobSum(sc, [i \in 0 .. Len(sc) |-> g[i]])
         /\ g[Len(sc) + 1] = g[Len(sc)] + r.blobs
<1> DEFINE n == Len(sc)
           s2 == Append(sc, r)
           h == [i \in 0 .. n |-> g[i]]
<1>1. n \in Nat /\ Len(s2) = n + 1 /\ s2[n + 1] = r
      /\ \A i \in 1 .. n : s2[i] = sc[i]
  BY AppendProperties
<1>2. \A i \in 0 .. n + 1 : g[i] = IF i = 0 THEN 0 ELSE g[i - 1] + s2[i].blobs
  BY <1>1 DEF IsBlobSum
<1>3. ASSUME NEW i \in 0 .. n
      PROVE  h[i] = IF i = 0 THEN 0 ELSE h[i - 1] + sc[i].blobs
  BY <1>1, <1>2
<1>4. IsBlobSum(sc, h)
  <2>1. h = [i \in 0 .. n |-> IF i = 0 THEN 0 ELSE h[i - 1] + sc[i].blobs]
    BY <1>3
  <2>. QED
    BY <2>1 DEF IsBlobSum
<1>5. g[n + 1] = g[n] + r.blobs
  BY <1>1, <1>2
<1>. QED
  BY <1>4, <1>5


(* count is the sum of the blobs of sc: some running sum exists, and every *)
(* running sum ends at count.                                              *)
BlobSumIs(sc, count) ==
    /\ \E g : IsBlobSum(sc, g)
    /\ \A g : IsBlobSum(sc, g) => g[Len(sc)] = count

(* Appending a sidecar adds its blobs to the sum.                          *)
LEMMA AppendBlobSumIs ==
  ASSUME NEW S, NEW sc \in Seq(S), NEW count, NEW r, BlobSumIs(sc, count)
  PROVE  BlobSumIs(Append(sc, r), count + r.blobs)
<1> DEFINE n == Len(sc)
<1>1. n \in Nat /\ Len(Append(sc, r)) = n + 1
  BY AppendProperties
<1>2. PICK g : IsBlobSum(sc, g)
  BY DEF BlobSumIs
<1>3. \E g2 : IsBlobSum(Append(sc, r), g2)
  BY <1>2, AppendBlobSumExists
<1>4. ASSUME NEW g2, IsBlobSum(Append(sc, r), g2)
      PROVE  g2[n + 1] = count + r.blobs
  <2>1. IsBlobSum(sc, [i \in 0 .. n |-> g2[i]]) /\ g2[n + 1] = g2[n] + r.blobs
    BY <1>4, AppendBlobSumUnique
  <2>2. [i \in 0 .. n |-> g2[i]][n] = count
    BY <2>1 DEF BlobSumIs
  <2>. QED
    BY <1>1, <2>1, <2>2
<1>. QED
  BY <1>1, <1>3, <1>4 DEF BlobSumIs

(* The empty sequence sums to 0.                                           *)
LEMMA EmptyBlobSumIs == BlobSumIs(<<>>, 0)
<1>1. IsBlobSum(<<>>, [i \in 0 .. 0 |-> 0])
  BY DEF IsBlobSum
<1>2. ASSUME NEW g, IsBlobSum(<<>>, g) PROVE g[0] = 0
  BY <1>2 DEF IsBlobSum
<1>. QED
  BY <1>1, <1>2 DEF BlobSumIs

(* What the sidecars record: they sum to the blob count, and every one is  *)
(* of the kind the block's fork requires.                                  *)
SumInv ==
    /\ BlobSumIs(sidecars, blobCount)
    /\ \A i \in 1 .. Len(sidecars) : sidecars[i].kind = RequiredSidecarKind

LEMMA SumInvMatches ==
  ASSUME SumInv PROVE SidecarsMatchBlobs
<1>1. PICK g0 : IsBlobSum(sidecars, g0)
  BY DEF SumInv, BlobSumIs
<1>2. IsBlobSum(sidecars, CHOOSE g : IsBlobSum(sidecars, g))
  BY <1>1
<1>3. SumBlobs(sidecars) = blobCount
  BY <1>2, SumBlobsChoice DEF SumInv, BlobSumIs
<1>. QED
  BY <1>3 DEF SumInv, SidecarsMatchBlobs, RequiredSidecarKind


(* A step that leaves the sidecars, the blob count and the attributes      *)
(* alone preserves SumInv.                                                 *)
LEMMA SumInvUnchanged ==
  ASSUME SumInv, UNCHANGED <<sidecars, blobCount, attrs>>
  PROVE  SumInv'
BY DEF SumInv, BlobSumIs, IsBlobSum, RequiredSidecarKind, IsOsaka

(* An executed transaction pushes the sidecar of its blobs, of the kind    *)
(* the fork requires, exactly when it adds those blobs to the count.       *)
LEMMA IncludeSumInv ==
  ASSUME IInv, SumInv, NEW s \in Senders, NEW tx \in PoolTx, Include(s, tx),
         attrs' = attrs
  PROVE  SumInv'
<1> DEFINE S == [kind: SidecarKinds, blobs: 1 .. MaxBlobsPerTx]
           r == [kind |-> RequiredSidecarKind, blobs |-> tx.blobs]
<1>1. /\ blobCount' = blobCount + tx.blobs
      /\ sidecars' = PushSidecar(tx)
  BY DEF Include
<1>2. RequiredSidecarKind' = RequiredSidecarKind
  BY DEF RequiredSidecarKind, IsOsaka
<1>3. CASE tx.blobs > 0
  <2>1. sidecars \in Seq(S) /\ sidecars' = Append(sidecars, r)
    BY <1>1, <1>3 DEF IInv, TypeOK, SidecarSeqs, PushSidecar
  <2>2. BlobSumIs(sidecars', blobCount')
    BY <1>1, <2>1, AppendBlobSumIs DEF SumInv
  <2>3. \A i \in 1 .. Len(sidecars') : sidecars'[i].kind = RequiredSidecarKind'
    BY <1>2, <2>1, AppendProperties DEF SumInv
  <2>. QED
    BY <2>2, <2>3 DEF SumInv
<1>4. CASE ~(tx.blobs > 0)
  <2>1. tx.blobs = 0 /\ blobCount \in Nat
    BY <1>4 DEF PoolTx, IInv, TypeOK
  <2>2. UNCHANGED <<sidecars, blobCount, attrs>>
    BY <1>1, <1>4, <2>1 DEF PushSidecar
  <2>. QED
    BY <2>2, SumInvUnchanged
<1>. QED
  BY <1>3, <1>4

LEMMA InitSumInv == Init => SumInv
BY EmptyBlobSumIs DEF Init, SumInv

(* Every step of the build and of its driver preserves SumInv.             *)
LEMMA NextSumInv ==
  ASSUME IInv, SumInv, [Next]_vars
  PROVE  SumInv'
<1>1. CASE SelectNext
  <2>1. PICK s \in Senders, tx \in PoolTx :
          \/ Include(s, tx)
          \/ UNCHANGED <<sidecars, blobCount>>
    BY <1>1 DEF SelectNext, PoolSkipsBlob, SkipGasLimit, ObserveCancel,
                SkipOversized, SkipBlobCap, SkipSidecar, BlobStoreFails,
                ExecNonceTooLow, ExecInvalid, ExecFatal, Accumulators
  <2>2. attrs' = attrs
    BY <1>1 DEF SelectNext
  <2>. QED
    BY <2>1, <2>2, IncludeSumInv, SumInvUnchanged
<1>2. CASE StartBuild \/ StartFails \/ Abort \/ Seal \/ Cancel
  <2>1. UNCHANGED <<sidecars, blobCount, attrs>>
    BY <1>2 DEF StartBuild, StartFails, Abort, Seal, Cancel, Accumulators
  <2>. QED
    BY <2>1, SumInvUnchanged
<1>3. CASE UNCHANGED vars
  BY <1>3, SumInvUnchanged DEF vars
<1>. QED
  BY <1>1, <1>2, <1>3 DEF Next, Build

(* Every sidecar default_load_payload collects with push_sidecar_variant   *)
(* is of the kind the attributes' fork requires (EIP-7594 from Osaka on),  *)
(* and the sidecars carry exactly block_blob_count blobs, whatever the     *)
(* pool yields and whichever checks skip or abort its transactions, for    *)
(* every fork schedule, blob caps and pool.                                *)
THEOREM SidecarsCorrect == Spec => []SidecarsMatchBlobs
<1>1. Init => IInv /\ SumInv
  BY InitIInv, InitSumInv
<1>2. IInv /\ SumInv /\ [Next]_vars => (IInv /\ SumInv)'
  BY NextIInv, NextSumInv
<1>3. IInv /\ SumInv => SidecarsMatchBlobs
  BY SumInvMatches
<1>. QED
  BY <1>1, <1>2, <1>3, PTL DEF Spec

=============================================================================
