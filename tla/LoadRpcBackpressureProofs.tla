--------------------- MODULE LoadRpcBackpressureProofs ---------------------
(***************************************************************************)
(* Proofs about the admission gate of src/src/rpc/backpressure.rs, for    *)
(* every number of tasks, methods, limits and every usize width.          *)
(*                                                                         *)
(* ExactAccounting is not inductive by itself: a task about to            *)
(* compare_exchange must have read a value below its limit (otherwise its *)
(* success would push the counter past the limit, and wrap it), and a     *)
(* task inside the gate must be on a guarded method.  IInv adds these,    *)
(* and that a task in the inner service outside the gate is not on a       *)
(* method the gate guards, which bounds the guarded work.                  *)
(***************************************************************************)
EXTENDS LoadRpcBackpressure, FiniteSetTheorems, SequenceTheorems, TLAPS

(* A task in the gate is serving a guarded method.                         *)
InGate(t) == pc[t] \in {"load", "cas", "acquired", "call", "release", "released"}

(* A task past its load and before its permit's first use read a value    *)
(* below the limit.                                                        *)
SeenBelowLimit ==
    \A t \in Threads : pc[t] \in {"cas", "acquired"} => seen[t] < Limit[method[t]]

(* A task in the inner service without a permit is on a method the gate   *)
(* does not guard (or serves a batch with no guarded call).                *)
InnerUnguarded ==
    \A t \in Threads : pc[t] = "inner" => ~ClassifyMethod(method[t])

(* Where each task is, with what it has read.                              *)
GateShape ==
    /\ \A t \in Threads : InGate(t) => method[t] \in Methods
    /\ SeenBelowLimit
    /\ InnerUnguarded

IInv == TypeOK /\ ExactAccounting /\ CounterBounded /\ GateShape

-----------------------------------------------------------------------------
(* The limits read from the environment are usize values.                  *)
LEMMA LimitType == Limit \in [Methods -> 0 .. UsizeMax]
<1>1. \A m \in Methods : Env[m].value \in 0 .. UsizeMax
  BY GateAssumption, Zenon DEF EnvValues
<1>. QED
  BY <1>1, GateAssumption DEF Limit, ParseEnvLimit

(* Every set of tasks is finite.                                           *)
LEMMA HoldersFinite ==
  ASSUME NEW S \in SUBSET Threads
  PROVE  IsFiniteSet(S)
  BY GateAssumption, FS_Subset

(* The initial state satisfies the inductive invariant.                    *)
LEMMA InitIInv == Init => IInv
<1> SUFFICES ASSUME Init PROVE IInv
  OBVIOUS
<1>1. TypeOK
  <2>1. batch \in [Threads -> Seq(BatchEntries)]
    BY EmptySeq DEF Init
  <2>. QED
    BY <2>1, GateAssumption DEF Init, TypeOK, Usize, ThreadStates
<1>2. \A m \in Methods : Holders(m) = {}
  BY DEF Init, Holders, HoldsPermit
<1>3. ExactAccounting
  BY <1>2, FS_EmptySet DEF Init, ExactAccounting
<1>4. CounterBounded
  BY LimitType DEF Init, CounterBounded
<1>5. QED
  BY <1>1, <1>3, <1>4 DEF Init, IInv, GateShape, InGate, SeenBelowLimit, InnerUnguarded

(* A step that neither admits nor releases a permit keeps every method's   *)
(* holders, and so the accounting and the counter bound.                   *)
LEMMA HoldersKept ==
  ASSUME IInv, TypeOK',
         inflight' = inflight,
         \A m \in Methods : Holders(m)' = Holders(m)
  PROVE  ExactAccounting' /\ CounterBounded'
  BY DEF IInv, ExactAccounting, CounterBounded

(* The steps of a task other than a successful compare_exchange and a     *)
(* release: none of them moves a counter or a permit.                      *)
Quiet(t) ==
    \/ \E m \in Methods \cup {Unguarded} : ReceiveGuarded(t, m) \/ ReceiveBypass(t, m)
    \/ \E b \in Batches : ReceiveBatch(t, b)
    \/ BypassDone(t)
    \/ BatchCall(t) \/ BatchNotification(t) \/ BatchInvalid(t)
    \/ AppendResponse(t) \/ BatchTooLarge(t) \/ FinishBatch(t)
    \/ LoadAndReject(t) \/ LoadBelowLimit(t) \/ CasFail(t)
    \/ RecordAccepted(t) \/ InnerCallEnds(t) \/ RecordReleased(t)

LEMMA QuietKeepsHolders ==
  ASSUME TypeOK, NEW t \in Threads, Quiet(t)
  PROVE  /\ inflight' = inflight
         /\ \A m \in Methods : Holders(m)' = Holders(m)
         /\ LoadAndReject(t) \/ rejected' = rejected
<1> USE DEF BatchVars
<1>1. CASE \E m \in Methods \cup {Unguarded} : ReceiveGuarded(t, m) \/ ReceiveBypass(t, m)
  BY <1>1 DEF ReceiveGuarded, ReceiveBypass, Holders, HoldsPermit, TypeOK
<1>2. CASE \E b \in Batches : ReceiveBatch(t, b)
  BY <1>2 DEF ReceiveBatch, Holders, HoldsPermit, TypeOK
<1>3. CASE BypassDone(t) \/ RecordReleased(t)
  BY <1>3 DEF BypassDone, RecordReleased, RecordInflight, Respond, Holders, HoldsPermit, TypeOK
<1>4. CASE BatchCall(t) \/ BatchNotification(t) \/ BatchInvalid(t)
  BY <1>4 DEF BatchCall, BatchNotification, BatchInvalid, Holders, HoldsPermit, TypeOK
<1>5. CASE AppendResponse(t) \/ BatchTooLarge(t) \/ FinishBatch(t)
  BY <1>5 DEF AppendResponse, BatchTooLarge, FinishBatch, Holders, HoldsPermit, TypeOK
<1>6. CASE LoadAndReject(t) \/ LoadBelowLimit(t) \/ CasFail(t)
  BY <1>6 DEF LoadAndReject, RecordRejected, LoadBelowLimit, CasFail, Respond, Holders, HoldsPermit,
              TypeOK
<1>7. CASE RecordAccepted(t) \/ InnerCallEnds(t)
  BY <1>7 DEF RecordAccepted, RecordInflight, InnerCallEnds, Holders, HoldsPermit, TypeOK
<1>. QED
  BY <1>1, <1>2, <1>3, <1>4, <1>5, <1>6, <1>7 DEF Quiet

(* The assumptions on the constants the task steps rest on, apart from the *)
(* batches.                                                                *)
LEMMA GateFacts ==
  /\ Unguarded \notin Methods
  /\ UsizeMax \in Nat \ {0}
  /\ MaxRequests \in Nat
  BY GateAssumption

(* TypeOK apart from the batch sequences, and the batch sequences: the    *)
(* provers handle the two best apart.                                      *)
TypeCore ==
    /\ pc \in [Threads -> ThreadStates]
    /\ method \in [Threads -> Methods \cup {Unguarded}]
    /\ seen \in [Threads -> Usize]
    /\ requests \in [Threads -> 0 .. MaxRequests]
    /\ inflight \in [Methods -> Usize]
    /\ gauge \in [Methods -> Usize]
    /\ rejected \in [Methods -> Nat]
    /\ inBatch \in [Threads -> BOOLEAN]
    /\ answered \in [Threads -> Nat]
    /\ reply \in [Threads -> {"None", "Batch", "TooLarge"}]

BatchTyped == batch \in [Threads -> Seq(BatchEntries)]

LEMMA TypeSplit == TypeOK <=> TypeCore /\ BatchTyped
  BY DEF TypeOK, TypeCore, BatchTyped

LEMMA TypeSplitPrimed == TypeOK' <=> TypeCore' /\ BatchTyped'
  BY DEF TypeOK, TypeCore, BatchTyped

(* The steps that leave t's batch alone keep its type.                     *)
LEMMA BatchKept ==
  ASSUME BatchTyped, NEW t \in Threads,
         \/ batch' = batch
         \/ /\ batch[t] # <<>>
            /\ batch' = [batch EXCEPT ![t] = Tail(batch[t])]
         \/ batch' = [batch EXCEPT ![t] = <<>>]
         \/ \E b \in Batches : batch' = [batch EXCEPT ![t] = b]
  PROVE  BatchTyped'
<1>1. Tail(batch[t]) \in Seq(BatchEntries) \/ batch[t] = <<>>
  BY HeadTailProperties DEF BatchTyped
<1>2. <<>> \in Seq(BatchEntries)
  BY EmptySeq
<1>. QED
  BY <1>1, <1>2, GateAssumption DEF BatchTyped

(* The remaining steps keep the types and the shape of every task.        *)
LEMMA QuietShape ==
  ASSUME IInv, NEW t \in Threads, Quiet(t)
  PROVE  TypeOK' /\ GateShape'
<1>0. TypeCore /\ BatchTyped
  BY TypeSplit DEF IInv
<1> SUFFICES TypeCore' /\ BatchTyped' /\ GateShape'
  BY TypeSplitPrimed
<1> USE <1>0, GateFacts, LimitType
        DEF IInv, TypeCore, ThreadStates, Usize, GateShape, InGate, SeenBelowLimit,
            InnerUnguarded, BatchVars
<1>1. ASSUME NEW m \in Methods \cup {Unguarded}, ReceiveGuarded(t, m)
      PROVE  TypeCore' /\ BatchTyped' /\ GateShape'
  BY <1>1, BatchKept DEF ReceiveGuarded, ClassifyMethod, FromRpcMethod
<1>2. ASSUME NEW m \in Methods \cup {Unguarded}, ReceiveBypass(t, m)
      PROVE  TypeCore' /\ BatchTyped' /\ GateShape'
  BY <1>2, BatchKept DEF ReceiveBypass
<1>3. ASSUME NEW b \in Batches, ReceiveBatch(t, b)
      PROVE  TypeCore' /\ BatchTyped' /\ GateShape'
  <2>1. ~ClassifyMethod(Unguarded)
    BY DEF ClassifyMethod, FromRpcMethod
  <2>2. BatchTyped'
    BY <1>3, BatchKept DEF ReceiveBatch
  <2>3. /\ requests' = [requests EXCEPT ![t] = requests[t] - 1]
        /\ requests[t] > 0 /\ pc[t] = "idle"
        /\ method' = [method EXCEPT ![t] = Unguarded]
        /\ UNCHANGED <<seen, inflight, gauge, rejected>>
    BY <1>3 DEF ReceiveBatch
  <2>4. CASE /\ pc' = [pc EXCEPT ![t] = "batch"]
             /\ inBatch' = [inBatch EXCEPT ![t] = TRUE]
             /\ answered' = [answered EXCEPT ![t] = 0]
             /\ reply' = reply
    BY <2>1, <2>2, <2>3, <2>4
  <2>5. CASE /\ pc' = [pc EXCEPT ![t] = "inner"]
             /\ UNCHANGED <<inBatch, answered, reply>>
    BY <2>1, <2>2, <2>3, <2>5
  <2>. QED
    BY <1>3, <2>4, <2>5 DEF ReceiveBatch
<1>4. CASE BypassDone(t)
  BY <1>4, BatchKept DEF BypassDone, Respond
<1>5. CASE BatchCall(t)
  <2>1. BatchTyped'
    BY <1>5, BatchKept DEF BatchCall
  <2>2. Head(batch[t]) \in Methods \cup {Unguarded}
    BY <1>5 DEF BatchCall
  <2>. QED
    BY <1>5, <2>1, <2>2 DEF BatchCall, ClassifyMethod, FromRpcMethod
<1>6. CASE BatchNotification(t) \/ BatchInvalid(t)
  <2>1. BatchTyped'
    BY <1>6, BatchKept DEF BatchNotification, BatchInvalid
  <2>2. /\ pc' = pc \/ pc' = [pc EXCEPT ![t] = "append"]
        /\ pc[t] = "batch"
        /\ UNCHANGED <<method, seen, requests, inflight, gauge, rejected,
                       inBatch, answered, reply>>
    BY <1>6 DEF BatchNotification, BatchInvalid
  <2>. QED
    BY <2>1, <2>2
<1>7. CASE AppendResponse(t)
  BY <1>7, BatchKept DEF AppendResponse
<1>13. CASE BatchTooLarge(t)
  BY <1>13, BatchKept DEF BatchTooLarge
<1>14. CASE FinishBatch(t)
  BY <1>14, BatchKept DEF FinishBatch
<1>8. CASE LoadAndReject(t)
  BY <1>8, BatchKept DEF LoadAndReject, RecordRejected, Respond
<1>9. CASE LoadBelowLimit(t) \/ CasFail(t)
  BY <1>9, BatchKept DEF LoadBelowLimit, CasFail
<1>10. CASE RecordAccepted(t)
  BY <1>10, BatchKept DEF RecordAccepted, RecordInflight
<1>11. CASE InnerCallEnds(t)
  BY <1>11, BatchKept DEF InnerCallEnds
<1>12. CASE RecordReleased(t)
  BY <1>12, BatchKept DEF RecordReleased, RecordInflight, Respond
<1>. QED
  BY <1>1, <1>2, <1>3, <1>4, <1>5, <1>6, <1>7, <1>8, <1>9, <1>10, <1>11, <1>12,
     <1>13, <1>14
  DEF Quiet

(* Every step of a task preserves the inductive invariant.                 *)
LEMMA StepIInv ==
  ASSUME IInv, NEW t \in Threads, Step(t)
  PROVE  IInv'
<1>0. TypeCore /\ BatchTyped
  BY TypeSplit DEF IInv
<1> USE <1>0, GateFacts, LimitType DEF IInv, TypeCore, ThreadStates, Usize, BatchVars
<1>1. CASE CasSucceed(t)
  <2>1. PICK m \in Methods : m = method[t]
    BY <1>1 DEF CasSucceed, GateShape, InGate
  <2>2. seen[t] < Limit[m] /\ inflight[m] = seen[t]
    BY <1>1, <2>1 DEF CasSucceed, GateShape, SeenBelowLimit
  <2>3. (seen[t] + 1) % (UsizeMax + 1) = seen[t] + 1
    BY <2>2
  <2>4. inflight' = [inflight EXCEPT ![m] = seen[t] + 1]
    BY <1>1, <2>1, <2>3 DEF CasSucceed
  <2>5. Holders(m)' = Holders(m) \cup {t} /\ t \notin Holders(m)
    BY <1>1, <2>1 DEF CasSucceed, Holders, HoldsPermit
  <2>6. \A mm \in Methods \ {m} : Holders(mm)' = Holders(mm)
    BY <1>1, <2>1 DEF CasSucceed, Holders, HoldsPermit
  <2>7. Cardinality(Holders(m)') = Cardinality(Holders(m)) + 1
    <3>1. IsFiniteSet(Holders(m))
      BY HoldersFinite DEF Holders
    <3>. QED
      BY <2>5, <3>1, FS_AddElement
  <2>8. TypeOK'
    <3>1. TypeCore' /\ BatchTyped'
      BY <1>1, <2>2, <2>4, BatchKept DEF CasSucceed
    <3>. QED
      BY <3>1, TypeSplitPrimed
  <2>9. ExactAccounting'
    BY <2>2, <2>4, <2>6, <2>7 DEF ExactAccounting
  <2>10. CounterBounded'
    BY <2>2, <2>4 DEF CounterBounded
  <2>11. GateShape'
    BY <1>1 DEF CasSucceed, GateShape, InGate, SeenBelowLimit, InnerUnguarded
  <2>. QED
    BY <2>8, <2>9, <2>10, <2>11
<1>2. CASE Release(t)
  <2>1. PICK m \in Methods : m = method[t]
    BY <1>2 DEF Release, GateShape, InGate
  <2>2. t \in Holders(m)
    BY <1>2, <2>1 DEF Release, Holders, HoldsPermit
  <2>3. IsFiniteSet(Holders(m))
    BY HoldersFinite DEF Holders
  <2>4. inflight[m] >= 1
    <3>1. Cardinality(Holders(m)) \in Nat /\ Cardinality(Holders(m)) # 0
      BY <2>2, <2>3, FS_EmptySet, FS_CardinalityType
    <3>. QED
      BY <3>1 DEF ExactAccounting
  <2>5. inflight' = [inflight EXCEPT ![m] = inflight[m] - 1]
       /\ seen' = [seen EXCEPT ![t] = inflight[m]]
    <3>1. (IF inflight[m] = 0 THEN 0 ELSE inflight[m] - 1) = inflight[m] - 1
      BY <2>4
    <3>. QED
      BY <1>2, <2>1, <3>1 DEF Release
  <2>6. Holders(m)' = Holders(m) \ {t}
    BY <1>2, <2>1 DEF Release, Holders, HoldsPermit
  <2>7. \A mm \in Methods \ {m} : Holders(mm)' = Holders(mm)
    BY <1>2, <2>1 DEF Release, Holders, HoldsPermit
  <2>8. Cardinality(Holders(m)') = Cardinality(Holders(m)) - 1
    BY <2>2, <2>3, <2>6, FS_RemoveElement
  <2>9. TypeOK'
    <3>1. TypeCore' /\ BatchTyped'
      BY <1>2, <2>4, <2>5, BatchKept DEF Release
    <3>. QED
      BY <3>1, TypeSplitPrimed
  <2>10. ExactAccounting'
    BY <2>5, <2>7, <2>8 DEF ExactAccounting
  <2>11. CounterBounded'
    BY <2>4, <2>5 DEF CounterBounded
  <2>12. GateShape'
    BY <1>2 DEF Release, GateShape, InGate, SeenBelowLimit, InnerUnguarded
  <2>. QED
    BY <2>9, <2>10, <2>11, <2>12
<1>3. CASE Quiet(t)
  <2>1. inflight' = inflight /\ \A m \in Methods : Holders(m)' = Holders(m)
    BY <1>3, QuietKeepsHolders
  <2>2. TypeOK' /\ GateShape'
    BY <1>3, QuietShape
  <2>. QED
    BY <2>1, <2>2, HoldersKept
<1>. QED
  BY <1>1, <1>2, <1>3 DEF Step, Quiet

(* A stuttering step preserves the inductive invariant.                    *)
LEMMA StutterIInv ==
  ASSUME IInv, UNCHANGED vars
  PROVE  IInv'
  BY DEF vars, IInv, TypeOK, ExactAccounting, CounterBounded, Holders,
         HoldsPermit, GateShape, InGate, SeenBelowLimit, InnerUnguarded

(* The inductive invariant holds in every state of every behaviour.       *)
LEMMA IInvHolds == Spec => []IInv
<1>1. IInv /\ [Next]_vars => IInv'
  BY StepIInv, StutterIInv DEF Next
<1>. QED
  BY <1>1, InitIInv, PTL DEF Spec

(* Type correctness of the gate: counters, gauges and the values tasks     *)
(* read stay within usize, for every number of tasks and methods.          *)
THEOREM TypeCorrect == Spec => []TypeOK
  BY IInvHolds, PTL DEF IInv

(* Exact accounting of try_acquire/release: under every interleaving of   *)
(* the handler tasks' load, compare_exchange_weak and fetch_sub, single    *)
(* calls and batch entries alike, each method's counter equals its number  *)
(* of live permits and stays within its limit.                             *)
THEOREM AccountingCorrect == Spec => [](ExactAccounting /\ CounterBounded)
  BY IInvHolds, PTL DEF IInv

(* The counter of every guarded method stays within its limit (so          *)
(* fetch_sub in release never wraps it), for every limit the environment   *)
(* may configure and every usize::MAX.                                     *)
THEOREM CounterBoundedCorrect == Spec => []CounterBounded
  BY AccountingCorrect, PTL

-----------------------------------------------------------------------------
(* A task running a guarded method in the inner service holds a permit.   *)
LEMMA WorkWithinHolders ==
  ASSUME IInv, NEW m \in Methods, ClassifyMethod(m)
  PROVE  InnerWork(m) \subseteq Holders(m)
  BY DEF IInv, GateShape, InnerUnguarded, InnerWork, Holders, HoldsPermit

(* The gate bounds the guarded work of the inner service: for every limit  *)
(* and every mix of single calls and batches, no more calls of a guarded   *)
(* method run in the inner service at once than its configured limit.      *)
THEOREM GuardedWorkCorrect == Spec => []GuardedWorkBounded
<1>1. IInv => GuardedWorkBounded
  <2> SUFFICES ASSUME IInv, NEW m \in Methods, ClassifyMethod(m)
               PROVE  Cardinality(InnerWork(m)) <= Limit[m]
    BY DEF GuardedWorkBounded
  <2>1. InnerWork(m) \subseteq Holders(m)
    BY WorkWithinHolders
  <2>2. IsFiniteSet(Holders(m))
    BY HoldersFinite DEF Holders
  <2>3. /\ Cardinality(InnerWork(m)) <= Cardinality(Holders(m))
        /\ Cardinality(InnerWork(m)) \in Nat
        /\ Cardinality(Holders(m)) \in Nat
    BY <2>1, <2>2, FS_Subset, FS_CardinalityType
  <2>4. Cardinality(Holders(m)) <= Limit[m]
    BY DEF IInv, ExactAccounting, CounterBounded
  <2>5. Limit[m] \in Nat
    BY LimitType, GateFacts
  <2>. QED
    BY <2>3, <2>4, <2>5
<1>. QED
  BY <1>1, IInvHolds, PTL

-----------------------------------------------------------------------------
(* The live permits, as the abstract gate's holders.                       *)
AbsHolders == [m \in Methods |-> Holders(m)]

(* The abstract gate counts holders with the same Cardinality.           *)
LEMMA GateCardinality ==
  ASSUME NEW S
  PROVE  Gate!Cardinality(S) = Cardinality(S)
  BY DEF Gate!Cardinality, Cardinality

LEMMA InitRefines == Init => Gate!Init
  BY DEF Init, Gate!Init, Holders, HoldsPermit

(* Every step of a task is a step of the abstract gate or leaves its      *)
(* holders and rejection counters alone.                                   *)
LEMMA StepRefines ==
  ASSUME IInv, NEW t \in Threads, Step(t)
  PROVE  [Gate!Next]_Gate!vars
<1>0. TypeCore
  BY TypeSplit DEF IInv
<1> USE <1>0, GateFacts, LimitType DEF TypeCore, Usize
<1>1. CASE CasSucceed(t)
  <2>1. PICK m \in Methods : m = method[t]
    BY <1>1 DEF CasSucceed, IInv, GateShape, InGate
  <2>2. Cardinality(Holders(m)) < Limit[m]
    BY <1>1, <2>1 DEF CasSucceed, IInv, GateShape, SeenBelowLimit, ExactAccounting
  <2>3. t \notin Gate!Holding
    BY <1>1 DEF CasSucceed, Gate!Holding, Holders, HoldsPermit
  <2>4. /\ Holders(m)' = Holders(m) \cup {t}
        /\ \A mm \in Methods \ {m} : Holders(mm)' = Holders(mm)
    BY <1>1, <2>1 DEF CasSucceed, Holders, HoldsPermit
  <2>5. AbsHolders' = [AbsHolders EXCEPT ![m] = @ \cup {t}]
    BY <2>4 DEF AbsHolders
  <2>6. rejected' = rejected
    BY <1>1 DEF CasSucceed
  <2>7. Gate!Cardinality(AbsHolders[m]) < Limit[m]
    <3>1. AbsHolders[m] = Holders(m)
      BY DEF AbsHolders
    <3>. QED
      BY <2>2, <3>1, GateCardinality
  <2>8. Gate!Admit(t, m)
    BY <2>3, <2>5, <2>6, <2>7 DEF Gate!Admit, AbsHolders
  <2>. QED
    BY <2>8 DEF Gate!Next
<1>2. CASE LoadAndReject(t)
  <2>1. PICK m \in Methods : m = method[t]
    BY <1>2 DEF LoadAndReject, RecordRejected, IInv, GateShape, InGate
  <2>2. Cardinality(Holders(m)) >= Limit[m]
    BY <1>2, <2>1 DEF LoadAndReject, RecordRejected, IInv, ExactAccounting
  <2>3. AbsHolders' = AbsHolders
    BY <1>2, QuietKeepsHolders DEF Quiet, AbsHolders, IInv
  <2>4. rejected' = [rejected EXCEPT ![m] = @ + 1]
    BY <1>2, <2>1 DEF LoadAndReject, RecordRejected
  <2>5. Gate!Cardinality(AbsHolders[m]) >= Limit[m]
    <3>1. AbsHolders[m] = Holders(m)
      BY DEF AbsHolders
    <3>. QED
      BY <2>2, <3>1, GateCardinality
  <2>6. Gate!Reject(m)
    BY <2>3, <2>4, <2>5 DEF Gate!Reject, AbsHolders
  <2>. QED
    BY <2>6 DEF Gate!Next
<1>3. CASE Release(t)
  <2>1. PICK m \in Methods : m = method[t]
    BY <1>3 DEF Release, IInv, GateShape, InGate
  <2>2. t \in Holders(m)
    BY <1>3, <2>1 DEF Release, Holders, HoldsPermit
  <2>3. /\ Holders(m)' = Holders(m) \ {t}
        /\ \A mm \in Methods \ {m} : Holders(mm)' = Holders(mm)
    BY <1>3, <2>1 DEF Release, Holders, HoldsPermit
  <2>4. AbsHolders' = [AbsHolders EXCEPT ![m] = @ \ {t}]
    BY <2>3 DEF AbsHolders
  <2>5. rejected' = rejected
    BY <1>3 DEF Release
  <2>6. Gate!Release(t, m)
    BY <2>2, <2>4, <2>5 DEF Gate!Release, AbsHolders
  <2>. QED
    BY <2>6 DEF Gate!Next
<1>4. CASE Quiet(t) /\ ~LoadAndReject(t)
  <2>1. AbsHolders' = AbsHolders /\ rejected' = rejected
    BY <1>4, QuietKeepsHolders DEF AbsHolders, IInv
  <2>. QED
    BY <2>1 DEF Gate!vars, AbsHolders
<1>. QED
  BY <1>1, <1>2, <1>3, <1>4 DEF Step, Quiet

(* The gate implements its contract: for every number of tasks, methods   *)
(* and limits, every behaviour of the load / compare_exchange_weak /       *)
(* fetch_sub protocol, with single calls and batches, is a behaviour of    *)
(* the atomic admission gate of LoadAdmissionGate under the mapping of     *)
(* each method to the tasks holding a permit for it.                       *)
THEOREM GateRefinement == Spec => GateContract
<1>1. IInv /\ [Next]_vars => [Gate!Next]_Gate!vars
  <2> SUFFICES ASSUME IInv, [Next]_vars PROVE [Gate!Next]_Gate!vars
    OBVIOUS
  <2>1. CASE Next
    BY <2>1, StepRefines DEF Next
  <2>2. CASE UNCHANGED vars
    BY <2>2 DEF vars, Gate!vars, Holders, HoldsPermit
  <2>. QED
    BY <2>1, <2>2
<1>. QED
  BY <1>1, InitRefines, IInvHolds, PTL DEF Spec, GateContract, Gate!Spec

=============================================================================
