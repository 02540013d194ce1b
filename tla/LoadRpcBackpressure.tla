------------------------- MODULE LoadRpcBackpressure -------------------------
(***************************************************************************)
(* The RPC admission gate of load-reth (src/src/rpc/backpressure.rs): per  *)
(* guarded method an AtomicUsize in-flight counter and a static limit,     *)
(* shared by every RPC handler task.                                       *)
(*                                                                         *)
(* Each thread is a handler task serving requests one after the other: a  *)
(* single call, or a batch whose entries it serves in sequence (each call  *)
(* through call(), its response appended to a size-limited batch           *)
(* response, with an early return once the limit is passed).  The limits   *)
(* are read from the environment at start-up.  Every atomic operation of   *)
(* the code is one step:                                                   *)
(*   try_acquire: load, then compare_exchange_weak (which may fail         *)
(*                spuriously), retried from the load on failure;           *)
(*   the accepted metrics (gauge set to inflight + 1);                     *)
(*   the guarded inner call, whose future ends by success, error or drop;  *)
(*   release (InflightPermit::drop): fetch_sub, with store(0) if the       *)
(*                previous value was 0, then the gauge set to prev - 1.    *)
(* The increment wraps modulo usize::MAX + 1, as an AtomicUsize does.     *)
(***************************************************************************)
EXTENDS Naturals, FiniteSets, Sequences

CONSTANTS
    Threads,        \* RPC handler tasks
    Methods,        \* the GuardedMethod variants
    Env,            \* Env[m]: the limit variable of m in the environment
    DefaultLimit,   \* DefaultLimit[m]: the DEFAULT_..._LIMIT of m
    BatchLimitEnv,  \* the batch response limit variable, in MB
    DefaultBatchMb, \* DEFAULT_BATCH_RESPONSE_LIMIT_MB
    MiB,            \* 1024 * 1024, in response size units
    Unguarded,      \* the name of any method the gate does not guard
    Batches,        \* the batches a client may send: sequences of entries
    UsizeMax,       \* usize::MAX
    MaxRequests     \* requests (calls or batches) each task serves in a run

(* A variable that is unset, is not unicode, or holds text that does not   *)
(* parse as a usize (its value is then of no use), or one that parses.     *)
EnvValues == [status: {"NotPresent", "NotUnicode", "Unparsable", "Parsed"},
              value: 0 .. UsizeMax]

(* A batch entry: a call of a method, a notification, or an entry that    *)
(* failed to parse.                                                        *)
BatchEntries == Methods \cup {Unguarded, "Notification", "Invalid"}

ASSUME GateAssumption ==
    /\ IsFiniteSet(Threads)
    /\ Unguarded \notin Methods
    /\ UsizeMax \in Nat \ {0}
    /\ Env \in [Methods -> EnvValues]
    /\ DefaultLimit \in [Methods -> 0 .. UsizeMax]
    /\ BatchLimitEnv \in EnvValues /\ DefaultBatchMb \in 0 .. UsizeMax
    /\ MiB \in Nat \ {0}
    /\ Batches \subseteq Seq(BatchEntries)
    /\ MaxRequests \in Nat

(* parse_env_limit: the parsed value, or the default when the variable is  *)
(* unset, unreadable or not a usize.                                       *)
ParseEnvLimit(var, default) == IF var.status = "Parsed" THEN var.value ELSE default

(* parse_env_mb_as_bytes: megabytes to bytes, saturating at usize::MAX.    *)
ParseEnvMbAsBytes(var, defaultMb) ==
    LET mb == ParseEnvLimit(var, defaultMb)
    IN  IF mb * MiB > UsizeMax THEN UsizeMax ELSE mb * MiB

(* LoadRpcBackpressureConfig::from_env and limit_for.                      *)
Limit == [m \in Methods |-> ParseEnvLimit(Env[m], DefaultLimit[m])]

BatchResponseLimit == ParseEnvMbAsBytes(BatchLimitEnv, DefaultBatchMb)

VARIABLES
    pc,             \* pc[t]: where task t is in call() / try_acquire / release
    method,         \* method[t]: the method of t's current call
    seen,           \* seen[t]: the value t's last load or fetch_sub returned
    requests,       \* requests[t]: requests t has still to serve
    inflight,       \* inflight[m]: MethodGate.inflight of m
    gauge,          \* gauge[m]: the load_reth_rpc_backpressure_inflight gauge
    rejected,       \* rejected[m]: the rejected-requests counter of m
    batch,          \* batch[t]: the entries of t's batch still to serve
    inBatch,        \* inBatch[t]: t's current call is an entry of a batch
    answered,       \* answered[t]: the size of t's batch response so far
    reply           \* reply[t]: what t's last guarded batch returned

vars == <<pc, method, seen, requests, inflight, gauge, rejected, batch,
          inBatch, answered, reply>>

BatchVars == <<batch, inBatch, answered, reply>>

Usize == 0 .. UsizeMax

ThreadStates == {"idle", "inner", "load", "cas", "acquired", "call",
                 "release", "released", "batch", "append"}

(* GuardedMethod::from_rpc_method: one of the guarded method names.        *)
FromRpcMethod(m) == m \in Methods

(* classify_method: a guarded method whose limit is not zero.              *)
ClassifyMethod(m) == FromRpcMethod(m) /\ Limit[m] > 0

(* The permit of t is live: from the successful compare_exchange until     *)
(* its drop's fetch_sub.                                                   *)
HoldsPermit(t) == pc[t] \in {"acquired", "call", "release"}

Holders(m) == {t \in Threads : HoldsPermit(t) /\ method[t] = m}

-----------------------------------------------------------------------------
Init ==
    /\ pc = [t \in Threads |-> "idle"]
    /\ method = [t \in Threads |-> Unguarded]
    /\ seen = [t \in Threads |-> 0]
    /\ requests = [t \in Threads |-> MaxRequests]
    /\ inflight = [m \in Methods |-> 0]
    /\ gauge = [m \in Methods |-> 0]
    /\ rejected = [m \in Methods |-> 0]
    /\ batch = [t \in Threads |-> <<>>]
    /\ inBatch = [t \in Threads |-> FALSE]
    /\ answered = [t \in Threads |-> 0]
    /\ reply = [t \in Threads |-> "None"]

(* record_rejected: the method's rejected counter is incremented.           *)
RecordRejected(m) == rejected' = [rejected EXCEPT ![m] = @ + 1]

(* record_inflight: the method's in-flight gauge is set to v.              *)
RecordInflight(m, v) == gauge' = [gauge EXCEPT ![m] = v]

(* call() has its response: a single request is answered with it, an entry *)
(* of a batch appends it to the batch response.                            *)
Respond(t) == pc' = [pc EXCEPT ![t] = IF inBatch[t] THEN "append" ELSE "idle"]

(* call() receives a request for a method the gate guards.                 *)
ReceiveGuarded(t, m) ==
    /\ pc[t] = "idle" /\ requests[t] > 0
    /\ ClassifyMethod(m)
    /\ pc' = [pc EXCEPT ![t] = "load"]
    /\ method' = [method EXCEPT ![t] = m]
    /\ requests' = [requests EXCEPT ![t] = @ - 1]
    /\ UNCHANGED <<seen, inflight, gauge, rejected, BatchVars>>

(* call() receives a request it passes straight to the inner service.      *)
ReceiveBypass(t, m) ==
    /\ pc[t] = "idle" /\ requests[t] > 0
    /\ ~ClassifyMethod(m)
    /\ pc' = [pc EXCEPT ![t] = "inner"]
    /\ method' = [method EXCEPT ![t] = m]
    /\ requests' = [requests EXCEPT ![t] = @ - 1]
    /\ UNCHANGED <<seen, inflight, gauge, rejected, BatchVars>>

BypassDone(t) ==
    /\ pc[t] = "inner"
    /\ Respond(t)
    /\ UNCHANGED <<method, seen, requests, inflight, gauge, rejected, BatchVars>>

(* batch(): a batch with a call the gate guards is served entry by entry;  *)
(* any other goes whole to the inner service's batch().                    *)
HasGuardedCall(b) == \E i \in 1 .. Len(b) : ClassifyMethod(b[i])

ReceiveBatch(t, b) ==
    /\ pc[t] = "idle" /\ requests[t] > 0
    /\ requests' = [requests EXCEPT ![t] = @ - 1]
    /\ method' = [method EXCEPT ![t] = Unguarded]
    /\ IF HasGuardedCall(b)
       THEN /\ pc' = [pc EXCEPT ![t] = "batch"]
            /\ batch' = [batch EXCEPT ![t] = b]
            /\ inBatch' = [inBatch EXCEPT ![t] = TRUE]
            /\ answered' = [answered EXCEPT ![t] = 0]
            /\ UNCHANGED reply
       ELSE /\ pc' = [pc EXCEPT ![t] = "inner"]
            /\ UNCHANGED BatchVars
    /\ UNCHANGED <<seen, inflight, gauge, rejected>>

(* Mutant: the entry is sent to the inner service's call(), past the gate. *)
BatchCallUngated(t) ==
    /\ pc[t] = "batch" /\ batch[t] # <<>>
    /\ LET m == Head(batch[t])
       IN  /\ m \in Methods \cup {Unguarded}
           /\ pc' = [pc EXCEPT ![t] = "inner"]
           /\ method' = [method EXCEPT ![t] = m]
    /\ batch' = [batch EXCEPT ![t] = Tail(@)]
    /\ UNCHANGED <<seen, requests, inflight, gauge, rejected, inBatch, answered,
                   reply>>

(* The next entry is a call: this.call(call), through the gate.            *)
BatchCall(t) ==
    /\ pc[t] = "batch" /\ batch[t] # <<>>
    /\ LET m == Head(batch[t])
       IN  /\ m \in Methods \cup {Unguarded}
           /\ pc' = [pc EXCEPT ![t] = IF ClassifyMethod(m) THEN "load" ELSE "inner"]
           /\ method' = [method EXCEPT ![t] = m]
    /\ batch' = [batch EXCEPT ![t] = Tail(@)]
    /\ UNCHANGED <<seen, requests, inflight, gauge, rejected, inBatch, answered,
                   reply>>

(* A notification goes to the inner service, ungated, with no response;   *)
(* an entry that failed to parse is answered with an error response.       *)
BatchNotification(t) ==
    /\ pc[t] = "batch" /\ batch[t] # <<>>
    /\ Head(batch[t]) = "Notification"
    /\ batch' = [batch EXCEPT ![t] = Tail(@)]
    /\ UNCHANGED <<pc, method, seen, requests, inflight, gauge, rejected,
                   inBatch, answered, reply>>

BatchInvalid(t) ==
    /\ pc[t] = "batch" /\ batch[t] # <<>>
    /\ Head(batch[t]) = "Invalid"
    /\ pc' = [pc EXCEPT ![t] = "append"]
    /\ batch' = [batch EXCEPT ![t] = Tail(@)]
    /\ UNCHANGED <<method, seen, requests, inflight, gauge, rejected,
                   inBatch, answered, reply>>

(* batch_rp.append(rp) within the batch response limit (each response is  *)
(* one unit of size).                                                      *)
AppendResponse(t) ==
    /\ pc[t] = "append"
    /\ answered[t] + 1 <= BatchResponseLimit
    /\ pc' = [pc EXCEPT ![t] = "batch"]
    /\ answered' = [answered EXCEPT ![t] = @ + 1]
    /\ UNCHANGED <<method, seen, requests, inflight, gauge, rejected,
                   batch, inBatch, reply>>

(* append fails: the batch returns the error at once, and the entries not *)
(* served yet are never run.                                               *)
BatchTooLarge(t) ==
    /\ pc[t] = "append"
    /\ answered[t] + 1 > BatchResponseLimit
    /\ pc' = [pc EXCEPT ![t] = "idle"]
    /\ batch' = [batch EXCEPT ![t] = <<>>]
    /\ inBatch' = [inBatch EXCEPT ![t] = FALSE]
    /\ reply' = [reply EXCEPT ![t] = "TooLarge"]
    /\ UNCHANGED <<method, seen, requests, inflight, gauge, rejected, answered>>

(* Every entry served: the batch response is returned.  (The notification *)
(* response, for an empty response after a notification, is never the     *)
(* answer here: the guarded call's response was appended.)                *)
FinishBatch(t) ==
    /\ pc[t] = "batch" /\ batch[t] = <<>>
    /\ pc' = [pc EXCEPT ![t] = "idle"]
    /\ inBatch' = [inBatch EXCEPT ![t] = FALSE]
    /\ reply' = [reply EXCEPT ![t] = "Batch"]
    /\ UNCHANGED <<method, seen, requests, inflight, gauge, rejected,
                   batch, answered>>

(* Mutant: the inner call's error path returns without dropping the       *)
(* permit.                                                                 *)
InnerCallEndsLeak(t) ==
    /\ pc[t] = "call"
    /\ Respond(t)
    /\ UNCHANGED <<method, seen, requests, inflight, gauge, rejected, BatchVars>>

(* Mutant: rejection one below the limit.                                  *)
LoadAndRejectEarly(t) ==
    /\ pc[t] = "load"
    /\ inflight[method[t]] + 1 >= Limit[method[t]]
    /\ rejected' = [rejected EXCEPT ![method[t]] = @ + 1]
    /\ Respond(t)
    /\ seen' = [seen EXCEPT ![t] = inflight[method[t]]]
    /\ UNCHANGED <<method, requests, inflight, gauge, BatchVars>>

(* Mutant: admission while the counter equals the limit.                   *)
LoadBelowLimitOffByOne(t) ==
    /\ pc[t] = "load"
    /\ inflight[method[t]] <= Limit[method[t]]
    /\ pc' = [pc EXCEPT ![t] = "cas"]
    /\ seen' = [seen EXCEPT ![t] = inflight[method[t]]]
    /\ UNCHANGED <<method, requests, inflight, gauge, rejected, BatchVars>>

(* Mutant: a load followed by a plain store instead of compare_exchange.   *)
CasSucceedBlind(t) ==
    /\ pc[t] = "cas"
    /\ inflight' = [inflight EXCEPT ![method[t]] = (seen[t] + 1) % (UsizeMax + 1)]
    /\ pc' = [pc EXCEPT ![t] = "acquired"]
    /\ UNCHANGED <<method, seen, requests, gauge, rejected, BatchVars>>

(* try_acquire: the load; at or above the limit the rejection is recorded *)
(* and the request answered with the overload response, at once.           *)
LoadAndReject(t) ==
    /\ pc[t] = "load"
    /\ inflight[method[t]] >= Limit[method[t]]
    /\ RecordRejected(method[t])
    /\ Respond(t)
    /\ seen' = [seen EXCEPT ![t] = inflight[method[t]]]
    /\ UNCHANGED <<method, requests, inflight, gauge, BatchVars>>

LoadBelowLimit(t) ==
    /\ pc[t] = "load"
    /\ inflight[method[t]] < Limit[method[t]]
    /\ pc' = [pc EXCEPT ![t] = "cas"]
    /\ seen' = [seen EXCEPT ![t] = inflight[method[t]]]
    /\ UNCHANGED <<method, requests, inflight, gauge, rejected, BatchVars>>

(* compare_exchange_weak(seen, seen + 1) succeeds.                         *)
CasSucceed(t) ==
    /\ pc[t] = "cas"
    /\ inflight[method[t]] = seen[t]
    /\ inflight' = [inflight EXCEPT ![method[t]] = (seen[t] + 1) % (UsizeMax + 1)]
    /\ pc' = [pc EXCEPT ![t] = "acquired"]
    /\ UNCHANGED <<method, seen, requests, gauge, rejected, BatchVars>>

(* It fails, because the counter moved or spuriously: back to the load.    *)
CasFail(t) ==
    /\ pc[t] = "cas"
    /\ pc' = [pc EXCEPT ![t] = "load"]
    /\ UNCHANGED <<method, seen, requests, inflight, gauge, rejected, BatchVars>>

(* record_accepted and record_inflight(inflight + 1), then the permit is   *)
(* returned and the inner call starts.                                     *)
RecordAccepted(t) ==
    /\ pc[t] = "acquired"
    /\ RecordInflight(method[t], seen[t] + 1)
    /\ pc' = [pc EXCEPT ![t] = "call"]
    /\ UNCHANGED <<method, seen, requests, inflight, rejected, BatchVars>>

(* The inner call's future completes, fails or is dropped: in every case  *)
(* the permit is dropped.                                                  *)
InnerCallEnds(t) ==
    /\ pc[t] = "call"
    /\ pc' = [pc EXCEPT ![t] = "release"]
    /\ UNCHANGED <<method, seen, requests, inflight, gauge, rejected, BatchVars>>

(* release: fetch_sub(1), and store(0) when the previous value was 0.     *)
(* The code does these as two atomic operations, with the wrapped value    *)
(* visible between them.  ExactAccounting (the counter equals the permits *)
(* alive, and a releasing task holds one) shows prev = 0 never occurs, so  *)
(* the model takes the reset in the same step.                             *)
Release(t) ==
    /\ pc[t] = "release"
    /\ LET m == method[t]
           prev == inflight[m]
       IN  /\ inflight' = [inflight EXCEPT ![m] = IF prev = 0 THEN 0 ELSE prev - 1]
           /\ seen' = [seen EXCEPT ![t] = prev]
    /\ pc' = [pc EXCEPT ![t] = "released"]
    /\ UNCHANGED <<method, requests, gauge, rejected, BatchVars>>

(* release: record_inflight(prev.saturating_sub(1)); call() returns the    *)
(* inner response.                                                         *)
RecordReleased(t) ==
    /\ pc[t] = "released"
    /\ RecordInflight(method[t], IF seen[t] = 0 THEN 0 ELSE seen[t] - 1)
    /\ Respond(t)
    /\ UNCHANGED <<method, seen, requests, inflight, rejected, BatchVars>>

Step(t) ==
    \/ \E m \in Methods \cup {Unguarded} : ReceiveGuarded(t, m) \/ ReceiveBypass(t, m)
    \/ \E b \in Batches : ReceiveBatch(t, b)
    \/ BypassDone(t)
    \/ BatchCall(t) \/ BatchNotification(t) \/ BatchInvalid(t)
    \/ AppendResponse(t) \/ BatchTooLarge(t) \/ FinishBatch(t)
    \/ LoadAndReject(t) \/ LoadBelowLimit(t)
    \/ CasSucceed(t) \/ CasFail(t)
    \/ RecordAccepted(t) \/ InnerCallEnds(t)
    \/ Release(t) \/ RecordReleased(t)

Next == \E t \in Threads : Step(t)

(* Tasks are polled by the runtime until they finish (weak fairness per    *)
(* task); a compare_exchange that keeps finding its expected value is not  *)
(* failed spuriously forever (strong fairness of its success).             *)
Spec ==
    /\ Init /\ [][Next]_vars
    /\ \A t \in Threads : WF_vars(Step(t)) /\ SF_vars(CasSucceed(t))

-----------------------------------------------------------------------------
TypeOK ==
    /\ pc \in [Threads -> ThreadStates]
    /\ method \in [Threads -> Methods \cup {Unguarded}]
    /\ seen \in [Threads -> Usize]
    /\ requests \in [Threads -> 0 .. MaxRequests]
    /\ inflight \in [Methods -> Usize]
    /\ gauge \in [Methods -> Usize]
    /\ rejected \in [Methods -> Nat]
    /\ batch \in [Threads -> Seq(BatchEntries)]
    /\ inBatch \in [Threads -> BOOLEAN]
    /\ answered \in [Threads -> Nat]
    /\ reply \in [Threads -> {"None", "Batch", "TooLarge"}]

(* Exact accounting: every method's counter equals the number of live     *)
(* permits for it, whatever the interleaving of the load/compare_exchange *)
(* retry loops and the releases of concurrent tasks: no increment is lost  *)
(* and every admitted call releases once.                                  *)
ExactAccounting ==
    \A m \in Methods : inflight[m] = Cardinality(Holders(m))

(* The counter never exceeds the limit, so never wraps: in particular no   *)
(* release ever finds it at zero.                                          *)
CounterBounded ==
    \A m \in Methods : inflight[m] <= Limit[m]

(* The gate keeps its contract (LoadAdmissionGate): seen through the live *)
(* permits and the rejected-requests counters, every step of the load /    *)
(* compare_exchange loops, the releases and the batches of all tasks is a  *)
(* step of an atomic gate, which admits a call only below its method's     *)
(* limit, counts a rejection only at the limit, and takes back only a      *)
(* permit that was given.                                                  *)
Gate == INSTANCE LoadAdmissionGate WITH holders <- [m \in Methods |-> Holders(m)]

GateContract == Gate!Spec

(* The gate bounds the work it guards: at no time do more calls of a      *)
(* guarded method run in the inner service than its limit, whether they    *)
(* came as single requests or as entries of batches, which call() serves   *)
(* one by one through the gate.                                            *)
InnerWork(m) == {t \in Threads : pc[t] \in {"call", "inner"} /\ method[t] = m}

GuardedWorkBounded ==
    \A m \in Methods : ClassifyMethod(m) => Cardinality(InnerWork(m)) <= Limit[m]

(* Once the tasks have served their calls, every counter is back at zero:  *)
(* no permit leaks on any exit path.                                       *)
CountersDrain ==
    <>[](\A m \in Methods : inflight[m] = 0)

(* When no call is inside the gate, the in-flight gauge of every method    *)
(* shows the counter (the metric is documented as the in-flight level).    *)
Quiescent == \A t \in Threads : pc[t] \in {"idle", "inner"}

GaugeMatchesWhenQuiescent ==
    Quiescent => \A m \in Methods : gauge[m] = inflight[m]

=============================================================================
