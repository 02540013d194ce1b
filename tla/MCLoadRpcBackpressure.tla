------------------------ MODULE MCLoadRpcBackpressure ------------------------
(***************************************************************************)
(* The admission gate for TLC: three handler tasks, two guarded methods,  *)
(* one with limit 1 (so two tasks contend for a single slot) and one with *)
(* limit 2, plus a third guarded method configured with limit 0 and the   *)
(* unguarded method, which both bypass the gate.  A usize::MAX of 3 is    *)
(* enough to observe a wrap: the limit 2 leaves room for the value 3.     *)
(***************************************************************************)
EXTENDS LoadRpcBackpressure

CONSTANTS t1, t2, t3, sendRaw, sendRawSync, sendRawConditional, other

MCThreads == {t1, t2, t3}

(* Two tasks, for the batch runs.                                          *)
MCTwoThreads == {t1, t2}
MCMethods == {sendRaw, sendRawSync, sendRawConditional}
(* The limits come from the environment: sendRaw keeps its default 2 (the *)
(* variable is unset), sendRawSync is set to 1 over a default of 3, and    *)
(* sendRawConditional holds text that does not parse, so its default 0     *)
(* applies and disables its gate.                                          *)
MCEnv == [m \in MCMethods |->
            CASE m = sendRaw -> [status |-> "NotPresent", value |-> 0]
              [] m = sendRawSync -> [status |-> "Parsed", value |-> 1]
              [] OTHER -> [status |-> "Unparsable", value |-> 0]]

(* BATCH_RESPONSE_LIMIT_MB is set to 1 (MB), two units of response size.    *)
MCBatchLimitEnv == [status |-> "Parsed", value |-> 1]
MCDefaultLimit == [m \in MCMethods |->
                     CASE m = sendRaw -> 2
                       [] m = sendRawSync -> 3
                       [] OTHER -> 0]

(* Single calls only.                                                      *)
MCNoBatches == {}

(* Batches: two calls that contend for sendRawSync's single slot with the  *)
(* other task's calls; a batch whose only call bypasses the gate; one that *)
(* mixes an unparsable entry, a notification and two guarded calls, whose  *)
(* third response overflows a limit of two.                                *)
MCBatches == {<<sendRawSync, sendRaw>>,
              <<other, "Notification">>,
              <<"Invalid", sendRawSync, "Notification", sendRaw>>}
=============================================================================
