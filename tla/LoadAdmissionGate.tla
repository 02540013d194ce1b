------------------------- MODULE LoadAdmissionGate -------------------------
(***************************************************************************)
(* What the RPC admission gate promises (spec section 4.4), as an atomic   *)
(* gate: per guarded method, a set of tasks that hold a permit, admitted   *)
(* one at a time only while fewer than the method's limit hold one; a      *)
(* request refused only when the limit is reached, and counted; a permit   *)
(* given back only by its holder.  A task holds at most one permit.        *)
(***************************************************************************)
EXTENDS Naturals, FiniteSets

CONSTANTS Threads, Methods, Limit

VARIABLES
    holders,        \* holders[m]: the tasks holding a permit for m
    rejected        \* rejected[m]: the requests for m refused so far

vars == <<holders, rejected>>

Holding == UNION {holders[m] : m \in Methods}

Init ==
    /\ holders = [m \in Methods |-> {}]
    /\ rejected = [m \in Methods |-> 0]

Admit(t, m) ==
    /\ t \notin Holding
    /\ Cardinality(holders[m]) < Limit[m]
    /\ holders' = [holders EXCEPT ![m] = @ \cup {t}]
    /\ UNCHANGED rejected

Reject(m) ==
    /\ Cardinality(holders[m]) >= Limit[m]
    /\ rejected' = [rejected EXCEPT ![m] = @ + 1]
    /\ UNCHANGED holders

Release(t, m) ==
    /\ t \in holders[m]
    /\ holders' = [holders EXCEPT ![m] = @ \ {t}]
    /\ UNCHANGED rejected

Next ==
    \E t \in Threads, m \in Methods : Admit(t, m) \/ Reject(m) \/ Release(t, m)

Spec == Init /\ [][Next]_vars

(* At most the limit's worth of permits are live for every method.         *)
WithinLimit == \A m \in Methods : Cardinality(holders[m]) <= Limit[m]

=============================================================================
