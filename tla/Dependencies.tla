--------------------------- MODULE Dependencies ---------------------------
(* What PlanTracker and DelegationCoordinator both do with things that      *)
(* depend on one another: needs[i] is the set of what number i depends on.  *)
EXTENDS Naturals, Sequences

StepStatus == {"PENDING", "ACTIVE", "COMPLETED", "FAILED", "SKIPPED"}

Untouched(needs) == [i \in DOMAIN needs |-> "PENDING"]

Known(needs) == \A i \in DOMAIN needs : needs[i] \subseteq (DOMAIN needs \ {i})

\* Faulty variant: the search stops at the things one depends on directly.
MutualPair(needs) ==
    \E i \in DOMAIN needs, j \in DOMAIN needs : i \in needs[j] /\ j \in needs[i]

\* Some things depend on one another all around: visit comes back to where it is.
Cyclic(needs) ==
    \E ring \in SUBSET DOMAIN needs :
        ring # {} /\ \A i \in ring : needs[i] \cap ring # {}

\* Faulty variant: a failed dependency counts as done.
ReadyWhenSettled(needs, status) ==
    {i \in DOMAIN needs : /\ status[i] = "PENDING"
                          /\ \A d \in needs[i] : status[d] \in {"COMPLETED", "FAILED"}}

Ready(needs, status) ==
    {i \in DOMAIN needs : /\ status[i] = "PENDING"
                          /\ \A d \in needs[i] : status[d] = "COMPLETED"}

\* The first that is ready, in the order in which they were given.
IsNext(needs, status, i) ==
    /\ \A j \in DOMAIN needs : status[j] # "ACTIVE"
    /\ i \in Ready(needs, status)
    /\ \A j \in Ready(needs, status) : i <= j
==========================================================================
