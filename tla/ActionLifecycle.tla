------------------------- MODULE ActionLifecycle -------------------------
(***************************************************************************)
(* What the runtime promises about one durable action, whatever processes  *)
(* run it: a person decides it at most once, at most one worker ever holds *)
(* it, and it settles at most once.  Nothing leads back from a settled or  *)
(* rejected action, so an uncertain side effect is never repeated          *)
(* (RecoveryClass.NEVER_RECLAIM).  ActionLedger implements this.           *)
(***************************************************************************)
CONSTANTS ActionId,  \* rows of pending_actions
          WorkerId,  \* values of worker_id
          NoWorker   \* NULL in the worker_id column

VARIABLES phase,     \* [ActionId -> Phase]
          holder     \* [ActionId -> WorkerId \cup {NoWorker}]

vars == <<phase, holder>>

Settled == {"EXECUTED", "FAILED"}
Phase == {"ABSENT", "PENDING", "APPROVED", "REJECTED", "EXECUTING"} \cup Settled

Init ==
    /\ phase = [a \in ActionId |-> "ABSENT"]
    /\ holder = [a \in ActionId |-> NoWorker]

\* Every action of S leaves phase `from` for phase `to`; the others stay.
Move(S, from, to) ==
    /\ \A a \in S : phase[a] = from
    /\ phase' = [a \in ActionId |-> IF a \in S THEN to ELSE phase[a]]

Request(a) == Move({a}, "ABSENT", "PENDING") /\ UNCHANGED holder

\* One decision may cover several requests of a run.
Decide(S, verdict) == Move(S, "PENDING", verdict) /\ UNCHANGED holder

Claim(a, w) ==
    /\ Move({a}, "APPROVED", "EXECUTING")
    /\ holder' = [holder EXCEPT ![a] = w]

Finish(a, outcome) == Move({a}, "EXECUTING", outcome) /\ UNCHANGED holder

\* Claims whose owner is presumed dead settle as failures, never as approvals.
Expire(S) == Move(S, "EXECUTING", "FAILED") /\ UNCHANGED holder

Next ==
    \/ \E a \in ActionId : Request(a)
    \/ \E S \in SUBSET ActionId, verdict \in {"APPROVED", "REJECTED"} : Decide(S, verdict)
    \/ \E a \in ActionId, w \in WorkerId : Claim(a, w)
    \/ \E a \in ActionId, outcome \in Settled : Finish(a, outcome)
    \/ \E S \in SUBSET ActionId : Expire(S)

Spec == Init /\ [][Next]_vars

==========================================================================
