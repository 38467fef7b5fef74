---------------------------- MODULE PlanTracker ----------------------------
(***************************************************************************)
(* PlanTracker: the progress of one AgentPlan.  plan[i] is depends_on of    *)
(* the i-th step of the plan, whose number is its id; unknown ids and loops *)
(* are possible, two steps of one id are not modelled.                      *)
(***************************************************************************)
EXTENDS Dependencies

CONSTANT Plan       \* plans a model may propose: sequences of sets of ids

VARIABLES
    plan,
    tracker,        \* has it been made: "none", "refused", "made"
    step            \* _status

trackerVars == <<plan, tracker, step>>

TrackerInit ==
    /\ plan \in Plan
    /\ tracker = "none"
    /\ step = Untouched(plan)

--------------------------------------------------------------------------
SoundPlan(needs) == Known(needs) /\ ~Cyclic(needs)

MakeTracker ==
    /\ tracker = "none"
    /\ tracker' = IF SoundPlan(plan) THEN "made" ELSE "refused"
    /\ UNCHANGED <<plan, step>>

\* Process and tracker are gone; a new tracker knows nothing of the old one.
LoseTracker ==
    /\ tracker = "made"
    /\ tracker' = "none"
    /\ step' = Untouched(plan)
    /\ UNCHANGED plan

ActivateNext ==
    /\ tracker = "made"
    /\ \E i \in DOMAIN plan :
          /\ IsNext(plan, step, i)
          /\ step' = [step EXCEPT ![i] = "ACTIVE"]
    /\ UNCHANGED <<plan, tracker>>

\* _transition: only an active step can be resolved.
Resolve(i, status) ==
    /\ tracker = "made" /\ step[i] = "ACTIVE"
    /\ step' = [step EXCEPT ![i] = status]
    /\ UNCHANGED <<plan, tracker>>

MarkCompleted(i) == Resolve(i, "COMPLETED")
MarkFailed(i)    == Resolve(i, "FAILED")
MarkSkipped(i)   == Resolve(i, "SKIPPED") /\ \A d \in plan[i] : step[d] = "COMPLETED"

TrackerNext ==
    \/ MakeTracker \/ LoseTracker \/ ActivateNext
    \/ \E i \in DOMAIN plan : MarkCompleted(i) \/ MarkFailed(i) \/ MarkSkipped(i)

TrackerSpec == TrackerInit /\ [][TrackerNext]_trackerVars

--------------------------------------------------------------------------
(* Properties                                                              *)

TrackerTypeOK ==
    /\ plan \in Plan
    /\ tracker \in {"none", "refused", "made"}
    /\ step \in [DOMAIN plan -> StepStatus]

IsComplete == \A i \in DOMAIN plan : step[i] \in {"COMPLETED", "SKIPPED"}

(* A tracker from which activate_next gets nothing, with steps to do and    *)
(* none active, has a failed or skipped step that one of them waits for:    *)
(* it never stalls by itself, whatever plan the model proposed.  Such a     *)
(* step waits for ever: is_complete takes SKIPPED for done,                 *)
(* _dependencies_completed does not (plan_tracker.py:46, 106).              *)
StallHasACause ==
    (/\ tracker = "made" /\ ~IsComplete
     /\ \A i \in DOMAIN plan : step[i] # "ACTIVE"
     /\ Ready(plan, step) = {}
     /\ \E i \in DOMAIN plan : step[i] = "PENDING")
    => \E i \in DOMAIN plan :
          step[i] = "PENDING" /\ \E d \in plan[i] : step[d] \in {"FAILED", "SKIPPED"}
==========================================================================
