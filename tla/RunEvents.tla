----------------------------- MODULE RunEvents -----------------------------
(***************************************************************************)
(* One run as its clients watch it: a process with a tracker of the plan    *)
(* and one with a coordinator of its units, and the API with its streams.   *)
(* None of them waits for another or reads another's state: they share the  *)
(* event log, and what a coordinator writes there is OthersRecord to the    *)
(* streams.  A behaviour therefore moves one of the parts.                  *)
(***************************************************************************)
EXTENDS PlanTracker, Delegation, EventStream

VARIABLE part       \* "steps", "units", "streams"

eventVars == <<trackerVars, delegationVars, streamVars, part>>

EventsInit ==
    /\ DelegationInit /\ StreamInit /\ TrackerInit
    /\ plan = contract.plan
    /\ part \in {"steps", "units", "streams"}
    /\ part = "streams" => contract = CHOOSE c \in Contract : TRUE

CoordinatorStep ==
    /\ part = "units" /\ DelegationNext
    /\ UNCHANGED <<trackerVars, api, queue, opened, sent, pushes, published, taken, part>>

TrackerStep ==
    /\ part = "steps" /\ TrackerNext
    /\ UNCHANGED <<delegationVars, streamVars, part>>

WatchStep ==
    /\ part = "streams" /\ StreamNext
    /\ UNCHANGED <<trackerVars, contract, coordinator, made, unit, busy, missed, part>>

EventsNext == CoordinatorStep \/ TrackerStep \/ WatchStep

EventsSpec == EventsInit /\ [][EventsNext]_eventVars

EventsTypeOK ==
    TrackerTypeOK /\ DelegationTypeOK /\ StreamTypeOK /\ part \in {"steps", "units", "streams"}
==========================================================================
