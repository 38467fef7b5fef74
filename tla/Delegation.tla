---------------------------- MODULE Delegation ----------------------------
(***************************************************************************)
(* DelegationCoordinator: it validates a contract, releases one unit at a   *)
(* time to a specialist, admits verified evidence only, and writes each     *)
(* step to the event log, from which GET /runs/{id}/delegation rebuilds the *)
(* progress.  A coordinator lives in one process; after a crash another one *)
(* starts from the beginning.                                               *)
(***************************************************************************)
EXTENDS Dependencies, EventLog

(* A contract: plan[i] is depends_on of plan step i; unit u is for plan     *)
(* step serves[u] and depends on the units needs[u]; capped says that ids,  *)
(* number, retries, tool calls, model turns and tools are within the        *)
(* authority.                                                               *)
CONSTANTS
    Contract,
    MaxCoordinators     \* bound: coordinators made for the run

ASSUME DelegationConstants == MaxCoordinators \in Nat

VARIABLES
    contract,
    coordinator,        \* "none", "up"
    made,               \* coordinators so far, for the bound
    unit,               \* _status
    busy,               \* a specialist is at work, execute_next awaits it
    missed              \* units whose last change of status is not in the log

delegationVars == <<contract, coordinator, made, unit, busy, missed, log>>

Unit  == DOMAIN contract.needs
Needs == contract.needs

DelegationInit ==
    /\ LogInit
    /\ contract \in Contract
    /\ coordinator = "none" /\ made = 0
    /\ unit = Untouched(Needs)
    /\ busy = FALSE
    /\ missed = {}

--------------------------------------------------------------------------
(* __init__ and _validate_contract                                         *)

\* Units of directly dependent plan steps depend on one another likewise.
FollowsPlan(c) ==
    \A u, v \in DOMAIN c.needs : c.serves[v] \in c.plan[c.serves[u]] => v \in c.needs[u]

SoundContract(c) ==
    /\ DOMAIN c.needs # {} /\ c.capped
    /\ \A u \in DOMAIN c.needs : c.serves[u] \in DOMAIN c.plan
    /\ \A u, v \in DOMAIN c.needs : c.serves[u] = c.serves[v] => u = v
    /\ Known(c.needs) /\ FollowsPlan(c)
    /\ ~Cyclic(c.needs)

OpenCoordinator ==
    /\ coordinator = "none" /\ made < MaxCoordinators
    /\ SoundContract(contract)
    /\ Record("plan_persisted", NoUnit)
    /\ coordinator' = "up" /\ made' = made + 1
    /\ unit' = Untouched(Needs) /\ missed' = {}
    /\ UNCHANGED <<contract, busy>>

\* DelegationError; the contract, or a plan or event that cannot be stored.
RefuseContract ==
    /\ coordinator = "none" /\ made < MaxCoordinators
    /\ made' = made + 1
    /\ UNCHANGED <<contract, coordinator, unit, busy, missed, log>>

--------------------------------------------------------------------------
(* execute_next; a second call meanwhile is refused and changes nothing    *)

\* The new status of u and its event; _record raises when the run or the
\* database is not there, after the status has changed.
Enter(u, status, type) ==
    /\ unit' = [unit EXCEPT ![u] = status]
    /\ \/ Record(type, u) /\ missed' = missed \ {u} /\ busy' = (status = "ACTIVE")
       \/ missed' = missed \cup {u} /\ busy' = FALSE /\ UNCHANGED log
    /\ UNCHANGED <<contract, coordinator, made>>

\* Faulty variant: a unit that was given up on does not count as active.
ReleaseAnother(u) ==
    /\ coordinator = "up" /\ ~busy
    /\ u \in Ready(Needs, unit) /\ \A v \in Ready(Needs, unit) : u <= v
    /\ Enter(u, "ACTIVE", "unit_started")

ReleaseUnit(u) ==
    /\ coordinator = "up" /\ ~busy /\ IsNext(Needs, unit, u)
    /\ Enter(u, "ACTIVE", "unit_started")

AdmitEvidence(u) ==
    /\ busy /\ unit[u] = "ACTIVE"
    /\ Enter(u, "COMPLETED", "unit_completed")

\* The specialist raises, or what it returns is not verified.
FailUnit(u) ==
    /\ busy /\ unit[u] = "ACTIVE"
    /\ Enter(u, "FAILED", "unit_failed")

\* CancelledError is no Exception: the unit stays ACTIVE for good.
CancelCall ==
    /\ busy
    /\ busy' = FALSE
    /\ UNCHANGED <<contract, coordinator, made, unit, missed, log>>

\* Faulty variant: the specialist goes on without its coordinator.
LoseCoordinatorOnly ==
    /\ coordinator = "up"
    /\ coordinator' = "none"
    /\ unit' = Untouched(Needs) /\ missed' = {}
    /\ UNCHANGED <<contract, made, busy, log>>

\* The process ends, and the coordinator with it.
LoseCoordinator ==
    /\ coordinator = "up"
    /\ coordinator' = "none" /\ busy' = FALSE
    /\ unit' = Untouched(Needs) /\ missed' = {}
    /\ UNCHANGED <<contract, made, log>>

DelegationNext ==
    \/ OpenCoordinator \/ RefuseContract \/ CancelCall \/ LoseCoordinator
    \/ \E u \in Unit : ReleaseUnit(u) \/ AdmitEvidence(u) \/ FailUnit(u)

DelegationSpec == DelegationInit /\ [][DelegationNext]_delegationVars

--------------------------------------------------------------------------
(* delegation_progress: what the API tells of the units                    *)

StatusOf(type) ==
    CASE type = "unit_started"   -> "ACTIVE"
      [] type = "unit_completed" -> "COMPLETED"
      [] type = "unit_failed"    -> "FAILED"
      [] type = "plan_persisted" -> "PENDING"

Concerns(e, u) == e.unit = u \/ e.type = "plan_persisted"

\* Faulty variant: a new plan does not start the units again.
ProgressSinceEver(u) ==
    LET about == {k \in 1..Len(log) : log[k].unit = u}
    IN  IF about = {} THEN "PENDING"
        ELSE StatusOf(log[CHOOSE k \in about : \A j \in about : j <= k].type)

ProgressOf(u) ==
    LET about == {k \in 1..Len(log) : Concerns(log[k], u)}
    IN  IF about = {} THEN "PENDING"
        ELSE StatusOf(log[CHOOSE k \in about : \A j \in about : j <= k].type)

--------------------------------------------------------------------------
(* Properties                                                              *)

DelegationTypeOK ==
    /\ contract \in Contract
    /\ coordinator \in {"none", "up"} /\ made \in 0..MaxCoordinators
    /\ unit \in [Unit -> StepStatus \ {"SKIPPED"}]
    /\ busy \in BOOLEAN /\ (busy => \E u \in Unit : unit[u] = "ACTIVE")
    /\ missed \subseteq Unit

(* What GET /runs/{id}/delegation rebuilds from the log is what the         *)
(* coordinator knows, also of a coordinator that started over after a       *)
(* crash; only of a unit whose event could not be stored it tells an older  *)
(* state (app.py:114).                                                      *)
ProgressIsTrue ==
    coordinator = "up" => \A u \in Unit \ missed : ProgressOf(u) = unit[u]

(* The log alone shows that a unit began after the evidence for each unit   *)
(* it depends on, and for each unit of a plan step its step depends on, was *)
(* admitted by the same coordinator, but for evidence whose event could not *)
(* be stored (delegation.py:170, 205).                                      *)
AuditShowsOrder ==
    coordinator = "up" =>
        \A k \in 1..Len(log), u \in Unit, v \in Unit :
            (/\ log[k].type = "unit_started" /\ log[k].unit = u
             /\ \A j \in k..Len(log) : log[j].type # "plan_persisted"
             /\ v \in Needs[u] \/ contract.serves[v] \in contract.plan[contract.serves[u]]
             /\ v \notin missed)
            => \E j \in 1..(k - 1) :
                  /\ log[j].type = "unit_completed" /\ log[j].unit = v
                  /\ \A i \in j..k : log[i].type # "plan_persisted"

Tracker == INSTANCE PlanTracker WITH
              Plan    <- {c.needs : c \in Contract},
              plan    <- contract.needs,
              tracker <- IF coordinator = "up" THEN "made" ELSE "none",
              step    <- unit

(* The units of a coordinator progress as the steps of a plan tracker do.   *)
UnitsTrackAPlan == Tracker!TrackerSpec
==========================================================================
