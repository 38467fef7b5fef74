--------------------------- MODULE PlanningProofs ---------------------------
(* Theorems about PlanTracker and Delegation, for every set of plans and    *)
(* contracts, however many steps and units they have.                       *)
EXTENDS PlanTracker, Delegation, TLAPS

\* If nothing is active and nothing ready, what is to be done waits for
\* something that failed or was skipped: or it would wait for itself.
LEMMA StallIsNoRing ==
    ASSUME NEW needs, NEW status, Known(needs), ~Cyclic(needs),
           \A i \in DOMAIN needs : status[i] \in StepStatus /\ status[i] # "ACTIVE",
           Ready(needs, status) = {},
           \E i \in DOMAIN needs : status[i] = "PENDING"
    PROVE  \E i \in DOMAIN needs :
              status[i] = "PENDING" /\ \E d \in needs[i] : status[d] \in {"FAILED", "SKIPPED"}
<1> DEFINE Waiting == {i \in DOMAIN needs : status[i] = "PENDING"}
<1>1. SUFFICES ASSUME \A i \in Waiting : \A d \in needs[i] : status[d] \notin {"FAILED", "SKIPPED"}
               PROVE  FALSE
  OBVIOUS
<1>2. ASSUME NEW i \in Waiting PROVE needs[i] \cap Waiting # {}
  <2>1. PICK d \in needs[i] : status[d] # "COMPLETED"
    BY <1>2 DEF Ready
  <2>2. d \in DOMAIN needs
    BY <1>2, <2>1 DEF Known
  <2>3. status[d] = "PENDING"
    BY <1>1, <1>2, <2>1, <2>2 DEF StepStatus
  <2> QED
    BY <2>1, <2>2, <2>3
<1>3. Waiting \in SUBSET DOMAIN needs /\ Waiting # {}
  OBVIOUS
<1> QED
  BY <1>2, <1>3 DEF Cyclic

--------------------------------------------------------------------------
(* The plan tracker                                                        *)

TrackerInv == TrackerTypeOK /\ (tracker = "made" => SoundPlan(plan))

LEMMA TrackerStepInv == TrackerInv /\ [TrackerNext]_trackerVars => TrackerInv'
<1> SUFFICES ASSUME TrackerInv, [TrackerNext]_trackerVars PROVE TrackerInv'
  OBVIOUS
<1> USE DEF TrackerInv, TrackerTypeOK
<1>1. CASE MakeTracker
  BY <1>1 DEF MakeTracker
<1>2. CASE LoseTracker
  BY <1>2 DEF LoseTracker, Untouched, StepStatus
<1>3. CASE ActivateNext
  BY <1>3 DEF ActivateNext, StepStatus
<1>4. ASSUME NEW i \in DOMAIN plan, MarkCompleted(i) \/ MarkFailed(i) \/ MarkSkipped(i)
      PROVE  TrackerInv'
  BY <1>4 DEF MarkCompleted, MarkFailed, MarkSkipped, Resolve, StepStatus
<1>5. CASE UNCHANGED trackerVars
  BY <1>5 DEF trackerVars
<1> QED
  BY <1>1, <1>2, <1>3, <1>4, <1>5 DEF TrackerNext

LEMMA TrackerStart == TrackerInit => TrackerInv
BY DEF TrackerInit, TrackerInv, TrackerTypeOK, Untouched, StepStatus

THEOREM TrackerInvariant == TrackerSpec => []TrackerInv
<1> QED
  BY TrackerStart, TrackerStepInv, PTL DEF TrackerSpec

LEMMA StallNeedsCause == TrackerInv => StallHasACause
<1> SUFFICES ASSUME TrackerInv, tracker = "made", ~IsComplete,
                    \A i \in DOMAIN plan : step[i] # "ACTIVE", Ready(plan, step) = {},
                    \E i \in DOMAIN plan : step[i] = "PENDING"
             PROVE  \E i \in DOMAIN plan :
                       /\ step[i] = "PENDING"
                       /\ \E d \in plan[i] : step[d] \in {"FAILED", "SKIPPED"}
  BY DEF StallHasACause
<1>1. \A i \in DOMAIN plan : step[i] \in StepStatus
  BY DEF TrackerInv, TrackerTypeOK
<1>2. Known(plan) /\ ~Cyclic(plan)
  BY DEF TrackerInv, SoundPlan
<1> QED
  BY <1>1, <1>2, StallIsNoRing

\* A plan never stalls by itself: whatever plans a model proposes and however
\* many steps they have, a tracker that stands still does so behind a step
\* that failed or was skipped (plan_tracker.py:106).
THEOREM TrackerStallHasACause == TrackerSpec => []StallHasACause
<1> QED
  BY StallNeedsCause, TrackerInvariant, PTL

--------------------------------------------------------------------------
(* The delegation coordinator                                              *)

DelegationInv ==
    /\ DelegationTypeOK
    /\ coordinator = "up" => SoundContract(contract)
    /\ coordinator = "none" => ~busy /\ unit = Untouched(Needs)

LEMMA EnterKeepsTypes ==
    ASSUME DelegationInv, NEW u \in Unit, NEW status \in StepStatus \ {"SKIPPED"}, NEW type,
           coordinator = "up", Enter(u, status, type)
    PROVE  DelegationInv'
<1>1. /\ contract' = contract /\ coordinator' = coordinator /\ made' = made
      /\ unit' = [unit EXCEPT ![u] = status]
  BY DEF Enter
<1>2. unit' \in [Unit -> StepStatus \ {"SKIPPED"}] /\ unit'[u] = status
  BY <1>1 DEF DelegationInv, DelegationTypeOK
<1>3. /\ busy' \in BOOLEAN /\ (busy' => status = "ACTIVE")
      /\ missed' \subseteq Unit
  BY DEF Enter, DelegationInv, DelegationTypeOK
<1> QED
  BY <1>1, <1>2, <1>3 DEF DelegationInv, DelegationTypeOK, Unit, Needs

LEMMA DelegationStepInv == DelegationInv /\ [DelegationNext]_delegationVars => DelegationInv'
<1> SUFFICES ASSUME DelegationInv, [DelegationNext]_delegationVars PROVE DelegationInv'
  OBVIOUS
<1>1. CASE OpenCoordinator
  BY <1>1, DelegationConstants DEF OpenCoordinator, DelegationInv, DelegationTypeOK, Untouched, StepStatus, Unit, Needs
<1>2. CASE RefuseContract
  BY <1>2, DelegationConstants DEF RefuseContract, DelegationInv, DelegationTypeOK, Unit, Needs
<1>3. CASE CancelCall
  BY <1>3 DEF CancelCall, DelegationInv, DelegationTypeOK, Unit, Needs
<1>4. CASE LoseCoordinator
  BY <1>4 DEF LoseCoordinator, DelegationInv, DelegationTypeOK, Untouched, StepStatus, Unit, Needs
<1>5. ASSUME NEW u \in Unit, ReleaseUnit(u) PROVE DelegationInv'
  <2>1. "ACTIVE" \in StepStatus \ {"SKIPPED"}
    BY DEF StepStatus
  <2> QED
    BY <1>5, <2>1, EnterKeepsTypes DEF ReleaseUnit
<1>6. busy => coordinator = "up"
  BY DEF DelegationInv, DelegationTypeOK
<1>7. ASSUME NEW u \in Unit, AdmitEvidence(u) PROVE DelegationInv'
  <2>1. "COMPLETED" \in StepStatus \ {"SKIPPED"}
    BY DEF StepStatus
  <2> QED
    BY <1>6, <1>7, <2>1, EnterKeepsTypes DEF AdmitEvidence
<1>8. ASSUME NEW u \in Unit, FailUnit(u) PROVE DelegationInv'
  <2>1. "FAILED" \in StepStatus \ {"SKIPPED"}
    BY DEF StepStatus
  <2> QED
    BY <1>6, <1>8, <2>1, EnterKeepsTypes DEF FailUnit
<1>9. CASE UNCHANGED delegationVars
  BY <1>9 DEF delegationVars, DelegationInv, DelegationTypeOK, Unit, Needs
<1> QED
  BY <1>1, <1>2, <1>3, <1>4, <1>5, <1>7, <1>8, <1>9 DEF DelegationNext

LEMMA DelegationStart == DelegationInit => DelegationInv
<1> SUFFICES ASSUME DelegationInit PROVE DelegationInv
  OBVIOUS
<1>1. unit \in [Unit -> StepStatus \ {"SKIPPED"}]
  BY DEF DelegationInit, Untouched, StepStatus, Unit, Needs
<1>2. made \in 0..MaxCoordinators
  BY DelegationConstants DEF DelegationInit
<1> QED
  BY <1>1, <1>2 DEF DelegationInit, DelegationInv, DelegationTypeOK

THEOREM DelegationInvariant == DelegationSpec => []DelegationInv
<1> QED
  BY DelegationStart, DelegationStepInv, PTL DEF DelegationSpec

LEMMA DelegationTrackerStart == DelegationInit => Tracker!TrackerInit
BY DEF DelegationInit, Tracker!TrackerInit, Tracker!Untouched, Needs, Untouched

LEMMA StepTracksAPlan ==
    DelegationInv /\ [DelegationNext]_delegationVars
        => [Tracker!TrackerNext]_(Tracker!trackerVars)
<1> SUFFICES ASSUME DelegationInv, [DelegationNext]_delegationVars
             PROVE  [Tracker!TrackerNext]_(Tracker!trackerVars)
  OBVIOUS
<1> USE DEF Tracker!trackerVars
<1>1. CASE OpenCoordinator
  <2>1. Tracker!MakeTracker
    BY <1>1 DEF OpenCoordinator, DelegationInv, SoundContract, Needs, Tracker!MakeTracker, Tracker!SoundPlan,
                Tracker!Known, Known, Tracker!Cyclic, Cyclic, Untouched
  <2> QED
    BY <2>1 DEF Tracker!TrackerNext
<1>2. CASE RefuseContract \/ CancelCall
  BY <1>2 DEF RefuseContract, CancelCall
<1>3. CASE LoseCoordinator
  <2>1. Tracker!LoseTracker
    BY <1>3 DEF LoseCoordinator, Needs, Tracker!LoseTracker, Tracker!Untouched, Untouched
  <2> QED
    BY <2>1 DEF Tracker!TrackerNext
<1>4. ASSUME NEW u \in Unit, ReleaseUnit(u) PROVE Tracker!TrackerNext
  <2>1. Tracker!ActivateNext
    BY <1>4 DEF ReleaseUnit, Enter, Unit, Needs, Tracker!ActivateNext,
                Tracker!IsNext, IsNext, Tracker!Ready, Ready
  <2> QED
    BY <2>1 DEF Tracker!TrackerNext
<1>5. busy => coordinator = "up"
  BY DEF DelegationInv, DelegationTypeOK
<1>6. ASSUME NEW u \in Unit, AdmitEvidence(u) PROVE Tracker!TrackerNext
  <2>1. Tracker!MarkCompleted(u)
    BY <1>5, <1>6 DEF AdmitEvidence, Enter, Tracker!MarkCompleted, Tracker!Resolve
  <2> QED
    BY <2>1 DEF Tracker!TrackerNext, Unit, Needs
<1>7. ASSUME NEW u \in Unit, FailUnit(u) PROVE Tracker!TrackerNext
  <2>1. Tracker!MarkFailed(u)
    BY <1>5, <1>7 DEF FailUnit, Enter, Tracker!MarkFailed, Tracker!Resolve
  <2> QED
    BY <2>1 DEF Tracker!TrackerNext, Unit, Needs
<1>8. CASE UNCHANGED delegationVars
  BY <1>8 DEF delegationVars
<1> QED
  BY <1>1, <1>2, <1>3, <1>4, <1>6, <1>7, <1>8 DEF DelegationNext

\* The coordinator's units progress as the steps of a tracker do: one at a
\* time, each after what it depends on, and only under a sound contract.
THEOREM DelegationTracksAPlan == DelegationSpec => UnitsTrackAPlan
<1> QED
  BY DelegationTrackerStart, StepTracksAPlan, DelegationInvariant, PTL DEF DelegationSpec, UnitsTrackAPlan, Tracker!TrackerSpec

--------------------------------------------------------------------------
(* What the log tells of the units                                         *)

LogEntry == [type : {"plan_persisted", "unit_started", "unit_completed", "unit_failed"},
             unit : Unit \cup {NoUnit}]

Newest(k, u) == Concerns(log[k], u) /\ \A j \in 1..Len(log) : j > k => ~Concerns(log[j], u)

Told == coordinator = "up" =>
    \A u \in Unit \ missed :
        \E k \in 1..Len(log) : Newest(k, u) /\ StatusOf(log[k].type) = unit[u]

ProgressInv == DelegationInv /\ log \in Seq(LogEntry) /\ Told

\* The entry that was just appended is the newest of the unit it names, and
\* of every unit if it is a plan; the newest of the others stays the newest.
LEMMA AppendMovesNewest ==
    ASSUME log \in Seq(LogEntry), NEW type, NEW v, Record(type, v)
    PROVE  /\ Len(log') \in 1..Len(log') /\ log'[Len(log')].type = type
           /\ \A u : u = v \/ type = "plan_persisted" => Newest(Len(log), u)'
           /\ \A u : \A k \in 1..Len(log) :
                 u # v /\ type # "plan_persisted" /\ Newest(k, u)
                 => Newest(k, u)' /\ k \in 1..Len(log') /\ log'[k] = log[k]
<1>1. /\ Len(log') = Len(log) + 1 /\ log'[Len(log')] = [type |-> type, unit |-> v] /\ Len(log) \in Nat
      /\ \A k \in 1..Len(log) : log'[k] = log[k]
  BY DEF Record
<1>2. Len(log') \in 1..Len(log') /\ log'[Len(log')].type = type
  BY <1>1
<1>3. ASSUME NEW u, u = v \/ type = "plan_persisted" PROVE Newest(Len(log), u)'
  BY <1>1, <1>3 DEF Newest, Concerns
<1>4. ASSUME NEW u, NEW k \in 1..Len(log), u # v, type # "plan_persisted", Newest(k, u)
      PROVE  Newest(k, u)' /\ k \in 1..Len(log') /\ log'[k] = log[k]
  <2>1. ~Concerns(log'[Len(log')], u)
    BY <1>1, <1>4 DEF Concerns
  <2>2. Concerns(log'[k], u)
    BY <1>1, <1>4 DEF Newest
  <2>3. ASSUME NEW j \in 1..Len(log'), j > k PROVE ~Concerns(log'[j], u)
    <3>1. j \in 1..Len(log) \/ j = Len(log')
      BY <1>1
    <3> QED
      BY <1>1, <1>4, <2>1, <2>3, <3>1 DEF Newest
  <2> QED
    BY <1>1, <2>2, <2>3 DEF Newest
<1> QED
  BY <1>2, <1>3, <1>4

LEMMA ToldIsProgress == ProgressInv => ProgressIsTrue
<1> SUFFICES ASSUME ProgressInv, coordinator = "up", NEW u \in Unit \ missed
             PROVE  ProgressOf(u) = unit[u]
  BY DEF ProgressIsTrue
<1> DEFINE about == {k \in 1..Len(log) : Concerns(log[k], u)}
<1>1. PICK k \in 1..Len(log) : Newest(k, u) /\ StatusOf(log[k].type) = unit[u]
  BY DEF ProgressInv, Told
<1>2. Len(log) \in Nat
  BY DEF ProgressInv
<1>3. k \in about /\ \A j \in about : j <= k
  BY <1>1, <1>2 DEF Newest
<1>4. \A m \in about : (\A j \in about : j <= m) => m = k
  BY <1>2, <1>3
<1>5. ProgressOf(u) = IF about = {} THEN "PENDING"
                      ELSE StatusOf(log[CHOOSE m \in about : \A j \in about : j <= m].type)
  BY DEF ProgressOf
<1> HIDE DEF about
<1>6. (CHOOSE m \in about : \A j \in about : j <= m) = k
  BY <1>3, <1>4
<1> QED
  BY <1>1, <1>3, <1>5, <1>6

\* Whether it could be stored or not, a unit's new status leaves the log true.
LEMMA EnterKeepsTold ==
    ASSUME ProgressInv, coordinator = "up", NEW u \in Unit, NEW status, NEW type,
           type \in {"unit_started", "unit_completed", "unit_failed"},
           StatusOf(type) = status, Enter(u, status, type)
    PROVE  log' \in Seq(LogEntry) /\ Told'
<1>1. /\ contract' = contract /\ coordinator' = coordinator /\ Unit' = Unit
      /\ unit \in [Unit -> StepStatus] /\ unit' = [unit EXCEPT ![u] = status]
      /\ missed \subseteq Unit /\ log \in Seq(LogEntry)
  BY DEF Enter, ProgressInv, DelegationInv, DelegationTypeOK, Unit, Needs
<1>2. unit'[u] = status /\ \A w \in Unit \ {u} : unit'[w] = unit[w]
  BY <1>1
<1>3. CASE Record(type, u) /\ missed' = missed \ {u}
  <2>1. [type |-> type, unit |-> u] \in LogEntry
    BY DEF LogEntry
  <2>2. log' \in Seq(LogEntry)
    BY <1>1, <1>3, <2>1 DEF Record
  <2>3. ASSUME NEW w \in Unit \ missed'
        PROVE  \E k \in 1..Len(log') : Newest(k, w)' /\ StatusOf(log'[k].type) = unit'[w]
    <3>1. CASE w = u
      BY <1>1, <1>2, <1>3, <3>1, AppendMovesNewest
    <3>2. CASE w # u
      <4>1. PICK k \in 1..Len(log) : Newest(k, w) /\ StatusOf(log[k].type) = unit[w]
        BY <1>3, <2>3, <3>2 DEF ProgressInv, Told
      <4>2. Newest(k, w)' /\ k \in 1..Len(log') /\ log'[k] = log[k]
        BY <1>1, <1>3, <3>2, <4>1, AppendMovesNewest
      <4> QED
        BY <1>2, <3>2, <4>1, <4>2
    <3> QED
      BY <3>1, <3>2
  <2> QED
    BY <1>1, <2>2, <2>3 DEF Told
<1>4. CASE missed' = missed \cup {u} /\ UNCHANGED log
  <2>1. ASSUME NEW w \in Unit \ missed', NEW k \in 1..Len(log) PROVE Newest(k, w)' = Newest(k, w)
    BY <1>4 DEF Newest
  <2>2. ASSUME NEW w \in Unit \ missed'
        PROVE  \E k \in 1..Len(log) : Newest(k, w)' /\ StatusOf(log[k].type) = unit'[w]
    <3>1. PICK k \in 1..Len(log) : Newest(k, w) /\ StatusOf(log[k].type) = unit[w]
      BY <1>4, <2>2 DEF ProgressInv, Told
    <3> QED
      BY <1>2, <1>4, <2>1, <2>2, <3>1
  <2> QED
    BY <1>1, <1>4, <2>2 DEF Told
<1> QED
  BY <1>3, <1>4 DEF Enter

LEMMA ProgressStepInv == ProgressInv /\ [DelegationNext]_delegationVars => ProgressInv'
<1> SUFFICES ASSUME ProgressInv, [DelegationNext]_delegationVars PROVE ProgressInv'
  OBVIOUS
<1>1. DelegationInv'
  BY DelegationStepInv DEF ProgressInv
<1>2. busy => coordinator = "up"
  BY DEF ProgressInv, DelegationInv, DelegationTypeOK
<1>3. CASE OpenCoordinator
  <2>1. log \in Seq(LogEntry) /\ Record("plan_persisted", NoUnit) /\ Unit' = Unit /\ LogEntry' = LogEntry
    BY <1>3 DEF OpenCoordinator, ProgressInv, Unit, Needs, LogEntry
  <2>2. [type |-> "plan_persisted", unit |-> NoUnit] \in LogEntry
    BY DEF LogEntry
  <2>3. log' \in Seq(LogEntry)'
    BY <2>1, <2>2 DEF Record
  <2>4. StatusOf("plan_persisted") = "PENDING" /\ \A u \in Unit : unit'[u] = "PENDING"
    BY <1>3 DEF StatusOf, OpenCoordinator, Untouched, Unit, Needs
  <2>5. Told'
    BY <2>1, <2>4, AppendMovesNewest DEF Told
  <2> QED
    BY <1>1, <2>3, <2>5 DEF ProgressInv
<1>4. CASE RefuseContract \/ CancelCall \/ UNCHANGED delegationVars
  BY <1>1, <1>4 DEF RefuseContract, CancelCall, delegationVars, ProgressInv, Told, Newest, LogEntry, Unit, Needs
<1>5. CASE LoseCoordinator
  BY <1>1, <1>5 DEF LoseCoordinator, ProgressInv, Told, LogEntry, Unit, Needs
<1>6. ASSUME NEW u \in Unit, ReleaseUnit(u) \/ AdmitEvidence(u) \/ FailUnit(u) PROVE ProgressInv'
  <2>1. PICK type \in {"unit_started", "unit_completed", "unit_failed"} :
          coordinator = "up" /\ Enter(u, StatusOf(type), type)
    BY <1>2, <1>6 DEF ReleaseUnit, AdmitEvidence, FailUnit, StatusOf
  <2>2. log' \in Seq(LogEntry) /\ Told'
    BY <2>1, EnterKeepsTold
  <2>3. LogEntry' = LogEntry
    BY <2>1 DEF Enter, LogEntry, Unit, Needs
  <2> QED
    BY <1>1, <2>2, <2>3 DEF ProgressInv
<1> QED
  BY <1>3, <1>4, <1>5, <1>6 DEF DelegationNext

\* What the API tells of the units is what the coordinator knows, for any
\* contracts, any number of coordinators and a log of any length (app.py:114).
THEOREM DelegationProgressIsTrue == DelegationSpec => []ProgressIsTrue
<1>1. DelegationInit => ProgressInv
  <2>1. DelegationInit => DelegationInv
    BY DelegationStart
  <2> QED
    BY <2>1 DEF DelegationInit, LogInit, ProgressInv, Told
<1> QED
  BY <1>1, ProgressStepInv, ToldIsProgress, PTL DEF DelegationSpec

--------------------------------------------------------------------------
(* The order of work, as the log alone shows it                            *)

\* A unit whose event could not be stored is done with: it is settled, or it
\* stays active and nobody works on it.
MissedRest == \A v \in missed : unit[v] # "PENDING" /\ (unit[v] = "ACTIVE" => ~busy)

AuditInv == ProgressInv /\ MissedRest /\ AuditShowsOrder

\* What Told says of a unit that is done: its evidence is in the log.
LEMMA CompletedIsLogged ==
    ASSUME ProgressInv, coordinator = "up", NEW v \in Unit \ missed, unit[v] = "COMPLETED"
    PROVE  \E j \in 1..Len(log) :
              /\ log[j].type = "unit_completed" /\ log[j].unit = v
              /\ \A i \in 1..Len(log) : i >= j => log[i].type # "plan_persisted"
<1>1. PICK j \in 1..Len(log) : Newest(j, v) /\ StatusOf(log[j].type) = "COMPLETED"
  BY DEF ProgressInv, Told
<1>2. log[j] \in LogEntry /\ Len(log) \in Nat
  BY DEF ProgressInv
<1>3. log[j].type = "unit_completed"
  BY <1>1, <1>2 DEF StatusOf, LogEntry
<1>4. log[j].unit = v
  BY <1>1, <1>3 DEF Newest, Concerns
<1>5. ASSUME NEW i \in 1..Len(log), i >= j PROVE log[i].type # "plan_persisted"
  BY <1>1, <1>2, <1>3, <1>5 DEF Newest, Concerns
<1> QED
  BY <1>3, <1>4, <1>5

\* An entry that starts nothing out of order leaves the log in order.
LEMMA AppendKeepsOrder ==
    ASSUME AuditInv, coordinator = "up", NEW u \in Unit, NEW type, Record(type, u),
           type # "plan_persisted", contract' = contract, missed \subseteq missed',
           type = "unit_started" =>
              \A v \in Unit \ missed :
                 v \in Needs[u] \/ contract.serves[v] \in contract.plan[contract.serves[u]] =>
                    unit[v] = "COMPLETED"
    PROVE  AuditShowsOrder'
<1>1. /\ Len(log') = Len(log) + 1 /\ log'[Len(log')] = [type |-> type, unit |-> u] /\ Len(log) \in Nat
      /\ \A k \in 1..Len(log) : log'[k] = log[k]
  BY DEF Record, AuditInv, ProgressInv
<1>2. Unit' = Unit /\ Needs' = Needs
  BY DEF Unit, Needs
<1> SUFFICES ASSUME NEW k \in 1..Len(log'), NEW w \in Unit, NEW v \in Unit,
                    log'[k].type = "unit_started", log'[k].unit = w,
                    \A j \in k..Len(log') : log'[j].type # "plan_persisted",
                    v \in Needs[w] \/ contract.serves[v] \in contract.plan[contract.serves[w]],
                    v \notin missed
             PROVE  \E j \in 1..(k - 1) :
                       /\ log'[j].type = "unit_completed" /\ log'[j].unit = v
                       /\ \A i \in j..k : log'[i].type # "plan_persisted"
  BY <1>2 DEF AuditShowsOrder
<1>3. CASE k = Len(log')
  <2>1. u = w /\ type = "unit_started" /\ unit[v] = "COMPLETED"
    BY <1>1, <1>3
  <2>2. PICK j \in 1..Len(log) :
           /\ log[j].type = "unit_completed" /\ log[j].unit = v
           /\ \A i \in 1..Len(log) : i >= j => log[i].type # "plan_persisted"
    BY <2>1, CompletedIsLogged DEF AuditInv
  <2>3. ASSUME NEW i \in j..k PROVE log'[i].type # "plan_persisted"
    BY <1>1, <1>3, <2>2, <2>3
  <2>4. j \in 1..(k - 1) /\ log'[j] = log[j]
    BY <1>1, <1>3
  <2> QED
    BY <2>2, <2>3, <2>4
<1>4. CASE k # Len(log')
  <2>1. k \in 1..Len(log) /\ log'[k] = log[k]
    BY <1>1, <1>4
  <2>2. \A j \in k..Len(log) : log[j].type # "plan_persisted"
    BY <1>1, <2>1
  <2>3. PICK j \in 1..(k - 1) : /\ log[j].type = "unit_completed" /\ log[j].unit = v
                                /\ \A i \in j..k : log[i].type # "plan_persisted"
    BY <2>1, <2>2 DEF AuditInv, AuditShowsOrder
  <2>4. \A i \in j..k : i \in 1..Len(log) /\ log'[i] = log[i]
    BY <1>1, <2>1, <2>3
  <2>5. j \in j..k
    BY <2>1, <2>3
  <2> QED
    BY <2>3, <2>4, <2>5
<1> QED
  BY <1>3, <1>4

LEMMA EnterKeepsOrder ==
    ASSUME AuditInv, coordinator = "up", NEW u \in Unit,
           NEW type \in {"unit_started", "unit_completed", "unit_failed"}, Enter(u, StatusOf(type), type),
           unit[u] = "PENDING" \/ (unit[u] = "ACTIVE" /\ busy),
           type = "unit_started" => IsNext(Needs, unit, u)
    PROVE  MissedRest' /\ AuditShowsOrder'
<1>1. /\ u \notin missed /\ contract' = contract /\ coordinator' = coordinator
      /\ missed \subseteq Unit /\ unit' = [unit EXCEPT ![u] = StatusOf(type)]
      /\ unit \in [Unit -> StepStatus \ {"SKIPPED"}] /\ SoundContract(contract)
  BY DEF Enter, AuditInv, MissedRest, ProgressInv, DelegationInv, DelegationTypeOK
<1>2. /\ unit'[u] = StatusOf(type) /\ StatusOf(type) # "PENDING"
      /\ \A v \in Unit \ {u} : unit'[v] = unit[v]
      /\ StatusOf(type) = "ACTIVE" => type = "unit_started"
  BY <1>1 DEF StatusOf
<1>3. type = "unit_started" => \A v \in Unit : unit[v] # "ACTIVE"
  BY DEF IsNext, Unit, Needs
<1>4. CASE Record(type, u) /\ missed' = missed \ {u} /\ busy' = (StatusOf(type) = "ACTIVE")
  <2>1. missed' = missed
    BY <1>1, <1>4
  <2>2. MissedRest'
    BY <1>1, <1>2, <1>3, <1>4, <2>1 DEF MissedRest, AuditInv
  <2>3. ASSUME type = "unit_started", NEW v \in Unit \ missed,
               v \in Needs[u] \/ contract.serves[v] \in contract.plan[contract.serves[u]]
        PROVE  unit[v] = "COMPLETED"
    <3>1. v \in Needs[u]
      BY <1>1, <2>3 DEF SoundContract, FollowsPlan, Unit, Needs
    <3> QED
      BY <2>3, <3>1 DEF IsNext, Ready
  <2>4. AuditShowsOrder'
    BY <1>1, <1>4, <2>1, <2>3, AppendKeepsOrder
  <2> QED
    BY <2>2, <2>4
<1>5. CASE missed' = missed \cup {u} /\ busy' = FALSE /\ UNCHANGED log
  <2>1. MissedRest'
    BY <1>1, <1>2, <1>5 DEF MissedRest, AuditInv
  <2>2. AuditShowsOrder'
    BY <1>1, <1>5 DEF AuditInv, AuditShowsOrder, Unit, Needs
  <2> QED
    BY <2>1, <2>2
<1> QED
  BY <1>4, <1>5 DEF Enter

LEMMA AuditStepInv == AuditInv /\ [DelegationNext]_delegationVars => AuditInv'
<1> SUFFICES ASSUME AuditInv, [DelegationNext]_delegationVars PROVE AuditInv'
  OBVIOUS
<1>1. ProgressInv' /\ (busy => coordinator = "up")
  BY ProgressStepInv DEF AuditInv, ProgressInv, DelegationInv, DelegationTypeOK
<1>2. CASE OpenCoordinator
  <2>1. /\ log' = Append(log, [type |-> "plan_persisted", unit |-> NoUnit])
        /\ log \in Seq(LogEntry) /\ missed' = {}
    BY <1>2 DEF OpenCoordinator, Record, AuditInv, ProgressInv
  <2>2. \A k \in 1..Len(log') : Len(log') \in k..Len(log')
    BY <2>1
  <2>3. log'[Len(log')].type = "plan_persisted"
    BY <2>1
  <2>4. AuditShowsOrder'
    BY <2>2, <2>3 DEF AuditShowsOrder
  <2> QED
    BY <1>1, <2>1, <2>4 DEF AuditInv, MissedRest
<1>3. CASE LoseCoordinator
  BY <1>1, <1>3 DEF LoseCoordinator, AuditInv, MissedRest, AuditShowsOrder
<1>4. CASE RefuseContract \/ CancelCall \/ UNCHANGED delegationVars
  <2>1. /\ UNCHANGED <<contract, coordinator, unit, missed, log>> /\ (busy' => busy)
    BY <1>4 DEF RefuseContract, CancelCall, delegationVars
  <2>2. AuditShowsOrder'
    BY <2>1 DEF AuditInv, AuditShowsOrder, Unit, Needs
  <2> QED
    BY <1>1, <2>1, <2>2 DEF AuditInv, MissedRest
<1>5. ASSUME NEW u \in Unit, ReleaseUnit(u) \/ AdmitEvidence(u) \/ FailUnit(u) PROVE AuditInv'
  <2>1. PICK type \in {"unit_started", "unit_completed", "unit_failed"} :
           /\ coordinator = "up" /\ Enter(u, StatusOf(type), type)
           /\ unit[u] = "PENDING" \/ (unit[u] = "ACTIVE" /\ busy)
           /\ type = "unit_started" => IsNext(Needs, unit, u)
    BY <1>1, <1>5 DEF ReleaseUnit, AdmitEvidence, FailUnit, StatusOf, IsNext, Ready
  <2> QED
    BY <1>1, <2>1, EnterKeepsOrder DEF AuditInv
<1> QED
  BY <1>2, <1>3, <1>4, <1>5 DEF DelegationNext

LEMMA AuditStart == DelegationInit => AuditInv
<1>1. DelegationInit => DelegationInv
  BY DelegationStart
<1> QED
  BY <1>1 DEF DelegationInit, LogInit, AuditInv, ProgressInv, Told, MissedRest, AuditShowsOrder

\* The log alone shows that no unit began before the evidence for each unit it
\* depends on was admitted by the same coordinator, but for evidence whose
\* event could not be stored, for any contracts and a log of any length
\* (delegation.py:170, 205).
THEOREM DelegationAuditShowsOrder == DelegationSpec => []AuditShowsOrder
<1>1. AuditInv => AuditShowsOrder
  BY DEF AuditInv
<1> QED
  BY <1>1, AuditStart, AuditStepInv, PTL DEF DelegationSpec
==========================================================================
