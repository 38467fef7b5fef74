--------------------------- MODULE ActionLedger ---------------------------
(***************************************************************************)
(* The durable dispatch tables of RunRepository: pending_actions,          *)
(* action_attempts and workers, with every operation that writes them.     *)
(*                                                                         *)
(* Connections are opened with isolation_level="IMMEDIATE", which starts a *)
(* transaction before the first INSERT, UPDATE or DELETE and not before a  *)
(* SELECT.  An operation that selects rows and then updates them is        *)
(* therefore two steps here, with the selected rows in the caller's hand   *)
(* between them; everything from the first write to the commit is one step.*)
(*                                                                         *)
(* A process makes one repository call at a time.  Otherwise callers are   *)
(* unconstrained: any operation may be called at any time, in any order.   *)
(* What holds here holds for every caller.                                 *)
(***************************************************************************)
EXTENDS Naturals, Sequences, Identities

CONSTANTS
    Dispatcher,      \* worker_id values of dispatch workers
    Continuation,    \* worker_id values an API continuation generates for itself
    Api,             \* the API process in its own right: its startup sweep
    Tool,            \* tool names
    RunOf,           \* [ActionId -> RunId]: the run a row is created for
    ToolOf,          \* [ActionId -> Tool]: the tool a row is created for
    Capabilities,    \* [Dispatcher -> SUBSET Tool]: what a worker advertises
    LeaseSeconds,    \* worker_lease_seconds, in ticks
    MaxAttempts,     \* max_dispatch_attempts
    MaxTime,         \* bound: after it nothing is renewed, and the clock
                     \* only runs on until every lease has expired
    NoWorker, NoLease   \* NULL in the respective columns

WorkerId == Dispatcher \cup Continuation   \* who may hold an action
Sweeper  == Dispatcher \cup {Api}          \* who runs the recovery sweep
Caller   == WorkerId \cup {Api}

ASSUME LedgerConstants ==
    /\ RunOf \in [ActionId -> RunId]
    /\ ToolOf \in [ActionId -> Tool]
    /\ Capabilities \in [Dispatcher -> SUBSET Tool]
    /\ LeaseSeconds \in Nat \ {0}
    /\ MaxAttempts \in Nat \ {0}
    /\ MaxTime \in Nat
    /\ NoWorker \notin WorkerId
    /\ NoLease \notin Nat

VARIABLES
    now,           \* the wall clock all processes share
    actions,       \* [ActionId -> ActionRow]
    attempts,      \* [ActionId -> Seq(AttemptRow)], rows in id order
    workers,       \* [Dispatcher -> WorkerState]
    hand           \* [Caller -> Hand]: the call a process has under way

ledgerVars == <<now, actions, attempts, workers, hand>>

--------------------------------------------------------------------------
Active    == {"PENDING", "APPROVED", "EXECUTING"}
Settled   == {"EXECUTED", "FAILED"}
Status    == {"ABSENT", "REJECTED"} \cup Active \cup Settled
Unclaimed == {"ABSENT", "PENDING", "APPROVED", "REJECTED"}

ActionRow == [status     : Status,
              worker     : WorkerId \cup {NoWorker},
              lease      : Nat \cup {NoLease},
              attempt    : Nat,
              createdAt  : Nat,
              approvedAt : Nat,
              recovered  : BOOLEAN]

AttemptRow == [status  : {"CLAIMED", "EXECUTED", "FAILED", "RECOVERED"},
               worker  : WorkerId \cup {NoWorker},
               attempt : Nat]

\* No row at all, or a worker that has not registered.
WorkerState == {"UNREGISTERED", "ACTIVE", "DRAINING", "STOPPED"}

\* The rows an operation selected and the time it took as its own.
Hand == [op : {"none", "dispatch", "continue", "sweep"}, rows : SUBSET ActionId, at : Nat]
Empty == [op |-> "none", rows |-> {}, at |-> 0]
Free(p) == hand[p] = Empty

LedgerTypeOK ==
    /\ now \in Nat
    /\ actions \in [ActionId -> ActionRow]
    /\ attempts \in [ActionId -> Seq(AttemptRow)]
    /\ workers \in [Dispatcher -> WorkerState]
    /\ hand \in [Caller -> Hand]

LedgerInit ==
    /\ now = 0
    /\ actions = [a \in ActionId |->
                    [status |-> "ABSENT", worker |-> NoWorker, lease |-> NoLease,
                     attempt |-> 0, createdAt |-> 0, approvedAt |-> 0, recovered |-> FALSE]]
    /\ attempts = [a \in ActionId |-> << >>]
    /\ workers = [w \in Dispatcher |-> "UNREGISTERED"]
    /\ hand = [p \in Caller |-> Empty]

--------------------------------------------------------------------------
(* Requests and decisions                                                  *)

InStatus(s) == {a \in ActionId : actions[a].status = s}

\* get_pending_action: the newest unsettled rows of a run (created_at may tie).
NewestActive(r) ==
    LET live == {a \in ActionId : RunOf[a] = r /\ actions[a].status \in Active}
    IN  {a \in live : \A b \in live : actions[b].createdAt <= actions[a].createdAt}

\* Faulty variant: a request that needs no decision.
CreateApprovedAction(a) ==
    /\ actions[a].status = "ABSENT"
    /\ actions' = [actions EXCEPT ![a].status = "APPROVED", ![a].createdAt = now]
    /\ UNCHANGED <<now, attempts, workers, hand>>

CreatePendingAction(a) ==
    /\ actions[a].status = "ABSENT"
    /\ actions' = [actions EXCEPT ![a].status = "PENDING", ![a].createdAt = now]
    /\ UNCHANGED <<now, attempts, workers, hand>>

\* Faulty variant: the status is missing from the WHERE clause of approval.
ApproveAnyAction(r) ==
    /\ actions' = [a \in ActionId |->
                     IF RunOf[a] = r /\ actions[a].status \in {"PENDING", "REJECTED"}
                     THEN [actions[a] EXCEPT !.status = "APPROVED", !.approvedAt = now]
                     ELSE actions[a]]
    /\ UNCHANGED <<now, attempts, workers, hand>>

\* The UPDATE is keyed by run: it decides every pending request of the run.
ApprovePendingAction(r) ==
    /\ actions' = [a \in ActionId |->
                     IF RunOf[a] = r /\ actions[a].status = "PENDING"
                     THEN [actions[a] EXCEPT !.status = "APPROVED", !.approvedAt = now]
                     ELSE actions[a]]
    /\ UNCHANGED <<now, attempts, workers, hand>>

RejectPendingAction(r) ==
    /\ actions' = [a \in ActionId |->
                     IF RunOf[a] = r /\ actions[a].status = "PENDING"
                     THEN [actions[a] EXCEPT !.status = "REJECTED"]
                     ELSE actions[a]]
    /\ UNCHANGED <<now, attempts, workers, hand>>

--------------------------------------------------------------------------
(* Worker registry                                                         *)

\* An upsert: a draining or stopped worker that registers is ACTIVE again.
RegisterWorker(w) ==
    /\ Free(w)
    /\ workers' = [workers EXCEPT ![w] = "ACTIVE"]
    /\ UNCHANGED <<now, actions, attempts, hand>>

\* heartbeat_worker's result; the timestamp it writes is read by no decision.
HeartbeatAccepted(w) == workers[w] = "ACTIVE"

\* Called by the worker itself on shutdown, and by the API on its behalf.
DrainWorker(w) ==
    /\ workers[w] = "ACTIVE"
    /\ workers' = [workers EXCEPT ![w] = "DRAINING"]
    /\ UNCHANGED <<now, actions, attempts, hand>>

StopWorker(w) ==
    /\ Free(w)
    /\ workers[w] \in {"ACTIVE", "DRAINING"}
    /\ workers' = [workers EXCEPT ![w] = "STOPPED"]
    /\ UNCHANGED <<now, actions, attempts, hand>>

--------------------------------------------------------------------------
(* Claims                                                                  *)

\* Faulty variant: an attempt bound of N allows N - 1.
DispatchableBelowBound(w) ==
    {a \in InStatus("APPROVED") : /\ actions[a].attempt + 1 < MaxAttempts
                                  /\ ToolOf[a] \in Capabilities[w]}

Dispatchable(w) ==
    {a \in InStatus("APPROVED") : /\ actions[a].attempt < MaxAttempts
                                  /\ ToolOf[a] \in Capabilities[w]}

\* ORDER BY approved_at, created_at.
NotAfter(a, b) ==
    \/ actions[a].approvedAt < actions[b].approvedAt
    \/ /\ actions[a].approvedAt = actions[b].approvedAt
       /\ actions[a].createdAt <= actions[b].createdAt

OldestDispatchable(w) ==
    {a \in Dispatchable(w) : \A b \in Dispatchable(w) : NotAfter(a, b)}

\* A SELECT leaves its rows in the hand of the caller; the write empties it.
Take(p, op, rows) == hand' = [hand EXCEPT ![p] = [op |-> op, rows |-> rows, at |-> now]]
PutDown(p) == hand' = [hand EXCEPT ![p] = Empty]

SelectDispatchable(w) ==
    /\ Free(w)
    /\ workers[w] = "ACTIVE"
    /\ \E a \in OldestDispatchable(w) : Take(w, "dispatch", {a})
    /\ UNCHANGED <<now, actions, attempts, workers>>

\* What both claim paths write; the lease runs from the start of the call.
Claimed(row, w) ==
    [row EXCEPT !.status = "EXECUTING", !.worker = w,
                !.lease = hand[w].at + LeaseSeconds, !.recovered = FALSE]

\* Faulty variant: the UPDATE trusts the status the SELECT saw.
OnceDispatchable(a) == actions[a].attempt < MaxAttempts

StillDispatchable(a) == actions[a].status = "APPROVED" /\ actions[a].attempt < MaxAttempts

\* One INSERT INTO action_attempts.
Evidence(s, w, n) == [status |-> s, worker |-> w, attempt |-> n]

\* The conditional UPDATE and the CLAIMED attempt row.
ClaimDispatched(w) ==
    /\ hand[w].op = "dispatch"
    /\ \E a \in hand[w].rows :
          LET n == actions[a].attempt + 1
          IN  /\ StillDispatchable(a)
              /\ actions' = [actions EXCEPT ![a] = [Claimed(@, w) EXCEPT !.attempt = n]]
              /\ attempts' = [attempts EXCEPT ![a] = Append(@, Evidence("CLAIMED", w, n))]
    /\ PutDown(w)
    /\ UNCHANGED <<now, workers>>

ApprovedOf(r) == {a \in InStatus("APPROVED") : RunOf[a] = r}

SelectApproved(r, w) ==
    /\ Free(w)
    /\ \E a \in ApprovedOf(r) :
          /\ \A b \in ApprovedOf(r) : actions[a].approvedAt <= actions[b].approvedAt
          /\ Take(w, "continue", {a})
    /\ UNCHANGED <<now, actions, attempts, workers>>

\* The continuation path neither counts the attempt nor records a CLAIMED row.
ClaimApproved(w) ==
    /\ hand[w].op = "continue"
    /\ \E a \in hand[w].rows :
          /\ actions[a].status = "APPROVED"
          /\ actions' = [actions EXCEPT ![a] = Claimed(@, w)]
    /\ PutDown(w)
    /\ UNCHANGED <<now, attempts, workers>>

\* rowcount = 0: someone else moved the row after the SELECT.
LoseClaim(w) ==
    /\ \/ hand[w].op = "dispatch" /\ \A a \in hand[w].rows : ~StillDispatchable(a)
       \/ hand[w].op = "continue" /\ \A a \in hand[w].rows : actions[a].status # "APPROVED"
    /\ PutDown(w)
    /\ UNCHANGED <<now, actions, attempts, workers>>

--------------------------------------------------------------------------
(* Leases, recovery and completion                                         *)

OwnedBy(a, w) == actions[a].status = "EXECUTING" /\ actions[a].worker = w

\* Faulty variant: a renewal adds to what is left of the lease.
ProlongActionLease(a, w) ==
    /\ Free(w)
    /\ now < MaxTime
    /\ OwnedBy(a, w)
    /\ actions' = [actions EXCEPT ![a].lease = @ + LeaseSeconds]
    /\ UNCHANGED <<now, attempts, workers, hand>>

RenewActionLease(a, w) ==
    /\ Free(w)
    /\ now < MaxTime
    /\ OwnedBy(a, w)
    /\ actions' = [actions EXCEPT ![a].lease = now + LeaseSeconds]
    /\ UNCHANGED <<now, attempts, workers, hand>>

LeaseExpired(a) == actions[a].lease # NoLease /\ actions[a].lease <= now
Stale == {a \in InStatus("EXECUTING") : LeaseExpired(a)}

SelectStale(p) ==
    /\ Free(p)
    /\ Stale # {}
    /\ Take(p, "sweep", Stale)
    /\ UNCHANGED <<now, actions, attempts, workers>>

OutcomeRow(a, s) == Evidence(s, actions[a].worker, actions[a].attempt)

\* Faulty variant: an expired claim becomes claimable again.
RequeueStale(p) ==
    /\ hand[p].op = "sweep"
    /\ actions' = [a \in ActionId |->
                     IF a \in hand[p].rows /\ actions[a].status = "EXECUTING"
                     THEN [actions[a] EXCEPT !.status = "APPROVED"]
                     ELSE actions[a]]
    /\ PutDown(p)
    /\ UNCHANGED <<now, attempts, workers>>

\* The UPDATE repeats the status of the SELECT but not its lease.
RecoverStale(p) ==
    LET lost == {a \in hand[p].rows : actions[a].status = "EXECUTING"}
    IN  /\ hand[p].op = "sweep"
        /\ actions' = [a \in ActionId |->
                         IF a \in lost
                         THEN [actions[a] EXCEPT !.status = "FAILED", !.recovered = TRUE]
                         ELSE actions[a]]
        /\ attempts' = [a \in ActionId |->
                          IF a \in lost
                          THEN Append(attempts[a], OutcomeRow(a, "RECOVERED"))
                          ELSE attempts[a]]
        /\ PutDown(p)
        /\ UNCHANGED <<now, workers>>

\* A process dies between the SELECT of a call and its write.
Abandon(p) ==
    /\ ~Free(p)
    /\ PutDown(p)
    /\ UNCHANGED <<now, actions, attempts, workers>>

\* Faulty variants: a ToolStatus where an action status belongs, and every
\* completion a success.
ToolStatusOf(succeeded) == IF succeeded THEN "success" ELSE "failed"
AlwaysExecuted(succeeded) == "EXECUTED"

Verdict(succeeded) == IF succeeded THEN "EXECUTED" ELSE "FAILED"

\* Faulty variant: completion does not look at the status.
FinishAnyAction(a, succeeded) ==
    /\ actions[a].status \in {"EXECUTING", "FAILED"}
    /\ actions' = [actions EXCEPT ![a].status = Verdict(succeeded)]
    /\ attempts' = [attempts EXCEPT ![a] = Append(@, OutcomeRow(a, Verdict(succeeded)))]
    /\ UNCHANGED <<now, workers, hand>>

\* Keyed by the action alone; on a row that is not EXECUTING it changes nothing.
FinishPendingAction(a, succeeded) ==
    /\ actions[a].status = "EXECUTING"
    /\ actions' = [actions EXCEPT ![a].status = Verdict(succeeded)]
    /\ attempts' = [attempts EXCEPT ![a] = Append(@, OutcomeRow(a, Verdict(succeeded)))]
    /\ UNCHANGED <<now, workers, hand>>

Tick ==
    /\ now < MaxTime \/ InStatus("EXECUTING") \ Stale # {}
    /\ now' = now + 1
    /\ UNCHANGED <<actions, attempts, workers, hand>>

--------------------------------------------------------------------------
LedgerNext ==
    \/ \E a \in ActionId : CreatePendingAction(a)
    \/ \E r \in RunId : ApprovePendingAction(r) \/ RejectPendingAction(r)
    \/ \E w \in Dispatcher : RegisterWorker(w) \/ DrainWorker(w) \/ StopWorker(w)
    \/ \E w \in Dispatcher : SelectDispatchable(w) \/ ClaimDispatched(w)
    \/ \E r \in RunId, w \in Continuation : SelectApproved(r, w)
    \/ \E w \in Continuation : ClaimApproved(w)
    \/ \E w \in WorkerId : LoseClaim(w)
    \/ \E p \in Sweeper : SelectStale(p) \/ RecoverStale(p)
    \/ \E p \in Caller : Abandon(p)
    \/ \E a \in ActionId, w \in WorkerId : RenewActionLease(a, w)
    \/ \E a \in ActionId, succeeded \in BOOLEAN : FinishPendingAction(a, succeeded)
    \/ Tick

LedgerSpec == LedgerInit /\ [][LedgerNext]_ledgerVars

--------------------------------------------------------------------------
(* Properties                                                              *)

\* The attempt rows of a row that has been claimed and has not settled.
ClaimEvidence(a) ==
    IF actions[a].attempt = 0
    THEN << >>
    ELSE << Evidence("CLAIMED", actions[a].worker, actions[a].attempt) >>

SettledAs(a) == IF actions[a].recovered THEN "RECOVERED" ELSE actions[a].status

(* action_attempts tells the same story as pending_actions, whatever the   *)
(* interleaving of claims, sweeps and late completions: nothing before a   *)
(* claim, at most the one CLAIMED row while executing, and after that      *)
(* exactly one outcome row, RECOVERED if and only if a sweep failed the    *)
(* action, naming the worker that held it (repository.py:531, 725, 787).   *)
EvidenceMatchesStatus ==
    \A a \in ActionId :
        attempts[a] = CASE actions[a].status \in Unclaimed   -> << >>
                        [] actions[a].status = "EXECUTING"   -> ClaimEvidence(a)
                        [] actions[a].status \in Settled     ->
                              Append(ClaimEvidence(a), OutcomeRow(a, SettledAs(a)))

(* A row has an owner and a lease exactly from its claim on, and the lease *)
(* of an executing row ends at most LeaseSeconds from now: however a       *)
(* worker dies, its action becomes recoverable within one lease            *)
(* (repository.py:531, 667, 704).                                          *)
LeaseWithinHorizon ==
    \A a \in ActionId :
        /\ (actions[a].worker = NoWorker) <=> (actions[a].status \in Unclaimed)
        /\ (actions[a].lease = NoLease) <=> (actions[a].status \in Unclaimed)
        /\ actions[a].status = "EXECUTING" => actions[a].lease <= now + LeaseSeconds

(* An action belongs to the worker that claimed it for ever: no later      *)
(* claim, renewal, sweep or completion hands it to another, and no step    *)
(* shortens its lease (repository.py:704 "only when it remains owned").    *)
OwnerKept ==
    \A a \in ActionId :
        actions[a].worker # NoWorker =>
            /\ actions'[a].worker = actions[a].worker
            /\ actions'[a].lease >= actions[a].lease
OwnerNeverChanges == [][OwnerKept]_ledgerVars

(* docs/multi-process-worker-dispatch-design.md:283 "Live owner heartbeat  *)
(* | Lease extends and recovery sweep does not fail the action": a sweep   *)
(* fails only actions whose lease has expired (repository.py:725-757).     *)
RecoversOnlyExpired ==
    \A a \in ActionId :
        (actions'[a].recovered /\ ~actions[a].recovered) => LeaseExpired(a)
LiveLeaseNotRecovered == [][RecoversOnlyExpired]_ledgerVars

\* The promise of ActionLifecycle, read off the rows.
Lifecycle == INSTANCE ActionLifecycle WITH
    phase  <- [a \in ActionId |-> actions[a].status],
    holder <- [a \in ActionId |-> actions[a].worker]

(* Whatever the callers do, each action is decided, claimed and settled at *)
(* most once and only in that order.                                       *)
ImplementsLifecycle == Lifecycle!Spec

==========================================================================
