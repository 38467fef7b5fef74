--------------------------- MODULE AgentRuntime ---------------------------
(***************************************************************************)
(* The processes of the agent over one SQLite file:                        *)
(*   - a driver per run, which registers it, takes it to EXECUTE and runs  *)
(*     its ReAct loop until the model answers or asks for a risky tool     *)
(*     (evaluation/coding_tasks.py:_run_task);                             *)
(*   - the API process: cancel, authorize and drain requests (Api) and     *)
(*     /continue requests (Continuation), which share one event loop and   *)
(*     interleave only where a handler awaits;                             *)
(*   - dispatch workers, operating-system processes of their own.          *)
(* A step is at most one transaction, so the multi-transaction calls of    *)
(* RunLifecycleService interleave with those of every other process.       *)
(*                                                                         *)
(* proc[p].pc says where p is in its program.  proc[p].step says where it  *)
(* is inside cancel_if_requested or transition, the two calls everything   *)
(* else is built on: "flag" and then "check", "write", "release".          *)
(***************************************************************************)
EXTENDS ActionLedger, RunControl

CONSTANTS
    AwaitingTools,  \* tools whose handler yields to the event loop; the shipped ones do not
    MaxTurns,       \* turns of one ReAct loop, default_max_tool_calls + 1
    Disturbed,      \* bound: workers that may be drained, signalled or killed
    ApiMayCrash     \* bound: whether the API process may be killed and restarted

ASSUME RuntimeConstants ==
    /\ AwaitingTools \subseteq Tool
    /\ MaxTurns \in Nat \ {0}
    /\ Disturbed \subseteq Dispatcher
    /\ ApiMayCrash \in BOOLEAN
    /\ RunId \cap Caller = {}              \* drivers, workers, requests and the API
    /\ Dispatcher \cap Continuation = {}   \* are processes of their own
    /\ Api \notin WorkerId

VARIABLES
    proc,           \* [Process -> program counter and locals]
    ran,            \* history: how often an action's tool handler was started
    outcome,        \* history: what the handler and its verification returned
    consented,      \* history: actions a person approved while shown to them
    drained         \* history: workers an operator has asked to drain

history == <<ran, outcome, consented, drained>>
vars == <<ledgerVars, runVars, proc, history>>

--------------------------------------------------------------------------
Driver     == RunId                         \* a driver is named after its run
ApiProcess == Continuation \cup {Api}
Executor   == Dispatcher \cup Continuation  \* who runs approved actions
Process    == Driver \cup Executor \cup {Api}

StartOf(p) == CASE p \in Driver       -> "new"
                [] p \in Dispatcher   -> "off"
                [] p \in Continuation -> "idle"
                [] p = Api            -> "bootSweep"

RuntimeInit ==
    /\ LedgerInit /\ RunInit
    /\ proc = [p \in Process |->
                 [pc |-> StartOf(p), step |-> "none", goal |-> "none",
                  run |-> IF p \in Driver THEN p ELSE NoRun,
                  act |-> NoAction, asked |-> NoAction,
                  turn |-> 0, want |-> "none", verdict |-> FALSE]]
    /\ ran = [a \in ActionId |-> 0]
    /\ outcome = [a \in ActionId |-> "none"]
    /\ consented = [a \in ActionId |-> FALSE]
    /\ drained = [w \in Dispatcher |-> FALSE]

\* A coroutine of the API process gives up the event loop at its awaits only.
AtAwait(p) ==
    \/ proc[p].pc \in {"idle", "end", "killed", "settle"}
    \/ proc[p].pc = "loop" /\ proc[p].step = "none"
    \/ proc[p].pc = "inTool" /\ ToolOf[proc[p].act] \in AwaitingTools
MayRun(p) == p \in ApiProcess => \A q \in ApiProcess \ {p} : AtAwait(q)

\* p stands at label l, in no lifecycle call, and may take a step.
At(p, l) == proc[p].pc = l /\ proc[p].step = "none" /\ MayRun(p)
Goto(p, l) == proc' = [proc EXCEPT ![p].pc = l]

\* p enters transition(goal) and comes back at label l.
Transit(p, l, goal) ==
    proc' = [proc EXCEPT ![p].pc = l, ![p].step = "check", ![p].goal = goal]

--------------------------------------------------------------------------
(* transition and cancel_if_requested                                      *)

\* Where a worker or a request goes when its work on an action is over.
Rest(p) == IF p \in Dispatcher THEN "poll" ELSE "end"

\* A LifecycleError inside resume_claimed_action: a worker fails its action,
\* the API answers 500 and leaves the action as it is.
Abort(p) == IF p \in Dispatcher THEN "drop" ELSE "end"

\* The label after a lifecycle call at label l: "no" and "ok" are its results
\* FALSE and TRUE, "illegal" its LifecycleError.
After(p, result) ==
    LET l == proc[p].pc
    IN  CASE l = "claimed"    -> [no |-> "execute", ok |-> "drop", illegal |-> "dying"][result]
          [] l = "open"       -> [no |-> "claim", ok |-> "end", illegal |-> "end"][result]
          [] l = "execute"    -> [no |-> "running", ok |-> "settle", illegal |-> Abort(p)][result]
          [] l = "loop"       -> [no |-> IF proc[p].want = "risky" THEN "request" ELSE "loop",
                                  ok |-> Rest(p), illegal |-> Abort(p)][result]
          [] l = "park"       -> Rest(p)
          [] l = "toValidate" -> [ok |-> "toPlan", illegal |-> "end"][result]
          [] l = "toPlan"     -> [ok |-> "toExecute", illegal |-> "end"][result]
          [] l = "toExecute"  -> [ok |-> "loop", illegal |-> "end"][result]
          [] l = "finish"     -> "end"
          [] l = "decide"     -> "idle"

\* Labels that are themselves a lifecycle call.
StepAt(l) == CASE l = "execute" -> "flag"
               [] l \in {"toValidate", "toPlan", "toExecute"} -> "check"
               [] OTHER -> "none"
GoalAt(l) == CASE l = "toValidate" -> "VALIDATE"
               [] l = "toPlan"     -> "PLAN"
               [] l = "toExecute"  -> "EXECUTE"
               [] OTHER            -> "none"

Resume(p, result) ==
    LET l == After(p, result)
    IN  proc' = [proc EXCEPT ![p].pc = l, ![p].step = StepAt(l), ![p].goal = GoalAt(l),
                             ![p].want = "none",
                             ![p].act = IF l = "poll" THEN NoAction ELSE @,
                             ![p].asked = NoAction,
                             ![p].turn = IF l = "loop" THEN @ ELSE 0]

InStep(p, s) == proc[p].step = s /\ MayRun(p)

\* cancel_requested is never cleared, so the flag and the state it guards may
\* be read in one step.
ReadCancelFlag(p) ==
    LET r == proc[p].run
    IN  /\ InStep(p, "flag")
        /\ IF cancelRequested[r] /\ runs[r] \notin Terminal
           THEN Transit(p, proc[p].pc, "CANCELLED")
           ELSE Resume(p, "no")
        /\ UNCHANGED <<ledgerVars, runVars, history>>

CheckTransition(p) ==
    /\ InStep(p, "check")
    /\ IF proc[p].goal \in ValidTransitions[runs[proc[p].run]]
       THEN proc' = [proc EXCEPT ![p].step = "write"]
       ELSE Resume(p, "illegal")
    /\ UNCHANGED <<ledgerVars, runVars, history>>

WriteTransition(p) ==
    /\ InStep(p, "write")
    /\ UpdateRun(proc[p].run, proc[p].goal)
    /\ IF proc[p].goal \in Terminal
       THEN proc' = [proc EXCEPT ![p].step = "release"]
       ELSE Resume(p, "ok")
    /\ UNCHANGED <<ledgerVars, history>>

ReleaseLock(p) ==
    /\ InStep(p, "release")
    /\ ReleaseSessionLock(proc[p].run)
    /\ Resume(p, "ok")
    /\ UNCHANGED <<ledgerVars, history>>

\* The prompt or the runtime of a claimed action cannot be built: the worker gives
\* the claim up before the continuation looks for a cancellation.  A request to
\* continue builds its runtime before it claims anything.
BuildFails(p) ==
    /\ p \in Dispatcher /\ proc[p].pc = "execute"
    /\ InStep(p, "flag")
    /\ Resume(p, "illegal")
    /\ UNCHANGED <<ledgerVars, runVars, history>>

LifecycleCall(p) ==
    \/ ReadCancelFlag(p) \/ CheckTransition(p) \/ WriteTransition(p) \/ ReleaseLock(p)
    \/ BuildFails(p)

--------------------------------------------------------------------------
(* The driver of a run                                                     *)

RegisterRun(r) ==
    /\ At(r, "new")
    /\ CreateRun(r)
    /\ Goto(r, "lock")
    /\ UNCHANGED <<ledgerVars, history>>

LockWorkspace(r) ==
    /\ At(r, "lock")
    /\ AcquireSessionLock(r)
    /\ Transit(r, "toValidate", "VALIDATE")
    /\ UNCHANGED <<ledgerVars, history>>

WorkspaceBusy(r) ==
    /\ At(r, "lock")
    /\ ~WorkspaceFree(r)
    /\ Goto(r, "refused")
    /\ UNCHANGED <<ledgerVars, runVars, history>>

RefuseRun(r) ==
    /\ At(r, "refused")
    /\ UpdateRun(r, "FAILED")
    /\ Goto(r, "end")
    /\ UNCHANGED <<ledgerVars, history>>

DriverStart(r) == RegisterRun(r) \/ LockWorkspace(r) \/ WorkspaceBusy(r) \/ RefuseRun(r)

--------------------------------------------------------------------------
(* The ReAct loop, in whichever process it runs                            *)

\* The loop ends with an answer, a model failure or its last turn.  Only a
\* driver tries to record that; nobody does after a continuation.
ModelAnswers(p) ==
    /\ At(p, "loop")
    /\ IF p \in Driver
       THEN \E s \in {"COMPLETE", "PARTIAL", "FAILED"} :
               /\ s = "PARTIAL" <=> proc[p].turn = MaxTurns
               /\ Transit(p, "finish", s)
       ELSE proc' = [proc EXCEPT ![p].pc = Rest(p), ![p].turn = 0,
                                 ![p].act = IF Rest(p) = "poll" THEN NoAction ELSE @]
    /\ UNCHANGED <<ledgerVars, runVars, history>>

\* Faulty variant: a loop with no last turn.
ModelCallsAnyTool(p) ==
    /\ At(p, "loop")
    /\ \E want \in {"safe", "risky"} :
          /\ want = "risky" => \E a \in InStatus("ABSENT") : RunOf[a] = proc[p].run
          /\ proc' = [proc EXCEPT ![p].step = "flag", ![p].want = want, ![p].turn = @ + 1]
    /\ UNCHANGED <<ledgerVars, runVars, history>>

\* The executor looks for a cancellation before it routes any call.
ModelCallsTool(p) ==
    /\ At(p, "loop")
    /\ proc[p].turn < MaxTurns
    /\ \E want \in {"safe", "risky"} :
          /\ want = "risky" => \E a \in InStatus("ABSENT") : RunOf[a] = proc[p].run
          /\ proc' = [proc EXCEPT ![p].step = "flag", ![p].want = want, ![p].turn = @ + 1]
    /\ UNCHANGED <<ledgerVars, runVars, history>>

\* require_authorization: the request, what the user is shown, the transition.
RequestAction(p) ==
    /\ At(p, "request")
    /\ \E a \in ActionId :
          /\ RunOf[a] = proc[p].run
          /\ CreatePendingAction(a)
          /\ proc' = [proc EXCEPT ![p].pc = "show", ![p].asked = a]
    /\ UNCHANGED <<runVars, history>>

ShowRequest(p) ==
    /\ At(p, "show")
    /\ SetPendingAuthorization(proc[p].run, proc[p].asked)
    /\ Transit(p, "park", "AUTHORIZATION_REQUIRED")
    /\ UNCHANGED <<ledgerVars, history>>

ReActStep(p) == ModelAnswers(p) \/ ModelCallsTool(p) \/ RequestAction(p) \/ ShowRequest(p)

--------------------------------------------------------------------------
(* Running an approved action: resume_claimed_action                       *)

StartTool(p) ==
    /\ At(p, "running")
    /\ ran' = [ran EXCEPT ![proc[p].act] = @ + 1]
    /\ Goto(p, "inTool")
    /\ UNCHANGED <<ledgerVars, runVars, outcome, consented, drained>>

\* The router stops the call before its handler: arguments, budget, repetition.
BlockTool(p) ==
    /\ At(p, "running")
    /\ Goto(p, "settle")
    /\ UNCHANGED <<ledgerVars, runVars, history>>

\* _heartbeat gets the event loop only while a handler awaits.
RenewLease(p) ==
    /\ At(p, "inTool")
    /\ ToolOf[proc[p].act] \in AwaitingTools
    /\ RenewActionLease(proc[p].act, p)
    /\ UNCHANGED <<runVars, proc, history>>

EndTool(p) ==
    /\ At(p, "inTool")
    /\ \E verified \in BOOLEAN :
          /\ outcome' = [outcome EXCEPT ![proc[p].act] = IF verified THEN "verified" ELSE "failed"]
          /\ proc' = [proc EXCEPT ![p].pc = "settle", ![p].verdict = verified]
    /\ UNCHANGED <<ledgerVars, runVars, ran, consented, drained>>

\* Faulty variant: a late result overwrites what the sweep wrote.
FinishLate(a, succeeded) ==
    /\ actions' = [actions EXCEPT ![a].status = Verdict(succeeded)]
    /\ UNCHANGED <<now, attempts, workers, hand>>

\* finish_pending_action, a no-op when a sweep has settled the row meanwhile.
FinishOrNot(a, succeeded) ==
    \/ FinishPendingAction(a, succeeded)
    \/ actions[a].status # "EXECUTING" /\ UNCHANGED ledgerVars

\* The result is recorded, announced as "executed exactly once", and the
\* conversation goes on from it, whatever it was.
SettleAction(p) ==
    /\ At(p, "settle")
    /\ FinishOrNot(proc[p].act, proc[p].verdict)
    /\ proc' = [proc EXCEPT ![p].pc = "loop", ![p].verdict = FALSE]
    /\ UNCHANGED <<runVars, history>>

ExecuteStep(p) ==
    StartTool(p) \/ BlockTool(p) \/ RenewLease(p) \/ EndTool(p) \/ SettleAction(p)

--------------------------------------------------------------------------
(* A dispatch worker: LocalDispatchWorker                                  *)

BootWorker(w) ==
    /\ At(w, "off") \/ At(w, "register")
    /\ RegisterWorker(w)
    /\ Goto(w, IF proc[w].pc = "off" THEN "bootSweep" ELSE "sweep")
    /\ UNCHANGED <<runVars, history>>

Swept(p) == CASE p = Api                               -> "idle"
              [] p # Api /\ proc[p].pc = "bootSweep" -> "poll"
              [] p # Api /\ proc[p].pc = "sweep"     -> "claim"

\* recover_stale_executing_actions: a worker's, or the API's at startup.
SweepStep(p) ==
    /\ At(p, "bootSweep") \/ At(p, "sweep")
    /\ \/ SelectStale(p) /\ UNCHANGED proc
       \/ RecoverStale(p) /\ Goto(p, Swept(p))
       \/ Free(p) /\ Stale = {} /\ Goto(p, Swept(p)) /\ UNCHANGED ledgerVars
    /\ UNCHANGED <<runVars, history>>

\* Faulty variant: sweeps happen at startup only.
HeartbeatOnly(w) ==
    /\ At(w, "poll")
    /\ Goto(w, IF HeartbeatAccepted(w) THEN "claim" ELSE "register")
    /\ UNCHANGED <<ledgerVars, runVars, history>>

\* A refused heartbeat sends run_once back to start; a sweep may be due.
HeartbeatWorker(w) ==
    /\ At(w, "poll")
    /\ IF HeartbeatAccepted(w)
       THEN Goto(w, "claim") \/ Goto(w, "sweep")
       ELSE Goto(w, "register")
    /\ UNCHANGED <<ledgerVars, runVars, history>>

ClaimStep(w) ==
    /\ At(w, "claim")
    /\ \/ SelectDispatchable(w) /\ UNCHANGED proc
       \/ /\ ClaimDispatched(w)
          /\ \E a \in hand[w].rows :
                proc' = [proc EXCEPT ![w].pc = "claimed", ![w].step = "flag",
                                     ![w].act = a, ![w].run = RunOf[a]]
       \/ LoseClaim(w) /\ Goto(w, "poll")
       \/ /\ Free(w)
          /\ workers[w] # "ACTIVE" \/ Dispatchable(w) = {}
          /\ Goto(w, "poll")
          /\ UNCHANGED ledgerVars
    /\ UNCHANGED <<runVars, history>>

\* A cancelled or failed claim is settled as FAILED, never retried.
DropClaim(w) ==
    /\ At(w, "drop")
    /\ FinishOrNot(proc[w].act, FALSE)
    /\ proc' = [proc EXCEPT ![w].pc = "poll", ![w].act = NoAction]
    /\ UNCHANGED <<runVars, history>>

WorkerStep(w) ==
    BootWorker(w) \/ SweepStep(w) \/ HeartbeatWorker(w) \/ ClaimStep(w) \/ DropClaim(w)

\* SIGTERM between two polls.
StopSignal(w) ==
    /\ w \in Disturbed
    /\ At(w, "poll")
    /\ Goto(w, "dying")
    /\ UNCHANGED <<ledgerVars, runVars, history>>

\* The finally block of run: drain, then stop.
WorkerExit(w) ==
    /\ \/ At(w, "dying") /\ DrainWorker(w) /\ Goto(w, "stopping")
       \/ At(w, "dying") /\ workers[w] # "ACTIVE" /\ Goto(w, "stopping") /\ UNCHANGED ledgerVars
       \/ At(w, "stopping") /\ StopWorker(w) /\ Goto(w, "stopped")
    /\ UNCHANGED <<runVars, history>>

WorkerCrash(w) ==
    /\ w \in Disturbed
    /\ proc[w].pc \notin {"off", "killed", "stopped"}
    /\ proc' = [proc EXCEPT ![w].pc = "killed", ![w].step = "none"]
    /\ Abandon(w) \/ (Free(w) /\ UNCHANGED ledgerVars)
    /\ UNCHANGED <<runVars, history>>

--------------------------------------------------------------------------
(* The API process                                                         *)

\* Reading that the run is not terminal and setting the flag is one step: a
\* flag set on a run that ends in between is a flag set just before it ends.
CancelRequest(r) ==
    /\ At(Api, "idle")
    /\ runs[r] \notin Terminal \cup {"ABSENT"}
    /\ RequestCancellation(r)
    /\ UNCHANGED <<ledgerVars, proc, history>>

\* Bound: an operator drains a worker once.
DrainRequest(w) ==
    /\ At(Api, "idle")
    /\ w \in Disturbed /\ ~drained[w]
    /\ DrainWorker(w)
    /\ drained' = [drained EXCEPT ![w] = TRUE]
    /\ UNCHANGED <<runVars, proc, ran, outcome, consented>>

\* resolve_authorization: consume the request, decide the action, move the run.
AuthorizeRequest(r) ==
    /\ At(Api, "idle")
    /\ pendingAuth[r] # NoAction
    /\ ResolveAuthorization(r)
    /\ \E approved \in BOOLEAN :
          /\ proc' = [proc EXCEPT ![Api].pc = IF approved THEN "approve" ELSE "reject",
                                  ![Api].run = r]
          /\ consented' = [consented EXCEPT ![pendingAuth[r]] = approved]
    /\ UNCHANGED <<ledgerVars, ran, outcome, drained>>

Approve ==
    /\ At(Api, "approve")
    /\ ApprovePendingAction(proc[Api].run)
    /\ Goto(Api, "confirm")
    /\ UNCHANGED <<runVars, history>>

\* approve_pending_action returns the newest unsettled row, or nothing.
ConfirmApproval ==
    /\ At(Api, "confirm")
    /\ IF NewestActive(proc[Api].run) = {}
       THEN Goto(Api, "idle")
       ELSE Transit(Api, "decide", "EXECUTE")
    /\ UNCHANGED <<ledgerVars, runVars, history>>

Reject ==
    /\ At(Api, "reject")
    /\ RejectPendingAction(proc[Api].run)
    /\ Transit(Api, "decide", "PARTIAL")
    /\ UNCHANGED <<runVars, history>>

ApiStep == Approve \/ ConfirmApproval \/ Reject \/ SweepStep(Api)

ContinueRequest(c, r) ==
    /\ At(c, "idle")
    /\ runs[r] # "ABSENT"
    /\ proc' = [proc EXCEPT ![c].pc = "open", ![c].step = "flag", ![c].run = r]
    /\ UNCHANGED <<ledgerVars, runVars, history>>

ContinuationStep(c) ==
    /\ At(c, "claim")
    /\ \/ SelectApproved(proc[c].run, c) /\ UNCHANGED proc
       \/ /\ ClaimApproved(c)
          /\ \E a \in hand[c].rows :
                proc' = [proc EXCEPT ![c].pc = "execute", ![c].step = "flag", ![c].act = a]
       \/ LoseClaim(c) /\ Goto(c, "end")
       \/ Free(c) /\ ApprovedOf(proc[c].run) = {} /\ Goto(c, "end") /\ UNCHANGED ledgerVars
    /\ UNCHANGED <<runVars, history>>

\* Killed and restarted: requests under way are lost, the startup sweep runs.
ApiCrash ==
    /\ ApiMayCrash
    /\ \E p \in ApiProcess : proc[p].pc \notin {"idle", "end", "killed"}
    /\ proc' = [p \in Process |->
                  IF p = Api THEN [proc[p] EXCEPT !.pc = "bootSweep", !.step = "none"]
                  ELSE IF p \in Continuation /\ proc[p].pc \notin {"idle", "end"}
                  THEN [proc[p] EXCEPT !.pc = "killed", !.step = "none"]
                  ELSE proc[p]]
    /\ \E p \in ApiProcess : /\ \A q \in ApiProcess \ {p} : Free(q)
                             /\ Abandon(p) \/ (Free(p) /\ UNCHANGED ledgerVars)
    /\ UNCHANGED <<runVars, history>>

TimePasses == Tick /\ UNCHANGED <<runVars, proc, history>>

--------------------------------------------------------------------------
\* What each process does by itself, without a client, a signal or a crash.
ProcessStep(p) ==
    \/ LifecycleCall(p)
    \/ p \in Driver /\ DriverStart(p)
    \/ p \in Driver \cup Executor /\ ReActStep(p)
    \/ p \in Executor /\ ExecuteStep(p)
    \/ p \in Dispatcher /\ (WorkerStep(p) \/ WorkerExit(p))
    \/ p \in Continuation /\ ContinuationStep(p)
    \/ p = Api /\ ApiStep

RuntimeNext ==
    \/ \E p \in Process : ProcessStep(p)
    \/ \E r \in RunId : CancelRequest(r) \/ AuthorizeRequest(r)
    \/ \E c \in Continuation, r \in RunId : ContinueRequest(c, r)
    \/ \E w \in Dispatcher : DrainRequest(w) \/ StopSignal(w) \/ WorkerCrash(w)
    \/ ApiCrash
    \/ TimePasses

RuntimeSpec == RuntimeInit /\ [][RuntimeNext]_vars

\* Every process keeps running until it stops or dies: the scheduler runs it,
\* a tool returns (the sandbox has a timeout) and so does the model.  A worker
\* that keeps polling sweeps again and again, because sweeps are due on the
\* clock.  Clients, operators, signals and crashes owe nothing.
FairSpec ==
    /\ RuntimeSpec
    /\ \A p \in Process : WF_vars(ProcessStep(p))
    /\ \A w \in Dispatcher : SF_vars(HeartbeatWorker(w) /\ Goto(w, "sweep"))
    /\ WF_vars(TimePasses)

--------------------------------------------------------------------------
(* Properties                                                              *)

Label == {"new", "lock", "refused", "toValidate", "toPlan", "toExecute", "finish",
          "loop", "request", "show", "park", "off", "register", "bootSweep", "sweep",
          "poll", "claim", "claimed", "drop", "dying", "stopping", "stopped", "killed",
          "execute", "running", "inTool", "settle", "idle", "open", "approve", "confirm",
          "reject", "decide", "end"}

ProcessState == [pc : Label, step : {"none", "flag", "check", "write", "release"},
                 goal : AgentState \cup {"none"}, run : RunId \cup {NoRun},
                 act : ActionId \cup {NoAction}, asked : ActionId \cup {NoAction},
                 turn : 0 .. MaxTurns, want : {"none", "safe", "risky"}, verdict : BOOLEAN]

RuntimeTypeOK ==
    /\ LedgerTypeOK
    /\ RunTypeOK
    /\ proc \in [Process -> ProcessState]
    /\ ran \in [ActionId -> Nat]
    /\ outcome \in [ActionId -> {"none", "verified", "failed"}]
    /\ consented \in [ActionId -> BOOLEAN]
    /\ drained \in [Dispatcher -> BOOLEAN]

AtMostOne(S) == \A x, y \in S : x = y

(* However claims by workers, claims by /continue, crashes and recovery    *)
(* sweeps interleave, the handler of an approved action is started at most *)
(* once (continuation.py:71 "never claim it again", worker_dispatch.py:40).*)
ToolRunsAtMostOnce == \A a \in ActionId : ran[a] <= 1

(* A risky tool runs only if a person said yes while that very action was  *)
(* the one shown to them, although /authorize names a run, not an action,  *)
(* and approve_pending_action decides by run (lifecycle.py:140).           *)
ConsentBeforeRun == \A a \in ActionId : ran[a] > 0 => consented[a]

(* A run has one thread of control that its driver, its pending action and *)
(* the executor of that action hand to each other: never two live actions, *)
(* never two processes in its conversation, not even when a sweep fails an *)
(* action whose executor is still working (repository.py:617 relies on it: *)
(* get_pending_action takes the newest row for the one just created).      *)
InConversation(r) ==
    {p \in Driver \cup Executor :
        /\ proc[p].run = r
        /\ proc[p].pc \in {"loop", "request", "show", "execute", "running", "inTool", "settle"}}
OneThreadPerRun ==
    \A r \in RunId :
        /\ AtMostOne({a \in ActionId : RunOf[a] = r /\ actions[a].status \in Active})
        /\ AtMostOne(InConversation(r))

(* What GET /pending-authorization shows is still undecided: an answer can *)
(* never land on an action that was claimed, settled or answered before    *)
(* (lifecycle.py:109, 140).                                                *)
ShownIsPending ==
    \A r \in RunId : pendingAuth[r] # NoAction => actions[pendingAuth[r]].status = "PENDING"

(* The durable outcome agrees with what happened: EXECUTED only after a    *)
(* verified run, FAILED by its executor only when there was none; only a   *)
(* sweep may fail an action that succeeded (continuation.py:103).          *)
OutcomeIsTrue ==
    \A a \in ActionId :
        /\ actions[a].status = "EXECUTED" => outcome[a] = "verified"
        /\ (actions[a].status = "FAILED" /\ ~actions[a].recovered) => outcome[a] # "verified"

(* Until somebody asks to cancel it, a run that passed registration and    *)
(* has not ended owns its workspace, so no second run works there: neither *)
(* a refused run nor the end of another run frees it (lifecycle.py:37      *)
(* "Own per-session locking").                                             *)
WorkspaceOwned ==
    \A r \in RunId :
        (/\ ~cancelRequested[r]
         /\ proc[r].pc \notin {"new", "lock", "refused"}
         /\ runs[r] \notin Terminal) => locks[WorkspaceOf[r]] = r

(* The processes together make only the ledger's moves, so what is proved  *)
(* of the ledger for every caller holds of the running system.             *)
ImplementsLedger == LedgerSpec

AllWorkersGone == \A w \in Dispatcher : proc[w].pc \in {"dying", "stopping", "stopped", "killed"}

(* An action whose executor died, or is taking too long, is failed by a    *)
(* sweep as long as one worker lives (worker_dispatch.py:130).             *)
ExecutingSettles ==
    \A a \in ActionId :
        (actions[a].status = "EXECUTING") ~> (actions[a].status \in Settled \/ AllWorkersGone)

(* An approved action that every worker can run does not wait for ever     *)
(* (worker_dispatch.py:61).                                                *)
ApprovedIsTaken ==
    \A a \in ActionId :
        (actions[a].status = "APPROVED" /\ \A w \in Dispatcher : ToolOf[a] \in Capabilities[w])
            ~> (actions[a].status # "APPROVED" \/ AllWorkersGone)

--------------------------------------------------------------------------
(* What the repository says of the program, and the program does not do    *)

(* docs/multi-process-worker-dispatch-design.md:286 "Cancelled action | It *)
(* cannot be claimed or requeued.": no tool starts for a cancelled run     *)
(* (lifecycle.py:93, run_executor.py:49).                                  *)
StartsOnlyUncancelled ==
    \A a \in ActionId : ran'[a] > ran[a] => runs[RunOf[a]] # "CANCELLED"
CancelledNeverRuns == [][StartsOnlyUncancelled]_vars

(* lifecycle.py:157-160 a denial takes the run to PARTIAL, "Authorization  *)
(* denied; the pending tool operation was not executed.": once /authorize  *)
(* has answered, a denied run does not wait for an authorization.          *)
DenialEndsWait ==
    \A a \in ActionId :
        (actions[a].status = "REJECTED" /\ proc[Api].pc = "idle") =>
            runs[RunOf[a]] # "AUTHORIZATION_REQUIRED"

==========================================================================
