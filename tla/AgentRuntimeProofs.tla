------------------------ MODULE AgentRuntimeProofs ------------------------
(***************************************************************************)
(* Proofs about AgentRuntime, for any number of runs, actions, workers and *)
(* requests: its processes make only the ledger's moves, and start the     *)
(* handler of an action at most once.                                      *)
(***************************************************************************)
EXTENDS AgentRuntime, ActionLedgerProofs

USE RuntimeConstants, RunConstants, LedgerConstants

--------------------------------------------------------------------------
(* The inductive invariant.  Where a process stands says which of its      *)
(* locals mean something: without that, a step that names "the action in   *)
(* hand" need not be a move of the ledger at all.                          *)

Starting == {"new", "lock", "refused", "toValidate", "toPlan", "toExecute", "finish"}
Working  == {"claimed", "drop", "execute", "running", "inTool", "settle",
             "loop", "request", "show", "park"}
NeedsRun == Starting \cup Working \cup {"open", "approve", "confirm", "reject", "decide"}
Flagging == {"claimed", "open", "execute", "loop"}
Calling  == Flagging \cup {"park", "toValidate", "toPlan", "toExecute", "finish", "decide"}

LocalOK(p, s) ==
    /\ s \in ProcessState
    /\ s.pc \in Starting => p \in Driver
    /\ s.pc \in NeedsRun => s.run \in RunId
    /\ (p \in Continuation /\ s.pc = "claim") => s.run \in RunId
    /\ (p \in Executor /\ s.pc \in Working) => s.act \in ActionId
    /\ s.step = "flag" => s.pc \in Flagging
    /\ s.step \in {"check", "write", "release"} => s.pc \in Calling /\ s.goal \in AgentState

Procs ==
    /\ proc \in [Process -> ProcessState]
    /\ \A p \in Process : LocalOK(p, proc[p])

HistoryTyped ==
    /\ ran \in [ActionId -> Nat]
    /\ outcome \in [ActionId -> {"none", "verified", "failed"}]
    /\ consented \in [ActionId -> BOOLEAN]
    /\ drained \in [Dispatcher -> BOOLEAN]

Typed == LedgerTypeOK /\ RunTypeOK /\ HistoryTyped /\ Procs

\* A claim has selected at most one row.
HandsOneRow ==
    \A p \in Caller : hand[p].op \in {"dispatch", "continue"} => AtMostOne(hand[p].rows)

--------------------------------------------------------------------------
(* What one step of process p does, as far as the theorems care.           *)

Moves(p) ==
    /\ proc' \in [Process -> ProcessState]
    /\ LocalOK(p, proc'[p])
    /\ \A q \in Process \ {p} : proc'[q] = proc[q]

\* About to start the handler of the action in hand.
Holding == {"claimed", "execute", "running"}

\* p got to Holding by a claim, and stays there with the same action.
KeepsClaim(p) ==
    (p \in Executor /\ proc'[p].pc \in Holding) =>
        \/ proc[p].pc \in Holding /\ proc'[p].act = proc[p].act
        \/ /\ actions[proc'[p].act].status = "APPROVED"
           /\ actions'[proc'[p].act].worker = p

StartsTool(p) ==
    /\ p \in Executor /\ proc[p].pc = "running" /\ proc'[p].pc = "inTool"
    /\ ran' = [ran EXCEPT ![proc[p].act] = @ + 1]

StepOK(p) ==
    /\ [LedgerNext]_ledgerVars
    /\ RunTypeOK' /\ HistoryTyped'
    /\ Moves(p) /\ KeepsClaim(p)
    /\ ran' = ran \/ StartsTool(p)

\* The three ways to move: to a label, into transition, out of it.
LEMMA GotoMoves ==
    ASSUME Procs, NEW p \in Process, NEW l \in Label, Goto(p, l), proc[p].step = "none",
           l \in Starting => p \in Driver,
           l \in NeedsRun \/ (p \in Continuation /\ l = "claim") => proc[p].run \in RunId,
           (p \in Executor /\ l \in Working) => proc[p].act \in ActionId
    PROVE  Moves(p) /\ proc'[p].pc = l /\ proc'[p].act = proc[p].act
  <1>1. proc' = [proc EXCEPT ![p] = [proc[p] EXCEPT !.pc = l]]
    BY DEF Procs, Goto
  <1>2. proc[p] \in ProcessState
    BY DEF Procs
  <1>3. [proc[p] EXCEPT !.pc = l] \in ProcessState
    BY <1>2 DEF ProcessState
  <1>4. LocalOK(p, [proc[p] EXCEPT !.pc = l])
    BY <1>2, <1>3 DEF LocalOK, ProcessState
  <1> QED
    BY <1>1, <1>2, <1>3, <1>4 DEF Moves, Procs, ProcessState

LEMMA TransitMoves ==
    ASSUME Procs, NEW p \in Process, NEW l \in Calling, NEW goal \in AgentState,
           Transit(p, l, goal),
           l \in Starting => p \in Driver,
           l \in NeedsRun => proc[p].run \in RunId,
           (p \in Executor /\ l \in Working) => proc[p].act \in ActionId
    PROVE  Moves(p) /\ proc'[p].pc = l /\ proc'[p].act = proc[p].act
  <1> DEFINE s == [proc[p] EXCEPT !.pc = l, !.step = "check", !.goal = goal]
  <1>1. proc' = [proc EXCEPT ![p] = s]
    BY DEF Procs, Transit
  <1>2. proc[p] \in ProcessState /\ l \in Label
    BY DEF Procs, Calling, Flagging, Label
  <1>3. s \in ProcessState
    BY <1>2 DEF ProcessState
  <1>4. s.pc = l /\ s.step = "check" /\ s.goal = goal /\ s.run = proc[p].run /\ s.act = proc[p].act
    BY <1>2 DEF ProcessState
  <1>5. LocalOK(p, s)
    <2>1. l # "claim" /\ s.step # "flag"
      BY <1>4 DEF Calling, Flagging
    <2> HIDE DEF s
    <2> QED
      BY <1>3, <1>4, <2>1 DEF LocalOK
  <1> HIDE DEF s
  <1> QED
    BY <1>1, <1>3, <1>4, <1>5 DEF Moves, Procs

LEMMA ResumeMoves ==
    ASSUME Procs, NEW p \in Process, NEW result, Resume(p, result),
           After(p, result) \in Label,
           After(p, result) \in Starting => p \in Driver,
           After(p, result) \in NeedsRun \/ (p \in Continuation /\ After(p, result) = "claim")
               => proc[p].run \in RunId,
           (p \in Executor /\ After(p, result) \in Working) => proc[p].act \in ActionId
    PROVE  /\ Moves(p) /\ proc'[p].pc = After(p, result)
           /\ After(p, result) # "poll" => proc'[p].act = proc[p].act
  <1> DEFINE l == After(p, result)
             left == IF l = "poll" THEN NoAction ELSE proc[p].act
             turns == IF l = "loop" THEN proc[p].turn ELSE 0
             s == [proc[p] EXCEPT !.pc = l, !.step = StepAt(l), !.goal = GoalAt(l),
                                  !.want = "none", !.act = left, !.asked = NoAction,
                                  !.turn = turns]
  <1>1. proc' = [proc EXCEPT ![p] = s]
    BY DEF Procs, Resume
  <1>2. proc[p] \in ProcessState
    BY DEF Procs
  <1> HIDE DEF l
  <1>3. /\ StepAt(l) \in {"none", "flag", "check"}
        /\ StepAt(l) = "flag" => l = "execute"
        /\ StepAt(l) = "check" => l \in {"toValidate", "toPlan", "toExecute"}
        /\ GoalAt(l) \in AgentState \cup {"none"}
        /\ StepAt(l) = "check" => GoalAt(l) \in AgentState
    BY DEF StepAt, GoalAt, AgentState
  <1>4. s \in ProcessState
    <2>1. /\ l \in Label /\ left \in ActionId \cup {NoAction} /\ turns \in 0 .. MaxTurns
          /\ StepAt(l) \in {"none", "flag", "check", "write", "release"}
      BY <1>2, <1>3 DEF l, ProcessState
    <2> HIDE DEF l, left, turns
    <2> QED
      BY <1>2, <1>3, <2>1 DEF ProcessState
  <1>5. /\ s.pc = l /\ s.step = StepAt(l) /\ s.goal = GoalAt(l) /\ s.run = proc[p].run
        /\ l # "poll" => s.act = proc[p].act
    BY <1>2 DEF ProcessState
  <1> HIDE DEF s
  <1>6. LocalOK(p, s)
    BY <1>3, <1>4, <1>5 DEF LocalOK, l, Flagging, Calling, Working
  <1> QED
    BY <1>1, <1>4, <1>5, <1>6 DEF Moves, Procs, l

--------------------------------------------------------------------------
(* One lemma per part of the program.                                      *)

\* A step that leaves the ledger and the histories alone.
LEMMA OutsideLedger ==
    ASSUME HistoryTyped, NEW p, UNCHANGED <<ledgerVars, history>>, RunTypeOK', Moves(p),
           (p \in Executor /\ proc'[p].pc \in Holding) =>
               proc[p].pc \in Holding /\ proc'[p].act = proc[p].act
    PROVE  StepOK(p)
  BY DEF StepOK, HistoryTyped, history, KeepsClaim

LEMMA RunTablesAlone ==
    ASSUME RunTypeOK, UNCHANGED runVars
    PROVE  RunTypeOK'
  BY DEF RunTypeOK, runVars

\* Where a lifecycle call returns to.
LEMMA ReturnLabels ==
    ASSUME Procs, NEW p \in Process, NEW result \in {"no", "ok", "illegal"},
           proc[p].pc \in Calling,
           result = "no" => proc[p].pc \in Flagging
    PROVE  /\ After(p, result) \in Label
           /\ After(p, result) \in Starting => p \in Driver
           /\ After(p, result) \in NeedsRun \/ (p \in Continuation /\ After(p, result) = "claim")
                => proc[p].run \in RunId
           /\ (p \in Executor /\ After(p, result) \in Working) => proc[p].act \in ActionId
           /\ (p \in Executor /\ After(p, result) \in Holding) => proc[p].pc \in Holding
           /\ After(p, result) = "poll" => After(p, result) \notin Holding
  <1>1. LocalOK(p, proc[p])
    BY DEF Procs
  <1>2. proc[p].run \in RunId
    BY <1>1 DEF LocalOK, Calling, Flagging, NeedsRun, Starting, Working
  <1>3. p \in Executor /\ proc[p].pc \in Working => proc[p].act \in ActionId
    BY <1>1 DEF LocalOK
  <1>4. proc[p].pc \in Starting => p \in Driver
    BY <1>1 DEF LocalOK
  <1>5. p \in Driver => p \notin Executor
    BY DEF Driver, Executor, Caller, WorkerId
  <1> DEFINE l == proc[p].pc
  <1>6. Rest(p) \in {"poll", "end"} /\ Abort(p) \in {"drop", "end"}
    BY DEF Rest, Abort
  <1>7. /\ l = "claimed" => After(p, result) \in {"execute", "drop", "dying"}
        /\ l = "open" => After(p, result) \in {"claim", "end"}
        /\ l = "execute" => After(p, result) \in {"running", "settle", Abort(p)}
    BY DEF After
  <1>8. l = "loop" => After(p, result) \in {"request", "loop", Rest(p), Abort(p)}
    BY DEF After
  <1>9. /\ l = "park" => After(p, result) = Rest(p)
        /\ l = "toValidate" /\ result # "no" => After(p, result) \in {"toPlan", "end"}
        /\ l = "toPlan" /\ result # "no" => After(p, result) \in {"toExecute", "end"}
        /\ l = "toExecute" /\ result # "no" => After(p, result) \in {"loop", "end"}
    BY DEF After
  <1>10. /\ l = "finish" => After(p, result) = "end"
         /\ l = "decide" => After(p, result) = "idle"
    BY DEF After
  <1>11. l \in {"claimed", "open", "execute", "loop", "park", "toValidate", "toPlan",
                "toExecute", "finish", "decide"}
    BY DEF Calling, Flagging
  <1>12. l \in {"park", "toValidate", "toPlan", "toExecute", "finish", "decide"} => result # "no"
    BY DEF Flagging
  <1> HIDE DEF l
  <1> DEFINE m == After(p, result)
  <1>13. /\ m \in {"execute", "drop", "dying", "claim", "end", "running", "settle", "request",
                   "loop", "poll", "toPlan", "toExecute", "idle"}
         /\ m \in {"toPlan", "toExecute"} => l \in {"toValidate", "toPlan"}
         /\ m \in {"execute", "drop", "running", "settle", "request", "loop"}
              => l \in {"claimed", "execute", "loop"} \/ (l = "toExecute" /\ m = "loop")
         /\ m \in {"execute", "running"} => l \in {"claimed", "execute"}
    BY <1>6, <1>7, <1>8, <1>9, <1>10, <1>11, <1>12
  <1> HIDE DEF m
  <1>14. /\ m \in Label
         /\ m \in Starting => m \in {"toPlan", "toExecute"}
         /\ m \in Working => m \in {"execute", "drop", "running", "settle", "request", "loop"}
         /\ m \in Holding => m \in {"execute", "running"}
         /\ l \in {"claimed", "execute", "loop"} => l \in Working
         /\ l \in {"toValidate", "toPlan", "toExecute"} => l \in Starting
         /\ l \in {"claimed", "execute"} => l \in Holding
    BY <1>13 DEF Label, Starting, Working, Holding
  <1> QED
    BY <1>2, <1>3, <1>4, <1>5, <1>13, <1>14 DEF l, m, Holding

LEMMA LifecycleCallOK ==
    ASSUME Typed, NEW p \in Process, LifecycleCall(p)
    PROVE  StepOK(p)
  <1>1. /\ Procs /\ RunTypeOK /\ HistoryTyped /\ LocalOK(p, proc[p])
    BY DEF Typed, Procs
  <1>2. proc[p].step \in {"flag", "check", "write", "release"}
    BY DEF LifecycleCall, ReadCancelFlag, CheckTransition, WriteTransition, ReleaseLock,
             BuildFails, InStep
  <1>3. /\ proc[p].pc \in Calling /\ proc[p].run \in RunId
        /\ proc[p].pc \in Starting => p \in Driver
        /\ (p \in Executor /\ proc[p].pc \in Working) => proc[p].act \in ActionId
        /\ proc[p].step = "flag" => proc[p].pc \in Flagging
        /\ proc[p].step \in {"check", "write", "release"} => proc[p].goal \in AgentState
        /\ proc[p] \in ProcessState
    BY <1>1, <1>2 DEF LocalOK, Calling, Flagging, NeedsRun, Starting, Working
  <1>4. UNCHANGED <<ledgerVars, history>>
    BY DEF LifecycleCall, ReadCancelFlag, CheckTransition, WriteTransition, ReleaseLock,
           BuildFails
  <1>5. ASSUME NEW result \in {"no", "ok", "illegal"}, Resume(p, result),
               result = "no" => proc[p].pc \in Flagging
        PROVE  /\ Moves(p)
               /\ (p \in Executor /\ proc'[p].pc \in Holding) =>
                      proc[p].pc \in Holding /\ proc'[p].act = proc[p].act
    BY <1>1, <1>3, <1>5, ResumeMoves, ReturnLabels
  <1>6. ASSUME NEW s \in {"write", "release"}, proc[p].step \in {"check", "write"},
               proc' = [proc EXCEPT ![p].step = s]
        PROVE  /\ Moves(p)
               /\ (p \in Executor /\ proc'[p].pc \in Holding) =>
                      proc[p].pc \in Holding /\ proc'[p].act = proc[p].act
    <2>1. proc' = [proc EXCEPT ![p] = [proc[p] EXCEPT !.step = s]]
      BY <1>1, <1>6 DEF Procs
    <2>2. [proc[p] EXCEPT !.step = s] \in ProcessState
      BY <1>3 DEF ProcessState
    <2>3. LocalOK(p, [proc[p] EXCEPT !.step = s])
      BY <1>1, <1>3, <1>6, <2>2 DEF LocalOK, ProcessState
    <2> QED
      BY <1>1, <1>3, <2>1, <2>2, <2>3 DEF Moves, Procs, ProcessState
  <1>7. CASE ReadCancelFlag(p)
    <2>1. Transit(p, proc[p].pc, "CANCELLED") \/ Resume(p, "no")
      BY <1>7 DEF ReadCancelFlag
    <2>2. proc[p].pc \in Flagging /\ RunTypeOK'
      BY <1>1, <1>3, <1>7, RunTablesAlone DEF ReadCancelFlag, InStep
    <2>3. "CANCELLED" \in AgentState
      BY DEF AgentState, Terminal
    <2>4. CASE Transit(p, proc[p].pc, "CANCELLED")
      BY <1>1, <1>3, <1>4, <2>2, <2>3, <2>4, TransitMoves, OutsideLedger
    <2>5. CASE Resume(p, "no")
      BY <1>1, <1>4, <1>5, <2>2, <2>5, OutsideLedger
    <2> QED
      BY <2>1, <2>4, <2>5
  <1>8. CASE CheckTransition(p)
    <2>1. RunTypeOK' /\ proc[p].step = "check"
      BY <1>1, <1>8, RunTablesAlone DEF CheckTransition, InStep
    <2>2. proc' = [proc EXCEPT ![p].step = "write"] \/ Resume(p, "illegal")
      BY <1>8 DEF CheckTransition
    <2> QED
      BY <1>1, <1>4, <1>5, <1>6, <2>1, <2>2, OutsideLedger
  <1>9. CASE WriteTransition(p)
    <2>1. proc[p].step = "write" /\ UpdateRun(proc[p].run, proc[p].goal)
      BY <1>9 DEF WriteTransition, InStep
    <2>2. RunTypeOK'
      BY <1>1, <1>3, <2>1 DEF UpdateRun, RunTypeOK
    <2>3. proc' = [proc EXCEPT ![p].step = "release"] \/ Resume(p, "ok")
      BY <1>9 DEF WriteTransition
    <2> QED
      BY <1>1, <1>4, <1>5, <1>6, <2>1, <2>2, <2>3, OutsideLedger
  <1>10. CASE ReleaseLock(p)
    <2>1. ReleaseSessionLock(proc[p].run) /\ Resume(p, "ok")
      BY <1>10 DEF ReleaseLock
    <2>2. RunTypeOK'
      BY <1>1, <2>1 DEF ReleaseSessionLock, RunTypeOK
    <2> QED
      BY <1>1, <1>4, <1>5, <2>1, <2>2, OutsideLedger
  <1>11. CASE BuildFails(p)
    <2>1. Resume(p, "illegal") /\ RunTypeOK'
      BY <1>1, <1>11, RunTablesAlone DEF BuildFails
    <2> QED
      BY <1>1, <1>4, <1>5, <2>1, OutsideLedger
  <1> QED
    BY <1>7, <1>8, <1>9, <1>10, <1>11 DEF LifecycleCall

LEMMA DriverStartOK ==
    ASSUME Typed, NEW r \in Driver, DriverStart(r)
    PROVE  StepOK(r)
  <1>1. /\ Procs /\ RunTypeOK /\ HistoryTyped /\ LocalOK(r, proc[r]) /\ r \in Process
    BY DEF Typed, Procs, Process
  <1>2. /\ proc[r].step = "none" /\ proc[r].run \in RunId /\ r \notin Executor
        /\ UNCHANGED <<ledgerVars, history>>
    BY <1>1 DEF DriverStart, RegisterRun, LockWorkspace, WorkspaceBusy, RefuseRun, At, LocalOK,
                NeedsRun, Starting, Driver, Executor, Caller, WorkerId
  <1>3. r \in RunId
    BY DEF Driver
  <1>4. CASE RegisterRun(r)
    <2>1. Goto(r, "lock") /\ "lock" \in Label
      BY <1>4 DEF RegisterRun, Label
    <2>2. RunTypeOK'
      BY <1>1, <1>3, <1>4 DEF RegisterRun, CreateRun, RunTypeOK, AgentState
    <2> QED
      BY <1>1, <1>2, <2>1, <2>2, GotoMoves, OutsideLedger
  <1>5. CASE LockWorkspace(r)
    <2>1. Transit(r, "toValidate", "VALIDATE") /\ "toValidate" \in Calling /\ "VALIDATE" \in AgentState
      BY <1>5 DEF LockWorkspace, Calling, AgentState
    <2>2. RunTypeOK'
      BY <1>1, <1>3, <1>5 DEF LockWorkspace, AcquireSessionLock, RunTypeOK
    <2> QED
      BY <1>1, <1>2, <2>1, <2>2, TransitMoves, OutsideLedger
  <1>6. CASE WorkspaceBusy(r)
    <2>1. Goto(r, "refused") /\ "refused" \in Label /\ RunTypeOK'
      BY <1>1, <1>6, RunTablesAlone DEF WorkspaceBusy, Label
    <2> QED
      BY <1>1, <1>2, <2>1, GotoMoves, OutsideLedger
  <1>7. CASE RefuseRun(r)
    <2>1. Goto(r, "end") /\ "end" \in Label
      BY <1>7 DEF RefuseRun, Label
    <2>2. RunTypeOK'
      BY <1>1, <1>3, <1>7 DEF RefuseRun, UpdateRun, RunTypeOK, AgentState, Terminal
    <2> QED
      BY <1>1, <1>2, <2>1, <2>2, GotoMoves, OutsideLedger
  <1> QED
    BY <1>4, <1>5, <1>6, <1>7 DEF DriverStart

\* A step that touches the ledger and nothing else but proc.
LEMMA InsideLedger ==
    ASSUME HistoryTyped, RunTypeOK, NEW p, UNCHANGED <<runVars, history>>,
           LedgerNext \/ UNCHANGED ledgerVars, Moves(p), KeepsClaim(p)
    PROVE  StepOK(p)
  BY RunTablesAlone DEF StepOK, HistoryTyped, history

\* What p has at hand where it stands.
LEMMA AtHand ==
    ASSUME Procs, NEW p \in Process
    PROVE  /\ LocalOK(p, proc[p]) /\ proc[p] \in ProcessState
           /\ proc[p].pc \in Starting => p \in Driver
           /\ proc[p].pc \in NeedsRun => proc[p].run \in RunId
           /\ (p \in Executor /\ proc[p].pc \in Working) => proc[p].act \in ActionId
  BY DEF Procs, LocalOK

LEMMA ReActStepOK ==
    ASSUME Typed, NEW p \in Driver \cup Executor, ReActStep(p)
    PROVE  StepOK(p)
  <1>1. /\ Procs /\ RunTypeOK /\ HistoryTyped /\ p \in Process /\ LedgerTypeOK
    BY DEF Typed, Process
  <1>2. /\ LocalOK(p, proc[p]) /\ proc[p] \in ProcessState
        /\ proc[p].pc \in NeedsRun => proc[p].run \in RunId
        /\ (p \in Executor /\ proc[p].pc \in Working) => proc[p].act \in ActionId
    BY <1>1, AtHand
  <1>3. CASE ModelAnswers(p)
    <2>1. proc[p].pc = "loop" /\ proc[p].step = "none" /\ UNCHANGED <<ledgerVars, runVars, history>>
      BY <1>3 DEF ModelAnswers, At
    <2>2. proc[p].run \in RunId /\ RunTypeOK'
      BY <1>1, <1>2, <2>1, RunTablesAlone DEF NeedsRun, Working
    <2>3. CASE p \in Driver
      <3>1. PICK s \in {"COMPLETE", "PARTIAL", "FAILED"} : Transit(p, "finish", s)
        BY <1>3, <2>3 DEF ModelAnswers
      <3>2. s \in AgentState /\ "finish" \in Calling /\ "finish" \notin Working
        BY DEF AgentState, Terminal, Calling, Working
      <3>3. Moves(p) /\ proc'[p].pc = "finish"
        BY <1>1, <2>2, <2>3, <3>1, <3>2, TransitMoves
      <3> QED
        BY <1>1, <2>1, <2>2, <3>3, OutsideLedger DEF Holding
    <2>4. CASE p \notin Driver
      <3> DEFINE left == IF Rest(p) = "poll" THEN NoAction ELSE proc[p].act
                 s == [proc[p] EXCEPT !.pc = Rest(p), !.turn = 0, !.act = left]
      <3>1. proc' = [proc EXCEPT ![p] = s]
        BY <1>1, <1>3, <2>4 DEF ModelAnswers, Procs
      <3>2. Rest(p) \in {"poll", "end"}
        BY DEF Rest
      <3>3. left \in ActionId \cup {NoAction} /\ Rest(p) \in Label /\ 0 \in 0 .. MaxTurns
        BY <1>2, <3>2 DEF ProcessState, Label
      <3> HIDE DEF left
      <3>4. s \in ProcessState
        BY <1>2, <3>3 DEF ProcessState
      <3>5. s.pc = Rest(p) /\ s.step = "none"
        BY <1>2, <2>1 DEF ProcessState
      <3> HIDE DEF s
      <3>6. LocalOK(p, s)
        BY <3>2, <3>4, <3>5 DEF LocalOK, Starting, NeedsRun, Working
      <3>7. Moves(p) /\ proc'[p].pc \notin Holding
        BY <1>1, <3>1, <3>2, <3>4, <3>5, <3>6 DEF Moves, Procs, Holding
      <3> QED
        BY <1>1, <2>1, <2>2, <3>7, OutsideLedger
    <2> QED
      BY <2>3, <2>4
  <1>4. CASE ModelCallsTool(p)
    <2>1. /\ proc[p].pc = "loop" /\ proc[p].step = "none" /\ proc[p].turn < MaxTurns
          /\ UNCHANGED <<ledgerVars, runVars, history>>
      BY <1>4 DEF ModelCallsTool, At
    <2>2. PICK want \in {"safe", "risky"} :
             proc' = [proc EXCEPT ![p].step = "flag", ![p].want = want, ![p].turn = proc[p].turn + 1]
      BY <1>4 DEF ModelCallsTool
    <2> DEFINE next == proc[p].turn + 1
               s == [proc[p] EXCEPT !.step = "flag", !.want = want, !.turn = next]
    <2>3. proc' = [proc EXCEPT ![p] = s]
      BY <1>1, <2>2 DEF Procs
    <2>4. next \in 0 .. MaxTurns
      BY <1>2, <2>1 DEF ProcessState
    <2> HIDE DEF next
    <2>5. s \in ProcessState
      BY <1>2, <2>4 DEF ProcessState
    <2>6. s.pc = "loop" /\ s.step = "flag" /\ s.run = proc[p].run /\ s.act = proc[p].act
      BY <1>2, <2>1 DEF ProcessState
    <2> HIDE DEF s
    <2>7. LocalOK(p, s)
      BY <1>2, <2>1, <2>5, <2>6 DEF LocalOK, Flagging
    <2>8. Moves(p) /\ proc'[p].pc = "loop"
      BY <1>1, <2>3, <2>5, <2>6, <2>7 DEF Moves, Procs
    <2> QED
      BY <1>1, <2>1, <2>8, RunTablesAlone, OutsideLedger DEF Holding
  <1>5. CASE RequestAction(p)
    <2>1. /\ proc[p].pc = "request" /\ proc[p].step = "none" /\ UNCHANGED <<runVars, history>>
      BY <1>5 DEF RequestAction, At
    <2>2. PICK a \in ActionId :
             CreatePendingAction(a) /\ proc' = [proc EXCEPT ![p].pc = "show", ![p].asked = a]
      BY <1>5 DEF RequestAction
    <2> DEFINE s == [proc[p] EXCEPT !.pc = "show", !.asked = a]
    <2>3. proc' = [proc EXCEPT ![p] = s]
      BY <1>1, <2>2 DEF Procs
    <2>4. s \in ProcessState
      BY ZenonT(40), <1>2 DEF ProcessState, Label
    <2>5. s.pc = "show" /\ s.step = "none" /\ s.run = proc[p].run /\ s.act = proc[p].act
      BY <1>2, <2>1 DEF ProcessState
    <2> HIDE DEF s
    <2>6. LocalOK(p, s)
      BY <1>2, <2>1, <2>4, <2>5 DEF LocalOK, Starting, NeedsRun, Working
    <2>7. Moves(p) /\ proc'[p].pc = "show"
      BY <1>1, <2>3, <2>4, <2>5, <2>6 DEF Moves, Procs
    <2>8. LedgerNext /\ KeepsClaim(p)
      BY <2>2, <2>7 DEF LedgerNext, KeepsClaim, Holding
    <2> QED
      BY <1>1, <2>1, <2>7, <2>8, InsideLedger
  <1>6. CASE ShowRequest(p)
    <2>1. /\ proc[p].pc = "show" /\ UNCHANGED <<ledgerVars, history>>
          /\ SetPendingAuthorization(proc[p].run, proc[p].asked)
          /\ Transit(p, "park", "AUTHORIZATION_REQUIRED")
      BY <1>6 DEF ShowRequest, At
    <2>2. proc[p].run \in RunId /\ proc[p].asked \in ActionId \cup {NoAction}
      BY <1>2, <2>1 DEF NeedsRun, Working, ProcessState
    <2>3. RunTypeOK'
      BY <1>1, <2>1, <2>2 DEF SetPendingAuthorization, RunTypeOK
    <2>4. /\ "park" \in Calling /\ "AUTHORIZATION_REQUIRED" \in AgentState /\ "park" \notin Starting
          /\ proc[p].pc \in Working
      BY <2>1 DEF Calling, AgentState, Starting, Working
    <2>5. Moves(p) /\ proc'[p].pc = "park"
      BY <1>1, <1>2, <2>1, <2>2, <2>4, TransitMoves
    <2> QED
      BY <1>1, <2>1, <2>3, <2>5, OutsideLedger DEF Holding
  <1> QED
    BY <1>3, <1>4, <1>5, <1>6 DEF ReActStep

LEMMA ExecuteStepOK ==
    ASSUME Typed, NEW p \in Executor, ExecuteStep(p)
    PROVE  StepOK(p)
  <1>1. /\ Procs /\ RunTypeOK /\ HistoryTyped /\ p \in Process /\ LedgerTypeOK /\ p \in WorkerId
    BY DEF Typed, Process, Executor, WorkerId
  <1>2. /\ LocalOK(p, proc[p]) /\ proc[p] \in ProcessState
        /\ proc[p].pc \in NeedsRun => proc[p].run \in RunId
        /\ proc[p].pc \in Working => proc[p].act \in ActionId
    BY <1>1, AtHand
  <1>3. /\ proc[p].step = "none" /\ proc[p].pc \in {"running", "inTool", "settle"}
        /\ UNCHANGED runVars /\ RunTypeOK'
    BY <1>1, RunTablesAlone
       DEF ExecuteStep, StartTool, BlockTool, RenewLease, EndTool, SettleAction, At
  <1>4. proc[p].run \in RunId /\ proc[p].act \in ActionId
    BY <1>2, <1>3 DEF NeedsRun, Working
  <1>5. CASE StartTool(p)
    <2>1. /\ Goto(p, "inTool") /\ UNCHANGED <<ledgerVars, outcome, consented, drained>>
          /\ proc[p].pc = "running" /\ ran' = [ran EXCEPT ![proc[p].act] = @ + 1]
      BY <1>5 DEF StartTool, At
    <2>2. "inTool" \in Label /\ "inTool" \notin Starting /\ "inTool" \notin Holding
      BY DEF Label, Starting, Holding
    <2>3. Moves(p) /\ proc'[p].pc = "inTool"
      BY <1>1, <1>3, <1>4, <2>1, <2>2, GotoMoves
    <2>4. HistoryTyped'
      BY <1>1, <1>4, <2>1 DEF HistoryTyped
    <2> QED
      BY <1>3, <2>1, <2>2, <2>3, <2>4 DEF StepOK, KeepsClaim, StartsTool
  <1>6. CASE BlockTool(p)
    <2>1. Goto(p, "settle") /\ UNCHANGED <<ledgerVars, history>>
      BY <1>6 DEF BlockTool
    <2>2. "settle" \in Label /\ "settle" \notin Starting /\ "settle" \notin Holding
      BY DEF Label, Starting, Holding
    <2>3. Moves(p) /\ proc'[p].pc = "settle"
      BY <1>1, <1>3, <1>4, <2>1, <2>2, GotoMoves
    <2> QED
      BY <1>1, <1>3, <2>1, <2>2, <2>3, OutsideLedger
  <1>7. CASE RenewLease(p)
    <2>1. /\ RenewActionLease(proc[p].act, p) /\ UNCHANGED <<proc, history>>
          /\ proc[p].pc = "inTool"
      BY <1>7 DEF RenewLease, At
    <2>2. LedgerNext
      BY <1>1, <1>4, <2>1 DEF LedgerNext
    <2>3. Moves(p) /\ KeepsClaim(p)
      BY <1>1, <1>2, <2>1 DEF Moves, KeepsClaim, Procs, Holding
    <2> QED
      BY <1>1, <1>3, <2>1, <2>2, <2>3, InsideLedger
  <1>8. CASE EndTool(p)
    <2>1. PICK verified \in BOOLEAN :
             /\ outcome' = [outcome EXCEPT ![proc[p].act] = IF verified THEN "verified" ELSE "failed"]
             /\ proc' = [proc EXCEPT ![p].pc = "settle", ![p].verdict = verified]
      BY <1>8 DEF EndTool
    <2>2. UNCHANGED <<ledgerVars, ran, consented, drained>>
      BY <1>8 DEF EndTool
    <2>3. HistoryTyped'
      BY <1>1, <1>4, <2>1, <2>2 DEF HistoryTyped
    <2> DEFINE s == [proc[p] EXCEPT !.pc = "settle", !.verdict = verified]
    <2>4. proc' = [proc EXCEPT ![p] = s]
      BY <1>1, <2>1 DEF Procs
    <2>5. s \in ProcessState
      BY <1>2 DEF ProcessState, Label
    <2>6. s.pc = "settle" /\ s.step = "none" /\ s.run = proc[p].run /\ s.act = proc[p].act
      BY <1>2, <1>3 DEF ProcessState
    <2> HIDE DEF s
    <2>7. LocalOK(p, s)
      BY <1>4, <2>5, <2>6 DEF LocalOK, Starting, NeedsRun, Working
    <2>8. Moves(p) /\ proc'[p].pc = "settle"
      BY <1>1, <2>4, <2>5, <2>6, <2>7 DEF Moves, Procs
    <2> QED
      BY <1>3, <2>2, <2>3, <2>8 DEF StepOK, KeepsClaim, Holding
  <1>9. CASE SettleAction(p)
    <2>1. /\ FinishOrNot(proc[p].act, proc[p].verdict)
          /\ proc' = [proc EXCEPT ![p].pc = "loop", ![p].verdict = FALSE]
          /\ UNCHANGED history
      BY <1>9 DEF SettleAction
    <2>2. LedgerNext \/ UNCHANGED ledgerVars
      BY <1>2, <1>4, <2>1 DEF FinishOrNot, LedgerNext, ProcessState
    <2> DEFINE s == [proc[p] EXCEPT !.pc = "loop", !.verdict = FALSE]
    <2>3. proc' = [proc EXCEPT ![p] = s]
      BY <1>1, <2>1 DEF Procs
    <2>4. s \in ProcessState
      BY <1>2 DEF ProcessState, Label
    <2>5. s.pc = "loop" /\ s.step = "none" /\ s.run = proc[p].run /\ s.act = proc[p].act
      BY <1>2, <1>3 DEF ProcessState
    <2> HIDE DEF s
    <2>6. LocalOK(p, s)
      BY <1>4, <2>4, <2>5 DEF LocalOK, Starting, NeedsRun, Working
    <2>7. Moves(p) /\ proc'[p].pc = "loop"
      BY <1>1, <2>3, <2>4, <2>5, <2>6 DEF Moves, Procs
    <2> QED
      BY <1>1, <1>3, <2>1, <2>2, <2>7, InsideLedger DEF KeepsClaim, Holding
  <1> QED
    BY <1>5, <1>6, <1>7, <1>8, <1>9 DEF ExecuteStep

\* Only a claim brings a process to Holding; every other step by Goto does not.
LEMMA SweepStepOK ==
    ASSUME Typed, NEW p \in Sweeper, SweepStep(p)
    PROVE  StepOK(p)
  <1>1. /\ Procs /\ RunTypeOK /\ HistoryTyped /\ p \in Process
    BY DEF Typed, Process, Executor, Sweeper
  <1>2. /\ LocalOK(p, proc[p]) /\ UNCHANGED <<runVars, history>> /\ proc[p].step = "none"
        /\ proc[p].pc \in {"bootSweep", "sweep"}
    BY <1>1, AtHand DEF SweepStep, At
  <1>3. CASE SelectStale(p) /\ UNCHANGED proc
    <2>1. LedgerNext
      BY <1>3 DEF LedgerNext
    <2>2. Moves(p) /\ KeepsClaim(p)
      BY <1>1, <1>2, <1>3 DEF Moves, KeepsClaim, Procs, Holding
    <2> QED
      BY <1>1, <1>2, <2>1, <2>2, InsideLedger
  <1>4. CASE /\ Goto(p, Swept(p))
             /\ RecoverStale(p) \/ UNCHANGED ledgerVars
    <2>1. LedgerNext \/ UNCHANGED ledgerVars
      BY <1>4 DEF LedgerNext
    <2>2. Swept(p) \in {"idle", "poll", "claim"}
      BY <1>2 DEF Swept
    <2>3. /\ Swept(p) \in Label /\ Swept(p) \notin Starting /\ Swept(p) \notin NeedsRun
          /\ Swept(p) \notin Working /\ Swept(p) \notin Holding /\ p \notin Continuation
      BY <2>2 DEF Label, Starting, NeedsRun, Working, Holding, Sweeper, WorkerId
    <2>4. Moves(p) /\ proc'[p].pc = Swept(p)
      BY <1>1, <1>2, <1>4, <2>3, GotoMoves
    <2> QED
      BY <1>1, <1>2, <2>1, <2>3, <2>4, InsideLedger DEF KeepsClaim
  <1> QED
    BY <1>3, <1>4 DEF SweepStep

\* A worker or a request that has just claimed a.
LEMMA ClaimMoves ==
    ASSUME Procs, NEW p \in Executor, NEW a \in ActionId, NEW s \in ProcessState,
           proc' = [proc EXCEPT ![p] = s],
           s.pc \in {"claimed", "execute"}, s.step = "flag", s.act = a, s.run \in RunId,
           actions[a].status = "APPROVED", actions'[a].worker = p
    PROVE  Moves(p) /\ KeepsClaim(p)
  <1>1. p \in Process
    BY DEF Process
  <1>2. LocalOK(p, s)
    BY DEF LocalOK, Starting, NeedsRun, Working, Flagging
  <1>3. proc'[p] = s /\ Moves(p)
    BY <1>1, <1>2 DEF Moves, Procs
  <1> QED
    BY <1>3 DEF KeepsClaim

\* What a claim writes.
LEMMA ClaimWrites ==
    ASSUME LedgerTypeOK, NEW w \in WorkerId, ClaimDispatched(w) \/ ClaimApproved(w),
           NEW a \in hand[w].rows, hand[w].rows \subseteq {a}
    PROVE  /\ a \in ActionId /\ actions[a].status = "APPROVED" /\ actions'[a].worker = w
  <1>1. a \in ActionId /\ actions[a] \in ActionRow /\ actions \in [ActionId -> ActionRow]
    BY DEF LedgerTypeOK, Hand, Caller
  <1>2. /\ actions[a].status = "APPROVED"
        /\ \/ actions' = [actions EXCEPT ![a] = Claimed(@, w)]
           \/ actions' = [actions EXCEPT ![a] =
                            [Claimed(@, w) EXCEPT !.attempt = actions[a].attempt + 1]]
    BY DEF ClaimDispatched, ClaimApproved, StillDispatchable
  <1>3. \A row \in ActionRow : \A n :
           /\ Claimed(row, w).worker = w
           /\ [Claimed(row, w) EXCEPT !.attempt = n].worker = w
    BY DEF Claimed, ActionRow
  <1>4. PICK row : row.worker = w /\ actions' = [actions EXCEPT ![a] = row]
    BY <1>1, <1>2, <1>3
  <1> QED
    BY <1>1, <1>2, <1>4

LEMMA WorkerStepOK ==
    ASSUME Typed, HandsOneRow, NEW w \in Dispatcher, WorkerStep(w) \/ WorkerExit(w)
    PROVE  StepOK(w)
  <1>1. /\ Procs /\ RunTypeOK /\ HistoryTyped /\ LedgerTypeOK
        /\ w \in Process /\ w \in Executor /\ w \in Sweeper /\ w \in WorkerId
        /\ w \in Caller /\ w \notin Continuation
    BY DEF Typed, Process, Executor, Sweeper, WorkerId, Caller
  <1>2. /\ LocalOK(w, proc[w]) /\ proc[w] \in ProcessState
        /\ proc[w].pc \in Working => proc[w].act \in ActionId
    BY <1>1, AtHand
  <1> DEFINE Resting == {"bootSweep", "sweep", "poll", "claim", "register", "dying", "stopping",
                         "stopped"}
  <1>3. ASSUME NEW l \in Resting, Goto(w, l), proc[w].step = "none"
        PROVE  Moves(w) /\ KeepsClaim(w)
    <2>1. /\ l \in Label /\ l \notin Starting /\ l \notin NeedsRun /\ l \notin Working
          /\ l \notin Holding
      BY <1>3 DEF Label, Starting, NeedsRun, Working, Holding
    <2>2. Moves(w) /\ proc'[w].pc = l
      BY <1>1, <1>3, <2>1, GotoMoves
    <2> QED
      BY <2>1, <2>2 DEF KeepsClaim
  <1>4. CASE BootWorker(w)
    <2>1. /\ RegisterWorker(w) /\ UNCHANGED <<runVars, history>> /\ proc[w].step = "none"
          /\ Goto(w, "bootSweep") \/ Goto(w, "sweep")
      BY <1>4 DEF BootWorker, At
    <2>2. LedgerNext
      BY <2>1 DEF LedgerNext
    <2> QED
      BY <1>1, <1>3, <2>1, <2>2, InsideLedger
  <1>5. CASE SweepStep(w)
    BY <1>1, <1>5, SweepStepOK
  <1>6. CASE HeartbeatWorker(w)
    <2>1. /\ UNCHANGED <<ledgerVars, runVars, history>> /\ proc[w].step = "none"
          /\ Goto(w, "claim") \/ Goto(w, "sweep") \/ Goto(w, "register")
      BY <1>6 DEF HeartbeatWorker, At
    <2> QED
      BY <1>1, <1>3, <2>1, InsideLedger
  <1>7. CASE ClaimStep(w)
    <2>1. proc[w].step = "none" /\ proc[w].pc = "claim" /\ UNCHANGED <<runVars, history>>
      BY <1>7 DEF ClaimStep, At
    <2>2. CASE SelectDispatchable(w) /\ UNCHANGED proc
      <3>1. LedgerNext
        BY <2>2 DEF LedgerNext
      <3>2. Moves(w) /\ KeepsClaim(w)
        BY <1>1, <1>2, <2>1, <2>2 DEF Moves, KeepsClaim, Procs, Holding
      <3> QED
        BY <1>1, <2>1, <3>1, <3>2, InsideLedger
    <2>3. CASE /\ ClaimDispatched(w)
               /\ \E a \in hand[w].rows :
                     proc' = [proc EXCEPT ![w].pc = "claimed", ![w].step = "flag",
                                          ![w].act = a, ![w].run = RunOf[a]]
      <3>1. PICK a \in hand[w].rows :
               proc' = [proc EXCEPT ![w].pc = "claimed", ![w].step = "flag",
                                    ![w].act = a, ![w].run = RunOf[a]]
        BY <2>3
      <3>2. hand[w].rows \subseteq {a}
        BY <1>1, <2>3, <3>1 DEF HandsOneRow, AtMostOne, ClaimDispatched
      <3>3. a \in ActionId /\ actions[a].status = "APPROVED" /\ actions'[a].worker = w
        BY <1>1, <2>3, <3>1, <3>2, ClaimWrites
      <3> DEFINE s == [proc[w] EXCEPT !.pc = "claimed", !.step = "flag", !.act = a,
                                      !.run = RunOf[a]]
      <3>4. proc' = [proc EXCEPT ![w] = s]
        BY <1>1, <3>1 DEF Procs
      <3>5. RunOf[a] \in RunId
        BY <3>3
      <3>6. s \in ProcessState
        <4>1. "claimed" \in Label
          BY DEF Label
        <4> QED
          BY <1>2, <3>3, <3>5, <4>1 DEF ProcessState
      <3>7. s.pc = "claimed" /\ s.step = "flag" /\ s.act = a /\ s.run = RunOf[a]
        BY <1>2 DEF ProcessState
      <3> HIDE DEF s
      <3>8. Moves(w) /\ KeepsClaim(w)
        BY <1>1, <3>3, <3>4, <3>5, <3>6, <3>7, ClaimMoves
      <3>9. LedgerNext
        BY <2>3 DEF LedgerNext
      <3> QED
        BY <1>1, <2>1, <3>8, <3>9, InsideLedger
    <2>4. CASE Goto(w, "poll") /\ (LoseClaim(w) \/ UNCHANGED ledgerVars)
      <3>1. LedgerNext \/ UNCHANGED ledgerVars
        BY <1>1, <2>4 DEF LedgerNext
      <3> QED
        BY <1>1, <1>3, <2>1, <2>4, <3>1, InsideLedger
    <2> QED
      BY <1>7, <2>2, <2>3, <2>4 DEF ClaimStep
  <1>8. CASE DropClaim(w)
    <2>1. /\ proc[w].pc = "drop" /\ proc[w].step = "none" /\ UNCHANGED <<runVars, history>>
          /\ FinishOrNot(proc[w].act, FALSE)
          /\ proc' = [proc EXCEPT ![w].pc = "poll", ![w].act = NoAction]
      BY <1>8 DEF DropClaim, At
    <2>2. LedgerNext \/ UNCHANGED ledgerVars
      BY <1>2, <2>1 DEF FinishOrNot, LedgerNext, Working
    <2> DEFINE s == [proc[w] EXCEPT !.pc = "poll", !.act = NoAction]
    <2>3. proc' = [proc EXCEPT ![w] = s]
      BY <1>1, <2>1 DEF Procs
    <2>4. s \in ProcessState
      BY <1>2 DEF ProcessState, Label
    <2>5. s.pc = "poll" /\ s.step = "none"
      BY <1>2, <2>1 DEF ProcessState
    <2> HIDE DEF s
    <2>6. LocalOK(w, s)
      BY <2>4, <2>5 DEF LocalOK, Starting, NeedsRun, Working
    <2>7. Moves(w) /\ KeepsClaim(w)
      BY <1>1, <2>3, <2>4, <2>5, <2>6 DEF Moves, Procs, KeepsClaim, Holding
    <2> QED
      BY <1>1, <2>1, <2>2, <2>7, InsideLedger
  <1>9. CASE WorkerExit(w)
    <2>1. /\ UNCHANGED <<runVars, history>> /\ proc[w].step = "none"
          /\ Goto(w, "stopping") \/ Goto(w, "stopped")
          /\ DrainWorker(w) \/ StopWorker(w) \/ UNCHANGED ledgerVars
      BY <1>9 DEF WorkerExit, At
    <2>2. LedgerNext \/ UNCHANGED ledgerVars
      BY <2>1 DEF LedgerNext
    <2> QED
      BY <1>1, <1>3, <2>1, <2>2, InsideLedger
  <1> QED
    BY <1>4, <1>5, <1>6, <1>7, <1>8, <1>9 DEF WorkerStep

LEMMA WorkerEndsOK ==
    ASSUME Typed, NEW w \in Dispatcher, StopSignal(w) \/ WorkerCrash(w)
    PROVE  StepOK(w)
  <1>1. /\ Procs /\ RunTypeOK /\ HistoryTyped /\ w \in Process /\ w \in Caller
        /\ w \notin Continuation /\ proc[w] \in ProcessState
    BY AtHand DEF Typed, Process, Executor, WorkerId, Caller
  <1>2. CASE StopSignal(w)
    <2>1. Goto(w, "dying") /\ UNCHANGED <<ledgerVars, runVars, history>> /\ proc[w].step = "none"
      BY <1>2 DEF StopSignal, At
    <2>2. /\ "dying" \in Label /\ "dying" \notin Starting /\ "dying" \notin NeedsRun
          /\ "dying" \notin Working /\ "dying" \notin Holding
      BY DEF Label, Starting, NeedsRun, Working, Holding
    <2>3. Moves(w) /\ proc'[w].pc = "dying"
      BY <1>1, <2>1, <2>2, GotoMoves
    <2> QED
      BY <1>1, <2>1, <2>2, <2>3, InsideLedger DEF KeepsClaim
  <1>3. CASE WorkerCrash(w)
    <2> DEFINE s == [proc[w] EXCEPT !.pc = "killed", !.step = "none"]
    <2>1. /\ proc' = [proc EXCEPT ![w] = s] /\ UNCHANGED <<runVars, history>>
          /\ Abandon(w) \/ UNCHANGED ledgerVars
      BY <1>1, <1>3 DEF WorkerCrash, Procs
    <2>2. LedgerNext \/ UNCHANGED ledgerVars
      BY <1>1, <2>1 DEF LedgerNext
    <2>3. s \in ProcessState
      <3>1. "killed" \in Label
        BY DEF Label
      <3> QED
        BY <1>1, <3>1 DEF ProcessState
    <2>4. s.pc = "killed" /\ s.step = "none"
      BY <1>1 DEF ProcessState
    <2> HIDE DEF s
    <2>5. LocalOK(w, s)
      BY <2>3, <2>4 DEF LocalOK, Starting, NeedsRun, Working
    <2>6. Moves(w) /\ KeepsClaim(w)
      BY <1>1, <2>1, <2>3, <2>4, <2>5 DEF Moves, Procs, KeepsClaim, Holding
    <2> QED
      BY <1>1, <2>1, <2>2, <2>6, InsideLedger
  <1> QED
    BY <1>2, <1>3

\* A step that leaves every process where it is.
LEMMA StandingStill ==
    ASSUME Procs, NEW p \in Process, UNCHANGED proc
    PROVE  Moves(p) /\ KeepsClaim(p)
  BY DEF Procs, Moves, KeepsClaim

LEMMA ContinuationStepOK ==
    ASSUME Typed, HandsOneRow, NEW c \in Continuation, ContinuationStep(c)
    PROVE  StepOK(c)
  <1>1. /\ Procs /\ RunTypeOK /\ HistoryTyped /\ LedgerTypeOK
        /\ c \in Process /\ c \in Executor /\ c \in WorkerId /\ c \in Caller
    BY DEF Typed, Process, Executor, WorkerId, Caller
  <1>2. /\ proc[c] \in ProcessState /\ LocalOK(c, proc[c])
        /\ proc[c].step = "none" /\ proc[c].pc = "claim" /\ UNCHANGED <<runVars, history>>
    BY <1>1, AtHand DEF ContinuationStep, At
  <1>3. proc[c].run \in RunId
    BY <1>2 DEF LocalOK
  <1>4. CASE SelectApproved(proc[c].run, c) /\ UNCHANGED proc
    <2>1. LedgerNext
      BY <1>3, <1>4 DEF LedgerNext
    <2> QED
      BY <1>1, <1>2, <1>4, <2>1, StandingStill, InsideLedger
  <1>5. CASE /\ ClaimApproved(c)
             /\ \E a \in hand[c].rows :
                   proc' = [proc EXCEPT ![c].pc = "execute", ![c].step = "flag", ![c].act = a]
    <2>1. PICK a \in hand[c].rows :
             proc' = [proc EXCEPT ![c].pc = "execute", ![c].step = "flag", ![c].act = a]
      BY <1>5
    <2>2. hand[c].rows \subseteq {a}
      BY <1>1, <1>5, <2>1 DEF HandsOneRow, AtMostOne, ClaimApproved
    <2>3. a \in ActionId /\ actions[a].status = "APPROVED" /\ actions'[a].worker = c
      BY <1>1, <1>5, <2>1, <2>2, ClaimWrites
    <2> DEFINE s == [proc[c] EXCEPT !.pc = "execute", !.step = "flag", !.act = a]
    <2>4. proc' = [proc EXCEPT ![c] = s]
      BY <1>1, <2>1 DEF Procs
    <2>5. s \in ProcessState
      <3>1. "execute" \in Label
        BY DEF Label
      <3> QED
        BY <1>2, <2>3, <3>1 DEF ProcessState
    <2>6. s.pc = "execute" /\ s.step = "flag" /\ s.act = a /\ s.run = proc[c].run
      BY <1>2 DEF ProcessState
    <2> HIDE DEF s
    <2>7. Moves(c) /\ KeepsClaim(c)
      BY <1>1, <1>3, <2>3, <2>4, <2>5, <2>6, ClaimMoves
    <2>8. LedgerNext
      BY <1>5 DEF LedgerNext
    <2> QED
      BY <1>1, <1>2, <2>7, <2>8, InsideLedger
  <1>6. CASE Goto(c, "end") /\ (LoseClaim(c) \/ UNCHANGED ledgerVars)
    <2>1. LedgerNext \/ UNCHANGED ledgerVars
      BY <1>1, <1>6 DEF LedgerNext
    <2>2. /\ "end" \in Label /\ "end" \notin Starting /\ "end" \notin NeedsRun
          /\ "end" \notin Working /\ "end" \notin Holding
      BY DEF Label, Starting, NeedsRun, Working, Holding
    <2>3. Moves(c) /\ proc'[c].pc = "end"
      BY <1>1, <1>2, <1>6, <2>2, GotoMoves
    <2> QED
      BY <1>1, <1>2, <2>1, <2>2, <2>3, InsideLedger DEF KeepsClaim
  <1> QED
    BY <1>4, <1>5, <1>6 DEF ContinuationStep

LEMMA ContinueRequestOK ==
    ASSUME Typed, NEW c \in Continuation, NEW r \in RunId, ContinueRequest(c, r)
    PROVE  StepOK(c)
  <1>1. Procs /\ RunTypeOK /\ HistoryTyped /\ c \in Process /\ proc[c] \in ProcessState
    BY AtHand DEF Typed, Process, Executor
  <1> DEFINE s == [proc[c] EXCEPT !.pc = "open", !.step = "flag", !.run = r]
  <1>2. proc' = [proc EXCEPT ![c] = s] /\ UNCHANGED <<ledgerVars, runVars, history>>
    BY <1>1 DEF ContinueRequest, Procs
  <1>3. s \in ProcessState
    <2>1. "open" \in Label
      BY DEF Label
    <2> QED
      BY <1>1, <2>1 DEF ProcessState
  <1>4. s.pc = "open" /\ s.step = "flag" /\ s.run = r
    BY <1>1 DEF ProcessState
  <1> HIDE DEF s
  <1>5. LocalOK(c, s)
    BY <1>3, <1>4 DEF LocalOK, Starting, Working, Flagging
  <1>6. Moves(c) /\ KeepsClaim(c)
    BY <1>1, <1>2, <1>3, <1>4, <1>5 DEF Moves, Procs, KeepsClaim, Holding
  <1> QED
    BY <1>1, <1>2, <1>6, InsideLedger

LEMMA ApiStepOK ==
    ASSUME Typed, ApiStep
    PROVE  StepOK(Api)
  <1>1. /\ Procs /\ RunTypeOK /\ HistoryTyped
        /\ Api \in Process /\ Api \in Sweeper /\ Api \notin Executor /\ Api \notin Driver
    BY DEF Typed, Process, Sweeper, Executor, Driver, WorkerId, Caller
  <1>2. proc[Api] \in ProcessState /\ (proc[Api].pc \in NeedsRun => proc[Api].run \in RunId)
    BY <1>1, AtHand
  <1>3. CASE Approve
    <2>1. /\ proc[Api].pc = "approve" /\ proc[Api].step = "none" /\ UNCHANGED <<runVars, history>>
          /\ ApprovePendingAction(proc[Api].run) /\ Goto(Api, "confirm")
      BY <1>3 DEF Approve, At
    <2>2. proc[Api].run \in RunId /\ LedgerNext
      BY <1>2, <2>1 DEF NeedsRun, LedgerNext
    <2>3. "confirm" \in Label /\ "confirm" \notin Starting
      BY DEF Label, Starting
    <2> QED
      BY <1>1, <2>1, <2>2, <2>3, GotoMoves, InsideLedger DEF KeepsClaim
  <1>4. CASE ConfirmApproval
    <2>1. /\ proc[Api].pc = "confirm" /\ proc[Api].step = "none"
          /\ UNCHANGED <<ledgerVars, runVars, history>>
          /\ Goto(Api, "idle") \/ Transit(Api, "decide", "EXECUTE")
      BY <1>4 DEF ConfirmApproval, At
    <2>2. proc[Api].run \in RunId
      BY <1>2, <2>1 DEF NeedsRun
    <2>3. /\ "idle" \in Label /\ "idle" \notin Starting /\ "idle" \notin NeedsRun
          /\ "decide" \in Calling /\ "decide" \notin Starting /\ "EXECUTE" \in AgentState
      BY DEF Label, Starting, NeedsRun, Working, Calling, AgentState
    <2>4. CASE Goto(Api, "idle")
      BY <1>1, <2>1, <2>3, <2>4, GotoMoves, InsideLedger DEF KeepsClaim, Executor
    <2>5. CASE Transit(Api, "decide", "EXECUTE")
      BY <1>1, <2>1, <2>2, <2>3, <2>5, TransitMoves, InsideLedger DEF KeepsClaim
    <2> QED
      BY <2>1, <2>4, <2>5
  <1>5. CASE Reject
    <2>1. /\ proc[Api].pc = "reject" /\ proc[Api].step = "none" /\ UNCHANGED <<runVars, history>>
          /\ RejectPendingAction(proc[Api].run) /\ Transit(Api, "decide", "PARTIAL")
      BY <1>5 DEF Reject, At
    <2>2. proc[Api].run \in RunId /\ LedgerNext
      BY <1>2, <2>1 DEF NeedsRun, LedgerNext
    <2>3. "decide" \in Calling /\ "decide" \notin Starting /\ "PARTIAL" \in AgentState
      BY DEF Starting, Calling, AgentState, Terminal
    <2> QED
      BY <1>1, <2>1, <2>2, <2>3, TransitMoves, InsideLedger DEF KeepsClaim
  <1>6. CASE SweepStep(Api)
    BY <1>1, <1>6, SweepStepOK
  <1> QED
    BY <1>3, <1>4, <1>5, <1>6 DEF ApiStep

LEMMA ApiRequestOK ==
    ASSUME Typed, NEW r \in RunId, CancelRequest(r) \/ AuthorizeRequest(r)
    PROVE  StepOK(Api)
  <1>1. /\ Procs /\ RunTypeOK /\ HistoryTyped
        /\ Api \in Process /\ Api \notin Executor /\ Api \notin Driver /\ proc[Api] \in ProcessState
    BY AtHand DEF Typed, Process, Executor, Driver, WorkerId, Caller
  <1>2. CASE CancelRequest(r)
    <2>1. RequestCancellation(r) /\ UNCHANGED <<ledgerVars, proc, history>>
      BY <1>2 DEF CancelRequest
    <2>2. RunTypeOK'
      BY <1>1, <2>1 DEF RequestCancellation, RunTypeOK
    <2> QED
      BY <1>1, <2>1, <2>2, StandingStill, OutsideLedger
  <1>3. CASE AuthorizeRequest(r)
    <2>1. PICK approved \in BOOLEAN :
             /\ proc' = [proc EXCEPT ![Api].pc = IF approved THEN "approve" ELSE "reject",
                                     ![Api].run = r]
             /\ consented' = [consented EXCEPT ![pendingAuth[r]] = approved]
      BY <1>3 DEF AuthorizeRequest
    <2>2. /\ pendingAuth[r] \in ActionId /\ ResolveAuthorization(r)
          /\ UNCHANGED <<ledgerVars, ran, outcome, drained>> /\ proc[Api].step = "none"
      BY <1>1, <1>3 DEF AuthorizeRequest, RunTypeOK, At
    <2>3. RunTypeOK'
      BY <1>1, <2>2 DEF ResolveAuthorization, SetPendingAuthorization, RunTypeOK
    <2>4. HistoryTyped'
      BY <1>1, <2>1, <2>2 DEF HistoryTyped
    <2> DEFINE l == IF approved THEN "approve" ELSE "reject"
               s == [proc[Api] EXCEPT !.pc = l, !.run = r]
    <2>5. proc' = [proc EXCEPT ![Api] = s]
      BY <1>1, <2>1 DEF Procs
    <2>6. l \in {"approve", "reject"}
      OBVIOUS
    <2>7. l \in Label /\ l \notin Starting /\ l # "claim"
      BY <2>6 DEF Label, Starting
    <2> HIDE DEF l
    <2>8. s \in ProcessState
      BY <1>1, <2>7 DEF ProcessState
    <2>9. s.pc = l /\ s.step = "none" /\ s.run = r
      BY <1>1, <2>2 DEF ProcessState
    <2> HIDE DEF s
    <2>10. LocalOK(Api, s)
      BY <1>1, <2>7, <2>8, <2>9 DEF LocalOK
    <2>11. Moves(Api) /\ KeepsClaim(Api)
      BY <1>1, <2>5, <2>8, <2>10 DEF Moves, Procs, KeepsClaim
    <2> QED
      BY <2>2, <2>3, <2>4, <2>11 DEF StepOK
  <1> QED
    BY <1>2, <1>3

LEMMA DrainRequestOK ==
    ASSUME Typed, NEW w \in Dispatcher, DrainRequest(w)
    PROVE  StepOK(Api)
  <1>1. Procs /\ RunTypeOK /\ HistoryTyped /\ Api \in Process
    BY DEF Typed, Process
  <1>2. /\ DrainWorker(w) /\ UNCHANGED <<runVars, proc, ran, outcome, consented>>
        /\ drained' = [drained EXCEPT ![w] = TRUE]
    BY DEF DrainRequest
  <1>3. LedgerNext /\ HistoryTyped'
    BY <1>1, <1>2 DEF LedgerNext, HistoryTyped
  <1> QED
    BY <1>1, <1>2, <1>3, StandingStill, RunTablesAlone DEF StepOK

LEMMA TimePassesOK ==
    ASSUME Typed, TimePasses
    PROVE  StepOK(Api)
  <1>1. Procs /\ RunTypeOK /\ HistoryTyped /\ Api \in Process
    BY DEF Typed, Process
  <1>2. LedgerNext /\ UNCHANGED <<runVars, proc, history>>
    BY DEF TimePasses, LedgerNext
  <1> QED
    BY <1>1, <1>2, StandingStill, InsideLedger

--------------------------------------------------------------------------
(* The same facts for a step of the whole system, a crash included.        *)

Claims(p) ==
    \/ proc[p].pc \in Holding /\ proc'[p].act = proc[p].act
    \/ actions[proc'[p].act].status = "APPROVED" /\ actions'[proc'[p].act].worker = p

Advance ==
    /\ [LedgerNext]_ledgerVars
    /\ RunTypeOK' /\ HistoryTyped' /\ Procs'
    /\ \A p \in Executor : proc'[p].pc \in Holding => Claims(p)
    /\ ran' = ran \/ \E p \in Executor : StartsTool(p)

LEMMA StepAdvances ==
    ASSUME Typed, NEW p \in Process, StepOK(p)
    PROVE  Advance
  <1>1. /\ Moves(p) /\ KeepsClaim(p) /\ [LedgerNext]_ledgerVars /\ RunTypeOK' /\ HistoryTyped'
        /\ ran' = ran \/ StartsTool(p)
    BY DEF StepOK
  <1>2. Procs
    BY DEF Typed
  <1>3. Procs'
    <2>1. ASSUME NEW q \in Process PROVE LocalOK(q, proc'[q])
      BY <1>1, <1>2 DEF Moves, Procs
    <2> QED
      BY <1>1, <2>1 DEF Moves, Procs
  <1>4. ASSUME NEW q \in Executor, proc'[q].pc \in Holding PROVE Claims(q)
    <2>1. q \in Process
      BY DEF Process
    <2>2. CASE q = p
      BY <1>1, <1>4, <2>2 DEF KeepsClaim, Claims
    <2>3. CASE q # p
      BY <1>1, <1>4, <2>1, <2>3 DEF Moves, Claims
    <2> QED
      BY <2>2, <2>3
  <1>5. ran' = ran \/ \E q \in Executor : StartsTool(q)
    BY <1>1 DEF StartsTool
  <1> QED
    BY <1>1, <1>3, <1>4, <1>5 DEF Advance

LEMMA CrashAdvances ==
    ASSUME Typed, ApiCrash
    PROVE  Advance
  <1>1. /\ Procs /\ RunTypeOK /\ HistoryTyped /\ UNCHANGED <<runVars, history>>
    BY DEF Typed, ApiCrash
  <1>2. PICK p \in ApiProcess : Abandon(p) \/ UNCHANGED ledgerVars
    BY DEF ApiCrash
  <1>3. [LedgerNext]_ledgerVars
    BY <1>2 DEF LedgerNext, ApiProcess, Caller, WorkerId
  <1>4. RunTypeOK' /\ HistoryTyped'
    BY <1>1, RunTablesAlone DEF HistoryTyped, history
  <1>5. proc' = [v \in Process |->
                  IF v = Api THEN [proc[v] EXCEPT !.pc = "bootSweep", !.step = "none"]
                  ELSE IF v \in Continuation /\ proc[v].pc \notin {"idle", "end"}
                  THEN [proc[v] EXCEPT !.pc = "killed", !.step = "none"]
                  ELSE proc[v]]
    BY DEF ApiCrash
  <1>6. ASSUME NEW q \in Process
        PROVE  /\ LocalOK(q, proc'[q])
               /\ \/ proc'[q] = proc[q]
                  \/ proc'[q].pc \notin Holding
    <2>1. ASSUME NEW l \in {"bootSweep", "killed"},
                 proc'[q] = [proc[q] EXCEPT !.pc = l, !.step = "none"]
          PROVE  LocalOK(q, proc'[q]) /\ proc'[q].pc \notin Holding
      <3>1. l \in Label /\ proc[q] \in ProcessState
        BY <1>1, AtHand DEF Label
      <3>2. proc'[q] \in ProcessState /\ proc'[q].pc = l /\ proc'[q].step = "none"
        BY <2>1, <3>1 DEF ProcessState
      <3> QED
        BY <3>2 DEF LocalOK, Starting, NeedsRun, Working, Holding
    <2>2. \/ \E l \in {"bootSweep", "killed"} :
                proc'[q] = [proc[q] EXCEPT !.pc = l, !.step = "none"]
          \/ proc'[q] = proc[q]
      BY <1>5
    <2>3. LocalOK(q, proc[q])
      BY <1>1 DEF Procs
    <2> QED
      BY <2>1, <2>2, <2>3
  <1>7. Procs'
    BY <1>5, <1>6 DEF Procs, LocalOK
  <1>8. ASSUME NEW q \in Executor, proc'[q].pc \in Holding PROVE Claims(q)
    BY <1>6, <1>8 DEF Process, Claims
  <1> QED
    BY <1>1, <1>3, <1>4, <1>7, <1>8 DEF Advance, history

LEMMA NextAdvances ==
    ASSUME Typed, HandsOneRow, [RuntimeNext]_vars
    PROVE  Advance
  <1>1. ASSUME NEW p \in Process, ProcessStep(p) PROVE Advance
    <2>1. CASE LifecycleCall(p)
      BY <2>1, LifecycleCallOK, StepAdvances
    <2>2. CASE p \in Driver /\ DriverStart(p)
      BY <2>2, DriverStartOK, StepAdvances
    <2>3. CASE p \in Driver \cup Executor /\ ReActStep(p)
      BY <2>3, ReActStepOK, StepAdvances
    <2>4. CASE p \in Executor /\ ExecuteStep(p)
      BY <2>4, ExecuteStepOK, StepAdvances
    <2>5. CASE p \in Dispatcher /\ (WorkerStep(p) \/ WorkerExit(p))
      BY <2>5, WorkerStepOK, StepAdvances
    <2>6. CASE p \in Continuation /\ ContinuationStep(p)
      BY <2>6, ContinuationStepOK, StepAdvances
    <2>7. CASE p = Api /\ ApiStep
      BY <2>7, ApiStepOK, StepAdvances
    <2> QED
      BY <1>1, <2>1, <2>2, <2>3, <2>4, <2>5, <2>6, <2>7 DEF ProcessStep
  <1>2. Api \in Process
    BY DEF Process
  <1>3. ASSUME NEW r \in RunId, CancelRequest(r) \/ AuthorizeRequest(r) PROVE Advance
    BY <1>2, <1>3, ApiRequestOK, StepAdvances
  <1>4. ASSUME NEW c \in Continuation, NEW r \in RunId, ContinueRequest(c, r) PROVE Advance
    BY <1>4, ContinueRequestOK, StepAdvances DEF Process, Executor
  <1>5. ASSUME NEW w \in Dispatcher, DrainRequest(w) PROVE Advance
    BY <1>2, <1>5, DrainRequestOK, StepAdvances
  <1>6. ASSUME NEW w \in Dispatcher, StopSignal(w) \/ WorkerCrash(w) PROVE Advance
    BY <1>6, WorkerEndsOK, StepAdvances DEF Process, Executor
  <1>7. CASE ApiCrash
    BY <1>7, CrashAdvances
  <1>8. CASE TimePasses
    BY <1>2, <1>8, TimePassesOK, StepAdvances
  <1>9. CASE UNCHANGED vars
    <2>1. Procs /\ RunTypeOK /\ HistoryTyped /\ UNCHANGED <<ledgerVars, runVars, proc, history>>
      BY <1>9 DEF Typed, vars
    <2> QED
      BY <1>2, <2>1, StandingStill, InsideLedger, StepAdvances
  <1> QED
    BY <1>1, <1>3, <1>4, <1>5, <1>6, <1>7, <1>8, <1>9 DEF RuntimeNext

--------------------------------------------------------------------------
(* The invariant.  A process about to start a handler holds its action by  *)
(* a claim, and nobody has started the handler before: the ledger gives an *)
(* action one owner for ever, so no second process ever gets that far.     *)

ClaimsHeld ==
    \A p \in Executor : proc[p].pc \in Holding =>
        actions[proc[p].act].worker = p /\ ran[proc[p].act] = 0

RanByOwner == \A a \in ActionId : ran[a] <= 1 /\ (ran[a] > 0 => actions[a].worker # NoWorker)

RInv ==
    /\ IInv /\ RunTypeOK /\ HistoryTyped /\ Procs
    /\ HandsOneRow /\ ClaimsHeld /\ RanByOwner

LEMMA HandsStayOneRow ==
    ASSUME LedgerTypeOK, HandsOneRow, [LedgerNext]_ledgerVars
    PROVE  HandsOneRow'
  <1>0. hand \in [Caller -> Hand]
    BY DEF LedgerTypeOK
  <1>1. ASSUME UNCHANGED hand PROVE HandsOneRow'
    BY <1>1 DEF HandsOneRow
  <1>2. ASSUME NEW p \in Caller, PutDown(p) PROVE HandsOneRow'
    BY <1>0, <1>2 DEF PutDown, Empty, HandsOneRow, AtMostOne
  <1>3. ASSUME NEW p \in Caller, NEW a, NEW op, Take(p, op, {a}) PROVE HandsOneRow'
    BY <1>0, <1>3 DEF Take, HandsOneRow, AtMostOne
  <1>4. ASSUME NEW p \in Caller, NEW rows, Take(p, "sweep", rows) PROVE HandsOneRow'
    BY <1>0, <1>4 DEF Take, HandsOneRow, AtMostOne
  <1>5. /\ Dispatcher \subseteq Caller /\ Continuation \subseteq Caller
        /\ WorkerId \subseteq Caller /\ Sweeper \subseteq Caller
    BY DEF WorkerId, Sweeper, Caller
  <1>6. ASSUME NEW w \in Dispatcher, SelectDispatchable(w) \/ ClaimDispatched(w)
        PROVE  HandsOneRow'
    BY <1>2, <1>3, <1>5, <1>6 DEF SelectDispatchable, ClaimDispatched
  <1>7. ASSUME NEW w \in Continuation, ClaimApproved(w) \/ \E r \in RunId : SelectApproved(r, w)
        PROVE  HandsOneRow'
    BY <1>2, <1>3, <1>5, <1>7 DEF SelectApproved, ClaimApproved
  <1>8. ASSUME NEW p \in Caller, LoseClaim(p) \/ SelectStale(p) \/ RecoverStale(p) \/ Abandon(p)
        PROVE  HandsOneRow'
    BY <1>2, <1>4, <1>8 DEF LoseClaim, SelectStale, RecoverStale, Abandon
  <1>9. ASSUME \/ \E a \in ActionId : CreatePendingAction(a)
               \/ \E r \in RunId : ApprovePendingAction(r) \/ RejectPendingAction(r)
               \/ \E w \in Dispatcher : RegisterWorker(w) \/ DrainWorker(w) \/ StopWorker(w)
               \/ \E a \in ActionId, w \in WorkerId : RenewActionLease(a, w)
               \/ \E a \in ActionId, succeeded \in BOOLEAN : FinishPendingAction(a, succeeded)
               \/ Tick \/ UNCHANGED ledgerVars
        PROVE  UNCHANGED hand
    BY <1>9 DEF CreatePendingAction, ApprovePendingAction, RejectPendingAction, RegisterWorker,
                DrainWorker, StopWorker, RenewActionLease, FinishPendingAction, Tick, ledgerVars
  <1> QED
    BY <1>1, <1>5, <1>6, <1>7, <1>8, <1>9 DEF LedgerNext

LEMMA RuntimeInitOK ==
    ASSUME RuntimeInit
    PROVE  RInv /\ LedgerInit
  <1>1. IInv /\ LedgerInit
    BY InitOK DEF RuntimeInit
  <1>2. RunTypeOK /\ HistoryTyped
    BY DEF RuntimeInit, RunInit, RunTypeOK, HistoryTyped
  <1>3. HandsOneRow
    BY <1>1 DEF LedgerInit, HandsOneRow, Empty
  <1>4. ASSUME NEW p \in Process
        PROVE  LocalOK(p, proc[p]) /\ proc[p].pc \notin Holding
    <2> DEFINE r == IF p \in Driver THEN p ELSE NoRun
    <2>1. proc[p] = [pc |-> StartOf(p), step |-> "none", goal |-> "none", run |-> r,
                     act |-> NoAction, asked |-> NoAction,
                     turn |-> 0, want |-> "none", verdict |-> FALSE]
      BY DEF RuntimeInit
    <2>2. /\ StartOf(p) \in {"new", "off", "idle", "bootSweep"}
          /\ StartOf(p) = "new" => p \in Driver
      <3>1. /\ p \in Driver \/ p \in Dispatcher \/ p \in Continuation \/ p = Api
            /\ p \in Dispatcher \/ p \in Continuation \/ p = Api => p \notin Driver
            /\ p = Api => p \notin Dispatcher /\ p \notin Continuation
            /\ p \in Dispatcher => p \notin Continuation
        BY DEF Process, Executor, Driver, Caller, WorkerId
      <3> QED
        BY <3>1 DEF StartOf
    <2>3. r \in RunId \cup {NoRun} /\ (p \in Driver => r \in RunId) /\ 0 \in 0 .. MaxTurns
      BY DEF Driver
    <2>4. StartOf(p) \in Label
      BY <2>2 DEF Label
    <2> HIDE DEF r
    <2>5. proc[p] \in ProcessState
      BY <2>1, <2>3, <2>4 DEF ProcessState
    <2> QED
      BY <2>1, <2>2, <2>3, <2>5 DEF LocalOK, Starting, NeedsRun, Working, Holding
  <1>5. Procs
    BY <1>4 DEF RuntimeInit, Procs, LocalOK
  <1>6. ClaimsHeld
    BY <1>4 DEF ClaimsHeld, Process
  <1>7. RanByOwner
    <2>1. \A a \in ActionId : ran[a] = 0
      BY DEF RuntimeInit
    <2>2. ASSUME NEW a \in ActionId PROVE ran[a] <= 1 /\ ~(ran[a] > 0)
      <3>1. ran[a] = 0
        BY <2>1
      <3> QED
        BY <3>1
    <2> QED
      BY <2>2 DEF RanByOwner
  <1> QED
    BY <1>1, <1>2, <1>3, <1>5, <1>6, <1>7 DEF RInv

LEMMA RuntimeStepOK ==
    ASSUME RInv, [RuntimeNext]_vars
    PROVE  RInv' /\ [LedgerNext]_ledgerVars
  <1>1. /\ IInv /\ LedgerTypeOK /\ LeaseWithinHorizon /\ Typed /\ HandsOneRow
        /\ HistoryTyped /\ Procs /\ ClaimsHeld /\ RanByOwner
    BY DEF RInv, IInv, Typed
  <1>2. Advance
    BY <1>1, NextAdvances
  <1>3. [LedgerNext]_ledgerVars /\ RunTypeOK' /\ HistoryTyped' /\ Procs'
    BY <1>2 DEF Advance
  <1>4. IInv' /\ OwnerKept /\ HandsOneRow'
    BY <1>1, <1>3, NextOK, StepKeepsOwner, HandsStayOneRow
  <1>5. \A p \in Executor : p \in Process /\ p # NoWorker
    BY DEF Process, Executor, WorkerId
  <1>6. ASSUME NEW p \in Executor, proc[p].pc \in Holding
        PROVE  proc[p].act \in ActionId
    BY <1>1, <1>5, <1>6, AtHand DEF Holding, Working
  <1>7. ASSUME NEW a \in ActionId, actions[a].worker = NoWorker
        PROVE  ran[a] = 0 /\ \A p \in Executor : StartsTool(p) => proc[p].act # a
    <2>1. ran[a] = 0
      BY <1>1, <1>7 DEF RanByOwner, HistoryTyped
    <2>2. ASSUME NEW p \in Executor, StartsTool(p) PROVE proc[p].act # a
      BY <1>1, <1>5, <1>7, <2>2 DEF ClaimsHeld, StartsTool, Holding
    <2> QED
      BY <2>1, <2>2
  <1>8. ClaimsHeld'
    <2> SUFFICES ASSUME NEW p \in Executor, proc'[p].pc \in Holding
                 PROVE  actions'[proc'[p].act].worker = p /\ ran'[proc'[p].act] = 0
      BY DEF ClaimsHeld
    <2> DEFINE a == proc'[p].act
    <2>1. Claims(p) /\ a \in ActionId
      <3>1. LocalOK(p, proc'[p])
        BY <1>3, <1>5 DEF Procs
      <3> QED
        BY <1>2, <3>1 DEF Advance, LocalOK, Holding, Working
    <2>2. CASE proc[p].pc \in Holding /\ a = proc[p].act
      <3>1. actions[a].worker = p /\ ran[a] = 0
        BY <1>1, <2>2 DEF ClaimsHeld
      <3>2. actions'[a].worker = p
        BY <1>4, <1>5, <2>1, <3>1 DEF OwnerKept
      <3>3. ASSUME NEW q \in Executor, StartsTool(q) PROVE proc[q].act # a
        BY <1>1, <3>1, <3>3 DEF ClaimsHeld, StartsTool, Holding
      <3> QED
        BY <1>1, <1>2, <2>1, <3>1, <3>2, <3>3 DEF Advance, StartsTool, HistoryTyped
    <2>3. CASE actions[a].status = "APPROVED" /\ actions'[a].worker = p
      <3>1. actions[a].worker = NoWorker
        BY <1>1, <2>1, <2>3 DEF LeaseWithinHorizon, Unclaimed
      <3>2. ran[a] = 0 /\ \A q \in Executor : StartsTool(q) => proc[q].act # a
        BY <1>7, <2>1, <3>1
      <3> QED
        BY <1>1, <1>2, <2>1, <2>3, <3>2 DEF Advance, StartsTool, HistoryTyped
    <2> QED
      BY <2>1, <2>2, <2>3 DEF Claims
  <1>9. RanByOwner'
    <2> SUFFICES ASSUME NEW a \in ActionId
                 PROVE  ran'[a] <= 1 /\ (ran'[a] > 0 => actions'[a].worker # NoWorker)
      BY DEF RanByOwner
    <2>1. actions[a].worker # NoWorker => actions'[a].worker # NoWorker
      BY <1>4 DEF OwnerKept
    <2>2. CASE ran'[a] = ran[a]
      BY <1>1, <2>1, <2>2 DEF RanByOwner
    <2>3. CASE \E p \in Executor : StartsTool(p) /\ proc[p].act = a
      <3>1. PICK p \in Executor : StartsTool(p) /\ proc[p].act = a
        BY <2>3
      <3>2. actions[a].worker = p /\ ran[a] = 0
        BY <1>1, <3>1 DEF ClaimsHeld, StartsTool, Holding
      <3>3. ran'[a] = 1
        BY <1>1, <3>1, <3>2 DEF StartsTool, HistoryTyped
      <3> QED
        BY <1>5, <2>1, <3>2, <3>3
    <2>4. ran'[a] = ran[a] \/ \E p \in Executor : StartsTool(p) /\ proc[p].act = a
      BY <1>1, <1>2 DEF Advance, StartsTool, HistoryTyped
    <2> QED
      BY <2>2, <2>3, <2>4
  <1> QED
    BY <1>3, <1>4, <1>8, <1>9 DEF RInv

\* RInv holds in every reachable state of the running system.
THEOREM RuntimeInvariant == RuntimeSpec => []RInv
  <1>1. RuntimeInit => RInv
    BY RuntimeInitOK
  <1>2. RInv /\ [RuntimeNext]_vars => RInv'
    BY RuntimeStepOK
  <1> QED
    BY <1>1, <1>2, PTL DEF RuntimeSpec

(* Every reachable state of the running system is well typed.              *)
THEOREM RuntimeTypeCorrect == RuntimeSpec => []RuntimeTypeOK
  <1>1. RInv => RuntimeTypeOK
    BY DEF RInv, IInv, HistoryTyped, Procs, RuntimeTypeOK
  <1> QED
    BY <1>1, RuntimeInvariant, PTL

(* Whatever the processes, requests, signals and crashes do, they do to    *)
(* the tables what ActionLedger allows: all that is proved of it for every *)
(* caller holds of the running system.                                     *)
THEOREM RuntimeImplementsLedger == RuntimeSpec => ImplementsLedger
  <1>1. RuntimeInit => LedgerInit
    BY RuntimeInitOK
  <1>2. RInv /\ [RuntimeNext]_vars => [LedgerNext]_ledgerVars
    BY RuntimeStepOK
  <1> QED
    BY <1>1, <1>2, RuntimeInvariant, PTL DEF RuntimeSpec, ImplementsLedger, LedgerSpec

(* The handler of an approved action is started at most once, however many *)
(* workers and /continue requests compete for it and whatever dies.        *)
THEOREM RuntimeAtMostOnce == RuntimeSpec => []ToolRunsAtMostOnce
  <1>1. RInv => ToolRunsAtMostOnce
    BY DEF RInv, RanByOwner, ToolRunsAtMostOnce
  <1> QED
    BY <1>1, RuntimeInvariant, PTL

==========================================================================
