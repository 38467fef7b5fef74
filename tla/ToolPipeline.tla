--------------------------- MODULE ToolPipeline ---------------------------
(***************************************************************************)
(* One run seen from inside its conversation: what the model asks for, the *)
(* gates of ToolRouter.execute in their order, and what the model is told. *)
(* AgentRuntime knows a tool call as blocked, verified or failed; this     *)
(* module is where those outcomes come from.                               *)
(*                                                                         *)
(* A session is one ReActLoop.run: the driver's (number 1) and one for     *)
(* each approved action, whose call it executes first.  Every session has  *)
(* a router, a budget manager and a loop detector of its own               *)
(* (build_secure_run_runtime).  Sessions follow one another, which is      *)
(* OneThreadPerRun of AgentRuntime.                                        *)
(***************************************************************************)
EXTENDS Integers, Sequences, FiniteSets

CONSTANTS
    Call,               \* what a model may ask for: a tool name with arguments
    Readable,           \* calls with a name and JSON arguments
    Registered,         \* calls of registered tools
    WellFormed,         \* registered calls whose arguments the validator accepts
    ShellCall,          \* calls of shell.execute and python.execute
    Risk,               \* [Registered -> RiskLevel]
    MaxToolCalls, MaxRuntimeSeconds, MaxShellExecutions,    \* the run's budget
    MaxTurns,           \* default_max_tool_calls + 1, from the settings
    RepeatThreshold,    \* LoopDetector's, 2
    NoCall,
    MaxAnswer,          \* bound: calls in one answer of the model
    MaxSessions         \* bound: the driver's session and the continuations

RiskLevel == {"LOW", "MEDIUM", "HIGH", "CRITICAL"}

ASSUME PipelineConstants ==
    /\ WellFormed \subseteq Registered /\ Registered \subseteq Readable
    /\ Readable \subseteq Call /\ ShellCall \subseteq Registered
    /\ Risk \in [Registered -> RiskLevel]
    /\ {MaxToolCalls, MaxRuntimeSeconds, MaxTurns} \subseteq Nat \ {0}
    /\ MaxShellExecutions \in Nat
    /\ RepeatThreshold \in Nat \ {0, 1}
    /\ NoCall \notin Call
    /\ MaxAnswer \in Nat \ {0} /\ MaxSessions \in Nat \ {0}

VARIABLES
    pc,              \* where the session is; see Place
    turn,            \* turns taken in this session
    todo,            \* calls of the current answer still to be executed
    approved,        \* authorization_granted of the call at the head of todo
    results,         \* tool messages that follow the last answer in messages, each
                     \* with the router's decision on a retry
    pending,         \* call of the pending action, with the results its
                     \* checkpoint holds
    spent,           \* BudgetManager: calls, shells and seconds of this session
    seen,            \* LoopDetector._counts
    session,         \* number of the session
    cancelRequested, \* run_controls.cancel_requested
    terminal,        \* whether the stored state of the run is terminal
    log,             \* history: the handlers started
    evidence,        \* history: every result since the last answer
    grants           \* history: how often a person approved a call

dialogue == <<todo, approved, results, evidence>>
controls == <<spent, seen>>
runState == <<session, cancelRequested, terminal, grants>>
vars == <<pc, turn, pending, log, dialogue, controls, runState>>

--------------------------------------------------------------------------
Place == {"model", "calls", "route", "handler", "parked", "granted", "ended"}
Working == {"model", "calls", "route", "handler"}

Unspent  == [calls |-> 0, shells |-> 0, seconds |-> 0]
Unseen   == [c \in Call |-> 0]

\* The checkpoint a pending action refers to is the one of the answer itself,
\* saved before any of its calls was executed.
AnswerCheckpoint == <<>>

PipelineInit ==
    /\ pc = "model" /\ turn = 0 /\ session = 1
    /\ todo = <<>> /\ approved = FALSE
    /\ results = <<>> /\ evidence = <<>>
    /\ pending = [call |-> NoCall, saved |-> AnswerCheckpoint]
    /\ spent = Unspent /\ seen = Unseen
    /\ cancelRequested = FALSE /\ terminal = FALSE
    /\ log = <<>> /\ grants = [c \in Call |-> 0]

Current == Head(todo)

--------------------------------------------------------------------------
(* The turns of the loop                                                   *)

Answers == UNION {[1 .. n -> Call] : n \in 1 .. MaxAnswer}

\* Only the driver records how its loop ended, and of its outcomes the state
\* machine lets EXECUTE go to FAILED alone: COMPLETE and PARTIAL are refused
\* and the run stays as it was.
EndSession(state) ==
    /\ pc' = "ended"
    /\ todo' = <<>>
    /\ terminal' = (terminal \/ (session = 1 /\ state = "FAILED"))

ModelAnswers ==
    /\ pc = "model"
    /\ \E state \in {"COMPLETE", "PARTIAL", "FAILED"} :
          /\ state = "PARTIAL" <=> turn = MaxTurns
          /\ EndSession(state)
    /\ UNCHANGED <<turn, approved, results, evidence, pending, controls, session,
                   cancelRequested, grants, log>>

\* Faulty variant: an answer that only calls tools is no turn.
AnswerOffTheCount ==
    /\ pc = "model" /\ turn < MaxTurns
    /\ \E calls \in Answers : todo' = calls
    /\ results' = <<>> /\ evidence' = <<>>
    /\ pc' = "calls"
    /\ UNCHANGED <<turn, approved, pending, controls, runState, log>>

ModelCallsTools ==
    /\ pc = "model" /\ turn < MaxTurns
    /\ turn' = turn + 1
    /\ \E calls \in Answers : todo' = calls
    /\ results' = <<>> /\ evidence' = <<>>
    /\ pc' = "calls"
    /\ UNCHANGED <<approved, pending, controls, runState, log>>

UnreadableCall ==
    /\ pc = "calls" /\ Current \notin Readable
    /\ EndSession("FAILED")
    /\ UNCHANGED <<turn, approved, results, evidence, pending, controls, session,
                   cancelRequested, grants, log>>

\* Faulty variant: the consent for one call covers the rest of the session.
DeliverKeepingConsent(r) ==
    /\ results' = Append(results, r)
    /\ evidence' = Append(evidence, r)
    /\ todo' = Tail(todo)
    /\ approved' = approved
    /\ pc' = IF Tail(todo) = <<>> THEN "model" ELSE "calls"

\* The result goes into messages, and the next call or turn follows; after an
\* approved action the loop of its continuation begins.
Deliver(r) ==
    /\ results' = Append(results, r)
    /\ evidence' = Append(evidence, r)
    /\ todo' = Tail(todo)
    /\ approved' = FALSE
    /\ pc' = IF Tail(todo) = <<>> THEN "model" ELSE "calls"

\* The result of a call whose handler was not started.
Refused(status) ==
    [call |-> Current, status |-> status, verified |-> FALSE, retry |-> FALSE]

\* Faulty variant: cancellation is looked for once per answer.
CheckFirstCallOnly ==
    /\ pc = "calls" /\ Current \in Readable
    /\ IF cancelRequested /\ ~terminal /\ results = <<>>
       THEN /\ terminal' = TRUE /\ pc' = "ended"
            /\ UNCHANGED dialogue
       ELSE pc' = "route" /\ UNCHANGED <<terminal, dialogue>>
    /\ UNCHANGED <<turn, pending, controls, session, cancelRequested, grants, log>>

\* RunToolExecutor asks for a cancellation before it routes a call; a run that
\* somebody else has ended counts as not cancelled.  A cancelled call ends the
\* loop, but a cancelled approved action is a result like any other: its
\* continuation goes on to the model, unless somebody else ends the run between
\* the read and the write of the check, which then raises LifecycleError.
CheckCancellation ==
    /\ pc = "calls" /\ Current \in Readable
    /\ IF cancelRequested /\ ~terminal
       THEN /\ terminal' = TRUE
            /\ \/ approved /\ Deliver(Refused("CANCELLED"))
               \/ pc' = "ended" /\ UNCHANGED dialogue
       ELSE pc' = "route" /\ UNCHANGED <<terminal, dialogue>>
    /\ UNCHANGED <<turn, pending, controls, session, cancelRequested, grants, log>>

--------------------------------------------------------------------------
(* ToolRouter.execute: the gates, in order                                 *)

RequiresApproval == {"HIGH", "CRITICAL"}
Permitted(c) == Risk[c] \in RequiresApproval => approved

\* Faulty variant: one call too many.
OneOverBudget(c) ==
    /\ spent.seconds < MaxRuntimeSeconds
    /\ spent.calls <= MaxToolCalls
    /\ c \in ShellCall => spent.shells < MaxShellExecutions

InBudget(c) ==
    /\ spent.seconds < MaxRuntimeSeconds
    /\ spent.calls < MaxToolCalls
    /\ c \in ShellCall => spent.shells < MaxShellExecutions

\* Faulty variant: the threshold is exceeded, not reached.
RepeatedMore(c) == seen[c] + 1 > RepeatThreshold

Repeated(c) == seen[c] + 1 >= RepeatThreshold

\* reserve_tool_call; record_and_check comes right after it, whatever it says.
Reserve(c) ==
    spent' = [spent EXCEPT !.calls = @ + 1, !.shells = IF c \in ShellCall THEN @ + 1 ELSE @]
Record(c) == seen' = [seen EXCEPT ![c] = @ + 1]

\* An unknown tool, arguments the validator rejects, an exhausted budget: the
\* call costs nothing.  The gate of permission stands between the last two.
RefuseCall ==
    /\ pc = "route"
    /\ \/ Current \notin WellFormed /\ Deliver(Refused("ERROR"))
       \/ /\ Current \in WellFormed /\ Permitted(Current) /\ ~InBudget(Current)
          /\ Deliver(Refused("PARTIAL"))
    /\ UNCHANGED <<turn, pending, controls, runState, log>>

\* The loop stops where it is: results so far and calls to come are left to
\* the checkpoint, which has neither.
ParkCall ==
    /\ pc = "route" /\ Current \in WellFormed /\ ~Permitted(Current)
    /\ pending' = [call |-> Current, saved |-> AnswerCheckpoint]
    /\ pc' = "parked"
    /\ todo' = <<>>
    /\ UNCHANGED <<turn, approved, results, evidence, controls, runState, log>>

Passed(c) == pc = "route" /\ c \in WellFormed /\ Permitted(c) /\ InBudget(c)

\* A repeated call has used up budget.
BlockRepeat ==
    /\ Passed(Current) /\ Repeated(Current)
    /\ Reserve(Current) /\ Record(Current)
    /\ Deliver(Refused("PARTIAL"))
    /\ UNCHANGED <<turn, pending, runState, log>>

StartHandler ==
    /\ Passed(Current) /\ ~Repeated(Current)
    /\ Reserve(Current) /\ Record(Current)
    /\ log' = Append(log, [call |-> Current, session |-> session, asked |-> cancelRequested,
                       over |-> terminal])
    /\ pc' = "handler"
    /\ UNCHANGED <<turn, dialogue, pending, runState>>

Failure(status, code, retryable) ==
    [status |-> status, success |-> FALSE, code |-> code, retryable |-> retryable]

\* What the shipped handlers return; a handler that raises is TOOL_FAILURE.
HandlerResult(c) ==
    {[status |-> "SUCCESS", success |-> TRUE, code |-> "NONE", retryable |-> FALSE],
     Failure("ERROR", "TOOL_FAILURE", TRUE), Failure("ERROR", "OTHER", FALSE)}
    \cup IF c \in ShellCall
         THEN {Failure("TIMEOUT", "SANDBOX_TIMEOUT", TRUE),
               Failure("ERROR", "SANDBOX_LAUNCH_FAILED", TRUE)}
         ELSE {}

\* Faulty variant: a failed verification leaves the status as it was.
TrustedStatus(r, confirmed) == r.status

\* VerificationEngine: success that is not confirmed is PARTIAL.
VerifiedStatus(r, confirmed) ==
    IF r.success /\ ~confirmed THEN "PARTIAL" ELSE r.status

MaxAttempts == [TRANSIENT |-> 3, TIMEOUT |-> 2, TOOL_FAILURE |-> 2, SANDBOX_LAUNCH_FAILED |-> 2]
RiskMaxAttempts == [LOW |-> 3, MEDIUM |-> 3, HIGH |-> 1, CRITICAL |-> 0]

\* Faulty variant: the risk of the tool is not looked at.
RetryAnyRisk(r, c, attempts) ==
    /\ ~r.success /\ r.retryable /\ r.code \in DOMAIN MaxAttempts
    /\ attempts < MaxAttempts[r.code]

\* RetryEngine.decide
ShouldRetry(r, c, attempts) ==
    /\ ~r.success /\ r.retryable /\ r.code \in DOMAIN MaxAttempts
    /\ attempts < MaxAttempts[r.code]
    /\ attempts < RiskMaxAttempts[Risk[c]]

\* The handler returns or raises, its result is verified and a retry decided
\* on.  Nobody acts on the decision: attempts is 1 in every call the program
\* makes.
EndHandler ==
    /\ pc = "handler"
    /\ \E r \in HandlerResult(Current), confirmed \in BOOLEAN :
          Deliver([call |-> Current, status |-> VerifiedStatus(r, confirmed),
                   verified |-> r.success /\ confirmed, retry |-> ShouldRetry(r, Current, 1)])
    /\ UNCHANGED <<turn, pending, controls, runState, log>>

SessionStep ==
    \/ ModelAnswers \/ ModelCallsTools \/ UnreadableCall \/ CheckCancellation
    \/ RefuseCall \/ ParkCall \/ BlockRepeat \/ StartHandler \/ EndHandler

--------------------------------------------------------------------------
(* What happens around a session                                           *)

\* Between the model's answer and the handler next to no time passes.
TimePasses ==
    /\ pc \in {"model", "handler"} /\ spent.seconds < MaxRuntimeSeconds
    /\ spent' = [spent EXCEPT !.seconds = @ + 1]
    /\ UNCHANGED <<pc, turn, dialogue, pending, seen, runState, log>>

RequestCancellation ==
    /\ ~terminal /\ ~cancelRequested
    /\ cancelRequested' = TRUE
    /\ UNCHANGED <<pc, turn, dialogue, pending, controls, session, terminal, grants,
                   log>>

\* A request to continue the run looks for a cancellation before it looks for an
\* action to claim.  It may come from another process at any time, while a
\* session is under way too, which learns nothing of it.
ContinueEndsRun ==
    /\ cancelRequested /\ ~terminal
    /\ terminal' = TRUE
    /\ UNCHANGED <<pc, turn, dialogue, pending, controls, session, cancelRequested,
                   grants, log>>

\* A person decides.  After a denial the action is settled and nobody goes on.
DecideAction ==
    /\ pc = "parked"
    /\ \/ pc' = "granted" /\ grants' = [grants EXCEPT ![pending.call] = @ + 1]
       \/ pc' = "ended" /\ UNCHANGED grants
    /\ UNCHANGED <<turn, dialogue, pending, controls, session, cancelRequested, terminal,
                   log>>

\* Faulty variant: the budget manager outlives the session.
FreshDetectorOnly == seen' = Unseen /\ UNCHANGED spent

\* A continuation builds its own router, budget manager and loop detector.
FreshControls == spent' = Unspent /\ seen' = Unseen

DropAction ==
    /\ pc = "granted" /\ cancelRequested /\ ~terminal
    /\ terminal' = TRUE
    /\ pc' = "ended"
    /\ UNCHANGED <<turn, dialogue, pending, controls, session, cancelRequested, grants,
                   log>>

\* resume_claimed_action: the conversation of the checkpoint, then the call.
ResumeAction ==
    /\ pc = "granted" /\ (terminal \/ ~cancelRequested)
    /\ session < MaxSessions
    /\ session' = session + 1
    /\ FreshControls
    /\ turn' = 0
    /\ todo' = <<pending.call>> /\ approved' = TRUE
    /\ results' = pending.saved
    /\ pending' = [call |-> NoCall, saved |-> AnswerCheckpoint]
    /\ pc' = "calls"
    /\ UNCHANGED <<evidence, cancelRequested, terminal, grants, log>>

PipelineNext ==
    \/ SessionStep
    \/ TimePasses \/ RequestCancellation \/ ContinueEndsRun
    \/ DecideAction \/ DropAction \/ ResumeAction

PipelineSpec == PipelineInit /\ [][PipelineNext]_vars

\* A session runs on: the model and every tool have timeouts.  People owe
\* nothing.
FairPipelineSpec == PipelineSpec /\ WF_vars(SessionStep)

--------------------------------------------------------------------------
(* Properties                                                              *)

Message == [call : Call, status : {"SUCCESS", "PARTIAL", "ERROR", "TIMEOUT", "CANCELLED"},
            verified : BOOLEAN, retry : BOOLEAN]

LogEntry == [call : Call, session : 1 .. MaxSessions, asked : BOOLEAN, over : BOOLEAN]

Spending == [calls : 0 .. MaxToolCalls, shells : 0 .. MaxShellExecutions,
             seconds : 0 .. MaxRuntimeSeconds]

Parked == [call : Call \cup {NoCall}, saved : {AnswerCheckpoint}]

PipelineTypeOK ==
    /\ pc \in Place /\ turn \in 0 .. MaxTurns /\ session \in 1 .. MaxSessions
    /\ todo \in Seq(Call) /\ approved \in BOOLEAN
    /\ results \in Seq(Message) /\ evidence \in Seq(Message)
    /\ pending \in Parked /\ spent \in Spending
    /\ seen \in [Call -> 0 .. MaxToolCalls]
    /\ cancelRequested \in BOOLEAN /\ terminal \in BOOLEAN
    /\ log \in Seq(LogEntry)
    /\ grants \in [Call -> Nat]

Started(s, C) == {i \in DOMAIN log : log[i].session = s /\ log[i].call \in C}

(* However the model mixes calls, repeats and refused calls in its         *)
(* answers, the handlers a session has started stay within the run's       *)
(* budget of calls and of shell executions (budget_manager.py:42).         *)
SessionWithinBudget ==
    \A s \in 1 .. MaxSessions :
        /\ Cardinality(Started(s, Call)) <= MaxToolCalls
        /\ Cardinality(Started(s, ShellCall)) <= MaxShellExecutions

(* Within a session no call reaches its handler RepeatThreshold times,     *)
(* neither in one answer nor over several (loop_detector.py:22).           *)
NoRepeatInSession ==
    \A s \in 1 .. MaxSessions, c \in Call :
        Cardinality(Started(s, {c})) < RepeatThreshold

(* A handler of a tool that requires approval is started once at most for  *)
(* every time a person approved that very call: consent covers neither the *)
(* next call of the session nor a second run (permission_gate.py:23,       *)
(* continuation.py:92-97).                                                 *)
RiskyOnlyAsGranted ==
    \A c \in Registered :
        Risk[c] \in RequiresApproval =>
            Cardinality({i \in DOMAIN log : log[i].call = c}) <= grants[c]

(* What a person approved is not turned down by what the run did before:   *)
(* the approved call passes budget and loop detector unless time is up or  *)
(* the run may use no shell at all (tool_router.py:106-136).               *)
ConsentIsNotWasted ==
    (pc = "route" /\ approved) =>
        \/ InBudget(Current) /\ ~Repeated(Current)
        \/ spent.seconds = MaxRuntimeSeconds
        \/ MaxShellExecutions = 0

(* While a requested cancellation has not ended the run, one handler is    *)
(* started at most, the one whose check came just before: neither the rest *)
(* of an answer nor a later turn nor the continuation of an approved       *)
(* action starts another without ending the run first                      *)
(* (run_executor.py:49, worker_dispatch.py:97).                            *)
CancellationEndsRun ==
    Cardinality({i \in DOMAIN log : log[i].asked /\ ~log[i].over}) <= 1

(* The model, and the audit after it, read SUCCESS only where the handler  *)
(* of that call has run in this run and its verification agreed            *)
(* (verification_engine.py:54, continuation.py:103).                       *)
SuccessMeansVerified ==
    \A i \in DOMAIN evidence :
        evidence[i].status = "SUCCESS" =>
            /\ evidence[i].verified
            /\ \E j \in DOMAIN log : log[j].call = evidence[i].call

(* Nobody is told to retry a call that needs consent, nor one whose        *)
(* handler was never started (retry_engine.py:42).                         *)
RetryIsSafe ==
    \A i \in DOMAIN evidence :
        evidence[i].retry =>
            /\ Risk[evidence[i].call] \notin RequiresApproval
            /\ \E j \in DOMAIN log : log[j].call = evidence[i].call

(* A session ends or waits for a person, whatever the model answers        *)
(* (react_loop.py:94).                                                     *)
SessionEnds == (pc \in Working) ~> (pc \notin Working)

--------------------------------------------------------------------------
(* What the repository says of the program, and the program does not do    *)

(* docs/specification-alignment.md:31 "append-only messages, approval,     *)
(* single worker claim, renewable owner-checked lease, execution result    *)
(* checkpointing, and exact replay": when the model is called again, its   *)
(* messages hold every result there has been since its last answer         *)
(* (react_loop.py:127, continuation.py:122).                               *)
ReplayIsExact == pc = "model" => results = evidence

==========================================================================
