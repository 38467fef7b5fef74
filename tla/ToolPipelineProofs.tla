------------------------ MODULE ToolPipelineProofs ------------------------
(***************************************************************************)
(* Proofs about ToolPipeline, for any set of calls, any budget, any number *)
(* of turns and sessions and answers of any length.                        *)
(***************************************************************************)
EXTENDS ToolPipeline, FiniteSetTheorems, TLAPS

USE PipelineConstants

--------------------------------------------------------------------------
(* Types, and what the locals of a session mean where it stands.           *)

Placed ==
    /\ pc \in {"calls", "route", "handler"} => todo # <<>>
    /\ pc = "handler" =>
          /\ Current \in WellFormed
          /\ \E j \in DOMAIN log : log[j].call = Current
    /\ pc \in {"parked", "granted"} => pending.call \in Call
    /\ approved => pc \in {"calls", "route", "handler", "ended"}
    /\ \A c \in Call : seen[c] <= spent.calls

PInv == PipelineTypeOK /\ Placed

\* The call at the head of a nonempty rest of an answer is a call.
LEMMA HeadOK == ASSUME todo \in Seq(Call), todo # <<>> PROVE Current \in Call
    BY DEF Current

\* The result of a call is a message, and the rest of the answer is a sequence.
LEMMA DeliverOK ==
    ASSUME todo \in Seq(Call), results \in Seq(Message), evidence \in Seq(Message),
           todo # <<>>, NEW r \in Message, Deliver(r)
    PROVE  /\ todo' \in Seq(Call) /\ approved' = FALSE
           /\ results' \in Seq(Message) /\ evidence' \in Seq(Message)
           /\ pc' \in {"model", "calls"}
           /\ pc' = "calls" => todo' # <<>>
<1>1. Tail(todo) \in Seq(Call)
    OBVIOUS
<1>2. Append(results, r) \in Seq(Message) /\ Append(evidence, r) \in Seq(Message)
    OBVIOUS
<1> QED
    BY <1>1, <1>2 DEF Deliver

\* What is refused is a message too.
LEMMA RefusedOK ==
    ASSUME Current \in Call, NEW s \in {"SUCCESS", "PARTIAL", "ERROR", "TIMEOUT", "CANCELLED"}
    PROVE  Refused(s) \in Message
    BY DEF Refused, Message

LEMMA PInit == PipelineInit => PInv
<1> SUFFICES ASSUME PipelineInit PROVE PInv
    OBVIOUS
<1> USE DEF PipelineInit
<1>1. Unspent \in Spending /\ Unseen \in [Call -> 0 .. MaxToolCalls]
    BY DEF Unspent, Unseen, Spending
<1>2. pending \in Parked
    BY DEF Parked
<1>3. todo \in Seq(Call) /\ results \in Seq(Message) /\ evidence \in Seq(Message)
      /\ log \in Seq(LogEntry)
    OBVIOUS
<1>4. turn \in 0 .. MaxTurns /\ session \in 1 .. MaxSessions /\ grants \in [Call -> Nat]
    OBVIOUS
<1>5. PipelineTypeOK
    BY <1>1, <1>2, <1>3, <1>4, Zenon DEF PipelineTypeOK, Place
<1>6. Placed
    BY DEF Placed, Unspent, Unseen
<1> QED
    BY <1>5, <1>6 DEF PInv

LEMMA PTurn ==
    ASSUME PInv, ModelAnswers \/ ModelCallsTools \/ UnreadableCall
    PROVE  PInv'
<1> USE DEF PInv, PipelineTypeOK, Placed, Place, controls
<1>1. CASE ModelAnswers
    BY <1>1 DEF ModelAnswers, EndSession
<1>2. CASE ModelCallsTools
  <2>1. PICK calls \in Answers : todo' = calls
      BY <1>2 DEF ModelCallsTools
  <2>2. PICK n \in 1 .. MaxAnswer : calls \in [1 .. n -> Call]
      BY DEF Answers
  <2>3. calls \in Seq(Call) /\ calls # <<>>
      BY <2>2
  <2>4. PipelineTypeOK'
      BY <1>2, <2>1, <2>3 DEF ModelCallsTools, runState
  <2>5. Placed'
      BY <1>2, <2>1, <2>3 DEF ModelCallsTools
  <2> QED
      BY <2>4, <2>5
<1>3. CASE UnreadableCall
    BY <1>3 DEF UnreadableCall, EndSession
<1> QED
    BY <1>1, <1>2, <1>3

\* A step that delivers a message and leaves the rest alone.
LEMMA PDeliver ==
    ASSUME PInv, todo # <<>>, NEW m \in Message, Deliver(m),
           terminal' \in BOOLEAN, spent' \in Spending, seen' \in [Call -> 0 .. MaxToolCalls],
           \A c \in Call : seen'[c] <= spent'.calls,
           UNCHANGED <<turn, pending, session, cancelRequested, grants, log>>
    PROVE  PInv'
<1>1. /\ todo' \in Seq(Call) /\ approved' = FALSE
      /\ results' \in Seq(Message) /\ evidence' \in Seq(Message)
      /\ pc' \in {"model", "calls"}
      /\ pc' = "calls" => todo' # <<>>
    BY DeliverOK DEF PInv, PipelineTypeOK
<1>2. PipelineTypeOK'
    BY <1>1 DEF PInv, PipelineTypeOK, Place
<1>3. Placed'
    BY <1>1 DEF Placed
<1> QED
    BY <1>2, <1>3 DEF PInv

\* Without a call of Reserve and Record the counts stay in their ranges.
LEMMA SameControls ==
    ASSUME PInv, UNCHANGED controls
    PROVE  /\ spent' \in Spending /\ seen' \in [Call -> 0 .. MaxToolCalls]
           /\ \A c \in Call : seen'[c] <= spent'.calls
    BY DEF PInv, PipelineTypeOK, Placed, controls

LEMMA PCheck ==
    ASSUME PInv, CheckCancellation
    PROVE  PInv'
<1>1. Current \in Call /\ todo # <<>>
    BY HeadOK DEF PInv, PipelineTypeOK, Placed, CheckCancellation
<1>2. CASE Deliver(Refused("CANCELLED")) /\ terminal' = TRUE
    BY <1>1, <1>2, RefusedOK, PDeliver, SameControls DEF CheckCancellation
<1>3. CASE UNCHANGED dialogue /\ pc' \in {"ended", "route"} /\ terminal' \in BOOLEAN
  <2>1. PipelineTypeOK'
      BY <1>3 DEF CheckCancellation, PInv, PipelineTypeOK, Place, controls, dialogue
  <2>2. Placed'
      BY <1>1, <1>3 DEF CheckCancellation, PInv, Placed, controls, dialogue
  <2> QED
      BY <2>1, <2>2 DEF PInv
<1> QED
    BY <1>2, <1>3 DEF CheckCancellation, PInv, PipelineTypeOK

LEMMA PRefuse ==
    ASSUME PInv, RefuseCall
    PROVE  PInv'
<1>1. Current \in Call /\ todo # <<>>
    BY HeadOK DEF PInv, PipelineTypeOK, Placed, RefuseCall
<1>2. PICK s \in {"ERROR", "PARTIAL"} : Deliver(Refused(s))
    BY DEF RefuseCall
<1>3. terminal' \in BOOLEAN /\ UNCHANGED <<turn, pending, session, cancelRequested, grants, log>>
    BY DEF RefuseCall, runState, PInv, PipelineTypeOK
<1> QED
    BY <1>1, <1>2, <1>3, RefusedOK, PDeliver, SameControls DEF RefuseCall

LEMMA PPark ==
    ASSUME PInv, ParkCall
    PROVE  PInv'
<1>1. Current \in Call /\ todo # <<>>
    BY HeadOK DEF PInv, PipelineTypeOK, Placed, ParkCall
<1>2. ~approved
    BY DEF ParkCall, Permitted
<1>3. pending' \in Parked /\ pending'.call = Current
    BY <1>1 DEF ParkCall, Parked
<1>4. PipelineTypeOK'
    BY <1>3 DEF ParkCall, PInv, PipelineTypeOK, Place, controls, runState
<1>5. Placed'
    BY <1>1, <1>2, <1>3 DEF ParkCall, PInv, Placed, PipelineTypeOK, controls
<1> QED
    BY <1>4, <1>5 DEF PInv

\* Charging a call that is in budget stays within it.
LEMMA ReserveOK ==
    ASSUME PInv, Passed(Current), Reserve(Current), Record(Current)
    PROVE  /\ spent' \in Spending
           /\ seen' \in [Call -> 0 .. MaxToolCalls]
           /\ \A c \in Call : seen'[c] <= spent'.calls
<1>1. spent \in Spending /\ seen \in [Call -> 0 .. MaxToolCalls]
      /\ \A c \in Call : seen[c] <= spent.calls
    BY DEF PInv, PipelineTypeOK, Placed
<1>2. spent.calls < MaxToolCalls /\ (Current \in ShellCall => spent.shells < MaxShellExecutions)
    BY DEF Passed, InBudget
<1> DEFINE n == IF Current \in ShellCall THEN spent.shells + 1 ELSE spent.shells
<1>3. spent.calls \in 0 .. MaxToolCalls /\ spent.shells \in 0 .. MaxShellExecutions
      /\ spent.seconds \in 0 .. MaxRuntimeSeconds
    BY <1>1 DEF Spending
<1>4. n \in 0 .. MaxShellExecutions /\ spent.calls + 1 \in 0 .. MaxToolCalls
    BY <1>2, <1>3
<1>5. spent' = [calls |-> spent.calls + 1, shells |-> n, seconds |-> spent.seconds]
    BY <1>1 DEF Reserve, Spending
<1> HIDE DEF n
<1>6. spent' \in Spending /\ spent'.calls = spent.calls + 1
    BY <1>3, <1>4, <1>5 DEF Spending
<1>7. \A c \in Call : seen'[c] = IF c = Current THEN seen[c] + 1 ELSE seen[c]
    BY <1>1 DEF Record
<1>8. \A c \in Call : seen'[c] \in 0 .. MaxToolCalls /\ seen'[c] <= spent'.calls
    BY <1>1, <1>2, <1>6, <1>7 DEF Spending
<1> QED
    BY <1>1, <1>6, <1>8 DEF Record

LEMMA PBlock ==
    ASSUME PInv, BlockRepeat
    PROVE  PInv'
<1>1. Current \in Call /\ todo # <<>>
    BY HeadOK DEF PInv, PipelineTypeOK, Placed, BlockRepeat, Passed
<1>2. terminal' \in BOOLEAN /\ UNCHANGED <<turn, pending, session, cancelRequested, grants, log>>
    BY DEF BlockRepeat, runState, PInv, PipelineTypeOK
<1> QED
    BY <1>1, <1>2, RefusedOK, PDeliver, ReserveOK DEF BlockRepeat

LEMMA PStart ==
    ASSUME PInv, StartHandler
    PROVE  PInv'
<1> DEFINE e == [call |-> Current, session |-> session, asked |-> cancelRequested,
                 over |-> terminal]
<1>1. Current \in Call /\ todo # <<>> /\ Current \in WellFormed /\ pc' = "handler"
    BY HeadOK DEF PInv, PipelineTypeOK, Placed, StartHandler, Passed
<1>2. log \in Seq(LogEntry) /\ e \in LogEntry /\ log' = Append(log, e)
    BY <1>1 DEF PInv, PipelineTypeOK, StartHandler, LogEntry
<1>3. e.call = Current
    OBVIOUS
<1> HIDE DEF e
<1>4. log' \in Seq(LogEntry) /\ log'[Len(log) + 1] = e /\ Len(log) + 1 \in DOMAIN log'
    BY <1>2
<1>5. Current' = Current
    BY DEF StartHandler, dialogue, Current
<1>6. spent' \in Spending /\ seen' \in [Call -> 0 .. MaxToolCalls]
      /\ \A c \in Call : seen'[c] <= spent'.calls
    BY ReserveOK DEF StartHandler
<1>7. Placed'
    BY <1>1, <1>3, <1>4, <1>5, <1>6 DEF Placed, StartHandler, dialogue
<1>8. PipelineTypeOK'
    BY <1>1, <1>4, <1>6 DEF PInv, PipelineTypeOK, Place, StartHandler, dialogue, runState
<1> QED
    BY <1>7, <1>8 DEF PInv

\* What a handler may return.
LEMMA HandlerResultOK ==
    ASSUME NEW r \in HandlerResult(Current)
    PROVE  \/ r.success = TRUE /\ r.status = "SUCCESS"
           \/ r.success = FALSE /\ r.status \in {"ERROR", "TIMEOUT"}
<1>1. \/ r = [status |-> "SUCCESS", success |-> TRUE, code |-> "NONE", retryable |-> FALSE]
      \/ r = Failure("ERROR", "TOOL_FAILURE", TRUE)
      \/ r = Failure("ERROR", "OTHER", FALSE)
      \/ r = Failure("TIMEOUT", "SANDBOX_TIMEOUT", TRUE)
      \/ r = Failure("ERROR", "SANDBOX_LAUNCH_FAILED", TRUE)
  <2>1. CASE Current \in ShellCall
      BY <2>1, Zenon DEF HandlerResult
  <2>2. CASE Current \notin ShellCall
      BY <2>2, Zenon DEF HandlerResult
  <2> QED
      BY <2>1, <2>2
<1>2. ASSUME NEW st, NEW co, NEW re, r = Failure(st, co, re)
      PROVE  r.success = FALSE /\ r.status = st
    BY <1>2 DEF Failure
<1>3. CASE r = [status |-> "SUCCESS", success |-> TRUE, code |-> "NONE", retryable |-> FALSE]
    BY <1>3
<1>4. CASE r = Failure("ERROR", "TOOL_FAILURE", TRUE)
    BY <1>2, <1>4, Zenon
<1>5. CASE r = Failure("ERROR", "OTHER", FALSE)
    BY <1>2, <1>5, Zenon
<1>6. CASE r = Failure("TIMEOUT", "SANDBOX_TIMEOUT", TRUE)
    BY <1>2, <1>6, Zenon
<1>7. CASE r = Failure("ERROR", "SANDBOX_LAUNCH_FAILED", TRUE)
    BY <1>2, <1>7, Zenon
<1> QED
    BY <1>1, <1>3, <1>4, <1>5, <1>6, <1>7

\* What a handler returned is a message once it is verified.
LEMMA OutcomeOK ==
    ASSUME Current \in Call, NEW r \in HandlerResult(Current), NEW confirmed \in BOOLEAN
    PROVE  [call |-> Current, status |-> VerifiedStatus(r, confirmed),
            verified |-> r.success /\ confirmed, retry |-> ShouldRetry(r, Current, 1)] \in Message
<1>1. r.success \in BOOLEAN /\ r.status \in {"SUCCESS", "ERROR", "TIMEOUT"}
    BY HandlerResultOK
<1>2. VerifiedStatus(r, confirmed) \in {"SUCCESS", "PARTIAL", "ERROR", "TIMEOUT", "CANCELLED"}
    BY <1>1 DEF VerifiedStatus
<1>3. ShouldRetry(r, Current, 1) \in BOOLEAN
    BY DEF ShouldRetry
<1>4. (r.success /\ confirmed) \in BOOLEAN
    BY <1>1
<1> DEFINE s == VerifiedStatus(r, confirmed)
           v == r.success /\ confirmed
           t == ShouldRetry(r, Current, 1)
<1>5. s \in {"SUCCESS", "PARTIAL", "ERROR", "TIMEOUT", "CANCELLED"} /\ v \in BOOLEAN /\ t \in BOOLEAN
    BY <1>2, <1>3, <1>4
<1> HIDE DEF s, v, t
<1>6. [call |-> Current, status |-> s, verified |-> v, retry |-> t] \in Message
    BY <1>5, Zenon DEF Message
<1> QED
    BY <1>6 DEF s, v, t

LEMMA PEnd ==
    ASSUME PInv, EndHandler
    PROVE  PInv'
<1>1. Current \in Call /\ todo # <<>>
    BY HeadOK DEF PInv, PipelineTypeOK, Placed, EndHandler
<1>2. PICK m \in Message : Deliver(m)
    BY <1>1, OutcomeOK DEF EndHandler
<1>3. terminal' \in BOOLEAN /\ UNCHANGED <<turn, pending, session, cancelRequested, grants, log>>
    BY DEF EndHandler, runState, PInv, PipelineTypeOK
<1> QED
    BY <1>1, <1>2, <1>3, PDeliver, SameControls DEF EndHandler

LEMMA PAround ==
    ASSUME PInv,
           TimePasses \/ RequestCancellation \/ ContinueEndsRun \/ DecideAction \/ DropAction
    PROVE  PInv'
<1> USE DEF PInv, PipelineTypeOK, Placed, Place, dialogue, Current
<1>1. CASE TimePasses
  <2>1. spent' = [calls |-> spent.calls, shells |-> spent.shells, seconds |-> spent.seconds + 1]
      BY <1>1 DEF TimePasses, Spending
  <2>2. spent \in Spending /\ spent.seconds < MaxRuntimeSeconds
      BY <1>1 DEF TimePasses
  <2>3. spent.calls \in 0 .. MaxToolCalls /\ spent.shells \in 0 .. MaxShellExecutions
        /\ spent.seconds + 1 \in 0 .. MaxRuntimeSeconds
      BY <2>2 DEF Spending
  <2>4. spent' \in Spending /\ spent'.calls = spent.calls
      BY <2>1, <2>3, Zenon DEF Spending
  <2> QED
      BY <1>1, <2>4 DEF TimePasses, runState
<1>2. CASE RequestCancellation
    BY <1>2 DEF RequestCancellation, controls
<1>3. CASE DecideAction
  <2>1. grants \in [Call -> Nat] /\ pending.call \in Call
      BY <1>3 DEF DecideAction
  <2>2. grants' = grants \/ grants' = [grants EXCEPT ![pending.call] = grants[pending.call] + 1]
      BY <1>3 DEF DecideAction
  <2> HIDE DEF PInv, PipelineTypeOK, Placed
  <2>3. grants' \in [Call -> Nat]
      BY <2>1, <2>2
  <2> QED
      BY <1>3, <2>3 DEF DecideAction, controls, PInv, PipelineTypeOK, Placed
<1>4. CASE DropAction
    BY <1>4 DEF DropAction, controls
<1>5. CASE ContinueEndsRun
    BY <1>5 DEF ContinueEndsRun, controls
<1> QED
    BY <1>1, <1>2, <1>3, <1>4, <1>5

LEMMA PResume ==
    ASSUME PInv, ResumeAction
    PROVE  PInv'
<1>1. spent' \in Spending /\ seen' \in [Call -> 0 .. MaxToolCalls]
      /\ \A c \in Call : seen'[c] <= spent'.calls
    BY DEF ResumeAction, FreshControls, Unspent, Unseen, Spending
<1>2. todo' \in Seq(Call) /\ todo' # <<>>
    BY DEF ResumeAction, PInv, Placed
<1>3. pending' \in Parked /\ pending.saved = <<>>
    BY DEF ResumeAction, PInv, PipelineTypeOK, Parked, AnswerCheckpoint
<1>4. results' \in Seq(Message)
    BY <1>3 DEF ResumeAction
<1>5. PipelineTypeOK'
    BY <1>1, <1>2, <1>3, <1>4 DEF ResumeAction, PInv, PipelineTypeOK, Place
<1>6. Placed'
    BY <1>1, <1>2 DEF ResumeAction, Placed
<1> QED
    BY <1>5, <1>6 DEF PInv

LEMMA PStep == PInv /\ [PipelineNext]_vars => PInv'
<1> SUFFICES ASSUME PInv, [PipelineNext]_vars PROVE PInv'
    OBVIOUS
<1>1. CASE SessionStep
    BY <1>1, PTurn, PCheck, PRefuse, PPark, PBlock, PStart, PEnd DEF SessionStep
<1>2. CASE UNCHANGED vars
    BY <1>2 DEF PInv, PipelineTypeOK, Placed, vars, dialogue, controls, runState, Current
<1> QED
    BY <1>1, <1>2, PAround, PResume DEF PipelineNext

(* Whatever the model answers, the variables keep their types: budgets are *)
(* never overdrawn and counts never exceed them.                           *)
THEOREM PipelineInvariant == PipelineSpec => []PInv
    BY PInit, PStep, PTL DEF PipelineSpec

(* The type invariant the runs check, for every value of the constants.    *)
THEOREM PipelineTypeCorrect == PipelineSpec => []PipelineTypeOK
<1>1. PInv => PipelineTypeOK
    BY DEF PInv
<1> QED
    BY <1>1, PipelineInvariant, PTL

--------------------------------------------------------------------------
(* What the model is told.                                                 *)

Ran(c) == \E j \in DOMAIN log : log[j].call = c

Sound(m) ==
    /\ m.status = "SUCCESS" => m.verified /\ Ran(m.call)
    /\ m.retry => Risk[m.call] \notin RequiresApproval /\ Ran(m.call)

Honest == \A i \in DOMAIN evidence : Sound(evidence[i])

\* A delivered message joins the others.
LEMMA HDeliver ==
    ASSUME PInv, Honest, NEW m \in Message, Deliver(m), Sound(m), UNCHANGED log
    PROVE  Honest'
<1>1. evidence \in Seq(Message) /\ evidence' = Append(evidence, m)
    BY DEF PInv, PipelineTypeOK, Deliver
<1>2. \A x : Sound(x)' <=> Sound(x)
    BY DEF Sound, Ran
<1>3. \A i \in DOMAIN evidence' : evidence'[i] = m \/ (i \in DOMAIN evidence /\ evidence'[i] = evidence[i])
    BY <1>1
<1> QED
    BY <1>2, <1>3 DEF Honest, Sound

\* Nothing is claimed of a call that was not started.
LEMMA HRefused ==
    ASSUME NEW s \in {"PARTIAL", "ERROR", "CANCELLED"}
    PROVE  Sound(Refused(s))
    BY DEF Sound, Refused

\* What is claimed of a call that was.
LEMMA HOutcome ==
    ASSUME PInv, pc = "handler", NEW r \in HandlerResult(Current), NEW confirmed \in BOOLEAN
    PROVE  Sound([call |-> Current, status |-> VerifiedStatus(r, confirmed),
                  verified |-> r.success /\ confirmed, retry |-> ShouldRetry(r, Current, 1)])
<1>1. Ran(Current) /\ Current \in Registered
    BY DEF PInv, Placed, Ran
<1>2. VerifiedStatus(r, confirmed) = "SUCCESS" => r.success /\ confirmed
    BY HandlerResultOK DEF VerifiedStatus
<1>3. ShouldRetry(r, Current, 1) => Risk[Current] \notin RequiresApproval
    BY <1>1 DEF ShouldRetry, RiskMaxAttempts, RequiresApproval, RiskLevel
<1> DEFINE s == VerifiedStatus(r, confirmed)
           v == r.success /\ confirmed
           t == ShouldRetry(r, Current, 1)
<1>4. (s = "SUCCESS" => v) /\ (t => Risk[Current] \notin RequiresApproval)
    BY <1>2, <1>3
<1> HIDE DEF s, v, t
<1>5. Sound([call |-> Current, status |-> s, verified |-> v, retry |-> t])
    BY <1>1, <1>4, Zenon DEF Sound
<1> QED
    BY <1>5 DEF s, v, t

LEMMA HStep == PInv /\ Honest /\ [PipelineNext]_vars => Honest'
<1> SUFFICES ASSUME PInv, Honest, [PipelineNext]_vars PROVE Honest'
    OBVIOUS
<1>1. ASSUME UNCHANGED <<log, evidence>> PROVE Honest'
    BY <1>1 DEF Honest, Sound, Ran
<1>2. ASSUME evidence' = <<>> PROVE Honest'
    BY <1>2 DEF Honest
<1>3. ASSUME NEW s \in {"PARTIAL", "ERROR", "CANCELLED"}, Deliver(Refused(s)), UNCHANGED log,
             Current \in Call
      PROVE  Honest'
    BY <1>3, HRefused, HDeliver, RefusedOK
<1>4. pc \in {"calls", "route", "handler"} => Current \in Call
    BY HeadOK DEF PInv, PipelineTypeOK, Placed
<1>5. CASE ModelAnswers \/ UnreadableCall
    BY <1>5, <1>1 DEF ModelAnswers, UnreadableCall
<1>6. CASE ModelCallsTools
    BY <1>6, <1>2 DEF ModelCallsTools
<1>7. CASE CheckCancellation
    BY <1>7, <1>1, <1>3, <1>4 DEF CheckCancellation, dialogue
<1>8. CASE RefuseCall
    BY <1>8, <1>3, <1>4 DEF RefuseCall
<1>9. CASE BlockRepeat
    BY <1>9, <1>3, <1>4 DEF BlockRepeat, Passed
<1>10. CASE StartHandler
  <2>1. evidence' = evidence /\ log \in Seq(LogEntry) /\ \E e : log' = Append(log, e)
      BY <1>10 DEF StartHandler, dialogue, PInv, PipelineTypeOK
  <2>2. \A j \in DOMAIN log : j \in DOMAIN log' /\ log'[j] = log[j]
      BY <2>1
  <2>3. \A c : Ran(c) => Ran(c)'
      BY <2>2 DEF Ran
  <2> QED
      BY <2>1, <2>3 DEF Honest, Sound
<1>11. CASE EndHandler
  <2>1. PICK r \in HandlerResult(Current), confirmed \in BOOLEAN :
            Deliver([call |-> Current, status |-> VerifiedStatus(r, confirmed),
                     verified |-> r.success /\ confirmed, retry |-> ShouldRetry(r, Current, 1)])
      BY <1>11, Zenon DEF EndHandler
  <2>2. pc = "handler" /\ UNCHANGED log
      BY <1>11 DEF EndHandler
  <2> QED
      BY <2>1, <2>2, <1>4, OutcomeOK, HOutcome, HDeliver
<1>12. CASE ParkCall \/ TimePasses \/ RequestCancellation \/ ContinueEndsRun \/ DecideAction \/ DropAction
            \/ ResumeAction \/ UNCHANGED vars
    BY <1>12, <1>1
    DEF ParkCall, TimePasses, RequestCancellation, ContinueEndsRun, DecideAction, DropAction, ResumeAction,
        vars, dialogue
<1> QED
    BY <1>5, <1>6, <1>7, <1>8, <1>9, <1>10, <1>11, <1>12 DEF PipelineNext, SessionStep

LEMMA HonestAlways == PipelineSpec => []Honest
<1>1. PipelineInit => Honest
    BY DEF PipelineInit, Honest
<1> QED
    BY <1>1, HStep, PipelineInvariant, PTL DEF PipelineSpec

(* SUCCESS is read only where a handler of that call has run and its       *)
(* verification agreed, in runs of any size.                               *)
THEOREM PipelineSuccessMeansVerified == PipelineSpec => []SuccessMeansVerified
<1>1. Honest => SuccessMeansVerified
    BY DEF Honest, Sound, Ran, SuccessMeansVerified
<1> QED
    BY <1>1, HonestAlways, PTL

(* Nobody is told to retry a call that needs consent or never started.     *)
THEOREM PipelineRetryIsSafe == PipelineSpec => []RetryIsSafe
<1>1. Honest => RetryIsSafe
    BY DEF Honest, Sound, Ran, RetryIsSafe
<1> QED
    BY <1>1, HonestAlways, PTL

--------------------------------------------------------------------------
(* Counting the handlers a run has started.                                *)

Count(E) == Cardinality({i \in DOMAIN log : log[i] \in E})

By(s, C) == {e \in LogEntry : e.session = s /\ e.call \in C}
Of(c)    == {e \in LogEntry : e.call = c}
Heedless == {e \in LogEntry : e.asked /\ ~e.over}

LEMMA CountIsNat ==
    ASSUME log \in Seq(LogEntry), NEW E
    PROVE  IsFiniteSet({i \in DOMAIN log : log[i] \in E}) /\ Count(E) \in Nat
<1> DEFINE A == {i \in DOMAIN log : log[i] \in E}
<1>1. A \in SUBSET (1 .. Len(log)) /\ Len(log) \in Int /\ 1 \in Int
    OBVIOUS
<1> HIDE DEF A
<1>2. IsFiniteSet(1 .. Len(log))
    BY <1>1, FS_Interval
<1>3. IsFiniteSet(A) /\ Cardinality(A) \in Nat
    BY <1>1, <1>2, FS_Subset, FS_CardinalityType
<1> QED
    BY <1>3 DEF A, Count

\* A handler started is counted once, among those it belongs to.
LEMMA CountGrows ==
    ASSUME log \in Seq(LogEntry), NEW e \in LogEntry, log' = Append(log, e), NEW E
    PROVE  Count(E)' = IF e \in E THEN Count(E) + 1 ELSE Count(E)
<1> DEFINE A == {i \in DOMAIN log : log[i] \in E}
           n == Len(log) + 1
<1>0. IsFiniteSet(A)
    BY CountIsNat
<1>1. n \notin A
    OBVIOUS
<1>2. {i \in DOMAIN log' : log'[i] \in E} = IF e \in E THEN A \cup {n} ELSE A
  <2>1. DOMAIN log = 1 .. Len(log) /\ Len(log) \in Nat
      OBVIOUS
  <2>2. DOMAIN log' = 1 .. n /\ log'[n] = e /\ \A i \in 1 .. Len(log) : log'[i] = log[i]
      BY <2>1
  <2> QED
      BY <2>1, <2>2
<1> HIDE DEF A, n
<1>3. Cardinality(A \cup {n}) = Cardinality(A) + 1
    BY <1>0, <1>1, FS_AddElement
<1>4. Count(E) = Cardinality(A) /\ Count(E)' = Cardinality(IF e \in E THEN A \cup {n} ELSE A)
    BY <1>2 DEF Count, A
<1> QED
    BY <1>3, <1>4

LEMMA CountOfNone ==
    ASSUME NEW E, \A j \in DOMAIN log : log[j] \notin E
    PROVE  Count(E) = 0
<1>1. {i \in DOMAIN log : log[i] \in E} = {}
    OBVIOUS
<1> QED
    BY <1>1, FS_EmptySet DEF Count

\* The sets of the properties, as counts.
LEMMA StartedIsCount ==
    ASSUME log \in Seq(LogEntry), NEW s, NEW C
    PROVE  Cardinality(Started(s, C)) = Count(By(s, C))
<1>1. \A j \in DOMAIN log : log[j] \in LogEntry
    OBVIOUS
<1>2. Started(s, C) = {i \in DOMAIN log : log[i] \in By(s, C)}
    BY <1>1, Zenon DEF Started, By
<1> QED
    BY <1>2 DEF Count

\* Only StartHandler writes the log, and what it writes.
LEMMA StartOrQuiet ==
    ASSUME PInv, [PipelineNext]_vars
    PROVE  \/ StartHandler
           \/ UNCHANGED log
    BY DEF PipelineNext, SessionStep, ModelAnswers, ModelCallsTools, UnreadableCall,
           CheckCancellation, RefuseCall, ParkCall, BlockRepeat, EndHandler, TimePasses,
           RequestCancellation, ContinueEndsRun, DecideAction, DropAction, ResumeAction, vars

LEMMA StartFacts ==
    ASSUME PInv, StartHandler
    PROVE  \E e \in LogEntry :
              /\ e.call = Current /\ e.session = session
              /\ e.asked = cancelRequested /\ e.over = terminal
              /\ log' = Append(log, e)
<1> DEFINE e == [call |-> Current, session |-> session, asked |-> cancelRequested,
                 over |-> terminal]
<1>1. Current \in Call
    BY HeadOK DEF PInv, PipelineTypeOK, Placed, StartHandler, Passed
<1>2. e \in LogEntry
    BY <1>1 DEF PInv, PipelineTypeOK, LogEntry
<1>3. /\ e.call = Current /\ e.session = session
      /\ e.asked = cancelRequested /\ e.over = terminal
    OBVIOUS
<1>4. log' = Append(log, e)
    BY DEF StartHandler
<1> QED
    BY <1>2, <1>3, <1>4, Zenon

--------------------------------------------------------------------------
(* A session and its controls.                                             *)

Charged ==
    /\ \A j \in DOMAIN log : log[j].session <= session
    /\ Count(By(session, Call)) <= spent.calls
    /\ Count(By(session, ShellCall)) <= spent.shells
    /\ \A c \in Call : Count(By(session, {c})) <= seen[c]

Bounded ==
    \A s \in 1 .. MaxSessions :
        /\ Count(By(s, Call)) <= MaxToolCalls
        /\ Count(By(s, ShellCall)) <= MaxShellExecutions
        /\ \A c \in Call : Count(By(s, {c})) < RepeatThreshold

CInv == Charged /\ Bounded

LEMMA CInit == PipelineInit => CInv
<1> SUFFICES ASSUME PipelineInit PROVE CInv
    OBVIOUS
<1>1. DOMAIN log = {}
    BY DEF PipelineInit
<1>2. \A E : Count(E) = 0
    BY <1>1, CountOfNone
<1>3. Charged
    BY <1>1, <1>2 DEF PipelineInit, Charged, Unspent, Unseen
<1>4. Bounded
    BY <1>2 DEF Bounded
<1> QED
    BY <1>3, <1>4 DEF CInv

\* A step that starts nothing and refunds nothing.
LEMMA CQuiet ==
    ASSUME PInv, CInv, UNCHANGED <<log, session>>,
           spent' \in Spending, spent'.calls >= spent.calls, spent'.shells >= spent.shells,
           \A c \in Call : seen'[c] \in Nat /\ seen'[c] >= seen[c]
    PROVE  CInv'
<1>1. /\ log \in Seq(LogEntry) /\ spent \in Spending
      /\ \A c \in Call : seen[c] \in Nat
    BY DEF PInv, PipelineTypeOK
<1>2. \A E : Count(E) \in Nat /\ Count(E)' = Count(E)
    BY <1>1, CountIsNat DEF Count
<1>3. Charged'
  <2>1. \A j \in DOMAIN log' : log'[j].session <= session'
      BY DEF CInv, Charged
  <2>2. Count(By(session, Call))' <= spent'.calls
      BY <1>1, <1>2 DEF CInv, Charged, Spending
  <2>3. Count(By(session, ShellCall))' <= spent'.shells
      BY <1>1, <1>2 DEF CInv, Charged, Spending
  <2>4. ASSUME NEW c \in Call PROVE Count(By(session, {c}))' <= seen'[c]
    <3>1. Count(By(session, {c}))' = Count(By(session, {c}))
        BY <1>2
    <3>2. Count(By(session, {c})) \in Nat /\ Count(By(session, {c})) <= seen[c]
        BY <1>2 DEF CInv, Charged
    <3>3. seen[c] \in Nat /\ seen'[c] \in Nat /\ seen'[c] >= seen[c]
        BY <1>1
    <3> QED
        BY <3>1, <3>2, <3>3
  <2> QED
      BY <2>1, <2>2, <2>3, <2>4 DEF Charged
<1>4. Bounded'
    BY <1>2 DEF CInv, Bounded
<1> QED
    BY <1>3, <1>4 DEF CInv

LEMMA CResume ==
    ASSUME PInv, CInv, ResumeAction
    PROVE  CInv'
<1>1. /\ session \in Nat /\ session' = session + 1 /\ log' = log
      /\ spent'.calls = 0 /\ spent'.shells = 0 /\ \A c \in Call : seen'[c] = 0
      /\ log \in Seq(LogEntry)
    BY DEF ResumeAction, FreshControls, Unspent, Unseen, PInv, PipelineTypeOK
<1>2. \A j \in DOMAIN log : log[j].session \in Nat /\ log[j].session <= session
  <2>1. \A j \in DOMAIN log : log[j] \in LogEntry
      BY <1>1
  <2> QED
      BY <2>1 DEF CInv, Charged, LogEntry
<1>3. \A C : Count(By(session + 1, C)) = 0
  <2>1. ASSUME NEW C PROVE \A j \in DOMAIN log : log[j] \notin By(session + 1, C)
      BY <1>1, <1>2 DEF By
  <2> QED
      BY <2>1, CountOfNone
<1>4. \A E : Count(E)' = Count(E)
    BY <1>1 DEF Count
<1>5. Charged'
  <2>1. \A j \in DOMAIN log' : log'[j].session <= session'
      BY <1>1, <1>2
  <2>2. \A C : Count(By(session, C))' = 0
      BY <1>1, <1>3, <1>4
  <2> QED
      BY <1>1, <2>1, <2>2 DEF Charged
<1>6. Bounded'
    BY <1>4 DEF CInv, Bounded
<1> QED
    BY <1>5, <1>6 DEF CInv

LEMMA CStart ==
    ASSUME PInv, CInv, StartHandler
    PROVE  CInv'
<1>1. PICK e \in LogEntry :
          /\ e.call = Current /\ e.session = session /\ log' = Append(log, e)
    BY StartFacts
<1>2. log \in Seq(LogEntry) /\ spent \in Spending /\ session \in 1 .. MaxSessions
      /\ seen \in [Call -> 0 .. MaxToolCalls] /\ Current \in Call
    BY HeadOK DEF PInv, PipelineTypeOK, Placed, StartHandler, Passed
<1>3. /\ spent.calls < MaxToolCalls
      /\ Current \in ShellCall => spent.shells < MaxShellExecutions
      /\ seen[Current] + 1 < RepeatThreshold
    BY <1>2 DEF StartHandler, Passed, InBudget, Repeated
<1>4. /\ spent.calls \in Nat /\ spent.shells \in Nat
      /\ spent'.calls = spent.calls + 1
      /\ spent'.shells = IF Current \in ShellCall THEN spent.shells + 1 ELSE spent.shells
    BY <1>2 DEF StartHandler, Reserve, Spending
<1>5. \A c \in Call : seen[c] \in Nat /\ seen'[c] = IF c = Current THEN seen[c] + 1 ELSE seen[c]
    BY <1>2 DEF StartHandler, Record
<1>6. session' = session
    BY DEF StartHandler, runState
<1>7. \A s, C : /\ Count(By(s, C)) \in Nat
                /\ Count(By(s, C))' = IF s = session /\ Current \in C
                                      THEN Count(By(s, C)) + 1 ELSE Count(By(s, C))
  <2> SUFFICES ASSUME NEW s, NEW C
               PROVE  /\ Count(By(s, C)) \in Nat
                      /\ Count(By(s, C))' = IF s = session /\ Current \in C
                                            THEN Count(By(s, C)) + 1 ELSE Count(By(s, C))
      OBVIOUS
  <2>1. Count(By(s, C)) \in Nat
      BY <1>2, CountIsNat
  <2>2. Count(By(s, C))' = IF e \in By(s, C) THEN Count(By(s, C)) + 1 ELSE Count(By(s, C))
      BY <1>1, <1>2, CountGrows
  <2>3. e \in By(s, C) <=> s = session /\ Current \in C
      BY <1>1 DEF By
  <2> QED
      BY <2>1, <2>2, <2>3
<1>8. Charged'
  <2>1. \A j \in DOMAIN log' : log'[j].session <= session
    <3>1. \A j \in DOMAIN log' : log'[j] = e \/ (j \in DOMAIN log /\ log'[j] = log[j])
        BY <1>1, <1>2
    <3> QED
        BY <1>1, <1>2, <3>1 DEF CInv, Charged
  <2>2. Count(By(session, Call))' <= spent'.calls
      BY <1>2, <1>4, <1>6, <1>7 DEF CInv, Charged
  <2>3. Count(By(session, ShellCall))' <= spent'.shells
      BY <1>2, <1>4, <1>6, <1>7 DEF CInv, Charged
  <2>4. ASSUME NEW c \in Call PROVE Count(By(session, {c}))' <= seen'[c]
    <3>1. /\ Count(By(session, {c})) \in Nat
          /\ Count(By(session, {c}))' = IF c = Current THEN Count(By(session, {c})) + 1
                                        ELSE Count(By(session, {c}))
        BY <1>6, <1>7
    <3>2. Count(By(session, {c})) <= seen[c]
        BY DEF CInv, Charged
    <3> QED
        BY <1>5, <3>1, <3>2
  <2> QED
      BY <1>6, <2>1, <2>2, <2>3, <2>4 DEF Charged
<1>9. Bounded'
  <2> SUFFICES ASSUME NEW s \in 1 .. MaxSessions
               PROVE  /\ Count(By(s, Call))' <= MaxToolCalls
                      /\ Count(By(s, ShellCall))' <= MaxShellExecutions
                      /\ \A c \in Call : Count(By(s, {c}))' < RepeatThreshold
      BY DEF Bounded
  <2>1. /\ Count(By(s, Call)) <= MaxToolCalls
        /\ Count(By(s, ShellCall)) <= MaxShellExecutions
        /\ \A c \in Call : Count(By(s, {c})) < RepeatThreshold
      BY DEF CInv, Bounded
  <2>2. CASE s # session
    <3>1. \A C : Count(By(s, C))' = Count(By(s, C))
        BY <1>7, <2>2
    <3> QED
        BY <2>1, <3>1
  <2>3. CASE s = session
    <3>1. /\ Count(By(s, Call)) <= spent.calls
          /\ Count(By(s, ShellCall)) <= spent.shells
          /\ \A c \in Call : Count(By(s, {c})) <= seen[c]
        BY <2>3 DEF CInv, Charged
    <3>2. Count(By(s, Call))' = Count(By(s, Call)) + 1 /\ Count(By(s, Call)) \in Nat
        BY <1>2, <1>7, <2>3
    <3>3. /\ Count(By(s, ShellCall)) \in Nat
          /\ Count(By(s, ShellCall))' = IF Current \in ShellCall
                                        THEN Count(By(s, ShellCall)) + 1
                                        ELSE Count(By(s, ShellCall))
        BY <1>7, <2>3
    <3>4. ASSUME NEW c \in Call PROVE Count(By(s, {c}))' < RepeatThreshold
      <4>1. /\ Count(By(s, {c})) \in Nat
            /\ Count(By(s, {c}))' = IF c = Current THEN Count(By(s, {c})) + 1
                                    ELSE Count(By(s, {c}))
          BY <1>7, <2>3
      <4> QED
          BY <1>3, <1>5, <2>1, <3>1, <4>1
    <3>5. MaxToolCalls \in Nat /\ MaxShellExecutions \in Nat
        OBVIOUS
    <3>6. Count(By(s, Call))' <= MaxToolCalls
        BY <1>3, <1>4, <3>1, <3>2, <3>5
    <3>7. Count(By(s, ShellCall))' <= MaxShellExecutions
        BY <1>3, <1>4, <2>1, <3>1, <3>3, <3>5
    <3> QED
        BY <3>4, <3>6, <3>7
  <2> QED
      BY <2>2, <2>3
<1> QED
    BY <1>8, <1>9 DEF CInv

LEMMA CStep == PInv /\ CInv /\ [PipelineNext]_vars => CInv'
<1> SUFFICES ASSUME PInv, CInv, [PipelineNext]_vars PROVE CInv'
    OBVIOUS
<1>1. spent \in Spending /\ seen \in [Call -> 0 .. MaxToolCalls]
    BY DEF PInv, PipelineTypeOK
<1>2. CASE UNCHANGED <<log, session, controls>>
    BY <1>1, <1>2, CQuiet DEF controls, Spending
<1>3. CASE TimePasses
  <2>1. PInv'
      BY <1>3, PAround
  <2>2. spent'.calls >= spent.calls /\ spent'.shells >= spent.shells
      BY <1>1, <1>3 DEF TimePasses, Spending
  <2>3. spent' \in Spending
      BY <2>1 DEF PInv, PipelineTypeOK
  <2>4. UNCHANGED <<log, session, seen>>
      BY <1>3 DEF TimePasses, runState
  <2>5. \A c \in Call : seen'[c] \in Nat /\ seen'[c] >= seen[c]
      BY <1>1, <2>4
  <2> QED
      BY <2>2, <2>3, <2>4, <2>5, CQuiet
<1>4. CASE BlockRepeat
  <2>1. spent' \in Spending /\ \A c \in Call : seen'[c] \in Nat
      BY <1>4, ReserveOK DEF BlockRepeat
  <2>2. spent'.calls >= spent.calls /\ spent'.shells >= spent.shells
      BY <1>1, <1>4 DEF BlockRepeat, Reserve, Spending
  <2>3. \A c \in Call : seen'[c] >= seen[c]
      BY <1>1, <1>4 DEF BlockRepeat, Record
  <2> QED
      BY <1>4, <2>1, <2>2, <2>3, CQuiet DEF BlockRepeat, runState
<1>5. CASE StartHandler \/ ResumeAction
    BY <1>5, CStart, CResume
<1> QED
    BY <1>2, <1>3, <1>4, <1>5
    DEF PipelineNext, SessionStep, ModelAnswers, ModelCallsTools, UnreadableCall,
        CheckCancellation, RefuseCall, ParkCall, EndHandler, RequestCancellation,
        ContinueEndsRun, DecideAction, DropAction, vars, runState

LEMMA CAlways == PipelineSpec => [](PipelineTypeOK /\ CInv)
<1>1. PInv => PipelineTypeOK
    BY DEF PInv
<1> QED
    BY <1>1, CInit, CStep, PipelineInvariant, PTL DEF PipelineSpec

(* No session starts more handlers, or shells, than the run's budget has.  *)
THEOREM PipelineSessionWithinBudget == PipelineSpec => []SessionWithinBudget
<1>1. PipelineTypeOK /\ CInv => SessionWithinBudget
    BY StartedIsCount DEF PipelineTypeOK, CInv, Bounded, SessionWithinBudget
<1> QED
    BY <1>1, CAlways, PTL

(* In no session does a call reach its handler RepeatThreshold times.      *)
THEOREM PipelineNoRepeatInSession == PipelineSpec => []NoRepeatInSession
<1>1. ASSUME PipelineTypeOK, CInv, NEW s \in 1 .. MaxSessions, NEW c \in Call
      PROVE  Cardinality(Started(s, {c})) < RepeatThreshold
  <2>1. Cardinality(Started(s, {c})) = Count(By(s, {c}))
      BY <1>1, StartedIsCount DEF PipelineTypeOK
  <2>2. Count(By(s, {c})) < RepeatThreshold
      BY <1>1 DEF CInv, Bounded
  <2> QED
      BY <2>1, <2>2
<1>2. PipelineTypeOK /\ CInv => NoRepeatInSession
    BY <1>1 DEF NoRepeatInSession
<1> QED
    BY <1>2, CAlways, PTL

--------------------------------------------------------------------------
(* Consent: a grant is spent by the start of the handler it was given for. *)

Risky(c) == c \in Registered /\ Risk[c] \in RequiresApproval

\* A call that was granted and has not been started.
Open(c) == \/ pc = "granted" /\ pending.call = c
           \/ pc \in {"calls", "route"} /\ approved /\ Current = c

Consented ==
    \A c \in Call : Risky(c) =>
        Count(Of(c)) + (IF Open(c) THEN 1 ELSE 0) <= grants[c]

\* An approved call is the first of a session.
First ==
    (pc \in {"calls", "route"} /\ approved) =>
        spent.calls = 0 /\ spent.shells = 0 /\ \A c \in Call : seen[c] = 0

LEMMA GInit == PipelineInit => Consented /\ First
<1> SUFFICES ASSUME PipelineInit PROVE Consented /\ First
    OBVIOUS
<1>1. \A E : Count(E) = 0
    BY CountOfNone DEF PipelineInit
<1> QED
    BY <1>1 DEF PipelineInit, Consented, Open, First

\* A step that starts nothing, grants nothing and opens nothing.
LEMMA GQuiet ==
    ASSUME PInv, Consented, UNCHANGED <<log, grants>>, \A c \in Call : Open(c)' => Open(c)
    PROVE  Consented'
<1>1. \A E : Count(E)' = Count(E)
    BY DEF Count
<1>2. log \in Seq(LogEntry) /\ grants \in [Call -> Nat]
    BY DEF PInv, PipelineTypeOK
<1>3. ASSUME NEW c \in Call, Risky(c)
      PROVE  Count(Of(c))' + (IF Open(c)' THEN 1 ELSE 0) <= grants'[c]
  <2>1. Count(Of(c)) \in Nat /\ Count(Of(c))' = Count(Of(c)) /\ grants'[c] = grants[c]
      BY <1>1, <1>2, CountIsNat
  <2>2. Count(Of(c)) + (IF Open(c) THEN 1 ELSE 0) <= grants[c]
      BY <1>3 DEF Consented
  <2>3. Open(c)' => Open(c)
      OBVIOUS
  <2> QED
      BY <1>2, <2>1, <2>2, <2>3
<1> QED
    BY <1>3 DEF Consented, Risky

LEMMA GGrant ==
    ASSUME PInv, Consented, pc = "parked", pc' = "granted", UNCHANGED <<log, pending>>,
           grants' = [grants EXCEPT ![pending.call] = @ + 1]
    PROVE  Consented'
<1>1. log \in Seq(LogEntry) /\ grants \in [Call -> Nat] /\ pending.call \in Call
    BY DEF PInv, PipelineTypeOK, Placed
<1>2. ASSUME NEW c \in Call, Risky(c)
      PROVE  Count(Of(c))' + (IF Open(c)' THEN 1 ELSE 0) <= grants'[c]
  <2>1. Count(Of(c)) \in Nat /\ Count(Of(c))' = Count(Of(c))
      BY <1>1, CountIsNat DEF Count
  <2>2. grants[c] \in Nat /\ grants'[c] = IF c = pending.call THEN grants[c] + 1 ELSE grants[c]
      BY <1>1
  <2>3. Open(c)' => c = pending.call
      BY DEF Open
  <2>4. ~Open(c)
      BY DEF Open
  <2>5. Count(Of(c)) <= grants[c]
      BY <1>2, <2>1, <2>4 DEF Consented
  <2> QED
      BY <2>1, <2>2, <2>3, <2>5
<1> QED
    BY <1>2 DEF Consented, Risky

LEMMA GStart ==
    ASSUME PInv, Consented, StartHandler
    PROVE  Consented'
<1>1. PICK e \in LogEntry : e.call = Current /\ log' = Append(log, e)
    BY StartFacts
<1>2. log \in Seq(LogEntry) /\ grants \in [Call -> Nat] /\ grants' = grants
      /\ pc = "route" /\ pc' = "handler" /\ Permitted(Current)
    BY DEF PInv, PipelineTypeOK, StartHandler, Passed, runState
<1>3. ASSUME NEW c \in Call, Risky(c)
      PROVE  Count(Of(c))' + (IF Open(c)' THEN 1 ELSE 0) <= grants'[c]
  <2>1. Count(Of(c)) \in Nat
      BY <1>2, CountIsNat
  <2>2. Count(Of(c))' = IF e \in Of(c) THEN Count(Of(c)) + 1 ELSE Count(Of(c))
      BY <1>1, <1>2, CountGrows
  <2>3. e \in Of(c) <=> c = Current
      BY <1>1 DEF Of
  <2>4. ~Open(c)'
      BY <1>2 DEF Open
  <2>5. c = Current => Open(c)
      BY <1>2, <1>3 DEF Open, Permitted, Risky
  <2>6. Count(Of(c)) + (IF Open(c) THEN 1 ELSE 0) <= grants[c]
      BY <1>3 DEF Consented
  <2> QED
      BY <1>2, <2>1, <2>2, <2>3, <2>4, <2>5, <2>6
<1> QED
    BY <1>3 DEF Consented, Risky

LEMMA GStep == PInv /\ Consented /\ [PipelineNext]_vars => Consented'
<1> SUFFICES ASSUME PInv, Consented, [PipelineNext]_vars PROVE Consented'
    OBVIOUS
<1>1. CASE StartHandler
    BY <1>1, GStart
<1>2. CASE DecideAction
  <2>1. CASE pc' = "granted"
      BY <1>2, <2>1, GGrant DEF DecideAction
  <2>2. CASE pc' = "ended"
    <3>1. \A c \in Call : ~Open(c)'
        BY <2>2 DEF Open
    <3> QED
        BY <1>2, <2>2, <3>1, GQuiet DEF DecideAction
  <2> QED
      BY <1>2, <2>1, <2>2 DEF DecideAction
<1>3. CASE ResumeAction
  <2>1. \A c \in Call : Open(c)' => Open(c)
      BY <1>3 DEF ResumeAction, Open, Current
  <2> QED
      BY <1>3, <2>1, GQuiet DEF ResumeAction
<1>4. CASE ModelAnswers \/ ModelCallsTools \/ UnreadableCall \/ ParkCall
  <2>1. \A c \in Call : ~Open(c)'
      BY <1>4 DEF ModelAnswers, ModelCallsTools, UnreadableCall, ParkCall, EndSession, Open,
                  PInv, Placed
  <2> QED
      BY <1>4, <2>1, GQuiet DEF ModelAnswers, ModelCallsTools, UnreadableCall, ParkCall, runState
<1>5. ASSUME NEW r, Deliver(r), UNCHANGED <<log, grants>> PROVE Consented'
  <2>1. \A c \in Call : ~Open(c)'
      BY <1>5 DEF Deliver, Open
  <2> QED
      BY <1>5, <2>1, GQuiet
<1>6. CASE RefuseCall \/ BlockRepeat
    BY <1>5, <1>6 DEF RefuseCall, BlockRepeat, runState
<1>7. CASE EndHandler
    BY <1>5, <1>7 DEF EndHandler, runState
<1>8. CASE CheckCancellation
  <2>1. CASE Deliver(Refused("CANCELLED"))
      BY <1>5, <1>8, <2>1 DEF CheckCancellation
  <2>2. CASE pc' \in {"ended", "route"} /\ UNCHANGED dialogue
    <3>1. \A c \in Call : Open(c)' => Open(c)
        BY <1>8, <2>2 DEF CheckCancellation, Open, dialogue, Current
    <3> QED
        BY <1>8, <3>1, GQuiet DEF CheckCancellation
  <2> QED
      BY <1>8, <2>1, <2>2 DEF CheckCancellation
<1>9. CASE DropAction \/ TimePasses \/ RequestCancellation \/ ContinueEndsRun \/ UNCHANGED vars
  <2>1. \A c \in Call : Open(c)' => Open(c)
      BY <1>9 DEF DropAction, TimePasses, RequestCancellation, ContinueEndsRun, vars, Open,
                  dialogue, Current
  <2> QED
      BY <1>9, <2>1, GQuiet
      DEF DropAction, TimePasses, RequestCancellation, ContinueEndsRun, vars, runState
<1> QED
    BY <1>1, <1>2, <1>3, <1>4, <1>6, <1>7, <1>8, <1>9 DEF PipelineNext, SessionStep

LEMMA FStep == PInv /\ First /\ [PipelineNext]_vars => First'
<1> SUFFICES ASSUME PInv, First, [PipelineNext]_vars PROVE First'
    OBVIOUS
<1>1. CASE pc' \notin {"calls", "route"} \/ ~approved'
    BY <1>1 DEF First
<1>2. CASE pc' \in {"calls", "route"} /\ approved'
  <2>1. CheckCancellation \/ RequestCancellation \/ ContinueEndsRun \/ ResumeAction \/ UNCHANGED vars
    <3>1. ~(ModelAnswers \/ UnreadableCall \/ DropAction \/ DecideAction)
        BY <1>2 DEF ModelAnswers, UnreadableCall, DropAction, DecideAction, EndSession
    <3>2. ~(ModelCallsTools \/ ParkCall)
        BY <1>2 DEF ModelCallsTools, ParkCall, PInv, Placed
    <3>3. ~(RefuseCall \/ BlockRepeat \/ EndHandler)
        BY <1>2 DEF RefuseCall, BlockRepeat, EndHandler, Deliver
    <3>4. ~(StartHandler \/ TimePasses)
        BY <1>2 DEF StartHandler, TimePasses
    <3> QED
        BY <3>1, <3>2, <3>3, <3>4 DEF PipelineNext, SessionStep
  <2>2. CASE ResumeAction
      BY <2>2 DEF ResumeAction, FreshControls, Unspent, Unseen, First
  <2>3. CASE CheckCancellation
      BY <1>2, <2>3 DEF CheckCancellation, Deliver, controls, dialogue, First
  <2>4. CASE RequestCancellation \/ ContinueEndsRun \/ UNCHANGED vars
      BY <2>4 DEF RequestCancellation, ContinueEndsRun, vars, controls, dialogue, First
  <2> QED
      BY <2>1, <2>2, <2>3, <2>4
<1> QED
    BY <1>1, <1>2

LEMMA GAlways == PipelineSpec => [](PInv /\ Consented /\ First)
    BY GInit, GStep, FStep, PipelineInvariant, PTL DEF PipelineSpec

(* A handler that needs consent is started at most once for each consent.  *)
THEOREM PipelineRiskyOnlyAsGranted == PipelineSpec => []RiskyOnlyAsGranted
<1>1. ASSUME PInv, Consented, NEW c \in Registered, Risk[c] \in RequiresApproval
      PROVE  Cardinality({i \in DOMAIN log : log[i].call = c}) <= grants[c]
  <2>1. log \in Seq(LogEntry) /\ grants \in [Call -> Nat] /\ c \in Call
      BY <1>1 DEF PInv, PipelineTypeOK
  <2>2. \A j \in DOMAIN log : log[j] \in LogEntry
      BY <2>1
  <2>3. {i \in DOMAIN log : log[i].call = c} = {i \in DOMAIN log : log[i] \in Of(c)}
      BY <2>2, Zenon DEF Of
  <2>4. Count(Of(c)) \in Nat
      BY <2>1, CountIsNat
  <2>5. Count(Of(c)) <= grants[c]
      BY <1>1, <2>1, <2>4 DEF Consented, Risky
  <2> QED
      BY <2>3, <2>5 DEF Count
<1>2. PInv /\ Consented => RiskyOnlyAsGranted
    BY <1>1 DEF RiskyOnlyAsGranted
<1> QED
    BY <1>2, GAlways, PTL

(* Consent is wasted only when time is up or no shell may be used at all.  *)
THEOREM PipelineConsentIsNotWasted == PipelineSpec => []ConsentIsNotWasted
<1>1. ASSUME PInv, First, pc = "route", approved
      PROVE  \/ InBudget(Current) /\ ~Repeated(Current)
             \/ spent.seconds = MaxRuntimeSeconds
             \/ MaxShellExecutions = 0
  <2>1. Current \in Call /\ spent \in Spending
      BY <1>1, HeadOK DEF PInv, PipelineTypeOK, Placed
  <2>2. spent.calls = 0 /\ spent.shells = 0 /\ seen[Current] = 0
      BY <1>1, <2>1 DEF First
  <2>3. spent.seconds \in 0 .. MaxRuntimeSeconds
      BY <2>1 DEF Spending
  <2> QED
      BY <2>2, <2>3 DEF InBudget, Repeated
<1>2. PInv /\ First => ConsentIsNotWasted
    BY <1>1 DEF ConsentIsNotWasted
<1> QED
    BY <1>2, GAlways, PTL

--------------------------------------------------------------------------
(* Cancellation: between the request and the end of the run.               *)

Heeded ==
    /\ Count(Heedless) <= 1
    /\ ~cancelRequested => Count(Heedless) = 0
    /\ pc = "route" /\ ~terminal => Count(Heedless) = 0

LEMMA KInit == PipelineInit => Heeded
<1> SUFFICES ASSUME PipelineInit PROVE Heeded
    OBVIOUS
<1>1. Count(Heedless) = 0
    BY CountOfNone DEF PipelineInit
<1> QED
    BY <1>1 DEF Heeded

LEMMA KStart ==
    ASSUME PInv, Heeded, StartHandler
    PROVE  Heeded'
<1>1. PICK e \in LogEntry :
          /\ e.asked = cancelRequested /\ e.over = terminal /\ log' = Append(log, e)
    BY StartFacts
<1>2. log \in Seq(LogEntry) /\ pc = "route" /\ pc' = "handler" /\ UNCHANGED cancelRequested
    BY DEF PInv, PipelineTypeOK, StartHandler, Passed, runState
<1>3. Count(Heedless) \in Nat
    BY <1>2, CountIsNat
<1>4. Count(Heedless)' = IF e \in Heedless THEN Count(Heedless) + 1 ELSE Count(Heedless)
    BY <1>1, <1>2, CountGrows
<1>5. e \in Heedless <=> cancelRequested /\ ~terminal
    BY <1>1 DEF Heedless
<1> QED
    BY <1>2, <1>3, <1>4, <1>5 DEF Heeded

\* Nothing starts a handler: what matters is that the gates are reached past
\* the check alone, and that neither the request nor the end is taken back.
LEMMA KQuiet ==
    ASSUME Heeded, UNCHANGED log, cancelRequested => cancelRequested', terminal => terminal',
           pc' = "route" /\ ~terminal' => pc = "route" \/ ~cancelRequested
    PROVE  Heeded'
<1>1. Count(Heedless)' = Count(Heedless)
    BY DEF Count
<1> QED
    BY <1>1 DEF Heeded

LEMMA KStep == PInv /\ Heeded /\ [PipelineNext]_vars => Heeded'
<1> SUFFICES ASSUME PInv, Heeded, [PipelineNext]_vars PROVE Heeded'
    OBVIOUS
<1>1. CASE StartHandler
    BY <1>1, KStart
<1>2. CASE UNCHANGED log
  <2> USE <1>2, KQuiet
  <2>1. CASE ModelAnswers \/ UnreadableCall
      BY <2>1 DEF ModelAnswers, UnreadableCall, EndSession
  <2>2. CASE ModelCallsTools
      BY <2>2 DEF ModelCallsTools, runState
  <2>3. CASE CheckCancellation
      BY <2>3 DEF CheckCancellation, Deliver
  <2>4. CASE RefuseCall \/ BlockRepeat
      BY <2>4 DEF RefuseCall, BlockRepeat, Deliver, runState
  <2>5. CASE EndHandler
      BY <2>5 DEF EndHandler, Deliver, runState
  <2>6. CASE ParkCall
      BY <2>6 DEF ParkCall, runState
  <2>7. CASE TimePasses \/ RequestCancellation \/ ContinueEndsRun
      BY <2>7 DEF TimePasses, RequestCancellation, ContinueEndsRun, runState
  <2>8. CASE DecideAction \/ DropAction \/ ResumeAction
      BY <2>8 DEF DecideAction, DropAction, ResumeAction
  <2>9. CASE UNCHANGED vars
      BY <2>9 DEF vars, runState
  <2> QED
      BY <1>1, <2>1, <2>2, <2>3, <2>4, <2>5, <2>6, <2>7, <2>8, <2>9
      DEF PipelineNext, SessionStep
<1> QED
    BY <1>1, <1>2, StartOrQuiet

LEMMA KAlways == PipelineSpec => [](PInv /\ Heeded)
    BY KInit, KStep, PipelineInvariant, PTL DEF PipelineSpec

(* From the request of a cancellation until the run is over, one handler   *)
(* is started at most, in whatever session, whoever else ends the run.     *)
THEOREM PipelineCancellationEndsRun == PipelineSpec => []CancellationEndsRun
<1>1. ASSUME PInv, Heeded PROVE CancellationEndsRun
  <2>1. log \in Seq(LogEntry) /\ \A j \in DOMAIN log : log[j] \in LogEntry
      BY <1>1 DEF PInv, PipelineTypeOK
  <2>2. {i \in DOMAIN log : log[i].asked /\ ~log[i].over} = {i \in DOMAIN log : log[i] \in Heedless}
      BY <2>1, Zenon DEF Heedless
  <2> QED
      BY <1>1, <2>2 DEF Heeded, Count, CancellationEndsRun
<1> QED
    BY <1>1, KAlways, PTL

==========================================================================
