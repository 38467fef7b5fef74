---------------------- MODULE ThreadOfControlProofs ----------------------
(***************************************************************************)
(* Proofs about AgentRuntime, second part: the thread of control of a run. *)
(* At any time at most one process speaks for a run, or one action of it   *)
(* waits for a decision or a claim; the two hand the run to each other.    *)
(* From that follow who may run a tool, what a person is shown, what the   *)
(* durable outcome says and who owns a workspace.                          *)
(***************************************************************************)
EXTENDS AgentRuntimeProofs

USE RuntimeConstants, RunConstants, LedgerConstants

--------------------------------------------------------------------------
(* The invariant.                                                          *)

Speaker == Driver \cup Executor

\* A process at one of these labels has the thread of its run.
Thread == Starting \cup (Working \ {"park"})

\* It runs the action it has claimed, or died or gave up with it in hand.
Early == {"claimed", "drop", "execute", "running", "inTool", "settle"}
Gone  == {"killed", "dying", "stopping", "stopped", "end"}

DriverLabel == Starting \cup {"loop", "request", "show", "park", "end"}

\* The API has taken an answer for run r and not yet written it down.
Answering == {"approve", "reject"}
Resolving == Answering \cup {"confirm", "decide"}
Answered(r) == proc[Api].pc \in Answering /\ proc[Api].run = r

OneSpeaker ==
    \A p, q \in Speaker :
        (/\ proc[p].pc \in Thread /\ proc[q].pc \in Thread
         /\ proc[p].run = proc[q].run) => p = q

OneLive ==
    \A a, b \in ActionId :
        (/\ actions[a].status \in Active /\ actions[b].status \in Active
         /\ RunOf[a] = RunOf[b]) => a = b

\* While p speaks for a run, the live action is the one it is about to show
\* or the one it runs.
SpeakerHasLive ==
    \A p \in Speaker, a \in ActionId :
        (/\ proc[p].pc \in Thread /\ proc[p].run = RunOf[a]
         /\ actions[a].status \in Active) =>
            \/ actions[a].status = "PENDING" /\ proc[p].pc = "show" /\ proc[p].asked = a
            \/ /\ actions[a].status = "EXECUTING" /\ p \in Executor
               /\ proc[p].pc \in Early /\ proc[p].act = a

ExecutorInPlace ==
    \A a \in ActionId : actions[a].status = "EXECUTING" =>
        /\ actions[a].worker \in Executor
        /\ proc[actions[a].worker].act = a
        /\ proc[actions[a].worker].pc \in Early \cup Gone

Owns ==
    \A p \in Executor : proc[p].pc \in Working =>
        actions[proc[p].act].worker = p /\ RunOf[proc[p].act] = proc[p].run

\* A request is in one place: with the process about to show it, with the
\* user, or with the API that has the user's answer.
ShowsOwn ==
    \A p \in Speaker : proc[p].pc = "show" =>
        /\ proc[p].asked \in ActionId
        /\ actions[proc[p].asked].status = "PENDING"
        /\ RunOf[proc[p].asked] = proc[p].run
        /\ pendingAuth[proc[p].run] = NoAction
        /\ ~Answered(proc[p].run)

ShownOnly ==
    \A r \in RunId : pendingAuth[r] # NoAction =>
        /\ actions[pendingAuth[r]].status = "PENDING"
        /\ RunOf[pendingAuth[r]] = r
        /\ ~Answered(r)

AnswerIsForOne ==
    proc[Api].pc \in Answering =>
        \E a \in ActionId : /\ RunOf[a] = proc[Api].run
                            /\ actions[a].status = "PENDING"
                            /\ proc[Api].pc = "approve" => consented[a]

\* What /continue has selected belongs to its run.
HandFits(c) ==
    /\ proc[c].pc \notin Resolving
    /\ proc[c].pc \in {"idle", "open"} => hand[c].rows = {}
    /\ proc[c].pc = "claim" => \A a \in hand[c].rows : RunOf[a] = proc[c].run
HandsFit == \A c \in Continuation : HandFits(c)

Decided == {"APPROVED", "EXECUTING", "EXECUTED", "FAILED"}
OnlyConsented == \A a \in ActionId : actions[a].status \in Decided => consented[a]

\* Nothing of a run has happened while its driver speaks for it.
DriverFirst ==
    \A r \in Driver :
        /\ proc[r].run = r
        /\ proc[r].pc \in DriverLabel
        /\ proc[r].pc \in Thread => \A a \in ActionId : RunOf[a] = r =>
              \/ actions[a].status = "ABSENT"
              \/ proc[r].pc = "show" /\ a = proc[r].asked
ApiAfterDriver ==
    proc[Api].pc \in Resolving => proc[proc[Api].run].pc \in {"park", "end"}

TInv ==
    /\ OneSpeaker /\ OneLive /\ SpeakerHasLive /\ ExecutorInPlace /\ Owns
    /\ ShowsOwn /\ ShownOnly /\ AnswerIsForOne /\ HandsFit /\ OnlyConsented
    /\ DriverFirst /\ ApiAfterDriver

--------------------------------------------------------------------------
(* A step in which no thread changes hands: rows may settle, processes may *)
(* move along or leave.                                                    *)

RowsSettle ==
    \A a \in ActionId :
        /\ actions'[a].worker = actions[a].worker
        /\ \/ actions'[a].status = actions[a].status
           \/ actions[a].status = "EXECUTING" /\ actions'[a].status \in Settled

\* p does not take a thread, change its run or lose an action that executes.
Quiet(p) ==
    /\ proc'[p].pc \in Thread => proc[p].pc \in Thread
    /\ proc'[p].pc \in Starting \cup Working => proc'[p].run = proc[p].run
    /\ (p \in Executor /\ proc'[p].pc \in Working) =>
          proc[p].pc \in Working /\ proc'[p].act = proc[p].act
    /\ (proc[p].pc = "show" /\ proc'[p].pc \in Thread) => proc'[p].pc = "show"
    /\ proc'[p].pc = "show" => proc[p].pc = "show" /\ proc'[p].asked = proc[p].asked
    /\ (/\ p \in Executor /\ proc[p].pc \in Early \cup Gone
        /\ actions'[proc[p].act].status = "EXECUTING") =>
          proc'[p].pc \in Early \cup Gone /\ proc'[p].act = proc[p].act
    /\ p \in Driver => proc'[p].run = proc[p].run /\ proc'[p].pc \in DriverLabel
    /\ p = Api =>
          /\ proc'[p].pc \in Answering => proc[p].pc = proc'[p].pc
          /\ proc'[p].pc \in Resolving => proc[p].pc \in Resolving /\ proc'[p].run = proc[p].run
    /\ p \in Continuation => HandFits(p)'
    /\ (p \in Driver /\ proc[p].pc \in {"park", "end"}) => proc'[p].pc \in {"park", "end"}

QuietStep ==
    /\ RowsSettle
    /\ \A p \in Process : Quiet(p)
    /\ UNCHANGED <<pendingAuth, consented>>

LEMMA Places ==
    /\ Speaker \subseteq Process /\ Driver \subseteq Speaker /\ Executor \subseteq Speaker
    /\ Api \in Process /\ Continuation \subseteq Executor /\ Dispatcher \subseteq Executor
    /\ Driver = RunId /\ Executor = WorkerId /\ NoWorker \notin Executor
    /\ Driver \cap Executor = {} /\ Api \notin Speaker
  BY DEF Speaker, Process, Driver, Executor, WorkerId, Caller

LEMMA Labels ==
    /\ Early \subseteq Thread /\ Early \cap Gone = {} /\ Thread \cap Gone = {}
    /\ Thread \subseteq Starting \cup Working /\ "show" \in Thread /\ "show" \notin Early
    /\ "park" \notin Thread /\ "end" \notin Thread /\ Early \cap DriverLabel = {}
    /\ "show" \in Working /\ Thread \ Starting \subseteq Working /\ Early \subseteq Working
  BY DEF Early, Gone, Thread, Starting, Working, DriverLabel

LEMMA QuietKeepsThread ==
    ASSUME RInv, TInv, QuietStep
    PROVE  TInv'
  <1>1. /\ RowsSettle /\ pendingAuth' = pendingAuth /\ consented' = consented
        /\ \A p \in Process : Quiet(p)
    BY DEF QuietStep
  <1>2. ASSUME NEW a \in ActionId, actions'[a].status \in Active
        PROVE  actions'[a].status = actions[a].status
    BY <1>1, <1>2 DEF RowsSettle, Active, Settled
  <1>3. /\ OneSpeaker /\ OneLive /\ SpeakerHasLive /\ ExecutorInPlace /\ Owns
        /\ ShowsOwn /\ ShownOnly /\ AnswerIsForOne /\ HandsFit /\ OnlyConsented
        /\ DriverFirst /\ ApiAfterDriver
    BY DEF TInv
  <1>4. OneSpeaker'
    BY <1>1, <1>3, Places, Labels DEF OneSpeaker, Quiet
  <1>5. OneLive'
    BY <1>2, <1>3 DEF OneLive
  <1>6. SpeakerHasLive'
    BY <1>1, <1>2, <1>3, Places, Labels DEF SpeakerHasLive, Quiet
  <1>7. ExecutorInPlace'
    <2> SUFFICES ASSUME NEW a \in ActionId, actions'[a].status = "EXECUTING"
                 PROVE  /\ actions'[a].worker \in Executor
                        /\ proc'[actions'[a].worker].act = a
                        /\ proc'[actions'[a].worker].pc \in Early \cup Gone
      BY DEF ExecutorInPlace
    <2> DEFINE w == actions[a].worker
    <2>1. actions[a].status = "EXECUTING" /\ actions'[a].worker = w
      BY <1>1, <1>2 DEF RowsSettle, Active
    <2>2. w \in Executor /\ proc[w].act = a /\ proc[w].pc \in Early \cup Gone
      BY <1>3, <2>1 DEF ExecutorInPlace
    <2>3. Quiet(w)
      BY <1>1, <2>2, Places
    <2> QED
      BY <2>1, <2>2, <2>3 DEF Quiet
  <1>8. Owns'
    <2> SUFFICES ASSUME NEW p \in Executor, proc'[p].pc \in Working
                 PROVE  actions'[proc'[p].act].worker = p /\ RunOf[proc'[p].act] = proc'[p].run
      BY DEF Owns
    <2>1. proc[p].pc \in Working /\ proc'[p].act = proc[p].act /\ proc'[p].run = proc[p].run
      BY <1>1, Places DEF Quiet
    <2>2. proc[p].act \in ActionId
      BY <2>1, AtHand, Places DEF RInv
    <2> QED
      BY <1>1, <1>3, <2>1, <2>2 DEF Owns, RowsSettle
  <1>9. ASSUME NEW r, Answered(r)' PROVE Answered(r)
    BY <1>1, <1>9, Places DEF Answered, Quiet, Resolving
  <1>10. ShowsOwn'
    <2> SUFFICES ASSUME NEW p \in Speaker, proc'[p].pc = "show"
                 PROVE  /\ proc'[p].asked \in ActionId
                        /\ actions'[proc'[p].asked].status = "PENDING"
                        /\ RunOf[proc'[p].asked] = proc'[p].run
                        /\ pendingAuth'[proc'[p].run] = NoAction
                        /\ ~(proc'[Api].pc \in Answering /\ proc'[Api].run = proc'[p].run)
      BY DEF ShowsOwn, Answered
    <2>1. proc[p].pc = "show" /\ proc'[p].asked = proc[p].asked /\ proc'[p].run = proc[p].run
      BY <1>1, Places, Labels DEF Quiet
    <2>2. /\ proc[p].asked \in ActionId /\ actions[proc[p].asked].status = "PENDING"
          /\ RunOf[proc[p].asked] = proc[p].run /\ pendingAuth[proc[p].run] = NoAction
          /\ ~Answered(proc[p].run)
      BY <1>3, <2>1 DEF ShowsOwn
    <2> QED
      BY <1>1, <1>9, <2>1, <2>2 DEF RowsSettle, Answered
  <1>11. ShownOnly'
    <2> SUFFICES ASSUME NEW r \in RunId, pendingAuth'[r] # NoAction
                 PROVE  /\ actions'[pendingAuth'[r]].status = "PENDING"
                        /\ RunOf[pendingAuth'[r]] = r /\ ~Answered(r)'
      BY DEF ShownOnly
    <2>1. pendingAuth[r] \in ActionId
      BY <1>1 DEF RInv, RunTypeOK
    <2> QED
      BY <1>1, <1>3, <1>9, <2>1 DEF RowsSettle, ShownOnly
  <1>12. AnswerIsForOne'
    BY <1>1, <1>3, Places DEF AnswerIsForOne, Quiet, RowsSettle, Resolving
  <1>13. HandsFit'
    BY <1>1, Places DEF HandsFit, Quiet
  <1>14. OnlyConsented'
    BY <1>1, <1>3 DEF OnlyConsented, RowsSettle, Decided
  <1>15. DriverFirst'
    <2> SUFFICES ASSUME NEW r \in Driver
                 PROVE  /\ proc'[r].run = r /\ proc'[r].pc \in DriverLabel
                        /\ proc'[r].pc \in Thread => \A a \in ActionId : RunOf[a] = r =>
                              \/ actions'[a].status = "ABSENT"
                              \/ proc'[r].pc = "show" /\ a = proc'[r].asked
      BY DEF DriverFirst
    <2>1. Quiet(r)
      BY <1>1, Places
    <2> QED
      BY <1>1, <1>3, <2>1 DEF DriverFirst, Quiet, RowsSettle
  <1>16. ApiAfterDriver'
    <2> SUFFICES ASSUME proc'[Api].pc \in Resolving
                 PROVE  proc'[proc'[Api].run].pc \in {"park", "end"}
      BY DEF ApiAfterDriver
    <2>1. proc[Api].pc \in Resolving /\ proc'[Api].run = proc[Api].run
      BY <1>1, Places DEF Quiet
    <2>2. proc[Api].run \in Driver
      BY <2>1, AtHand, Places DEF RInv, Resolving, Answering, NeedsRun
    <2> QED
      BY <1>1, <1>3, <2>1, <2>2, Places DEF ApiAfterDriver, Quiet
  <1> QED
    BY <1>4, <1>5, <1>6, <1>7, <1>8, <1>10, <1>11, <1>12, <1>13, <1>14, <1>15, <1>16 DEF TInv

--------------------------------------------------------------------------
(* The five steps in which a thread changes hands.                         *)

Others(p) ==
    \A q \in Process \ {p} :
        proc'[q] = proc[q] /\ (q \in Continuation => hand'[q] = hand[q])

RowsKept(S) ==
    \A a \in ActionId \ S :
        actions'[a].status = actions[a].status /\ actions'[a].worker = actions[a].worker

\* p has a new request to show.
Asks(p, a) ==
    /\ Others(p) /\ RowsKept({a}) /\ UNCHANGED <<pendingAuth, consented>>
    /\ proc[p].pc = "request" /\ RunOf[a] = proc[p].run
    /\ actions[a].status = "ABSENT" /\ actions'[a].status = "PENDING"
    /\ actions'[a].worker = actions[a].worker
    /\ proc'[p].pc = "show" /\ proc'[p].asked = a
    /\ proc'[p].run = proc[p].run /\ proc'[p].act = proc[p].act

\* p hands its request to the user.
Shows(p) ==
    /\ Others(p) /\ RowsKept({}) /\ UNCHANGED consented
    /\ proc[p].pc = "show"
    /\ pendingAuth' = [pendingAuth EXCEPT ![proc[p].run] = proc[p].asked]
    /\ proc'[p].pc = "park" /\ proc'[p].run = proc[p].run /\ proc'[p].act = proc[p].act

\* The API takes the user's answer.
Hears(r) ==
    /\ Others(Api) /\ RowsKept({})
    /\ proc[Api].pc = "idle" /\ pendingAuth[r] # NoAction
    /\ pendingAuth' = [pendingAuth EXCEPT ![r] = NoAction]
    /\ \E approved \in BOOLEAN :
          /\ consented' = [consented EXCEPT ![pendingAuth[r]] = approved]
          /\ proc'[Api].pc = IF approved THEN "approve" ELSE "reject"
    /\ proc'[Api].run = r

\* The API writes the answer down.
Decides(verdict) ==
    /\ Others(Api) /\ UNCHANGED <<pendingAuth, consented>>
    /\ \A a \in ActionId :
          /\ actions'[a].worker = actions[a].worker
          /\ actions'[a].status = IF RunOf[a] = proc[Api].run /\ actions[a].status = "PENDING"
                                  THEN verdict ELSE actions[a].status
    /\ \/ proc[Api].pc = "approve" /\ verdict = "APPROVED" /\ proc'[Api].pc = "confirm"
       \/ proc[Api].pc = "reject" /\ verdict = "REJECTED" /\ proc'[Api].pc = "decide"
    /\ proc'[Api].run = proc[Api].run

\* p claims the approved action a, and with it the thread of its run.
TakesUp(p, a) ==
    /\ Others(p) /\ RowsKept({a}) /\ UNCHANGED <<pendingAuth, consented>>
    /\ proc[p].pc = "claim" /\ proc'[p].pc \in {"claimed", "execute"}
    /\ actions[a].status = "APPROVED" /\ actions'[a].status = "EXECUTING"
    /\ actions'[a].worker = p /\ proc'[p].act = a /\ proc'[p].run = RunOf[a]

LEMMA ShownTyped ==
    ASSUME RInv
    PROVE  \A r \in RunId : pendingAuth[r] \in ActionId \cup {NoAction}
  BY DEF RInv, RunTypeOK

LEMMA AskKeepsThread ==
    ASSUME RInv, TInv, NEW p \in Speaker, NEW a \in ActionId, Asks(p, a)
    PROVE  TInv'
  <1>1. /\ OneSpeaker /\ OneLive /\ SpeakerHasLive /\ ExecutorInPlace /\ Owns
        /\ ShowsOwn /\ ShownOnly /\ AnswerIsForOne /\ HandsFit /\ OnlyConsented
        /\ DriverFirst /\ ApiAfterDriver
    BY DEF TInv
  <1>2. /\ Others(p) /\ RowsKept({a}) /\ pendingAuth' = pendingAuth /\ consented' = consented
        /\ proc[p].pc = "request" /\ RunOf[a] = proc[p].run
        /\ actions[a].status = "ABSENT" /\ actions'[a].status = "PENDING"
        /\ actions'[a].worker = actions[a].worker
        /\ proc'[p].pc = "show" /\ proc'[p].asked = a
        /\ proc'[p].run = proc[p].run /\ proc'[p].act = proc[p].act
    BY DEF Asks
  <1>3. \A q \in Process \ {p} : proc'[q] = proc[q]
    BY <1>2 DEF Others
  <1>4. proc[p].pc \in Thread /\ proc[p].pc \notin Early /\ proc'[p].pc \notin Early \cup Gone
    BY <1>2 DEF Thread, Working, Early, Gone
  <1>5. \A b \in ActionId : RunOf[b] = proc[p].run => actions[b].status \notin Active
    BY <1>1, <1>2, <1>4 DEF SpeakerHasLive
  <1>6. \A b \in ActionId : b # a => actions'[b].status = actions[b].status
                                     /\ actions'[b].worker = actions[b].worker
    BY <1>2 DEF RowsKept
  <1>7. \A q \in Speaker : q # p /\ proc[q].pc \in Thread => proc[q].run # proc[p].run
    BY <1>1, <1>4 DEF OneSpeaker
  <1>8. pendingAuth[proc[p].run] = NoAction /\ ~Answered(proc[p].run)
    <2>1. proc[p].run \in RunId
      BY <1>2, AtHand, Places DEF RInv, NeedsRun, Working
    <2> QED
      BY <1>1, <1>5, <2>1, ShownTyped DEF ShownOnly, AnswerIsForOne, Answered, Active
  <1>9. p # Api /\ proc'[Api] = proc[Api]
    BY <1>3, Places
  <1>10. OneSpeaker'
    BY <1>1, <1>2, <1>3, <1>4, Places DEF OneSpeaker
  <1>11. OneLive'
    BY <1>1, <1>2, <1>5, <1>6 DEF OneLive
  <1>12. SpeakerHasLive'
    <2> SUFFICES ASSUME NEW q \in Speaker, NEW b \in ActionId,
                        proc'[q].pc \in Thread, proc'[q].run = RunOf[b],
                        actions'[b].status \in Active
                 PROVE  \/ /\ actions'[b].status = "PENDING"
                           /\ proc'[q].pc = "show" /\ proc'[q].asked = b
                        \/ /\ actions'[b].status = "EXECUTING" /\ q \in Executor
                           /\ proc'[q].pc \in Early /\ proc'[q].act = b
      BY DEF SpeakerHasLive
    <2>1. CASE q = p
      BY <1>2, <1>5, <1>6, <2>1
    <2>2. CASE q # p
      BY <1>1, <1>2, <1>3, <1>6, <1>7, <2>2, Places DEF SpeakerHasLive
    <2> QED
      BY <2>1, <2>2
  <1>13. ExecutorInPlace'
    <2> SUFFICES ASSUME NEW b \in ActionId, actions'[b].status = "EXECUTING"
                 PROVE  /\ actions'[b].worker \in Executor
                        /\ proc'[actions'[b].worker].act = b
                        /\ proc'[actions'[b].worker].pc \in Early \cup Gone
      BY DEF ExecutorInPlace
    <2>1. b # a
      BY <1>2
    <2>2. /\ actions[b].worker \in Executor /\ proc[actions[b].worker].act = b
          /\ proc[actions[b].worker].pc \in Early \cup Gone
      BY <1>1, <1>6, <2>1 DEF ExecutorInPlace
    <2>3. actions[b].worker # p
      BY <1>2, <2>2 DEF Early, Gone
    <2> QED
      BY <1>3, <1>6, <2>1, <2>2, <2>3, Places
  <1>14. Owns'
    <2> SUFFICES ASSUME NEW q \in Executor, proc'[q].pc \in Working
                 PROVE  actions'[proc'[q].act].worker = q /\ RunOf[proc'[q].act] = proc'[q].run
      BY DEF Owns
    <2>1. proc[q].pc \in Working /\ proc'[q].act = proc[q].act /\ proc'[q].run = proc[q].run
      BY <1>2, <1>3, Places DEF Working
    <2>2. proc[q].act \in ActionId
      BY <2>1, AtHand, Places DEF RInv
    <2> QED
      BY <1>1, <1>2, <1>6, <2>1, <2>2 DEF Owns
  <1>15. ShowsOwn'
    BY <1>1, <1>2, <1>3, <1>6, <1>8, <1>9, Places DEF ShowsOwn, Answered
  <1>16. ShownOnly'
    BY <1>1, <1>2, <1>6, <1>9, ShownTyped DEF ShownOnly, Answered
  <1>17. AnswerIsForOne'
    BY <1>1, <1>2, <1>6, <1>9 DEF AnswerIsForOne
  <1>18. HandsFit'
    BY <1>1, <1>2, Places DEF HandsFit, HandFits, Others, Resolving, Answering
  <1>19. OnlyConsented'
    BY <1>1, <1>2, <1>6 DEF OnlyConsented, Decided
  <1>20. DriverFirst'
    <2> SUFFICES ASSUME NEW r \in Driver
                 PROVE  /\ proc'[r].run = r /\ proc'[r].pc \in DriverLabel
                        /\ proc'[r].pc \in Thread => \A b \in ActionId : RunOf[b] = r =>
                              \/ actions'[b].status = "ABSENT"
                              \/ proc'[r].pc = "show" /\ b = proc'[r].asked
      BY DEF DriverFirst
    <2>1. CASE r = p
      BY <1>1, <1>2, <1>4, <1>6, <2>1 DEF DriverFirst, DriverLabel
    <2>2. CASE r # p
      BY <1>1, <1>2, <1>3, <1>6, <1>7, <2>2, Places DEF DriverFirst
    <2> QED
      BY <2>1, <2>2
  <1>21. ApiAfterDriver'
    <2>1. proc[Api].pc \in Resolving => proc[Api].run \in Process
      BY AtHand, Places DEF RInv, Resolving, Answering, NeedsRun
    <2> QED
      BY <1>1, <1>2, <1>3, <1>9, <2>1 DEF ApiAfterDriver
  <1> QED
    BY <1>10, <1>11, <1>12, <1>13, <1>14, <1>15, <1>16, <1>17, <1>18, <1>19, <1>20, <1>21
       DEF TInv

LEMMA ShowKeepsThread ==
    ASSUME RInv, TInv, NEW p \in Speaker, Shows(p)
    PROVE  TInv'
  <1>1. /\ OneSpeaker /\ OneLive /\ SpeakerHasLive /\ ExecutorInPlace /\ Owns
        /\ ShowsOwn /\ ShownOnly /\ AnswerIsForOne /\ HandsFit /\ OnlyConsented
        /\ DriverFirst /\ ApiAfterDriver
    BY DEF TInv
  <1> DEFINE r == proc[p].run
             a == proc[p].asked
  <1>2. /\ Others(p) /\ RowsKept({}) /\ consented' = consented
        /\ proc[p].pc = "show" /\ pendingAuth' = [pendingAuth EXCEPT ![r] = a]
        /\ proc'[p].pc = "park" /\ proc'[p].run = r /\ proc'[p].act = proc[p].act
    BY DEF Shows
  <1>3. \A q \in Process \ {p} : proc'[q] = proc[q]
    BY <1>2 DEF Others
  <1>4. \A b \in ActionId : /\ actions'[b].status = actions[b].status
                            /\ actions'[b].worker = actions[b].worker
    BY <1>2 DEF RowsKept
  <1>5. /\ a \in ActionId /\ actions[a].status = "PENDING" /\ RunOf[a] = r
        /\ pendingAuth[r] = NoAction /\ ~Answered(r)
    BY <1>1, <1>2 DEF ShowsOwn
  <1>6. r \in RunId
    BY <1>2, AtHand, Places DEF RInv, NeedsRun, Working
  <1>7. /\ pendingAuth'[r] = a
        /\ \A s \in RunId \ {r} : pendingAuth'[s] = pendingAuth[s]
    BY <1>2, <1>6 DEF RInv, RunTypeOK
  <1>8. proc[p].pc \in Thread /\ proc[p].pc \notin Early \cup Gone /\ proc'[p].pc \notin Thread
    BY <1>2 DEF Thread, Starting, Working, Early, Gone
  <1>9. \A q \in Speaker : q # p /\ proc[q].pc \in Thread => proc[q].run # r
    BY <1>1, <1>8 DEF OneSpeaker
  <1>10. p # Api /\ proc'[Api] = proc[Api]
    BY <1>3, Places
  <1> HIDE DEF r, a
  <1>11. OneSpeaker'
    BY <1>1, <1>3, <1>8, Places DEF OneSpeaker
  <1>12. OneLive'
    BY <1>1, <1>4 DEF OneLive
  <1>13. SpeakerHasLive'
    BY <1>1, <1>3, <1>4, <1>8, Places DEF SpeakerHasLive
  <1>14. ExecutorInPlace'
    <2> SUFFICES ASSUME NEW b \in ActionId, actions'[b].status = "EXECUTING"
                 PROVE  /\ actions'[b].worker \in Executor
                        /\ proc'[actions'[b].worker].act = b
                        /\ proc'[actions'[b].worker].pc \in Early \cup Gone
      BY DEF ExecutorInPlace
    <2>1. /\ actions[b].worker \in Executor /\ proc[actions[b].worker].act = b
          /\ proc[actions[b].worker].pc \in Early \cup Gone
      BY <1>1, <1>4 DEF ExecutorInPlace
    <2> QED
      BY <1>3, <1>4, <1>8, <2>1, Places
  <1>15. Owns'
    <2> SUFFICES ASSUME NEW q \in Executor, proc'[q].pc \in Working
                 PROVE  actions'[proc'[q].act].worker = q /\ RunOf[proc'[q].act] = proc'[q].run
      BY DEF Owns
    <2>1. proc[q].pc \in Working /\ proc'[q].act = proc[q].act /\ proc'[q].run = proc[q].run
      BY <1>2, <1>3, Places DEF Working, r
    <2>2. proc[q].act \in ActionId
      BY <2>1, AtHand, Places DEF RInv
    <2> QED
      BY <1>1, <1>4, <2>1, <2>2 DEF Owns
  <1>16. ShowsOwn'
    <2> SUFFICES ASSUME NEW q \in Speaker, proc'[q].pc = "show"
                 PROVE  /\ proc'[q].asked \in ActionId
                        /\ actions'[proc'[q].asked].status = "PENDING"
                        /\ RunOf[proc'[q].asked] = proc'[q].run
                        /\ pendingAuth'[proc'[q].run] = NoAction
                        /\ ~(proc'[Api].pc \in Answering /\ proc'[Api].run = proc'[q].run)
      BY DEF ShowsOwn, Answered
    <2>1. q # p /\ proc'[q] = proc[q]
      BY <1>2, <1>3, Places
    <2>2. proc[q].run \in RunId
      BY <2>1, AtHand, Places DEF RInv, NeedsRun, Working
    <2>3. proc[q].run # r
      BY <1>9, <2>1 DEF Thread, Working
    <2> QED
      BY <1>1, <1>4, <1>7, <1>10, <2>1, <2>2, <2>3 DEF ShowsOwn, Answered
  <1>17. ShownOnly'
    <2> SUFFICES ASSUME NEW s \in RunId, pendingAuth'[s] # NoAction
                 PROVE  /\ actions'[pendingAuth'[s]].status = "PENDING"
                        /\ RunOf[pendingAuth'[s]] = s
                        /\ ~(proc'[Api].pc \in Answering /\ proc'[Api].run = s)
      BY DEF ShownOnly, Answered
    <2>1. CASE s = r
      BY <1>4, <1>5, <1>7, <1>10, <2>1 DEF Answered
    <2>2. CASE s # r
      BY <1>1, <1>4, <1>7, <1>10, <2>2, ShownTyped DEF ShownOnly, Answered
    <2> QED
      BY <2>1, <2>2
  <1>18. AnswerIsForOne'
    BY <1>1, <1>2, <1>4, <1>10 DEF AnswerIsForOne
  <1>19. HandsFit'
    BY <1>1, <1>2, Places DEF HandsFit, HandFits, Others, Resolving, Answering
  <1>20. OnlyConsented'
    BY <1>1, <1>2, <1>4 DEF OnlyConsented
  <1>21. DriverFirst'
    <2> SUFFICES ASSUME NEW s \in Driver
                 PROVE  /\ proc'[s].run = s /\ proc'[s].pc \in DriverLabel
                        /\ proc'[s].pc \in Thread => \A b \in ActionId : RunOf[b] = s =>
                              \/ actions'[b].status = "ABSENT"
                              \/ proc'[s].pc = "show" /\ b = proc'[s].asked
      BY DEF DriverFirst
    <2>1. CASE s = p
      BY <1>1, <1>2, <1>8, <2>1 DEF DriverFirst, DriverLabel, r
    <2>2. CASE s # p
      BY <1>1, <1>3, <1>4, <2>2, Places DEF DriverFirst
    <2> QED
      BY <2>1, <2>2
  <1>22. ApiAfterDriver'
    <2>1. proc[Api].pc \in Resolving => proc[Api].run \in Process
      BY AtHand, Places DEF RInv, Resolving, Answering, NeedsRun
    <2> QED
      BY <1>1, <1>2, <1>3, <1>10, <2>1 DEF ApiAfterDriver
  <1> QED
    BY <1>11, <1>12, <1>13, <1>14, <1>15, <1>16, <1>17, <1>18, <1>19, <1>20, <1>21, <1>22
       DEF TInv

LEMMA HearKeepsThread ==
    ASSUME RInv, TInv, NEW r \in RunId, Hears(r)
    PROVE  TInv'
  <1>1. /\ OneSpeaker /\ OneLive /\ SpeakerHasLive /\ ExecutorInPlace /\ Owns
        /\ ShowsOwn /\ ShownOnly /\ AnswerIsForOne /\ HandsFit /\ OnlyConsented
        /\ DriverFirst /\ ApiAfterDriver
    BY DEF TInv
  <1> DEFINE a == pendingAuth[r]
  <1>2. PICK approved \in BOOLEAN :
           /\ consented' = [consented EXCEPT ![a] = approved]
           /\ proc'[Api].pc = IF approved THEN "approve" ELSE "reject"
    BY DEF Hears
  <1>3. /\ Others(Api) /\ RowsKept({}) /\ proc[Api].pc = "idle" /\ a # NoAction
        /\ pendingAuth' = [pendingAuth EXCEPT ![r] = NoAction] /\ proc'[Api].run = r
    BY DEF Hears
  <1>4. \A q \in Speaker : proc'[q] = proc[q]
    BY <1>3, Places DEF Others
  <1>5. \A b \in ActionId : /\ actions'[b].status = actions[b].status
                            /\ actions'[b].worker = actions[b].worker
    BY <1>3 DEF RowsKept
  <1>6. a \in ActionId /\ actions[a].status = "PENDING" /\ RunOf[a] = r
    BY <1>1, <1>3, ShownTyped DEF ShownOnly
  <1>7. /\ pendingAuth'[r] = NoAction
        /\ \A s \in RunId \ {r} : pendingAuth'[s] = pendingAuth[s]
    BY <1>3 DEF RInv, RunTypeOK
  <1>8. ASSUME NEW q \in Speaker, proc[q].pc = "show" PROVE proc[q].run # r
    BY <1>1, <1>3, <1>8 DEF ShowsOwn
  <1>9. ~(proc[Api].pc \in Answering)
    BY <1>3 DEF Answering
  <1>10. /\ proc'[Api].pc \in Answering
         /\ proc'[Api].pc = "approve" => consented'[a]
    <2>1. consented'[a] = approved
      BY <1>2, <1>6 DEF RInv, HistoryTyped
    <2> QED
      BY <1>2, <2>1 DEF Answering
  <1> HIDE DEF a
  <1>11. OneSpeaker'
    BY <1>1, <1>4 DEF OneSpeaker
  <1>12. OneLive'
    BY <1>1, <1>5 DEF OneLive
  <1>13. SpeakerHasLive'
    BY <1>1, <1>4, <1>5 DEF SpeakerHasLive
  <1>14. ExecutorInPlace'
    BY <1>1, <1>4, <1>5, Places DEF ExecutorInPlace
  <1>15. Owns'
    <2> SUFFICES ASSUME NEW q \in Executor, proc'[q].pc \in Working
                 PROVE  actions'[proc'[q].act].worker = q /\ RunOf[proc'[q].act] = proc'[q].run
      BY DEF Owns
    <2>1. proc'[q] = proc[q]
      BY <1>4, Places
    <2>2. proc[q].act \in ActionId
      BY <2>1, AtHand, Places DEF RInv
    <2> QED
      BY <1>1, <1>5, <2>1, <2>2 DEF Owns
  <1>16. ShowsOwn'
    <2> SUFFICES ASSUME NEW q \in Speaker, proc'[q].pc = "show"
                 PROVE  /\ proc'[q].asked \in ActionId
                        /\ actions'[proc'[q].asked].status = "PENDING"
                        /\ RunOf[proc'[q].asked] = proc'[q].run
                        /\ pendingAuth'[proc'[q].run] = NoAction
                        /\ ~(proc'[Api].pc \in Answering /\ proc'[Api].run = proc'[q].run)
      BY DEF ShowsOwn, Answered
    <2>1. proc'[q] = proc[q] /\ proc[q].run # r
      BY <1>4, <1>8
    <2>2. proc[q].run \in RunId
      BY <2>1, AtHand, Places DEF RInv, NeedsRun, Working
    <2> QED
      BY <1>1, <1>3, <1>5, <1>7, <2>1, <2>2 DEF ShowsOwn
  <1>17. ShownOnly'
    <2> SUFFICES ASSUME NEW s \in RunId, pendingAuth'[s] # NoAction
                 PROVE  /\ actions'[pendingAuth'[s]].status = "PENDING"
                        /\ RunOf[pendingAuth'[s]] = s
                        /\ ~(proc'[Api].pc \in Answering /\ proc'[Api].run = s)
      BY DEF ShownOnly, Answered
    <2> QED
      BY <1>1, <1>3, <1>5, <1>7, ShownTyped DEF ShownOnly
  <1>18. AnswerIsForOne'
    BY <1>3, <1>5, <1>6, <1>10 DEF AnswerIsForOne
  <1>19. HandsFit'
    BY <1>1, <1>3, Places DEF HandsFit, HandFits, Others
  <1>20. OnlyConsented'
    <2> SUFFICES ASSUME NEW b \in ActionId, actions'[b].status \in Decided PROVE consented'[b]
      BY DEF OnlyConsented
    <2>1. b # a
      BY <1>5, <1>6 DEF Decided
    <2> QED
      BY <1>1, <1>2, <1>5, <2>1 DEF OnlyConsented, RInv, HistoryTyped
  <1>21. DriverFirst'
    BY <1>1, <1>4, <1>5, Places DEF DriverFirst
  <1>22. ApiAfterDriver'
    <2>1. r \in Driver
      BY Places
    <2>2. CASE proc[r].pc \in Thread
      <3>1. actions[a].status = "ABSENT" \/ proc[r].pc = "show"
        BY <1>1, <1>6, <2>1, <2>2 DEF DriverFirst
      <3>2. proc[r].pc # "show"
        BY <1>1, <1>8, <2>1, Places DEF DriverFirst
      <3> QED
        BY <1>6, <3>1, <3>2
    <2>3. CASE proc[r].pc \notin Thread
      <3>1. proc[r].pc \in {"park", "end"}
        BY <1>1, <2>1, <2>3 DEF DriverFirst, DriverLabel, Thread, Working
      <3> QED
        BY <1>3, <1>4, <2>1, <3>1, Places DEF ApiAfterDriver
    <2> QED
      BY <2>2, <2>3
  <1> QED
    BY <1>11, <1>12, <1>13, <1>14, <1>15, <1>16, <1>17, <1>18, <1>19, <1>20, <1>21, <1>22
       DEF TInv

LEMMA DecideKeepsThread ==
    ASSUME RInv, TInv, NEW verdict, Decides(verdict)
    PROVE  TInv'
  <1>1. /\ OneSpeaker /\ OneLive /\ SpeakerHasLive /\ ExecutorInPlace /\ Owns
        /\ ShowsOwn /\ ShownOnly /\ AnswerIsForOne /\ HandsFit /\ OnlyConsented
        /\ DriverFirst /\ ApiAfterDriver
    BY DEF TInv
  <1> DEFINE r == proc[Api].run
  <1>2. /\ Others(Api) /\ pendingAuth' = pendingAuth /\ consented' = consented
        /\ proc'[Api].run = r /\ verdict \in {"APPROVED", "REJECTED"}
        /\ proc[Api].pc \in Answering /\ proc'[Api].pc \in {"confirm", "decide"}
        /\ verdict = "APPROVED" => proc[Api].pc = "approve"
    BY DEF Decides, Answering
  <1>3. \A b \in ActionId :
           /\ actions'[b].worker = actions[b].worker
           /\ actions'[b].status = IF RunOf[b] = r /\ actions[b].status = "PENDING"
                                   THEN verdict ELSE actions[b].status
    BY DEF Decides
  <1>4. \A q \in Speaker : proc'[q] = proc[q]
    BY <1>2, Places DEF Others
  <1>5. PICK a \in ActionId : /\ RunOf[a] = r /\ actions[a].status = "PENDING"
                              /\ proc[Api].pc = "approve" => consented[a]
    BY <1>1, <1>2 DEF AnswerIsForOne
  <1>6. \A b \in ActionId : (RunOf[b] = r /\ actions[b].status = "PENDING") => b = a
    BY <1>1, <1>5 DEF OneLive, Active
  <1>7. Answered(r) /\ r \in RunId
    BY <1>2, AtHand, Places DEF RInv, Answered, Answering, NeedsRun
  <1>8. \A b \in ActionId : actions'[b].status \in Active => actions[b].status \in Active
    BY <1>2, <1>3 DEF Active
  <1> HIDE DEF r
  <1>9. ASSUME NEW q \in Speaker, proc[q].pc \in Thread PROVE proc[q].run # r
    <2>1. CASE proc[q].pc = "show"
      BY <1>1, <1>7, <2>1 DEF ShowsOwn
    <2>2. CASE proc[q].pc # "show"
      BY <1>1, <1>5, <1>9, <2>2 DEF SpeakerHasLive, Active
    <2> QED
      BY <2>1, <2>2
  <1>10. ~(proc'[Api].pc \in Answering)
    BY <1>2 DEF Answering
  <1>11. OneSpeaker'
    BY <1>1, <1>4 DEF OneSpeaker
  <1>12. OneLive'
    BY <1>1, <1>8 DEF OneLive
  <1>13. SpeakerHasLive'
    BY <1>1, <1>3, <1>4, <1>8, <1>9 DEF SpeakerHasLive
  <1>14. ExecutorInPlace'
    <2> SUFFICES ASSUME NEW b \in ActionId, actions'[b].status = "EXECUTING"
                 PROVE  /\ actions'[b].worker \in Executor
                        /\ proc'[actions'[b].worker].act = b
                        /\ proc'[actions'[b].worker].pc \in Early \cup Gone
      BY DEF ExecutorInPlace
    <2>1. actions[b].status = "EXECUTING" /\ actions'[b].worker = actions[b].worker
      BY <1>2, <1>3
    <2> QED
      BY <1>1, <1>4, <2>1, Places DEF ExecutorInPlace
  <1>15. Owns'
    <2> SUFFICES ASSUME NEW q \in Executor, proc'[q].pc \in Working
                 PROVE  actions'[proc'[q].act].worker = q /\ RunOf[proc'[q].act] = proc'[q].run
      BY DEF Owns
    <2>1. proc'[q] = proc[q]
      BY <1>4, Places
    <2>2. proc[q].act \in ActionId
      BY <2>1, AtHand, Places DEF RInv
    <2> QED
      BY <1>1, <1>3, <2>1, <2>2 DEF Owns
  <1>16. ShowsOwn'
    <2> SUFFICES ASSUME NEW q \in Speaker, proc'[q].pc = "show"
                 PROVE  /\ proc'[q].asked \in ActionId
                        /\ actions'[proc'[q].asked].status = "PENDING"
                        /\ RunOf[proc'[q].asked] = proc'[q].run
                        /\ pendingAuth'[proc'[q].run] = NoAction
                        /\ ~(proc'[Api].pc \in Answering /\ proc'[Api].run = proc'[q].run)
      BY DEF ShowsOwn, Answered
    <2>1. proc'[q] = proc[q] /\ proc[q].run # r
      BY <1>4, <1>9, Labels
    <2> QED
      BY <1>1, <1>2, <1>3, <1>10, <2>1 DEF ShowsOwn
  <1>17. ShownOnly'
    <2> SUFFICES ASSUME NEW s \in RunId, pendingAuth'[s] # NoAction
                 PROVE  /\ actions'[pendingAuth'[s]].status = "PENDING"
                        /\ RunOf[pendingAuth'[s]] = s
                        /\ ~(proc'[Api].pc \in Answering /\ proc'[Api].run = s)
      BY DEF ShownOnly, Answered
    <2>1. /\ pendingAuth[s] \in ActionId /\ actions[pendingAuth[s]].status = "PENDING"
          /\ RunOf[pendingAuth[s]] = s /\ s # r
      BY <1>1, <1>2, <1>7, ShownTyped DEF ShownOnly
    <2> QED
      BY <1>2, <1>3, <1>10, <2>1
  <1>18. AnswerIsForOne'
    BY <1>10 DEF AnswerIsForOne
  <1>19. HandsFit'
    BY <1>1, <1>2, Places DEF HandsFit, HandFits, Others, Resolving, Answering
  <1>20. OnlyConsented'
    <2> SUFFICES ASSUME NEW b \in ActionId, actions'[b].status \in Decided PROVE consented[b]
      BY <1>2 DEF OnlyConsented
    <2>1. CASE RunOf[b] = r /\ actions[b].status = "PENDING"
      BY <1>2, <1>3, <1>5, <1>6, <2>1 DEF Decided
    <2>2. CASE ~(RunOf[b] = r /\ actions[b].status = "PENDING")
      BY <1>1, <1>3, <2>2 DEF OnlyConsented
    <2> QED
      BY <2>1, <2>2
  <1>21. DriverFirst'
    <2> SUFFICES ASSUME NEW s \in Driver
                 PROVE  /\ proc'[s].run = s /\ proc'[s].pc \in DriverLabel
                        /\ proc'[s].pc \in Thread => \A b \in ActionId : RunOf[b] = s =>
                              \/ actions'[b].status = "ABSENT"
                              \/ proc'[s].pc = "show" /\ b = proc'[s].asked
      BY DEF DriverFirst
    <2>1. proc'[s] = proc[s] /\ proc[s].run = s
      BY <1>1, <1>4, Places DEF DriverFirst
    <2> QED
      BY <1>1, <1>3, <1>9, <2>1, Places DEF DriverFirst
  <1>22. ApiAfterDriver'
    <2>1. r \in Driver /\ proc[r].pc \in {"park", "end"}
      BY <1>1, <1>2, <1>7, Places DEF ApiAfterDriver, Resolving, r
    <2> QED
      BY <1>2, <1>4, <2>1, Places DEF ApiAfterDriver
  <1> QED
    BY <1>11, <1>12, <1>13, <1>14, <1>15, <1>16, <1>17, <1>18, <1>19, <1>20, <1>21, <1>22
       DEF TInv

LEMMA TakeUpKeepsThread ==
    ASSUME RInv, TInv, NEW p \in Executor, NEW a \in ActionId, TakesUp(p, a)
    PROVE  TInv'
  <1>1. /\ OneSpeaker /\ OneLive /\ SpeakerHasLive /\ ExecutorInPlace /\ Owns
        /\ ShowsOwn /\ ShownOnly /\ AnswerIsForOne /\ HandsFit /\ OnlyConsented
        /\ DriverFirst /\ ApiAfterDriver
    BY DEF TInv
  <1>2. /\ Others(p) /\ RowsKept({a}) /\ pendingAuth' = pendingAuth /\ consented' = consented
        /\ proc[p].pc = "claim" /\ proc'[p].pc \in {"claimed", "execute"}
        /\ actions[a].status = "APPROVED" /\ actions'[a].status = "EXECUTING"
        /\ actions'[a].worker = p /\ proc'[p].act = a /\ proc'[p].run = RunOf[a]
    BY DEF TakesUp
  <1>3. \A q \in Process \ {p} : proc'[q] = proc[q]
    BY <1>2 DEF Others
  <1>4. \A b \in ActionId : b # a => /\ actions'[b].status = actions[b].status
                                     /\ actions'[b].worker = actions[b].worker
    BY <1>2 DEF RowsKept
  <1>5. /\ proc[p].pc \notin Thread \cup Early \cup Gone \cup Working
        /\ proc'[p].pc \in Early /\ proc'[p].pc # "show"
    BY <1>2 DEF Thread, Starting, Working, Early, Gone
  <1>6. ASSUME NEW q \in Speaker, proc[q].pc \in Thread PROVE proc[q].run # RunOf[a]
    BY <1>1, <1>2, <1>6 DEF SpeakerHasLive, Active
  <1>7. p # Api /\ proc'[Api] = proc[Api] /\ p \notin Driver /\ p \in Process /\ p \in Speaker
    BY <1>3, Places
  <1>8. \A b \in ActionId : (RunOf[b] = RunOf[a] /\ actions[b].status \in Active) => b = a
    BY <1>1, <1>2 DEF OneLive, Active
  <1>9. OneSpeaker'
    <2> SUFFICES ASSUME NEW q \in Speaker, NEW s \in Speaker,
                        proc'[q].pc \in Thread, proc'[s].pc \in Thread,
                        proc'[q].run = proc'[s].run
                 PROVE  q = s
      BY DEF OneSpeaker
    <2> QED
      BY <1>1, <1>2, <1>3, <1>6, Places DEF OneSpeaker
  <1>10. OneLive'
    BY <1>1, <1>2, <1>4, <1>8 DEF OneLive
  <1>11. SpeakerHasLive'
    <2> SUFFICES ASSUME NEW q \in Speaker, NEW b \in ActionId,
                        proc'[q].pc \in Thread, proc'[q].run = RunOf[b],
                        actions'[b].status \in Active
                 PROVE  \/ /\ actions'[b].status = "PENDING"
                           /\ proc'[q].pc = "show" /\ proc'[q].asked = b
                        \/ /\ actions'[b].status = "EXECUTING" /\ q \in Executor
                           /\ proc'[q].pc \in Early /\ proc'[q].act = b
      BY DEF SpeakerHasLive
    <2>1. CASE q = p
      <3>1. b = a
        BY <1>2, <1>4, <1>8, <2>1
      <3> QED
        BY <1>2, <1>5, <2>1, <3>1
    <2>2. CASE q # p
      <3>1. proc'[q] = proc[q] /\ b # a
        BY <1>3, <1>6, <2>2, Places
      <3> QED
        BY <1>1, <1>4, <3>1 DEF SpeakerHasLive
    <2> QED
      BY <2>1, <2>2
  <1>12. ExecutorInPlace'
    <2> SUFFICES ASSUME NEW b \in ActionId, actions'[b].status = "EXECUTING"
                 PROVE  /\ actions'[b].worker \in Executor
                        /\ proc'[actions'[b].worker].act = b
                        /\ proc'[actions'[b].worker].pc \in Early \cup Gone
      BY DEF ExecutorInPlace
    <2>1. CASE b = a
      BY <1>2, <1>5, <2>1
    <2>2. CASE b # a
      <3>1. /\ actions[b].worker \in Executor /\ proc[actions[b].worker].act = b
            /\ proc[actions[b].worker].pc \in Early \cup Gone
        BY <1>1, <1>4, <2>2 DEF ExecutorInPlace
      <3> QED
        BY <1>3, <1>4, <1>5, <2>2, <3>1, Places
    <2> QED
      BY <2>1, <2>2
  <1>13. Owns'
    <2> SUFFICES ASSUME NEW q \in Executor, proc'[q].pc \in Working
                 PROVE  actions'[proc'[q].act].worker = q /\ RunOf[proc'[q].act] = proc'[q].run
      BY DEF Owns
    <2>1. CASE q = p
      BY <1>2, <2>1
    <2>2. CASE q # p
      <3>1. proc'[q] = proc[q]
        BY <1>3, <2>2, Places
      <3>2. proc[q].act \in ActionId /\ actions[proc[q].act].worker = q
        BY <1>1, <3>1, AtHand, Places DEF RInv, Owns
      <3>3. actions[a].worker = NoWorker
        BY <1>2 DEF RInv, IInv, LeaseWithinHorizon, Unclaimed
      <3>4. proc[q].act # a
        BY <3>2, <3>3, Places
      <3> QED
        BY <1>1, <1>4, <3>1, <3>2, <3>4 DEF Owns
    <2> QED
      BY <2>1, <2>2
  <1>14. ShowsOwn'
    <2> SUFFICES ASSUME NEW q \in Speaker, proc'[q].pc = "show"
                 PROVE  /\ proc'[q].asked \in ActionId
                        /\ actions'[proc'[q].asked].status = "PENDING"
                        /\ RunOf[proc'[q].asked] = proc'[q].run
                        /\ pendingAuth'[proc'[q].run] = NoAction
                        /\ ~(proc'[Api].pc \in Answering /\ proc'[Api].run = proc'[q].run)
      BY DEF ShowsOwn, Answered
    <2>1. proc'[q] = proc[q]
      BY <1>3, <1>5, Places
    <2> QED
      BY <1>1, <1>2, <1>4, <1>7, <2>1 DEF ShowsOwn, Answered
  <1>15. ShownOnly'
    <2> SUFFICES ASSUME NEW s \in RunId, pendingAuth'[s] # NoAction
                 PROVE  /\ actions'[pendingAuth'[s]].status = "PENDING"
                        /\ RunOf[pendingAuth'[s]] = s
                        /\ ~(proc'[Api].pc \in Answering /\ proc'[Api].run = s)
      BY DEF ShownOnly, Answered
    <2> QED
      BY <1>1, <1>2, <1>4, <1>7, ShownTyped DEF ShownOnly, Answered
  <1>16. AnswerIsForOne'
    <2> SUFFICES ASSUME proc[Api].pc \in Answering PROVE AnswerIsForOne'
      BY <1>7 DEF AnswerIsForOne
    <2>1. PICK b \in ActionId : /\ RunOf[b] = proc[Api].run /\ actions[b].status = "PENDING"
                                /\ proc[Api].pc = "approve" => consented[b]
      BY <1>1 DEF AnswerIsForOne
    <2>2. actions'[b].status = "PENDING"
      BY <1>2, <1>4, <2>1
    <2> QED
      BY <1>2, <1>7, <2>1, <2>2 DEF AnswerIsForOne
  <1>17. HandsFit'
    <2> SUFFICES ASSUME NEW c \in Continuation PROVE HandFits(c)'
      BY DEF HandsFit
    <2>1. CASE c = p
      BY <1>2, <2>1 DEF HandFits, Resolving, Answering
    <2>2. CASE c # p
      BY <1>1, <1>2, <2>2, Places DEF HandsFit, HandFits, Others
    <2> QED
      BY <2>1, <2>2
  <1>18. OnlyConsented'
    BY <1>1, <1>2, <1>4 DEF OnlyConsented, Decided
  <1>19. DriverFirst'
    <2> SUFFICES ASSUME NEW s \in Driver
                 PROVE  /\ proc'[s].run = s /\ proc'[s].pc \in DriverLabel
                        /\ proc'[s].pc \in Thread => \A b \in ActionId : RunOf[b] = s =>
                              \/ actions'[b].status = "ABSENT"
                              \/ proc'[s].pc = "show" /\ b = proc'[s].asked
      BY DEF DriverFirst
    <2>1. proc'[s] = proc[s] /\ proc[s].run = s
      BY <1>1, <1>3, <1>7, Places DEF DriverFirst
    <2> QED
      BY <1>1, <1>4, <1>6, <2>1, Places DEF DriverFirst
  <1>20. ApiAfterDriver'
    <2>1. proc[Api].pc \in Resolving => proc[Api].run \in Driver
      BY AtHand, Places DEF RInv, Resolving, Answering, NeedsRun
    <2> QED
      BY <1>1, <1>3, <1>7, <2>1, Places DEF ApiAfterDriver
  <1> QED
    BY <1>9, <1>10, <1>11, <1>12, <1>13, <1>14, <1>15, <1>16, <1>17, <1>18, <1>19, <1>20
       DEF TInv

--------------------------------------------------------------------------
(* How a process moves, field by field.                                    *)

MovedOn(p, l) ==
    /\ \A q \in Process \ {p} : proc'[q] = proc[q]
    /\ proc'[p].pc = l /\ proc'[p].run = proc[p].run /\ proc'[p].verdict = proc[p].verdict
    /\ l # "poll" => proc'[p].act = proc[p].act

LEMMA GotoMoved ==
    ASSUME Procs, NEW p \in Process, NEW l, Goto(p, l)
    PROVE  /\ MovedOn(p, l)
           /\ proc'[p].step = proc[p].step /\ proc'[p].goal = proc[p].goal
  BY DEF Procs, Goto, MovedOn, ProcessState

LEMMA TransitMoved ==
    ASSUME Procs, NEW p \in Process, NEW l, NEW goal, Transit(p, l, goal)
    PROVE  MovedOn(p, l) /\ proc'[p].step = "check" /\ proc'[p].goal = goal
  <1>1. /\ proc' = [proc EXCEPT ![p] = [proc[p] EXCEPT !.pc = l, !.step = "check", !.goal = goal]]
        /\ proc[p] \in ProcessState
    BY DEF Procs, Transit
  <1> QED
    BY <1>1 DEF MovedOn, ProcessState, Procs

LEMMA ResumeMoved ==
    ASSUME Procs, NEW p \in Process, NEW result, Resume(p, result)
    PROVE  /\ MovedOn(p, After(p, result))
           /\ proc'[p].step = StepAt(After(p, result))
           /\ proc'[p].goal = GoalAt(After(p, result))
  <1> DEFINE l == After(p, result)
             left == IF l = "poll" THEN NoAction ELSE proc[p].act
             turns == IF l = "loop" THEN proc[p].turn ELSE 0
             s == [proc[p] EXCEPT !.pc = l, !.step = StepAt(l), !.goal = GoalAt(l),
                                  !.want = "none", !.act = left, !.asked = NoAction,
                                  !.turn = turns]
  <1>1. proc' = [proc EXCEPT ![p] = s] /\ proc[p] \in ProcessState
    BY DEF Procs, Resume
  <1> HIDE DEF l
  <1>2. /\ s.pc = l /\ s.step = StepAt(l) /\ s.goal = GoalAt(l) /\ s.run = proc[p].run
        /\ s.verdict = proc[p].verdict /\ (l # "poll" => s.act = proc[p].act)
    BY <1>1 DEF ProcessState
  <1> HIDE DEF s
  <1> QED
    BY <1>1, <1>2 DEF MovedOn, Procs, l

LEMMA PhaseMoved ==
    ASSUME Procs, NEW p \in Process, NEW s, proc' = [proc EXCEPT ![p].step = s]
    PROVE  /\ MovedOn(p, proc[p].pc)
           /\ proc'[p].step = s /\ proc'[p].goal = proc[p].goal
           /\ proc'[p].asked = proc[p].asked
  BY DEF Procs, MovedOn, ProcessState

\* Where a lifecycle call at each label returns to.
LEMMA Returns ==
    ASSUME NEW p \in Process, NEW result \in {"no", "ok", "illegal"},
           proc[p].pc \in Calling, result = "no" => proc[p].pc \in Flagging
    PROVE  LET l == proc[p].pc
               m == After(p, result)
           IN  /\ l = "claimed" => m \in {"execute", "drop", "dying"}
               /\ l = "open" => m \in {"claim", "end"}
               /\ l = "execute" => m \in {"running", "settle", "drop", "end"}
               /\ l = "loop" => m \in {"request", "loop", "poll", "drop", "end"}
               /\ l = "park" => m \in {"poll", "end"}
               /\ l = "toValidate" => m \in {"toPlan", "end"}
               /\ l = "toPlan" => m \in {"toExecute", "end"}
               /\ l = "toExecute" => m \in {"loop", "end"}
               /\ l = "finish" => m = "end"
               /\ l = "decide" => m = "idle"
               /\ (m \in {"poll", "drop"} /\ l # "claimed") => p \in Dispatcher
  <1>1. /\ Rest(p) \in {"poll", "end"} /\ (Rest(p) = "poll" => p \in Dispatcher)
        /\ Abort(p) \in {"drop", "end"} /\ (Abort(p) = "drop" => p \in Dispatcher)
    BY DEF Rest, Abort
  <1> DEFINE l == proc[p].pc
             m == After(p, result)
  <1>2. /\ l = "claimed" => m \in {"execute", "drop", "dying"}
        /\ l = "open" => m \in {"claim", "end"}
        /\ l = "execute" => m \in {"running", "settle", Abort(p)}
    BY DEF After
  <1>3. l = "loop" => m \in {"request", "loop", Rest(p), Abort(p)}
    BY DEF After
  <1>4. /\ l = "park" => m = Rest(p)
        /\ l = "toValidate" /\ result # "no" => m \in {"toPlan", "end"}
        /\ l = "toPlan" /\ result # "no" => m \in {"toExecute", "end"}
        /\ l = "toExecute" /\ result # "no" => m \in {"loop", "end"}
    BY DEF After
  <1>5. /\ l = "finish" => m = "end"
        /\ l = "decide" => m = "idle"
    BY DEF After
  <1>6. /\ l \in {"toValidate", "toPlan", "toExecute"} => result # "no"
        /\ l \in {"claimed", "open", "execute", "loop", "park", "toValidate", "toPlan",
                  "toExecute", "finish", "decide"}
    BY DEF Flagging, Calling
  <1> HIDE DEF l, m
  <1> QED
    BY <1>1, <1>2, <1>3, <1>4, <1>5, <1>6 DEF l, m

LEMMA QuietMove ==
    ASSUME RInv, TInv, NEW p \in Process, NEW l, MovedOn(p, l), RowsSettle,
           UNCHANGED <<pendingAuth, consented>>,
           l \in Thread => proc[p].pc \in Thread,
           l # "show", proc[p].pc = "show" => l \notin Thread,
           (p \in Executor /\ l \in Working) => proc[p].pc \in Working,
           (/\ p \in Executor /\ proc[p].pc \in Early \cup Gone
            /\ actions'[proc[p].act].status = "EXECUTING") => l \in Early \cup Gone,
           p \in Driver => l \in DriverLabel,
           (p \in Driver /\ proc[p].pc \in {"park", "end"}) => l \in {"park", "end"},
           p = Api => l \notin Answering /\ (l \in Resolving => proc[p].pc \in Resolving),
           \A c \in Continuation \ {p} : hand'[c] = hand[c],
           p \in Continuation => HandFits(p)'
    PROVE  QuietStep
  <1>1. "poll" \notin Early \cup Gone \cup Working
    BY DEF Early, Gone, Working
  <1>2. Quiet(p)
    BY <1>1 DEF Quiet, MovedOn
  <1>3. ASSUME NEW q \in Process, q # p PROVE Quiet(q)
    <2>1. proc'[q] = proc[q]
      BY <1>3 DEF MovedOn
    <2>2. q \in Driver => proc[q].run = q /\ proc[q].pc \in DriverLabel
      BY DEF TInv, DriverFirst
    <2>3. q \in Continuation => HandFits(q)'
      BY <1>3, <2>1 DEF TInv, HandsFit, HandFits
    <2> QED
      BY <2>1, <2>2, <2>3 DEF Quiet
  <1> QED
    BY <1>2, <1>3 DEF QuietStep

LEMMA QuietStill ==
    ASSUME TInv, UNCHANGED proc, RowsSettle, UNCHANGED <<pendingAuth, consented>>,
           \A c \in Continuation : HandFits(c)'
    PROVE  QuietStep
  <1>1. ASSUME NEW q \in Process PROVE Quiet(q)
    <2>1. q \in Driver => proc[q].run = q /\ proc[q].pc \in DriverLabel
      BY DEF TInv, DriverFirst
    <2> QED
      BY <2>1 DEF Quiet
  <1> QED
    BY <1>1 DEF QuietStep

--------------------------------------------------------------------------
(* Every step of the system is quiet or hands a thread over.               *)

ThreadStep ==
    \/ QuietStep
    \/ \E p \in Speaker, a \in ActionId : Asks(p, a)
    \/ \E p \in Speaker : Shows(p)
    \/ \E r \in RunId : Hears(r)
    \/ \E verdict \in {"APPROVED", "REJECTED"} : Decides(verdict)
    \/ \E p \in Executor, a \in ActionId : TakesUp(p, a)

LEMMA RowsStay ==
    ASSUME UNCHANGED actions
    PROVE  RowsSettle /\ \A S : RowsKept(S)
  BY DEF RowsSettle, RowsKept

\* Goto and its like, for a process of any kind.
\* A lifecycle call moves its process to where it returns, or on inside it.
LEMMA LifecycleMoved ==
    ASSUME RInv, NEW p \in Process, LifecycleCall(p)
    PROVE  /\ proc[p].pc \in Calling
           /\ UNCHANGED <<actions, hand, pendingAuth, ran, outcome, consented>>
           /\ \E l : /\ MovedOn(p, l)
                    /\ \/ l = proc[p].pc
                       \/ \E result \in {"no", "ok", "illegal"} :
                             /\ l = After(p, result)
                             /\ result = "no" => proc[p].pc \in Flagging
  <1>1. Procs /\ LocalOK(p, proc[p])
    BY AtHand DEF RInv
  <1>2. /\ proc[p].pc \in Calling
        /\ proc[p].step = "flag" => proc[p].pc \in Flagging
        /\ UNCHANGED <<actions, hand, pendingAuth, ran, outcome, consented>>
    <2>1. proc[p].step \in {"flag", "check", "write", "release"}
      BY DEF LifecycleCall, ReadCancelFlag, CheckTransition, WriteTransition, ReleaseLock,
             BuildFails, InStep
    <2>2. UNCHANGED <<ledgerVars, pendingAuth, history>>
      BY DEF LifecycleCall, ReadCancelFlag, CheckTransition, WriteTransition, ReleaseLock,
             BuildFails, UpdateRun, ReleaseSessionLock, runVars
    <2> QED
      BY <1>1, <2>1, <2>2 DEF LocalOK, Calling, ledgerVars, history
  <1>3. ASSUME NEW result \in {"no", "ok", "illegal"}, Resume(p, result),
               result = "no" => proc[p].pc \in Flagging
        PROVE  \E l : /\ MovedOn(p, l)
                      /\ \/ l = proc[p].pc
                         \/ \E res \in {"no", "ok", "illegal"} :
                               l = After(p, res) /\ (res = "no" => proc[p].pc \in Flagging)
    BY <1>1, <1>3, ResumeMoved
  <1>4. CASE ReadCancelFlag(p)
    <2>1. Transit(p, proc[p].pc, "CANCELLED") \/ Resume(p, "no")
      BY <1>4 DEF ReadCancelFlag
    <2>2. proc[p].pc \in Flagging
      BY <1>2, <1>4 DEF ReadCancelFlag, InStep
    <2> QED
      BY <1>1, <1>2, <1>3, <2>1, <2>2, TransitMoved
  <1>5. CASE CheckTransition(p) \/ WriteTransition(p) \/ ReleaseLock(p) \/ BuildFails(p)
    <2>1. \/ proc' = [proc EXCEPT ![p].step = "write"]
          \/ proc' = [proc EXCEPT ![p].step = "release"]
          \/ Resume(p, "illegal") \/ Resume(p, "ok")
      BY <1>5 DEF CheckTransition, WriteTransition, ReleaseLock, BuildFails
    <2> QED
      BY <1>1, <1>2, <1>3, <2>1, PhaseMoved
  <1> QED
    BY <1>4, <1>5 DEF LifecycleCall

LEMMA LifecycleQuiet ==
    ASSUME RInv, TInv, NEW p \in Process, LifecycleCall(p)
    PROVE  QuietStep
  <1>1. Procs /\ LocalOK(p, proc[p])
    BY AtHand DEF RInv
  <1>2. /\ proc[p].pc \in Calling
        /\ UNCHANGED <<actions, hand, pendingAuth, consented>>
    BY LifecycleMoved
  <1>3. PICK l : /\ MovedOn(p, l)
                 /\ \/ l = proc[p].pc
                    \/ \E result \in {"no", "ok", "illegal"} :
                          /\ l = After(p, result)
                          /\ result = "no" => proc[p].pc \in Flagging
    BY LifecycleMoved
  <1>4. CASE l = proc[p].pc
    <2>1. p \in Driver => l \in DriverLabel
      BY <1>4 DEF TInv, DriverFirst
    <2>2. /\ l # "show" /\ (p = Api => l \notin Answering) /\ l # "claim" /\ l # "idle"
      BY <1>2, <1>4 DEF Calling, Flagging, Answering
    <2>3. p \in Continuation => HandFits(p)'
      BY <1>2, <1>3, <1>4, <2>2 DEF TInv, HandsFit, HandFits, MovedOn
    <2> QED
      BY <1>2, <1>3, <1>4, <2>1, <2>2, <2>3, RowsStay, QuietMove
  <1>5. ASSUME NEW result \in {"no", "ok", "illegal"}, l = After(p, result),
               result = "no" => proc[p].pc \in Flagging
        PROVE  QuietStep
    <2> DEFINE from == proc[p].pc
    <2>1. /\ from = "claimed" => l \in {"execute", "drop", "dying"}
          /\ from = "open" => l \in {"claim", "end"}
          /\ from = "execute" => l \in {"running", "settle", "drop", "end"}
          /\ from = "loop" => l \in {"request", "loop", "poll", "drop", "end"}
          /\ from = "park" => l \in {"poll", "end"}
          /\ from = "toValidate" => l \in {"toPlan", "end"}
          /\ from = "toPlan" => l \in {"toExecute", "end"}
          /\ from = "toExecute" => l \in {"loop", "end"}
          /\ from = "finish" => l = "end"
          /\ from = "decide" => l = "idle"
          /\ (l \in {"poll", "drop"} /\ from # "claimed") => p \in Dispatcher
      BY <1>2, <1>5, Returns
    <2>2. from \in {"claimed", "open", "execute", "loop", "park", "toValidate", "toPlan",
                    "toExecute", "finish", "decide"}
      BY <1>2 DEF Calling, Flagging
    <2>3. p \in Driver => from \in DriverLabel /\ p \notin Dispatcher
      BY Places DEF TInv, DriverFirst
    <2>4. p \in Continuation =>
             /\ from # "decide"
             /\ from = "open" => hand[p].rows = {}
      BY DEF TInv, HandsFit, HandFits, Resolving
    <2> HIDE DEF from
    <2>5. p \in Continuation => HandFits(p)'
      BY <1>2, <1>3, <2>1, <2>2, <2>4 DEF HandFits, MovedOn, Resolving, Answering
    <2>6. /\ l \in Thread => from \in Thread
          /\ l # "show" /\ from # "show"
          /\ l \in Working => (from \in Working \/ (from = "toExecute" /\ l = "loop"))
          /\ from \in Early => l \in Early \cup Gone
          /\ from \notin Gone /\ l \notin Resolving
      BY <2>1, <2>2 DEF Thread, Starting, Working, Early, Gone, Resolving, Answering
    <2>7. /\ p \in Driver => l \in DriverLabel
          /\ (p \in Driver /\ from \in {"park", "end"}) => l \in {"park", "end"}
      BY <2>1, <2>2, <2>3 DEF DriverLabel, Starting
    <2>8. p \in Executor => from # "toExecute"
      BY <1>1, Places DEF LocalOK, Starting, from
    <2> QED
      BY <1>2, <1>3, <2>5, <2>6, <2>7, <2>8, RowsStay, QuietMove DEF from, Resolving
  <1> QED
    BY <1>3, <1>4, <1>5

LEMMA DriverStartQuiet ==
    ASSUME RInv, TInv, NEW r \in Driver, DriverStart(r)
    PROVE  QuietStep
  <1>1. /\ Procs /\ r \in Process /\ r \notin Executor /\ r # Api /\ r \notin Continuation
        /\ UNCHANGED <<actions, hand, pendingAuth, consented>>
    BY Places DEF RInv, DriverStart, RegisterRun, LockWorkspace, WorkspaceBusy, RefuseRun,
                  CreateRun, AcquireSessionLock, UpdateRun, runVars, ledgerVars, history
  <1>2. /\ proc[r].pc \in {"new", "lock", "refused"}
        /\ \/ proc[r].pc = "new" /\ Goto(r, "lock")
           \/ proc[r].pc = "lock" /\ Transit(r, "toValidate", "VALIDATE")
           \/ proc[r].pc = "lock" /\ Goto(r, "refused")
           \/ proc[r].pc = "refused" /\ Goto(r, "end")
    BY DEF DriverStart, RegisterRun, LockWorkspace, WorkspaceBusy, RefuseRun, At
  <1>3. PICK l \in {"lock", "toValidate", "refused", "end"} : MovedOn(r, l)
    BY <1>1, <1>2, GotoMoved, TransitMoved
  <1>4. /\ l # "show" /\ proc[r].pc # "show" /\ proc[r].pc \in Thread
        /\ proc[r].pc \notin {"park", "end"} /\ l \in DriverLabel
    BY <1>2, <1>3 DEF Thread, Starting, DriverLabel
  <1> QED
    BY <1>1, <1>3, <1>4, RowsStay, QuietMove

LEMMA ReActThread ==
    ASSUME RInv, TInv, NEW p \in Speaker, ReActStep(p)
    PROVE  ThreadStep
  <1>1. /\ Procs /\ p \in Process /\ p # Api /\ proc[p] \in ProcessState
        /\ proc \in [Process -> ProcessState]
    BY AtHand, Places DEF RInv, Procs
  <1>2. p \in Driver => proc[p].pc \in DriverLabel
    BY DEF TInv, DriverFirst
  <1>3. CASE ModelAnswers(p) \/ ModelCallsTool(p)
    <2>1. proc[p].pc = "loop" /\ UNCHANGED <<actions, hand, pendingAuth, consented>>
      BY <1>3 DEF ModelAnswers, ModelCallsTool, At, ledgerVars, runVars, history
    <2>2. \E l \in {"finish", "poll", "end", "loop"} :
             MovedOn(p, l) /\ (p \in Driver => l # "poll") /\ (p \notin Driver => l # "finish")
      <3>1. CASE ModelAnswers(p) /\ p \in Driver
        <4>1. \E s : Transit(p, "finish", s)
          BY <3>1 DEF ModelAnswers
        <4> QED
          BY <1>1, <3>1, <4>1, TransitMoved
      <3>2. CASE ModelAnswers(p) /\ p \notin Driver
        <4> DEFINE left == IF Rest(p) = "poll" THEN NoAction ELSE proc[p].act
        <4>1. Rest(p) \in {"poll", "end"}
          BY DEF Rest
        <4>2. proc' = [proc EXCEPT ![p] = [proc[p] EXCEPT !.pc = Rest(p), !.turn = 0, !.act = left]]
          BY <1>1, <3>2 DEF ModelAnswers
        <4>3. Rest(p) # "poll" => left = proc[p].act
          OBVIOUS
        <4> HIDE DEF left
        <4>4. MovedOn(p, Rest(p))
          BY <1>1, <4>2, <4>3 DEF MovedOn, ProcessState
        <4> QED
          BY <3>2, <4>1, <4>4
      <3>3. CASE ModelCallsTool(p)
        <4>1. PICK want : proc' = [proc EXCEPT ![p].step = "flag", ![p].want = want,
                                               ![p].turn = @ + 1]
          BY <3>3 DEF ModelCallsTool
        <4>2. proc' = [proc EXCEPT ![p] = [proc[p] EXCEPT !.step = "flag", !.want = want,
                                                          !.turn = proc[p].turn + 1]]
          BY <1>1, <4>1
        <4>3. MovedOn(p, "loop")
          BY <1>1, <2>1, <4>2 DEF MovedOn, ProcessState
        <4> QED
          BY <2>1, <4>3, <3>3
      <3> QED
        BY <1>3, <3>1, <3>2, <3>3
    <2>3. PICK l \in {"finish", "poll", "end", "loop"} :
             MovedOn(p, l) /\ (p \in Driver => l # "poll") /\ (p \notin Driver => l # "finish")
      BY <2>2
    <2>4. /\ proc[p].pc \in Thread /\ proc[p].pc \in Working /\ proc[p].pc \notin Early \cup Gone
          /\ l # "show" /\ proc[p].pc # "show" /\ proc[p].pc \notin {"park", "end"}
          /\ p \in Driver => l \in DriverLabel
      BY <2>1, <2>3 DEF Thread, Working, Early, Gone, DriverLabel, Starting
    <2>5. p \in Continuation => HandFits(p)'
      BY <2>3 DEF HandFits, MovedOn, Resolving, Answering
    <2>6. QuietStep
      BY <1>1, <2>1, <2>3, <2>4, <2>5, RowsStay, QuietMove
    <2> QED
      BY <2>6 DEF ThreadStep
  <1>4. CASE RequestAction(p)
    <2>1. PICK a \in ActionId :
             /\ RunOf[a] = proc[p].run /\ CreatePendingAction(a)
             /\ proc' = [proc EXCEPT ![p].pc = "show", ![p].asked = a]
      BY <1>4 DEF RequestAction
    <2>2. proc[p].pc = "request" /\ UNCHANGED <<hand, pendingAuth, consented>>
      BY <1>4, <2>1 DEF RequestAction, At, runVars, history, CreatePendingAction
    <2>3. /\ actions \in [ActionId -> ActionRow] /\ actions[a].status = "ABSENT"
          /\ actions' = [actions EXCEPT ![a] =
                           [actions[a] EXCEPT !.status = "PENDING", !.createdAt = now]]
      BY <2>1 DEF CreatePendingAction, RInv, IInv, LedgerTypeOK
    <2>4. /\ actions'[a].status = "PENDING" /\ actions'[a].worker = actions[a].worker
          /\ RowsKept({a})
      BY <2>3 DEF ActionRow, RowsKept
    <2>5. proc' = [proc EXCEPT ![p] = [proc[p] EXCEPT !.pc = "show", !.asked = a]]
      BY <1>1, <2>1
    <2>6. /\ proc'[p].pc = "show" /\ proc'[p].asked = a /\ proc'[p].run = proc[p].run
          /\ proc'[p].act = proc[p].act /\ \A q \in Process \ {p} : proc'[q] = proc[q]
      BY <1>1, <2>5 DEF ProcessState
    <2>7. Asks(p, a)
      BY <2>1, <2>2, <2>3, <2>4, <2>6 DEF Asks, Others
    <2> QED
      BY <2>7 DEF ThreadStep
  <1>5. CASE ShowRequest(p)
    <2>1. /\ proc[p].pc = "show" /\ UNCHANGED <<actions, hand, consented>>
          /\ pendingAuth' = [pendingAuth EXCEPT ![proc[p].run] = proc[p].asked]
          /\ Transit(p, "park", "AUTHORIZATION_REQUIRED")
      BY <1>5 DEF ShowRequest, At, ledgerVars, history, SetPendingAuthorization
    <2>2. MovedOn(p, "park")
      BY <1>1, <2>1, TransitMoved
    <2>3. Shows(p)
      BY <2>1, <2>2, RowsStay DEF Shows, Others, MovedOn
    <2> QED
      BY <2>3 DEF ThreadStep
  <1> QED
    BY <1>3, <1>4, <1>5 DEF ReActStep

\* What FinishPendingAction and RecoverStale write.
LEMMA FinishWrites ==
    ASSUME LedgerTypeOK, NEW a \in ActionId, NEW s \in BOOLEAN, FinishOrNot(a, s)
    PROVE  /\ RowsSettle /\ hand' = hand
           /\ actions'[a].status # "EXECUTING"
           /\ RowsKept({a})
           /\ \/ UNCHANGED actions
              \/ /\ actions[a].status = "EXECUTING" /\ actions'[a].status = Verdict(s)
                 /\ actions'[a].recovered = actions[a].recovered
           /\ \A b \in ActionId \ {a} : actions'[b] = actions[b]
  <1>1. CASE UNCHANGED ledgerVars /\ actions[a].status # "EXECUTING"
    BY <1>1, RowsStay DEF ledgerVars
  <1>2. CASE FinishPendingAction(a, s)
    <2>1. /\ actions \in [ActionId -> ActionRow] /\ actions[a].status = "EXECUTING"
          /\ actions' = [actions EXCEPT ![a] = [actions[a] EXCEPT !.status = Verdict(s)]]
          /\ hand' = hand
      BY <1>2 DEF FinishPendingAction, LedgerTypeOK
    <2>2. Verdict(s) \in Settled /\ Verdict(s) # "EXECUTING"
      BY DEF Verdict, Settled
    <2>3. /\ actions'[a].status = Verdict(s) /\ actions'[a].worker = actions[a].worker
          /\ actions'[a].recovered = actions[a].recovered
          /\ \A b \in ActionId \ {a} : actions'[b] = actions[b]
      BY <2>1 DEF ActionRow
    <2> QED
      BY <2>1, <2>2, <2>3 DEF RowsSettle, RowsKept
  <1> QED
    BY <1>1, <1>2 DEF FinishOrNot

LEMMA ExecuteQuiet ==
    ASSUME RInv, TInv, NEW p \in Executor, ExecuteStep(p)
    PROVE  QuietStep
  <1>1. /\ Procs /\ p \in Process /\ p # Api /\ p \notin Driver /\ proc[p] \in ProcessState
        /\ LedgerTypeOK /\ proc \in [Process -> ProcessState]
    BY AtHand, Places DEF RInv, Procs, IInv
  <1>2. /\ UNCHANGED <<pendingAuth, consented>>
        /\ proc[p].pc \in {"running", "inTool", "settle"}
    BY DEF ExecuteStep, StartTool, BlockTool, RenewLease, EndTool, SettleAction, At,
           runVars, history
  <1>3. proc[p].pc \in Working /\ proc[p].pc \in Thread /\ proc[p].pc # "show"
    BY <1>2 DEF Working, Thread
  <1>4. proc[p].act \in ActionId
    BY <1>1, <1>3, AtHand
  <1>5. ASSUME NEW l \in {"inTool", "settle"}, proc[p].pc \in {"running", "inTool"},
               \A q \in Process \ {p} : proc'[q] = proc[q],
               proc'[p].pc = l, proc'[p].run = proc[p].run, proc'[p].act = proc[p].act,
               UNCHANGED <<actions, hand>>
        PROVE  QuietStep
    <2>1. /\ l \in Early /\ l \in Thread /\ l \in Working /\ l # "show"
          /\ l \notin {"idle", "open", "claim"} \cup Resolving
      BY <1>5 DEF Early, Thread, Working, Resolving, Answering
    <2>2. p \in Continuation => HandFits(p)'
      BY <1>5, <2>1 DEF HandFits
    <2>3. Quiet(p)
      BY <1>1, <1>3, <1>5, <2>1, <2>2 DEF Quiet
    <2>4. ASSUME NEW q \in Process, q # p PROVE Quiet(q)
      <3>1. proc'[q] = proc[q]
        BY <1>5, <2>4
      <3>2. q \in Driver => proc[q].run = q /\ proc[q].pc \in DriverLabel
        BY DEF TInv, DriverFirst
      <3>3. q \in Continuation => HandFits(q)'
        BY <1>5, <3>1 DEF TInv, HandsFit, HandFits
      <3> QED
        BY <3>1, <3>2, <3>3 DEF Quiet
    <2> QED
      BY <1>2, <1>5, <2>3, <2>4, RowsStay DEF QuietStep
  <1>6. CASE StartTool(p) \/ BlockTool(p)
    <2>1. /\ proc[p].pc = "running" /\ UNCHANGED <<actions, hand>>
          /\ Goto(p, "inTool") \/ Goto(p, "settle")
      BY <1>6 DEF StartTool, BlockTool, At, ledgerVars
    <2> QED
      BY <1>1, <1>5, <2>1, GotoMoved DEF MovedOn
  <1>7. CASE RenewLease(p)
    <2>1. /\ actions \in [ActionId -> ActionRow] /\ UNCHANGED <<proc, hand>>
          /\ actions' = [actions EXCEPT ![proc[p].act] =
                           [actions[proc[p].act] EXCEPT !.lease = now + LeaseSeconds]]
      BY <1>1, <1>7 DEF RenewLease, RenewActionLease, LedgerTypeOK
    <2>2. RowsSettle
      BY <1>4, <2>1 DEF RowsSettle, ActionRow
    <2>3. \A c \in Continuation : HandFits(c)'
      BY <2>1 DEF TInv, HandsFit, HandFits
    <2> QED
      BY <1>2, <2>1, <2>2, <2>3, QuietStill
  <1>8. CASE EndTool(p)
    <2>1. /\ UNCHANGED <<actions, hand>> /\ proc[p].pc = "inTool"
          /\ \E v : proc' = [proc EXCEPT ![p] = [proc[p] EXCEPT !.pc = "settle", !.verdict = v]]
      BY <1>1, <1>8 DEF EndTool, At, ledgerVars
    <2>2. /\ proc'[p].pc = "settle" /\ proc'[p].run = proc[p].run /\ proc'[p].act = proc[p].act
          /\ \A q \in Process \ {p} : proc'[q] = proc[q]
      BY <1>1, <2>1 DEF ProcessState
    <2> QED
      BY <1>5, <2>1, <2>2
  <1>9. CASE SettleAction(p)
    <2>1. /\ FinishOrNot(proc[p].act, proc[p].verdict) /\ proc[p].pc = "settle"
          /\ proc' = [proc EXCEPT ![p] = [proc[p] EXCEPT !.pc = "loop", !.verdict = FALSE]]
      BY <1>1, <1>9 DEF SettleAction, At
    <2>2. proc[p].verdict \in BOOLEAN
      BY <1>1 DEF ProcessState
    <2>3. RowsSettle /\ hand' = hand /\ actions'[proc[p].act].status # "EXECUTING"
      BY <1>1, <1>4, <2>1, <2>2, FinishWrites
    <2>4. /\ proc'[p].pc = "loop" /\ proc'[p].run = proc[p].run /\ proc'[p].act = proc[p].act
          /\ \A q \in Process \ {p} : proc'[q] = proc[q]
      BY <1>1, <2>1 DEF ProcessState
    <2>5. p \in Continuation => HandFits(p)'
      BY <2>4 DEF HandFits, Resolving, Answering
    <2>6. Quiet(p)
      BY <1>1, <1>3, <2>3, <2>4, <2>5 DEF Quiet
    <2>7. ASSUME NEW q \in Process, q # p PROVE Quiet(q)
      <3>1. proc'[q] = proc[q]
        BY <2>4, <2>7
      <3>2. q \in Driver => proc[q].run = q /\ proc[q].pc \in DriverLabel
        BY DEF TInv, DriverFirst
      <3>3. q \in Continuation => HandFits(q)'
        BY <2>3, <3>1 DEF TInv, HandsFit, HandFits
      <3> QED
        BY <3>1, <3>2, <3>3 DEF Quiet
    <2> QED
      BY <1>2, <2>3, <2>6, <2>7 DEF QuietStep
  <1> QED
    BY <1>6, <1>7, <1>8, <1>9 DEF ExecuteStep

\* Whose call it is, and only theirs, changes in the hands.
LEMMA HandsOfOthers ==
    ASSUME LedgerTypeOK, NEW p \in Caller, NEW h, hand' = [hand EXCEPT ![p] = h]
    PROVE  \A c \in Continuation \ {p} : hand'[c] = hand[c]
  BY DEF LedgerTypeOK, Caller, WorkerId

LEMMA SweepQuiet ==
    ASSUME RInv, TInv, NEW p \in Sweeper, SweepStep(p)
    PROVE  QuietStep
  <1>1. /\ Procs /\ LedgerTypeOK /\ p \in Process /\ p \in Caller
        /\ p \notin Driver /\ p \notin Continuation
    BY Places DEF RInv, IInv, Sweeper, WorkerId, Caller
  <1>2. proc[p].pc \in {"bootSweep", "sweep"} /\ UNCHANGED <<pendingAuth, consented>>
    BY DEF SweepStep, At, runVars, history
  <1>3. RowsSettle /\ \A c \in Continuation : hand'[c] = hand[c]
    <2>1. CASE SelectStale(p)
      <3>1. UNCHANGED actions /\ \E h : hand' = [hand EXCEPT ![p] = h]
        BY <2>1 DEF SelectStale, Take
      <3> QED
        BY <1>1, <3>1, RowsStay, HandsOfOthers
    <2>2. CASE RecoverStale(p)
      <3>1. hand' = [hand EXCEPT ![p] = Empty]
        BY <2>2 DEF RecoverStale, PutDown
      <3>2. ASSUME NEW a \in ActionId
            PROVE  /\ actions'[a].worker = actions[a].worker
                   /\ \/ actions'[a].status = actions[a].status
                      \/ actions[a].status = "EXECUTING" /\ actions'[a].status \in Settled
        <4>1. \/ actions'[a] = actions[a]
              \/ /\ actions[a].status = "EXECUTING"
                 /\ actions'[a] = [actions[a] EXCEPT !.status = "FAILED", !.recovered = TRUE]
          BY <2>2 DEF RecoverStale
        <4>2. actions[a] \in ActionRow
          BY <1>1 DEF LedgerTypeOK
        <4> QED
          BY <4>1, <4>2 DEF ActionRow, Settled
      <3> QED
        BY <1>1, <3>1, <3>2, HandsOfOthers DEF RowsSettle
    <2>3. CASE UNCHANGED ledgerVars
      BY <2>3, RowsStay DEF ledgerVars
    <2> QED
      BY <2>1, <2>2, <2>3 DEF SweepStep
  <1>4. CASE UNCHANGED proc
    <2>1. \A c \in Continuation : HandFits(c)'
      BY <1>3, <1>4 DEF TInv, HandsFit, HandFits
    <2> QED
      BY <1>2, <1>3, <1>4, <2>1, QuietStill
  <1>5. CASE Goto(p, Swept(p))
    <2>1. Swept(p) \in {"idle", "poll", "claim"}
      BY <1>2 DEF Swept
    <2>2. PICK l : l = Swept(p) /\ MovedOn(p, l)
      BY <1>1, <1>5, GotoMoved
    <2>3. /\ l \notin Thread /\ l # "show" /\ l \notin Working /\ l \notin Resolving
          /\ l \notin Answering /\ proc[p].pc \notin Early \cup Gone
      BY <1>2, <2>1, <2>2 DEF Thread, Starting, Working, Resolving, Answering, Early, Gone
    <2> QED
      BY <1>1, <1>2, <1>3, <2>2, <2>3, QuietMove
  <1> QED
    BY <1>4, <1>5 DEF SweepStep

\* What a claim writes, row by row.
LEMMA ClaimTakes ==
    ASSUME LedgerTypeOK, HandsOneRow, NEW w \in WorkerId, ClaimDispatched(w) \/ ClaimApproved(w),
           NEW a \in hand[w].rows
    PROVE  /\ a \in ActionId /\ actions[a].status = "APPROVED"
           /\ actions'[a].status = "EXECUTING" /\ actions'[a].worker = w
           /\ RowsKept({a}) /\ \A b \in ActionId \ {a} : actions'[b] = actions[b]
           /\ \A c \in Continuation \ {w} : hand'[c] = hand[c]
  <1>1. w \in Caller /\ hand[w].rows \subseteq {a}
    BY DEF HandsOneRow, AtMostOne, ClaimDispatched, ClaimApproved, Caller
  <1>2. a \in ActionId /\ actions[a] \in ActionRow /\ actions \in [ActionId -> ActionRow]
    BY <1>1 DEF LedgerTypeOK, Hand
  <1>3. /\ actions[a].status = "APPROVED" /\ hand' = [hand EXCEPT ![w] = Empty]
        /\ \/ actions' = [actions EXCEPT ![a] = Claimed(@, w)]
           \/ actions' = [actions EXCEPT ![a] =
                            [Claimed(@, w) EXCEPT !.attempt = actions[a].attempt + 1]]
    BY <1>1 DEF ClaimDispatched, ClaimApproved, StillDispatchable, PutDown
  <1>4. \A row \in ActionRow : \A n :
           /\ Claimed(row, w).worker = w /\ Claimed(row, w).status = "EXECUTING"
           /\ [Claimed(row, w) EXCEPT !.attempt = n].worker = w
           /\ [Claimed(row, w) EXCEPT !.attempt = n].status = "EXECUTING"
    BY DEF Claimed, ActionRow
  <1>5. PICK row : /\ row.worker = w /\ row.status = "EXECUTING"
                   /\ actions' = [actions EXCEPT ![a] = row]
    BY <1>2, <1>3, <1>4
  <1>6. \A b \in ActionId \ {a} : actions'[b] = actions[b]
    BY <1>2, <1>5
  <1> QED
    BY <1>1, <1>2, <1>3, <1>5, <1>6, HandsOfOthers DEF RowsKept

\* A worker at a label where it has no thread.
LEMMA DispatcherQuiet ==
    ASSUME RInv, TInv, NEW w \in Dispatcher,
           NEW l \in {"bootSweep", "sweep", "poll", "claim", "register", "dying", "stopping",
                      "stopped", "killed"},
           MovedOn(w, l), RowsSettle, UNCHANGED <<pendingAuth, consented>>,
           \A c \in Continuation : hand'[c] = hand[c],
           (/\ proc[w].pc \in Early \cup Gone
            /\ actions'[proc[w].act].status = "EXECUTING") => l \in Early \cup Gone
    PROVE  QuietStep
  <1>1. w \in Process /\ w \notin Driver /\ w # Api /\ w \notin Continuation
    BY Places DEF WorkerId
  <1>2. l \notin Thread /\ l # "show" /\ l \notin Working
    BY DEF Thread, Starting, Working
  <1> QED
    BY <1>1, <1>2, QuietMove

LEMMA WorkerThread ==
    ASSUME RInv, TInv, NEW w \in Dispatcher, WorkerStep(w) \/ WorkerExit(w)
    PROVE  ThreadStep
  <1>1. /\ Procs /\ LedgerTypeOK /\ HandsOneRow /\ w \in Process /\ w \in Executor /\ w \in Sweeper
        /\ w \in WorkerId /\ w \in Caller /\ w \notin Continuation /\ proc[w] \in ProcessState
        /\ proc \in [Process -> ProcessState]
    BY AtHand, Places DEF RInv, IInv, Sweeper, WorkerId, Caller, Procs
  <1>2. UNCHANGED <<pendingAuth, consented>>
    BY DEF WorkerStep, WorkerExit, BootWorker, SweepStep, HeartbeatWorker, ClaimStep, DropClaim,
           runVars, history
  <1>3. CASE SweepStep(w)
    BY <1>1, <1>3, SweepQuiet DEF ThreadStep
  <1>4. CASE BootWorker(w) \/ HeartbeatWorker(w) \/ WorkerExit(w)
    <2>1. /\ UNCHANGED <<actions, hand>>
          /\ \/ /\ proc[w].pc \in {"off", "register", "poll"}
                /\ \E l \in {"bootSweep", "sweep", "claim", "register"} : Goto(w, l)
             \/ /\ proc[w].pc \in {"dying", "stopping"}
                /\ \E l \in {"stopping", "stopped"} : Goto(w, l)
      BY <1>4 DEF BootWorker, HeartbeatWorker, WorkerExit, At, RegisterWorker, DrainWorker,
                  StopWorker, ledgerVars
    <2>2. PICK l \in {"bootSweep", "sweep", "claim", "register", "stopping", "stopped"} :
             /\ Goto(w, l)
             /\ proc[w].pc \in {"off", "register", "poll"} \/ l \in {"stopping", "stopped"}
      BY <2>1
    <2>3. proc[w].pc \in Early \cup Gone => l \in Early \cup Gone
      BY <2>2 DEF Early, Gone
    <2> QED
      BY <1>1, <1>2, <2>1, <2>2, <2>3, GotoMoved, RowsStay, DispatcherQuiet DEF ThreadStep
  <1>5. CASE ClaimStep(w)
    <2>1. proc[w].pc = "claim" /\ proc[w].pc \notin Early \cup Gone
      BY <1>5 DEF ClaimStep, At, Early, Gone
    <2>2. CASE SelectDispatchable(w) /\ UNCHANGED proc
      <3>1. UNCHANGED actions /\ \E h : hand' = [hand EXCEPT ![w] = h]
        BY <2>2 DEF SelectDispatchable, Take
      <3>2. \A c \in Continuation : hand'[c] = hand[c]
        BY <1>1, <3>1, HandsOfOthers
      <3>3. \A c \in Continuation : HandFits(c)'
        BY <2>2, <3>2 DEF TInv, HandsFit, HandFits
      <3> QED
        BY <1>2, <2>2, <3>1, <3>3, RowsStay, QuietStill DEF ThreadStep
    <2>3. CASE /\ ClaimDispatched(w)
               /\ \E a \in hand[w].rows :
                     proc' = [proc EXCEPT ![w].pc = "claimed", ![w].step = "flag",
                                          ![w].act = a, ![w].run = RunOf[a]]
      <3>1. PICK a \in hand[w].rows :
               proc' = [proc EXCEPT ![w].pc = "claimed", ![w].step = "flag",
                                    ![w].act = a, ![w].run = RunOf[a]]
        BY <2>3
      <3>2. proc' = [proc EXCEPT ![w] = [proc[w] EXCEPT !.pc = "claimed", !.step = "flag",
                                                        !.act = a, !.run = RunOf[a]]]
        BY <1>1, <3>1
      <3>3. /\ proc'[w].pc = "claimed" /\ proc'[w].act = a /\ proc'[w].run = RunOf[a]
            /\ \A q \in Process \ {w} : proc'[q] = proc[q]
        BY <1>1, <3>2 DEF ProcessState
      <3>4. /\ a \in ActionId /\ actions[a].status = "APPROVED"
            /\ actions'[a].status = "EXECUTING" /\ actions'[a].worker = w
            /\ RowsKept({a}) /\ \A c \in Continuation \ {w} : hand'[c] = hand[c]
        BY <1>1, <2>3, ClaimTakes
      <3>5. TakesUp(w, a)
        BY <1>2, <2>1, <3>3, <3>4 DEF TakesUp, Others
      <3> QED
        BY <1>1, <3>4, <3>5 DEF ThreadStep
    <2>4. CASE Goto(w, "poll") /\ (LoseClaim(w) \/ UNCHANGED ledgerVars)
      <3>1. UNCHANGED actions /\ \A c \in Continuation : hand'[c] = hand[c]
        BY <1>1, <2>4, HandsOfOthers DEF LoseClaim, PutDown, ledgerVars
      <3> QED
        BY <1>1, <1>2, <2>1, <2>4, <3>1, GotoMoved, RowsStay, DispatcherQuiet DEF ThreadStep
    <2> QED
      BY <1>5, <2>2, <2>3, <2>4 DEF ClaimStep
  <1>6. CASE DropClaim(w)
    <2>1. /\ proc[w].pc = "drop" /\ FinishOrNot(proc[w].act, FALSE)
          /\ proc' = [proc EXCEPT ![w] = [proc[w] EXCEPT !.pc = "poll", !.act = NoAction]]
      BY <1>1, <1>6 DEF DropClaim, At
    <2>2. proc[w].act \in ActionId
      BY <1>1, <2>1, AtHand DEF Working
    <2>3. RowsSettle /\ hand' = hand /\ actions'[proc[w].act].status # "EXECUTING"
      BY <1>1, <2>1, <2>2, FinishWrites
    <2>4. MovedOn(w, "poll")
      BY <1>1, <2>1 DEF MovedOn, ProcessState
    <2> QED
      BY <1>2, <2>3, <2>4, DispatcherQuiet DEF ThreadStep
  <1> QED
    BY <1>3, <1>4, <1>5, <1>6 DEF WorkerStep

LEMMA WorkerEndsQuiet ==
    ASSUME RInv, TInv, NEW w \in Dispatcher, StopSignal(w) \/ WorkerCrash(w)
    PROVE  QuietStep
  <1>1. /\ Procs /\ LedgerTypeOK /\ w \in Process /\ w \in Caller /\ w \notin Continuation
        /\ proc[w] \in ProcessState /\ proc \in [Process -> ProcessState]
    BY AtHand, Places DEF RInv, IInv, WorkerId, Caller, Procs
  <1>2. UNCHANGED <<actions, pendingAuth, consented>>
    BY DEF StopSignal, WorkerCrash, Abandon, ledgerVars, runVars, history
  <1>3. \A c \in Continuation : hand'[c] = hand[c]
    BY <1>1, HandsOfOthers DEF StopSignal, WorkerCrash, Abandon, PutDown, ledgerVars
  <1>4. CASE StopSignal(w)
    <2>1. proc[w].pc = "poll" /\ Goto(w, "dying") /\ "dying" \in Gone
      BY <1>4 DEF StopSignal, At, Gone
    <2> QED
      BY <1>1, <1>2, <1>3, <2>1, GotoMoved, RowsStay, DispatcherQuiet
  <1>5. CASE WorkerCrash(w)
    <2>1. proc' = [proc EXCEPT ![w] = [proc[w] EXCEPT !.pc = "killed", !.step = "none"]]
      BY <1>1, <1>5 DEF WorkerCrash
    <2>2. MovedOn(w, "killed") /\ "killed" \in Gone
      BY <1>1, <2>1 DEF MovedOn, ProcessState, Gone
    <2> QED
      BY <1>2, <1>3, <2>2, RowsStay, DispatcherQuiet
  <1> QED
    BY <1>4, <1>5

LEMMA ApiThread ==
    ASSUME RInv, TInv, ApiStep
    PROVE  ThreadStep
  <1>1. /\ Procs /\ LedgerTypeOK /\ Api \in Process /\ Api \in Sweeper /\ Api \notin Executor
        /\ Api \notin Driver /\ Api \notin Continuation
    BY Places DEF RInv, IInv, Sweeper, Speaker, WorkerId
  <1>2. \A a \in ActionId : actions[a] \in ActionRow
    BY <1>1 DEF LedgerTypeOK
  <1>3. CASE Approve
    <2>1. /\ proc[Api].pc = "approve" /\ ApprovePendingAction(proc[Api].run)
          /\ Goto(Api, "confirm") /\ UNCHANGED <<hand, pendingAuth, consented>>
      BY <1>3 DEF Approve, At, ApprovePendingAction, runVars, history
    <2>2. MovedOn(Api, "confirm")
      BY <1>1, <2>1, GotoMoved
    <2>3. ASSUME NEW a \in ActionId
          PROVE  /\ actions'[a].worker = actions[a].worker
                 /\ actions'[a].status = IF RunOf[a] = proc[Api].run /\ actions[a].status = "PENDING"
                                         THEN "APPROVED" ELSE actions[a].status
      BY <1>2, <2>1 DEF ApprovePendingAction, ActionRow
    <2>4. Decides("APPROVED")
      BY <2>1, <2>2, <2>3 DEF Decides, Others, MovedOn
    <2> QED
      BY <2>4 DEF ThreadStep
  <1>4. CASE Reject
    <2>1. /\ proc[Api].pc = "reject" /\ RejectPendingAction(proc[Api].run)
          /\ Transit(Api, "decide", "PARTIAL") /\ UNCHANGED <<hand, pendingAuth, consented>>
      BY <1>4 DEF Reject, At, RejectPendingAction, runVars, history
    <2>2. MovedOn(Api, "decide")
      BY <1>1, <2>1, TransitMoved
    <2>3. ASSUME NEW a \in ActionId
          PROVE  /\ actions'[a].worker = actions[a].worker
                 /\ actions'[a].status = IF RunOf[a] = proc[Api].run /\ actions[a].status = "PENDING"
                                         THEN "REJECTED" ELSE actions[a].status
      BY <1>2, <2>1 DEF RejectPendingAction, ActionRow
    <2>4. Decides("REJECTED")
      BY <2>1, <2>2, <2>3 DEF Decides, Others, MovedOn
    <2> QED
      BY <2>4 DEF ThreadStep
  <1>5. CASE ConfirmApproval
    <2>1. /\ proc[Api].pc = "confirm" /\ UNCHANGED <<actions, hand, pendingAuth, consented>>
          /\ Goto(Api, "idle") \/ Transit(Api, "decide", "EXECUTE")
      BY <1>5 DEF ConfirmApproval, At, ledgerVars, runVars, history
    <2>2. PICK l \in {"idle", "decide"} : MovedOn(Api, l)
      BY <1>1, <2>1, GotoMoved, TransitMoved
    <2>3. /\ l \notin Thread /\ l # "show" /\ l \notin Answering /\ proc[Api].pc \in Resolving
      BY <2>1 DEF Thread, Starting, Working, Answering, Resolving
    <2> QED
      BY <1>1, <2>1, <2>2, <2>3, RowsStay, QuietMove DEF ThreadStep
  <1>6. CASE SweepStep(Api)
    BY <1>1, <1>6, SweepQuiet DEF ThreadStep
  <1> QED
    BY <1>3, <1>4, <1>5, <1>6 DEF ApiStep

LEMMA RequestThread ==
    ASSUME RInv, TInv, NEW r \in RunId, CancelRequest(r) \/ AuthorizeRequest(r)
    PROVE  ThreadStep
  <1>1. CASE CancelRequest(r)
    <2>1. UNCHANGED <<actions, hand, proc, pendingAuth, consented>>
      BY <1>1 DEF CancelRequest, RequestCancellation, ledgerVars, history
    <2>2. \A c \in Continuation : HandFits(c)'
      BY <2>1 DEF TInv, HandsFit, HandFits
    <2> QED
      BY <2>1, <2>2, RowsStay, QuietStill DEF ThreadStep
  <1>2. CASE AuthorizeRequest(r)
    <2>1. /\ proc[Api].pc = "idle" /\ pendingAuth[r] # NoAction /\ UNCHANGED <<actions, hand>>
          /\ pendingAuth' = [pendingAuth EXCEPT ![r] = NoAction]
      BY <1>2 DEF AuthorizeRequest, At, ResolveAuthorization, SetPendingAuthorization, ledgerVars
    <2>2. PICK approved \in BOOLEAN :
             /\ proc' = [proc EXCEPT ![Api].pc = IF approved THEN "approve" ELSE "reject",
                                     ![Api].run = r]
             /\ consented' = [consented EXCEPT ![pendingAuth[r]] = approved]
      BY <1>2 DEF AuthorizeRequest
    <2> DEFINE l == IF approved THEN "approve" ELSE "reject"
    <2>3. proc \in [Process -> ProcessState] /\ Api \in Process /\ proc[Api] \in ProcessState
      BY AtHand, Places DEF RInv, Procs
    <2>4. proc' = [proc EXCEPT ![Api] = [proc[Api] EXCEPT !.pc = l, !.run = r]]
      BY <2>2, <2>3
    <2> HIDE DEF l
    <2>5. /\ proc'[Api].pc = l /\ proc'[Api].run = r
          /\ \A q \in Process \ {Api} : proc'[q] = proc[q]
      BY <2>3, <2>4 DEF ProcessState
    <2>6. Hears(r)
      BY <2>1, <2>2, <2>5, RowsStay DEF Hears, Others, l
    <2> QED
      BY <2>6 DEF ThreadStep
  <1> QED
    BY <1>1, <1>2

LEMMA ContinuationThread ==
    ASSUME RInv, TInv, NEW c \in Continuation, ContinuationStep(c)
    PROVE  ThreadStep
  <1>1. /\ Procs /\ LedgerTypeOK /\ HandsOneRow /\ c \in Process /\ c \in Executor
        /\ c \in WorkerId /\ c \in Caller /\ c \notin Driver /\ c # Api
        /\ proc[c] \in ProcessState /\ proc \in [Process -> ProcessState]
    BY AtHand, Places DEF RInv, IInv, Procs, WorkerId, Caller
  <1>2. /\ proc[c].pc = "claim" /\ UNCHANGED <<pendingAuth, consented>>
        /\ proc[c].pc \notin Early \cup Gone
    BY DEF ContinuationStep, At, runVars, history, Early, Gone
  <1>3. HandFits(c) /\ \A d \in Continuation : HandFits(d)
    BY DEF TInv, HandsFit
  <1>4. CASE SelectApproved(proc[c].run, c) /\ UNCHANGED proc
    <2>1. /\ UNCHANGED actions
          /\ \E a : /\ RunOf[a] = proc[c].run
                    /\ hand' = [hand EXCEPT ![c] = [op |-> "continue", rows |-> {a}, at |-> now]]
      BY <1>4 DEF SelectApproved, Take, ApprovedOf
    <2>2. /\ \A d \in Continuation \ {c} : hand'[d] = hand[d]
          /\ \A a \in hand'[c].rows : RunOf[a] = proc[c].run
      BY <1>1, <2>1, HandsOfOthers DEF LedgerTypeOK
    <2>3. \A d \in Continuation : HandFits(d)'
      BY <1>2, <1>3, <1>4, <2>2 DEF HandFits
    <2> QED
      BY <1>2, <1>4, <2>1, <2>3, RowsStay, QuietStill DEF ThreadStep
  <1>5. CASE /\ ClaimApproved(c)
             /\ \E a \in hand[c].rows :
                   proc' = [proc EXCEPT ![c].pc = "execute", ![c].step = "flag", ![c].act = a]
    <2>1. PICK a \in hand[c].rows :
             proc' = [proc EXCEPT ![c].pc = "execute", ![c].step = "flag", ![c].act = a]
      BY <1>5
    <2>2. proc' = [proc EXCEPT ![c] = [proc[c] EXCEPT !.pc = "execute", !.step = "flag",
                                                      !.act = a]]
      BY <1>1, <2>1
    <2>3. /\ proc'[c].pc = "execute" /\ proc'[c].act = a /\ proc'[c].run = proc[c].run
          /\ \A q \in Process \ {c} : proc'[q] = proc[q]
      BY <1>1, <2>2 DEF ProcessState
    <2>4. /\ a \in ActionId /\ actions[a].status = "APPROVED"
          /\ actions'[a].status = "EXECUTING" /\ actions'[a].worker = c
          /\ RowsKept({a}) /\ \A d \in Continuation \ {c} : hand'[d] = hand[d]
      BY <1>1, <1>5, ClaimTakes
    <2>5. RunOf[a] = proc[c].run
      BY <1>2, <1>3 DEF HandFits
    <2>6. TakesUp(c, a)
      BY <1>2, <2>3, <2>4, <2>5 DEF TakesUp, Others
    <2> QED
      BY <1>1, <2>4, <2>6 DEF ThreadStep
  <1>6. CASE Goto(c, "end") /\ (LoseClaim(c) \/ UNCHANGED ledgerVars)
    <2>1. UNCHANGED actions /\ \A d \in Continuation \ {c} : hand'[d] = hand[d]
      BY <1>1, <1>6, HandsOfOthers DEF LoseClaim, PutDown, ledgerVars
    <2>2. MovedOn(c, "end")
      BY <1>1, <1>6, GotoMoved
    <2>3. "end" \notin Thread /\ "end" \notin Working /\ "end" \notin Resolving
      BY DEF Thread, Starting, Working, Resolving, Answering
    <2>4. HandFits(c)'
      BY <2>2, <2>3 DEF HandFits, MovedOn
    <2> QED
      BY <1>1, <1>2, <2>1, <2>2, <2>3, <2>4, RowsStay, QuietMove DEF ThreadStep
  <1> QED
    BY <1>4, <1>5, <1>6 DEF ContinuationStep

LEMMA ContinueQuiet ==
    ASSUME RInv, TInv, NEW c \in Continuation, NEW r \in RunId, ContinueRequest(c, r)
    PROVE  QuietStep
  <1>1. /\ c \in Process /\ c \notin Driver /\ c # Api
        /\ proc[c] \in ProcessState /\ proc \in [Process -> ProcessState]
    BY AtHand, Places DEF RInv, Procs
  <1>2. /\ proc[c].pc = "idle" /\ UNCHANGED <<actions, hand, pendingAuth, consented>>
        /\ proc' = [proc EXCEPT ![c] = [proc[c] EXCEPT !.pc = "open", !.step = "flag", !.run = r]]
    BY <1>1 DEF ContinueRequest, At, ledgerVars, runVars, history
  <1>3. proc'[c].pc = "open" /\ \A q \in Process \ {c} : proc'[q] = proc[q]
    BY <1>1, <1>2 DEF ProcessState
  <1>4. ASSUME NEW q \in Process PROVE Quiet(q)
    <2>1. CASE q = c
      <3>1. /\ "open" \notin Thread /\ "open" \notin Starting \cup Working
            /\ "open" \notin Resolving /\ "idle" \notin Early \cup Gone
        BY DEF Thread, Starting, Working, Resolving, Answering, Early, Gone
      <3>2. HandFits(c)'
        BY <1>2, <1>3, <3>1 DEF TInv, HandsFit, HandFits
      <3> QED
        BY <1>1, <1>2, <1>3, <2>1, <3>1, <3>2 DEF Quiet
    <2>2. CASE q # c
      <3>1. proc'[q] = proc[q]
        BY <1>3, <2>2
      <3>2. q \in Driver => proc[q].run = q /\ proc[q].pc \in DriverLabel
        BY DEF TInv, DriverFirst
      <3>3. q \in Continuation => HandFits(q)'
        BY <1>2, <3>1 DEF TInv, HandsFit, HandFits
      <3> QED
        BY <3>1, <3>2, <3>3 DEF Quiet
    <2> QED
      BY <2>1, <2>2
  <1> QED
    BY <1>2, <1>4, RowsStay DEF QuietStep

LEMMA CrashQuiet ==
    ASSUME RInv, TInv, ApiCrash
    PROVE  QuietStep
  <1>1. /\ LedgerTypeOK /\ Procs /\ UNCHANGED <<actions, pendingAuth, consented>>
    BY DEF RInv, IInv, ApiCrash, Abandon, ledgerVars, runVars, history
  <1>2. \A c \in Continuation : hand'[c] = hand[c] \/ hand'[c] = Empty
    BY <1>1 DEF ApiCrash, Abandon, PutDown, ledgerVars, LedgerTypeOK, Caller, WorkerId
  <1>3. proc' = [v \in Process |->
                  IF v = Api THEN [proc[v] EXCEPT !.pc = "bootSweep", !.step = "none"]
                  ELSE IF v \in Continuation /\ proc[v].pc \notin {"idle", "end"}
                  THEN [proc[v] EXCEPT !.pc = "killed", !.step = "none"]
                  ELSE proc[v]]
    BY DEF ApiCrash
  <1>4. ASSUME NEW q \in Process PROVE Quiet(q)
    <2>1. proc[q] \in ProcessState
      BY <1>1, AtHand
    <2>2. CASE q = Api
      <3>1. proc'[q].pc = "bootSweep"
        BY <1>3, <2>1, <2>2 DEF ProcessState
      <3>2. q \notin Executor /\ q \notin Driver /\ q \notin Continuation
        BY <2>2, Places
      <3>3. /\ "bootSweep" \notin Thread /\ "bootSweep" \notin Starting \cup Working
            /\ "bootSweep" \notin Resolving /\ "bootSweep" \notin Answering
        BY DEF Thread, Starting, Working, Resolving, Answering
      <3> QED
        BY <3>1, <3>2, <3>3 DEF Quiet
    <2>3. CASE q \in Continuation /\ proc[q].pc \notin {"idle", "end"}
      <3>1. q # Api /\ q \notin Driver
        BY <2>3, Places
      <3>2. proc'[q].pc = "killed" /\ proc'[q].act = proc[q].act
        BY <1>3, <2>1, <2>3, <3>1 DEF ProcessState
      <3>3. /\ "killed" \notin Thread /\ "killed" \notin Starting \cup Working
            /\ "killed" \notin Resolving /\ "killed" \in Gone
        BY DEF Thread, Starting, Working, Resolving, Answering, Gone
      <3>4. HandFits(q)'
        BY <3>2, <3>3 DEF HandFits
      <3> QED
        BY <3>1, <3>2, <3>3, <3>4 DEF Quiet
    <2>4. CASE q # Api /\ ~(q \in Continuation /\ proc[q].pc \notin {"idle", "end"})
      <3>1. proc'[q] = proc[q]
        BY <1>3, <2>4
      <3>2. q \in Driver => proc[q].run = q /\ proc[q].pc \in DriverLabel
        BY DEF TInv, DriverFirst
      <3>3. q \in Continuation => HandFits(q)'
        BY <1>2, <2>4, <3>1 DEF TInv, HandsFit, HandFits, Empty
      <3> QED
        BY <3>1, <3>2, <3>3 DEF Quiet
    <2> QED
      BY <2>2, <2>3, <2>4
  <1> QED
    BY <1>1, <1>4, RowsStay DEF QuietStep

\* A step that concerns neither a process nor a row.
LEMMA BystanderQuiet ==
    ASSUME TInv, UNCHANGED <<actions, hand, proc, pendingAuth, consented>>
    PROVE  QuietStep
  <1>1. \A c \in Continuation : HandFits(c)'
    BY DEF TInv, HandsFit, HandFits
  <1> QED
    BY <1>1, RowsStay, QuietStill

LEMMA NextIsThreadStep ==
    ASSUME RInv, TInv, [RuntimeNext]_vars
    PROVE  ThreadStep
  <1>1. ASSUME NEW p \in Process, ProcessStep(p) PROVE ThreadStep
    <2>1. CASE LifecycleCall(p)
      BY <2>1, LifecycleQuiet DEF ThreadStep
    <2>2. CASE p \in Driver /\ DriverStart(p)
      BY <2>2, DriverStartQuiet DEF ThreadStep
    <2>3. CASE p \in Driver \cup Executor /\ ReActStep(p)
      BY <2>3, ReActThread DEF Speaker
    <2>4. CASE p \in Executor /\ ExecuteStep(p)
      BY <2>4, ExecuteQuiet DEF ThreadStep
    <2>5. CASE p \in Dispatcher /\ (WorkerStep(p) \/ WorkerExit(p))
      BY <2>5, WorkerThread
    <2>6. CASE p \in Continuation /\ ContinuationStep(p)
      BY <2>6, ContinuationThread
    <2>7. CASE p = Api /\ ApiStep
      BY <2>7, ApiThread
    <2> QED
      BY <1>1, <2>1, <2>2, <2>3, <2>4, <2>5, <2>6, <2>7 DEF ProcessStep
  <1>2. ASSUME NEW r \in RunId, CancelRequest(r) \/ AuthorizeRequest(r) PROVE ThreadStep
    BY <1>2, RequestThread
  <1>3. ASSUME NEW c \in Continuation, NEW r \in RunId, ContinueRequest(c, r) PROVE ThreadStep
    BY <1>3, ContinueQuiet DEF ThreadStep
  <1>4. ASSUME NEW w \in Dispatcher, DrainRequest(w) PROVE ThreadStep
    BY <1>4, BystanderQuiet DEF DrainRequest, DrainWorker, runVars, ThreadStep
  <1>5. ASSUME NEW w \in Dispatcher, StopSignal(w) \/ WorkerCrash(w) PROVE ThreadStep
    BY <1>5, WorkerEndsQuiet DEF ThreadStep
  <1>6. CASE ApiCrash
    BY <1>6, CrashQuiet DEF ThreadStep
  <1>7. CASE TimePasses
    BY <1>7, BystanderQuiet DEF TimePasses, Tick, runVars, history, ThreadStep
  <1>8. CASE UNCHANGED vars
    BY <1>8, BystanderQuiet DEF vars, ledgerVars, runVars, history, ThreadStep
  <1> QED
    BY <1>1, <1>2, <1>3, <1>4, <1>5, <1>6, <1>7, <1>8 DEF RuntimeNext

LEMMA ThreadInit ==
    ASSUME RuntimeInit
    PROVE  TInv
  <1>1. ASSUME NEW p \in Process
        PROVE  /\ proc[p].pc = StartOf(p)
               /\ p \in Driver => proc[p].run = p
    BY <1>1 DEF RuntimeInit
  <1>2. \A p \in Process : /\ StartOf(p) \in {"new", "off", "idle", "bootSweep"}
                           /\ (StartOf(p) = "new") <=> (p \in Driver)
    <2> SUFFICES ASSUME NEW p \in Process
                 PROVE  /\ StartOf(p) \in {"new", "off", "idle", "bootSweep"}
                        /\ (StartOf(p) = "new") <=> (p \in Driver)
      OBVIOUS
    <2>1. /\ p \in Driver \/ p \in Dispatcher \/ p \in Continuation \/ p = Api
          /\ p \in Dispatcher \/ p \in Continuation \/ p = Api => p \notin Driver
          /\ p = Api => p \notin Dispatcher /\ p \notin Continuation
          /\ p \in Dispatcher => p \notin Continuation
      BY DEF Process, Executor, Driver, Caller, WorkerId
    <2> QED
      BY <2>1 DEF StartOf
  <1>3. ASSUME NEW p \in Process
        PROVE  /\ proc[p].pc \in Thread => p \in Driver
               /\ proc[p].pc \notin Working \cup Resolving /\ proc[p].pc \notin {"show", "claim"}
               /\ p \in Driver => proc[p].pc \in DriverLabel
    BY <1>1, <1>2 DEF Thread, Starting, Working, Resolving, Answering, DriverLabel
  <1>4. \A a \in ActionId : actions[a].status = "ABSENT"
    BY DEF RuntimeInit, LedgerInit
  <1>5. (\A r \in RunId : pendingAuth[r] = NoAction) /\ \A c \in Caller : hand[c] = Empty
    BY DEF RuntimeInit, RunInit, LedgerInit
  <1>6. OneSpeaker /\ SpeakerHasLive /\ OneLive /\ ExecutorInPlace /\ OnlyConsented
    BY <1>1, <1>3, <1>4, Places DEF OneSpeaker, SpeakerHasLive, OneLive, ExecutorInPlace,
                                    OnlyConsented, Active, Decided
  <1>7. Owns /\ ShowsOwn /\ ShownOnly /\ AnswerIsForOne /\ ApiAfterDriver
    BY <1>3, <1>5, Places DEF Owns, ShowsOwn, ShownOnly, AnswerIsForOne, ApiAfterDriver, Resolving
  <1>8. HandsFit
    BY <1>3, <1>5, Places DEF HandsFit, HandFits, Empty, Caller, WorkerId
  <1>9. DriverFirst
    BY <1>1, <1>3, <1>4, Places DEF DriverFirst
  <1> QED
    BY <1>6, <1>7, <1>8, <1>9 DEF TInv

LEMMA ThreadStepOK ==
    ASSUME RInv, TInv, [RuntimeNext]_vars
    PROVE  TInv'
  <1>1. ThreadStep
    BY NextIsThreadStep
  <1> QED
    BY <1>1, QuietKeepsThread, AskKeepsThread, ShowKeepsThread, HearKeepsThread,
       DecideKeepsThread, TakeUpKeepsThread DEF ThreadStep

--------------------------------------------------------------------------
(* The theorems.                                                           *)

\* TInv holds in every reachable state of the running system.
THEOREM ThreadInvariant == RuntimeSpec => [](RInv /\ TInv)
  <1>1. RuntimeInit => RInv /\ TInv
    BY RuntimeInitOK, ThreadInit
  <1>2. RInv /\ TInv /\ [RuntimeNext]_vars => (RInv /\ TInv)'
    BY RuntimeStepOK, ThreadStepOK
  <1> QED
    BY <1>1, <1>2, PTL DEF RuntimeSpec

(* A run has one thread of control: however drivers, workers, /continue    *)
(* requests, sweeps and crashes interleave, it never has two live actions  *)
(* and never two processes in its conversation.                            *)
THEOREM RuntimeOneThread == RuntimeSpec => []OneThreadPerRun
  <1>1. RInv /\ TInv => OneThreadPerRun
    <2> SUFFICES ASSUME RInv, TInv, NEW r \in RunId
                 PROVE  /\ AtMostOne({a \in ActionId : RunOf[a] = r /\ actions[a].status \in Active})
                        /\ AtMostOne(InConversation(r))
      BY DEF OneThreadPerRun
    <2>1. \A p \in InConversation(r) : p \in Speaker /\ proc[p].pc \in Thread /\ proc[p].run = r
      BY DEF InConversation, Speaker, Thread, Working
    <2>2. AtMostOne(InConversation(r))
      BY <2>1 DEF TInv, OneSpeaker, AtMostOne
    <2>3. AtMostOne({a \in ActionId : RunOf[a] = r /\ actions[a].status \in Active})
      BY DEF TInv, OneLive, AtMostOne
    <2> QED
      BY <2>2, <2>3
  <1> QED
    BY <1>1, ThreadInvariant, PTL

(* What a person is shown is still undecided, so that an answer can never  *)
(* land on an action that was claimed, settled or answered before.         *)
THEOREM RuntimeShownIsPending == RuntimeSpec => []ShownIsPending
  <1>1. TInv => ShownIsPending
    BY DEF TInv, ShownOnly, ShownIsPending
  <1> QED
    BY <1>1, ThreadInvariant, PTL

(* A risky tool runs only after a person said yes while that very action   *)
(* was the one shown to them.                                              *)
THEOREM RuntimeConsent == RuntimeSpec => []ConsentBeforeRun
  <1>1. RInv /\ TInv => ConsentBeforeRun
    <2> SUFFICES ASSUME RInv, TInv, NEW a \in ActionId, ran[a] > 0 PROVE consented[a]
      BY DEF ConsentBeforeRun
    <2>1. actions[a].worker # NoWorker
      BY DEF RInv, RanByOwner
    <2>2. actions[a].status \in Status /\ actions[a].status \notin Unclaimed
      BY <2>1 DEF RInv, IInv, LeaseWithinHorizon, LedgerTypeOK, ActionRow
    <2> QED
      BY <2>2 DEF TInv, OnlyConsented, Decided, Status, Unclaimed, Active, Settled
  <1> QED
    BY <1>1, ThreadInvariant, PTL

--------------------------------------------------------------------------
(* What the durable outcome says.                                          *)

\* In hand and its tool handler not yet back, in hand and not given up.
Untold == {"claimed", "execute", "running", "inTool"}

\* p knows how the action it runs went, and nobody but a sweep got ahead of it.
Honest(p) ==
    /\ proc[p].verdict => proc[p].pc \in {"settle", "killed"}
    /\ proc[p].pc \in Early \ {"drop"} =>
          \/ actions[proc[p].act].status = "EXECUTING"
          \/ actions[proc[p].act].status = "FAILED" /\ actions[proc[p].act].recovered
    /\ proc[p].pc \in Untold => outcome[proc[p].act] = "none"
    /\ proc[p].pc = "drop" /\ actions[proc[p].act].status = "EXECUTING" =>
          outcome[proc[p].act] = "none"
    /\ proc[p].pc = "settle" => (proc[p].verdict <=> outcome[proc[p].act] = "verified")

NothingEarly == \A a \in ActionId : actions[a].status \in Unclaimed => outcome[a] = "none"

OInv ==
    /\ \A p \in Executor : Honest(p)
    /\ NothingEarly
    /\ OutcomeIsTrue

\* A step in which no result is recorded: a row stays, is decided or claimed,
\* or is failed by a sweep.
HonestRows ==
    \A a \in ActionId :
        \/ /\ actions'[a].status = actions[a].status
           /\ actions'[a].recovered = actions[a].recovered
        \/ actions[a].status \in Unclaimed /\ actions'[a].status \in Unclaimed \cup {"EXECUTING"}
        \/ /\ actions[a].status = "EXECUTING"
           /\ actions'[a].status = "FAILED" /\ actions'[a].recovered

\* p stays, leaves, moves on without a result, gives up an action that no
\* longer executes, or claims one.
HonestMove(p) ==
    \/ /\ proc'[p].pc = proc[p].pc /\ proc'[p].act = proc[p].act
       /\ proc'[p].verdict = proc[p].verdict
    \/ proc'[p].pc \notin Early /\ (proc'[p].verdict => proc'[p].pc = "killed")
    \/ /\ proc[p].pc \in Untold \ {"inTool"} /\ proc'[p].pc \in Early
       /\ proc'[p].act = proc[p].act /\ proc'[p].verdict = proc[p].verdict
    \/ /\ proc'[p].pc = "drop" /\ ~proc'[p].verdict
       /\ actions'[proc'[p].act].status # "EXECUTING"
    \/ /\ proc'[p].pc \in {"claimed", "execute"} /\ ~proc'[p].verdict
       /\ proc'[p].act \in ActionId /\ actions[proc'[p].act].status = "APPROVED"
       /\ actions'[proc'[p].act].status = "EXECUTING"

LEMMA HonestStep ==
    ASSUME RInv, OInv, UNCHANGED outcome, HonestRows,
           \A q \in Executor : HonestMove(q)
    PROVE  OInv'
  <1>1. /\ \A q \in Executor : Honest(q)
        /\ NothingEarly /\ OutcomeIsTrue
    BY DEF OInv
  <1>2. Unclaimed = {"ABSENT", "PENDING", "APPROVED", "REJECTED"}
    BY DEF Unclaimed
  <1>3. NothingEarly'
    BY <1>1, <1>2 DEF NothingEarly, HonestRows
  <1>4. OutcomeIsTrue'
    BY <1>1, <1>2 DEF OutcomeIsTrue, HonestRows
  <1>5. ASSUME NEW q \in Executor PROVE Honest(q)'
    <2>1. Honest(q) /\ q \in Process
      BY <1>1, Places
    <2>2. HonestMove(q)
      OBVIOUS
    <2>3. proc[q].pc \in Early => proc[q].act \in ActionId
      BY <2>1, AtHand, Labels DEF RInv
    <2>4. ASSUME proc[q].pc \in Early, proc'[q].act = proc[q].act
          PROVE  /\ proc[q].pc # "drop" =>
                       \/ actions'[proc'[q].act].status = "EXECUTING"
                       \/ actions'[proc'[q].act].status = "FAILED" /\ actions'[proc'[q].act].recovered
                 /\ actions'[proc'[q].act].status = "EXECUTING" /\ proc[q].pc = "drop" =>
                       outcome[proc'[q].act] = "none"
      BY <1>1, <1>2, <2>1, <2>3, <2>4 DEF HonestRows, Honest, NothingEarly
    <2>5. CASE /\ proc'[q].pc = proc[q].pc /\ proc'[q].act = proc[q].act
               /\ proc'[q].verdict = proc[q].verdict
      BY <2>1, <2>4, <2>5 DEF Honest, Early, Untold
    <2>6. CASE proc'[q].pc \notin Early /\ (proc'[q].verdict => proc'[q].pc = "killed")
      BY <2>6 DEF Honest, Early, Untold
    <2>7. CASE /\ proc[q].pc \in Untold \ {"inTool"} /\ proc'[q].pc \in Early
               /\ proc'[q].act = proc[q].act /\ proc'[q].verdict = proc[q].verdict
      <3>1. ~proc[q].verdict /\ outcome[proc[q].act] = "none" /\ proc[q].pc \in Early \ {"drop"}
        BY <2>1, <2>7 DEF Honest, Untold, Early
      <3> QED
        BY <2>4, <2>7, <3>1 DEF Honest
    <2>8. CASE /\ proc'[q].pc = "drop" /\ ~proc'[q].verdict
               /\ actions'[proc'[q].act].status # "EXECUTING"
      BY <2>8 DEF Honest, Untold
    <2>9. CASE /\ proc'[q].pc \in {"claimed", "execute"} /\ ~proc'[q].verdict
               /\ proc'[q].act \in ActionId /\ actions[proc'[q].act].status = "APPROVED"
               /\ actions'[proc'[q].act].status = "EXECUTING"
      BY <1>1, <1>2, <2>9 DEF Honest, NothingEarly
    <2> QED
      BY <2>2, <2>5, <2>6, <2>7, <2>8, <2>9 DEF HonestMove
  <1> QED
    BY <1>3, <1>4, <1>5 DEF OInv

\* The same when p alone moves.
LEMMA HonestStepOf ==
    ASSUME RInv, OInv, UNCHANGED outcome, HonestRows, NEW p \in Process,
           \A q \in Process \ {p} : proc'[q] = proc[q],
           p \in Executor => HonestMove(p)
    PROVE  OInv'
  <1>1. ASSUME NEW q \in Executor PROVE HonestMove(q)
    BY Places DEF HonestMove
  <1> QED
    BY <1>1, HonestStep

\* Nobody else works on the action p works on.
LEMMA OneWorksOn ==
    ASSUME TInv, NEW p \in Executor, NEW q \in Executor,
           proc[p].pc \in Working, proc[q].pc \in Working, proc[p].act = proc[q].act
    PROVE  p = q
  BY DEF TInv, Owns

\* A loop that fails leaves an action that is no longer executed.
LEMMA LoopHasSettled ==
    ASSUME RInv, TInv, NEW p \in Executor, proc[p].pc = "loop"
    PROVE  actions[proc[p].act].status # "EXECUTING"
  <1>1. p \in Process /\ p \in Speaker /\ proc[p].pc \in Working /\ proc[p].pc \in Thread
        /\ proc[p].pc \notin Early
    BY Places DEF Working, Thread, Early
  <1>2. proc[p].act \in ActionId /\ RunOf[proc[p].act] = proc[p].run
    BY <1>1, AtHand DEF RInv, TInv, Owns
  <1> QED
    BY <1>1, <1>2 DEF TInv, SpeakerHasLive, Active

LEMMA NoVerdictYet ==
    ASSUME OInv, NEW p \in Executor, proc[p].pc \notin {"settle", "killed"}
    PROVE  ~proc[p].verdict
  BY DEF OInv, Honest

LEMMA RowsStayHonest ==
    ASSUME UNCHANGED actions
    PROVE  HonestRows
  BY DEF HonestRows

\* A process that moves to a label without an action in hand.
LEMMA LeavesHonest ==
    ASSUME RInv, OInv, UNCHANGED outcome, HonestRows, NEW p \in Process, NEW l, MovedOn(p, l),
           p \in Executor => l \notin Early /\ (proc[p].pc # "settle" \/ l = "killed"),
           proc[p].pc = "killed" => l = "killed"
    PROVE  OInv'
  <1>1. p \in Executor => HonestMove(p)
    BY NoVerdictYet DEF HonestMove, MovedOn
  <1> QED
    BY <1>1, HonestStepOf DEF MovedOn

LEMMA LifecycleHonest ==
    ASSUME RInv, TInv, OInv, NEW p \in Process, LifecycleCall(p)
    PROVE  OInv'
  <1>1. /\ proc[p].pc \in Calling /\ UNCHANGED <<actions, outcome>>
    BY LifecycleMoved
  <1>2. PICK l : /\ MovedOn(p, l)
                 /\ \/ l = proc[p].pc
                    \/ \E result \in {"no", "ok", "illegal"} :
                          /\ l = After(p, result)
                          /\ result = "no" => proc[p].pc \in Flagging
    BY LifecycleMoved
  <1> DEFINE from == proc[p].pc
  <1>3. from \in {"claimed", "open", "execute", "loop", "park", "toValidate", "toPlan",
                  "toExecute", "finish", "decide"}
    BY <1>1 DEF Calling, Flagging
  <1>4. ASSUME p \in Executor PROVE HonestMove(p)
    <2>1. CASE l = from
      BY <1>2, <1>3, <2>1 DEF HonestMove, MovedOn
    <2>2. CASE l # from
      <3>1. /\ from = "claimed" => l \in {"execute", "drop", "dying"}
            /\ from = "open" => l \in {"claim", "end"}
            /\ from = "execute" => l \in {"running", "settle", "drop", "end"}
            /\ from = "loop" => l \in {"request", "loop", "poll", "drop", "end"}
            /\ from = "park" => l \in {"poll", "end"}
            /\ from = "toValidate" => l \in {"toPlan", "end"}
            /\ from = "toPlan" => l \in {"toExecute", "end"}
            /\ from = "toExecute" => l \in {"loop", "end"}
            /\ from = "finish" => l = "end"
            /\ from = "decide" => l = "idle"
        BY <1>1, <1>2, <2>2, Returns
      <3>2. /\ ~proc[p].verdict /\ proc'[p].verdict = proc[p].verdict /\ proc'[p].pc = l
            /\ l # "poll" => proc'[p].act = proc[p].act
        BY <1>2, <1>3, <1>4, NoVerdictYet DEF MovedOn
      <3>3. CASE from \in {"claimed", "execute"} /\ l \in Early
        BY <3>2, <3>3 DEF HonestMove, Untold, Early
      <3>4. CASE from = "loop" /\ l = "drop"
        BY <1>1, <1>4, <3>2, <3>4, LoopHasSettled DEF HonestMove
      <3>5. CASE l \notin Early
        BY <3>2, <3>5 DEF HonestMove
      <3> QED
        BY <1>3, <3>1, <3>3, <3>4, <3>5 DEF Early
    <2> QED
      BY <2>1, <2>2
  <1> QED
    BY <1>1, <1>2, <1>4, RowsStayHonest, HonestStepOf DEF MovedOn

LEMMA DriverStartHonest ==
    ASSUME RInv, OInv, NEW r \in Driver, DriverStart(r)
    PROVE  OInv'
  <1>1. /\ r \in Process /\ r \notin Executor /\ proc \in [Process -> ProcessState]
        /\ UNCHANGED <<actions, outcome>>
    BY Places DEF RInv, Procs, DriverStart, RegisterRun, LockWorkspace, WorkspaceBusy, RefuseRun,
                  ledgerVars, history
  <1>2. \A q \in Process \ {r} : proc'[q] = proc[q]
    BY <1>1 DEF DriverStart, RegisterRun, LockWorkspace, WorkspaceBusy, RefuseRun, Goto, Transit
  <1> QED
    BY <1>1, <1>2, RowsStayHonest, HonestStepOf

LEMMA ReActHonest ==
    ASSUME RInv, TInv, OInv, NEW p \in Speaker, ReActStep(p)
    PROVE  OInv'
  <1>1. /\ Procs /\ p \in Process /\ proc[p] \in ProcessState
        /\ proc \in [Process -> ProcessState] /\ UNCHANGED outcome
        /\ proc[p].pc \in {"loop", "request", "show"}
    BY AtHand, Places DEF RInv, Procs, ReActStep, ModelAnswers, ModelCallsTool, RequestAction,
                          ShowRequest, At, history
  <1>2. /\ \A q \in Process \ {p} : proc'[q] = proc[q]
        /\ proc'[p].pc \notin Early /\ proc'[p].verdict = proc[p].verdict
    <2>1. ASSUME NEW l \in {"poll", "end", "loop", "show"}, NEW s \in ProcessState,
                 s.pc = l, s.verdict = proc[p].verdict, proc' = [proc EXCEPT ![p] = s]
          PROVE  /\ \A q \in Process \ {p} : proc'[q] = proc[q]
                 /\ proc'[p].pc \notin Early /\ proc'[p].verdict = proc[p].verdict
      BY <1>1, <2>1 DEF Early
    <2>2. CASE \E l \in {"finish", "park"} : \E goal : Transit(p, l, goal)
      <3>1. PICK l \in {"finish", "park"} : MovedOn(p, l)
        BY <1>1, <2>2, TransitMoved
      <3> QED
        BY <3>1 DEF MovedOn, Early
    <2>3. CASE ModelAnswers(p) /\ p \notin Driver
      <3> DEFINE left == IF Rest(p) = "poll" THEN NoAction ELSE proc[p].act
      <3>1. /\ proc' = [proc EXCEPT ![p] = [proc[p] EXCEPT !.pc = Rest(p), !.turn = 0, !.act = left]]
            /\ Rest(p) \in {"poll", "end"}
        BY <1>1, <2>3 DEF ModelAnswers, Rest
      <3> HIDE DEF left
      <3> QED
        BY <1>1, <3>1 DEF ProcessState, Early
    <2>4. CASE ModelCallsTool(p)
      <3>1. PICK want : proc' = [proc EXCEPT ![p].step = "flag", ![p].want = want,
                                             ![p].turn = @ + 1]
        BY <2>4 DEF ModelCallsTool
      <3>2. proc' = [proc EXCEPT ![p] = [proc[p] EXCEPT !.step = "flag", !.want = want,
                                                        !.turn = proc[p].turn + 1]]
        BY <1>1, <3>1
      <3> QED
        BY <1>1, <3>2 DEF ProcessState, Early
    <2>5. CASE RequestAction(p)
      <3>1. PICK a : proc' = [proc EXCEPT ![p].pc = "show", ![p].asked = a]
        BY <2>5 DEF RequestAction
      <3>2. proc' = [proc EXCEPT ![p] = [proc[p] EXCEPT !.pc = "show", !.asked = a]]
        BY <1>1, <3>1
      <3> QED
        BY <1>1, <3>2 DEF ProcessState, Early
    <2> QED
      BY <2>2, <2>3, <2>4, <2>5 DEF ReActStep, ModelAnswers, ShowRequest
  <1>3. HonestRows
    <2>1. CASE UNCHANGED actions
      BY <2>1, RowsStayHonest
    <2>2. CASE \E a \in ActionId : CreatePendingAction(a)
      <3>1. PICK a \in ActionId : CreatePendingAction(a)
        BY <2>2
      <3>2. /\ actions \in [ActionId -> ActionRow] /\ actions[a].status = "ABSENT"
            /\ actions' = [actions EXCEPT ![a] =
                             [actions[a] EXCEPT !.status = "PENDING", !.createdAt = now]]
        BY <3>1 DEF CreatePendingAction, RInv, IInv, LedgerTypeOK
      <3>3. actions'[a].status = "PENDING" /\ \A b \in ActionId \ {a} : actions'[b] = actions[b]
        BY <3>2 DEF ActionRow
      <3> QED
        BY <3>2, <3>3 DEF HonestRows, Unclaimed
    <2> QED
      BY <2>1, <2>2 DEF ReActStep, ModelAnswers, ModelCallsTool, RequestAction, ShowRequest,
                        ledgerVars
  <1>4. p \in Executor => HonestMove(p)
    BY <1>1, <1>2, NoVerdictYet DEF HonestMove
  <1> QED
    BY <1>1, <1>2, <1>3, <1>4, HonestStepOf

\* A result arrives: p's handler returns, or p records what it has.
LEMMA ExecuteHonest ==
    ASSUME RInv, TInv, OInv, NEW p \in Executor, ExecuteStep(p)
    PROVE  OInv'
  <1>1. /\ Procs /\ p \in Process /\ proc[p] \in ProcessState /\ LedgerTypeOK
        /\ proc \in [Process -> ProcessState] /\ HistoryTyped
    BY AtHand, Places DEF RInv, Procs, IInv
  <1>2. /\ \A q \in Executor : Honest(q)
        /\ NothingEarly /\ OutcomeIsTrue
    BY DEF OInv
  <1>3. proc[p].pc \in {"running", "inTool", "settle"}
    BY DEF ExecuteStep, StartTool, BlockTool, RenewLease, EndTool, SettleAction, At
  <1> DEFINE a == proc[p].act
  <1>4. a \in ActionId /\ proc[p].pc \in Working
    BY <1>1, <1>3, AtHand DEF Working
  <1>5. ASSUME NEW q \in Executor, q # p
        PROVE  q \in Process /\ (proc[q].pc \in Early => proc[q].act \in ActionId \ {a})
    BY <1>1, <1>4, <1>5, Places, AtHand, Labels, OneWorksOn
  <1>6. CASE StartTool(p) \/ BlockTool(p)
    <2>1. /\ proc[p].pc = "running" /\ UNCHANGED <<actions, outcome>>
          /\ Goto(p, "inTool") \/ Goto(p, "settle")
      BY <1>6 DEF StartTool, BlockTool, At, ledgerVars, history
    <2>2. PICK l \in {"inTool", "settle"} : MovedOn(p, l)
      BY <1>1, <2>1, GotoMoved
    <2>3. HonestMove(p)
      BY <2>1, <2>2 DEF HonestMove, MovedOn, Untold, Early
    <2> QED
      BY <1>1, <2>1, <2>2, <2>3, RowsStayHonest, HonestStepOf DEF MovedOn
  <1>7. CASE RenewLease(p)
    <2>1. /\ actions \in [ActionId -> ActionRow] /\ UNCHANGED <<proc, outcome>>
          /\ actions' = [actions EXCEPT ![a] = [actions[a] EXCEPT !.lease = now + LeaseSeconds]]
      BY <1>1, <1>7 DEF RenewLease, RenewActionLease, LedgerTypeOK, history
    <2>2. HonestRows
      BY <1>4, <2>1 DEF HonestRows, ActionRow
    <2>3. HonestMove(p)
      BY <2>1 DEF HonestMove
    <2> QED
      BY <1>1, <2>1, <2>2, <2>3, HonestStepOf
  <1>8. CASE EndTool(p)
    <2>1. UNCHANGED actions /\ proc[p].pc = "inTool"
      BY <1>8 DEF EndTool, At, ledgerVars
    <2>2. PICK v \in BOOLEAN :
             /\ outcome' = [outcome EXCEPT ![a] = IF v THEN "verified" ELSE "failed"]
             /\ proc' = [proc EXCEPT ![p].pc = "settle", ![p].verdict = v]
      BY <1>8 DEF EndTool
    <2>3. proc' = [proc EXCEPT ![p] = [proc[p] EXCEPT !.pc = "settle", !.verdict = v]]
      BY <1>1, <2>2
    <2>4. /\ proc'[p].pc = "settle" /\ proc'[p].act = a /\ proc'[p].verdict = v
          /\ \A q \in Process \ {p} : proc'[q] = proc[q]
      BY <1>1, <2>3 DEF ProcessState
    <2>5. /\ outcome'[a] = IF v THEN "verified" ELSE "failed"
          /\ \A b \in ActionId \ {a} : outcome'[b] = outcome[b]
      BY <1>1, <1>4, <2>2 DEF HistoryTyped
    <2>6. actions[a].status = "EXECUTING" \/ (actions[a].status = "FAILED" /\ actions[a].recovered)
      BY <1>2, <2>1 DEF Honest, Early
    <2>7. Honest(p)'
      BY <2>1, <2>4, <2>5, <2>6 DEF Honest, Untold
    <2>8. ASSUME NEW q \in Executor, q # p PROVE Honest(q)'
      <3>1. proc'[q] = proc[q] /\ (proc[q].pc \in Early => outcome'[proc[q].act] = outcome[proc[q].act])
        BY <1>5, <2>4, <2>5, <2>8
      <3> QED
        BY <1>2, <2>1, <3>1 DEF Honest, Untold, Early
    <2>9. NothingEarly' /\ OutcomeIsTrue'
      BY <1>2, <2>1, <2>5, <2>6 DEF NothingEarly, OutcomeIsTrue, Unclaimed
    <2> QED
      BY <2>7, <2>8, <2>9 DEF OInv
  <1>9. CASE SettleAction(p)
    <2>1. /\ FinishOrNot(a, proc[p].verdict) /\ proc[p].pc = "settle" /\ UNCHANGED outcome
          /\ proc' = [proc EXCEPT ![p] = [proc[p] EXCEPT !.pc = "loop", !.verdict = FALSE]]
      BY <1>1, <1>9 DEF SettleAction, At, history
    <2>2. proc[p].verdict \in BOOLEAN
      BY <1>1 DEF ProcessState
    <2>3. /\ \/ UNCHANGED actions
             \/ /\ actions[a].status = "EXECUTING" /\ actions'[a].status = Verdict(proc[p].verdict)
                /\ actions'[a].recovered = actions[a].recovered
          /\ \A b \in ActionId \ {a} : actions'[b] = actions[b]
      BY <1>1, <1>4, <2>1, <2>2, FinishWrites
    <2>4. /\ proc'[p].pc = "loop" /\ ~proc'[p].verdict
          /\ \A q \in Process \ {p} : proc'[q] = proc[q]
      BY <1>1, <2>1 DEF ProcessState
    <2>5. proc[p].verdict <=> outcome[a] = "verified"
      BY <1>2, <2>1 DEF Honest
    <2>6. Honest(p)'
      BY <2>4 DEF Honest, Untold, Early
    <2>7. ASSUME NEW q \in Executor, q # p PROVE Honest(q)'
      <3>1. proc'[q] = proc[q] /\ (proc[q].pc \in Early => actions'[proc[q].act] = actions[proc[q].act])
        BY <1>5, <2>3, <2>4, <2>7
      <3> QED
        BY <1>2, <2>1, <3>1 DEF Honest, Untold, Early
    <2>8. NothingEarly'
      BY <1>2, <2>1, <2>3 DEF NothingEarly, Verdict, Unclaimed
    <2>9. OutcomeIsTrue'
      BY <1>2, <2>1, <2>3, <2>5 DEF OutcomeIsTrue, Verdict
    <2> QED
      BY <2>6, <2>7, <2>8, <2>9 DEF OInv
  <1> QED
    BY <1>6, <1>7, <1>8, <1>9 DEF ExecuteStep

LEMMA SweepHonest ==
    ASSUME RInv, OInv, NEW p \in Sweeper, SweepStep(p)
    PROVE  OInv'
  <1>1. Procs /\ LedgerTypeOK /\ p \in Process
    BY Places DEF RInv, IInv, Sweeper
  <1>2. proc[p].pc \in {"bootSweep", "sweep"} /\ UNCHANGED outcome
    BY DEF SweepStep, At, history
  <1>3. HonestRows
    <2>1. CASE UNCHANGED actions
      BY <2>1, RowsStayHonest
    <2>2. CASE RecoverStale(p)
      <3>1. ASSUME NEW a \in ActionId
            PROVE  \/ actions'[a] = actions[a]
                   \/ /\ actions[a].status = "EXECUTING"
                      /\ actions'[a].status = "FAILED" /\ actions'[a].recovered
        <4>1. \/ actions'[a] = actions[a]
              \/ /\ actions[a].status = "EXECUTING"
                 /\ actions'[a] = [actions[a] EXCEPT !.status = "FAILED", !.recovered = TRUE]
          BY <2>2 DEF RecoverStale
        <4>2. actions[a] \in ActionRow
          BY <1>1 DEF LedgerTypeOK
        <4> QED
          BY <4>1, <4>2 DEF ActionRow
      <3> QED
        BY <3>1 DEF HonestRows
    <2> QED
      BY <2>1, <2>2 DEF SweepStep, SelectStale, ledgerVars
  <1>4. CASE UNCHANGED proc
    BY <1>1, <1>2, <1>3, <1>4, HonestStepOf DEF HonestMove
  <1>5. CASE Goto(p, Swept(p))
    <2>1. Swept(p) \in {"idle", "poll", "claim"}
      BY <1>2 DEF Swept
    <2> QED
      BY <1>1, <1>2, <1>3, <1>5, <2>1, GotoMoved, LeavesHonest DEF Early
  <1> QED
    BY <1>4, <1>5 DEF SweepStep

\* A claim: w takes the approved action a in hand.
LEMMA ClaimHonest ==
    ASSUME RInv, OInv, UNCHANGED outcome, NEW w \in Executor, NEW a \in ActionId,
           proc[w].pc = "claim", proc'[w].pc \in {"claimed", "execute"}, proc'[w].act = a,
           proc'[w].verdict = proc[w].verdict,
           \A q \in Process \ {w} : proc'[q] = proc[q],
           actions[a].status = "APPROVED", actions'[a].status = "EXECUTING",
           \A b \in ActionId \ {a} : actions'[b] = actions[b]
    PROVE  OInv'
  <1>1. HonestRows
    BY DEF HonestRows, Unclaimed
  <1>2. ~proc[w].verdict /\ w \in Process
    BY NoVerdictYet, Places
  <1>3. HonestMove(w)
    BY <1>2 DEF HonestMove
  <1> QED
    BY <1>1, <1>2, <1>3, HonestStepOf

LEMMA WorkerHonest ==
    ASSUME RInv, TInv, OInv, NEW w \in Dispatcher, WorkerStep(w) \/ WorkerExit(w)
    PROVE  OInv'
  <1>1. /\ Procs /\ LedgerTypeOK /\ HandsOneRow /\ w \in Process /\ w \in Executor /\ w \in Sweeper
        /\ w \in WorkerId /\ proc[w] \in ProcessState /\ proc \in [Process -> ProcessState]
    BY AtHand, Places DEF RInv, IInv, Sweeper, WorkerId, Procs
  <1>2. UNCHANGED outcome
    BY DEF WorkerStep, WorkerExit, BootWorker, SweepStep, HeartbeatWorker, ClaimStep, DropClaim,
           history
  <1>3. CASE SweepStep(w)
    BY <1>1, <1>3, SweepHonest
  <1>4. CASE BootWorker(w) \/ HeartbeatWorker(w) \/ WorkerExit(w)
    <2>1. /\ UNCHANGED actions
          /\ proc[w].pc \in {"off", "register", "poll", "dying", "stopping"}
          /\ \E l \in {"bootSweep", "sweep", "claim", "register", "stopping", "stopped"} : Goto(w, l)
      BY <1>4 DEF BootWorker, HeartbeatWorker, WorkerExit, At, RegisterWorker, DrainWorker,
                  StopWorker, ledgerVars
    <2> QED
      BY <1>1, <1>2, <2>1, GotoMoved, RowsStayHonest, LeavesHonest DEF Early
  <1>5. CASE ClaimStep(w)
    <2>1. proc[w].pc = "claim"
      BY <1>5 DEF ClaimStep, At
    <2>2. CASE SelectDispatchable(w) /\ UNCHANGED proc
      <3>1. UNCHANGED actions
        BY <2>2 DEF SelectDispatchable
      <3> QED
        BY <1>1, <1>2, <2>2, <3>1, RowsStayHonest, HonestStepOf DEF HonestMove
    <2>3. CASE /\ ClaimDispatched(w)
               /\ \E a \in hand[w].rows :
                     proc' = [proc EXCEPT ![w].pc = "claimed", ![w].step = "flag",
                                          ![w].act = a, ![w].run = RunOf[a]]
      <3>1. PICK a \in hand[w].rows :
               proc' = [proc EXCEPT ![w].pc = "claimed", ![w].step = "flag",
                                    ![w].act = a, ![w].run = RunOf[a]]
        BY <2>3
      <3>2. proc' = [proc EXCEPT ![w] = [proc[w] EXCEPT !.pc = "claimed", !.step = "flag",
                                                        !.act = a, !.run = RunOf[a]]]
        BY <1>1, <3>1
      <3>3. /\ proc'[w].pc = "claimed" /\ proc'[w].act = a /\ proc'[w].verdict = proc[w].verdict
            /\ \A q \in Process \ {w} : proc'[q] = proc[q]
        BY <1>1, <3>2 DEF ProcessState
      <3>4. /\ a \in ActionId /\ actions[a].status = "APPROVED" /\ actions'[a].status = "EXECUTING"
            /\ \A b \in ActionId \ {a} : actions'[b] = actions[b]
        BY <1>1, <2>3, ClaimTakes
      <3> QED
        BY <1>1, <1>2, <2>1, <3>3, <3>4, ClaimHonest
    <2>4. CASE Goto(w, "poll") /\ (LoseClaim(w) \/ UNCHANGED ledgerVars)
      <3>1. UNCHANGED actions
        BY <2>4 DEF LoseClaim, ledgerVars
      <3> QED
        BY <1>1, <1>2, <2>1, <2>4, <3>1, GotoMoved, RowsStayHonest, LeavesHonest DEF Early
    <2> QED
      BY <1>5, <2>2, <2>3, <2>4 DEF ClaimStep
  <1>6. CASE DropClaim(w)
    <2> DEFINE a == proc[w].act
    <2>1. /\ proc[w].pc = "drop" /\ FinishOrNot(a, FALSE)
          /\ proc' = [proc EXCEPT ![w] = [proc[w] EXCEPT !.pc = "poll", !.act = NoAction]]
      BY <1>1, <1>6 DEF DropClaim, At
    <2>2. a \in ActionId /\ proc[w].pc \in Working
      BY <1>1, <2>1, AtHand DEF Working
    <2>3. /\ \/ UNCHANGED actions
             \/ /\ actions[a].status = "EXECUTING" /\ actions'[a].status = Verdict(FALSE)
                /\ actions'[a].recovered = actions[a].recovered
          /\ \A b \in ActionId \ {a} : actions'[b] = actions[b]
      BY <1>1, <2>1, <2>2, FinishWrites
    <2>4. /\ proc'[w].pc = "poll" /\ proc'[w].verdict = proc[w].verdict
          /\ \A q \in Process \ {w} : proc'[q] = proc[q]
      BY <1>1, <2>1 DEF ProcessState
    <2>5. /\ \A q \in Executor : Honest(q)
          /\ NothingEarly /\ OutcomeIsTrue
      BY DEF OInv
    <2>6. Honest(w)'
      <3>1. ~proc[w].verdict
        BY <1>1, <2>1, NoVerdictYet
      <3> QED
        BY <2>4, <3>1 DEF Honest, Untold, Early
    <2>7. ASSUME NEW q \in Executor, q # w PROVE Honest(q)'
      <3>1. q \in Process /\ (proc[q].pc \in Early => proc[q].act \in ActionId \ {a})
        BY <1>1, <2>2, <2>7, Places, AtHand, Labels, OneWorksOn
      <3>2. proc'[q] = proc[q] /\ (proc[q].pc \in Early => actions'[proc[q].act] = actions[proc[q].act])
        BY <2>3, <2>4, <2>7, <3>1
      <3> QED
        BY <1>2, <2>5, <3>2 DEF Honest, Untold, Early
    <2>8. NothingEarly'
      BY <1>2, <2>3, <2>5 DEF NothingEarly, Verdict, Unclaimed
    <2>9. actions[a].status = "EXECUTING" => outcome[a] = "none"
      BY <1>1, <2>1, <2>5 DEF Honest
    <2>10. OutcomeIsTrue'
      BY <1>2, <2>3, <2>5, <2>9 DEF OutcomeIsTrue, Verdict
    <2> QED
      BY <2>6, <2>7, <2>8, <2>10 DEF OInv
  <1> QED
    BY <1>3, <1>4, <1>5, <1>6 DEF WorkerStep

LEMMA WorkerEndsHonest ==
    ASSUME RInv, OInv, NEW w \in Dispatcher, StopSignal(w) \/ WorkerCrash(w)
    PROVE  OInv'
  <1>1. /\ Procs /\ w \in Process /\ proc[w] \in ProcessState /\ proc \in [Process -> ProcessState]
        /\ UNCHANGED <<actions, outcome>>
    BY AtHand, Places DEF RInv, WorkerId, Procs, StopSignal, WorkerCrash, Abandon, ledgerVars,
                          history
  <1>2. CASE StopSignal(w)
    <2>1. proc[w].pc = "poll" /\ Goto(w, "dying")
      BY <1>2 DEF StopSignal, At
    <2> QED
      BY <1>1, <2>1, GotoMoved, RowsStayHonest, LeavesHonest DEF Early
  <1>3. CASE WorkerCrash(w)
    <2>1. proc' = [proc EXCEPT ![w] = [proc[w] EXCEPT !.pc = "killed", !.step = "none"]]
      BY <1>1, <1>3 DEF WorkerCrash
    <2>2. MovedOn(w, "killed") /\ "killed" \notin Early
      BY <1>1, <2>1 DEF MovedOn, ProcessState, Early
    <2> QED
      BY <1>1, <2>2, RowsStayHonest, LeavesHonest
  <1> QED
    BY <1>2, <1>3

LEMMA ApiHonest ==
    ASSUME RInv, OInv, ApiStep
    PROVE  OInv'
  <1>1. /\ LedgerTypeOK /\ Api \in Process /\ Api \in Sweeper /\ Api \notin Executor
        /\ proc \in [Process -> ProcessState]
    BY Places DEF RInv, IInv, Sweeper, Speaker, Procs
  <1>2. CASE SweepStep(Api)
    BY <1>1, <1>2, SweepHonest
  <1>3. CASE Approve \/ Reject \/ ConfirmApproval
    <2>1. UNCHANGED outcome /\ \A q \in Process \ {Api} : proc'[q] = proc[q]
      BY <1>1, <1>3 DEF Approve, Reject, ConfirmApproval, Goto, Transit, history
    <2>2. HonestRows
      <3>1. CASE UNCHANGED actions
        BY <3>1, RowsStayHonest
      <3>2. ASSUME NEW r, ApprovePendingAction(r) \/ RejectPendingAction(r)
            PROVE  HonestRows
        <4>1. ASSUME NEW a \in ActionId
              PROVE  \/ actions'[a] = actions[a]
                     \/ /\ actions[a].status = "PENDING"
                        /\ actions'[a].status \in {"APPROVED", "REJECTED"}
          <5>1. \/ actions'[a] = actions[a]
                \/ /\ actions[a].status = "PENDING"
                   /\ \/ actions'[a] = [actions[a] EXCEPT !.status = "APPROVED", !.approvedAt = now]
                      \/ actions'[a] = [actions[a] EXCEPT !.status = "REJECTED"]
            BY <3>2 DEF ApprovePendingAction, RejectPendingAction
          <5>2. actions[a] \in ActionRow
            BY <1>1 DEF LedgerTypeOK
          <5> QED
            BY <5>1, <5>2 DEF ActionRow
        <4> QED
          BY <4>1 DEF HonestRows, Unclaimed
      <3> QED
        BY <1>3, <3>1, <3>2 DEF Approve, Reject, ConfirmApproval, ledgerVars
    <2> QED
      BY <1>1, <2>1, <2>2, HonestStepOf
  <1> QED
    BY <1>2, <1>3 DEF ApiStep

LEMMA ContinuationHonest ==
    ASSUME RInv, OInv, NEW c \in Continuation, NEW r \in RunId,
           ContinuationStep(c) \/ ContinueRequest(c, r)
    PROVE  OInv'
  <1>1. /\ Procs /\ LedgerTypeOK /\ HandsOneRow /\ c \in Process /\ c \in Executor
        /\ c \in WorkerId /\ proc[c] \in ProcessState /\ proc \in [Process -> ProcessState]
    BY AtHand, Places DEF RInv, IInv, Procs, WorkerId
  <1>2. UNCHANGED outcome /\ proc[c].pc \in {"claim", "idle"}
    BY DEF ContinuationStep, ContinueRequest, At, history
  <1>3. CASE ContinueRequest(c, r)
    <2>1. /\ UNCHANGED actions
          /\ proc' = [proc EXCEPT ![c] = [proc[c] EXCEPT !.pc = "open", !.step = "flag", !.run = r]]
      BY <1>1, <1>3 DEF ContinueRequest, ledgerVars
    <2>2. /\ proc'[c].pc \notin Early /\ proc'[c].verdict = proc[c].verdict
          /\ \A q \in Process \ {c} : proc'[q] = proc[q]
      BY <1>1, <2>1 DEF ProcessState, Early
    <2>3. HonestMove(c)
      BY <1>1, <1>2, <2>2, NoVerdictYet DEF HonestMove
    <2> QED
      BY <1>1, <1>2, <2>1, <2>2, <2>3, RowsStayHonest, HonestStepOf
  <1>4. CASE SelectApproved(proc[c].run, c) /\ UNCHANGED proc
    <2>1. UNCHANGED actions
      BY <1>4 DEF SelectApproved
    <2> QED
      BY <1>1, <1>2, <1>4, <2>1, RowsStayHonest, HonestStepOf DEF HonestMove
  <1>5. CASE /\ ClaimApproved(c) /\ proc[c].pc = "claim"
             /\ \E a \in hand[c].rows :
                   proc' = [proc EXCEPT ![c].pc = "execute", ![c].step = "flag", ![c].act = a]
    <2>1. PICK a \in hand[c].rows :
             proc' = [proc EXCEPT ![c].pc = "execute", ![c].step = "flag", ![c].act = a]
      BY <1>5
    <2>2. proc' = [proc EXCEPT ![c] = [proc[c] EXCEPT !.pc = "execute", !.step = "flag",
                                                      !.act = a]]
      BY <1>1, <2>1
    <2>3. /\ proc'[c].pc = "execute" /\ proc'[c].act = a /\ proc'[c].verdict = proc[c].verdict
          /\ \A q \in Process \ {c} : proc'[q] = proc[q]
      BY <1>1, <2>2 DEF ProcessState
    <2>5. ClaimApproved(c)
      BY <1>5
    <2>4. /\ a \in ActionId /\ actions[a].status = "APPROVED" /\ actions'[a].status = "EXECUTING"
          /\ \A b \in ActionId \ {a} : actions'[b] = actions[b]
      BY <1>1, <2>1, <2>5, ClaimTakes
    <2> QED
      BY <1>1, <1>2, <1>5, <2>3, <2>4, ClaimHonest
  <1>6. CASE Goto(c, "end") /\ (LoseClaim(c) \/ UNCHANGED ledgerVars)
    <2>1. UNCHANGED actions
      BY <1>6 DEF LoseClaim, ledgerVars
    <2> QED
      BY <1>1, <1>2, <1>6, <2>1, GotoMoved, RowsStayHonest, LeavesHonest DEF Early
  <1> QED
    BY <1>3, <1>4, <1>5, <1>6 DEF ContinuationStep, At

LEMMA CrashHonest ==
    ASSUME RInv, OInv, ApiCrash
    PROVE  OInv'
  <1>1. UNCHANGED <<actions, outcome>>
    BY DEF ApiCrash, Abandon, ledgerVars, history
  <1>2. proc' = [v \in Process |->
                  IF v = Api THEN [proc[v] EXCEPT !.pc = "bootSweep", !.step = "none"]
                  ELSE IF v \in Continuation /\ proc[v].pc \notin {"idle", "end"}
                  THEN [proc[v] EXCEPT !.pc = "killed", !.step = "none"]
                  ELSE proc[v]]
    BY DEF ApiCrash
  <1>3. ASSUME NEW q \in Executor PROVE HonestMove(q)
    <2>1. q \in Process /\ q # Api /\ proc[q] \in ProcessState
      BY AtHand, Places DEF RInv
    <2>2. proc'[q] = [proc[q] EXCEPT !.pc = "killed", !.step = "none"] \/ proc'[q] = proc[q]
      BY <1>2, <2>1
    <2>3. proc'[q].pc = "killed" \/ proc'[q] = proc[q]
      BY <2>1, <2>2 DEF ProcessState
    <2> QED
      BY <2>3 DEF HonestMove, Early
  <1> QED
    BY <1>1, <1>3, RowsStayHonest, HonestStep

\* A step that concerns neither a process nor a row.
LEMMA BystanderHonest ==
    ASSUME RInv, OInv, UNCHANGED <<actions, proc, outcome>>
    PROVE  OInv'
  BY RowsStayHonest, HonestStep DEF HonestMove

LEMMA OutcomeStepOK ==
    ASSUME RInv, TInv, OInv, [RuntimeNext]_vars
    PROVE  OInv'
  <1>1. ASSUME NEW p \in Process, ProcessStep(p) PROVE OInv'
    <2>1. CASE LifecycleCall(p)
      BY <2>1, LifecycleHonest
    <2>2. CASE p \in Driver /\ DriverStart(p)
      BY <2>2, DriverStartHonest
    <2>3. CASE p \in Driver \cup Executor /\ ReActStep(p)
      BY <2>3, ReActHonest DEF Speaker
    <2>4. CASE p \in Executor /\ ExecuteStep(p)
      BY <2>4, ExecuteHonest
    <2>5. CASE p \in Dispatcher /\ (WorkerStep(p) \/ WorkerExit(p))
      BY <2>5, WorkerHonest
    <2>6. CASE p \in Continuation /\ ContinuationStep(p)
      <3>1. \E r : r \in RunId
        BY <2>6, AtHand, Places DEF RInv, LocalOK, ContinuationStep, At
      <3> QED
        BY <2>6, <3>1, ContinuationHonest
    <2>7. CASE p = Api /\ ApiStep
      BY <2>7, ApiHonest
    <2> QED
      BY <1>1, <2>1, <2>2, <2>3, <2>4, <2>5, <2>6, <2>7 DEF ProcessStep
  <1>2. ASSUME NEW r \in RunId, CancelRequest(r) PROVE OInv'
    BY <1>2, BystanderHonest DEF CancelRequest, ledgerVars, history
  <1>3. ASSUME NEW r \in RunId, AuthorizeRequest(r) PROVE OInv'
    <2>1. UNCHANGED <<actions, outcome>> /\ Api \in Process /\ Api \notin Executor
      BY <1>3, Places DEF AuthorizeRequest, ledgerVars, Speaker
    <2>2. \A q \in Process \ {Api} : proc'[q] = proc[q]
      BY <1>3 DEF AuthorizeRequest, RInv, Procs
    <2> QED
      BY <2>1, <2>2, RowsStayHonest, HonestStepOf
  <1>4. ASSUME NEW c \in Continuation, NEW r \in RunId, ContinueRequest(c, r) PROVE OInv'
    BY <1>4, ContinuationHonest
  <1>5. ASSUME NEW w \in Dispatcher, DrainRequest(w) PROVE OInv'
    BY <1>5, BystanderHonest DEF DrainRequest, DrainWorker
  <1>6. ASSUME NEW w \in Dispatcher, StopSignal(w) \/ WorkerCrash(w) PROVE OInv'
    BY <1>6, WorkerEndsHonest
  <1>7. CASE ApiCrash
    BY <1>7, CrashHonest
  <1>8. CASE TimePasses
    BY <1>8, BystanderHonest DEF TimePasses, Tick, history
  <1>9. CASE UNCHANGED vars
    BY <1>9, BystanderHonest DEF vars, ledgerVars, history
  <1> QED
    BY <1>1, <1>2, <1>3, <1>4, <1>5, <1>6, <1>7, <1>8, <1>9 DEF RuntimeNext

LEMMA OutcomeInit ==
    ASSUME RuntimeInit
    PROVE  OInv
  <1>1. \A a \in ActionId : outcome[a] = "none" /\ actions[a].status = "ABSENT"
    BY DEF RuntimeInit, LedgerInit
  <1>2. ASSUME NEW p \in Executor PROVE Honest(p)
    <2>1. /\ p \in Process /\ p \notin Driver /\ p # Api
          /\ p \in Dispatcher => p \notin Continuation
      BY Places DEF Executor
    <2>2. proc[p].pc = StartOf(p) /\ proc[p].verdict = FALSE
      BY <2>1 DEF RuntimeInit
    <2>3. StartOf(p) \in {"off", "idle"}
      BY <2>1 DEF StartOf, Executor
    <2> QED
      BY <2>2, <2>3 DEF Honest, Early, Untold
  <1> QED
    BY <1>1, <1>2 DEF OInv, NothingEarly, OutcomeIsTrue

(* The durable outcome agrees with what happened: EXECUTED only after a    *)
(* verified run, FAILED by its executor only when there was none; only a   *)
(* sweep may fail an action that succeeded.                                *)
THEOREM RuntimeOutcome == RuntimeSpec => []OutcomeIsTrue
  <1>1. RuntimeInit => OInv
    BY OutcomeInit
  <1>2. (RInv /\ TInv) /\ OInv /\ [RuntimeNext]_vars => OInv'
    BY OutcomeStepOK
  <1>3. OInv => OutcomeIsTrue
    BY DEF OInv
  <1> QED
    BY <1>1, <1>2, <1>3, ThreadInvariant, PTL DEF RuntimeSpec

--------------------------------------------------------------------------
(* Who may move a run.                                                     *)

Phases == {"check", "write", "release"}
Underway == {"UNDERSTAND", "VALIDATE", "PLAN", "EXECUTE", "AUTHORIZATION_REQUIRED"}

\* Inside transition, where p stands says what it is about to write: a
\* cancellation somebody asked for, a step on the way, or the driver's end.
GoalFits(p) ==
    proc[p].step \in Phases =>
        /\ proc[p].pc \in Flagging => proc[p].goal = "CANCELLED" /\ cancelRequested[proc[p].run]
        /\ proc[p].pc \in {"park", "toValidate", "toPlan", "toExecute"} => proc[p].goal \in Underway
        /\ proc[p].pc = "finish" => proc[p].goal \in Terminal
        /\ proc[p].pc = "decide" =>
              /\ p = Api
              /\ proc[p].goal = "EXECUTE" \/ (proc[p].goal = "PARTIAL" /\ proc[p].step = "check")
        /\ proc[p].step = "release" => proc[p].goal \in Terminal

RunsUnderway == \A r \in RunId : runs[r] \in {"ABSENT"} \cup Underway \cup Terminal
Registered == \A r \in RunId : proc[r].pc # "new" => runs[r] # "ABSENT"

\* Over for good, and over without anybody having asked for it.
Over(r)  == cancelRequested[r] \/ runs[r] \in Terminal
Ended(r) == ~cancelRequested[r] /\ runs[r] \in Terminal

AtRelease(r) == proc[r].pc = "finish" /\ proc[r].step = "release"

\* A run that ended by itself was ended by its driver, before anything
\* else happened to it: nobody is left to move it again.
EndedAlone ==
    \A r \in RunId : Ended(r) =>
        /\ proc[r].pc = "end" \/ AtRelease(r)
        /\ \A a \in ActionId : RunOf[a] = r => actions[a].status = "ABSENT"
        /\ ~(proc[Api].pc \in Resolving /\ proc[Api].run = r)

\* A driver that releases its workspace has ended its run.
Releasing == \A r \in RunId : AtRelease(r) => Over(r)

\* The labels of the API process in its own right.
ApiInPlace == proc[Api].pc \in {"bootSweep", "idle"} \cup Resolving

WInv ==
    /\ \A p \in Process : GoalFits(p)
    /\ RunsUnderway /\ Registered /\ EndedAlone /\ Releasing /\ ApiInPlace /\ WorkspaceOwned
Waiting == {"new", "lock", "refused"}

\* A step of the driver of r that neither registers nor locks nor ends it.
DriverStays(r) ==
    /\ proc'[r].pc # "new" => proc[r].pc # "new"
    /\ proc'[r].pc \notin Waiting => proc[r].pc \notin Waiting
    /\ proc[r].pc = "end" => proc'[r].pc = "end"
    /\ AtRelease(r) => proc'[r].pc = "end" \/ AtRelease(r)'
    /\ AtRelease(r)' => AtRelease(r)

LEMMA EndedHasNoWorker ==
    ASSUME RInv, TInv, EndedAlone, NEW r \in RunId, Ended(r),
           NEW p \in Executor, proc[p].pc \in Working
    PROVE  proc[p].run # r
  <1>1. p \in Process /\ p # NoWorker
    BY Places
  <1>2. /\ proc[p].act \in ActionId /\ actions[proc[p].act].worker = p
        /\ RunOf[proc[p].act] = proc[p].run
    BY <1>1, AtHand DEF RInv, TInv, Owns
  <1>3. actions[proc[p].act].status # "ABSENT"
    BY <1>1, <1>2 DEF RInv, IInv, LeaseWithinHorizon, Unclaimed
  <1> QED
    BY <1>2, <1>3 DEF EndedAlone

\* What has ended by itself is not taken up again.
LEMMA EndedStaysAlone ==
    ASSUME RInv, TInv, EndedAlone, ThreadStep, NEW r \in RunId, Ended(r)
    PROVE  /\ \A a \in ActionId : RunOf[a] = r => actions'[a].status = "ABSENT"
           /\ ~(proc'[Api].pc \in Resolving /\ proc'[Api].run = r)
  <1>1. /\ proc[r].pc = "end" \/ AtRelease(r)
        /\ \A a \in ActionId : RunOf[a] = r => actions[a].status = "ABSENT"
        /\ ~(proc[Api].pc \in Resolving /\ proc[Api].run = r)
    BY DEF EndedAlone
  <1>2. CASE QuietStep
    BY <1>1, <1>2, Places DEF QuietStep, RowsSettle, Quiet
  <1>3. ASSUME NEW p \in Speaker, Others(p) PROVE proc'[Api] = proc[Api]
    BY <1>3, Places DEF Others
  <1>4. ASSUME NEW p \in Speaker, NEW a \in ActionId, Asks(p, a) PROVE RunOf[a] # r
    <2>1. proc[p].pc = "request" /\ RunOf[a] = proc[p].run
      BY <1>4 DEF Asks
    <2>2. CASE p \in Driver
      BY <1>1, <2>1, <2>2 DEF TInv, DriverFirst, AtRelease
    <2>3. CASE p \in Executor
      BY <2>1, <2>3, EndedHasNoWorker DEF Working
    <2> QED
      BY <2>2, <2>3 DEF Speaker
  <1>5. CASE \E p \in Speaker, a \in ActionId : Asks(p, a)
    BY <1>1, <1>3, <1>4, <1>5 DEF Asks, RowsKept
  <1>6. CASE \E p \in Speaker : Shows(p)
    BY <1>1, <1>3, <1>6 DEF Shows, RowsKept
  <1>7. CASE \E s \in RunId : Hears(s)
    <2>1. PICK s \in RunId : Hears(s)
      BY <1>7
    <2>2. /\ pendingAuth[s] \in ActionId /\ actions[pendingAuth[s]].status = "PENDING"
          /\ RunOf[pendingAuth[s]] = s
      BY <2>1, ShownTyped DEF Hears, TInv, ShownOnly
    <2> QED
      BY <1>1, <2>1, <2>2 DEF Hears, RowsKept
  <1>8. CASE \E verdict \in {"APPROVED", "REJECTED"} : Decides(verdict)
    BY <1>1, <1>8 DEF Decides, Resolving, Answering
  <1>9. CASE \E p \in Executor, a \in ActionId : TakesUp(p, a)
    <2>1. PICK p \in Executor, a \in ActionId : TakesUp(p, a)
      BY <1>9
    <2> QED
      BY <1>1, <1>3, <2>1, Places DEF TakesUp, RowsKept
  <1> QED
    BY <1>2, <1>5, <1>6, <1>7, <1>8, <1>9 DEF ThreadStep

\* A step in which p moves and no run.
LEMMA CalmStep ==
    ASSUME RInv, TInv, WInv, ThreadStep, UNCHANGED runs,
           \A s \in RunId : cancelRequested[s] => cancelRequested'[s],
           \A s \in RunId : (locks[WorkspaceOf[s]] = s /\ ~Over(s)) => locks'[WorkspaceOf[s]] = s,
           \A q \in Process : GoalFits(q)',
           \A r \in Driver : DriverStays(r),
           ApiInPlace'
    PROVE  WInv'
  <1>1. /\ RunsUnderway /\ Registered /\ EndedAlone /\ Releasing /\ WorkspaceOwned
    BY DEF WInv
  <1>2. RunsUnderway'
    BY <1>1 DEF RunsUnderway
  <1>3. Registered'
    BY <1>1, Places DEF Registered, DriverStays
  <1>4. EndedAlone'
    <2> SUFFICES ASSUME NEW r \in RunId, Ended(r)'
                 PROVE  /\ proc'[r].pc = "end" \/ AtRelease(r)'
                        /\ \A a \in ActionId : RunOf[a] = r => actions'[a].status = "ABSENT"
                        /\ ~(proc'[Api].pc \in Resolving /\ proc'[Api].run = r)
      BY DEF EndedAlone
    <2>1. Ended(r)
      BY DEF Ended
    <2>2. proc[r].pc = "end" \/ AtRelease(r)
      BY <1>1, <2>1 DEF EndedAlone
    <2> QED
      BY <1>1, <2>1, <2>2, Places, EndedStaysAlone DEF DriverStays
  <1>5. Releasing'
    BY <1>1, Places DEF Releasing, DriverStays, Over
  <1>6. WorkspaceOwned'
    <2> SUFFICES ASSUME NEW r \in RunId, ~cancelRequested'[r], proc'[r].pc \notin Waiting,
                        runs'[r] \notin Terminal
                 PROVE  locks'[WorkspaceOf[r]] = r
      BY DEF WorkspaceOwned, Waiting
    <2>1. ~Over(r) /\ proc[r].pc \notin Waiting
      BY Places DEF Over, DriverStays
    <2> QED
      BY <1>1, <2>1 DEF WorkspaceOwned, Over, Waiting
  <1> QED
    BY <1>2, <1>3, <1>4, <1>5, <1>6 DEF WInv

LEMMA GoalsElsewhere ==
    ASSUME RInv, WInv, NEW p \in Process, \A q \in Process \ {p} : proc'[q] = proc[q],
           \A s \in RunId : cancelRequested[s] => cancelRequested'[s]
    PROVE  /\ \A q \in Process \ {p} : GoalFits(q)'
           /\ \A r \in Driver \ {p} : DriverStays(r)
           /\ p # Api => ApiInPlace'
  <1>1. ASSUME NEW q \in Process \ {p} PROVE GoalFits(q)'
    <2>1. proc[q].pc \in Flagging => proc[q].run \in RunId
      BY AtHand DEF RInv, Flagging, NeedsRun, Working
    <2> QED
      BY <2>1 DEF WInv, GoalFits
  <1>2. ASSUME NEW r \in Driver \ {p} PROVE DriverStays(r)
    BY Places DEF DriverStays, AtRelease
  <1>3. p # Api => ApiInPlace'
    BY Places DEF WInv, ApiInPlace
  <1> QED
    BY <1>1, <1>2, <1>3

\* A step of p outside transition, with the run tables as they were.
LEMMA IdleStep ==
    ASSUME RInv, TInv, WInv, ThreadStep, UNCHANGED <<runs, locks>>, NEW p \in Process,
           \A q \in Process \ {p} : proc'[q] = proc[q],
           \A s \in RunId : cancelRequested[s] => cancelRequested'[s],
           GoalFits(p)', p \in Driver => DriverStays(p), p = Api => ApiInPlace'
    PROVE  WInv'
  BY GoalsElsewhere, CalmStep

LEMMA BystanderCalm ==
    ASSUME RInv, TInv, WInv, ThreadStep, UNCHANGED <<runs, locks, proc>>,
           \A s \in RunId : cancelRequested[s] => cancelRequested'[s]
    PROVE  WInv'
  <1>1. \A q \in Process : GoalFits(q)' 
    <2> SUFFICES ASSUME NEW q \in Process PROVE GoalFits(q)'
      OBVIOUS
    <2>1. proc[q].pc \in Flagging => proc[q].run \in RunId
      BY AtHand DEF RInv, Flagging, NeedsRun, Working
    <2> QED
      BY <2>1 DEF WInv, GoalFits
  <1>2. (\A r \in Driver : DriverStays(r)) /\ ApiInPlace'
    BY DEF DriverStays, AtRelease, WInv, ApiInPlace
  <1> QED
    BY <1>1, <1>2, CalmStep

\* A lifecycle call that returns leaves nothing half done.
LEMMA ResumeFits ==
    ASSUME RInv, TInv, WInv, NEW p \in Process, NEW result \in {"no", "ok", "illegal"},
           proc[p].pc \in Calling, result = "no" => proc[p].pc \in Flagging, Resume(p, result)
    PROVE  /\ GoalFits(p)' /\ (p \in Driver => DriverStays(p)) /\ (p = Api => ApiInPlace')
  <1> DEFINE m == After(p, result)
  <1>1. /\ proc'[p].pc = m /\ proc'[p].step = StepAt(m) /\ proc'[p].goal = GoalAt(m)
    BY ResumeMoved DEF RInv, MovedOn
  <1>2. /\ proc[p].pc = "open" => m \in {"claim", "end"}
        /\ proc[p].pc = "loop" => m \in {"request", "loop", "poll", "drop", "end"}
        /\ proc[p].pc = "decide" => m = "idle"
        /\ m \notin {"new", "lock", "refused", "finish"}
        /\ proc[p].pc = "finish" => m = "end"
        /\ m # "decide"
    BY Returns DEF Calling, Flagging
  <1> HIDE DEF m
  <1>3. /\ StepAt(m) \in Phases => m \in {"toValidate", "toPlan", "toExecute"}
        /\ m \in {"toValidate", "toPlan", "toExecute"} => StepAt(m) = "check" /\ GoalAt(m) \in Underway
    BY DEF StepAt, GoalAt, Phases, Underway
  <1>4. GoalFits(p)'
    BY <1>1, <1>3 DEF GoalFits, Flagging
  <1>5. proc[p].pc \notin Waiting \cup {"end"}
    BY DEF Calling, Flagging, Waiting
  <1>6. p \in Driver => DriverStays(p)
    BY <1>1, <1>2, <1>5 DEF DriverStays, AtRelease, Waiting
  <1>7. p = Api => ApiInPlace'
    <2>1. p = Api => proc[p].pc = "decide"
      BY DEF WInv, ApiInPlace, Calling, Flagging, Resolving, Answering
    <2> QED
      BY <1>1, <1>2, <2>1 DEF ApiInPlace
  <1> QED
    BY <1>4, <1>6, <1>7

LEMMA CallPlace ==
    ASSUME RInv, TInv, WInv, NEW p \in Process, LifecycleCall(p)
    PROVE  /\ Procs /\ ThreadStep /\ proc[p].pc \in Calling /\ proc[p].run \in RunId
           /\ proc[p].step = "flag" => proc[p].pc \in Flagging
           /\ UNCHANGED actions /\ UNCHANGED cancelRequested
           /\ \A q \in Process \ {p} : proc'[q] = proc[q]
           /\ GoalFits(p)
           /\ proc[p].pc \in Starting => p \in Driver /\ proc[p].run = p
           /\ p = Api => proc[p].pc = "decide"
  <1>1. Procs /\ LocalOK(p, proc[p]) /\ proc[p].pc \in Calling /\ UNCHANGED actions
    BY AtHand, LifecycleMoved DEF RInv
  <1>2. ThreadStep /\ UNCHANGED cancelRequested
    BY LifecycleQuiet DEF ThreadStep, LifecycleCall, ReadCancelFlag, CheckTransition,
       WriteTransition, ReleaseLock, BuildFails, UpdateRun, ReleaseSessionLock, runVars
  <1>3. \A q \in Process \ {p} : proc'[q] = proc[q]
    BY LifecycleMoved DEF MovedOn
  <1>4. /\ proc[p].run \in RunId /\ (proc[p].step = "flag" => proc[p].pc \in Flagging)
        /\ proc[p].pc \in Starting => p \in Driver
    BY <1>1 DEF LocalOK, Calling, Flagging, NeedsRun, Starting, Working
  <1>5. p = Api => proc[p].pc = "decide"
    BY <1>1 DEF WInv, ApiInPlace, Calling, Flagging, Resolving, Answering
  <1> QED
    BY <1>1, <1>2, <1>3, <1>4, <1>5 DEF WInv, TInv, DriverFirst

LEMMA ReadFlagOwned ==
    ASSUME RInv, TInv, WInv, NEW p \in Process, ReadCancelFlag(p)
    PROVE  WInv'
  <1>1. /\ Procs /\ ThreadStep /\ proc[p].pc \in Flagging /\ proc[p].pc \in Calling
        /\ \A q \in Process \ {p} : proc'[q] = proc[q]
        /\ UNCHANGED <<runs, locks, cancelRequested>> /\ (p = Api => proc[p].pc = "decide")
        /\ proc[p].run \in RunId
    BY CallPlace DEF LifecycleCall, ReadCancelFlag, InStep, runVars
  <1>2. CASE Resume(p, "no")
    BY <1>1, <1>2, ResumeFits, IdleStep
  <1>3. CASE cancelRequested[proc[p].run] /\ Transit(p, proc[p].pc, "CANCELLED")
    <2>1. /\ proc'[p].pc = proc[p].pc /\ proc'[p].step = "check" /\ proc'[p].goal = "CANCELLED"
          /\ proc'[p].run = proc[p].run
      BY <1>1, <1>3, TransitMoved DEF MovedOn
    <2>2. proc[p].pc \notin {"park", "toValidate", "toPlan", "toExecute", "finish", "decide"}
      BY <1>1 DEF Flagging
    <2>3. GoalFits(p)'
      BY <1>1, <1>3, <2>1, <2>2 DEF GoalFits
    <2>4. p \in Driver => DriverStays(p)
      BY <2>1, <2>2 DEF DriverStays, AtRelease
    <2> QED
      BY <1>1, <2>2, <2>3, <2>4, IdleStep
  <1> QED
    BY <1>2, <1>3 DEF ReadCancelFlag

\* No transition leads from a run under way, or over, straight to PARTIAL.
LEMMA NoPartial ==
    ASSUME NEW s \in Underway \cup Terminal
    PROVE  "PARTIAL" \notin ValidTransitions[s]
  <1>1. s \in AgentState
    BY DEF Underway, AgentState
  <1> QED
    BY <1>1 DEF ValidTransitions, Underway, Terminal

LEMMA CheckOwned ==
    ASSUME RInv, TInv, WInv, NEW p \in Process, CheckTransition(p)
    PROVE  WInv'
  <1>1. /\ Procs /\ ThreadStep /\ proc[p].pc \in Calling /\ proc[p].step = "check"
        /\ \A q \in Process \ {p} : proc'[q] = proc[q]
        /\ UNCHANGED <<runs, locks, cancelRequested>> /\ (p = Api => proc[p].pc = "decide")
        /\ proc[p].run \in RunId /\ GoalFits(p)
    BY CallPlace DEF LifecycleCall, CheckTransition, InStep, runVars
  <1>2. CASE Resume(p, "illegal")
    BY <1>1, <1>2, ResumeFits, IdleStep
  <1>3. CASE /\ proc[p].goal \in ValidTransitions[runs[proc[p].run]]
             /\ proc' = [proc EXCEPT ![p].step = "write"]
    <2>1. /\ proc'[p].pc = proc[p].pc /\ proc'[p].step = "write"
          /\ proc'[p].goal = proc[p].goal /\ proc'[p].run = proc[p].run
      BY <1>1, <1>3, PhaseMoved DEF MovedOn
    <2>2. ASSUME proc[p].pc = "decide" PROVE proc[p].goal # "PARTIAL"
      <3>1. p = Api
        BY <1>1, <2>2 DEF GoalFits, Phases
      <3>2. proc[proc[p].run].pc \in {"park", "end"}
        BY <2>2, <3>1 DEF TInv, ApiAfterDriver, Resolving
      <3>3. runs[proc[p].run] \in Underway \cup Terminal
        BY <1>1, <3>2 DEF WInv, Registered, RunsUnderway
      <3> QED
        BY <1>3, <3>3, NoPartial
    <2>3. GoalFits(p)'
      BY <1>1, <2>1, <2>2 DEF GoalFits, Phases
    <2>4. p \in Driver => DriverStays(p)
      BY <1>1, <2>1 DEF DriverStays, AtRelease
    <2>5. p = Api => ApiInPlace'
      BY <2>1 DEF WInv, ApiInPlace
    <2> QED
      BY <1>1, <2>3, <2>4, <2>5, IdleStep
  <1> QED
    BY <1>2, <1>3 DEF CheckTransition

\* The four kinds of write: a cancellation, a step on the way, the driver's
\* end, and the consequence of an approval.
LEMMA WriteGoal ==
    ASSUME RInv, TInv, WInv, NEW p \in Process, WriteTransition(p)
    PROVE  LET r == proc[p].run
               g == proc[p].goal
           IN  /\ g \in Underway \cup Terminal
               /\ g \in Terminal => cancelRequested[r] \/ (proc[p].pc = "finish" /\ p = r)
               /\ ~Ended(r)
  <1> DEFINE r == proc[p].run
             g == proc[p].goal
  <1>1. /\ proc[p].pc \in Calling /\ proc[p].step = "write" /\ r \in RunId /\ GoalFits(p)
        /\ proc[p].pc \in Starting => p \in Driver /\ r = p
        /\ p = Api => proc[p].pc = "decide"
    BY CallPlace DEF LifecycleCall, WriteTransition, InStep
  <1>2. Underway \cap Terminal = {} /\ "CANCELLED" \in Terminal
    BY DEF Underway, Terminal
  <1>3. CASE proc[p].pc \in Flagging
    BY <1>1, <1>2, <1>3 DEF GoalFits, Phases, Ended
  <1>4. CASE proc[p].pc \in {"toValidate", "toPlan", "toExecute", "finish"}
    <2>1. p \in Driver /\ r = p
      BY <1>1, <1>4 DEF Starting
    <2>2. p \in RunId /\ proc[p].pc # "end" /\ ~AtRelease(p)
      BY <1>1, <1>4, <2>1, Places DEF AtRelease
    <2>3. ~Ended(r)
      BY <2>1, <2>2 DEF WInv, EndedAlone
    <2> QED
      BY <1>1, <1>2, <1>4, <2>1, <2>3 DEF GoalFits, Phases
  <1>5. CASE proc[p].pc = "park"
    <2>1. p \in Driver \/ p \in Executor
      BY <1>1, <1>5 DEF Process
    <2>2. ASSUME p \in Driver PROVE ~Ended(r)
      <3>1. r = p /\ p \in RunId
        BY <2>2, Places DEF TInv, DriverFirst
      <3>2. proc[p].pc # "end" /\ ~AtRelease(p)
        BY <1>5 DEF AtRelease
      <3> QED
        BY <3>1, <3>2 DEF WInv, EndedAlone
    <2>3. ASSUME p \in Executor PROVE ~Ended(r)
      <3>1. EndedAlone /\ proc[p].pc \in Working
        BY <1>5 DEF WInv, Working
      <3> QED
        BY <1>1, <2>3, <3>1, EndedHasNoWorker
    <2> QED
      BY <1>1, <1>2, <1>5, <2>1, <2>2, <2>3 DEF GoalFits, Phases
  <1>6. CASE proc[p].pc = "decide"
    <2>1. p = Api /\ g = "EXECUTE"
      BY <1>1, <1>6 DEF GoalFits, Phases
    <2>2. ~Ended(r)
      BY <1>1, <1>6, <2>1 DEF WInv, EndedAlone, Resolving
    <2> QED
      BY <2>1, <2>2 DEF Underway, Terminal
  <1> QED
    BY <1>1, <1>3, <1>4, <1>5, <1>6 DEF Calling

LEMMA WriteOwned ==
    ASSUME RInv, TInv, WInv, NEW p \in Process, WriteTransition(p)
    PROVE  WInv'
  <1> DEFINE r == proc[p].run
             g == proc[p].goal
  <1>1. /\ Procs /\ ThreadStep /\ proc[p].pc \in Calling /\ r \in RunId /\ GoalFits(p)
        /\ proc[p].step = "write" /\ UNCHANGED <<cancelRequested, locks>> /\ UNCHANGED actions
        /\ \A q \in Process \ {p} : proc'[q] = proc[q]
        /\ proc[p].pc \in Starting => p \in Driver /\ r = p
        /\ p = Api => proc[p].pc = "decide"
    BY CallPlace DEF LifecycleCall, WriteTransition, InStep, UpdateRun
  <1>2. runs' = [runs EXCEPT ![r] = g] /\ runs \in [RunId -> AgentState \cup {"ABSENT"}]
    BY DEF WriteTransition, UpdateRun, RInv, RunTypeOK
  <1>3. runs'[r] = g /\ \A s \in RunId \ {r} : runs'[s] = runs[s]
    BY <1>1, <1>2
  <1>4. /\ g \in Underway \cup Terminal /\ ~Ended(r)
        /\ g \in Terminal => cancelRequested[r] \/ (proc[p].pc = "finish" /\ p = r)
    BY WriteGoal
  <1>5. /\ RunsUnderway /\ Registered /\ EndedAlone /\ Releasing /\ WorkspaceOwned
    BY DEF WInv
  <1>6. \/ /\ g \in Terminal /\ proc'[p].pc = proc[p].pc /\ proc'[p].step = "release"
           /\ proc'[p].goal = g /\ proc'[p].run = r
        \/ g \notin Terminal /\ Resume(p, "ok")
    BY <1>1, PhaseMoved DEF WriteTransition, MovedOn
  <1>7. /\ GoalFits(p)' /\ (AtRelease(p)' => g \in Terminal)
        /\ p = Api => proc'[p].pc \in {"idle", "decide"} /\ g \notin Terminal /\ ApiInPlace'
    <2>1. CASE Resume(p, "ok") /\ g \notin Terminal
      <3>1. GoalFits(p)' /\ (p = Api => ApiInPlace') /\ proc'[p].pc = After(p, "ok")
        BY <1>1, <2>1, ResumeFits, ResumeMoved DEF MovedOn
      <3>2. After(p, "ok") # "finish" /\ (p = Api => After(p, "ok") = "idle")
        BY <1>1, Returns DEF Calling, Flagging
      <3> QED
        BY <2>1, <3>1, <3>2 DEF AtRelease
    <2>2. CASE /\ g \in Terminal /\ proc'[p].pc = proc[p].pc /\ proc'[p].step = "release"
               /\ proc'[p].goal = g /\ proc'[p].run = r
      <3>1. proc[p].pc # "decide"
        BY <1>1, <2>2 DEF GoalFits, Phases, Terminal
      <3> QED
        BY <1>1, <2>2, <3>1 DEF GoalFits, Phases, AtRelease
    <2> QED
      BY <1>6, <2>1, <2>2
  <1>8. /\ \A q \in Process \ {p} : GoalFits(q)'
        /\ p # Api => ApiInPlace'
    BY <1>1, GoalsElsewhere
  <1>9. RunsUnderway'
    BY <1>3, <1>4, <1>5 DEF RunsUnderway
  <1>10. proc[p].pc \notin Waiting \cup {"end"}
    BY <1>1 DEF Calling, Flagging, Waiting
  <1>11. Registered'
    BY <1>1, <1>3, <1>4, <1>5, <1>10, Places DEF Registered, Waiting, Underway, Terminal
  <1>12. EndedAlone'
    <2> SUFFICES ASSUME NEW s \in RunId, Ended(s)'
                 PROVE  /\ proc'[s].pc = "end" \/ AtRelease(s)'
                        /\ \A a \in ActionId : RunOf[a] = s => actions'[a].status = "ABSENT"
                        /\ ~(proc'[Api].pc \in Resolving /\ proc'[Api].run = s)
      BY DEF EndedAlone
    <2>1. CASE s # r
      <3>1. Ended(s)
        BY <1>1, <1>3, <2>1 DEF Ended
      <3>2. proc[s].pc = "end" \/ AtRelease(s)
        BY <1>5, <3>1 DEF EndedAlone
      <3>3. s # p
        BY <1>1, <1>10, <2>1, <3>2 DEF AtRelease, Starting
      <3> QED
        BY <1>1, <1>5, <3>1, <3>2, <3>3, Places, EndedStaysAlone DEF AtRelease
    <2>2. CASE s = r
      <3>1. g \in Terminal /\ proc[p].pc = "finish" /\ p = r
        BY <1>1, <1>3, <1>4, <2>2 DEF Ended
      <3>2. AtRelease(s)'
        BY <1>6, <2>2, <3>1 DEF AtRelease
      <3>3. \A a \in ActionId : RunOf[a] = r => actions[a].status = "ABSENT"
        BY <1>1, <3>1, Places DEF TInv, DriverFirst, Thread, Starting
      <3>4. ~(proc[Api].pc \in Resolving /\ proc[Api].run = r)
        BY <3>1 DEF TInv, ApiAfterDriver
      <3>5. proc'[Api] = proc[Api]
        BY <1>1, <3>1, Places
      <3> QED
        BY <1>1, <2>2, <3>2, <3>3, <3>4, <3>5
    <2> QED
      BY <2>1, <2>2
  <1>13. Releasing'
    <2> SUFFICES ASSUME NEW s \in RunId, AtRelease(s)'
                 PROVE  Over(s)'
      BY DEF Releasing
    <2>1. CASE s = p
      <3>1. g \in Terminal /\ proc'[p].pc = "finish"
        BY <1>7, <2>1 DEF AtRelease
      <3>2. s = r
        BY <1>1, <1>6, <2>1, <3>1 DEF Starting
      <3> QED
        BY <1>3, <3>1, <3>2 DEF Over
    <2>2. CASE s # p
      <3>1. AtRelease(s)
        BY <1>1, <2>2, Places DEF AtRelease
      <3> QED
        BY <1>1, <1>3, <1>4, <1>5, <3>1 DEF Releasing, Over, Ended
    <2> QED
      BY <2>1, <2>2
  <1>14. WorkspaceOwned'
    <2> SUFFICES ASSUME NEW s \in RunId, ~cancelRequested'[s], proc'[s].pc \notin Waiting,
                        runs'[s] \notin Terminal
                 PROVE  locks'[WorkspaceOf[s]] = s
      BY DEF WorkspaceOwned, Waiting
    <2>1. proc[s].pc \notin Waiting
      BY <1>1, <1>10, Places
    <2>2. runs[s] \notin Terminal /\ ~cancelRequested[s]
      BY <1>1, <1>3, <1>4 DEF Ended
    <2> QED
      BY <1>1, <1>5, <2>1, <2>2 DEF WorkspaceOwned, Waiting
  <1> QED
    BY <1>7, <1>8, <1>9, <1>11, <1>12, <1>13, <1>14 DEF WInv

LEMMA ReleaseOwned ==
    ASSUME RInv, TInv, WInv, NEW p \in Process, ReleaseLock(p)
    PROVE  WInv'
  <1> DEFINE r == proc[p].run
  <1>1. /\ Procs /\ ThreadStep /\ proc[p].pc \in Calling /\ r \in RunId /\ GoalFits(p)
        /\ proc[p].step = "release" /\ UNCHANGED <<cancelRequested, runs>>
        /\ \A q \in Process \ {p} : proc'[q] = proc[q]
        /\ proc[p].pc \in Starting => p \in Driver /\ r = p
    BY CallPlace DEF LifecycleCall, ReleaseLock, InStep, ReleaseSessionLock
  <1>2. Over(r)
    <2>1. proc[p].pc \in Flagging \cup {"finish"}
      <3>1. /\ proc[p].pc \notin {"park", "toValidate", "toPlan", "toExecute"}
            /\ proc[p].pc # "decide"
        BY <1>1 DEF GoalFits, Phases, Underway, Terminal
      <3> QED
        BY <1>1, <3>1 DEF Calling
    <2>2. CASE proc[p].pc \in Flagging
      BY <1>1, <2>2 DEF GoalFits, Phases, Over
    <2>3. CASE proc[p].pc = "finish"
      BY <1>1, <2>3 DEF Starting, AtRelease, WInv, Releasing
    <2> QED
      BY <2>1, <2>2, <2>3
  <1>3. ASSUME NEW s \in RunId, locks[WorkspaceOf[s]] = s, ~Over(s)
        PROVE  locks'[WorkspaceOf[s]] = s
    BY <1>2, <1>3 DEF ReleaseLock, ReleaseSessionLock
  <1>4. /\ GoalFits(p)' /\ (p \in Driver => DriverStays(p)) /\ (p = Api => ApiInPlace')
    BY <1>1, ResumeFits DEF ReleaseLock
  <1>5. /\ \A q \in Process : GoalFits(q)'
        /\ \A q \in Driver : DriverStays(q)
        /\ ApiInPlace'
    BY <1>1, <1>4, GoalsElsewhere
  <1> QED
    BY <1>1, <1>3, <1>5, CalmStep

LEMMA BuildOwned ==
    ASSUME RInv, TInv, WInv, NEW p \in Process, BuildFails(p)
    PROVE  WInv'
  <1>1. /\ Procs /\ ThreadStep /\ proc[p].pc \in Calling /\ Resume(p, "illegal")
        /\ \A q \in Process \ {p} : proc'[q] = proc[q]
        /\ UNCHANGED <<runs, locks, cancelRequested>>
    BY CallPlace DEF LifecycleCall, BuildFails, runVars
  <1> QED
    BY <1>1, ResumeFits, IdleStep

LEMMA LifecycleOwned ==
    ASSUME RInv, TInv, WInv, NEW p \in Process, LifecycleCall(p)
    PROVE  WInv'
  BY ReadFlagOwned, CheckOwned, WriteOwned, ReleaseOwned, BuildOwned DEF LifecycleCall

LEMMA DriverStartOwned ==
    ASSUME RInv, TInv, WInv, NEW r \in Driver, DriverStart(r)
    PROVE  WInv'
  <1>1. /\ Procs /\ ThreadStep /\ r \in Process /\ r \in RunId /\ r # Api
        /\ UNCHANGED cancelRequested /\ UNCHANGED actions
    BY DriverStartQuiet, Places DEF RInv, ThreadStep, DriverStart, RegisterRun, LockWorkspace,
       WorkspaceBusy, RefuseRun, CreateRun, AcquireSessionLock, UpdateRun, runVars, ledgerVars
  <1>2. /\ proc[r].pc \in Waiting /\ proc[r].step = "none"
        /\ \E l \in {"lock", "toValidate", "refused", "end"} : MovedOn(r, l)
    <2>1. \/ Goto(r, "lock") \/ Transit(r, "toValidate", "VALIDATE")
          \/ Goto(r, "refused") \/ Goto(r, "end")
      BY DEF DriverStart, RegisterRun, LockWorkspace, WorkspaceBusy, RefuseRun
    <2> QED
      BY <1>1, <2>1, GotoMoved, TransitMoved
         DEF DriverStart, RegisterRun, LockWorkspace, WorkspaceBusy, RefuseRun, At, Waiting
  <1>3. /\ \A q \in Process \ {r} : proc'[q] = proc[q]
        /\ \A q \in Process \ {r} : GoalFits(q)'
        /\ ApiInPlace' /\ proc'[Api] = proc[Api]
    BY <1>1, <1>2, GoalsElsewhere, Places DEF MovedOn
  <1>4. /\ RunsUnderway /\ Registered /\ EndedAlone /\ Releasing /\ WorkspaceOwned
        /\ runs \in [RunId -> AgentState \cup {"ABSENT"}]
        /\ locks \in [Workspace -> RunId \cup {NoRun}]
    BY DEF WInv, RInv, RunTypeOK
  <1>5. ASSUME NEW s \in RunId, s # r, runs'[s] = runs[s]
        PROVE  /\ Ended(s)' => /\ proc'[s].pc = "end" \/ AtRelease(s)'
                               /\ \A a \in ActionId : RunOf[a] = s => actions'[a].status = "ABSENT"
                               /\ ~(proc'[Api].pc \in Resolving /\ proc'[Api].run = s)
               /\ AtRelease(s)' => Over(s)'
    <2>1. proc'[s] = proc[s]
      BY <1>3, <1>5, Places
    <2>2. Ended(s)' => Ended(s)
      BY <1>1, <1>5 DEF Ended
    <2>3. AtRelease(s)' => Over(s)'
      BY <1>1, <1>4, <1>5, <2>1 DEF AtRelease, Over, Releasing
    <2> QED
      BY <1>1, <1>4, <2>1, <2>2, <2>3, EndedStaysAlone DEF EndedAlone, AtRelease
  <1>6. CASE RegisterRun(r)
    <2>1. runs' = [runs EXCEPT ![r] = "UNDERSTAND"] /\ locks' = locks /\ Goto(r, "lock")
      BY <1>6 DEF RegisterRun, CreateRun
    <2>2. runs'[r] = "UNDERSTAND" /\ \A s \in RunId \ {r} : runs'[s] = runs[s]
      BY <1>1, <1>4, <2>1
    <2>3. proc'[r].pc = "lock" /\ proc'[r].step = "none"
      BY <1>1, <1>2, <2>1, GotoMoved DEF MovedOn
    <2>4. GoalFits(r)'
      BY <2>3 DEF GoalFits, Phases
    <2>5. RunsUnderway' /\ Registered'
      BY <1>3, <1>4, <2>2, Places DEF RunsUnderway, Registered, Underway
    <2>6. ~Ended(r)' /\ ~AtRelease(r)'
      BY <2>2, <2>3 DEF Ended, Terminal, AtRelease
    <2>7. EndedAlone' /\ Releasing'
      BY <1>5, <2>2, <2>6 DEF EndedAlone, Releasing
    <2>8. WorkspaceOwned'
      BY <1>1, <1>3, <1>4, <2>1, <2>2, <2>3, Places DEF WorkspaceOwned
    <2> QED
      BY <1>3, <2>4, <2>5, <2>7, <2>8 DEF WInv
  <1>7. CASE LockWorkspace(r)
    <2>1. /\ runs' = runs /\ locks' = [locks EXCEPT ![WorkspaceOf[r]] = r]
          /\ locks[WorkspaceOf[r]] = NoRun /\ Transit(r, "toValidate", "VALIDATE")
          /\ proc[r].pc = "lock"
      BY <1>7 DEF LockWorkspace, AcquireSessionLock, WorkspaceFree, At
    <2>2. /\ proc'[r].pc = "toValidate" /\ proc'[r].step = "check" /\ proc'[r].goal = "VALIDATE"
      BY <1>1, <2>1, TransitMoved DEF MovedOn
    <2>3. GoalFits(r)'
      BY <2>2 DEF GoalFits, Phases, Flagging, Underway
    <2>4. RunsUnderway' /\ Registered'
      BY <1>3, <1>4, <2>1, Places DEF RunsUnderway, Registered
    <2>5. ~Ended(r) /\ ~AtRelease(r)'
      BY <1>1, <1>4, <2>1, <2>2 DEF EndedAlone, AtRelease
    <2>6. EndedAlone' /\ Releasing'
      BY <1>1, <1>5, <2>1, <2>5 DEF EndedAlone, Releasing, Ended
    <2>7. WorkspaceOwned'
      <3> SUFFICES ASSUME NEW s \in RunId, ~cancelRequested'[s], proc'[s].pc \notin Waiting,
                          runs'[s] \notin Terminal
                   PROVE  locks'[WorkspaceOf[s]] = s
        BY DEF WorkspaceOwned, Waiting
      <3>1. CASE s = r
        BY <1>1, <1>4, <2>1, <3>1
      <3>2. CASE s # r
        <4>1. locks[WorkspaceOf[s]] = s
          BY <1>1, <1>3, <1>4, <2>1, <3>2, Places DEF WorkspaceOwned, Waiting
        <4> QED
          BY <1>1, <1>4, <2>1, <4>1
      <3> QED
        BY <3>1, <3>2
    <2> QED
      BY <1>3, <2>3, <2>4, <2>6, <2>7 DEF WInv
  <1>8. CASE WorkspaceBusy(r)
    <2>1. UNCHANGED <<runs, locks>> /\ Goto(r, "refused") /\ proc[r].pc = "lock"
      BY <1>8 DEF WorkspaceBusy, runVars, At
    <2>2. proc'[r].pc = "refused" /\ proc'[r].step = "none"
      BY <1>1, <1>2, <2>1, GotoMoved DEF MovedOn
    <2>3. GoalFits(r)' /\ DriverStays(r)
      BY <2>1, <2>2 DEF GoalFits, Phases, DriverStays, Waiting, AtRelease
    <2> QED
      BY <1>1, <1>3, <2>1, <2>3, IdleStep
  <1>9. CASE RefuseRun(r)
    <2>1. /\ runs' = [runs EXCEPT ![r] = "FAILED"] /\ locks' = locks /\ Goto(r, "end")
          /\ proc[r].pc = "refused"
      BY <1>9 DEF RefuseRun, UpdateRun, At
    <2>2. runs'[r] = "FAILED" /\ \A s \in RunId \ {r} : runs'[s] = runs[s]
      BY <1>1, <1>4, <2>1
    <2>3. proc'[r].pc = "end" /\ proc'[r].step = "none"
      BY <1>1, <1>2, <2>1, GotoMoved DEF MovedOn
    <2>4. GoalFits(r)'
      BY <2>3 DEF GoalFits, Phases
    <2>5. RunsUnderway' /\ Registered'
      BY <1>3, <1>4, <2>1, <2>2, Places DEF RunsUnderway, Registered, Terminal
    <2>6. \A a \in ActionId : RunOf[a] = r => actions'[a].status = "ABSENT"
      BY <1>1, <2>1 DEF TInv, DriverFirst, Thread, Starting
    <2>7. ~(proc'[Api].pc \in Resolving /\ proc'[Api].run = r)
      BY <1>3, <2>1 DEF TInv, ApiAfterDriver
    <2>8. EndedAlone'
      BY <1>5, <2>2, <2>3, <2>6, <2>7 DEF EndedAlone
    <2>9. Releasing'
      BY <1>5, <2>2, <2>3 DEF Releasing, AtRelease
    <2>10. WorkspaceOwned'
      BY <1>1, <1>3, <1>4, <2>1, <2>2, Places DEF WorkspaceOwned, Terminal
    <2> QED
      BY <1>3, <2>4, <2>5, <2>8, <2>9, <2>10 DEF WInv
  <1> QED
    BY <1>6, <1>7, <1>8, <1>9 DEF DriverStart

\* A step of an executor that leaves it outside transition.
LEMMA ExecutorCalm ==
    ASSUME RInv, TInv, WInv, ThreadStep, UNCHANGED <<runs, locks, cancelRequested>>,
           NEW p \in Executor, \A q \in Process \ {p} : proc'[q] = proc[q],
           proc'[p].step \notin Phases
    PROVE  WInv'
  <1>1. p \in Process /\ p \notin Driver /\ p # Api
    BY Places
  <1>2. GoalFits(p)'
    BY DEF GoalFits
  <1> QED
    BY <1>1, <1>2, IdleStep

LEMMA ReActOwned ==
    ASSUME RInv, TInv, WInv, NEW p \in Speaker, ReActStep(p)
    PROVE  WInv'
  <1>1. /\ Procs /\ ThreadStep /\ p \in Process /\ p # Api /\ proc[p] \in ProcessState
        /\ proc \in [Process -> ProcessState]
    BY ReActThread, AtHand, Places DEF RInv, Procs
  <1>2. UNCHANGED <<runs, locks, cancelRequested>> /\ proc[p].step = "none"
    BY DEF ReActStep, ModelAnswers, ModelCallsTool, RequestAction, ShowRequest, At, runVars,
           SetPendingAuthorization
  <1>3. proc[p].pc \in {"loop", "request", "show"}
    BY DEF ReActStep, ModelAnswers, ModelCallsTool, RequestAction, ShowRequest, At
  <1>4. ASSUME NEW l \in {"finish", "poll", "end", "loop", "show", "park"}, MovedOn(p, l), GoalFits(p)',
               proc'[p].step # "release"
        PROVE  WInv'
    <2>1. p \in Driver => DriverStays(p)
      BY <1>3, <1>4 DEF DriverStays, MovedOn, Waiting, AtRelease
    <2> QED
      BY <1>1, <1>2, <1>4, <2>1, IdleStep DEF MovedOn
  <1>5. CASE ModelAnswers(p) /\ p \in Driver
    <2>1. PICK s \in {"COMPLETE", "PARTIAL", "FAILED"} : Transit(p, "finish", s)
      BY <1>5 DEF ModelAnswers
    <2>2. MovedOn(p, "finish") /\ proc'[p].step = "check" /\ proc'[p].goal = s
      BY <1>1, <2>1, TransitMoved
    <2>3. GoalFits(p)'
      BY <2>2 DEF GoalFits, MovedOn, Flagging, Terminal
    <2> QED
      BY <1>4, <2>2, <2>3
  <1>6. CASE ModelAnswers(p) /\ p \notin Driver
    <2> DEFINE left == IF Rest(p) = "poll" THEN NoAction ELSE proc[p].act
    <2>1. proc' = [proc EXCEPT ![p] = [proc[p] EXCEPT !.pc = Rest(p), !.turn = 0, !.act = left]]
      BY <1>1, <1>6 DEF ModelAnswers
    <2>2. proc'[p].step = "none" /\ \A q \in Process \ {p} : proc'[q] = proc[q]
      BY <1>1, <1>2, <2>1 DEF ProcessState
    <2> QED
      BY <1>1, <1>2, <1>6, <2>2, ExecutorCalm DEF Speaker, Phases
  <1>7. CASE ModelCallsTool(p)
    <2>1. PICK want : proc' = [proc EXCEPT ![p].step = "flag", ![p].want = want, ![p].turn = @ + 1]
      BY <1>7 DEF ModelCallsTool
    <2>2. proc' = [proc EXCEPT ![p] = [proc[p] EXCEPT !.step = "flag", !.want = want,
                                                      !.turn = proc[p].turn + 1]]
      BY <1>1, <2>1
    <2>3. MovedOn(p, "loop") /\ proc'[p].step = "flag"
      BY <1>1, <1>7, <2>2 DEF MovedOn, ProcessState, ModelCallsTool, At
    <2>4. GoalFits(p)'
      BY <2>3 DEF GoalFits, Phases
    <2> QED
      BY <1>4, <2>3, <2>4
  <1>8. CASE RequestAction(p)
    <2>1. PICK a : proc' = [proc EXCEPT ![p].pc = "show", ![p].asked = a]
      BY <1>8 DEF RequestAction
    <2>2. proc' = [proc EXCEPT ![p] = [proc[p] EXCEPT !.pc = "show", !.asked = a]]
      BY <1>1, <2>1
    <2>3. MovedOn(p, "show") /\ proc'[p].step = "none"
      BY <1>1, <1>2, <2>2 DEF MovedOn, ProcessState
    <2>4. GoalFits(p)'
      BY <2>3 DEF GoalFits, Phases
    <2> QED
      BY <1>4, <2>3, <2>4
  <1>9. CASE ShowRequest(p)
    <2>1. Transit(p, "park", "AUTHORIZATION_REQUIRED")
      BY <1>9 DEF ShowRequest
    <2>2. MovedOn(p, "park") /\ proc'[p].step = "check" /\ proc'[p].goal = "AUTHORIZATION_REQUIRED"
      BY <1>1, <2>1, TransitMoved
    <2>3. GoalFits(p)'
      BY <2>2 DEF GoalFits, MovedOn, Flagging, Underway
    <2> QED
      BY <1>4, <2>2, <2>3
  <1> QED
    BY <1>5, <1>6, <1>7, <1>8, <1>9 DEF ReActStep

LEMMA ExecuteOwned ==
    ASSUME RInv, TInv, WInv, NEW p \in Executor, ExecuteStep(p)
    PROVE  WInv'
  <1>1. /\ Procs /\ ThreadStep /\ p \in Process /\ proc[p] \in ProcessState
        /\ proc \in [Process -> ProcessState]
    BY ExecuteQuiet, AtHand, Places DEF RInv, Procs, ThreadStep
  <1>2. UNCHANGED <<runs, locks, cancelRequested>> /\ proc[p].step = "none"
    BY DEF ExecuteStep, StartTool, BlockTool, RenewLease, EndTool, SettleAction, At, runVars
  <1>3. \/ UNCHANGED proc \/ Goto(p, "inTool") \/ Goto(p, "settle")
        \/ \E l, v : proc' = [proc EXCEPT ![p].pc = l, ![p].verdict = v]
    BY DEF ExecuteStep, StartTool, BlockTool, RenewLease, EndTool, SettleAction
  <1>4. proc'[p].step = "none" /\ \A q \in Process \ {p} : proc'[q] = proc[q]
    <2>1. CASE \E l, v : proc' = [proc EXCEPT ![p].pc = l, ![p].verdict = v]
      <3>1. PICK l, v : proc' = [proc EXCEPT ![p].pc = l, ![p].verdict = v]
        BY <2>1
      <3>2. proc' = [proc EXCEPT ![p] = [proc[p] EXCEPT !.pc = l, !.verdict = v]]
        BY <1>1, <3>1
      <3> QED
        BY <1>1, <1>2, <3>2 DEF ProcessState
    <2> QED
      BY <1>1, <1>2, <1>3, <2>1, GotoMoved DEF MovedOn
  <1> QED
    BY <1>1, <1>2, <1>4, ExecutorCalm DEF Phases

LEMMA WorkerOwned ==
    ASSUME RInv, TInv, WInv, NEW w \in Dispatcher, WorkerStep(w) \/ WorkerExit(w)
    PROVE  WInv'
  <1>1. /\ Procs /\ ThreadStep /\ w \in Process /\ w \in Executor /\ proc[w] \in ProcessState
        /\ proc \in [Process -> ProcessState]
    BY WorkerThread, AtHand, Places DEF RInv, Procs
  <1>2. UNCHANGED <<runs, locks, cancelRequested>> /\ proc[w].step = "none"
    BY DEF WorkerStep, WorkerExit, BootWorker, SweepStep, HeartbeatWorker, ClaimStep, DropClaim,
           At, runVars
  <1>3. \/ UNCHANGED proc \/ \E l : Goto(w, l)
        \/ \E a : proc' = [proc EXCEPT ![w].pc = "claimed", ![w].step = "flag",
                                       ![w].act = a, ![w].run = RunOf[a]]
        \/ proc' = [proc EXCEPT ![w].pc = "poll", ![w].act = NoAction]
    <2>1. CASE BootWorker(w) \/ SweepStep(w) \/ HeartbeatWorker(w)
      BY <2>1 DEF BootWorker, SweepStep, HeartbeatWorker
    <2>2. CASE ClaimStep(w)
      BY <2>2 DEF ClaimStep
    <2>3. CASE DropClaim(w) \/ WorkerExit(w)
      BY <2>3 DEF DropClaim, WorkerExit
    <2> QED
      BY <2>1, <2>2, <2>3 DEF WorkerStep
  <1>4. proc'[w].step \in {"none", "flag"} /\ \A q \in Process \ {w} : proc'[q] = proc[q]
    <2>1. CASE \E a : proc' = [proc EXCEPT ![w].pc = "claimed", ![w].step = "flag",
                                           ![w].act = a, ![w].run = RunOf[a]]
      <3>1. PICK a : proc' = [proc EXCEPT ![w].pc = "claimed", ![w].step = "flag",
                                          ![w].act = a, ![w].run = RunOf[a]]
        BY <2>1
      <3>2. proc' = [proc EXCEPT ![w] = [proc[w] EXCEPT !.pc = "claimed", !.step = "flag",
                                                        !.act = a, !.run = RunOf[a]]]
        BY <1>1, <3>1
      <3> QED
        BY <1>1, <3>2 DEF ProcessState
    <2>2. CASE proc' = [proc EXCEPT ![w].pc = "poll", ![w].act = NoAction]
      <3>1. proc' = [proc EXCEPT ![w] = [proc[w] EXCEPT !.pc = "poll", !.act = NoAction]]
        BY <1>1, <2>2
      <3> QED
        BY <1>1, <1>2, <3>1 DEF ProcessState
    <2> QED
      BY <1>1, <1>2, <1>3, <2>1, <2>2, GotoMoved DEF MovedOn
  <1> QED
    BY <1>1, <1>2, <1>4, ExecutorCalm DEF Phases

LEMMA WorkerEndsOwned ==
    ASSUME RInv, TInv, WInv, NEW w \in Dispatcher, StopSignal(w) \/ WorkerCrash(w)
    PROVE  WInv'
  <1>1. /\ Procs /\ ThreadStep /\ w \in Process /\ w \in Executor /\ proc[w] \in ProcessState
        /\ proc \in [Process -> ProcessState]
    BY WorkerEndsQuiet, AtHand, Places DEF RInv, Procs, ThreadStep
  <1>2. UNCHANGED <<runs, locks, cancelRequested>>
    BY DEF StopSignal, WorkerCrash, runVars
  <1>3. proc'[w].step = "none" /\ \A q \in Process \ {w} : proc'[q] = proc[q]
    <2>1. CASE StopSignal(w)
      BY <1>1, <2>1, GotoMoved DEF StopSignal, At, MovedOn
    <2>2. CASE WorkerCrash(w)
      <3>1. proc' = [proc EXCEPT ![w] = [proc[w] EXCEPT !.pc = "killed", !.step = "none"]]
        BY <1>1, <2>2 DEF WorkerCrash
      <3> QED
        BY <1>1, <3>1 DEF ProcessState
    <2> QED
      BY <2>1, <2>2
  <1> QED
    BY <1>1, <1>2, <1>3, ExecutorCalm DEF Phases

\* A step of the API process in its own right.
LEMMA ApiCalm ==
    ASSUME RInv, TInv, WInv, ThreadStep, UNCHANGED <<runs, locks, cancelRequested>>,
           \A q \in Process \ {Api} : proc'[q] = proc[q], ApiInPlace', GoalFits(Api)'
    PROVE  WInv'
  <1>1. Api \in Process /\ Api \notin Driver
    BY Places
  <1> QED
    BY <1>1, IdleStep

LEMMA ApiOwned ==
    ASSUME RInv, TInv, WInv, ApiStep
    PROVE  WInv'
  <1>1. Procs /\ ThreadStep /\ Api \in Process
    BY ApiThread, Places DEF RInv
  <1>2. UNCHANGED <<runs, locks, cancelRequested>> /\ proc[Api].step = "none"
    BY DEF ApiStep, Approve, ConfirmApproval, Reject, SweepStep, At, runVars
  <1>3. CASE \E l \in {"confirm", "idle"} : Goto(Api, l)
    <2>1. /\ proc'[Api].pc \in {"confirm", "idle"} /\ proc'[Api].step = "none"
          /\ \A q \in Process \ {Api} : proc'[q] = proc[q]
      BY <1>1, <1>2, <1>3, GotoMoved DEF MovedOn
    <2>2. ApiInPlace' /\ GoalFits(Api)'
      BY <2>1 DEF ApiInPlace, Resolving, GoalFits, Phases
    <2> QED
      BY <1>1, <1>2, <2>1, <2>2, ApiCalm
  <1>4. CASE \E goal \in {"EXECUTE", "PARTIAL"} : Transit(Api, "decide", goal)
    <2>1. /\ proc'[Api].pc = "decide" /\ proc'[Api].step = "check"
          /\ proc'[Api].goal \in {"EXECUTE", "PARTIAL"}
          /\ \A q \in Process \ {Api} : proc'[q] = proc[q]
      BY <1>1, <1>4, TransitMoved DEF MovedOn
    <2>2. ApiInPlace' /\ GoalFits(Api)'
      BY <2>1 DEF ApiInPlace, Resolving, GoalFits, Flagging
    <2> QED
      BY <1>1, <1>2, <2>1, <2>2, ApiCalm
  <1>5. CASE UNCHANGED proc
    BY <1>1, <1>2, <1>5, BystanderCalm
  <1>6. CASE SweepStep(Api)
    BY <1>3, <1>5, <1>6 DEF SweepStep, Swept
  <1>7. CASE Approve \/ ConfirmApproval \/ Reject
    BY <1>3, <1>4, <1>7 DEF Approve, ConfirmApproval, Reject
  <1> QED
    BY <1>6, <1>7 DEF ApiStep

LEMMA RequestOwned ==
    ASSUME RInv, TInv, WInv, NEW r \in RunId, CancelRequest(r) \/ AuthorizeRequest(r)
    PROVE  WInv'
  <1>1. ThreadStep
    BY RequestThread
  <1>2. CASE CancelRequest(r)
    <2>1. UNCHANGED <<runs, locks, proc>>
      BY <1>2 DEF CancelRequest, RequestCancellation
    <2>2. \A s \in RunId : cancelRequested[s] => cancelRequested'[s]
      BY <1>2 DEF CancelRequest, RequestCancellation, RInv, RunTypeOK
    <2> QED
      BY <1>1, <2>1, <2>2, BystanderCalm
  <1>3. CASE AuthorizeRequest(r)
    <2>1. PICK l \in {"approve", "reject"} :
             proc' = [proc EXCEPT ![Api].pc = l, ![Api].run = r]
      BY <1>3 DEF AuthorizeRequest
    <2>2. /\ UNCHANGED <<runs, locks, cancelRequested>> /\ proc[Api].step = "none"
      BY <1>3 DEF AuthorizeRequest, At, ResolveAuthorization, SetPendingAuthorization
    <2>3. proc \in [Process -> ProcessState] /\ Api \in Process /\ proc[Api] \in ProcessState
      BY AtHand, Places DEF RInv, Procs
    <2>4. proc' = [proc EXCEPT ![Api] = [proc[Api] EXCEPT !.pc = l, !.run = r]]
      BY <2>1, <2>3
    <2>5. /\ proc'[Api].pc = l /\ proc'[Api].step = "none"
          /\ \A q \in Process \ {Api} : proc'[q] = proc[q]
      BY <2>2, <2>3, <2>4 DEF ProcessState
    <2>6. ApiInPlace' /\ GoalFits(Api)'
      BY <2>5 DEF ApiInPlace, Resolving, Answering, GoalFits, Phases
    <2> QED
      BY <1>1, <2>2, <2>5, <2>6, ApiCalm
  <1> QED
    BY <1>2, <1>3

LEMMA ContinuationOwned ==
    ASSUME RInv, TInv, WInv, NEW c \in Continuation,
           ContinuationStep(c) \/ \E r \in RunId : ContinueRequest(c, r)
    PROVE  WInv'
  <1>1. /\ Procs /\ ThreadStep /\ c \in Process /\ c \in Executor /\ proc[c] \in ProcessState
        /\ proc \in [Process -> ProcessState]
    BY ContinuationThread, ContinueQuiet, AtHand, Places DEF RInv, Procs, ThreadStep
  <1>2. UNCHANGED <<runs, locks, cancelRequested>> /\ proc[c].step = "none"
    BY DEF ContinuationStep, ContinueRequest, At, runVars
  <1>3. \/ UNCHANGED proc \/ Goto(c, "end")
        \/ \E a : proc' = [proc EXCEPT ![c].pc = "execute", ![c].step = "flag", ![c].act = a]
        \/ \E r : proc' = [proc EXCEPT ![c].pc = "open", ![c].step = "flag", ![c].run = r]
    BY DEF ContinuationStep, ContinueRequest
  <1>4. proc'[c].step \in {"none", "flag"} /\ \A q \in Process \ {c} : proc'[q] = proc[q]
    <2>1. CASE \E a : proc' = [proc EXCEPT ![c].pc = "execute", ![c].step = "flag", ![c].act = a]
      <3>1. PICK a : proc' = [proc EXCEPT ![c].pc = "execute", ![c].step = "flag", ![c].act = a]
        BY <2>1
      <3>2. proc' = [proc EXCEPT ![c] = [proc[c] EXCEPT !.pc = "execute", !.step = "flag",
                                                        !.act = a]]
        BY <1>1, <3>1
      <3> QED
        BY <1>1, <3>2 DEF ProcessState
    <2>2. CASE \E r : proc' = [proc EXCEPT ![c].pc = "open", ![c].step = "flag", ![c].run = r]
      <3>1. PICK r : proc' = [proc EXCEPT ![c].pc = "open", ![c].step = "flag", ![c].run = r]
        BY <2>2
      <3>2. proc' = [proc EXCEPT ![c] = [proc[c] EXCEPT !.pc = "open", !.step = "flag",
                                                        !.run = r]]
        BY <1>1, <3>1
      <3> QED
        BY <1>1, <3>2 DEF ProcessState
    <2> QED
      BY <1>1, <1>2, <1>3, <2>1, <2>2, GotoMoved DEF MovedOn
  <1> QED
    BY <1>1, <1>2, <1>4, ExecutorCalm DEF Phases

LEMMA CrashOwned ==
    ASSUME RInv, TInv, WInv, ApiCrash
    PROVE  WInv'
  <1>1. /\ Procs /\ ThreadStep /\ UNCHANGED <<runs, locks, cancelRequested>>
    BY CrashQuiet DEF RInv, ThreadStep, ApiCrash, runVars
  <1>2. proc' = [v \in Process |->
                  IF v = Api THEN [proc[v] EXCEPT !.pc = "bootSweep", !.step = "none"]
                  ELSE IF v \in Continuation /\ proc[v].pc \notin {"idle", "end"}
                  THEN [proc[v] EXCEPT !.pc = "killed", !.step = "none"]
                  ELSE proc[v]]
    BY DEF ApiCrash
  <1>3. ASSUME NEW q \in Process PROVE GoalFits(q)'
    <2>1. proc[q] \in ProcessState /\ (proc[q].pc \in Flagging => proc[q].run \in RunId)
      BY <1>1, AtHand DEF Flagging, NeedsRun, Working
    <2>2. proc'[q].step = "none" \/ proc'[q] = proc[q]
      BY <1>2, <2>1 DEF ProcessState
    <2> QED
      BY <1>1, <2>1, <2>2 DEF WInv, GoalFits, Phases
  <1>4. ASSUME NEW r \in Driver PROVE DriverStays(r)
    <2>1. proc'[r] = proc[r]
      BY <1>2, Places
    <2> QED
      BY <2>1 DEF DriverStays, AtRelease
  <1>5. ApiInPlace'
    <2>1. Api \in Process /\ proc[Api] \in ProcessState
      BY <1>1, Places, AtHand
    <2> QED
      BY <1>2, <2>1 DEF ApiInPlace, ProcessState
  <1> QED
    BY <1>1, <1>3, <1>4, <1>5, CalmStep

LEMMA WorkspaceStepOK ==
    ASSUME RInv, TInv, WInv, [RuntimeNext]_vars
    PROVE  WInv'
  <1>1. ThreadStep
    BY NextIsThreadStep
  <1>2. ASSUME NEW p \in Process, ProcessStep(p) PROVE WInv'
    <2>1. CASE LifecycleCall(p)
      BY <2>1, LifecycleOwned
    <2>2. CASE p \in Driver /\ DriverStart(p)
      BY <2>2, DriverStartOwned
    <2>3. CASE p \in Driver \cup Executor /\ ReActStep(p)
      BY <2>3, ReActOwned DEF Speaker
    <2>4. CASE p \in Executor /\ ExecuteStep(p)
      BY <2>4, ExecuteOwned
    <2>5. CASE p \in Dispatcher /\ (WorkerStep(p) \/ WorkerExit(p))
      BY <2>5, WorkerOwned
    <2>6. CASE p \in Continuation /\ ContinuationStep(p)
      BY <2>6, ContinuationOwned
    <2>7. CASE p = Api /\ ApiStep
      BY <2>7, ApiOwned
    <2> QED
      BY <1>2, <2>1, <2>2, <2>3, <2>4, <2>5, <2>6, <2>7 DEF ProcessStep
  <1>3. ASSUME NEW r \in RunId, CancelRequest(r) \/ AuthorizeRequest(r) PROVE WInv'
    BY <1>3, RequestOwned
  <1>4. ASSUME NEW c \in Continuation, NEW r \in RunId, ContinueRequest(c, r) PROVE WInv'
    BY <1>4, ContinuationOwned
  <1>5. ASSUME NEW w \in Dispatcher, DrainRequest(w) PROVE WInv'
    BY <1>1, <1>5, BystanderCalm DEF DrainRequest, runVars
  <1>6. ASSUME NEW w \in Dispatcher, StopSignal(w) \/ WorkerCrash(w) PROVE WInv'
    BY <1>6, WorkerEndsOwned
  <1>7. CASE ApiCrash
    BY <1>7, CrashOwned
  <1>8. CASE TimePasses
    BY <1>1, <1>8, BystanderCalm DEF TimePasses, runVars
  <1>9. CASE UNCHANGED vars
    BY <1>1, <1>9, BystanderCalm DEF vars, runVars
  <1> QED
    BY <1>2, <1>3, <1>4, <1>5, <1>6, <1>7, <1>8, <1>9 DEF RuntimeNext

LEMMA WorkspaceInit ==
    ASSUME RuntimeInit
    PROVE  WInv
  <1>1. ASSUME NEW p \in Process PROVE proc[p].step = "none" /\ proc[p].pc = StartOf(p)
    BY <1>1 DEF RuntimeInit
  <1>2. \A r \in RunId : runs[r] = "ABSENT" /\ proc[r].pc = "new"
    <2> SUFFICES ASSUME NEW r \in RunId PROVE runs[r] = "ABSENT" /\ proc[r].pc = "new"
      OBVIOUS
    <2> QED
      BY <1>1, Places DEF RuntimeInit, RunInit, StartOf
  <1>3. \A p \in Process : GoalFits(p)
    BY <1>1 DEF GoalFits, Phases
  <1>4. ApiInPlace
    <2>1. Api \in Process /\ Api \notin Driver /\ Api \notin Dispatcher /\ Api \notin Continuation
      BY Places
    <2> QED
      BY <1>1, <2>1 DEF ApiInPlace, StartOf
  <1>5. RunsUnderway /\ Registered /\ EndedAlone /\ Releasing /\ WorkspaceOwned
    BY <1>2 DEF RunsUnderway, Registered, EndedAlone, Releasing, WorkspaceOwned, Ended, AtRelease,
                Terminal
  <1> QED
    BY <1>3, <1>4, <1>5 DEF WInv

(* Until somebody asks to cancel it, a run that passed registration and    *)
(* has not ended owns its workspace: neither a refused run, nor the end of *)
(* another run, nor a crash frees it, however many runs compete.           *)
THEOREM RuntimeWorkspace == RuntimeSpec => []WorkspaceOwned
  <1>1. RuntimeInit => WInv
    BY WorkspaceInit
  <1>2. (RInv /\ TInv) /\ WInv /\ [RuntimeNext]_vars => WInv'
    BY WorkspaceStepOK
  <1>3. WInv => WorkspaceOwned
    BY DEF WInv
  <1> QED
    BY <1>1, <1>2, <1>3, ThreadInvariant, PTL DEF RuntimeSpec

==========================================================================
