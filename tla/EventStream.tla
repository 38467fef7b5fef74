---------------------------- MODULE EventStream ----------------------------
(***************************************************************************)
(* GET /runs/{id}/events: each stream sends the history of the run, then    *)
(* what it takes off the queue of EventBroker.  The queue lives in the API  *)
(* process and is shared by all streams of the run; the events of the       *)
(* workers and of other processes reach it only by chance, as the newest of *)
(* the log when the API publishes.                                          *)
(***************************************************************************)
EXTENDS EventLog, Integers

CONSTANTS
    Stream,
    MaxEvents,          \* bound: events of the run
    MaxPublished        \* bound: events published

ASSUME StreamConstants == MaxEvents \in Nat /\ MaxPublished \in Nat

VARIABLES
    api,        \* "free", "recorded": between an operation and publish_latest_event
    queue,      \* EventBroker._queues[run]
    opened,     \* newest event when a stream read its history, -1 of a closed one
    sent,       \* events a stream has sent to its client, as a sequence of ids
    pushes,     \* events published so far, for the bound
    published,  \* history: events the present API process has published
    taken       \* history: pairs <<s, id>> of what the streams took off the queue

streamVars == <<log, api, queue, opened, sent, pushes, published, taken>>

Closed == -1

StreamInit ==
    /\ LogInit
    /\ api = "free" /\ queue = <<>>
    /\ opened = [s \in Stream |-> Closed]
    /\ sent = [s \in Stream |-> <<>>]
    /\ pushes = 0 /\ published = {} /\ taken = {}

Live(s) == opened[s] # Closed
Sent(s) == {sent[s][k] : k \in 1..Len(sent[s])}
History == [k \in 1..Len(log) |-> k]

--------------------------------------------------------------------------
(* The handlers; between recording and publishing the API awaits nothing,   *)
(* so that no stream runs, but other processes do.                          *)

ApiRecords ==
    /\ api = "free" /\ pushes < MaxPublished /\ Len(log) < MaxEvents
    /\ Record("api", NoUnit)
    /\ api' = "recorded"
    /\ UNCHANGED <<queue, opened, sent, pushes, published, taken>>

\* A worker, a coordinator, another API process, or a run this one continues.
OthersRecord ==
    /\ Len(log) < MaxEvents
    /\ Record("other", NoUnit)
    /\ UNCHANGED <<api, queue, opened, sent, pushes, published, taken>>

\* publish_latest_event, after an event of its own or not (continue, resume).
PublishLatest ==
    /\ Len(log) > 0 /\ pushes < MaxPublished
    /\ queue' = Append(queue, Len(log))
    /\ published' = published \cup {Len(log)}
    /\ pushes' = pushes + 1
    /\ api' = "free"
    /\ UNCHANGED <<log, opened, sent, taken>>

--------------------------------------------------------------------------
(* event_stream                                                            *)

\* Faulty variant: each subscriber starts with a queue that is empty.
OpenWithNewQueue(s) ==
    /\ api = "free" /\ ~Live(s)
    /\ opened' = [opened EXCEPT ![s] = Len(log)]
    /\ sent' = [sent EXCEPT ![s] = History]
    /\ queue' = <<>>
    /\ UNCHANGED <<log, api, pushes, published, taken>>

\* The history is read at once; its sending is not told apart from it.
OpenStream(s) ==
    /\ api = "free" /\ ~Live(s)
    /\ opened' = [opened EXCEPT ![s] = Len(log)]
    /\ sent' = [sent EXCEPT ![s] = History]
    /\ UNCHANGED <<log, api, queue, pushes, published, taken>>

Take(s) ==
    /\ api = "free" /\ Live(s) /\ queue # <<>>
    /\ queue' = Tail(queue)
    /\ taken' = taken \cup {<<s, Head(queue)>>}

\* Faulty variant: whatever comes off the queue is sent.
SendWhatever(s) ==
    /\ Take(s)
    /\ sent' = [sent EXCEPT ![s] = Append(@, Head(queue))]
    /\ UNCHANGED <<log, api, opened, pushes, published>>

SendNext(s) ==
    /\ Take(s)
    /\ sent' = IF Head(queue) \in Sent(s) THEN sent
               ELSE [sent EXCEPT ![s] = Append(@, Head(queue))]
    /\ UNCHANGED <<log, api, opened, pushes, published>>

Close(s) ==
    /\ opened' = [opened EXCEPT ![s] = Closed]
    /\ sent' = [sent EXCEPT ![s] = <<>>]

\* The disconnection is noticed after an event has been taken.
TakeAndBreak(s) ==
    /\ Take(s) /\ Close(s)
    /\ UNCHANGED <<log, api, pushes, published>>

\* The client goes, and the response task is cancelled where it waits.
Disconnect(s) ==
    /\ api = "free" /\ Live(s) /\ Close(s)
    /\ UNCHANGED <<log, api, queue, pushes, published, taken>>

\* The API process ends: its queue and its streams are gone, the log is not.
RestartApi ==
    /\ api' = "free" /\ queue' = <<>>
    /\ opened' = [s \in Stream |-> Closed]
    /\ sent' = [s \in Stream |-> <<>>]
    /\ published' = {} /\ taken' = {}
    /\ UNCHANGED <<log, pushes>>

ApiStep ==
    \/ ApiRecords \/ PublishLatest \/ RestartApi
    \/ \E s \in Stream : OpenStream(s) \/ SendNext(s) \/ TakeAndBreak(s) \/ Disconnect(s)

StreamNext == OthersRecord \/ ApiStep

StreamSpec == StreamInit /\ [][StreamNext]_streamVars

--------------------------------------------------------------------------
(* Properties                                                              *)

StreamTypeOK ==
    /\ api \in {"free", "recorded"}
    /\ queue \in Seq(1..Len(log)) /\ Len(queue) <= pushes
    /\ opened \in [Stream -> {Closed} \cup 0..Len(log)]
    /\ sent \in [Stream -> Seq(1..Len(log))]
    /\ pushes \in 0..MaxPublished /\ published \subseteq 1..Len(log)
    /\ taken \subseteq Stream \X (1..Len(log))

(* A client reads the events of its run in the order in which they          *)
(* happened and each at most once, however history, queue and events that   *)
(* were published twice overlap (app.py:220-235).                           *)
ClientReadsInOrder ==
    \A s \in Stream : \A i, j \in 1..Len(sent[s]) : i < j => sent[s][i] < sent[s][j]

(* A live stream that has not sent an event published since it was opened   *)
(* will still find it in the queue, unless another stream took it: nothing  *)
(* else loses a published event (app.py:46).                                *)
LossIsExplained ==
    \A s \in Stream, id \in published :
        (Live(s) /\ id > opened[s]) =>
            \/ id \in Sent(s)
            \/ \E k \in 1..Len(queue) : queue[k] = id
            \/ \E t \in Stream \ {s} : <<t, id>> \in taken
==========================================================================
