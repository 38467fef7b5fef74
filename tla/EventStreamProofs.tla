------------------------- MODULE EventStreamProofs -------------------------
(* Theorems about EventStream, for any number of streams and of events.     *)
EXTENDS RunEvents, PlanningProofs

Event == [type : {"api", "other"}, unit : {NoUnit}]

StreamInv == StreamTypeOK /\ log \in Seq(Event)

\* What the queue holds never goes back, and a stream has sent its history;
\* what is still in the queue is history to it or not older than all it sent.
Ordered(q) == \A i, j \in 1..Len(q) : i <= j => q[i] <= q[j]

Rising(q) == \A i, j \in 1..Len(q) : i < j => q[i] < q[j]

Ahead(s) ==
    IF ~Live(s) THEN sent[s] = <<>>
    ELSE /\ Rising(sent[s])
         /\ 1..opened[s] \subseteq Sent(s)
         /\ \A k \in 1..Len(queue) :
               queue[k] <= opened[s] \/ \A i \in 1..Len(sent[s]) : sent[s][i] <= queue[k]

OrderInv == Ordered(queue) /\ \A s \in Stream : Ahead(s)

--------------------------------------------------------------------------
(* Sequences of numbers                                                    *)

LEMMA Widen ==
    ASSUME NEW m \in Nat, NEW n \in Nat, m <= n, NEW q \in Seq(1..m)
    PROVE  q \in Seq(1..n)
OBVIOUS

LEMMA AppendElements ==
    ASSUME NEW S, NEW q \in Seq(S), NEW e \in S
    PROVE  /\ Append(q, e) \in Seq(S) /\ Len(Append(q, e)) = Len(q) + 1 /\ Len(q) \in Nat
           /\ Append(q, e)[Len(q) + 1] = e
           /\ \A k \in 1..Len(q) : Append(q, e)[k] = q[k]
OBVIOUS

LEMMA TailElements ==
    ASSUME NEW S, NEW q \in Seq(S), q # <<>>
    PROVE  /\ Head(q) \in S /\ Head(q) = q[1] /\ 1 \in 1..Len(q) /\ Len(q) \in Nat
           /\ Tail(q) \in Seq(S) /\ Len(Tail(q)) = Len(q) - 1
           /\ \A k \in 1..Len(Tail(q)) : Tail(q)[k] = q[k + 1] /\ k + 1 \in 1..Len(q)
           /\ \A k \in 1..Len(q) : k # 1 => k - 1 \in 1..Len(Tail(q)) /\ Tail(q)[k - 1] = q[k]
OBVIOUS

--------------------------------------------------------------------------
(* Types                                                                   *)

LEMMA RecordTypes ==
    ASSUME StreamInv, NEW type \in {"api", "other"}, Record(type, NoUnit)
    PROVE  /\ log' \in Seq(Event) /\ Len(log') = Len(log) + 1
           /\ queue \in Seq(1..Len(log')) /\ opened \in [Stream -> {Closed} \cup 0..Len(log')]
           /\ sent \in [Stream -> Seq(1..Len(log'))] /\ published \subseteq 1..Len(log')
           /\ taken \subseteq Stream \X (1..Len(log'))
<1>1. [type |-> type, unit |-> NoUnit] \in Event
  BY DEF Event
<1>2. log' \in Seq(Event) /\ Len(log') = Len(log) + 1 /\ Len(log) \in Nat
  BY <1>1 DEF StreamInv, Record
<1>3. queue \in Seq(1..Len(log'))
  BY <1>2, Widen DEF StreamInv, StreamTypeOK
<1>4. \A s \in Stream : sent[s] \in Seq(1..Len(log'))
  BY <1>2, Widen DEF StreamInv, StreamTypeOK
<1>5. sent \in [Stream -> Seq(1..Len(log'))]
  BY <1>4 DEF StreamInv, StreamTypeOK
<1>6. opened \in [Stream -> {Closed} \cup 0..Len(log')]
  BY <1>2 DEF StreamInv, StreamTypeOK
<1>7. 1..Len(log) \subseteq 1..Len(log')
  BY <1>2
<1>8. published \subseteq 1..Len(log') /\ taken \subseteq Stream \X (1..Len(log'))
  BY <1>7 DEF StreamInv, StreamTypeOK
<1> QED
  BY <1>2, <1>3, <1>5, <1>6, <1>8

LEMMA TakeTypes ==
    ASSUME StreamInv, NEW s \in Stream, Take(s)
    PROVE  /\ Len(log) \in Nat /\ queue \in Seq(1..Len(log)) /\ queue # <<>>
           /\ Head(queue) \in 1..Len(log) /\ queue' = Tail(queue)
           /\ queue' \in Seq(1..Len(log)) /\ Len(queue') <= pushes
           /\ taken' \subseteq Stream \X (1..Len(log))
<1>1. Len(log) \in Nat /\ queue \in Seq(1..Len(log)) /\ queue # <<>> /\ queue' = Tail(queue)
  BY DEF Take, StreamInv, StreamTypeOK
<1>2. Head(queue) \in 1..Len(log) /\ queue' \in Seq(1..Len(log)) /\ Len(queue') = Len(queue) - 1
  BY <1>1, TailElements
<1>3. Len(queue') <= pushes
  BY <1>1, <1>2 DEF StreamInv, StreamTypeOK
<1>4. taken' \subseteq Stream \X (1..Len(log))
  BY <1>2 DEF Take, StreamInv, StreamTypeOK
<1> QED
  BY <1>1, <1>2, <1>3, <1>4

LEMMA StreamStepInv == StreamInv /\ [StreamNext]_streamVars => StreamInv'
<1> SUFFICES ASSUME StreamInv, [StreamNext]_streamVars PROVE StreamInv'
  OBVIOUS
<1>0. Len(log) \in Nat
  BY DEF StreamInv
<1>1. CASE ApiRecords
  BY <1>1, RecordTypes DEF ApiRecords, StreamInv, StreamTypeOK, Event
<1>2. CASE OthersRecord
  BY <1>2, RecordTypes DEF OthersRecord, StreamInv, StreamTypeOK, Event
<1>3. CASE PublishLatest
  <2>1. Len(log) \in 1..Len(log)
    BY <1>0, <1>3 DEF PublishLatest
  <2>2. queue' \in Seq(1..Len(log)) /\ Len(queue') = Len(queue) + 1
    BY <1>3, <2>1, AppendElements DEF PublishLatest, StreamInv, StreamTypeOK
  <2>3. pushes' \in 0..MaxPublished /\ Len(queue') <= pushes'
    BY <1>3, <2>2, StreamConstants DEF PublishLatest, StreamInv, StreamTypeOK
  <2>4. published' \subseteq 1..Len(log)
    BY <1>3, <2>1 DEF PublishLatest, StreamInv, StreamTypeOK
  <2> QED
    BY <1>3, <2>2, <2>3, <2>4 DEF PublishLatest, StreamInv, StreamTypeOK, Event
<1>4. ASSUME NEW s \in Stream, OpenStream(s) PROVE StreamInv'
  <2>1. History \in Seq(1..Len(log))
    BY <1>0 DEF History
  <2>2. sent' \in [Stream -> Seq(1..Len(log))]
    BY <1>4, <2>1 DEF OpenStream, StreamInv, StreamTypeOK
  <2>3. opened' \in [Stream -> {Closed} \cup 0..Len(log)]
    BY <1>0, <1>4 DEF OpenStream, StreamInv, StreamTypeOK
  <2> QED
    BY <1>4, <2>2, <2>3 DEF OpenStream, StreamInv, StreamTypeOK, Event
<1>5. ASSUME NEW s \in Stream, SendNext(s) PROVE StreamInv'
  <2>1. Take(s) /\ UNCHANGED <<log, api, opened, pushes, published>>
    BY <1>5 DEF SendNext
  <2>2. Append(sent[s], Head(queue)) \in Seq(1..Len(log))
    BY <2>1, TakeTypes, AppendElements DEF StreamInv, StreamTypeOK
  <2>3. sent' \in [Stream -> Seq(1..Len(log))]
    BY <1>5, <2>2 DEF SendNext, StreamInv, StreamTypeOK
  <2> QED
    BY <2>1, <2>3, TakeTypes DEF StreamInv, StreamTypeOK, Event
<1>6. ASSUME NEW s \in Stream, Close(s)
      PROVE  /\ sent' \in [Stream -> Seq(1..Len(log))]
             /\ opened' \in [Stream -> {Closed} \cup 0..Len(log)]
  BY <1>6 DEF Close, StreamInv, StreamTypeOK
<1>7. ASSUME NEW s \in Stream, TakeAndBreak(s) PROVE StreamInv'
  <2>1. Take(s) /\ Close(s) /\ UNCHANGED <<log, api, pushes, published>>
    BY <1>7 DEF TakeAndBreak
  <2> QED
    BY <1>6, <2>1, TakeTypes DEF StreamInv, StreamTypeOK, Event
<1>8. ASSUME NEW s \in Stream, Disconnect(s) PROVE StreamInv'
  BY <1>6, <1>8 DEF Disconnect, StreamInv, StreamTypeOK, Event
<1>9. CASE RestartApi
  <2>1. sent' \in [Stream -> Seq(1..Len(log))] /\ queue' \in Seq(1..Len(log)) /\ Len(queue') = 0
    BY <1>9 DEF RestartApi
  <2> QED
    BY <1>0, <1>9, <2>1 DEF RestartApi, StreamInv, StreamTypeOK, Event
<1>10. CASE UNCHANGED streamVars
  BY <1>10 DEF streamVars, StreamInv, StreamTypeOK, Event
<1> QED
  BY <1>1, <1>2, <1>3, <1>4, <1>5, <1>7, <1>8, <1>9, <1>10 DEF StreamNext, ApiStep

THEOREM StreamInvariant == StreamSpec => []StreamInv
<1>1. StreamInit => StreamInv
  BY StreamConstants DEF StreamInit, LogInit, StreamInv, StreamTypeOK
<1> QED
  BY <1>1, StreamStepInv, PTL DEF StreamSpec

--------------------------------------------------------------------------
(* Order                                                                   *)

LEMMA HistoryIsAhead ==
    ASSUME StreamInv, NEW s \in Stream, OpenStream(s) PROVE Ahead(s)'
<1>1. Len(log) \in Nat /\ queue \in Seq(1..Len(log)) /\ UNCHANGED queue
  BY DEF OpenStream, StreamInv, StreamTypeOK
<1>2. sent'[s] = History /\ opened'[s] = Len(log)
  BY DEF OpenStream, StreamInv, StreamTypeOK
<1>3. Len(History) = Len(log) /\ \A k \in 1..Len(log) : History[k] = k
  BY <1>1 DEF History
<1>4. Rising(History)
  BY <1>1, <1>3 DEF Rising
<1>5. 1..Len(log) \subseteq Sent(s)'
  BY <1>2, <1>3 DEF Sent
<1>6. \A k \in 1..Len(queue) : queue[k] <= Len(log)
  BY <1>1
<1>7. Live(s)' /\ Rising(sent'[s]) /\ \A k \in 1..Len(queue') : queue'[k] <= opened'[s]
  <2>1. Len(log) # Closed
    BY <1>1 DEF Closed
  <2> QED
    BY <1>1, <1>2, <1>4, <1>6, <2>1 DEF Live
<1> QED
  BY <1>2, <1>5, <1>7 DEF Ahead

LEMMA QueueMovesUp ==
    ASSUME StreamInv, NEW s \in Stream, Take(s)
    PROVE  /\ queue \in Seq(1..Len(log)) /\ queue' \in Seq(1..Len(log))
           /\ 1 \in 1..Len(queue) /\ Head(queue) = queue[1]
           /\ \A k \in 1..Len(queue') : k + 1 \in 1..Len(queue) /\ queue'[k] = queue[k + 1]
           /\ \A k \in 1..Len(queue) : k # 1 => k - 1 \in 1..Len(queue') /\ queue'[k - 1] = queue[k]
<1>1. /\ queue \in Seq(1..Len(log)) /\ queue # <<>> /\ queue' = Tail(queue)
      /\ queue' \in Seq(1..Len(log))
  BY TakeTypes
<1> QED
  BY <1>1, TailElements

LEMMA SendKeepsAhead ==
    ASSUME StreamInv, OrderInv, NEW s \in Stream, SendNext(s) PROVE Ahead(s)'
<1> DEFINE head == Head(queue)
<1>1. /\ Live(s) /\ opened' = opened /\ opened[s] \in 0..Len(log)
      /\ sent[s] \in Seq(1..Len(log)) /\ Len(log) \in Nat
  BY DEF SendNext, Take, StreamInv, StreamTypeOK, Live
<1>2. /\ queue \in Seq(1..Len(log)) /\ queue' \in Seq(1..Len(log)) /\ head \in 1..Len(log)
      /\ 1 \in 1..Len(queue) /\ head = queue[1]
      /\ \A k \in 1..Len(queue') : k + 1 \in 1..Len(queue) /\ queue'[k] = queue[k + 1] /\ head <= queue'[k]
  <2>1. Take(s)
    BY DEF SendNext
  <2>2. /\ Len(log) \in Nat /\ queue \in Seq(1..Len(log)) /\ queue # <<>>
        /\ queue' = Tail(queue) /\ queue' \in Seq(1..Len(log)) /\ head \in 1..Len(log)
    BY <2>1, TakeTypes
  <2>3. /\ 1 \in 1..Len(queue) /\ head = queue[1]
        /\ \A k \in 1..Len(queue') : k + 1 \in 1..Len(queue) /\ queue'[k] = queue[k + 1]
    BY <2>2, TailElements
  <2>4. \A k \in 1..Len(queue') : 1 <= k + 1
    BY <2>2
  <2>5. \A k \in 1..Len(queue') : head <= queue'[k]
    BY <2>3, <2>4 DEF OrderInv, Ordered
  <2> QED
    BY <2>2, <2>3, <2>5
<1>3. /\ Rising(sent[s]) /\ 1..opened[s] \subseteq Sent(s)
      /\ \A k \in 1..Len(queue) :
            queue[k] <= opened[s] \/ \A i \in 1..Len(sent[s]) : sent[s][i] <= queue[k]
  BY <1>1 DEF OrderInv, Ahead
<1>4. CASE head \in Sent(s)
  <2>1. sent' = sent
    BY <1>4 DEF SendNext
  <2>2. Sent(s)' = Sent(s) /\ Live(s)'
    BY <1>1, <2>1 DEF Sent, Live
  <2>3. \A k \in 1..Len(queue') :
           queue'[k] <= opened[s] \/ \A i \in 1..Len(sent[s]) : sent[s][i] <= queue'[k]
    BY <1>2, <1>3
  <2> QED
    BY <1>1, <1>3, <2>1, <2>2, <2>3 DEF Ahead
<1>5. CASE head \notin Sent(s)
  <2>1. sent'[s] = Append(sent[s], head)
    BY <1>5 DEF SendNext, StreamInv, StreamTypeOK
  <2>2. /\ Len(sent'[s]) = Len(sent[s]) + 1 /\ Len(sent[s]) \in Nat /\ sent'[s][Len(sent[s]) + 1] = head
        /\ \A i \in 1..Len(sent[s]) : sent'[s][i] = sent[s][i]
    BY <1>1, <1>2, <2>1, AppendElements
  <2>3. ~(head <= opened[s])
    BY <1>1, <1>2, <1>3, <1>5
  <2>4. \A i \in 1..Len(sent[s]) : sent[s][i] <= head /\ sent[s][i] # head /\ sent[s][i] \in Int
    <3>1. \A i \in 1..Len(sent[s]) : sent[s][i] # head
      BY <1>5 DEF Sent
    <3>2. \A i \in 1..Len(sent[s]) : sent[s][i] <= head
      BY <1>2, <1>3, <2>3
    <3>3. \A i \in 1..Len(sent[s]) : sent[s][i] \in Int
      BY <1>1
    <3> QED
      BY <3>1, <3>2, <3>3
  <2>5. Rising(sent'[s])
    <3> SUFFICES ASSUME NEW i \in 1..Len(sent'[s]), NEW j \in 1..Len(sent'[s]), i < j
                 PROVE  sent'[s][i] < sent'[s][j]
      BY DEF Rising
    <3>1. i \in 1..Len(sent[s]) /\ (j \in 1..Len(sent[s]) \/ j = Len(sent[s]) + 1)
      BY <2>2
    <3>2. CASE j \in 1..Len(sent[s])
      BY <1>3, <2>2, <3>1, <3>2 DEF Rising
    <3>3. CASE j = Len(sent[s]) + 1
      <4>1. sent'[s][i] = sent[s][i] /\ sent'[s][j] = head
        BY <2>2, <3>1, <3>3
      <4>2. sent[s][i] <= head /\ sent[s][i] # head /\ sent[s][i] \in Int /\ head \in Int
        BY <1>2, <2>4, <3>1
      <4> QED
        BY <4>1, <4>2
    <3> QED
      BY <3>1, <3>2, <3>3
  <2>6. Sent(s) \subseteq Sent(s)' /\ Live(s)'
    <3>1. ASSUME NEW k \in 1..Len(sent[s])
          PROVE  k \in 1..Len(sent'[s]) /\ sent'[s][k] = sent[s][k]
      BY <2>2
    <3>2. Sent(s) \subseteq Sent(s)'
      BY <3>1, Zenon DEF Sent
    <3>3. Live(s)'
      BY <1>1 DEF Live
    <3> QED
      BY <3>2, <3>3
  <2>7. ASSUME NEW k \in 1..Len(queue'), NEW i \in 1..Len(sent'[s]) PROVE sent'[s][i] <= queue'[k]
    <3>1. sent'[s][i] <= head /\ sent'[s][i] \in Int
      <4>1. i \in 1..Len(sent[s]) \/ i = Len(sent[s]) + 1
        BY <2>2
      <4>2. head \in Int /\ head <= head
        BY <1>2
      <4> QED
        BY <2>2, <2>4, <4>1, <4>2
    <3>2. head <= queue'[k] /\ queue'[k] \in Int /\ head \in Int
      BY SMTT(30), <1>2
    <3> QED
      BY <3>1, <3>2
  <2> QED
    BY <1>1, <1>3, <2>5, <2>6, <2>7 DEF Ahead
<1> QED
  BY <1>4, <1>5

\* A stream that another one takes an event from is none the worse for it.
LEMMA FewerQueued ==
    ASSUME StreamInv, NEW s \in Stream, NEW t \in Stream, Take(s), Ahead(t),
           sent'[t] = sent[t], opened'[t] = opened[t]
    PROVE  Ahead(t)'
<1>1. \A k \in 1..Len(queue') : k + 1 \in 1..Len(queue) /\ queue'[k] = queue[k + 1]
  BY QueueMovesUp
<1>2. Live(t)' = Live(t) /\ Sent(t)' = Sent(t)
  BY DEF Live, Sent
<1>3. (\A k \in 1..Len(queue) :
         queue[k] <= opened[t] \/ \A i \in 1..Len(sent[t]) : sent[t][i] <= queue[k])
      => (\A k \in 1..Len(queue') :
             queue'[k] <= opened[t] \/ \A i \in 1..Len(sent[t]) : sent[t][i] <= queue'[k])
  BY <1>1
<1> QED
  BY <1>2, <1>3 DEF Ahead

LEMMA TakeKeepsOrder ==
    ASSUME StreamInv, NEW s \in Stream, Take(s), Ordered(queue) PROVE Ordered(queue')
<1>1. /\ queue \in Seq(1..Len(log)) /\ queue' \in Seq(1..Len(log))
      /\ \A k \in 1..Len(queue') : k + 1 \in 1..Len(queue) /\ queue'[k] = queue[k + 1]
  BY QueueMovesUp
<1>2. \A i, j \in 1..Len(queue') : i <= j => i + 1 <= j + 1
  BY <1>1
<1> QED
  BY <1>1, <1>2 DEF Ordered

LEMMA OrderStep == StreamInv /\ OrderInv /\ [StreamNext]_streamVars => OrderInv'
<1> SUFFICES ASSUME StreamInv, OrderInv, [StreamNext]_streamVars PROVE OrderInv'
  OBVIOUS
<1>1. CASE ApiRecords \/ OthersRecord \/ UNCHANGED streamVars
  BY <1>1 DEF ApiRecords, OthersRecord, streamVars, OrderInv, Ahead, Live, Sent
<1>2. CASE PublishLatest
  <2>1. /\ Len(log) \in Nat /\ queue \in Seq(1..Len(log)) /\ Len(log) \in 1..Len(log)
        /\ queue' = Append(queue, Len(log)) /\ UNCHANGED <<opened, sent>>
    BY <1>2 DEF PublishLatest, StreamInv, StreamTypeOK
  <2>2. /\ Len(queue') = Len(queue) + 1 /\ Len(queue) \in Nat /\ queue'[Len(queue) + 1] = Len(log)
        /\ \A k \in 1..Len(queue) : queue'[k] = queue[k] /\ queue[k] <= Len(log)
    BY <2>1, AppendElements
  <2>3. Ordered(queue')
    <3> SUFFICES ASSUME NEW i \in 1..Len(queue'), NEW j \in 1..Len(queue'), i <= j
                 PROVE  queue'[i] <= queue'[j]
      BY DEF Ordered
    <3>1. CASE j \in 1..Len(queue)
      <4>1. i \in 1..Len(queue)
        BY <2>2, <3>1
      <4> QED
        BY <2>2, <3>1, <4>1 DEF OrderInv, Ordered
    <3>2. CASE j = Len(queue) + 1
      <4>1. i \in 1..Len(queue) \/ i = Len(queue) + 1
        BY <2>2
      <4> QED
        BY <2>1, <2>2, <3>2, <4>1
    <3> QED
      BY <2>2, <3>1, <3>2
  <2>4. ASSUME NEW s \in Stream PROVE Ahead(s)'
    <3>1. \A i \in 1..Len(sent[s]) : sent[s][i] <= Len(log)
      BY <2>1 DEF StreamInv, StreamTypeOK
    <3>2. \A k \in 1..Len(queue') : k \in 1..Len(queue) \/ queue'[k] = Len(log)
      BY <2>2
    <3> QED
      BY <2>1, <2>2, <3>1, <3>2 DEF OrderInv, Ahead, Live, Sent
  <2> QED
    BY <2>3, <2>4 DEF OrderInv
<1>3. ASSUME NEW s \in Stream, NEW t \in Stream \ {s}, Close(s) \/ OpenStream(s) \/ SendNext(s)
      PROVE  sent'[t] = sent[t] /\ opened'[t] = opened[t]
  BY <1>3 DEF Close, OpenStream, SendNext, StreamInv, StreamTypeOK
<1>4. ASSUME NEW s \in Stream, Close(s) PROVE Ahead(s)'
  BY <1>4 DEF Close, Ahead, Live, StreamInv, StreamTypeOK
<1>5. ASSUME NEW s \in Stream, OpenStream(s) \/ Disconnect(s) PROVE OrderInv'
  <2>1. UNCHANGED queue /\ (Close(s) \/ OpenStream(s))
    BY <1>5 DEF OpenStream, Disconnect
  <2>2. Ahead(s)'
    BY <1>4, <2>1, HistoryIsAhead
  <2>3. \A t \in Stream \ {s} : Ahead(t)'
    BY <1>3, <2>1 DEF OrderInv, Ahead, Live, Sent
  <2> QED
    BY <2>1, <2>2, <2>3 DEF OrderInv
<1>6. ASSUME NEW s \in Stream, SendNext(s) \/ TakeAndBreak(s) PROVE OrderInv'
  <2>1. Take(s) /\ (SendNext(s) \/ Close(s))
    BY <1>6 DEF SendNext, TakeAndBreak
  <2>2. Ahead(s)'
    BY <1>4, <2>1, SendKeepsAhead
  <2>3. \A t \in Stream \ {s} : Ahead(t)'
    BY <1>3, <2>1, FewerQueued DEF OrderInv
  <2> QED
    BY <2>1, <2>2, <2>3, TakeKeepsOrder DEF OrderInv
<1>7. CASE RestartApi
  <2>1. Ordered(queue')
    BY <1>7 DEF RestartApi, Ordered
  <2> QED
    BY <1>7, <2>1 DEF RestartApi, OrderInv, Ahead, Live
<1> QED
  BY <1>1, <1>2, <1>5, <1>6, <1>7 DEF StreamNext, ApiStep

LEMMA OrderIsRead == OrderInv => ClientReadsInOrder
<1> SUFFICES ASSUME OrderInv, NEW s \in Stream PROVE Rising(sent[s])
  BY DEF ClientReadsInOrder, Rising
<1>1. sent[s] = <<>> => Rising(sent[s])
  BY DEF Rising
<1> QED
  BY <1>1 DEF OrderInv, Ahead

\* Every client reads the events of its run in order and once (app.py:220-235).
THEOREM StreamReadsInOrder == StreamSpec => []ClientReadsInOrder
<1>1. StreamInit => OrderInv
  BY DEF StreamInit, OrderInv, Ordered, Ahead, Live
<1> QED
  BY <1>1, OrderIsRead, StreamInvariant, OrderStep, PTL DEF StreamSpec

--------------------------------------------------------------------------
(* Loss                                                                    *)

LEMMA LossStep == StreamInv /\ LossIsExplained /\ [StreamNext]_streamVars => LossIsExplained'
<1> SUFFICES ASSUME StreamInv, LossIsExplained, [StreamNext]_streamVars PROVE LossIsExplained'
  OBVIOUS
<1>1. CASE ApiRecords \/ OthersRecord \/ UNCHANGED streamVars
  BY <1>1 DEF ApiRecords, OthersRecord, streamVars, LossIsExplained, Live, Sent
<1>2. CASE PublishLatest
  <2>1. /\ queue \in Seq(1..Len(log)) /\ Len(log) \in 1..Len(log) /\ queue' = Append(queue, Len(log))
        /\ published' = published \cup {Len(log)} /\ UNCHANGED <<opened, sent, taken>>
    BY <1>2 DEF PublishLatest, StreamInv, StreamTypeOK
  <2>2. /\ Len(queue') = Len(queue) + 1 /\ Len(queue) \in Nat /\ queue'[Len(queue) + 1] = Len(log)
        /\ \A k \in 1..Len(queue) : queue'[k] = queue[k] /\ k \in 1..Len(queue')
    BY <2>1, AppendElements
  <2>3. Len(queue) + 1 \in 1..Len(queue')
    BY <2>2
  <2>4. \A s \in Stream : Live(s)' = Live(s) /\ Sent(s)' = Sent(s)
    BY <2>1 DEF Live, Sent
  <2>5. \A id : (\E k \in 1..Len(queue) : queue[k] = id) => \E k \in 1..Len(queue') : queue'[k] = id
    BY <2>2
  <2>6. \E k \in 1..Len(queue') : queue'[k] = Len(log)
    BY <2>2, <2>3
  <2> QED
    BY <2>1, <2>4, <2>5, <2>6 DEF LossIsExplained
<1>3. ASSUME NEW s \in Stream, OpenStream(s) PROVE LossIsExplained'
  <2>1. opened'[s] = Len(log) /\ \A t \in Stream \ {s} : opened'[t] = opened[t] /\ sent'[t] = sent[t]
    BY <1>3 DEF OpenStream, StreamInv, StreamTypeOK
  <2>2. UNCHANGED <<queue, published, taken>> /\ \A id \in published : ~(id > Len(log))
    BY <1>3 DEF OpenStream, StreamInv, StreamTypeOK
  <2> QED
    BY <2>1, <2>2 DEF LossIsExplained, Live, Sent
<1>4. ASSUME NEW s \in Stream, SendNext(s) \/ TakeAndBreak(s) PROVE LossIsExplained'
  <2>1. Take(s) /\ UNCHANGED published
    BY <1>4 DEF SendNext, TakeAndBreak
  <2>2. /\ Head(queue) = queue[1] /\ taken' = taken \cup {<<s, Head(queue)>>}
        /\ \A k \in 1..Len(queue) : k # 1 => k - 1 \in 1..Len(queue') /\ queue'[k - 1] = queue[k]
    BY <2>1, QueueMovesUp DEF Take
  <2>3. \A id : (\E k \in 1..Len(queue) : queue[k] = id)
               => id = Head(queue) \/ \E k \in 1..Len(queue') : queue'[k] = id
    BY <2>2
  <2>4. ASSUME NEW t \in Stream \ {s}
        PROVE  sent'[t] = sent[t] /\ opened'[t] = opened[t]
    BY <1>4, <2>4 DEF SendNext, TakeAndBreak, Close, StreamInv, StreamTypeOK
  <2>5. ASSUME NEW t \in Stream \ {s}, NEW id \in published, Live(t)', id > opened'[t]
        PROVE  \/ id \in Sent(t)'
               \/ \E k \in 1..Len(queue') : queue'[k] = id
               \/ \E r \in Stream \ {t} : <<r, id>> \in taken'
    BY <2>2, <2>3, <2>4, <2>5 DEF LossIsExplained, Live, Sent
  <2>6. ASSUME NEW id \in published, Live(s)', id > opened'[s]
        PROVE  \/ id \in Sent(s)'
               \/ \E k \in 1..Len(queue') : queue'[k] = id
               \/ \E r \in Stream \ {s} : <<r, id>> \in taken'
    <3>1. SendNext(s)
      BY <1>4, <2>6 DEF TakeAndBreak, Close, Live, StreamInv, StreamTypeOK
    <3>2. opened' = opened /\ Live(s)
      BY <3>1 DEF SendNext, Take
    <3>3. Head(queue) \in Sent(s)' /\ Sent(s) \subseteq Sent(s)'
      <4>1. CASE Head(queue) \in Sent(s)
        BY <3>1, <4>1 DEF SendNext, Sent
      <4>2. CASE Head(queue) \notin Sent(s)
        <5>1. sent'[s] = Append(sent[s], Head(queue)) /\ sent[s] \in Seq(1..Len(log))
          BY <3>1, <4>2 DEF SendNext, StreamInv, StreamTypeOK
        <5>2. Head(queue) \in 1..Len(log)
          BY <2>1, TakeTypes
        <5>3. /\ Len(sent'[s]) = Len(sent[s]) + 1 /\ Len(sent[s]) \in Nat
              /\ sent'[s][Len(sent[s]) + 1] = Head(queue)
              /\ \A i \in 1..Len(sent[s]) : sent'[s][i] = sent[s][i]
          BY <5>1, <5>2, AppendElements
        <5>4. Len(sent[s]) + 1 \in 1..Len(sent'[s]) /\ 1..Len(sent[s]) \subseteq 1..Len(sent'[s])
          BY <5>3
        <5> QED
          BY <5>3, <5>4 DEF Sent
      <4> QED
        BY <4>1, <4>2
    <3> QED
      BY <2>2, <2>3, <2>6, <3>2, <3>3 DEF LossIsExplained
  <2> QED
    BY <2>1, <2>5, <2>6 DEF LossIsExplained
<1>5. ASSUME NEW s \in Stream, Disconnect(s) PROVE LossIsExplained'
  <2>1. ~Live(s)' /\ \A t \in Stream \ {s} : opened'[t] = opened[t] /\ sent'[t] = sent[t]
    BY <1>5 DEF Disconnect, Close, Live, StreamInv, StreamTypeOK
  <2> QED
    BY <1>5, <2>1 DEF Disconnect, LossIsExplained, Live, Sent
<1>6. CASE RestartApi
  BY <1>6 DEF RestartApi, LossIsExplained
<1> QED
  BY <1>1, <1>2, <1>3, <1>4, <1>5, <1>6 DEF StreamNext, ApiStep

\* What is published is in the queue, and leaves it only towards a stream.
THEOREM StreamLossIsExplained == StreamSpec => []LossIsExplained
<1>1. StreamInit => LossIsExplained
  BY DEF StreamInit, LossIsExplained
<1> QED
  BY <1>1, LossStep, StreamInvariant, PTL DEF StreamSpec

--------------------------------------------------------------------------
(* A run with its tracker, its coordinator and its clients                 *)

\* Who moves is fixed from the start: without streams nobody reads the log,
\* and where the streams are watched there is no coordinator.
NobodyWatches ==
    /\ api = "free" /\ queue = <<>> /\ pushes = 0 /\ published = {} /\ taken = {}
    /\ opened = [s \in Stream |-> Closed] /\ sent = [s \in Stream |-> <<>>]

EventsInv ==
    /\ part \in {"steps", "units", "streams"}
    /\ TrackerInv /\ DelegationInv
    /\ part # "streams" => AuditInv /\ NobodyWatches
    /\ part = "streams" => coordinator = "none" /\ StreamInv /\ OrderInv /\ LossIsExplained

LEMMA StreamStart == StreamInit => StreamInv /\ OrderInv /\ LossIsExplained
<1> SUFFICES ASSUME StreamInit PROVE StreamInv /\ OrderInv /\ LossIsExplained
  OBVIOUS
<1>1. StreamInv
  BY StreamConstants DEF StreamInit, LogInit, StreamInv, StreamTypeOK
<1>2. OrderInv /\ LossIsExplained
  BY DEF StreamInit, OrderInv, Ordered, Ahead, Live, LossIsExplained
<1> QED
  BY <1>1, <1>2

LEMMA EventsStart == EventsInit => EventsInv
<1> SUFFICES ASSUME EventsInit PROVE EventsInv
  OBVIOUS
<1>1. DelegationInit /\ StreamInit /\ TrackerInit /\ part \in {"steps", "units", "streams"}
  BY DEF EventsInit
<1>2. TrackerInv /\ AuditInv
  BY <1>1, TrackerStart, AuditStart
<1>3. DelegationInv /\ coordinator = "none"
  BY <1>1, DelegationStart DEF DelegationInit
<1>4. StreamInv /\ OrderInv /\ LossIsExplained
  BY <1>1, StreamStart
<1>5. NobodyWatches
  BY <1>1 DEF StreamInit, NobodyWatches
<1> QED
  BY <1>1, <1>2, <1>3, <1>4, <1>5 DEF EventsInv

LEMMA EventsStepInv == EventsInv /\ [EventsNext]_eventVars => EventsInv'
<1> SUFFICES ASSUME EventsInv, [EventsNext]_eventVars PROVE EventsInv'
  OBVIOUS
<1>1. /\ part' = part /\ part \in {"steps", "units", "streams"}
      /\ [TrackerNext]_trackerVars
  BY DEF EventsInv, EventsNext, CoordinatorStep, TrackerStep, WatchStep, eventVars
<1>2. TrackerInv'
  BY <1>1, TrackerStepInv DEF EventsInv
<1>3. CASE part # "streams"
  <2>1. [DelegationNext]_delegationVars
    BY <1>3 DEF EventsNext, CoordinatorStep, TrackerStep, WatchStep, eventVars
  <2>2. UNCHANGED <<api, queue, opened, sent, pushes, published, taken>>
    BY <1>3 DEF EventsNext, CoordinatorStep, TrackerStep, WatchStep, eventVars, streamVars
  <2>3. AuditInv' /\ DelegationInv'
    BY <1>3, <2>1, AuditStepInv, DelegationStepInv DEF EventsInv
  <2>4. NobodyWatches'
    BY <1>3, <2>2 DEF EventsInv, NobodyWatches
  <2> QED
    BY <1>1, <1>2, <1>3, <2>3, <2>4 DEF EventsInv
<1>4. CASE part = "streams"
  <2>1. [StreamNext]_streamVars /\ UNCHANGED <<contract, coordinator, made, unit, busy, missed>>
    BY <1>4 DEF EventsNext, CoordinatorStep, TrackerStep, WatchStep, eventVars, delegationVars
  <2>2. StreamInv' /\ OrderInv' /\ LossIsExplained'
    BY <1>4, <2>1, StreamStepInv, OrderStep, LossStep DEF EventsInv
  <2>3. DelegationInv' /\ coordinator' = "none"
    BY <1>4, <2>1 DEF EventsInv, DelegationInv, DelegationTypeOK, Unit, Needs
  <2> QED
    BY <1>1, <1>2, <1>4, <2>2, <2>3 DEF EventsInv
<1> QED
  BY <1>3, <1>4

THEOREM EventsInvariant == EventsSpec => []EventsInv
<1> QED
  BY EventsStart, EventsStepInv, PTL DEF EventsSpec

\* Every part of a run that its clients watch keeps its types, for any plans,
\* contracts, streams and bounds.
THEOREM EventsTypes == EventsSpec => []EventsTypeOK
<1>1. EventsInv => EventsTypeOK
  <2> SUFFICES ASSUME EventsInv PROVE EventsTypeOK
    OBVIOUS
  <2>1. TrackerTypeOK /\ DelegationTypeOK /\ part \in {"steps", "units", "streams"}
    BY DEF EventsInv, TrackerInv, DelegationInv
  <2>2. CASE part = "streams"
    BY <2>1, <2>2 DEF EventsInv, StreamInv, EventsTypeOK
  <2>3. CASE part # "streams"
    <3>1. Len(log) \in Nat
      BY <2>3 DEF EventsInv, AuditInv, ProgressInv
    <3>2. NobodyWatches
      BY <2>3 DEF EventsInv
    <3>3. StreamTypeOK
      BY <3>1, <3>2, StreamConstants DEF NobodyWatches, StreamTypeOK
    <3> QED
      BY <2>1, <3>3 DEF EventsTypeOK
  <2> QED
    BY <2>2, <2>3
<1> QED
  BY <1>1, EventsInvariant, PTL

\* What tracker, coordinator and streams promise each for itself holds of the
\* run they share the event log of (plan_tracker.py:106, app.py:46, 114, 220,
\* delegation.py:170).
THEOREM EventsKeepPromises ==
    EventsSpec => [](StallHasACause /\ ProgressIsTrue /\ AuditShowsOrder
                     /\ ClientReadsInOrder /\ LossIsExplained)
<1>1. EventsInv => StallHasACause
  BY StallNeedsCause DEF EventsInv
<1>2. EventsInv => ProgressIsTrue /\ AuditShowsOrder
  <2> SUFFICES ASSUME EventsInv PROVE ProgressIsTrue /\ AuditShowsOrder
    OBVIOUS
  <2>1. CASE part = "streams"
    BY <2>1 DEF EventsInv, ProgressIsTrue, AuditShowsOrder
  <2>2. CASE part # "streams"
    BY <2>2, ToldIsProgress DEF EventsInv, AuditInv
  <2> QED
    BY <2>1, <2>2
<1>3. EventsInv => ClientReadsInOrder /\ LossIsExplained
  <2> SUFFICES ASSUME EventsInv PROVE ClientReadsInOrder /\ LossIsExplained
    OBVIOUS
  <2>1. CASE part = "streams"
    BY <2>1, OrderIsRead DEF EventsInv
  <2>2. CASE part # "streams"
    BY <2>2 DEF EventsInv, NobodyWatches, ClientReadsInOrder, LossIsExplained
  <2> QED
    BY <2>1, <2>2
<1> QED
  BY <1>1, <1>2, <1>3, EventsInvariant, PTL

\* In a run that others watch, a coordinator's units still progress as the
\* steps of a tracker do (delegation.py:170).
THEOREM EventsTrackAPlan == EventsSpec => UnitsTrackAPlan
<1>1. EventsInit => Tracker!TrackerInit
  BY DelegationTrackerStart DEF EventsInit
<1>2. EventsInv /\ [EventsNext]_eventVars => [Tracker!TrackerNext]_(Tracker!trackerVars)
  <2> SUFFICES ASSUME EventsInv, [EventsNext]_eventVars
               PROVE  [Tracker!TrackerNext]_(Tracker!trackerVars)
    OBVIOUS
  <2>1. CASE CoordinatorStep
    BY <2>1, StepTracksAPlan DEF CoordinatorStep, EventsInv
  <2>2. CASE TrackerStep \/ WatchStep \/ UNCHANGED eventVars
    BY <2>2 DEF TrackerStep, WatchStep, eventVars, delegationVars, Tracker!trackerVars
  <2> QED
    BY <2>1, <2>2 DEF EventsNext
<1> QED
  BY <1>1, <1>2, EventsInvariant, PTL DEF EventsSpec, UnitsTrackAPlan, Tracker!TrackerSpec
==========================================================================
