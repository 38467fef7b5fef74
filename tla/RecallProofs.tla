---------------------------- MODULE RecallProofs ----------------------------
(* Theorems about Memory and ContextAssembly, for any runs, records and     *)
(* times to live, and for any texts and budget.                             *)
EXTENDS ContextAssembly, FiniteSetTheorems, TLAPS

--------------------------------------------------------------------------
(* The memory                                                              *)

RowsOK == DOMAIN table \subseteq Key /\ \A k \in DOMAIN table : table[k] \in Entry /\ table[k].key = k

CallsOK ==
    /\ clock \in Nat
    /\ pc \in [RunId -> Place] /\ now \in [RunId -> Nat] /\ since \in [RunId -> SUBSET Key]
    /\ DOMAIN job = RunId /\ \A r \in RunId : pc[r] \in {"judge", "commit"} => job[r] \in Entry
    /\ hits \in [RunId -> SUBSET Entry]

Fresh(r, record) == ~record.stale => (record.expires > now[r] \/ record.key \in since[r])

\* After its sweep, a search finds no stale record in the table; before its
\* SELECT it has found nothing.
SweptOK ==
    \A r \in RunId :
        /\ pc[r] = "select" => \A k \in DOMAIN table : Fresh(r, table[k])
        /\ pc[r] # "idle" => hits[r] = {}

RecallInv == RowsOK /\ CallsOK /\ SweptOK /\ HitsWereFresh

LEMMA EntryParts ==
    ASSUME NEW record \in Entry
    PROVE  record.key \in Key /\ record.stale \in BOOLEAN /\ record.expires \in Nat
BY DEF Entry

LEMMA EntryMarked ==
    ASSUME NEW record \in Entry, NEW b \in BOOLEAN, NEW marked, marked = [record EXCEPT !.stale = b]
    PROVE  /\ marked \in Entry /\ marked.key = record.key
           /\ marked.stale = b /\ marked.expires = record.expires
BY DEF Entry

\* A step that leaves what the other runs look at, or makes it staler or newer.
LEMMA OthersKeepFresh ==
    ASSUME RecallInv, NEW q \in RunId, pc'[q] = pc[q], hits'[q] = hits[q], now'[q] = now[q],
           since[q] \subseteq since'[q],
           \A k \in DOMAIN table' : \/ k \in DOMAIN table /\ table'[k] = table[k]
                                    \/ table'[k].stale
                                    \/ table'[k].key \in since'[q]
    PROVE  /\ pc'[q] = "select" => \A k \in DOMAIN table' : Fresh(q, table[k])'
           /\ pc'[q] # "idle" => hits'[q] = {}
           /\ \A record \in hits'[q] :
                 ~record.stale /\ (record.expires > now'[q] \/ record.key \in since'[q])
<1>1. pc'[q] # "idle" => hits'[q] = {}
  BY DEF RecallInv, SweptOK
<1>2. \A record \in hits'[q] :
         ~record.stale /\ (record.expires > now'[q] \/ record.key \in since'[q])
  BY DEF RecallInv, HitsWereFresh
<1>3. ASSUME pc'[q] = "select", NEW k \in DOMAIN table' PROVE Fresh(q, table[k])'
  BY <1>3 DEF RecallInv, SweptOK, Fresh
<1> QED
  BY <1>1, <1>2, <1>3

LEMMA SweepIsStaler ==
    ASSUME RecallInv, NEW r \in RunId, MarkExpired(r)
    PROVE  /\ RowsOK' /\ DOMAIN table' = DOMAIN table
           /\ \A k \in DOMAIN table' :
                 /\ table'[k] = table[k] \/ table'[k].stale
                 /\ table'[k].stale \/ table'[k].expires > now[r]
<1>1. now[r] \in Nat /\ DOMAIN table' = DOMAIN table
  BY DEF MarkExpired, RecallInv, CallsOK
<1>2. ASSUME NEW k \in DOMAIN table
      PROVE  /\ table'[k] \in Entry /\ table'[k].key = k
             /\ table'[k] = table[k] \/ table'[k].stale
             /\ table'[k].stale \/ table'[k].expires > now[r]
  <2>1. table[k] \in Entry /\ table[k].key = k
    BY DEF RecallInv, RowsOK
  <2>2. table[k].expires \in Nat
    BY <2>1, EntryParts
  <2>3. CASE table[k].expires <= now[r]
    <3>1. table'[k] = [table[k] EXCEPT !.stale = TRUE]
      BY <2>3 DEF MarkExpired
    <3>2. TRUE \in BOOLEAN
      OBVIOUS
    <3>3. table'[k] \in Entry /\ table'[k].key = k /\ table'[k].stale = TRUE
      BY <2>1, <3>1, <3>2, EntryMarked
    <3> QED
      BY <3>3
  <2>4. CASE ~(table[k].expires <= now[r])
    <3>1. table'[k] = table[k]
      BY <2>4 DEF MarkExpired
    <3> QED
      BY <1>1, <2>1, <2>2, <2>4, <3>1
  <2> QED
    BY <2>3, <2>4
<1> QED
  BY <1>1, <1>2 DEF RecallInv, RowsOK

LEMMA RecallStep == RecallInv /\ [MemoryNext]_memoryVars => RecallInv'
<1> SUFFICES ASSUME RecallInv, [MemoryNext]_memoryVars PROVE RecallInv'
  OBVIOUS
<1> DEFINE Kept(q) ==
      /\ pc'[q] = "select" => \A k \in DOMAIN table' : Fresh(q, table[k])'
      /\ pc'[q] # "idle" => hits'[q] = {}
      /\ \A record \in hits'[q] :
            ~record.stale /\ (record.expires > now'[q] \/ record.key \in since'[q])
<1>0. RowsOK /\ CallsOK
  BY DEF RecallInv
<1>1. ASSUME RowsOK', CallsOK', \A q \in RunId : Kept(q) PROVE RecallInv'
  BY <1>1 DEF RecallInv, SweptOK, HitsWereFresh
<1>2. ASSUME NEW r \in RunId, NEW place \in Place, Goto(r, place)
      PROVE  /\ pc' \in [RunId -> Place] /\ pc'[r] = place
             /\ \A q \in RunId \ {r} : pc'[q] = pc[q]
  BY <1>0, <1>2 DEF Goto, CallsOK
<1>3. {"idle", "judge", "commit", "look", "sweep", "select", "verify"} = Place
  BY DEF Place
<1>4. CASE Tick \/ UNCHANGED memoryVars
  <2>1. /\ UNCHANGED <<table, pc, job, now, hits, since>> /\ clock' \in Nat
    BY <1>0, <1>4 DEF Tick, memoryVars, CallsOK
  <2> QED
    BY <1>0, <2>1 DEF RecallInv, RowsOK, CallsOK, SweptOK, HitsWereFresh, Fresh
<1>5. ASSUME NEW r \in RunId, BeginStore(r) PROVE RecallInv'
  <2>1. /\ UNCHANGED <<table, clock, now, since>> /\ Goto(r, "judge") /\ hits' = [hits EXCEPT ![r] = {}]
        /\ \A q \in RunId \ {r} : job'[q] = job[q]
        /\ DOMAIN job' = RunId /\ job'[r] \in Entry
    <3>1. PICK k \in Key, v \in Value, stale \in BOOLEAN, t \in Ttl \cup {Never} :
             job' = [job EXCEPT ![r] = [key |-> k, value |-> v, stale |-> stale,
                                        expires |-> IF t = Never THEN Never ELSE clock + t]]
      BY <1>5 DEF BeginStore
    <3>2. (IF t = Never THEN Never ELSE clock + t) \in Nat
      BY <1>0, MemoryConstants DEF CallsOK
    <3>3. [key |-> k, value |-> v, stale |-> stale,
           expires |-> IF t = Never THEN Never ELSE clock + t] \in Entry
      BY <3>2 DEF Entry
    <3> QED
      BY <1>0, <1>5, <3>1, <3>3 DEF BeginStore, CallsOK
  <2>2. /\ pc' \in [RunId -> Place] /\ pc'[r] = "judge"
        /\ \A q \in RunId \ {r} : pc'[q] = pc[q]
    BY <1>2, <1>3, <2>1
  <2>3. /\ hits' \in [RunId -> SUBSET Entry] /\ hits'[r] = {}
        /\ \A q \in RunId \ {r} : hits'[q] = hits[q]
    BY <1>0, <2>1 DEF CallsOK
  <2>4. RowsOK' /\ CallsOK'
    BY <1>0, <2>1, <2>2, <2>3 DEF RowsOK, CallsOK
  <2>5. \A q \in RunId : Kept(q)
    BY <2>1, <2>2, <2>3, OthersKeepFresh
  <2> QED
    BY <1>1, <2>4, <2>5
<1>6. ASSUME NEW r \in RunId, JudgeRecord(r) PROVE RecallInv'
  <2>1. /\ UNCHANGED <<table, clock, now, hits, since>> /\ Goto(r, "commit") /\ pc[r] = "judge"
    BY <1>6 DEF JudgeRecord
  <2>2. /\ pc' \in [RunId -> Place] /\ pc'[r] = "commit"
        /\ \A q \in RunId \ {r} : pc'[q] = pc[q]
    BY <1>2, <1>3, <2>1
  <2>3. job[r] \in Entry
    BY <1>0, <2>1 DEF CallsOK
  <2>4. (job[r].stale \/ job[r].expires <= clock) \in BOOLEAN
    OBVIOUS
  <2>5. [job[r] EXCEPT !.stale = job[r].stale \/ job[r].expires <= clock] \in Entry
    BY <2>3, <2>4, EntryMarked
  <2>6. job' = [job EXCEPT ![r] = [job[r] EXCEPT !.stale = job[r].stale \/ job[r].expires <= clock]]
    BY <1>6 DEF JudgeRecord
  <2>7. CallsOK'
    BY <1>0, <2>1, <2>2, <2>5, <2>6 DEF CallsOK
  <2>8. \A q \in RunId : Kept(q)
    <3>1. hits[r] = {}
      BY <2>1 DEF RecallInv, SweptOK
    <3> QED
      BY <2>1, <2>2, <3>1, OthersKeepFresh
  <2> QED
    BY <1>0, <1>1, <2>1, <2>7, <2>8 DEF RowsOK
<1>7. ASSUME NEW r \in RunId, CommitRecord(r) PROVE RecallInv'
  <2>1. /\ UNCHANGED <<clock, job, now, hits>> /\ Goto(r, "look") /\ pc[r] = "commit"
        /\ since' = [q \in RunId |-> since[q] \cup {job[r].key}]
    BY <1>7 DEF CommitRecord
  <2>2. /\ pc' \in [RunId -> Place] /\ pc'[r] = "look"
        /\ \A q \in RunId \ {r} : pc'[q] = pc[q]
    BY <1>2, <1>3, <2>1
  <2>3. job[r] \in Entry /\ job[r].key \in Key
    BY <1>0, <2>1, EntryParts DEF CallsOK
  <2>4. /\ DOMAIN table' = DOMAIN table \cup {job[r].key} /\ table'[job[r].key] = job[r]
        /\ \A k \in DOMAIN table : k # job[r].key => table'[k] = table[k]
    BY <1>7 DEF CommitRecord
  <2>5. RowsOK'
    BY <1>0, <2>3, <2>4 DEF RowsOK
  <2>6. CallsOK'
    BY <1>0, <2>1, <2>2, <2>3 DEF CallsOK
  <2>7. hits[r] = {}
    BY <2>1 DEF RecallInv, SweptOK
  <2>8. ASSUME NEW q \in RunId PROVE Kept(q)
    <3>1. since[q] \subseteq since'[q] /\ job[r].key \in since'[q]
      BY <2>1
    <3>2. \A k \in DOMAIN table' : \/ k \in DOMAIN table /\ table'[k] = table[k]
                                   \/ table'[k].key \in since'[q]
      BY <2>4, <3>1
    <3>3. CASE q # r
      BY <2>1, <2>2, <3>1, <3>2, <3>3, OthersKeepFresh
    <3>4. CASE q = r
      BY <2>1, <2>2, <2>7, <3>4
    <3> QED
      BY <3>3, <3>4
  <2> QED
    BY <1>1, <2>5, <2>6, <2>8
<1>8. ASSUME NEW r \in RunId, BeginSearch(r) PROVE RecallInv'
  <2>1. /\ UNCHANGED <<table, clock, now, since>> /\ Goto(r, "look") /\ hits' = [hits EXCEPT ![r] = {}]
        /\ job' = [job EXCEPT ![r] = Search]
    BY <1>8 DEF BeginSearch
  <2>2. /\ pc' \in [RunId -> Place] /\ pc'[r] = "look"
        /\ \A q \in RunId \ {r} : pc'[q] = pc[q]
    BY <1>2, <1>3, <2>1
  <2>3. /\ hits' \in [RunId -> SUBSET Entry] /\ hits'[r] = {}
        /\ \A q \in RunId \ {r} : hits'[q] = hits[q]
    BY <1>0, <2>1 DEF CallsOK
  <2>4. RowsOK' /\ CallsOK'
    BY <1>0, <2>1, <2>2, <2>3 DEF RowsOK, CallsOK
  <2>5. \A q \in RunId : Kept(q)
    BY <2>1, <2>2, <2>3, OthersKeepFresh
  <2> QED
    BY <1>1, <2>4, <2>5
<1>9. ASSUME NEW r \in RunId, ReadClock(r) PROVE RecallInv'
  <2>1. /\ UNCHANGED <<table, clock, job, hits, since>> /\ Goto(r, "sweep") /\ pc[r] = "look"
        /\ now' = [now EXCEPT ![r] = clock]
    BY <1>9 DEF ReadClock
  <2>2. /\ pc' \in [RunId -> Place] /\ pc'[r] = "sweep"
        /\ \A q \in RunId \ {r} : pc'[q] = pc[q]
    BY <1>2, <1>3, <2>1
  <2>3. now' \in [RunId -> Nat] /\ \A q \in RunId \ {r} : now'[q] = now[q]
    BY <1>0, <2>1 DEF CallsOK
  <2>4. RowsOK' /\ CallsOK'
    BY <1>0, <2>1, <2>2, <2>3 DEF RowsOK, CallsOK
  <2>5. hits[r] = {}
    BY <2>1 DEF RecallInv, SweptOK
  <2>6. \A q \in RunId : Kept(q)
    BY <2>1, <2>2, <2>3, <2>5, OthersKeepFresh
  <2> QED
    BY <1>1, <2>4, <2>6
<1>10. ASSUME NEW r \in RunId, MarkExpired(r) PROVE RecallInv'
  <2>1. /\ UNCHANGED <<clock, job, now, hits>> /\ pc[r] = "sweep" /\ since' = [since EXCEPT ![r] = {}]
        /\ Goto(r, IF job[r] = Search THEN "select" ELSE "verify")
    BY <1>10 DEF MarkExpired
  <2>2. /\ pc' \in [RunId -> Place] /\ pc'[r] \in {"select", "verify"}
        /\ \A q \in RunId \ {r} : pc'[q] = pc[q]
    BY <1>2, <1>3, <2>1
  <2>3. since' \in [RunId -> SUBSET Key] /\ \A q \in RunId \ {r} : since'[q] = since[q]
    BY <1>0, <2>1 DEF CallsOK
  <2>4. CallsOK'
    BY <1>0, <2>1, <2>2, <2>3 DEF CallsOK
  <2>5. hits[r] = {}
    BY <2>1 DEF RecallInv, SweptOK
  <2>6. Kept(r)
    BY <1>10, <2>1, <2>5, SweepIsStaler DEF Fresh
  <2>7. ASSUME NEW q \in RunId \ {r} PROVE Kept(q)
    BY <1>10, <2>1, <2>2, <2>3, SweepIsStaler, OthersKeepFresh
  <2> QED
    BY <1>1, <1>10, <2>4, <2>6, <2>7, SweepIsStaler
<1>11. ASSUME NEW r \in RunId, SelectMatches(r) PROVE RecallInv'
  <2>1. /\ UNCHANGED <<table, clock, job, now, since>> /\ Goto(r, "idle") /\ pc[r] = "select"
    BY <1>11 DEF SelectMatches
  <2>2. /\ pc' \in [RunId -> Place] /\ pc'[r] = "idle"
        /\ \A q \in RunId \ {r} : pc'[q] = pc[q]
    BY <1>2, <1>3, <2>1
  <2>3. PICK found \in SUBSET {k \in DOMAIN table : ~table[k].stale} :
           hits' = [hits EXCEPT ![r] = {table[k] : k \in found}]
    BY <1>11 DEF SelectMatches
  <2>4. {table[k] : k \in found} \subseteq Entry
    BY <1>0 DEF RowsOK
  <2>5. /\ hits' \in [RunId -> SUBSET Entry] /\ hits'[r] = {table[k] : k \in found}
        /\ \A q \in RunId \ {r} : hits'[q] = hits[q]
    BY <1>0, <2>3, <2>4 DEF CallsOK
  <2>6. RowsOK' /\ CallsOK'
    BY <1>0, <2>1, <2>2, <2>5 DEF RowsOK, CallsOK
  <2>7. \A k \in found : ~table[k].stale /\ (table[k].expires > now[r] \/ table[k].key \in since[r])
    BY <2>1 DEF RecallInv, SweptOK, Fresh
  <2>8. Kept(r)
    BY <2>1, <2>2, <2>5, <2>7
  <2>9. ASSUME NEW q \in RunId \ {r} PROVE Kept(q)
    BY <2>1, <2>2, <2>5, OthersKeepFresh
  <2> QED
    BY <1>1, <2>6, <2>8, <2>9
<1>12. ASSUME NEW r \in RunId, VerifyStore(r) \/ CallFails(r) PROVE RecallInv'
  <2>1. UNCHANGED <<table, clock, job, now, hits, since>> /\ Goto(r, "idle") /\ pc[r] # "idle"
    BY <1>12 DEF VerifyStore, CallFails
  <2>2. /\ pc' \in [RunId -> Place] /\ pc'[r] = "idle"
        /\ \A q \in RunId \ {r} : pc'[q] = pc[q]
    BY <1>2, <1>3, <2>1
  <2>3. RowsOK' /\ CallsOK' /\ hits[r] = {}
    BY <1>0, <2>1, <2>2 DEF RowsOK, CallsOK, RecallInv, SweptOK
  <2>4. \A q \in RunId : Kept(q)
    BY <2>1, <2>2, <2>3, OthersKeepFresh
  <2> QED
    BY <1>1, <2>3, <2>4
<1> QED
  BY <1>4, <1>5, <1>6, <1>7, <1>8, <1>9, <1>10, <1>11, <1>12 DEF MemoryNext, Store, Recall

LEMMA RecallStart == MemoryInit => RecallInv
<1> SUFFICES ASSUME MemoryInit PROVE RecallInv
  OBVIOUS
<1>1. RowsOK
  BY MemoryConstants DEF MemoryInit, RowsOK
<1>2. CallsOK
  BY DEF MemoryInit, CallsOK, Place
<1>3. SweptOK /\ HitsWereFresh
  BY DEF MemoryInit, SweptOK, HitsWereFresh
<1> QED
  BY <1>1, <1>2, <1>3 DEF RecallInv

\* A search hands out nothing that had expired when its sweep read the clock,
\* but what others stored meanwhile (memory/repository.py:69).
THEOREM MemoryHitsWereFresh == MemorySpec => []HitsWereFresh
<1>1. RecallInv => HitsWereFresh
  BY DEF RecallInv
<1> QED
  BY <1>1, RecallStart, RecallStep, PTL DEF MemorySpec

--------------------------------------------------------------------------
(* The context                                                             *)

LEMMA Sizes ==
    /\ Reader \in RunId /\ Budget \in Nat /\ RecentResults \in Nat /\ RecentMessages \in Nat
    /\ Base \subseteq Nat /\ Length \subseteq Nat /\ \A x \in Result : x.length \in Nat
    /\ LengthOf \in [Value -> Nat] /\ MaxItems \in Nat
BY ContextConstants

LEMMA Texts ==
    ASSUME NEW text \in Text
    PROVE  text \in Seq(Nat \ {0}) /\ 0 < Len(text) /\ Len(text) < 10000
BY ContextConstants

\* Other runs and the search are steps of the memory, and nothing else is.
LEMMA ContextStepsAreMemorySteps ==
    ContextNext \/ UNCHANGED <<memoryVars, contextVars>> => [MemoryNext]_memoryVars
<1> SUFFICES ASSUME ContextNext \/ UNCHANGED <<memoryVars, contextVars>> PROVE [MemoryNext]_memoryVars
  OBVIOUS
<1>1. CASE BeginAssembly \/ AbandonAssembly
  BY <1>1, Sizes DEF BeginAssembly, AbandonAssembly, MemoryNext, Recall
<1>2. CASE GatherItems \/ PlaceEvidence \/ EndEvidence \/ PlaceHistory \/ EndAssembly
  BY <1>2 DEF GatherItems, PlaceEvidence, EndEvidence, PlaceHistory, EndAssembly
<1>3. CASE MemoryStep
  BY <1>3 DEF MemoryStep, MemoryNext, Recall
<1> QED
  BY <1>1, <1>2, <1>3 DEF ContextNext, AssemblyStep

\* The memory behaves as specified under a run that assembles its context.
THEOREM ContextUsesMemory == ContextSpec => MemorySpec
<1>1. ContextInit => MemoryInit
  BY DEF ContextInit
<1> QED
  BY <1>1, ContextStepsAreMemorySteps, PTL DEF ContextSpec, MemorySpec

\* Therefore nothing expired reaches a context either.
THEOREM ContextHitsWereFresh == ContextSpec => []HitsWereFresh
<1> QED
  BY ContextUsesMemory, MemoryHitsWereFresh, PTL

ItemsOK ==
    /\ base \in Nat /\ left \in Int /\ chars \in Nat /\ room \in Int /\ lost \subseteq Nat
    /\ evidence \in Seq(Nat) /\ history \in Seq(Text)

\* Characters are neither lost nor made; the items of P1 left out did not fit.
RoomOK ==
    /\ stage \in {"none", "recall", "evidence", "history", "done"}
    /\ stage \in {"evidence", "history", "done"} =>
          /\ left + chars = Budget
          /\ chars <= Greater(base, Budget) + 17
    /\ stage = "evidence" => \A length \in lost : length > left
    /\ LostForWantOfRoom

ContextInv == RecallInv /\ ItemsOK /\ RoomOK

LEMMA TakenItems ==
    ASSUME NEW n, NEW S, NEW s \in AtMost(n, S)
    PROVE  s \in Seq(S)
BY DEF AtMost

LEMMA LatestItems ==
    ASSUME NEW S, NEW s \in Seq(S), NEW n \in Nat
    PROVE  Latest(s, n) \in Seq(S)
<1>1. CASE n = 0 \/ n >= Len(s)
  BY <1>1 DEF Latest
<1>2. CASE ~(n = 0 \/ n >= Len(s))
  <2>1. Len(s) - n + 1 \in 1..Len(s) /\ Len(s) \in Nat
    BY <1>2
  <2>2. SubSeq(s, Len(s) - n + 1, Len(s)) \in Seq(S)
    BY <2>1
  <2> QED
    BY <1>2, <2>2 DEF Latest
<1> QED
  BY <1>1, <1>2

LEMMA WidenItems ==
    ASSUME NEW S, NEW T, S \subseteq T, NEW s \in Seq(S)
    PROVE  s \in Seq(T)
OBVIOUS

LEMMA GatherTypes ==
    ASSUME CallsOK, ItemsOK, GatherItems
    PROVE  ItemsOK' /\ left' + chars' = Budget /\ chars' = base'
<1>1. PICK p0 \in Base, outcomes \in AtMost(MaxItems, Result), talk \in AtMost(MaxItems, Length),
           steps \in AtMost(1, Text), older \in Text, order \in AtMost(TopK, hits[Reader]) :
      \E pick \in Firsts(Latest(outcomes, RecentResults)) :
        /\ evidence' = [k \in DOMAIN pick |-> Latest(outcomes, RecentResults)[pick[k]].length]
                         \o Latest(talk, RecentMessages)
                         \o [k \in DOMAIN order |-> LengthOf[order[k].value]]
        /\ history' = steps \o (IF Len(Latest(talk, RecentMessages)) < Len(talk) THEN <<older>> ELSE <<>>)
        /\ base' = p0 /\ chars' = p0 /\ left' = Budget - p0 /\ lost' = {} /\ room' = room
  BY ZenonT(30) DEF GatherItems
<1>2. PICK pick \in Firsts(Latest(outcomes, RecentResults)) :
        /\ evidence' = [k \in DOMAIN pick |-> Latest(outcomes, RecentResults)[pick[k]].length]
                         \o Latest(talk, RecentMessages)
                         \o [k \in DOMAIN order |-> LengthOf[order[k].value]]
        /\ history' = steps \o (IF Len(Latest(talk, RecentMessages)) < Len(talk) THEN <<older>> ELSE <<>>)
        /\ base' = p0 /\ chars' = p0 /\ left' = Budget - p0 /\ lost' = {} /\ room' = room
  BY <1>1
<1> DEFINE results == Latest(outcomes, RecentResults)
           said == Latest(talk, RecentMessages)
           told_ == [k \in DOMAIN pick |-> results[pick[k]].length]
           found == [k \in DOMAIN order |-> LengthOf[order[k].value]]
           old == IF Len(said) < Len(talk) THEN <<older>> ELSE <<>>
<1>3. results \in Seq(Result) /\ said \in Seq(Length) /\ Length \subseteq Nat
  BY TakenItems, LatestItems, Sizes
<1>4. told_ \in Seq(Nat)
  <2>1. pick \in Seq(1..Len(results))
    BY TakenItems DEF Firsts
  <2>2. \A k \in DOMAIN pick : results[pick[k]] \in Result
    BY <1>3, <2>1
  <2>3. \A k \in DOMAIN pick : results[pick[k]].length \in Nat
    BY <2>2, Sizes
  <2> HIDE DEF results
  <2> QED
    BY <2>1, <2>3
<1>5. said \in Seq(Nat)
  <2> HIDE DEF said
  <2> QED
    BY <1>3, WidenItems
<1>6. found \in Seq(Nat)
  <2>1. order \in Seq(hits[Reader]) /\ hits[Reader] \subseteq Entry
    BY TakenItems, Sizes DEF CallsOK
  <2>2. \A k \in DOMAIN order : order[k] \in Entry
    BY <2>1
  <2>3. \A k \in DOMAIN order : order[k].value \in Value
    BY <2>2 DEF Entry
  <2>4. \A k \in DOMAIN order : LengthOf[order[k].value] \in Nat
    BY <2>3, Sizes
  <2> QED
    BY <2>1, <2>4
<1>7. steps \in Seq(Text) /\ old \in Seq(Text)
  BY TakenItems
<1>8. evidence' = told_ \o said \o found /\ history' = steps \o old
  BY <1>2
<1> HIDE DEF results, said, told_, found, old
<1>9. evidence' \in Seq(Nat) /\ history' \in Seq(Text)
  BY <1>4, <1>5, <1>6, <1>7, <1>8
<1>10. p0 \in Nat /\ Budget \in Nat
  BY Sizes
<1> QED
  BY SMTT(30), <1>9, <1>10, <1>2 DEF ItemsOK

LEMMA GreaterOfTwo ==
    ASSUME NEW a \in Nat, NEW b \in Nat
    PROVE  Greater(a, b) \in Nat /\ a <= Greater(a, b) /\ b <= Greater(a, b)
BY DEF Greater

\* A cut text is longer than the room it was cut for by 17 characters at most.
LEMMA CutsAreNarrow ==
    ASSUME NEW text \in Text, NEW limit \in Nat, NEW length \in CutLengths(text, limit)
    PROVE  length \in Nat /\ length <= limit + 17
<1>1. CASE limit < 48
  BY <1>1 DEF CutLengths
<1>2. CASE ~(limit < 48)
  <2>1. PICK k \in 0..Len(text) : IsShown(text, k, Greater(0, limit - 64)) /\ length = CutAfter(text, k)
    BY <1>2 DEF CutLengths
  <2>2. Len(text) \in Nat /\ Len(text) < 10000
    BY Texts
  <2>3. HintLength(k, Len(text)) \in Nat /\ HintLength(k, Len(text)) <= 68
    <3>1. \A n \in Nat : Digits(n) \in 1..4
      BY DEF Digits
    <3>2. Greater(k, 1) \in Nat
      BY <2>2 DEF Greater
    <3> QED
      BY <2>2, <3>1, <3>2 DEF HintLength
  <2>4. CASE k = 0
    <3>1. HintLength(0, Len(text)) <= 65
      <4>1. Digits(Len(text)) \in 1..4
        BY <2>2 DEF Digits
      <4> QED
        BY <4>1 DEF HintLength, Greater, Digits
    <3> QED
      BY <1>2, <2>1, <2>3, <2>4, <3>1 DEF CutAfter
  <2>5. CASE k # 0
    <3>1. text[k] \in Nat \ {0}
      BY <2>1, <2>2, <2>5, Texts
    <3>2. text[k] <= limit - 64
      BY <2>1, <2>5, <3>1 DEF IsShown, Greater
    <3> QED
      BY <2>1, <2>3, <2>5, <3>1, <3>2 DEF CutAfter
  <2> QED
    BY <2>4, <2>5
<1> QED
  BY <1>1, <1>2

LEMMA PlacedIsNarrow ==
    ASSUME NEW text \in Text, left \in Int, NEW length \in Placed(text)
    PROVE  length \in Nat /\ (length = 0 \/ length <= left + 17)
<1>1. CASE left <= 0
  BY <1>1 DEF Placed
<1>2. CASE left > 0 /\ Whole(text) <= left
  <2>1. Whole(text) \in Nat
    BY Texts DEF Whole
  <2> QED
    BY <1>2, <2>1 DEF Placed
<1>3. CASE left > 0 /\ ~(Whole(text) <= left)
  <2>1. length \in CutLengths(text, left) /\ left \in Nat
    BY <1>3 DEF Placed
  <2> QED
    BY <2>1, CutsAreNarrow
<1> QED
  BY <1>1, <1>2, <1>3

LEMMA RoomStep ==
    ASSUME RecallInv, ItemsOK, RoomOK, ContextNext \/ UNCHANGED <<memoryVars, contextVars>>
    PROVE  ItemsOK' /\ RoomOK'
<1>0. Budget \in Nat /\ base \in Nat /\ Greater(base, Budget) \in Nat
  BY Sizes DEF ItemsOK, Greater
<1>1. CASE BeginAssembly \/ AbandonAssembly \/ MemoryStep \/ UNCHANGED <<memoryVars, contextVars>>
  BY <1>1 DEF BeginAssembly, AbandonAssembly, MemoryStep, contextVars, ItemsOK, RoomOK, LostForWantOfRoom
<1>2. CASE GatherItems
  <2>1. ItemsOK' /\ left' + chars' = Budget /\ chars' = base'
    BY <1>2, GatherTypes DEF RecallInv
  <2>2. stage' = "evidence" /\ lost' = {}
    BY <1>2 DEF GatherItems
  <2>3. left' + chars' = Budget /\ chars' <= Greater(base', Budget) + 17
    <3>1. chars' \in Nat
      BY <2>1 DEF ItemsOK
    <3>2. chars' <= Greater(chars', Budget) /\ Greater(chars', Budget) \in Nat
      BY <1>0, <3>1, GreaterOfTwo
    <3>3. chars' <= Greater(chars', Budget) + 17
      BY <3>1, <3>2
    <3> QED
      BY <2>1, <3>3
  <2> QED
    BY <2>1, <2>2, <2>3 DEF RoomOK, LostForWantOfRoom
<1>3. CASE PlaceEvidence
  <2>1. /\ stage = "evidence" /\ evidence # <<>> /\ evidence' = Tail(evidence)
        /\ UNCHANGED <<stage, base, history, room>>
    BY <1>3 DEF PlaceEvidence
  <2>2. Head(evidence) \in Nat /\ evidence' \in Seq(Nat)
    BY <2>1 DEF ItemsOK
  <2>3. left + chars = Budget /\ left \in Int /\ chars \in Nat /\ lost \subseteq Nat
    BY <2>1 DEF ItemsOK, RoomOK
  <2>4. \A length \in lost : length > left
    BY <2>1 DEF RoomOK
  <2>5. CASE Head(evidence) <= left
    <3>1. left' = left - Head(evidence) /\ chars' = chars + Head(evidence) /\ lost' = lost
      BY <1>3, <2>5 DEF PlaceEvidence
    <3>2. left' + chars' = Budget /\ left' \in Int /\ chars' \in Nat /\ left' <= left /\ chars' <= Budget
      <4>1. \A h \in Nat : h <= left => /\ (left - h) + (chars + h) = Budget /\ left - h \in Int
                                         /\ chars + h \in Nat /\ left - h <= left /\ chars + h <= Budget
        BY <1>0, <2>3
      <4> QED
        BY <2>2, <2>5, <3>1, <4>1
    <3>3. chars' <= Greater(base, Budget) + 17
      BY <1>0, <3>2 DEF Greater
    <3>4. \A length \in lost : length > left'
      BY <2>3, <2>4, <3>2
    <3> QED
      BY <2>1, <2>2, <2>3, <3>1, <3>2, <3>3, <3>4 DEF ItemsOK, RoomOK, LostForWantOfRoom
  <2>6. CASE ~(Head(evidence) <= left)
    <3>1. lost' = lost \cup {Head(evidence)} /\ UNCHANGED <<left, chars>>
      BY <1>3, <2>6 DEF PlaceEvidence
    <3>2. Head(evidence) > left
      BY <2>2, <2>3, <2>6
    <3> QED
      BY <2>1, <2>2, <2>4, <3>1, <3>2 DEF ItemsOK, RoomOK, LostForWantOfRoom
  <2> QED
    BY <2>5, <2>6
<1>4. CASE EndEvidence
  BY <1>4 DEF EndEvidence, ItemsOK, RoomOK, LostForWantOfRoom
<1>5. CASE PlaceHistory
  <2>1. PICK length \in Placed(Head(history)) : left' = left - length /\ chars' = chars + length
    BY <1>5 DEF PlaceHistory
  <2>2. /\ stage = "history" /\ history # <<>> /\ history' = Tail(history)
        /\ UNCHANGED <<stage, base, evidence, lost, room>>
    BY <1>5 DEF PlaceHistory
  <2>3. Head(history) \in Text /\ history' \in Seq(Text)
    BY <2>2 DEF ItemsOK
  <2>4. left \in Int /\ chars \in Nat /\ left + chars = Budget /\ chars <= Greater(base, Budget) + 17
    BY <2>2 DEF ItemsOK, RoomOK
  <2>5. length \in Nat /\ (length = 0 \/ length <= left + 17)
    BY <2>3, <2>4, PlacedIsNarrow
  <2>6. left' \in Int /\ chars' \in Nat /\ left' + chars' = Budget
    BY <1>0, <2>1, <2>4, <2>5
  <2>7. chars' <= Greater(base, Budget) + 17
    <3>1. Budget <= Greater(base, Budget)
      BY <1>0 DEF Greater
    <3> QED
      BY <1>0, <2>1, <2>4, <2>5, <3>1
  <2> QED
    BY <2>2, <2>3, <2>6, <2>7 DEF ItemsOK, RoomOK, LostForWantOfRoom
<1>6. CASE EndAssembly
  BY <1>6 DEF EndAssembly, ItemsOK, RoomOK, LostForWantOfRoom
<1> QED
  BY <1>1, <1>2, <1>3, <1>4, <1>5, <1>6 DEF ContextNext, AssemblyStep

THEOREM ContextInvariant == ContextSpec => []ContextInv
<1>1. ContextInit => ContextInv
  <2> SUFFICES ASSUME ContextInit PROVE ItemsOK /\ RoomOK
    BY RecallStart DEF ContextInv, ContextInit
  <2> QED
    BY DEF ContextInit, ItemsOK, RoomOK, LostForWantOfRoom
<1>2. ContextInv /\ [ContextNext]_<<memoryVars, contextVars>> => ContextInv'
  <2> SUFFICES ASSUME ContextInv, ContextNext \/ UNCHANGED <<memoryVars, contextVars>> PROVE ContextInv'
    OBVIOUS
  <2>1. RecallInv /\ ItemsOK /\ RoomOK
    BY DEF ContextInv
  <2>2. RecallInv'
    BY <2>1, ContextStepsAreMemorySteps, RecallStep
  <2> QED
    BY <2>1, <2>2, RoomStep DEF ContextInv
<1> QED
  BY <1>1, <1>2, PTL DEF ContextSpec

\* However long the items and whatever the texts, the context exceeds its
\* budget by the surplus of one hint at most (context_manager.py:190-208).
THEOREM ContextBudgetKept == ContextSpec => []BudgetKept
<1>1. ContextInv => BudgetKept
  BY DEF ContextInv, RoomOK, BudgetKept
<1> QED
  BY <1>1, ContextInvariant, PTL

\* No P1 item is left out while it would still fit (context_manager.py:137).
THEOREM ContextLosesForWantOfRoom == ContextSpec => []LostForWantOfRoom
<1>1. ContextInv => LostForWantOfRoom
  BY DEF ContextInv, RoomOK
<1> QED
  BY <1>1, ContextInvariant, PTL

--------------------------------------------------------------------------
(* Types: a search finds no more than it may, and no count runs away       *)

\* The table is finite, and the rows are no more than what they are found by.
CountsOK ==
    /\ IsFiniteSet(DOMAIN table)
    /\ clock \in 0..MaxTime
    /\ \A r \in RunId :
          /\ job[r] \in Entry \cup {Search}
          /\ Cardinality(hits[r]) <= TopK
          /\ now[r] \in 0..clock
    /\ told \in [RunId -> {"none", "SUCCESS", "PARTIAL", "TOOL_FAILURE"}] /\ used \in [RunId -> Nat]

LEMMA Times ==
    Ttl \subseteq Nat \ {0} /\ Never \in Nat /\ TopK \in Nat /\ MaxTime \in Nat
BY MemoryConstants

LEMMA ImageIsNoLarger ==
    ASSUME NEW S, IsFiniteSet(S), NEW f, NEW n \in Nat, Cardinality(S) <= n
    PROVE  Cardinality({f[k] : k \in S}) <= n
<1> DEFINE T == {f[k] : k \in S}
           g == [k \in S |-> f[k]]
<1>1. g \in Surjection(S, T)
  BY DEF Surjection
<1>2. IsFiniteSet(T) /\ Cardinality(T) <= Cardinality(S)
  BY <1>1, FS_Surjection
<1>3. Cardinality(T) \in Nat /\ Cardinality(S) \in Nat
  BY <1>2, FS_CardinalityType
<1> QED
  BY <1>2, <1>3

LEMMA CountsStart == MemoryInit => CountsOK
<1> SUFFICES ASSUME MemoryInit PROVE CountsOK
  OBVIOUS
<1>1. IsFiniteSet(DOMAIN table)
  BY MemoryConstants DEF MemoryInit
<1>2. Cardinality({}) = 0
  BY FS_EmptySet
<1> QED
  BY <1>1, <1>2, MemoryConstants DEF MemoryInit, CountsOK

LEMMA CountsStep == RecallInv /\ CountsOK /\ [MemoryNext]_memoryVars => CountsOK'
<1> SUFFICES ASSUME RecallInv, CountsOK, [MemoryNext]_memoryVars PROVE CountsOK'
  OBVIOUS
<1>0. /\ CallsOK /\ RowsOK /\ TopK \in Nat /\ MaxTime \in Nat /\ Cardinality({}) = 0
      /\ DOMAIN hits = RunId /\ DOMAIN now = RunId /\ DOMAIN job = RunId
  BY Times, FS_EmptySet DEF RecallInv, CallsOK
<1>1. CASE Tick \/ UNCHANGED memoryVars
  BY <1>0, <1>1 DEF Tick, memoryVars, CountsOK
<1>2. ASSUME NEW r \in RunId, BeginStore(r) PROVE CountsOK'
  <2>1. PICK k \in Key, v \in Value, stale \in BOOLEAN, t \in Ttl \cup {Never} :
           job' = [job EXCEPT ![r] = [key |-> k, value |-> v, stale |-> stale,
                                      expires |-> IF t = Never THEN Never ELSE clock + t]]
    BY <1>2 DEF BeginStore
  <2>2. (IF t = Never THEN Never ELSE clock + t) \in Nat
    BY <1>0, Times DEF CallsOK
  <2>3. job'[r] \in Entry /\ \A q \in RunId \ {r} : job'[q] = job[q]
    BY <1>0, <2>1, <2>2 DEF Entry
  <2> QED
    BY <1>0, <1>2, <2>3 DEF BeginStore, CountsOK
<1>3. ASSUME NEW r \in RunId, JudgeRecord(r) PROVE CountsOK'
  <2>1. job[r] \in Entry
    BY <1>0, <1>3 DEF JudgeRecord, CallsOK
  <2>2. job' = [job EXCEPT ![r] = [job[r] EXCEPT !.stale = job[r].stale \/ job[r].expires <= clock]]
    BY <1>3 DEF JudgeRecord
  <2>3. [job[r] EXCEPT !.stale = job[r].stale \/ job[r].expires <= clock] \in Entry
    BY <2>1, EntryMarked
  <2>4. job'[r] \in Entry /\ \A q \in RunId \ {r} : job'[q] = job[q]
    BY <1>0, <2>2, <2>3
  <2> QED
    BY <1>3, <2>4 DEF JudgeRecord, CountsOK
<1>4. ASSUME NEW r \in RunId, CommitRecord(r) PROVE CountsOK'
  <2>1. DOMAIN table' = DOMAIN table \cup {job[r].key}
    BY <1>4 DEF CommitRecord
  <2>2. IsFiniteSet(DOMAIN table \cup {job[r].key})
    <3>1. IsFiniteSet(DOMAIN table)
      BY DEF CountsOK
    <3> QED
      BY ONLY <3>1, FS_AddElement
  <2>3. IsFiniteSet(DOMAIN table')
    BY <2>1, <2>2
  <2> QED
    BY <1>4, <2>3 DEF CommitRecord, CountsOK
<1>5. ASSUME NEW r \in RunId, BeginSearch(r) PROVE CountsOK'
  BY <1>0, <1>5 DEF BeginSearch, CountsOK
<1>6. ASSUME NEW r \in RunId, ReadClock(r) PROVE CountsOK'
  <2>1. \A q \in RunId : now'[q] \in 0..clock
    BY <1>0, <1>6 DEF ReadClock, CountsOK
  <2> QED
    BY <1>6, <2>1 DEF ReadClock, CountsOK
<1>7. ASSUME NEW r \in RunId, MarkExpired(r) PROVE CountsOK'
  BY <1>7 DEF MarkExpired, CountsOK
<1>8. ASSUME NEW r \in RunId, SelectMatches(r) PROVE CountsOK'
  <2>1. PICK found \in SUBSET {k \in DOMAIN table : ~table[k].stale} :
           Cardinality(found) <= TopK /\ hits' = [hits EXCEPT ![r] = {table[k] : k \in found}]
    BY <1>8 DEF SelectMatches
  <2>2. IsFiniteSet(found)
    <3>1. IsFiniteSet(DOMAIN table) /\ found \in SUBSET (DOMAIN table)
      BY DEF CountsOK
    <3> QED
      BY ONLY <3>1, FS_Subset
  <2>3. Cardinality({table[k] : k \in found}) <= TopK
    BY <1>0, <2>1, <2>2, ImageIsNoLarger
  <2>4. \A q \in RunId : Cardinality(hits'[q]) <= TopK
    BY <1>0, <2>1, <2>3 DEF CountsOK
  <2> QED
    BY <1>8, <2>4 DEF SelectMatches, CountsOK
<1>9. ASSUME NEW r \in RunId, VerifyStore(r) \/ CallFails(r) PROVE CountsOK'
  <2>1. told' \in [RunId -> {"none", "SUCCESS", "PARTIAL", "TOOL_FAILURE"}]
    BY <1>9 DEF VerifyStore, CallFails, CountsOK
  <2> QED
    BY <1>9, <2>1 DEF VerifyStore, CallFails, CountsOK
<1> QED
  BY <1>1, <1>2, <1>3, <1>4, <1>5, <1>6, <1>7, <1>8, <1>9 DEF MemoryNext, Store, Recall

\* The state of the memory has its type; a search returns rag_top_k records
\* at most, however many runs stored meanwhile (memory/repository.py:81).
THEOREM MemoryTypes == MemorySpec => []MemoryTypeOK
<1>1. RecallInv /\ CountsOK => MemoryTypeOK
  <2> SUFFICES ASSUME RecallInv, CountsOK PROVE MemoryTypeOK
    OBVIOUS
  <2>1. RowsOK /\ CallsOK
    BY DEF RecallInv
  <2>2. now \in [RunId -> 0..clock]
    BY <2>1 DEF CallsOK, CountsOK
  <2> QED
    BY <2>1, <2>2 DEF RowsOK, CallsOK, CountsOK, MemoryTypeOK
<1> QED
  BY <1>1, RecallStart, RecallStep, CountsStart, CountsStep, PTL DEF MemorySpec

\* Of the two P2 texts as many are cut as have been placed, at most; what P3
\* loses are tool results that somebody has made.
CutOK ==
    /\ dropped \in 0..MaxItems /\ cut \in 0..2
    /\ stage \in {"evidence", "history"} => Len(history) + cut <= 2

LEMMA LatestIsNoLonger ==
    ASSUME NEW S, NEW s \in Seq(S), NEW n \in Nat
    PROVE  Len(Latest(s, n)) <= Len(s)
<1>1. CASE n = 0 \/ n >= Len(s)
  BY <1>1 DEF Latest
<1>2. CASE ~(n = 0 \/ n >= Len(s))
  <2>1. Len(s) - n + 1 \in 1..Len(s) /\ Len(s) \in Nat
    BY <1>2
  <2>2. Len(SubSeq(s, Len(s) - n + 1, Len(s))) = n
    BY <2>1
  <2> QED
    BY <1>2, <2>2 DEF Latest
<1> QED
  BY <1>1, <1>2

LEMMA AtMostIsShort ==
    ASSUME NEW n \in Nat, NEW S, NEW s \in AtMost(n, S)
    PROVE  s \in Seq(S) /\ Len(s) \in 0..n
<1>1. PICK k \in 0..n : s \in [1..k -> S]
  BY DEF AtMost
<1> QED
  BY <1>1

LEMMA GatherCuts ==
    ASSUME GatherItems
    PROVE  dropped' \in 0..MaxItems /\ cut' = 0 /\ Len(history') <= 2
<1>1. PICK outcomes \in AtMost(MaxItems, Result), talk \in AtMost(MaxItems, Length),
           steps \in AtMost(1, Text), older \in Text :
      \E pick \in Firsts(Latest(outcomes, RecentResults)) :
        /\ dropped' = Len(outcomes) - Len(pick)
        /\ history' = steps \o (IF Len(Latest(talk, RecentMessages)) < Len(talk) THEN <<older>> ELSE <<>>)
  BY ZenonT(30) DEF GatherItems
<1>2. PICK pick \in Firsts(Latest(outcomes, RecentResults)) :
        /\ dropped' = Len(outcomes) - Len(pick)
        /\ history' = steps \o (IF Len(Latest(talk, RecentMessages)) < Len(talk) THEN <<older>> ELSE <<>>)
  BY <1>1
<1>3. outcomes \in Seq(Result) /\ Len(outcomes) \in 0..MaxItems
  BY AtMostIsShort, Sizes
<1>4. Latest(outcomes, RecentResults) \in Seq(Result) /\ Len(Latest(outcomes, RecentResults)) <= Len(outcomes)
  BY <1>3, LatestItems, LatestIsNoLonger, Sizes
<1> DEFINE results == Latest(outcomes, RecentResults)
           old == IF Len(Latest(talk, RecentMessages)) < Len(talk) THEN <<older>> ELSE <<>>
<1>5. Len(pick) \in 0..Len(results)
  <2>1. Len(results) \in Nat
    BY <1>4
  <2>2. pick \in AtMost(Len(results), 1..Len(results))
    BY DEF Firsts
  <2> HIDE DEF results
  <2> QED
    BY <2>1, <2>2, AtMostIsShort
<1>6. steps \in Seq(Text) /\ Len(steps) \in 0..1
  BY AtMostIsShort
<1>7. old \in Seq(Text) /\ Len(old) \in 0..1
  OBVIOUS
<1>8. history' = steps \o old
  BY <1>2
<1>9. dropped' = Len(outcomes) - Len(pick) /\ Len(results) <= Len(outcomes) /\ Len(results) \in Nat
  BY <1>2, <1>4
<1>10. cut' = 0
  BY DEF GatherItems
<1> HIDE DEF results, old
<1>11. dropped' \in 0..MaxItems
  BY <1>3, <1>5, <1>9, Sizes
<1>12. Len(history') <= 2
  BY <1>6, <1>7, <1>8
<1> QED
  BY <1>10, <1>11, <1>12

LEMMA CutStep ==
    ASSUME ItemsOK, CutOK, ContextNext \/ UNCHANGED <<memoryVars, contextVars>>
    PROVE  CutOK'
<1>1. CASE BeginAssembly \/ AbandonAssembly \/ MemoryStep \/ UNCHANGED <<memoryVars, contextVars>>
  BY <1>1 DEF BeginAssembly, AbandonAssembly, MemoryStep, contextVars, CutOK
<1>2. CASE GatherItems
  <2>1. dropped' \in 0..MaxItems /\ cut' = 0 /\ Len(history') <= 2
    BY <1>2, GatherCuts
  <2> QED
    BY <2>1 DEF CutOK
<1>3. CASE PlaceEvidence \/ EndEvidence \/ EndAssembly
  BY <1>3 DEF PlaceEvidence, EndEvidence, EndAssembly, CutOK
<1>4. CASE PlaceHistory
  <2>1. /\ stage = "history" /\ stage' = stage /\ history # <<>> /\ history' = Tail(history)
        /\ dropped' = dropped /\ (cut' = cut \/ cut' = cut + 1)
    BY <1>4 DEF PlaceHistory
  <2>2. history \in Seq(Text) /\ Len(history) \in Nat \ {0} /\ Len(history') = Len(history) - 1
    BY <2>1 DEF ItemsOK
  <2> QED
    BY <2>1, <2>2 DEF CutOK
<1> QED
  BY <1>1, <1>2, <1>3, <1>4 DEF ContextNext, AssemblyStep

\* The state of an assembly has its type: no more tool results are dropped
\* than there were, and no more P2 texts cut (context_manager.py:87, 139-147).
THEOREM ContextTypes == ContextSpec => []ContextTypeOK
<1>1. ContextInit => CutOK
  BY Sizes DEF ContextInit, CutOK
<1>2. ContextInv /\ CutOK /\ [ContextNext]_<<memoryVars, contextVars>> => CutOK'
  BY CutStep DEF ContextInv
<1>3. ContextInv /\ CutOK /\ MemoryTypeOK => ContextTypeOK
  BY DEF ContextInv, ItemsOK, RoomOK, CutOK, ContextTypeOK
<1> QED
  BY <1>1, <1>2, <1>3, ContextInvariant, ContextUsesMemory, MemoryTypes, PTL DEF ContextSpec
=============================================================================
