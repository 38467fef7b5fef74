-------------------------- MODULE ContextAssembly --------------------------
(***************************************************************************)
(* ContextManager.assemble for the run `reader`: what goes into the context *)
(* of a conversation, tier by tier, within a budget of characters.  Texts   *)
(* are told apart by their length and, where they are cut, by where their   *)
(* lines end.  The memory tier is what the run's search has found.          *)
(***************************************************************************)
EXTENDS Memory, Sequences

CONSTANTS
    Reader,
    Budget,             \* _character_budget
    RecentResults, RecentMessages,
    Base,               \* lengths that the P0 items may have together
    Result,             \* tool results: [text, length, verified]
    Length,             \* lengths of messages
    Text,               \* P2 texts: for each line, the place where it ends
    LengthOf,           \* of a memory item, by its value
    MaxItems            \* bound: tool results, and messages

ASSUME ContextConstants ==
    /\ Reader \in RunId
    /\ Budget \in Nat /\ RecentResults \in Nat /\ RecentMessages \in Nat
    /\ Base \subseteq Nat /\ Length \subseteq Nat /\ \A x \in Result : x.length \in Nat
    /\ LengthOf \in [Value -> Nat] /\ MaxItems \in Nat
    /\ Text \subseteq Seq(Nat \ {0}) /\ \A text \in Text : 0 < Len(text) /\ Len(text) < 10000

VARIABLES
    stage,      \* "none", "recall", "evidence", "history", "done"
    base,       \* characters of the P0 items
    evidence,   \* lengths of the P1 items still to be placed
    history,    \* P2 texts still to be placed
    left,       \* remaining_characters
    chars,      \* characters of the items kept
    lost,       \* lengths of P1 items left out
    room,       \* history: remaining_characters after the P1 items
    dropped,    \* dropped_p3_items
    cut         \* truncated_p2_items

contextVars == <<stage, base, evidence, history, left, chars, lost, room, dropped, cut>>

ContextInit ==
    /\ MemoryInit
    /\ stage = "none" /\ base = 0 /\ evidence = <<>> /\ history = <<>>
    /\ left = 0 /\ chars = 0 /\ lost = {} /\ room = 0 /\ dropped = 0 /\ cut = 0

AtMost(n, S) == UNION {[1..k -> S] : k \in 0..n}
Greater(a, b) == IF a > b THEN a ELSE b

--------------------------------------------------------------------------
(* assemble                                                                *)

\* s[-n:] of Python; -0 is 0.
Latest(s, n) ==
    IF n = 0 \/ n >= Len(s) THEN s ELSE SubSeq(s, Len(s) - n + 1, Len(s))

\* Verified results that say what an earlier one said are left out.
Repeats(s, i) == s[i].verified /\ \E j \in 1..(i - 1) : s[j].verified /\ s[j].text = s[i].text

\* The places in s of the others, in their order; a set of one sequence.
Firsts(s) ==
    {pick \in AtMost(Len(s), 1..Len(s)) :
        /\ \A i, j \in DOMAIN pick : i < j => pick[i] < pick[j]
        /\ {pick[i] : i \in DOMAIN pick} = {i \in 1..Len(s) : ~Repeats(s, i)}}

\* The records found, in some order of relevance.
Found(found, order) ==
    /\ order \in [1..Cardinality(found) -> found]
    /\ \A i, j \in DOMAIN order : order[i] = order[j] => i = j

BeginAssembly ==
    /\ stage = "none" /\ BeginSearch(Reader)
    /\ stage' = "recall"
    /\ UNCHANGED <<base, evidence, history, left, chars, lost, room, dropped, cut>>

\* A search that fails ends the assembly, and run_with_context with it.
AbandonAssembly ==
    /\ stage = "recall" /\ CallFails(Reader)
    /\ stage' = "none"
    /\ UNCHANGED <<base, evidence, history, left, chars, lost, room, dropped, cut>>

GatherItems ==
    /\ stage = "recall" /\ pc[Reader] = "idle"
    /\ \E p0 \in Base, outcomes \in AtMost(MaxItems, Result), talk \in AtMost(MaxItems, Length),
          steps \in AtMost(1, Text), older \in Text, order \in AtMost(TopK, hits[Reader]) :
          /\ Found(hits[Reader], order)
          /\ LET results == Latest(outcomes, RecentResults)
                 recent  == Latest(talk, RecentMessages)
             IN  \E pick \in Firsts(results) :
                    /\ evidence' = [k \in DOMAIN pick |-> results[pick[k]].length] \o recent
                                     \o [k \in DOMAIN order |-> LengthOf[order[k].value]]
                    /\ dropped' = Len(outcomes) - Len(pick)
                    /\ history' = steps \o (IF Len(recent) < Len(talk) THEN <<older>> ELSE <<>>)
          /\ base' = p0 /\ chars' = p0
          /\ left' = Budget - p0
    /\ stage' = "evidence" /\ lost' = {} /\ cut' = 0
    /\ UNCHANGED <<memoryVars, room>>

--------------------------------------------------------------------------
(* _fit_budget and _truncate_with_line_range                               *)

\* Faulty variant: the first item that does not fit is the last one tried.
PlaceUntilFull ==
    /\ stage = "evidence" /\ evidence # <<>>
    /\ IF Head(evidence) <= left
       THEN /\ left' = left - Head(evidence) /\ chars' = chars + Head(evidence)
            /\ evidence' = Tail(evidence)
            /\ UNCHANGED lost
       ELSE /\ lost' = lost \cup {evidence[k] : k \in DOMAIN evidence} /\ evidence' = <<>>
            /\ UNCHANGED <<left, chars>>
    /\ UNCHANGED <<memoryVars, stage, base, history, room, dropped, cut>>

PlaceEvidence ==
    /\ stage = "evidence" /\ evidence # <<>>
    /\ IF Head(evidence) <= left
       THEN left' = left - Head(evidence) /\ chars' = chars + Head(evidence) /\ UNCHANGED lost
       ELSE lost' = lost \cup {Head(evidence)} /\ UNCHANGED <<left, chars>>
    /\ evidence' = Tail(evidence)
    /\ UNCHANGED <<memoryVars, stage, base, history, room, dropped, cut>>

EndEvidence ==
    /\ stage = "evidence" /\ evidence = <<>>
    /\ stage' = "history" /\ room' = left
    /\ UNCHANGED <<memoryVars, base, evidence, history, left, chars, lost, dropped, cut>>

Whole(text) == text[Len(text)]
Digits(n) == IF n < 10 THEN 1 ELSE IF n < 100 THEN 2 ELSE IF n < 1000 THEN 3 ELSE 4

\* The hint tells how many lines there are, and that the first was shown at least.
HintLength(shown, lines) == 60 + Digits(Greater(shown, 1)) + Digits(lines)

\* Lines are taken up to the first that ends beyond `limit`.
IsShown(text, k, limit) ==
    /\ k = 0 \/ text[k] <= limit
    /\ k = Len(text) \/ text[k + 1] > limit

CutAfter(text, k) == (IF k = 0 THEN 0 ELSE text[k]) + HintLength(k, Len(text))

\* Faulty variant: no room is kept for the hint.
CutTight(text, limit) ==
    IF limit < 48 THEN {0}
    ELSE {CutAfter(text, k) : k \in {i \in 0..Len(text) : IsShown(text, i, limit)}}

\* The length of what a cut leaves of a text; a set of one.
CutLengths(text, limit) ==
    IF limit < 48 THEN {0}
    ELSE {CutAfter(text, k) :
            k \in {i \in 0..Len(text) : IsShown(text, i, Greater(0, limit - 64))}}

Placed(text) ==
    IF left <= 0 THEN {0} ELSE IF Whole(text) <= left THEN {Whole(text)} ELSE CutLengths(text, left)

PlaceHistory ==
    /\ stage = "history" /\ history # <<>>
    /\ \E length \in Placed(Head(history)) : left' = left - length /\ chars' = chars + length
    /\ cut' = IF left > 0 /\ Whole(Head(history)) <= left THEN cut ELSE cut + 1
    /\ history' = Tail(history)
    /\ UNCHANGED <<memoryVars, stage, base, evidence, lost, room, dropped>>

EndAssembly ==
    /\ stage = "history" /\ history = <<>>
    /\ stage' = "done"
    /\ UNCHANGED <<memoryVars, base, evidence, history, left, chars, lost, room, dropped, cut>>

AssemblyStep ==
    \/ BeginAssembly \/ AbandonAssembly \/ GatherItems
    \/ PlaceEvidence \/ EndEvidence \/ PlaceHistory \/ EndAssembly

\* The other runs store; what they do after the search is not looked at.
MemoryStep ==
    /\ stage \in {"none", "recall"}
    /\ \/ Tick
       \/ \E r \in RunId \ {Reader} : Store(r) \/ CallFails(r)
       \/ \E r \in RunId : ReadClock(r) \/ MarkExpired(r) \/ SelectMatches(r) \/ VerifyStore(r)
    /\ UNCHANGED contextVars

ContextNext == AssemblyStep \/ MemoryStep

ContextSpec == ContextInit /\ [][ContextNext]_<<memoryVars, contextVars>>

--------------------------------------------------------------------------
(* Properties                                                              *)

ContextTypeOK ==
    /\ MemoryTypeOK
    /\ stage \in {"none", "recall", "evidence", "history", "done"}
    /\ base \in Nat /\ evidence \in Seq(Nat) /\ history \in Seq(Text)
    /\ left \in Int /\ chars \in Nat /\ lost \subseteq Nat /\ room \in Int
    /\ dropped \in 0..MaxItems /\ cut \in 0..2

(* The context stays within its budget, or within its P0 items where they   *)
(* alone exceed it, but for the hint of one text that was cut: a hint is    *)
(* longer than the 48 characters for which it is made, so up to 17 more     *)
(* (context_manager.py:190-208).  What counts is the items, as the code     *)
(* counts them: the labels of as_system_context come on top.                *)
BudgetKept ==
    stage = "done" => chars <= Greater(base, Budget) + 17

(* No item of a lower tier takes the place of a P1 item, and none takes it  *)
(* in vain: each P1 item left out is longer than all that the others of its *)
(* tier have left, before any P2 text is placed (context_manager.py:137).   *)
LostForWantOfRoom ==
    stage \in {"history", "done"} => \A length \in lost : length > room
==========================================================================
