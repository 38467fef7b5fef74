------------------------------- MODULE Memory -------------------------------
(***************************************************************************)
(* Table memories and its full-text index, which every transaction that     *)
(* touches one of them leaves alike: MemoryRepository, the tool             *)
(* memory.store, and the search of a run that assembles its context.  Runs  *)
(* live in processes of their own; between the transactions of one call,    *)
(* and between reading the clock and getting the write lock, others go on.  *)
(***************************************************************************)
EXTENDS Integers, FiniteSets

CONSTANTS
    RunId,
    Key,            \* pairs of category and key
    Value,          \* texts as SecretScrubber leaves them
    Ttl,            \* expires_in_seconds a model may ask for
    TopK,           \* rag_top_k
    Earlier,        \* tables that earlier runs may have left
    Never,          \* expires_at of a record that does not expire
    MaxTime,        \* bound: clock
    MaxCalls        \* bound: calls of each run

Entry == [key : Key, value : Value, stale : BOOLEAN, expires : Nat]

ASSUME MemoryConstants ==
    /\ Ttl \subseteq Nat \ {0} /\ Never \in Nat /\ \A t \in Ttl : MaxTime + t < Never
    /\ TopK \in Nat /\ MaxTime \in Nat
    /\ MaxCalls \in [RunId -> Nat]
    /\ \A t \in Earlier :
          /\ IsFiniteSet(DOMAIN t)
          /\ \A k \in DOMAIN t : k \in Key /\ t[k] \in Entry /\ t[k].key = k

VARIABLES
    table,      \* rows of memories by key; a partial function
    clock,
    pc,         \* where the run's call is; see Place
    job,        \* record being stored, or <<>> in a search
    now,        \* time the sweep of the call has read
    hits,       \* records the last search found
    told,       \* outcome of the last call
    used,       \* calls so far, for the bound
    since       \* history: keys stored since the sweep of the present call

memoryVars == <<table, clock, pc, job, now, hits, told, used, since>>

Place == {"idle", "judge", "commit", "look", "sweep", "select", "verify"}
Search == <<>>      \* in place of a record

MemoryInit ==
    /\ table \in Earlier /\ clock = 0
    /\ pc = [r \in RunId |-> "idle"] /\ job = [r \in RunId |-> Search]
    /\ now = [r \in RunId |-> 0] /\ hits = [r \in RunId |-> {}]
    /\ told = [r \in RunId |-> "none"] /\ used = [r \in RunId |-> 0]
    /\ since = [r \in RunId |-> {}]

Goto(r, place) == pc' = [pc EXCEPT ![r] = place]
Ready(r) == pc[r] = "idle" /\ used[r] < MaxCalls[r]

--------------------------------------------------------------------------
(* MemoryTools.store and MemoryRepository.upsert                           *)

BeginStore(r) ==
    /\ Ready(r)
    /\ \E k \in Key, v \in Value, stale \in BOOLEAN, t \in Ttl \cup {Never} :
          job' = [job EXCEPT ![r] =
                    [key |-> k, value |-> v, stale |-> stale,
                     expires |-> IF t = Never THEN Never ELSE clock + t]]
    /\ hits' = [hits EXCEPT ![r] = {}]
    /\ Goto(r, "judge")
    /\ used' = [used EXCEPT ![r] = @ + 1]
    /\ UNCHANGED <<table, clock, now, told, since>>

\* _effective_confidence, before the write lock is there.
JudgeRecord(r) ==
    /\ pc[r] = "judge"
    /\ job' = [job EXCEPT ![r].stale = @ \/ job[r].expires <= clock]
    /\ Goto(r, "commit")
    /\ UNCHANGED <<table, clock, now, hits, told, used, since>>

\* Row and index in one transaction.
CommitRecord(r) ==
    /\ pc[r] = "commit"
    /\ table' = [k \in DOMAIN table \cup {job[r].key} |-> IF k = job[r].key THEN job[r] ELSE table[k]]
    /\ since' = [q \in RunId |-> since[q] \cup {job[r].key}]
    /\ Goto(r, "look")
    /\ UNCHANGED <<clock, job, now, hits, told, used>>

--------------------------------------------------------------------------
(* mark_expired_stale, at the head of get, search and recent               *)

BeginSearch(r) ==
    /\ Ready(r)
    /\ job' = [job EXCEPT ![r] = Search]
    /\ hits' = [hits EXCEPT ![r] = {}]
    /\ Goto(r, "look")
    /\ used' = [used EXCEPT ![r] = @ + 1]
    /\ UNCHANGED <<table, clock, now, told, since>>

ReadClock(r) ==
    /\ pc[r] = "look"
    /\ now' = [now EXCEPT ![r] = clock]
    /\ Goto(r, "sweep")
    /\ UNCHANGED <<table, clock, job, hits, told, used, since>>

\* Faulty variant: what expires right now is spared.
MarkLater(r) ==
    /\ pc[r] = "sweep"
    /\ table' = [k \in DOMAIN table |->
                    IF table[k].expires < now[r] THEN [table[k] EXCEPT !.stale = TRUE]
                    ELSE table[k]]
    /\ since' = [since EXCEPT ![r] = {}]
    /\ Goto(r, IF job[r] = Search THEN "select" ELSE "verify")
    /\ UNCHANGED <<clock, job, now, hits, told, used>>

MarkExpired(r) ==
    /\ pc[r] = "sweep"
    /\ table' = [k \in DOMAIN table |->
                    IF table[k].expires <= now[r] THEN [table[k] EXCEPT !.stale = TRUE]
                    ELSE table[k]]
    /\ since' = [since EXCEPT ![r] = {}]
    /\ Goto(r, IF job[r] = Search THEN "select" ELSE "verify")
    /\ UNCHANGED <<clock, job, now, hits, told, used>>

\* verify_store: is it there as written?
VerifyStore(r) ==
    /\ pc[r] = "verify"
    /\ told' = [told EXCEPT ![r] =
                  IF table[job[r].key].value = job[r].value THEN "SUCCESS" ELSE "PARTIAL"]
    /\ Goto(r, "idle")
    /\ UNCHANGED <<table, clock, job, now, hits, used, since>>

\* Faulty variant: all that match.
SelectAll(r) ==
    /\ pc[r] = "select"
    /\ \E found \in SUBSET {k \in DOMAIN table : ~table[k].stale} :
          hits' = [hits EXCEPT ![r] = {table[k] : k \in found}]
    /\ Goto(r, "idle")
    /\ UNCHANGED <<table, clock, job, now, told, used, since>>

\* search, or recent for a query without a word: the best that match.
SelectMatches(r) ==
    /\ pc[r] = "select"
    /\ \E found \in SUBSET {k \in DOMAIN table : ~table[k].stale} :
          /\ Cardinality(found) <= TopK
          /\ hits' = [hits EXCEPT ![r] = {table[k] : k \in found}]
    /\ Goto(r, "idle")
    /\ UNCHANGED <<table, clock, job, now, told, used, since>>

\* A database error at any point; what is committed stays.
CallFails(r) ==
    /\ pc[r] # "idle"
    /\ Goto(r, "idle") /\ told' = [told EXCEPT ![r] = "TOOL_FAILURE"]
    /\ UNCHANGED <<table, clock, job, now, hits, used, since>>

Tick ==
    /\ clock < MaxTime
    /\ clock' = clock + 1
    /\ UNCHANGED <<table, pc, job, now, hits, told, used, since>>

Store(r)  == BeginStore(r) \/ JudgeRecord(r) \/ CommitRecord(r)
Recall(r) == BeginSearch(r) \/ ReadClock(r) \/ MarkExpired(r) \/ SelectMatches(r) \/ VerifyStore(r)

MemoryNext == Tick \/ \E r \in RunId : Store(r) \/ Recall(r) \/ CallFails(r)

MemorySpec == MemoryInit /\ [][MemoryNext]_memoryVars

--------------------------------------------------------------------------
(* Properties                                                              *)

MemoryTypeOK ==
    /\ DOMAIN table \subseteq Key /\ \A k \in DOMAIN table : table[k] \in Entry
    /\ clock \in 0..MaxTime
    /\ pc \in [RunId -> Place]
    /\ \A r \in RunId :
          /\ job[r] \in Entry \cup {Search}
          /\ hits[r] \subseteq Entry /\ Cardinality(hits[r]) <= TopK
    /\ now \in [RunId -> 0..clock]
    /\ told \in [RunId -> {"none", "SUCCESS", "PARTIAL", "TOOL_FAILURE"}]
    /\ used \in [RunId -> Nat] /\ since \in [RunId -> SUBSET Key]

(* A search hands out nothing that had expired when its sweep read the      *)
(* clock, but what another run has stored since: the sweep and the SELECT   *)
(* are two transactions, and a store judges its record before it holds the  *)
(* lock (memory/repository.py:27, 69).                                      *)
HitsWereFresh ==
    \A r \in RunId : \A record \in hits[r] :
        ~record.stale /\ (record.expires > now[r] \/ record.key \in since[r])
==========================================================================
