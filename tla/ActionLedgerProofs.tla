------------------------ MODULE ActionLedgerProofs ------------------------
(***************************************************************************)
(* Proofs about ActionLedger, for any number of actions, runs and workers, *)
(* any lease and any interleaving of repository calls.                     *)
(***************************************************************************)
EXTENDS ActionLedger, TLAPS

USE LedgerConstants

--------------------------------------------------------------------------
(* The inductive invariant.  EvidenceMatchesStatus is not inductive alone: *)
(* a completion must know that an executing row was not yet recovered, a   *)
(* claim that a row in front of it is untouched, and a lease bound must    *)
(* survive the time a claim spends between its SELECT and its UPDATE.      *)

RowsFresh ==
    \A a \in ActionId :
        /\ actions[a].status \in Unclaimed => actions[a].attempt = 0
        /\ actions[a].recovered => actions[a].status = "FAILED"

HandsPast == \A w \in Caller : hand[w].at <= now

IInv ==
    /\ LedgerTypeOK
    /\ RowsFresh
    /\ HandsPast
    /\ EvidenceMatchesStatus
    /\ LeaseWithinHorizon

(* Stepping one row at a time: what one row must satisfy.                  *)
RowEvidence(row) ==
    LET claim == IF row.attempt = 0
                 THEN << >>
                 ELSE << Evidence("CLAIMED", row.worker, row.attempt) >>
        how   == IF row.recovered THEN "RECOVERED" ELSE row.status
    IN  CASE row.status \in Unclaimed   -> << >>
          [] row.status = "EXECUTING"   -> claim
          [] row.status \in Settled     -> Append(claim, Evidence(how, row.worker, row.attempt))

RowOK(row, rows, time) ==
    /\ row.status \in Unclaimed => row.attempt = 0
    /\ row.recovered => row.status = "FAILED"
    /\ rows = RowEvidence(row)
    /\ (row.worker = NoWorker) <=> (row.status \in Unclaimed)
    /\ (row.lease = NoLease) <=> (row.status \in Unclaimed)
    /\ row.status = "EXECUTING" => row.lease <= time + LeaseSeconds

Rows == \A a \in ActionId : RowOK(actions[a], attempts[a], now)

\* The invariant is type correctness, past hands, and every row on its own.
LEMMA InvariantByRow ==
    IInv <=> LedgerTypeOK /\ HandsPast /\ Rows
  BY DEF IInv, RowsFresh, EvidenceMatchesStatus, LeaseWithinHorizon, Rows, RowOK,
         RowEvidence, ClaimEvidence, SettledAs, OutcomeRow

LEMMA InvariantByRowNext ==
    IInv' <=> LedgerTypeOK' /\ HandsPast' /\ Rows'
  BY DEF IInv, RowsFresh, EvidenceMatchesStatus, LeaseWithinHorizon, Rows, RowOK,
         RowEvidence, ClaimEvidence, SettledAs, OutcomeRow

--------------------------------------------------------------------------
(* What one write does to one row.                                         *)

LEMMA RequestRow ==
    ASSUME NEW row \in ActionRow, NEW rows, NEW time \in Nat, NEW at \in Nat,
           RowOK(row, rows, time), row.status \in Unclaimed,
           NEW s \in Unclaimed
    PROVE  LET row2 == [row EXCEPT !.status = s, !.createdAt = at]
               row3 == [row EXCEPT !.status = s, !.approvedAt = at]
               row4 == [row EXCEPT !.status = s]
           IN  /\ row2 \in ActionRow /\ RowOK(row2, rows, time)
               /\ row3 \in ActionRow /\ RowOK(row3, rows, time)
               /\ row4 \in ActionRow /\ RowOK(row4, rows, time)
  <1>1. s \in Status
    BY DEF Unclaimed, Status, Active
  <1> QED
    BY <1>1 DEF RowOK, RowEvidence, ActionRow, Unclaimed, Settled

LEMMA OutcomeRowOK ==
    ASSUME NEW row \in ActionRow, NEW rows \in Seq(AttemptRow), NEW time \in Nat,
           RowOK(row, rows, time), row.status = "EXECUTING",
           NEW lost \in BOOLEAN, NEW s \in Settled, lost => s = "FAILED"
    PROVE  LET row2 == [row EXCEPT !.status = s, !.recovered = lost]
               out  == Evidence(IF lost THEN "RECOVERED" ELSE s, row.worker, row.attempt)
           IN  /\ row2 \in ActionRow
               /\ out \in AttemptRow
               /\ RowOK(row2, Append(rows, out), time)
  <1> DEFINE row2 == [row EXCEPT !.status = s, !.recovered = lost]
             how  == IF lost THEN "RECOVERED" ELSE s
             out  == Evidence(how, row.worker, row.attempt)
  <1>1. s \in Status /\ s \notin Unclaimed /\ s # "EXECUTING" /\ row.status \notin Unclaimed /\ row.status \notin Settled
    BY DEF Settled, Status, Unclaimed, Active
  <1>2. row2 \in ActionRow
    BY <1>1 DEF ActionRow
  <1>3. out \in AttemptRow
    BY DEF ActionRow, AttemptRow, Settled, Evidence
  <1>4. /\ row2.status = s
        /\ row2.recovered = lost
        /\ row2.worker = row.worker
        /\ row2.lease = row.lease
        /\ row2.attempt = row.attempt
    BY DEF ActionRow
  <1>5. rows = IF row.attempt = 0 THEN << >> ELSE << Evidence("CLAIMED", row.worker, row.attempt) >>
    BY <1>1 DEF RowOK, RowEvidence
  <1>6. RowEvidence(row2) = Append(rows, out)
    BY <1>1, <1>4, <1>5 DEF RowEvidence
  <1>7. RowOK(row2, Append(rows, out), time)
    BY <1>1, <1>4, <1>6 DEF RowOK
  <1> QED
    BY <1>2, <1>3, <1>7

LEMMA ClaimRow ==
    ASSUME NEW row \in ActionRow, NEW rows \in Seq(AttemptRow), NEW time \in Nat,
           RowOK(row, rows, time), row.status = "APPROVED",
           NEW w \in WorkerId, NEW until \in Nat, until <= time + LeaseSeconds
    PROVE  LET kept    == [row EXCEPT !.status = "EXECUTING", !.worker = w,
                                      !.lease = until, !.recovered = FALSE]
               counted == [kept EXCEPT !.attempt = row.attempt + 1]
               claim   == Evidence("CLAIMED", w, row.attempt + 1)
           IN  /\ kept \in ActionRow /\ RowOK(kept, rows, time)
               /\ claim \in AttemptRow
               /\ counted \in ActionRow /\ RowOK(counted, Append(rows, claim), time)
  <1> DEFINE kept == [row EXCEPT !.status = "EXECUTING", !.worker = w,
                                 !.lease = until, !.recovered = FALSE]
             counted == [kept EXCEPT !.attempt = row.attempt + 1]
             claim == Evidence("CLAIMED", w, row.attempt + 1)
  <1>1. row.attempt = 0 /\ rows = << >>
    BY DEF RowOK, RowEvidence, Unclaimed, Settled
  <1>2. kept \in ActionRow
    BY DEF ActionRow, Status, Active
  <1>3. counted \in ActionRow
    <2>1. \A k \in ActionRow, n \in Nat : [k EXCEPT !.attempt = n] \in ActionRow
      BY DEF ActionRow
    <2>2. row.attempt + 1 \in Nat
      BY <1>1
    <2> HIDE DEF kept
    <2> QED
      BY <1>2, <2>1, <2>2
  <1>4. claim \in AttemptRow
    BY <1>1 DEF AttemptRow, Evidence
  <1>5. /\ kept.status = "EXECUTING" /\ counted.status = "EXECUTING"
        /\ kept.worker = w /\ counted.worker = w
        /\ kept.lease = until /\ counted.lease = until
        /\ ~kept.recovered /\ ~counted.recovered
        /\ kept.attempt = 0 /\ counted.attempt = 1
    BY <1>1 DEF ActionRow
  <1>6. "EXECUTING" \notin Unclaimed /\ "EXECUTING" \notin Settled
    BY DEF Unclaimed, Settled
  <1>7. RowEvidence(kept) = rows /\ RowEvidence(counted) = Append(rows, claim)
    <2>1. Append(rows, claim) = <<claim>>
      BY <1>1
    <2>2. RowEvidence(kept) = << >>
      BY <1>5, <1>6 DEF RowEvidence
    <2>3. RowEvidence(counted) = << Evidence("CLAIMED", w, 1) >>
      BY <1>5, <1>6 DEF RowEvidence
    <2> QED
      BY <1>1, <2>1, <2>2, <2>3
  <1>8. RowOK(kept, rows, time)
    BY <1>5, <1>6, <1>7 DEF RowOK
  <1>9. RowOK(counted, Append(rows, claim), time)
    BY <1>5, <1>6, <1>7 DEF RowOK
  <1> QED
    BY <1>2, <1>3, <1>4, <1>8, <1>9

--------------------------------------------------------------------------
(* Base case and one lemma per kind of step.                               *)

LEMMA InitOK == LedgerInit => IInv
  <1> SUFFICES ASSUME LedgerInit PROVE IInv
    OBVIOUS
  <1>1. LedgerTypeOK
    BY DEF LedgerInit, LedgerTypeOK, ActionRow, WorkerState, Hand, Empty, Status, Active
  <1>2. HandsPast
    BY DEF LedgerInit, HandsPast, Empty
  <1>3. Rows
    <2> SUFFICES ASSUME NEW a \in ActionId PROVE RowOK(actions[a], attempts[a], now)
      BY DEF Rows
    <2>1. actions[a].status = "ABSENT" /\ actions[a].attempt = 0 /\ ~actions[a].recovered
          /\ actions[a].worker = NoWorker /\ actions[a].lease = NoLease /\ attempts[a] = << >>
      BY DEF LedgerInit
    <2>2. "ABSENT" \in Unclaimed /\ "ABSENT" \notin Settled
      BY DEF Unclaimed, Settled
    <2> QED
      BY <2>1, <2>2 DEF RowOK, RowEvidence
  <1> QED
    BY <1>1, <1>2, <1>3, InvariantByRow

\* Steps that leave both action tables alone.
LEMMA TablesAlone ==
    ASSUME IInv, UNCHANGED <<actions, attempts>>, now' = now,
           workers' \in [Dispatcher -> WorkerState],
           hand' \in [Caller -> Hand],
           \A w \in Caller : hand'[w] = hand[w] \/ hand'[w].at <= now
    PROVE  IInv'
  <1>1. LedgerTypeOK /\ HandsPast /\ Rows
    BY InvariantByRow
  <1>2. LedgerTypeOK'
    BY <1>1 DEF LedgerTypeOK
  <1>3. HandsPast'
    BY <1>1 DEF HandsPast
  <1>4. Rows'
    BY <1>1 DEF Rows, RowOK
  <1> QED
    BY <1>2, <1>3, <1>4, InvariantByRowNext

\* Steps that rewrite rows, at the same time and with hands emptied at most.
LEMMA RowsRewritten ==
    ASSUME IInv, now' = now, workers' = workers,
           hand' \in [Caller -> Hand],
           \A w \in Caller : hand'[w] = hand[w] \/ hand'[w].at <= now,
           actions' \in [ActionId -> ActionRow],
           attempts' \in [ActionId -> Seq(AttemptRow)],
           \A a \in ActionId : RowOK(actions'[a], attempts'[a], now)
    PROVE  IInv'
  <1>1. LedgerTypeOK /\ HandsPast /\ Rows
    BY InvariantByRow
  <1>2. LedgerTypeOK'
    BY <1>1 DEF LedgerTypeOK
  <1>3. HandsPast'
    BY <1>1 DEF HandsPast
  <1>4. Rows'
    BY DEF Rows
  <1> QED
    BY <1>2, <1>3, <1>4, InvariantByRowNext

LEMMA TakeFacts ==
    ASSUME LedgerTypeOK, NEW w \in Caller, NEW rows \in SUBSET ActionId,
           NEW op \in {"dispatch", "continue", "sweep"}, Take(w, op, rows)
    PROVE  /\ hand' \in [Caller -> Hand]
           /\ \A v \in Caller : hand'[v] = hand[v] \/ hand'[v].at <= now
  <1> DEFINE taken == [op |-> op, rows |-> rows, at |-> now]
  <1>1. hand \in [Caller -> Hand] /\ now \in Nat /\ hand' = [hand EXCEPT ![w] = taken]
    BY DEF LedgerTypeOK, Take
  <1>2. taken \in Hand /\ taken.at <= now
    BY <1>1 DEF Hand
  <1> HIDE DEF taken
  <1> QED
    BY <1>1, <1>2

LEMMA PutDownFacts ==
    ASSUME LedgerTypeOK, NEW w \in Caller, PutDown(w)
    PROVE  /\ hand' \in [Caller -> Hand]
           /\ \A v \in Caller : hand'[v] = hand[v] \/ hand'[v].at <= now
  <1>1. hand \in [Caller -> Hand] /\ now \in Nat /\ hand' = [hand EXCEPT ![w] = Empty]
    BY DEF LedgerTypeOK, PutDown
  <1>2. Empty \in Hand /\ Empty.at <= now
    BY <1>1 DEF Hand, Empty
  <1> QED
    BY <1>1, <1>2

LEMMA SelectStep ==
    ASSUME IInv, NEW w \in Caller,
           SelectDispatchable(w) \/ SelectStale(w) \/ (\E r \in RunId : SelectApproved(r, w))
    PROVE  IInv'
  <1>0. LedgerTypeOK
    BY DEF IInv
  <1>1. /\ UNCHANGED <<now, actions, attempts, workers>>
        /\ \E op \in {"dispatch", "continue", "sweep"}, rows \in SUBSET ActionId : Take(w, op, rows)
    <2>1. CASE SelectDispatchable(w)
      BY <2>1 DEF SelectDispatchable, OldestDispatchable, Dispatchable, InStatus
    <2>2. CASE SelectStale(w)
      BY <2>2 DEF SelectStale, Stale, InStatus
    <2>3. CASE \E r \in RunId : SelectApproved(r, w)
      BY <2>3 DEF SelectApproved, ApprovedOf, InStatus
    <2> QED
      BY <2>1, <2>2, <2>3
  <1>2. PICK op \in {"dispatch", "continue", "sweep"}, rows \in SUBSET ActionId : Take(w, op, rows)
    BY <1>1
  <1>3. /\ hand' \in [Caller -> Hand]
        /\ \A v \in Caller : hand'[v] = hand[v] \/ hand'[v].at <= now
    BY <1>0, <1>2, TakeFacts
  <1>4. workers' \in [Dispatcher -> WorkerState]
    BY <1>0, <1>1 DEF LedgerTypeOK
  <1> QED
    BY <1>1, <1>3, <1>4, TablesAlone

LEMMA DecideStep ==
    ASSUME IInv, NEW r \in RunId, ApprovePendingAction(r) \/ RejectPendingAction(r)
    PROVE  IInv'
  <1>0. LedgerTypeOK /\ HandsPast /\ Rows
    BY InvariantByRow
  <1>1. /\ now' = now /\ workers' = workers /\ hand' = hand /\ attempts' = attempts
        /\ now \in Nat /\ hand \in [Caller -> Hand]
        /\ attempts \in [ActionId -> Seq(AttemptRow)]
    BY <1>0 DEF ApprovePendingAction, RejectPendingAction, LedgerTypeOK
  <1>2. "PENDING" \in Unclaimed /\ "APPROVED" \in Unclaimed /\ "REJECTED" \in Unclaimed
    BY DEF Unclaimed
  <1>3. ASSUME NEW a \in ActionId
        PROVE  actions'[a] \in ActionRow /\ RowOK(actions'[a], attempts[a], now)
    <2>1. actions[a] \in ActionRow /\ RowOK(actions[a], attempts[a], now)
      BY <1>0 DEF LedgerTypeOK, Rows
    <2>2. CASE ~(RunOf[a] = r /\ actions[a].status = "PENDING")
      <3>1. actions'[a] = actions[a]
        BY <2>2 DEF ApprovePendingAction, RejectPendingAction
      <3> QED
        BY <2>1, <3>1
    <2>3. CASE RunOf[a] = r /\ actions[a].status = "PENDING"
      <3>1. \/ actions'[a] = [actions[a] EXCEPT !.status = "APPROVED", !.approvedAt = now]
            \/ actions'[a] = [actions[a] EXCEPT !.status = "REJECTED"]
        BY <2>3 DEF ApprovePendingAction, RejectPendingAction
      <3>2. /\ [actions[a] EXCEPT !.status = "APPROVED", !.approvedAt = now] \in ActionRow
            /\ RowOK([actions[a] EXCEPT !.status = "APPROVED", !.approvedAt = now], attempts[a], now)
        BY <1>1, <1>2, <2>1, <2>3, RequestRow
      <3>3. /\ [actions[a] EXCEPT !.status = "REJECTED"] \in ActionRow
            /\ RowOK([actions[a] EXCEPT !.status = "REJECTED"], attempts[a], now)
        BY <1>1, <1>2, <2>1, <2>3, RequestRow
      <3> QED
        BY <3>1, <3>2, <3>3
    <2> QED
      BY <2>2, <2>3
  <1>4. actions' \in [ActionId -> ActionRow]
    <2>1. actions' = [a \in ActionId |-> actions'[a]]
      <3>1. CASE ApprovePendingAction(r)
        BY <3>1 DEF ApprovePendingAction
      <3>2. CASE RejectPendingAction(r)
        BY <3>2 DEF RejectPendingAction
      <3> QED
        BY <3>1, <3>2
    <2> QED
      BY <1>3, <2>1
  <1> QED
    BY <1>1, <1>3, <1>4, RowsRewritten

LEMMA CreateStep ==
    ASSUME IInv, NEW a \in ActionId, CreatePendingAction(a)
    PROVE  IInv'
  <1>0. LedgerTypeOK /\ HandsPast /\ Rows
    BY InvariantByRow
  <1>1. /\ now' = now /\ workers' = workers /\ hand' = hand /\ attempts' = attempts
        /\ now \in Nat /\ hand \in [Caller -> Hand]
        /\ attempts \in [ActionId -> Seq(AttemptRow)]
    BY <1>0 DEF CreatePendingAction, LedgerTypeOK
  <1>2. "ABSENT" \in Unclaimed /\ "PENDING" \in Unclaimed
    BY DEF Unclaimed
  <1>3. actions[a] \in ActionRow /\ RowOK(actions[a], attempts[a], now)
    BY <1>0 DEF LedgerTypeOK, Rows
  <1> DEFINE row == [actions[a] EXCEPT !.status = "PENDING", !.createdAt = now]
  <1>4. row \in ActionRow /\ RowOK(row, attempts[a], now)
    BY <1>1, <1>2, <1>3, RequestRow DEF CreatePendingAction
  <1>5. actions' = [actions EXCEPT ![a] = row]
    BY <1>0 DEF CreatePendingAction, LedgerTypeOK
  <1>6. actions' \in [ActionId -> ActionRow]
    BY <1>0, <1>4, <1>5 DEF LedgerTypeOK
  <1>7. \A b \in ActionId : RowOK(actions'[b], attempts'[b], now)
    BY <1>0, <1>1, <1>4, <1>5 DEF LedgerTypeOK, Rows
  <1> QED
    BY <1>1, <1>6, <1>7, RowsRewritten

LEMMA ClaimWriteStep ==
    ASSUME IInv, NEW w \in WorkerId, ClaimDispatched(w) \/ ClaimApproved(w)
    PROVE  IInv'
  <1>0. LedgerTypeOK /\ HandsPast /\ Rows /\ w \in Caller
    BY InvariantByRow DEF Caller
  <1>1. now' = now /\ workers' = workers /\ PutDown(w)
    BY DEF ClaimDispatched, ClaimApproved
  <1>2. PICK a \in hand[w].rows :
           /\ actions[a].status = "APPROVED"
           /\ \/ /\ actions' = [actions EXCEPT ![a] = Claimed(@, w)]
                 /\ attempts' = attempts
              \/ /\ actions' = [actions EXCEPT ![a] =
                                  [Claimed(@, w) EXCEPT !.attempt = actions[a].attempt + 1]]
                 /\ attempts' = [attempts EXCEPT ![a] =
                                  Append(@, Evidence("CLAIMED", w, actions[a].attempt + 1))]
    BY DEF ClaimDispatched, ClaimApproved, StillDispatchable
  <1>3. a \in ActionId /\ hand[w].at \in Nat /\ hand[w].at <= now /\ now \in Nat
    BY <1>0, <1>2 DEF LedgerTypeOK, Hand, HandsPast
  <1>4. /\ actions \in [ActionId -> ActionRow]
        /\ attempts \in [ActionId -> Seq(AttemptRow)]
        /\ \A b \in ActionId : RowOK(actions[b], attempts[b], now)
    BY <1>0 DEF LedgerTypeOK, Rows
  <1> DEFINE until == hand[w].at + LeaseSeconds
             kept == [actions[a] EXCEPT !.status = "EXECUTING", !.worker = w,
                                        !.lease = until, !.recovered = FALSE]
             counted == [kept EXCEPT !.attempt = actions[a].attempt + 1]
             claim == Evidence("CLAIMED", w, actions[a].attempt + 1)
  <1>5. until \in Nat /\ until <= now + LeaseSeconds
    BY <1>3
  <1>6. /\ kept \in ActionRow /\ RowOK(kept, attempts[a], now)
        /\ claim \in AttemptRow
        /\ counted \in ActionRow /\ RowOK(counted, Append(attempts[a], claim), now)
    BY <1>2, <1>3, <1>4, <1>5, ClaimRow
  <1>7. \/ /\ actions' = [actions EXCEPT ![a] = kept]
           /\ attempts' = attempts
        \/ /\ actions' = [actions EXCEPT ![a] = counted]
           /\ attempts' = [attempts EXCEPT ![a] = Append(attempts[a], claim)]
    BY <1>2, <1>3, <1>4 DEF Claimed
  <1> HIDE DEF until, kept, counted, claim
  <1>8. Append(attempts[a], claim) \in Seq(AttemptRow)
    BY <1>3, <1>4, <1>6
  <1>9. actions' \in [ActionId -> ActionRow] /\ attempts' \in [ActionId -> Seq(AttemptRow)]
    BY <1>4, <1>6, <1>7, <1>8
  <1>10. \A b \in ActionId : RowOK(actions'[b], attempts'[b], now)
    BY <1>3, <1>4, <1>6, <1>7
  <1> QED
    BY <1>0, <1>1, <1>9, <1>10, PutDownFacts, RowsRewritten

LEMMA RenewStep ==
    ASSUME IInv, NEW a \in ActionId, NEW w \in WorkerId, RenewActionLease(a, w)
    PROVE  IInv'
  <1>0. LedgerTypeOK /\ HandsPast /\ Rows
    BY InvariantByRow
  <1>1. /\ now' = now /\ workers' = workers /\ hand' = hand /\ attempts' = attempts
        /\ now \in Nat /\ hand \in [Caller -> Hand]
        /\ attempts \in [ActionId -> Seq(AttemptRow)]
        /\ actions \in [ActionId -> ActionRow]
        /\ actions[a].status = "EXECUTING"
    BY <1>0 DEF RenewActionLease, OwnedBy, LedgerTypeOK
  <1> DEFINE row == [actions[a] EXCEPT !.lease = now + LeaseSeconds]
  <1>2. actions' = [actions EXCEPT ![a] = row]
    BY <1>1 DEF RenewActionLease
  <1>3. row \in ActionRow
    <2>1. \A k \in ActionRow, n \in Nat : [k EXCEPT !.lease = n] \in ActionRow
      BY DEF ActionRow
    <2>2. now + LeaseSeconds \in Nat /\ actions[a] \in ActionRow
      BY <1>1
    <2> QED
      BY <2>1, <2>2
  <1>4. RowOK(row, attempts[a], now)
    <2>1. RowOK(actions[a], attempts[a], now)
      BY <1>0 DEF Rows
    <2>2. /\ row.status = actions[a].status /\ row.worker = actions[a].worker
          /\ row.attempt = actions[a].attempt /\ row.recovered = actions[a].recovered
          /\ row.lease = now + LeaseSeconds
      BY <1>1 DEF ActionRow
    <2>3. now + LeaseSeconds \in Nat
      BY <1>1
    <2> QED
      BY <1>1, <2>1, <2>2, <2>3 DEF RowOK, RowEvidence, Unclaimed
  <1> HIDE DEF row
  <1>5. actions' \in [ActionId -> ActionRow]
    BY <1>1, <1>2, <1>3
  <1>6. \A b \in ActionId : RowOK(actions'[b], attempts'[b], now)
    BY <1>0, <1>1, <1>2, <1>4 DEF Rows
  <1> QED
    BY <1>1, <1>5, <1>6, RowsRewritten

LEMMA FinishStep ==
    ASSUME IInv, NEW a \in ActionId, NEW succeeded \in BOOLEAN, FinishPendingAction(a, succeeded)
    PROVE  IInv'
  <1>0. LedgerTypeOK /\ HandsPast /\ Rows
    BY InvariantByRow
  <1>1. /\ now' = now /\ workers' = workers /\ hand' = hand
        /\ now \in Nat /\ hand \in [Caller -> Hand]
        /\ attempts \in [ActionId -> Seq(AttemptRow)]
        /\ actions \in [ActionId -> ActionRow]
        /\ actions[a].status = "EXECUTING"
        /\ RowOK(actions[a], attempts[a], now)
    BY <1>0 DEF FinishPendingAction, LedgerTypeOK, Rows
  <1> DEFINE s == Verdict(succeeded)
             row == [actions[a] EXCEPT !.status = s, !.recovered = FALSE]
             out == Evidence(s, actions[a].worker, actions[a].attempt)
  <1>2. s \in Settled
    BY DEF Verdict, Settled
  <1>3. /\ row \in ActionRow /\ out \in AttemptRow
        /\ RowOK(row, Append(attempts[a], out), now)
    BY <1>1, <1>2, OutcomeRowOK
  <1>4. row = [actions[a] EXCEPT !.status = s]
    <2>1. actions[a].recovered = FALSE
      BY <1>1 DEF RowOK, ActionRow
    <2> QED
      BY <1>1, <2>1 DEF ActionRow
  <1>5. /\ actions' = [actions EXCEPT ![a] = row]
        /\ attempts' = [attempts EXCEPT ![a] = Append(attempts[a], out)]
    BY <1>1, <1>4 DEF FinishPendingAction, OutcomeRow
  <1> HIDE DEF s, row, out
  <1>6. Append(attempts[a], out) \in Seq(AttemptRow)
    BY <1>1, <1>3
  <1>7. actions' \in [ActionId -> ActionRow] /\ attempts' \in [ActionId -> Seq(AttemptRow)]
    BY <1>1, <1>3, <1>5, <1>6
  <1>8. \A b \in ActionId : RowOK(actions'[b], attempts'[b], now)
    BY <1>0, <1>1, <1>3, <1>5 DEF Rows
  <1> QED
    BY <1>1, <1>7, <1>8, RowsRewritten

LEMMA RecoverStep ==
    ASSUME IInv, NEW w \in Caller, RecoverStale(w)
    PROVE  IInv'
  <1>0. LedgerTypeOK /\ HandsPast /\ Rows
    BY InvariantByRow
  <1>1. now' = now /\ workers' = workers /\ PutDown(w)
    BY DEF RecoverStale
  <1>2. /\ now \in Nat
        /\ attempts \in [ActionId -> Seq(AttemptRow)]
        /\ actions \in [ActionId -> ActionRow]
    BY <1>0 DEF LedgerTypeOK
  <1>3. ASSUME NEW a \in ActionId
        PROVE  /\ actions'[a] \in ActionRow
               /\ attempts'[a] \in Seq(AttemptRow)
               /\ RowOK(actions'[a], attempts'[a], now)
    <2>1. /\ actions[a] \in ActionRow
          /\ attempts[a] \in Seq(AttemptRow)
          /\ RowOK(actions[a], attempts[a], now)
      BY <1>0, <1>2 DEF Rows
    <2>2. CASE a \in hand[w].rows /\ actions[a].status = "EXECUTING"
      <3> DEFINE row == [actions[a] EXCEPT !.status = "FAILED", !.recovered = TRUE]
                 out == Evidence("RECOVERED", actions[a].worker, actions[a].attempt)
      <3>1. actions'[a] = row /\ attempts'[a] = Append(attempts[a], out)
        BY <2>2 DEF RecoverStale, OutcomeRow
      <3>2. "FAILED" \in Settled
        BY DEF Settled
      <3>3. /\ row \in ActionRow /\ out \in AttemptRow
            /\ RowOK(row, Append(attempts[a], out), now)
        BY <1>2, <2>1, <2>2, <3>2, OutcomeRowOK
      <3> HIDE DEF row, out
      <3> QED
        BY <2>1, <3>1, <3>3
    <2>3. CASE ~(a \in hand[w].rows /\ actions[a].status = "EXECUTING")
      <3>1. actions'[a] = actions[a] /\ attempts'[a] = attempts[a]
        BY <2>3 DEF RecoverStale
      <3> QED
        BY <2>1, <3>1
    <2> QED
      BY <2>2, <2>3
  <1>4. actions' \in [ActionId -> ActionRow] /\ attempts' \in [ActionId -> Seq(AttemptRow)]
    <2>1. /\ actions' = [a \in ActionId |-> actions'[a]]
          /\ attempts' = [a \in ActionId |-> attempts'[a]]
      BY DEF RecoverStale
    <2> QED
      BY <1>3, <2>1
  <1> QED
    BY <1>0, <1>1, <1>3, <1>4, PutDownFacts, RowsRewritten

LEMMA TickStep ==
    ASSUME IInv, Tick
    PROVE  IInv'
  <1>0. LedgerTypeOK /\ HandsPast /\ Rows
    BY InvariantByRow
  <1>1. /\ now \in Nat /\ now' = now + 1 /\ UNCHANGED <<actions, attempts, workers, hand>>
        /\ actions \in [ActionId -> ActionRow] /\ hand \in [Caller -> Hand]
    BY <1>0 DEF Tick, LedgerTypeOK
  <1>2. LedgerTypeOK'
    BY <1>0, <1>1 DEF LedgerTypeOK
  <1>3. HandsPast'
    BY <1>0, <1>1 DEF HandsPast, Hand
  <1>4. Rows'
    <2> SUFFICES ASSUME NEW a \in ActionId PROVE RowOK(actions[a], attempts[a], now + 1)
      BY <1>1 DEF Rows
    <2>1. actions[a].lease \in Nat \cup {NoLease}
      BY <1>1 DEF ActionRow
    <2>2. RowOK(actions[a], attempts[a], now)
      BY <1>0 DEF Rows
    <2>3. actions[a].status = "EXECUTING" => actions[a].lease \in Nat
      BY <2>1, <2>2 DEF RowOK, Unclaimed
    <2> QED
      BY <1>1, <2>2, <2>3 DEF RowOK
  <1> QED
    BY <1>2, <1>3, <1>4, InvariantByRowNext

--------------------------------------------------------------------------
(* The theorems                                                            *)

LEMMA RegistryStep ==
    ASSUME IInv, NEW w \in Dispatcher, RegisterWorker(w) \/ DrainWorker(w) \/ StopWorker(w)
    PROVE  IInv'
  <1>1. LedgerTypeOK
    BY DEF IInv
  <1>2. UNCHANGED <<now, actions, attempts, hand>>
    BY DEF RegisterWorker, DrainWorker, StopWorker
  <1>3. workers' \in [Dispatcher -> WorkerState] /\ hand' \in [Caller -> Hand]
    BY <1>1 DEF LedgerTypeOK, WorkerState, RegisterWorker, DrainWorker, StopWorker
  <1> QED
    BY <1>2, <1>3, TablesAlone

LEMMA PutDownStep ==
    ASSUME IInv, NEW w \in Caller, LoseClaim(w) \/ Abandon(w)
    PROVE  IInv'
  <1>1. LedgerTypeOK
    BY DEF IInv
  <1>2. UNCHANGED <<now, actions, attempts, workers>> /\ PutDown(w)
    BY DEF LoseClaim, Abandon
  <1>3. workers' \in [Dispatcher -> WorkerState]
    BY <1>1, <1>2 DEF LedgerTypeOK
  <1> QED
    BY <1>1, <1>2, <1>3, PutDownFacts, TablesAlone

LEMMA NextOK ==
    ASSUME IInv, [LedgerNext]_ledgerVars
    PROVE  IInv'
  <1>0. /\ Dispatcher \subseteq WorkerId /\ Continuation \subseteq WorkerId
        /\ WorkerId \subseteq Caller /\ Sweeper \subseteq Caller
    BY DEF WorkerId, Sweeper, Caller
  <1>1. ASSUME NEW a \in ActionId, CreatePendingAction(a) PROVE IInv'
    BY <1>1, CreateStep
  <1>2. ASSUME NEW r \in RunId, ApprovePendingAction(r) \/ RejectPendingAction(r) PROVE IInv'
    BY <1>2, DecideStep
  <1>3. ASSUME NEW w \in Dispatcher, RegisterWorker(w) \/ DrainWorker(w) \/ StopWorker(w)
        PROVE  IInv'
    BY <1>3, RegistryStep
  <1>4. ASSUME NEW w \in Caller,
               SelectDispatchable(w) \/ SelectStale(w) \/ (\E r \in RunId : SelectApproved(r, w))
        PROVE  IInv'
    BY <1>4, SelectStep
  <1>5. ASSUME NEW w \in WorkerId, ClaimDispatched(w) \/ ClaimApproved(w) PROVE IInv'
    BY <1>5, ClaimWriteStep
  <1>6. ASSUME NEW w \in Caller, LoseClaim(w) \/ Abandon(w) PROVE IInv'
    BY <1>6, PutDownStep
  <1>7. ASSUME NEW w \in Caller, RecoverStale(w) PROVE IInv'
    BY <1>7, RecoverStep
  <1>8. ASSUME NEW a \in ActionId, NEW w \in WorkerId, RenewActionLease(a, w) PROVE IInv'
    BY <1>8, RenewStep
  <1>9. ASSUME NEW a \in ActionId, NEW succeeded \in BOOLEAN, FinishPendingAction(a, succeeded)
        PROVE  IInv'
    BY <1>9, FinishStep
  <1>10. CASE Tick
    BY <1>10, TickStep
  <1>11. CASE UNCHANGED ledgerVars
    <2>1. LedgerTypeOK
      BY DEF IInv
    <2>2. workers' \in [Dispatcher -> WorkerState] /\ hand' \in [Caller -> Hand]
      BY <1>11, <2>1 DEF ledgerVars, LedgerTypeOK
    <2> QED
      BY <1>11, <2>2, TablesAlone DEF ledgerVars
  <1> QED
    BY <1>0, <1>1, <1>2, <1>3, <1>4, <1>5, <1>6, <1>7, <1>8, <1>9, <1>10, <1>11 DEF LedgerNext

THEOREM LedgerInvariant == LedgerSpec => []IInv
  <1>1. LedgerInit => IInv
    BY InitOK
  <1>2. IInv /\ [LedgerNext]_ledgerVars => IInv'
    BY NextOK
  <1> QED
    BY <1>1, <1>2, PTL DEF LedgerSpec

(* Every reachable state of the dispatch tables is well typed.             *)
THEOREM LedgerTypeCorrect == LedgerSpec => []LedgerTypeOK
  <1>1. IInv => LedgerTypeOK
    BY DEF IInv
  <1> QED
    BY <1>1, LedgerInvariant, PTL

(* The audit rows of action_attempts agree with pending_actions, for every *)
(* interleaving of claims, sweeps and late completions.                    *)
THEOREM LedgerEvidence == LedgerSpec => []EvidenceMatchesStatus
  <1>1. IInv => EvidenceMatchesStatus
    BY DEF IInv
  <1> QED
    BY <1>1, LedgerInvariant, PTL

(* An executing action is never more than one lease from being recoverable.*)
THEOREM LedgerLease == LedgerSpec => []LeaseWithinHorizon
  <1>1. IInv => LeaseWithinHorizon
    BY DEF IInv
  <1> QED
    BY <1>1, LedgerInvariant, PTL

--------------------------------------------------------------------------
(* What every step does to the rows, as an action of ActionLifecycle sees  *)
(* it: one set of rows moves between two statuses, or one row is claimed.  *)

Moved(S, from, to) ==
    /\ S \subseteq ActionId
    /\ \A a \in S : actions[a].status = from
    /\ \A a \in ActionId :
          /\ actions'[a].status = IF a \in S THEN to ELSE actions[a].status
          /\ actions'[a].worker = actions[a].worker
          /\ actions'[a].lease = actions[a].lease

ClaimedBy(a, w) ==
    /\ actions[a].status = "APPROVED"
    /\ actions'[a].status = "EXECUTING" /\ actions'[a].worker = w
    /\ \A b \in ActionId \ {a} : actions'[b] = actions[b]

Renewed(a) ==
    /\ actions[a].status = "EXECUTING"
    /\ actions'[a].lease = now + LeaseSeconds
    /\ \A b \in ActionId : /\ actions'[b].status = actions[b].status
                           /\ actions'[b].worker = actions[b].worker
    /\ \A b \in ActionId \ {a} : actions'[b] = actions[b]

RowStep ==
    \/ \E a \in ActionId : Moved({a}, "ABSENT", "PENDING")
    \/ \E S \in SUBSET ActionId, v \in {"APPROVED", "REJECTED"} : Moved(S, "PENDING", v)
    \/ \E a \in ActionId, w \in WorkerId : ClaimedBy(a, w)
    \/ \E a \in ActionId : Renewed(a)
    \/ \E a \in ActionId, s \in Settled : Moved({a}, "EXECUTING", s)
    \/ \E S \in SUBSET ActionId : Moved(S, "EXECUTING", "FAILED")
    \/ actions' = actions

LEMMA StepsAreRowSteps ==
    ASSUME LedgerTypeOK, [LedgerNext]_ledgerVars
    PROVE  RowStep
  <1>0. actions \in [ActionId -> ActionRow] /\ now \in Nat
    BY DEF LedgerTypeOK
  <1>1. ASSUME NEW a \in ActionId, CreatePendingAction(a) PROVE RowStep
    <2>1. Moved({a}, "ABSENT", "PENDING")
      BY <1>0, <1>1 DEF CreatePendingAction, Moved, ActionRow
    <2> QED
      BY <2>1 DEF RowStep
  <1>2. ASSUME NEW r \in RunId, ApprovePendingAction(r) PROVE RowStep
    <2> DEFINE S == {a \in ActionId : RunOf[a] = r /\ actions[a].status = "PENDING"}
    <2>1. Moved(S, "PENDING", "APPROVED")
      BY <1>0, <1>2 DEF ApprovePendingAction, Moved, ActionRow
    <2> QED
      BY <2>1 DEF RowStep
  <1>3. ASSUME NEW r \in RunId, RejectPendingAction(r) PROVE RowStep
    <2> DEFINE S == {a \in ActionId : RunOf[a] = r /\ actions[a].status = "PENDING"}
    <2>1. Moved(S, "PENDING", "REJECTED")
      BY <1>0, <1>3 DEF RejectPendingAction, Moved, ActionRow
    <2> QED
      BY <2>1 DEF RowStep
  <1>4. ASSUME NEW w \in WorkerId, ClaimDispatched(w) \/ ClaimApproved(w) PROVE RowStep
    <2>1. PICK a \in hand[w].rows :
             /\ actions[a].status = "APPROVED"
             /\ \/ actions' = [actions EXCEPT ![a] = Claimed(@, w)]
                \/ actions' = [actions EXCEPT ![a] =
                                 [Claimed(@, w) EXCEPT !.attempt = actions[a].attempt + 1]]
      BY <1>4 DEF ClaimDispatched, ClaimApproved, StillDispatchable
    <2>2. a \in ActionId
      BY <2>1 DEF LedgerTypeOK, Hand, Caller
    <2>3. /\ actions'[a].status = "EXECUTING" /\ actions'[a].worker = w
          /\ \A b \in ActionId \ {a} : actions'[b] = actions[b]
      <3>1. \A row \in ActionRow, n \in Nat :
               /\ Claimed(row, w).status = "EXECUTING" /\ Claimed(row, w).worker = w
               /\ [Claimed(row, w) EXCEPT !.attempt = n].status = "EXECUTING"
               /\ [Claimed(row, w) EXCEPT !.attempt = n].worker = w
        BY DEF Claimed, ActionRow
      <3>2. actions[a] \in ActionRow /\ actions[a].attempt + 1 \in Nat
        BY <1>0, <2>2 DEF ActionRow
      <3>3. PICK row : /\ row = Claimed(actions[a], w)
                          \/ row = [Claimed(actions[a], w) EXCEPT !.attempt = actions[a].attempt + 1]
                       /\ actions' = [actions EXCEPT ![a] = row]
        BY <2>1
      <3>4. row.status = "EXECUTING" /\ row.worker = w
        BY <3>1, <3>2, <3>3
      <3> QED
        BY <1>0, <2>2, <3>3, <3>4
    <2>4. ClaimedBy(a, w)
      BY <2>1, <2>3 DEF ClaimedBy
    <2> QED
      BY <2>2, <2>4 DEF RowStep
  <1>5. ASSUME NEW a \in ActionId, NEW w \in WorkerId, RenewActionLease(a, w) PROVE RowStep
    <2>1. Renewed(a)
      BY <1>0, <1>5 DEF RenewActionLease, OwnedBy, Renewed, ActionRow
    <2> QED
      BY <2>1 DEF RowStep
  <1>6. ASSUME NEW w \in Caller, RecoverStale(w) PROVE RowStep
    <2> DEFINE S == {a \in ActionId : a \in hand[w].rows /\ actions[a].status = "EXECUTING"}
    <2>1. Moved(S, "EXECUTING", "FAILED")
      BY <1>0, <1>6 DEF RecoverStale, Moved, ActionRow
    <2> QED
      BY <2>1 DEF RowStep
  <1>7. ASSUME NEW a \in ActionId, NEW succeeded \in BOOLEAN, FinishPendingAction(a, succeeded)
        PROVE  RowStep
    <2>1. Verdict(succeeded) \in Settled
      BY DEF Verdict, Settled
    <2>2. Moved({a}, "EXECUTING", Verdict(succeeded))
      BY <1>0, <1>7 DEF FinishPendingAction, Moved, ActionRow
    <2> QED
      BY <2>1, <2>2 DEF RowStep
  <1>8. ASSUME NEW w \in Caller,
               \/ RegisterWorker(w) \/ DrainWorker(w) \/ StopWorker(w)
               \/ SelectDispatchable(w) \/ SelectStale(w) \/ LoseClaim(w) \/ Abandon(w)
               \/ \E r \in RunId : SelectApproved(r, w)
        PROVE  RowStep
    BY <1>8 DEF RowStep, RegisterWorker, DrainWorker, StopWorker, SelectDispatchable,
                SelectStale, LoseClaim, Abandon, SelectApproved
  <1>9. CASE Tick \/ UNCHANGED ledgerVars
    BY <1>9 DEF RowStep, Tick, ledgerVars
  <1>10. /\ Dispatcher \subseteq WorkerId /\ Continuation \subseteq WorkerId
         /\ WorkerId \subseteq Caller /\ Sweeper \subseteq Caller
    BY DEF WorkerId, Sweeper, Caller
  <1> QED
    BY <1>1, <1>2, <1>3, <1>4, <1>5, <1>6, <1>7, <1>8, <1>9, <1>10 DEF LedgerNext

(* No step hands an action to another worker or shortens a lease.          *)
LEMMA StepKeepsOwner ==
    ASSUME IInv, [LedgerNext]_ledgerVars
    PROVE  OwnerKept
  <1>1. /\ LedgerTypeOK /\ LeaseWithinHorizon
        /\ actions \in [ActionId -> ActionRow] /\ now \in Nat
    BY DEF IInv, LedgerTypeOK
  <1>2. RowStep
    BY <1>1, StepsAreRowSteps
  <1> SUFFICES ASSUME NEW a \in ActionId, actions[a].worker # NoWorker
               PROVE  actions'[a].worker = actions[a].worker /\ actions'[a].lease >= actions[a].lease
    BY DEF OwnerKept
  <1>3. actions[a].lease \in Nat /\ actions[a].status \notin Unclaimed
    BY <1>1 DEF LeaseWithinHorizon, ActionRow
  <1>4. actions[a].status # "APPROVED"
    BY <1>3 DEF Unclaimed
  <1>5. ASSUME NEW b \in ActionId, NEW w \in WorkerId, ClaimedBy(b, w)
        PROVE  actions'[a] = actions[a]
    BY <1>4, <1>5 DEF ClaimedBy
  <1>6. ASSUME NEW b \in ActionId, Renewed(b)
        PROVE  actions'[a].worker = actions[a].worker /\ actions'[a].lease >= actions[a].lease
    <2>1. CASE a = b
      <3>1. actions[a].lease <= now + LeaseSeconds /\ actions'[a].lease = now + LeaseSeconds
        BY <1>1, <1>6, <2>1 DEF Renewed, LeaseWithinHorizon
      <3>2. now + LeaseSeconds \in Nat
        BY <1>1
      <3> QED
        BY <1>3, <1>6, <3>1, <3>2 DEF Renewed
    <2>2. CASE a # b
      BY <1>3, <1>6, <2>2 DEF Renewed
    <2> QED
      BY <2>1, <2>2
  <1>7. ASSUME NEW S, NEW from, NEW to, Moved(S, from, to)
        PROVE  actions'[a].worker = actions[a].worker /\ actions'[a].lease >= actions[a].lease
    BY <1>3, <1>7 DEF Moved
  <1>8. ASSUME actions'[a] = actions[a]
        PROVE  actions'[a].worker = actions[a].worker /\ actions'[a].lease >= actions[a].lease
    BY <1>3, <1>8
  <1> QED
    BY <1>2, <1>5, <1>6, <1>7, <1>8 DEF RowStep

(* An action stays with the worker that claimed it.                        *)
THEOREM LedgerOwner == LedgerSpec => OwnerNeverChanges
  <1>1. IInv /\ [LedgerNext]_ledgerVars => [OwnerKept]_ledgerVars
    BY StepKeepsOwner
  <1> QED
    BY <1>1, LedgerInvariant, PTL DEF LedgerSpec, OwnerNeverChanges

LEMMA InitMapped == LedgerInit => Lifecycle!Init
  BY DEF LedgerInit, Lifecycle!Init

LEMMA MovedMapped ==
    ASSUME NEW S \in SUBSET ActionId, NEW from, NEW to, Moved(S, from, to)
    PROVE  /\ Lifecycle!Move(S, from, to)
           /\ [a \in ActionId |-> actions[a].worker]' = [a \in ActionId |-> actions[a].worker]
  BY DEF Moved, Lifecycle!Move

LEMMA NextMapped ==
    ASSUME LedgerTypeOK, [LedgerNext]_ledgerVars
    PROVE  [Lifecycle!Next]_(Lifecycle!vars)
  <1>1. RowStep
    BY StepsAreRowSteps
  <1>2. ASSUME NEW a \in ActionId, Moved({a}, "ABSENT", "PENDING") PROVE Lifecycle!Next
    BY <1>2, MovedMapped DEF Lifecycle!Next, Lifecycle!Request
  <1>3. ASSUME NEW S \in SUBSET ActionId, NEW v \in {"APPROVED", "REJECTED"}, Moved(S, "PENDING", v)
        PROVE  Lifecycle!Next
    BY <1>3, MovedMapped DEF Lifecycle!Next, Lifecycle!Decide
  <1>4. ASSUME NEW a \in ActionId, NEW w \in WorkerId, ClaimedBy(a, w) PROVE Lifecycle!Next
    <2>1. Lifecycle!Move({a}, "APPROVED", "EXECUTING")
      BY <1>4 DEF ClaimedBy, Lifecycle!Move
    <2>2. [b \in ActionId |-> actions[b].worker]'
             = [[b \in ActionId |-> actions[b].worker] EXCEPT ![a] = w]
      BY <1>4 DEF ClaimedBy
    <2> QED
      BY <2>1, <2>2 DEF Lifecycle!Next, Lifecycle!Claim
  <1>5. ASSUME NEW a \in ActionId, Renewed(a) PROVE UNCHANGED Lifecycle!vars
    BY <1>5 DEF Renewed, Lifecycle!vars
  <1>6. ASSUME NEW a \in ActionId, NEW s \in Settled, Moved({a}, "EXECUTING", s) PROVE Lifecycle!Next
    BY <1>6, MovedMapped DEF Lifecycle!Next, Lifecycle!Finish, Lifecycle!Settled, Settled
  <1>7. ASSUME NEW S \in SUBSET ActionId, Moved(S, "EXECUTING", "FAILED") PROVE Lifecycle!Next
    BY <1>7, MovedMapped DEF Lifecycle!Next, Lifecycle!Expire
  <1>8. CASE actions' = actions
    BY <1>8 DEF Lifecycle!vars
  <1> QED
    BY <1>1, <1>2, <1>3, <1>4, <1>5, <1>6, <1>7, <1>8 DEF RowStep

(* The dispatch tables implement the abstract action life cycle: decided,  *)
(* claimed and settled at most once, for any number of processes.          *)
THEOREM LedgerRefinesLifecycle == LedgerSpec => ImplementsLifecycle
  <1>1. LedgerInit => Lifecycle!Init
    BY InitMapped
  <1>2. LedgerTypeOK /\ [LedgerNext]_ledgerVars => [Lifecycle!Next]_(Lifecycle!vars)
    BY NextMapped
  <1> QED
    BY <1>1, <1>2, LedgerTypeCorrect, PTL DEF LedgerSpec, ImplementsLifecycle, Lifecycle!Spec

==========================================================================
