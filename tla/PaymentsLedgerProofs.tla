------------------------ MODULE PaymentsLedgerProofs ------------------------
(***************************************************************************)
(* Proofs about what the payment service promises to the customer and to   *)
(* the bookkeeper: the audit log, the idempotence of webhook handling, the *)
(* truth of recorded outcomes, that confirmed means paid, the lifecycle    *)
(* grammar, and that Payments implements PaymentLedger.                    *)
(***************************************************************************)
EXTENDS PaymentsProofs

-----------------------------------------------------------------------------
(* The inductive invariant, by the promise its parts lead to. It holds     *)
(* together with IInv of PaymentsProofs.                                   *)

\* Program points at which the event of a worker is claimed.
Claimed == WorkerPCs \ {"idle", "claim"}
\* Program points between the claim of an event and its row in the log.
Unwritten == Deciding \union {"load"}

\* The rows of payment p that event e left.
RowsOf(p, e) == {i \in DOMAIN events[p] : events[p][i].event = e}

\* Has event e changed the status of its payment to what it aims at?
Effective(e) ==
    \E i \in RowsOf(e.payment, e) :
        isChange(events[e.payment][i]) /\ events[e.payment][i].new = Target(e)

\* Is outcome o true of event e: a success has its row, and what is said to
\* have changed the payment has?
Truthful(e, o) ==
    /\ isSuccess(e) => RowsOf(e.payment, e) # {}
    /\ o \in {"confirmed", "failed"} => Effective(e)

\* A claimed event belongs to one worker only, and its row in webhook_events
\* stays RECEIVED until that worker marks it.
ClaimInv ==
    /\ \A w \in Workers : pc[w] \in Claimed => webhook[ev[w]].status = "RECEIVED"
    /\ \A v, w \in Workers :
         pc[v] \in Claimed /\ pc[w] \in Claimed /\ ev[v] = ev[w] => v = w

\* An event that left a row has been claimed before, and a worker that has
\* still to write one finds none of its event.
RowsInv ==
    /\ \A p \in Payments, e \in Events : webhook[e] = Absent => RowsOf(p, e) = {}
    /\ \A p \in Payments, w \in Workers :
         pc[w] \in Unwritten => RowsOf(p, ev[w]) = {}

\* A customer pays, or has a card declined, at the page that the request has
\* returned; a payment fails by a session that expired, by a declined card or
\* by the request itself.
SessionInv ==
    \A p \in Payments :
        /\ session[p] = "complete" \/ p \in declined => ipc[p] = "returned"
        /\ status[p] = "FAILED" =>
             session[p] = "expired" \/ p \in declined \/ ipc[p] = "aborted"

\* A handler that is done with its event has written what its outcome says.
DoneInv ==
    \A w \in Workers :
        /\ pc[w] = "audit" => outcome[w] \notin {"confirmed", "failed"}
        /\ pc[w] \in {"mark", "lifeRead", "lifeSwap"} /\ ev[w] \in SessionEvents =>
             Truthful(ev[w], outcome[w])

\* The status that the lifecycle mutator read leads to the one it will write.
LifeInv ==
    /\ \A p \in Payments : ipc[p] = "lifeSwap" =>
         canTransitionLifecycle(lifeSeen[p], "PAYMENT_INITIATED")
    /\ \A w \in Workers : pc[w] = "lifeSwap" =>
         canTransitionLifecycle(lifeSeen[w], "PAYMENT_CONFIRMED")

LInv == ClaimInv /\ RowsInv /\ SessionInv /\ DoneInv /\ LifeInv
          /\ AuditTrail /\ AppliedOnce /\ ConfirmedMeansPaid /\ OutcomeIsTruthful

-----------------------------------------------------------------------------
(* Facts about logs.                                                       *)

\* An appended row is the last one; the others stay where they are.
LEMMA LogGrows ==
  ASSUME NEW log \in Seq(Rows), NEW r
  PROVE  /\ DOMAIN Append(log, r) = DOMAIN log \union {Len(log) + 1}
         /\ Len(log) + 1 \notin DOMAIN log
         /\ \A i \in DOMAIN log : Append(log, r)[i] = log[i]
         /\ Append(log, r)[Len(log) + 1] = r
         /\ Len(Append(log, r)) = Len(log) + 1
         /\ DOMAIN log = 1..Len(log) /\ Len(log) \in Nat
OBVIOUS

\* The rows of a log that change the status.
Changes(log) == {i \in DOMAIN log : isChange(log[i])}
LastBefore(log, i, n) == i < n /\ \A j \in Changes(log) : j < n => j <= i

\* What AuditTrail says of the log of one payment in status s.
Trail(log, s) ==
    /\ \A n \in Changes(log) :
         \/ n = 1 /\ log[n].prev = NoStatus
         \/ \E i \in Changes(log) : LastBefore(log, i, n) /\ log[i].new = log[n].prev
    /\ IF s = NoStatus THEN log = <<>>
       ELSE \E i \in Changes(log) : LastBefore(log, i, Len(log) + 1) /\ log[i].new = s

LEMMA TrailOfPayment == AuditTrail <=> \A p \in Payments : Trail(events[p], status[p])
BY DEF AuditTrail, Trail, Changes, LastBefore

\* A row that changes nothing leaves the trail as it is.
LEMMA TrailNote ==
  ASSUME NEW log \in Seq(Rows), NEW s, s # NoStatus, Trail(log, s),
         NEW r, ~isChange(r)
  PROVE  Trail(Append(log, r), s)
<1> DEFINE new == Append(log, r)
<1>1. Changes(new) = Changes(log)
  BY LogGrows DEF Changes
<1>2. \A i \in Changes(log) : i \in 1..Len(log) /\ new[i] = log[i]
  BY LogGrows DEF Changes
<1>3. Len(new) = Len(log) + 1 /\ Len(log) \in Nat
  BY LogGrows
<1>4. \A i, n : LastBefore(new, i, n) <=> LastBefore(log, i, n)
  BY <1>1 DEF LastBefore
<1>5. \A n \in Changes(new) :
        \/ n = 1 /\ new[n].prev = NoStatus
        \/ \E i \in Changes(new) : LastBefore(new, i, n) /\ new[i].new = new[n].prev
  BY <1>1, <1>2, <1>4 DEF Trail
<1>6. PICK i \in Changes(log) : LastBefore(log, i, Len(log) + 1) /\ log[i].new = s
  BY DEF Trail
<1>7. LastBefore(log, i, Len(new) + 1)
  BY <1>2, <1>3, <1>6 DEF LastBefore
<1>8. QED
  BY <1>1, <1>2, <1>4, <1>5, <1>6, <1>7 DEF Trail

\* A row that changes the status the trail ends in carries the trail on.
LEMMA TrailChange ==
  ASSUME NEW log \in Seq(Rows), NEW s, Trail(log, s),
         NEW r, isChange(r), r.prev = s, r.new # NoStatus
  PROVE  Trail(Append(log, r), r.new)
<1> DEFINE new == Append(log, r)
           m == Len(log) + 1
<1>1. Changes(new) = Changes(log) \union {m}
  BY LogGrows DEF Changes
<1>2. \A i \in Changes(log) : i \in 1..Len(log) /\ new[i] = log[i]
  BY LogGrows DEF Changes
<1>3. Len(new) = Len(log) + 1 /\ Len(log) \in Nat /\ new[m] = r
  BY LogGrows
<1> HIDE DEF new
<1>4. \A n \in Changes(log) \union {m} : \A i :
        LastBefore(log, i, n) => LastBefore(new, i, n)
  BY <1>1, <1>2, <1>3 DEF LastBefore
<1>5. ASSUME NEW n \in Changes(log)
      PROVE  \/ n = 1 /\ new[n].prev = NoStatus
             \/ \E i \in Changes(new) : LastBefore(new, i, n) /\ new[i].new = new[n].prev
  BY <1>1, <1>2, <1>4 DEF Trail
<1>6. \/ m = 1 /\ new[m].prev = NoStatus
      \/ \E i \in Changes(new) : LastBefore(new, i, m) /\ new[i].new = new[m].prev
  <2>1. CASE s = NoStatus
    BY <1>3, <2>1 DEF Trail
  <2>2. CASE s # NoStatus
    <3>1. PICK i \in Changes(log) : LastBefore(log, i, m) /\ log[i].new = s
      BY <2>2 DEF Trail
    <3>2. QED
      BY <1>1, <1>2, <1>3, <1>4, <3>1
  <2>3. QED
    BY <2>1, <2>2
<1>7. LastBefore(new, m, Len(new) + 1)
  BY <1>1, <1>2, <1>3 DEF LastBefore
<1>8. QED
  BY <1>1, <1>3, <1>5, <1>6, <1>7 DEF Trail, new

-----------------------------------------------------------------------------
(* The steps, by what they do to a payment and its log.                    *)

Appended(p, r) == events' = [events EXCEPT ![p] = Append(@, r)]

Created(p) ==
    /\ status[p] = NoStatus
    /\ \E m \in PaymentMethods :
         /\ status' = [status EXCEPT ![p] = InitialStatusForMethod[m]]
         /\ Appended(p, Row(NoStatus, InitialStatusForMethod[m], NoEvent))
    /\ UNCHANGED <<hasIntent, session, orderStatus>>

GaveUp(p) ==
    /\ status[p] = "INITIATED" /\ ipc[p] = "failing"
    /\ status' = [status EXCEPT ![p] = "FAILED"]
    /\ ipc' = [ipc EXCEPT ![p] = "aborted"]
    /\ Appended(p, Row("INITIATED", "FAILED", NoEvent))
    /\ UNCHANGED <<hasIntent, session, orderStatus>>

Noted(p) ==
    /\ status[p] # NoStatus
    /\ Appended(p, Row("INITIATED", "INITIATED", NoEvent))
    /\ UNCHANGED <<status, hasIntent, session, orderStatus>>

\* Neither the status of a payment nor a log changes.
Still == UNCHANGED <<status, events, orderStatus>>

LEMMA InitiatorLog ==
  ASSUME IInv, NEW p \in Payments, Initiator(p) \/ InitiatorThrows(p)
  PROVE  Created(p) \/ GaveUp(p) \/ Noted(p) \/ Still
<1>0. TypeOK /\ CreationInv
  BY DEF IInv
<1> USE DEF tables, stripe, initiator, Appended
<1>1. CASE InitiateStripe(p) \/ InitiateWire(p)
  BY <1>0, <1>1 DEF InitiateStripe, InitiateWire, CreatePayment, CreationInv,
                    PaymentMethods, Created
<1>2. CASE FailInitiation(p)
  BY <1>2 DEF FailInitiation, TransitionWithinTx, GaveUp
<1>3. CASE NoteSession(p)
  BY <1>0, <1>3 DEF NoteSession, CreationInv, Noted
<1>4. CASE OpenSession(p) \/ SessionThrows(p) \/ FailInitiationConflict(p)
             \/ RecordSession(p) \/ InitiatorLifecycleDropped(p)
             \/ InitiatorLifecycleRead(p) \/ InitiatorLifecycleSwap(p)
             \/ InitiatorThrows(p)
  BY <1>4 DEF OpenSession, SessionThrows, FailInitiationConflict, RecordSession,
     InitiatorLifecycleDropped, InitiatorLifecycleRead, InitiatorLifecycleSwap,
     InitiatorThrows, Still
<1>5. QED
  BY <1>1, <1>2, <1>3, <1>4 DEF Initiator

\* A worker writes a row in two places: where it notes that it did nothing,
\* and where it commits.
LEMMA WorkerLog ==
  ASSUME NEW w \in Workers, Quiet(w) \/ Transact(w)
  PROVE  Audit(w) \/ Commit(w) \/ Still
<1> USE DEF tables, Still
<1>1. CASE Quiet(w)
  BY <1>1 DEF Quiet, Claim, ClaimDuplicate, Ignore, LoadPayment, SwapConflict,
     WorkerLifecycleDropped, WorkerLifecycleRead, WorkerLifecycleSwap,
     markProcessed, markFailed, ErrorSwallowed, Receive
<1>2. CASE Transact(w)
  BY <1>2 DEF Transact, Decide, Swap, ReadOrder, UpdateOrder, HandlerThrows
<1>3. QED
  BY <1>1, <1>2

LEMMA LogSteps ==
  ASSUME IInv, [Next]_vars
  PROVE  \/ \E p \in Payments : Created(p) \/ GaveUp(p) \/ Noted(p)
         \/ \E w \in Workers : Audit(w) \/ Commit(w)
         \/ Still
<1>1. CASE \E p \in Payments : External(p)
  BY <1>1 DEF External, CustomerPays, CardDeclined, SessionExpires, tables, Still
<1>2. CASE Crash \/ UNCHANGED vars \/ \E s \in OtherMoves : OtherLifecycleMove(s)
  BY <1>2 DEF Crash, OtherLifecycleMove, vars, tables, Still
<1>3. QED
  BY <1>1, <1>2, InitiatorLog, WorkerLog, WorkerSteps DEF Next, External, Quiet

\* What a worker that writes a row knows: a payment of ours, the status that
\* was read, and the event.
LEMMA Writer ==
  ASSUME IInv, NEW w \in Workers, Audit(w) \/ Commit(w)
  PROVE  /\ ev[w] \in SessionEvents /\ ev[w] \in Events /\ ev[w] # NoEvent
         /\ ev[w].payment \in Payments
         /\ snap[w] \in PaymentStatuses
         /\ status[ev[w].payment] \in PaymentStatuses
         /\ ev[w] \in Emitted
<1>1. /\ ev[w] \in SessionEvents /\ snap[w] \in PaymentStatuses /\ ev[w] \in Emitted
  BY DEF IInv, WorkerInv, Audit, Commit, Deciding
<1>2. ev[w] \in Events /\ ev[w].payment \in Payments /\ ev[w].type # OtherType
  BY <1>1, SessionEventPayment DEF Events, SessionTypes, OtherType
<1>3. status[ev[w].payment] \in PaymentStatuses
  BY <1>1, <1>2, EmittedExists DEF IInv
<1>4. QED
  BY <1>1, <1>2, <1>3, ConstantsAssumption

\* A commit moves the payment from the status it has to another one.
LEMMA CommitMoves ==
  ASSUME IInv, NEW w \in Workers, Commit(w)
  PROVE  /\ Appended(ev[w].payment, Row(snap[w], Target(ev[w]), ev[w]))
         /\ status' = [status EXCEPT ![ev[w].payment] = Target(ev[w])]
         /\ status[ev[w].payment] = snap[w]
         /\ canTransition(snap[w], Target(ev[w])) /\ snap[w] # Target(ev[w])
         /\ Target(ev[w]) \in {"CONFIRMED", "FAILED"}
BY InTxHolds, TargetStatus, SMTT(30) DEF Commit, InTx, Appended, canTransition

\* The log of a payment is a sequence of rows, and what is in it stays.
LEMMA LogsKept ==
  ASSUME IInv, [Next]_vars, NEW p \in Payments, NEW i \in DOMAIN events[p]
  PROVE  i \in DOMAIN events'[p] /\ events'[p][i] = events[p][i]
<1>0. events \in [Payments -> Seq(Rows)]
  BY DEF IInv, TypeOK
<1>1. ASSUME NEW q \in Payments, NEW r, Appended(q, r)
      PROVE  i \in DOMAIN events'[p] /\ events'[p][i] = events[p][i]
  <2>1. CASE p = q
    <3>1. events'[p] = Append(events[p], r) /\ events[p] \in Seq(Rows)
      BY <1>0, <1>1, <2>1 DEF Appended
    <3>2. QED
      BY <3>1, LogGrows
  <2>2. CASE p # q
    BY <1>0, <1>1, <2>2 DEF Appended
  <2>3. QED
    BY <2>1, <2>2
<1>2. ASSUME NEW w \in Workers, Audit(w) \/ Commit(w)
      PROVE  \E q \in Payments : \E r : Appended(q, r)
  BY <1>2, Writer DEF Audit, Commit, Appended
<1>3. QED
  BY <1>1, <1>2, LogSteps DEF Created, GaveUp, Noted, Still

-----------------------------------------------------------------------------
(* One worker per event.                                                   *)

\* The other workers keep their program point and their event.
OthersKeep(w) == \A v \in Workers \ {w} : pc'[v] = pc[v] /\ ev'[v] = ev[v]

\* Within a claim: the event of the worker and every webhook row are kept.
Inside(w) ==
    /\ OthersKeep(w)
    /\ pc[w] \in Claimed /\ pc'[w] \in Claimed
    /\ UNCHANGED <<ev, webhook>>

\* From a claim, with the row of its event marked, or without a claim.
Leaving(w) ==
    /\ OthersKeep(w)
    /\ pc'[w] \notin Claimed
    /\ \/ UNCHANGED webhook
       \/ /\ pc[w] \in {"mark", "fail"}
          /\ \E s \in {"PROCESSED", "FAILED"}, o \in Outcomes \union {NoOutcome} :
               webhook' = [webhook EXCEPT ![ev[w]] = WebhookRow(s, o)]

LEMMA ClaimSteps ==
  ASSUME TypeOK, NEW w \in Workers, Quiet(w) \/ Transact(w)
  PROVE  Claim(w) \/ Inside(w) \/ Leaving(w)
<1> USE DEF TypeOK, tables, Goto, Return, OthersKeep, Claimed, WorkerPCs
<1>1. CASE Ignore(w) \/ LoadPayment(w) \/ Audit(w) \/ SwapConflict(w)
             \/ WorkerLifecycleDropped(w) \/ WorkerLifecycleRead(w)
             \/ WorkerLifecycleSwap(w)
  <2>1. CASE Ignore(w)                 BY <2>1 DEF Ignore, Finish, Inside
  <2>2. CASE LoadPayment(w)            BY <2>2 DEF LoadPayment, Inside
  <2>3. CASE Audit(w)                  BY <2>3 DEF Audit, Inside
  <2>4. CASE SwapConflict(w)           BY <2>4 DEF SwapConflict, Inside
  <2>5. CASE WorkerLifecycleDropped(w) BY <2>5 DEF WorkerLifecycleDropped, Inside
  <2>6. CASE WorkerLifecycleRead(w)    BY <2>6 DEF WorkerLifecycleRead, Inside
  <2>7. CASE WorkerLifecycleSwap(w)    BY <2>7 DEF WorkerLifecycleSwap, Inside
  <2>8. QED
    BY <1>1, <2>1, <2>2, <2>3, <2>4, <2>5, <2>6, <2>7
<1>2. CASE Transact(w)
  <2>1. CASE Decide(w)        BY <2>1 DEF Decide, Inside
  <2>2. CASE Swap(w)          BY <2>2 DEF Swap, Inside
  <2>3. CASE ReadOrder(w)     BY <2>3 DEF ReadOrder, Inside
  <2>4. CASE UpdateOrder(w)   BY <2>4 DEF UpdateOrder, Inside
  <2>5. CASE Commit(w)        BY <2>5 DEF Commit, Inside
  <2>6. CASE HandlerThrows(w) BY <2>6 DEF HandlerThrows, Inside
  <2>7. QED
    BY <1>2, <2>1, <2>2, <2>3, <2>4, <2>5, <2>6 DEF Transact
<1>3. CASE ClaimDuplicate(w) \/ ErrorSwallowed(w)
  BY <1>3 DEF ClaimDuplicate, ErrorSwallowed, Leaving
<1>4. CASE markProcessed(w)
  <2>1. outcome[w] \in Outcomes \union {NoOutcome}
    OBVIOUS
  <2>2. QED
    BY <1>4, <2>1 DEF markProcessed, Leaving
<1>5. CASE markFailed(w)
  BY <1>5 DEF markFailed, Leaving
<1>6. CASE \E e \in Events : Receive(w, e)
  BY <1>6 DEF Receive, Leaving
<1>7. QED
  BY <1>1, <1>2, <1>3, <1>4, <1>5, <1>6 DEF Quiet

\* Who is neither a worker nor a crash leaves the workers and webhook rows be.
LEMMA OutsideFrame ==
  ASSUME TypeOK, NEW p \in Payments, Initiator(p) \/ InitiatorThrows(p) \/ External(p)
  PROVE  UNCHANGED <<handler, webhook>>
<1>1. CASE External(p)
  BY <1>1 DEF External, CustomerPays, CardDeclined, SessionExpires, tables
<1>2. CASE InitiatorThrows(p)
  BY <1>2 DEF InitiatorThrows, tables
<1>3. CASE Initiator(p)
  BY <1>3 DEF Initiator, InitiateStripe, InitiateWire, CreatePayment, OpenSession,
     SessionThrows, FailInitiation, FailInitiationConflict, RecordSession,
     NoteSession, InitiatorLifecycleDropped, InitiatorLifecycleRead,
     InitiatorLifecycleSwap, tables
<1>4. QED
  BY <1>1, <1>2, <1>3

\* A worker that is inside a claim has an event.
LEMMA ClaimedEvent ==
  ASSUME IInv, NEW w \in Workers, pc[w] # "idle"
  PROVE  ev[w] \in Events /\ ev[w] \in Emitted
BY EmittedEvent DEF IInv, WorkerInv

LEMMA ClaimStep ==
  ASSUME IInv, ClaimInv, [Next]_vars
  PROVE  ClaimInv'
<1>0. TypeOK
  BY DEF IInv
<1>1. CASE UNCHANGED <<pc, ev, webhook>>
  BY <1>1 DEF ClaimInv
<1>2. ASSUME NEW w \in Workers, Claim(w)
      PROVE  ClaimInv'
  <2>1. /\ pc[w] = "claim" /\ OthersKeep(w) /\ ev' = ev
        /\ webhook[ev[w]] = Absent
        /\ webhook' = [webhook EXCEPT ![ev[w]] = WebhookRow("RECEIVED", NoOutcome)]
    BY <1>0, <1>2 DEF Claim, Goto, OthersKeep, TypeOK
  <2>2. ev[w] \in Events
    BY <2>1, ClaimedEvent
  <2>3. ASSUME NEW v \in Workers, v # w, pc[v] \in Claimed
        PROVE  ev[v] # ev[w] /\ webhook'[ev[v]].status = "RECEIVED"
    <3>1. webhook[ev[v]].status = "RECEIVED"
      BY <2>3 DEF ClaimInv
    <3>2. ev[v] # ev[w]
      BY <2>1, <3>1 DEF Absent, WebhookRow
    <3>3. ev[v] \in Events
      BY <2>3, ClaimedEvent DEF Claimed
    <3>4. QED
      BY <1>0, <2>1, <3>1, <3>2, <3>3 DEF TypeOK
  <2>4. webhook'[ev[w]].status = "RECEIVED"
    BY <1>0, <2>1, <2>2 DEF TypeOK, WebhookRow
  <2>5. \A v \in Workers : ev'[v] = ev[v] /\ (v # w => pc'[v] = pc[v])
    BY <2>1 DEF OthersKeep
  <2>6. QED
    BY <2>3, <2>4, <2>5 DEF ClaimInv
<1>3. ASSUME NEW w \in Workers, Inside(w)
      PROVE  ClaimInv'
  <2>1. \A v \in Workers : ev'[v] = ev[v] /\ (pc'[v] \in Claimed => pc[v] \in Claimed)
    BY <1>3 DEF Inside, OthersKeep
  <2>2. QED
    BY <1>3, <2>1 DEF ClaimInv, Inside
<1>4. ASSUME NEW w \in Workers, Leaving(w)
      PROVE  ClaimInv'
  <2>1. ASSUME NEW v \in Workers, pc'[v] \in Claimed
        PROVE  /\ v # w /\ pc[v] \in Claimed /\ ev'[v] = ev[v]
               /\ webhook'[ev[v]].status = "RECEIVED"
    <3>1. v # w /\ pc[v] \in Claimed /\ ev'[v] = ev[v]
      BY <1>4, <2>1 DEF Leaving, OthersKeep
    <3>2. webhook[ev[v]].status = "RECEIVED" /\ ev[v] \in Events
      BY <3>1, ClaimedEvent DEF ClaimInv, Claimed
    <3>3. CASE UNCHANGED webhook
      BY <3>1, <3>2, <3>3
    <3>4. CASE pc[w] \in {"mark", "fail"}
               /\ \E s \in {"PROCESSED", "FAILED"}, o \in Outcomes \union {NoOutcome} :
                    webhook' = [webhook EXCEPT ![ev[w]] = WebhookRow(s, o)]
      <4>1. ev[v] # ev[w]
        BY <3>1, <3>4 DEF ClaimInv, Claimed, WorkerPCs
      <4>2. QED
        BY <1>0, <3>1, <3>2, <3>4, <4>1 DEF TypeOK
    <3>5. QED
      BY <1>4, <3>3, <3>4 DEF Leaving
  <2>2. QED
    BY <2>1 DEF ClaimInv
<1>5. CASE Crash
  BY <1>5 DEF Crash, ClaimInv, Claimed
<1>6. QED
  BY <1>0, <1>1, <1>2, <1>3, <1>4, <1>5, OutsideFrame, ClaimSteps, WorkerSteps
     DEF Next, External, Quiet, OtherLifecycleMove, vars, tables, handler

-----------------------------------------------------------------------------
(* One row per event.                                                      *)

LEMMA RowsAppended ==
  ASSUME TypeOK, NEW p \in Payments, NEW q \in Payments, NEW r, NEW e,
         Appended(q, r)
  PROVE  RowsOf(p, e)' = RowsOf(p, e) \union
                           (IF p = q /\ r.event = e THEN {Len(events[p]) + 1} ELSE {})
<1>0. events \in [Payments -> Seq(Rows)]
  BY DEF TypeOK
<1>1. CASE p = q
  <2>1. events'[p] = Append(events[p], r) /\ events[p] \in Seq(Rows)
    BY <1>0, <1>1 DEF Appended
  <2>2. PICK log \in Seq(Rows) : log = events[p]
    BY <2>1
  <2>3. RowsOf(p, e)' = {i \in DOMAIN Append(log, r) : Append(log, r)[i].event = e}
    BY <2>1, <2>2 DEF RowsOf
  <2>4. RowsOf(p, e) = {i \in DOMAIN log : log[i].event = e}
    BY <2>2 DEF RowsOf
  <2>5. QED
    BY <1>1, <2>2, <2>3, <2>4, LogGrows
<1>2. CASE p # q
  BY <1>0, <1>2 DEF Appended, RowsOf
<1>3. QED
  BY <1>1, <1>2

\* The event that a step writes a row of, and the worker that writes it.
LEMMA RowsStep ==
  ASSUME IInv, [Next]_vars, NEW p \in Payments, NEW e \in Events
  PROVE  \/ RowsOf(p, e)' = RowsOf(p, e)
         \/ \E w \in Workers :
              /\ Audit(w) \/ Commit(w)
              /\ p = ev[w].payment /\ e = ev[w]
              /\ RowsOf(p, e)' = RowsOf(p, e) \union {Len(events[p]) + 1}
<1>0. TypeOK
  BY DEF IInv
<1>1. ASSUME NEW q \in Payments, Created(q) \/ GaveUp(q) \/ Noted(q)
      PROVE  RowsOf(p, e)' = RowsOf(p, e)
  <2>1. PICK s, t : Appended(q, Row(s, t, NoEvent))
    BY <1>1 DEF Created, GaveUp, Noted
  <2>2. PICK r : r = Row(s, t, NoEvent)
    OBVIOUS
  <2>3. r.event # e
    BY <2>2, ConstantsAssumption DEF Row
  <2>4. RowsOf(p, e)' = RowsOf(p, e) \union
           (IF p = q /\ r.event = e THEN {Len(events[p]) + 1} ELSE {})
    BY <1>0, <2>1, <2>2, RowsAppended
  <2>5. QED
    BY <2>3, <2>4
<1>2. ASSUME NEW w \in Workers, Audit(w) \/ Commit(w)
      PROVE  \/ RowsOf(p, e)' = RowsOf(p, e)
             \/ /\ p = ev[w].payment /\ e = ev[w]
                /\ RowsOf(p, e)' = RowsOf(p, e) \union {Len(events[p]) + 1}
  <2>1. PICK s, t : Appended(ev[w].payment, Row(s, t, ev[w]))
    BY <1>2 DEF Audit, Commit, Appended
  <2>2. ev[w].payment \in Payments /\ Row(s, t, ev[w]).event = ev[w]
    BY <1>2, Writer DEF Row
  <2>3. RowsOf(p, e)' = RowsOf(p, e) \union
           (IF p = ev[w].payment /\ ev[w] = e THEN {Len(events[p]) + 1} ELSE {})
    BY <1>0, <2>1, <2>2, RowsAppended
  <2>4. QED
    BY <2>3
<1>3. CASE Still
  BY <1>3 DEF Still, RowsOf
<1>4. QED
  BY <1>1, <1>2, <1>3, LogSteps

\* A worker that has a row to write has just claimed its event, or had it to
\* write before.
LEMMA UnwrittenStep ==
  ASSUME TypeOK, [Next]_vars, NEW w \in Workers, pc'[w] \in Unwritten
  PROVE  /\ ev'[w] = ev[w] /\ ~Audit(w) /\ ~Commit(w)
         /\ pc[w] \in Unwritten \/ Claim(w)
<1> USE DEF TypeOK, Unwritten, Deciding, Goto, Return
<1>1. ASSUME NEW v \in Workers, v # w, Quiet(v) \/ Transact(v)
      PROVE  ev'[w] = ev[w] /\ pc'[w] = pc[w]
  <2>1. OthersKeep(v)
    BY <1>1, ClaimSteps DEF Inside, Leaving, Claim, OthersKeep
  <2>2. QED
    BY <1>1, <2>1 DEF OthersKeep
<1>2. CASE Quiet(w)
  <2>1. CASE Audit(w) \/ Ignore(w) \/ SwapConflict(w) \/ WorkerLifecycleDropped(w)
               \/ WorkerLifecycleRead(w) \/ WorkerLifecycleSwap(w)
    BY <2>1 DEF Audit, Ignore, Finish, SwapConflict, WorkerLifecycleDropped,
                WorkerLifecycleRead, WorkerLifecycleSwap
  <2>2. CASE ClaimDuplicate(w) \/ markProcessed(w) \/ markFailed(w) \/ ErrorSwallowed(w)
    BY <2>2 DEF ClaimDuplicate, markProcessed, markFailed, ErrorSwallowed
  <2>3. CASE \E e \in Events : Receive(w, e)
    BY <2>3 DEF Receive
  <2>4. CASE LoadPayment(w)
    BY <2>4 DEF LoadPayment, Audit, Commit
  <2>5. CASE Claim(w)
    BY <2>5 DEF Claim, Audit, Commit
  <2>6. QED
    BY <1>2, <2>1, <2>2, <2>3, <2>4, <2>5 DEF Quiet
<1>3. CASE Transact(w)
  <2>1. CASE Commit(w) \/ HandlerThrows(w)
    BY <2>1 DEF Commit, HandlerThrows
  <2>2. CASE Decide(w) \/ Swap(w) \/ ReadOrder(w) \/ UpdateOrder(w)
    <3>1. ev'[w] = ev[w] /\ pc[w] \in {"check", "swap", "readOrder", "updateOrder"}
      BY <2>2 DEF Decide, Swap, ReadOrder, UpdateOrder
    <3>2. QED
      BY <3>1 DEF Audit, Commit
  <2>3. QED
    BY <1>3, <2>1, <2>2 DEF Transact
<1>4. CASE Crash
  BY <1>4 DEF Crash
<1>5. ASSUME UNCHANGED <<pc, ev>>
      PROVE  /\ ev'[w] = ev[w] /\ ~Audit(w) /\ ~Commit(w)
             /\ pc[w] \in Unwritten \/ Claim(w)
  BY <1>5 DEF Audit, Commit
<1>6. ASSUME NEW v \in Workers, v # w, Quiet(v) \/ Transact(v)
      PROVE  /\ ev'[w] = ev[w] /\ ~Audit(w) /\ ~Commit(w)
             /\ pc[w] \in Unwritten \/ Claim(w)
  BY <1>1, <1>6 DEF Audit, Commit
<1>7. QED
  BY <1>2, <1>3, <1>4, <1>5, <1>6, OutsideFrame, WorkerSteps, ZenonT(60)
     DEF Next, External, Quiet, OtherLifecycleMove, vars, handler

\* No row of webhook_events disappears.
LEMMA WebhookKept ==
  ASSUME IInv, [Next]_vars, NEW e \in Events, webhook'[e] = Absent
  PROVE  webhook[e] = Absent
<1>0. TypeOK
  BY DEF IInv
<1>1. ASSUME NEW w \in Workers, Claim(w) \/ Leaving(w)
      PROVE  webhook'[e] = webhook[e] \/ webhook'[e] # Absent
  <2>1. CASE UNCHANGED webhook
    BY <2>1
  <2>2. ASSUME NEW s \in {"RECEIVED", "PROCESSED", "FAILED"},
               NEW o \in Outcomes \union {NoOutcome},
               webhook' = [webhook EXCEPT ![ev[w]] = WebhookRow(s, o)]
        PROVE  webhook'[e] = webhook[e] \/ webhook'[e] # Absent
    <3>1. WebhookRow(s, o) # Absent
      BY DEF WebhookRow, Absent
    <3>2. QED
      BY <1>0, <2>2, <3>1 DEF TypeOK
  <2>3. QED
    BY <1>1, <2>1, <2>2 DEF Claim, Leaving
<1>2. CASE UNCHANGED webhook
  BY <1>2
<1>3. QED
  BY <1>0, <1>1, <1>2, OutsideFrame, ClaimSteps, WorkerSteps
     DEF Next, External, Quiet, OtherLifecycleMove, Crash, vars, tables, Inside

LEMMA RowsInvStep ==
  ASSUME IInv, ClaimInv, RowsInv, [Next]_vars
  PROVE  RowsInv'
<1>0. TypeOK
  BY DEF IInv
<1>1. ASSUME NEW v \in Workers, Audit(v) \/ Commit(v)
      PROVE  pc[v] \in Claimed /\ webhook[ev[v]] # Absent
  <2>1. pc[v] \in Claimed
    BY <1>1 DEF Audit, Commit, Claimed, WorkerPCs
  <2>2. QED
    BY <2>1 DEF ClaimInv, Absent, WebhookRow
<1>2. ASSUME NEW p \in Payments, NEW e \in Events, webhook'[e] = Absent
      PROVE  RowsOf(p, e)' = {}
  <2>1. webhook[e] = Absent /\ RowsOf(p, e) = {}
    BY <1>2, WebhookKept DEF RowsInv
  <2>2. QED
    BY <1>1, <2>1, RowsStep
<1>3. ASSUME NEW p \in Payments, NEW w \in Workers, pc'[w] \in Unwritten,
             NEW e, e = ev[w]
      PROVE  ev'[w] = e /\ RowsOf(p, e)' = {}
  <2>1. /\ ev'[w] = ev[w] /\ ~Audit(w) /\ ~Commit(w)
        /\ pc[w] \in Unwritten \/ Claim(w)
    BY <1>0, <1>3, UnwrittenStep
  <2>2. e \in Events
    BY <1>3, <2>1, ClaimedEvent DEF Unwritten, Deciding, Claim
  <2>3. CASE Claim(w)
    <3>1. RowsOf(p, e) = {} /\ UNCHANGED events
      BY <1>3, <2>2, <2>3 DEF Claim, RowsInv
    <3>2. QED
      BY <1>3, <2>1, <3>1 DEF RowsOf
  <2>4. CASE pc[w] \in Unwritten
    <3>1. RowsOf(p, e) = {}
      BY <1>3, <2>4 DEF RowsInv
    <3>2. ASSUME NEW v \in Workers, Audit(v) \/ Commit(v), e = ev[v]
          PROVE  FALSE
      <4>1. pc[w] \in Claimed
        BY <2>4 DEF Unwritten, Deciding, Claimed, WorkerPCs
      <4>2. v = w
        BY <1>1, <1>3, <3>2, <4>1 DEF ClaimInv
      <4>3. QED
        BY <2>1, <3>2, <4>2
    <3>3. QED
      BY <1>3, <2>1, <2>2, <3>1, <3>2, RowsStep
  <2>5. QED
    BY <2>1, <2>3, <2>4
<1>4. ASSUME NEW p \in Payments, NEW w \in Workers, pc'[w] \in Unwritten
      PROVE  RowsOf(p, ev[w])' = {}
  <2>1. PICK e : e = ev[w]
    OBVIOUS
  <2>2. ev'[w] = e /\ RowsOf(p, e)' = {}
    BY <1>3, <1>4, <2>1
  <2>3. QED
    BY <2>2 DEF RowsOf
<1>5. QED
  BY <1>2, <1>4 DEF RowsInv

\* AppliedOnce, by the event.
LEMMA OneRow ==
  ASSUME TypeOK
  PROVE  AppliedOnce <=> \A p \in Payments, e \in Events :
                            \A i, j \in RowsOf(p, e) : i = j
<1>1. ASSUME NEW p \in Payments, NEW i \in DOMAIN events[p]
      PROVE  events[p][i].event \in Events \union {NoEvent}
  <2>1. events[p] \in Seq(Rows)
    BY DEF TypeOK
  <2>2. events[p][i] \in Rows
    BY <2>1
  <2>3. QED
    BY <2>2 DEF Rows
<1>2. QED
  BY <1>1, ConstantsAssumption DEF AppliedOnce, RowsOf

LEMMA AppliedOnceStep ==
  ASSUME IInv, RowsInv, AppliedOnce, [Next]_vars, TypeOK'
  PROVE  AppliedOnce'
<1>0. TypeOK
  BY DEF IInv
<1>1. ASSUME NEW p \in Payments, NEW e \in Events
      PROVE  \A i, j \in RowsOf(p, e)' : i = j
  <2>1. CASE RowsOf(p, e)' = RowsOf(p, e)
    BY <1>0, <2>1, OneRow
  <2>2. ASSUME NEW w \in Workers, Audit(w) \/ Commit(w), e = ev[w],
               RowsOf(p, e)' = RowsOf(p, e) \union {Len(events[p]) + 1}
        PROVE  \A i, j \in RowsOf(p, e)' : i = j
    <3>1. RowsOf(p, e) = {}
      BY <2>2 DEF RowsInv, Audit, Commit, Unwritten, Deciding
    <3>2. QED
      BY <2>2, <3>1
  <2>3. QED
    BY <2>1, <2>2, RowsStep
<1>2. (AppliedOnce <=> \A p \in Payments, e \in Events :
                            \A i, j \in RowsOf(p, e) : i = j)'
  BY OneRow, PTL
<1>3. QED
  BY <1>1, <1>2

-----------------------------------------------------------------------------
(* Sessions, and payments that are paid.                                   *)

\* What an event says of the session it comes from.
LEMMA EventMeaning ==
  ASSUME NEW e \in Emitted, e \in SessionEvents
  PROVE  /\ isSuccess(e) => session[e.payment] = "complete"
         /\ ~isSuccess(e) => session[e.payment] = "expired" \/ e.payment \in declined
<1>1. e \notin StrayEvents
  BY SessionEventPayment, ConstantsAssumption DEF SessionTypes, OtherType
<1>2. QED
  BY <1>1 DEF Emitted, StripeEvent, isSuccess, SuccessTypes

\* An initiating request that has ended does nothing more.
LEMMA EndedStays ==
  ASSUME IInv, [Next]_vars, NEW p \in Payments, ipc[p] \in {"returned", "aborted"}
  PROVE  ipc'[p] = ipc[p]
<1>0. TypeOK
  BY DEF IInv
<1>1. ASSUME NEW q \in Payments, Initiator(q) \/ InitiatorThrows(q)
      PROVE  ipc'[p] = ipc[p]
  <2>1. ipc[q] \notin {"returned", "aborted"} /\ \E l : ipc' = [ipc EXCEPT ![q] = l]
    BY <1>1 DEF Initiator, InitiateStripe, InitiateWire, CreatePayment, OpenSession,
       SessionThrows, FailInitiation, FailInitiationConflict, RecordSession,
       NoteSession, InitiatorLifecycleDropped, InitiatorLifecycleRead,
       InitiatorLifecycleSwap, InitiatorThrows
  <2>2. QED
    BY <1>0, <2>1 DEF TypeOK
<1>2. CASE Crash
  BY <1>2 DEF Crash
<1>3. CASE UNCHANGED ipc
  BY <1>3
<1>4. QED
  BY <1>0, <1>1, <1>2, <1>3, ExternalFrame, QuietFrame, TransactFrame, WorkerSteps
     DEF Next, External, Quiet, OtherLifecycleMove, vars, initiator

\* A session is paid, and a card declined, at the page that was returned.
LEMMA PaidAtThePage ==
  ASSUME IInv, [Next]_vars, NEW p \in Payments
  PROVE  /\ session'[p] = "complete" => session[p] = "complete" \/ ipc[p] = "returned"
         /\ p \in declined' => p \in declined \/ ipc[p] = "returned"
<1>0. TypeOK
  BY DEF IInv
<1> USE DEF stripe, TypeOK
<1>1. ASSUME NEW q \in Payments, External(q)
      PROVE  /\ session'[p] = "complete" => session[p] = "complete" \/ ipc[p] = "returned"
             /\ p \in declined' => p \in declined \/ ipc[p] = "returned"
  BY <1>0, <1>1 DEF External, CustomerPays, CardDeclined, SessionExpires, CanPay
<1>2. ASSUME NEW q \in Payments, Initiator(q) \/ InitiatorThrows(q)
      PROVE  /\ session'[p] = "complete" => session[p] = "complete"
             /\ UNCHANGED declined
  <2>1. CASE OpenSession(q) \/ SessionThrows(q)
    BY <1>0, <2>1 DEF OpenSession, SessionThrows
  <2>2. CASE UNCHANGED stripe
    BY <2>2
  <2>3. QED
    BY <1>2, <2>1, <2>2 DEF Initiator, InitiateStripe, InitiateWire, CreatePayment,
       FailInitiation, FailInitiationConflict, RecordSession, NoteSession,
       InitiatorLifecycleDropped, InitiatorLifecycleRead, InitiatorLifecycleSwap,
       InitiatorThrows
<1>3. CASE UNCHANGED <<session, declined>>
  BY <1>3
<1>4. QED
  BY <1>0, <1>1, <1>2, <1>3, QuietFrame, TransactFrame, WorkerSteps
     DEF Next, External, Quiet, OtherLifecycleMove, Crash, vars

\* Only the request that creates a payment forgets its payment intent.
LEMMA IntentKept ==
  ASSUME IInv, [Next]_vars, NEW p \in Payments, hasIntent[p], ipc[p] # "record"
  PROVE  hasIntent'[p]
<1>0. TypeOK
  BY DEF IInv
<1> USE DEF tables, TypeOK
<1>1. ASSUME NEW q \in Payments, Initiator(q) \/ InitiatorThrows(q)
      PROVE  hasIntent'[p]
  <2>1. CASE RecordSession(q)
    BY <1>0, <2>1 DEF RecordSession
  <2>2. CASE UNCHANGED hasIntent
    BY <2>2
  <2>3. QED
    BY <1>1, <2>1, <2>2 DEF Initiator, InitiateStripe, InitiateWire, CreatePayment,
       OpenSession, SessionThrows, FailInitiation, TransitionWithinTx,
       FailInitiationConflict, NoteSession, InitiatorLifecycleDropped,
       InitiatorLifecycleRead, InitiatorLifecycleSwap, InitiatorThrows
<1>2. ASSUME NEW w \in Workers, Quiet(w)
      PROVE  UNCHANGED hasIntent
  BY <1>2 DEF Quiet, Claim, ClaimDuplicate, Ignore, LoadPayment, Audit, SwapConflict,
     WorkerLifecycleDropped, WorkerLifecycleRead, WorkerLifecycleSwap,
     markProcessed, markFailed, ErrorSwallowed, Receive
<1>3. ASSUME NEW w \in Workers, Transact(w)
      PROVE  hasIntent'[p]
  <2>1. CASE Commit(w)
    BY <1>0, <2>1 DEF Commit
  <2>2. CASE ~Commit(w)
    BY <1>3, <2>2 DEF Transact, Decide, Swap, ReadOrder, UpdateOrder, HandlerThrows
  <2>3. QED
    BY <2>1, <2>2
<1>4. CASE UNCHANGED hasIntent
  BY <1>4
<1>5. QED
  BY <1>1, <1>2, <1>3, <1>4, WorkerSteps
     DEF Next, External, CustomerPays, CardDeclined, SessionExpires, Quiet,
         OtherLifecycleMove, Crash, vars

\* How a payment comes to be confirmed or failed.
LEMMA SettledBy ==
  ASSUME IInv, [Next]_vars, NEW p \in Payments,
         status'[p] \in {"CONFIRMED", "FAILED"}, status'[p] # status[p]
  PROVE  \/ status'[p] = "FAILED" /\ ipc'[p] = "aborted"
         \/ /\ UNCHANGED <<session, declined>>
            /\ status'[p] = "CONFIRMED" => session[p] = "complete" /\ hasIntent'[p]
            /\ status'[p] = "FAILED" => session[p] = "expired" \/ p \in declined
<1>0. TypeOK
  BY DEF IInv
<1>1. ASSUME NEW q \in Payments, Created(q) \/ GaveUp(q) \/ Noted(q)
      PROVE  status'[p] = "FAILED" /\ ipc'[p] = "aborted"
  BY <1>0, <1>1 DEF Created, GaveUp, Noted, TypeOK, InitialStatusForMethod, PaymentMethods
<1>2. ASSUME NEW w \in Workers, Commit(w)
      PROVE  /\ UNCHANGED <<session, declined>>
             /\ status'[p] = "CONFIRMED" => session[p] = "complete" /\ hasIntent'[p]
             /\ status'[p] = "FAILED" => session[p] = "expired" \/ p \in declined
  <2>1. p = ev[w].payment /\ status'[p] = Target(ev[w])
    BY <1>0, <1>2, CommitMoves DEF TypeOK
  <2>2. ev[w] \in Emitted /\ ev[w] \in SessionEvents
    BY <1>2, Writer
  <2>3. /\ isSuccess(ev[w]) => session[p] = "complete"
        /\ ~isSuccess(ev[w]) => session[p] = "expired" \/ p \in declined
    BY <2>1, <2>2, EventMeaning
  <2>4. UNCHANGED <<session, declined>> /\ (isSuccess(ev[w]) => hasIntent'[p])
    BY <1>0, <1>2, <2>1 DEF Commit, stripe, TypeOK
  <2>5. QED
    BY <2>1, <2>3, <2>4, TargetStatus
<1>3. ASSUME NEW w \in Workers, Audit(w)
      PROVE  UNCHANGED status
  BY <1>3 DEF Audit
<1>4. QED
  BY <1>1, <1>2, <1>3, LogSteps DEF Still

LEMMA SessionInvStep ==
  ASSUME IInv, SessionInv, [Next]_vars
  PROVE  SessionInv'
<1>0. StripeKeeps
  BY StripeStep
<1>1. ASSUME NEW p \in Payments
      PROVE  /\ session'[p] = "complete" \/ p \in declined' => ipc'[p] = "returned"
             /\ status'[p] = "FAILED" =>
                  session'[p] = "expired" \/ p \in declined' \/ ipc'[p] = "aborted"
  <2>1. session'[p] = "complete" \/ p \in declined' => ipc'[p] = "returned"
    BY PaidAtThePage, EndedStays DEF SessionInv
  <2>2. CASE status[p] = "FAILED"
    BY <1>0, <2>1, <2>2, EndedStays DEF SessionInv, StripeKeeps
  <2>3. CASE status[p] # "FAILED"
    BY <1>0, <2>1, <2>3, SettledBy DEF StripeKeeps
  <2>4. QED
    BY <2>1, <2>2, <2>3
<1>2. QED
  BY <1>1 DEF SessionInv

LEMMA ConfirmedMeansPaidStep ==
  ASSUME IInv, SessionInv, ConfirmedMeansPaid, [Next]_vars
  PROVE  ConfirmedMeansPaid'
<1>1. ASSUME NEW p \in Payments, status'[p] = "CONFIRMED"
      PROVE  session'[p] = "complete" /\ hasIntent'[p]
  <2>1. CASE status[p] = "CONFIRMED"
    <3>1. session[p] = "complete" /\ hasIntent[p] /\ ipc[p] = "returned"
      BY <2>1 DEF ConfirmedMeansPaid, SessionInv
    <3>2. QED
      BY <3>1, IntentKept, StripeStep DEF StripeKeeps
  <2>2. CASE status[p] # "CONFIRMED"
    BY <1>1, <2>2, SettledBy
  <2>3. QED
    BY <2>1, <2>2
<1>2. QED
  BY <1>1 DEF ConfirmedMeansPaid

\* The session of a paid payment did not expire and its request was not aborted.
LEMMA PaidNotFailedFollows == SessionInv => PaidNotFailed
BY DEF SessionInv, PaidNotFailed

-----------------------------------------------------------------------------
(* Recorded outcomes are true.                                             *)

LEMMA TruthKept ==
  ASSUME IInv, [Next]_vars, NEW e \in SessionEvents, NEW o, Truthful(e, o)
  PROVE  Truthful(e, o)'
<1>1. e.payment \in Payments
  BY SessionEventPayment
<1>2. PICK p \in Payments : p = e.payment
  BY <1>1
<1>3. \A i \in DOMAIN events[p] : i \in DOMAIN events'[p] /\ events'[p][i] = events[p][i]
  BY LogsKept
<1>4. RowsOf(p, e) # {} => RowsOf(p, e)' # {}
  BY <1>3 DEF RowsOf
<1>5. Effective(e) => Effective(e)'
  BY <1>2, <1>3 DEF Effective, RowsOf
<1>6. QED
  BY <1>2, <1>4, <1>5 DEF Truthful

\* A step changes what a worker holds only if it is a step of that worker.
LEMMA OwnStep ==
  ASSUME TypeOK, [Next]_vars, NEW w \in Workers
  PROVE  \/ pc'[w] = pc[w] /\ ev'[w] = ev[w] /\ outcome'[w] = outcome[w]
         \/ Quiet(w) \/ Transact(w)
         \/ Crash
<1> USE DEF TypeOK, Goto, Return, tables
<1>1. ASSUME NEW v \in Workers, v # w, Quiet(v)
      PROVE  pc'[w] = pc[w] /\ ev'[w] = ev[w] /\ outcome'[w] = outcome[w]
  <2>1. CASE Ignore(v)
    BY <1>1, <2>1 DEF Ignore, Finish
  <2>2. CASE ClaimDuplicate(v) \/ markProcessed(v) \/ markFailed(v) \/ ErrorSwallowed(v)
    BY <1>1, <2>2 DEF ClaimDuplicate, markProcessed, markFailed, ErrorSwallowed
  <2>3. CASE \E e \in Events : Receive(v, e)
    BY <1>1, <2>3 DEF Receive
  <2>4. CASE Claim(v) \/ LoadPayment(v) \/ Audit(v) \/ SwapConflict(v)
               \/ WorkerLifecycleDropped(v) \/ WorkerLifecycleRead(v)
               \/ WorkerLifecycleSwap(v)
    BY <1>1, <2>4 DEF Claim, LoadPayment, Audit, SwapConflict, WorkerLifecycleDropped,
       WorkerLifecycleRead, WorkerLifecycleSwap
  <2>5. QED
    BY <1>1, <2>1, <2>2, <2>3, <2>4 DEF Quiet
<1>2. ASSUME NEW v \in Workers, v # w, Transact(v)
      PROVE  pc'[w] = pc[w] /\ ev'[w] = ev[w] /\ outcome'[w] = outcome[w]
  <2>1. CASE Decide(v)
    BY <1>2, <2>1 DEF Decide
  <2>2. CASE Commit(v)
    BY <1>2, <2>2 DEF Commit
  <2>3. CASE Swap(v) \/ ReadOrder(v) \/ UpdateOrder(v) \/ HandlerThrows(v)
    BY <1>2, <2>3 DEF Swap, ReadOrder, UpdateOrder, HandlerThrows
  <2>4. QED
    BY <1>2, <2>1, <2>2, <2>3 DEF Transact
<1>3. CASE UNCHANGED <<pc, ev, outcome>>
  BY <1>3
<1>4. QED
  BY <1>1, <1>2, <1>3, OutsideFrame, WorkerSteps, ZenonT(60)
     DEF Next, External, Quiet, OtherLifecycleMove, vars, handler

\* The row that a worker has just written is in the log.
LEMMA Written ==
  ASSUME IInv, NEW w \in Workers, Audit(w) \/ Commit(w), NEW e, e = ev[w]
  PROVE  /\ RowsOf(e.payment, e)' # {}
         /\ Commit(w) => Effective(e)'
<1>0. events \in [Payments -> Seq(Rows)]
  BY DEF IInv, TypeOK
<1>1. e.payment \in Payments
  BY Writer
<1>2. PICK p \in Payments : p = e.payment
  BY <1>1
<1>3. PICK s : s = snap[w]
  OBVIOUS
<1>4. PICK t : /\ Appended(p, Row(s, t, e))
               /\ Commit(w) => t = Target(e) /\ s # t
  BY <1>2, <1>3, CommitMoves DEF Audit, Appended
<1>5. PICK log \in Seq(Rows) : log = events[p]
  BY <1>0
<1>6. events'[p] = Append(log, Row(s, t, e))
  BY <1>0, <1>4, <1>5 DEF Appended
<1>7. PICK i : i \in DOMAIN events'[p] /\ events'[p][i] = Row(s, t, e)
  BY <1>6, LogGrows
<1>8. i \in RowsOf(p, e)'
  BY <1>7 DEF RowsOf, Row
<1>9. Commit(w) => isChange(events'[p][i]) /\ events'[p][i].new = Target(e)
  BY <1>4, <1>7 DEF isChange, Row
<1>10. QED
  BY <1>2, <1>8, <1>9 DEF Effective

LEMMA DoneInvStep ==
  ASSUME IInv, RowsInv, DoneInv, [Next]_vars
  PROVE  DoneInv'
<1>0. TypeOK
  BY DEF IInv
<1> DEFINE Done == {"mark", "lifeRead", "lifeSwap"}
           Refused == Outcomes \ {"confirmed", "failed"}
<1>1. ASSUME NEW w \in Workers, NEW e, e = ev'[w], NEW o, o = outcome'[w]
      PROVE  /\ pc'[w] = "audit" => o \notin {"confirmed", "failed"}
             /\ pc'[w] \in Done /\ e \in SessionEvents => Truthful(e, o)'
  <2> DEFINE Goal == /\ pc'[w] = "audit" => o \notin {"confirmed", "failed"}
                     /\ pc'[w] \in Done /\ e \in SessionEvents => Truthful(e, o)'
  <2>1. ASSUME ev'[w] = ev[w], outcome'[w] = outcome[w], pc[w] \in Done,
               pc'[w] \in Done
        PROVE  Goal
    <3>1. e \in SessionEvents => Truthful(e, o)
      BY <1>1, <2>1 DEF DoneInv
    <3>2. QED
      BY <2>1, <3>1, TruthKept
  <2>2. CASE pc'[w] = pc[w] /\ ev'[w] = ev[w] /\ outcome'[w] = outcome[w]
    <3>1. CASE pc[w] \in Done
      BY <2>1, <2>2, <3>1
    <3>2. CASE pc[w] \notin Done
      BY <1>1, <2>2, <3>2 DEF DoneInv
    <3>3. QED
      BY <3>1, <3>2
  <2>3. ASSUME pc'[w] \notin Done \union {"audit"}
        PROVE  Goal
    BY <2>3
  <2>4. CASE Ignore(w)
    <3>1. ev[w] \notin SessionEvents
      BY <2>4, SessionEventPayment, ConstantsAssumption
         DEF Ignore, SessionTypes, OtherType
    <3>2. QED
      BY <1>0, <1>1, <2>4, <3>1 DEF Ignore, Finish, Goto, TypeOK
  <2>5. CASE Audit(w)
    <3>1. /\ ev'[w] = ev[w] /\ outcome'[w] = outcome[w]
          /\ pc[w] = "audit" /\ pc'[w] = "mark"
      BY <1>0, <2>5 DEF Audit, Goto, TypeOK
    <3>2. o \notin {"confirmed", "failed"}
      BY <1>1, <3>1 DEF DoneInv
    <3>3. RowsOf(e.payment, e)' # {}
      BY <1>1, <2>5, <3>1, Written
    <3>4. QED
      BY <3>1, <3>2, <3>3 DEF Truthful
  <2>6. CASE Commit(w)
    <3>1. ev'[w] = ev[w] /\ pc'[w] # "audit"
      BY <1>0, <2>6 DEF Commit, Goto, TypeOK
    <3>2. RowsOf(e.payment, e)' # {} /\ Effective(e)'
      BY <1>1, <2>6, <3>1, Written
    <3>3. QED
      BY <3>1, <3>2 DEF Truthful
  <2>7. CASE Decide(w)
    <3>1. ev[w].payment \in Payments /\ pc[w] = "check"
      BY <2>7, SessionEventPayment DEF Decide, IInv, WorkerInv, Deciding
    <3>2. RowsOf(ev[w].payment, ev[w]) = {}
      BY <3>1 DEF RowsInv, Unwritten, Deciding
    <3>3. events[ev[w].payment] \in Seq(Rows)
      BY <1>0, <3>1 DEF TypeOK
    <3>4. ~hasProcessedStripeEvent(ev[w].payment, ev[w])
      BY <3>2, <3>3, LogGrows DEF RowsOf, hasProcessedStripeEvent
    <3>5. \A d, s : NoOpOutcome(d, s) \notin {"confirmed", "failed"}
      BY DEF NoOpOutcome
    <3>6. CASE pc'[w] = "swap"
      BY <3>6
    <3>7. CASE outcome' = [outcome EXCEPT ![w] = NoOpOutcome(ev[w], snap[w])]
               /\ pc'[w] = IF isAudited(ev[w], snap[w]) THEN "audit" ELSE "mark"
      <4>1. o \notin {"confirmed", "failed"} /\ e = ev[w]
        BY <1>0, <1>1, <2>7, <3>5, <3>7 DEF TypeOK, Decide
      <4>2. pc'[w] \in Done => ~isSuccess(e)
        BY <3>7, <4>1 DEF isAudited
      <4>3. QED
        BY <4>1, <4>2 DEF Truthful
    <3>8. QED
      BY <1>0, <2>7, <3>4, <3>6, <3>7 DEF Decide, Goto, TypeOK
  <2>8. CASE WorkerLifecycleDropped(w) \/ WorkerLifecycleRead(w) \/ WorkerLifecycleSwap(w)
    <3>1. /\ pc[w] \in Done /\ pc'[w] \in Done
          /\ ev'[w] = ev[w] /\ outcome'[w] = outcome[w]
      BY <1>0, <2>8 DEF WorkerLifecycleDropped, WorkerLifecycleRead,
                        WorkerLifecycleSwap, Goto, TypeOK
    <3>2. QED
      BY <2>1, <3>1
  <2>9. CASE Claim(w) \/ ClaimDuplicate(w) \/ LoadPayment(w) \/ SwapConflict(w)
               \/ markProcessed(w) \/ markFailed(w) \/ ErrorSwallowed(w)
               \/ \E d \in Events : Receive(w, d)
    BY <1>0, <2>3, <2>9 DEF Claim, ClaimDuplicate, LoadPayment, SwapConflict,
       markProcessed, markFailed, ErrorSwallowed, Receive, Goto, Return, TypeOK
  <2>10. CASE Swap(w) \/ ReadOrder(w) \/ UpdateOrder(w) \/ HandlerThrows(w)
    BY <1>0, <2>3, <2>10 DEF Swap, ReadOrder, UpdateOrder, HandlerThrows, Goto, TypeOK
  <2>11. CASE Crash
    BY <2>3, <2>11 DEF Crash
  <2>12. QED
    BY <1>0, <2>2, <2>4, <2>5, <2>6, <2>7, <2>8, <2>9, <2>10, <2>11, OwnStep
       DEF Quiet, Transact
<1>2. ASSUME NEW w \in Workers
      PROVE  /\ pc'[w] = "audit" => outcome'[w] \notin {"confirmed", "failed"}
             /\ pc'[w] \in Done /\ ev'[w] \in SessionEvents =>
                  Truthful(ev[w], outcome[w])'
  <2>1. PICK e, o : e = ev'[w] /\ o = outcome'[w]
    OBVIOUS
  <2>2. /\ pc'[w] = "audit" => o \notin {"confirmed", "failed"}
        /\ pc'[w] \in Done /\ e \in SessionEvents => Truthful(e, o)'
    BY <1>1, <2>1
  <2>3. Truthful(e, o)' => Truthful(ev[w], outcome[w])'
    BY <2>1 DEF Truthful, Effective, RowsOf
  <2>4. QED
    BY <2>1, <2>2, <2>3
<1>3. QED
  BY <1>2 DEF DoneInv

\* What OutcomeIsTruthful says, in the words of this module.
LEMMA TruthOfOutcomes ==
  ASSUME TypeOK
  PROVE  OutcomeIsTruthful <=>
           \A e \in SessionEvents : webhook[e].status = "PROCESSED" =>
              Truthful(e, webhook[e].outcome)
<1>1. ASSUME NEW e \in SessionEvents
      PROVE  RowsOf(e.payment, e) # {} <=> hasProcessedStripeEvent(e.payment, e)
  <2>1. events[e.payment] \in Seq(Rows)
    BY <1>1, SessionEventPayment DEF TypeOK
  <2>2. QED
    BY <2>1, LogGrows DEF RowsOf, hasProcessedStripeEvent
<1>2. \A e \in SessionEvents :
        Effective(e) <=> \E i \in DOMAIN events[e.payment] :
                            LET r == events[e.payment][i]
                            IN  r.event = e /\ isChange(r) /\ r.new = Target(e)
  BY DEF Effective, RowsOf
<1>3. QED
  BY <1>1, <1>2 DEF OutcomeIsTruthful, Truthful

LEMMA OutcomeStep ==
  ASSUME IInv, DoneInv, OutcomeIsTruthful, [Next]_vars, TypeOK'
  PROVE  OutcomeIsTruthful'
<1>0. TypeOK
  BY DEF IInv
<1>1. ASSUME NEW e \in SessionEvents, webhook'[e].status = "PROCESSED",
             NEW o, o = webhook'[e].outcome
      PROVE  Truthful(e, o)
  <2>1. CASE webhook'[e] = webhook[e]
    BY <1>0, <1>1, <2>1, TruthOfOutcomes
  <2>2. ASSUME NEW w \in Workers, markProcessed(w), webhook'[e] # webhook[e]
        PROVE  Truthful(e, o)
    <3>1. ev[w] = e /\ o = outcome[w] /\ pc[w] = "mark"
      BY <1>0, <1>1, <2>2 DEF markProcessed, WebhookRow, TypeOK
    <3>2. QED
      BY <1>1, <3>1 DEF DoneInv
  <2>3. ASSUME NEW w \in Workers, Claim(w) \/ markFailed(w), webhook'[e] # webhook[e]
        PROVE  FALSE
    <3>1. e \in Events
      BY DEF Events
    <3>2. ASSUME NEW s \in {"RECEIVED", "FAILED"},
                 webhook' = [webhook EXCEPT ![ev[w]] = WebhookRow(s, NoOutcome)]
          PROVE  webhook'[e] = webhook[e] \/ webhook'[e].status = s
      BY <1>0, <3>1, <3>2 DEF TypeOK, WebhookRow
    <3>3. QED
      BY <1>1, <2>3, <3>2 DEF Claim, markFailed
  <2>4. ASSUME NEW w \in Workers, Quiet(w) \/ Transact(w),
               ~Claim(w), ~markFailed(w), ~markProcessed(w)
        PROVE  UNCHANGED webhook
    BY <2>4 DEF Quiet, Transact, ClaimDuplicate, Ignore, LoadPayment, Audit,
       SwapConflict, WorkerLifecycleDropped, WorkerLifecycleRead,
       WorkerLifecycleSwap, ErrorSwallowed, Receive, Decide, Swap, ReadOrder,
       UpdateOrder, Commit, HandlerThrows, tables
  <2>5. QED
    BY <1>0, <2>1, <2>2, <2>3, <2>4, OutsideFrame, WorkerSteps
       DEF Next, External, Quiet, OtherLifecycleMove, Crash, vars, tables
<1>2. ASSUME NEW e \in SessionEvents, webhook'[e].status = "PROCESSED"
      PROVE  Truthful(e, webhook[e].outcome)'
  <2>1. PICK o : o = webhook'[e].outcome
    OBVIOUS
  <2>2. Truthful(e, o)'
    BY <1>1, <1>2, <2>1, TruthKept
  <2>3. QED
    BY <2>1, <2>2 DEF Truthful
<1>3. (OutcomeIsTruthful <=>
           \A e \in SessionEvents : webhook[e].status = "PROCESSED" =>
              Truthful(e, webhook[e].outcome))'
  BY TruthOfOutcomes, PTL
<1>4. QED
  BY <1>2, <1>3

-----------------------------------------------------------------------------
(* The audit log.                                                          *)

LEMMA AuditTrailStep ==
  ASSUME IInv, AuditTrail, [Next]_vars
  PROVE  AuditTrail'
<1>0. /\ events \in [Payments -> Seq(Rows)]
      /\ status \in [Payments -> PaymentStatuses \union {NoStatus}]
      /\ NoStatus \notin PaymentStatuses
  BY DEF IInv, TypeOK, PaymentStatuses, NoStatus
<1>1. ASSUME NEW p \in Payments,
             NEW log, log = events[p], NEW s, s = status[p],
             NEW newLog, newLog = events'[p], NEW t, t = status'[p]
      PROVE  Trail(newLog, t)
  <2>0. log \in Seq(Rows) /\ Trail(log, s)
    BY <1>0, <1>1, TrailOfPayment
  <2>1. CASE newLog = log /\ t = s
    BY <2>0, <2>1
  <2>2. ASSUME NEW a, NEW b, NEW e, a = s, b = t, a # b, b \in PaymentStatuses,
               newLog = Append(log, Row(a, b, e))
        PROVE  Trail(newLog, t)
    <3>1. PICK r : r = Row(a, b, e)
      OBVIOUS
    <3>2. isChange(r) /\ r.prev = s /\ r.new = t /\ r.new # NoStatus
      BY <1>0, <2>2, <3>1 DEF isChange, Row
    <3>3. QED
      BY <2>0, <2>2, <3>1, <3>2, TrailChange
  <2>3. ASSUME NEW a, NEW e, t = s, s # NoStatus, newLog = Append(log, Row(a, a, e))
        PROVE  Trail(newLog, t)
    <3>1. PICK r : r = Row(a, a, e)
      OBVIOUS
    <3>2. ~isChange(r)
      BY <3>1 DEF isChange, Row
    <3>3. QED
      BY <2>0, <2>3, <3>1, <3>2, TrailNote
  <2>4. ASSUME NEW q \in Payments, Created(q)
        PROVE  Trail(newLog, t)
    <3>1. PICK m \in PaymentMethods :
            /\ status' = [status EXCEPT ![q] = InitialStatusForMethod[m]]
            /\ Appended(q, Row(NoStatus, InitialStatusForMethod[m], NoEvent))
      BY <2>4 DEF Created
    <3>2. status[q] = NoStatus /\ InitialStatusForMethod[m] \in PaymentStatuses
      BY <2>4 DEF Created, InitialStatusForMethod, PaymentStatuses, PaymentMethods
    <3>3. CASE p = q
      BY <1>0, <1>1, <2>2, <3>1, <3>2, <3>3 DEF Appended
    <3>4. CASE p # q
      BY <1>0, <1>1, <2>1, <3>1, <3>4 DEF Appended
    <3>5. QED
      BY <3>3, <3>4
  <2>5. ASSUME NEW q \in Payments, GaveUp(q)
        PROVE  Trail(newLog, t)
    <3>1. CASE p = q
      BY <1>0, <1>1, <2>2, <2>5, <3>1 DEF GaveUp, Appended, PaymentStatuses
    <3>2. CASE p # q
      BY <1>0, <1>1, <2>1, <2>5, <3>2 DEF GaveUp, Appended
    <3>3. QED
      BY <3>1, <3>2
  <2>6. ASSUME NEW q \in Payments, Noted(q)
        PROVE  Trail(newLog, t)
    <3>1. CASE p = q
      BY <1>0, <1>1, <2>3, <2>6, <3>1 DEF Noted, Appended
    <3>2. CASE p # q
      BY <1>0, <1>1, <2>1, <2>6, <3>2 DEF Noted, Appended
    <3>3. QED
      BY <3>1, <3>2
  <2>7. ASSUME NEW w \in Workers, Audit(w)
        PROVE  Trail(newLog, t)
    <3>1. Appended(ev[w].payment, Row(snap[w], snap[w], ev[w])) /\ UNCHANGED status
      BY <2>7 DEF Audit, Appended
    <3>2. ev[w].payment \in Payments /\ status[ev[w].payment] \in PaymentStatuses
      BY <2>7, Writer
    <3>3. CASE p = ev[w].payment
      BY <1>0, <1>1, <2>3, <3>1, <3>2, <3>3 DEF Appended
    <3>4. CASE p # ev[w].payment
      BY <1>0, <1>1, <2>1, <3>1, <3>4 DEF Appended
    <3>5. QED
      BY <3>3, <3>4
  <2>8. ASSUME NEW w \in Workers, Commit(w)
        PROVE  Trail(newLog, t)
    <3>1. CASE p = ev[w].payment
      <4>1. /\ newLog = Append(log, Row(snap[w], Target(ev[w]), ev[w]))
            /\ t = Target(ev[w]) /\ s = snap[w] /\ s # t
            /\ t \in PaymentStatuses
        BY <1>0, <1>1, <2>8, <3>1, CommitMoves DEF Appended, PaymentStatuses
      <4>2. QED
        BY <2>2, <4>1
    <3>2. CASE p # ev[w].payment
      BY <1>0, <1>1, <2>1, <2>8, <3>2, CommitMoves DEF Appended
    <3>3. QED
      BY <3>1, <3>2
  <2>9. QED
    BY <1>1, <2>1, <2>4, <2>5, <2>6, <2>7, <2>8, LogSteps DEF Still
<1>2. ASSUME NEW p \in Payments
      PROVE  Trail(events[p], status[p])'
  <2>1. PICK log, s : log = events'[p] /\ s = status'[p]
    OBVIOUS
  <2>2. Trail(log, s)
    BY <1>1, <2>1
  <2>3. QED
    BY <2>1, <2>2
<1>3. (AuditTrail <=> \A p \in Payments : Trail(events[p], status[p]))'
  BY TrailOfPayment, PTL
<1>4. QED
  BY <1>2, <1>3

-----------------------------------------------------------------------------
(* The lifecycle of the thread.                                            *)

\* Who takes a lifecycle status in hand for its own call.
LEMMA LifeInvStep ==
  ASSUME IInv, LifeInv, [Next]_vars
  PROVE  LifeInv'
<1>0. TypeOK
  BY DEF IInv
<1>1. \A p \in Payments, w \in Workers : p # w
  BY ConstantsAssumption
<1>2. ASSUME NEW p \in Payments, ipc'[p] = "lifeSwap"
      PROVE  canTransitionLifecycle(lifeSeen'[p], "PAYMENT_INITIATED")
  <2>1. CASE ipc[p] = "lifeSwap" /\ lifeSeen'[p] = lifeSeen[p]
    BY <2>1 DEF LifeInv
  <2>2. CASE InitiatorLifecycleRead(p)
    BY <1>0, <2>2 DEF InitiatorLifecycleRead, LifecycleRead, LifecycleDropped, TypeOK
  <2>3. ASSUME NEW q \in Payments, Initiator(q) \/ InitiatorThrows(q),
               ~InitiatorLifecycleRead(p)
        PROVE  ipc[p] = "lifeSwap" /\ lifeSeen'[p] = lifeSeen[p]
    <3>1. CASE p = q
      BY <1>0, <1>2, <2>3, <3>1 DEF Initiator, InitiateStripe, InitiateWire,
         CreatePayment, OpenSession, SessionThrows, FailInitiation,
         FailInitiationConflict, RecordSession, NoteSession,
         InitiatorLifecycleDropped, InitiatorLifecycleSwap, InitiatorThrows, TypeOK
    <3>2. CASE p # q
      <4>1. /\ \E l : ipc' = [ipc EXCEPT ![q] = l]
            /\ UNCHANGED lifeSeen \/ \E s : lifeSeen' = [lifeSeen EXCEPT ![q] = s]
        BY <2>3 DEF Initiator, InitiateStripe, InitiateWire, CreatePayment,
           OpenSession, SessionThrows, FailInitiation, FailInitiationConflict,
           RecordSession, NoteSession, InitiatorLifecycleDropped,
           InitiatorLifecycleRead, LifecycleRead, InitiatorLifecycleSwap,
           LifecycleSwap, InitiatorThrows
      <4>2. QED
        BY <1>0, <1>2, <3>2, <4>1 DEF TypeOK
    <3>3. QED
      BY <3>1, <3>2
  <2>4. ASSUME NEW w \in Workers, Quiet(w) \/ Transact(w)
        PROVE  ipc[p] = "lifeSwap" /\ lifeSeen'[p] = lifeSeen[p]
    <3>1. UNCHANGED ipc
      BY <1>0, <2>4, QuietFrame, TransactFrame DEF initiator
    <3>2. UNCHANGED lifeSeen \/ \E s : lifeSeen' = [lifeSeen EXCEPT ![w] = s]
      BY <2>4 DEF Quiet, Transact, Claim, ClaimDuplicate, Ignore, LoadPayment, Audit,
         SwapConflict, WorkerLifecycleDropped, WorkerLifecycleRead, LifecycleRead,
         WorkerLifecycleSwap, LifecycleSwap, markProcessed, markFailed,
         ErrorSwallowed, Receive, Decide, Swap, ReadOrder, UpdateOrder, Commit,
         HandlerThrows
    <3>3. QED
      BY <1>0, <1>1, <1>2, <3>1, <3>2 DEF TypeOK
  <2>5. CASE Crash
    BY <1>2, <2>5 DEF Crash
  <2>6. CASE UNCHANGED <<ipc, lifeSeen>>
    BY <1>2, <2>1, <2>6
  <2>7. QED
    BY <2>1, <2>2, <2>3, <2>4, <2>5, <2>6, WorkerSteps
       DEF Next, External, CustomerPays, CardDeclined, SessionExpires, Quiet,
           OtherLifecycleMove, vars, initiator
<1>3. ASSUME NEW w \in Workers, pc'[w] = "lifeSwap"
      PROVE  canTransitionLifecycle(lifeSeen'[w], "PAYMENT_CONFIRMED")
  <2>1. CASE pc[w] = "lifeSwap" /\ lifeSeen'[w] = lifeSeen[w]
    BY <2>1 DEF LifeInv
  <2>2. CASE WorkerLifecycleRead(w)
    BY <1>0, <2>2 DEF WorkerLifecycleRead, LifecycleRead, LifecycleDropped, TypeOK
  <2>3. ASSUME NEW v \in Workers, Quiet(v) \/ Transact(v), ~WorkerLifecycleRead(w)
        PROVE  pc[w] = "lifeSwap" /\ lifeSeen'[w] = lifeSeen[w]
    <3>1. CASE v = w
      BY <1>0, <1>3, <2>3, <3>1 DEF Quiet, Transact, Claim, ClaimDuplicate, Ignore,
         Finish, LoadPayment, Audit, SwapConflict, WorkerLifecycleDropped,
         WorkerLifecycleSwap, markProcessed, markFailed, ErrorSwallowed, Receive,
         Decide, Swap, ReadOrder, UpdateOrder, Commit, HandlerThrows, Goto, Return,
         TypeOK
    <3>2. CASE v # w
      <4>1. OthersKeep(v)
        BY <1>0, <2>3, ClaimSteps, ZenonT(60)
           DEF Inside, Leaving, Claim, Goto, OthersKeep, TypeOK
      <4>2. UNCHANGED lifeSeen \/ \E s : lifeSeen' = [lifeSeen EXCEPT ![v] = s]
        BY <2>3 DEF Quiet, Transact, Claim, ClaimDuplicate, Ignore, LoadPayment,
           Audit, SwapConflict, WorkerLifecycleDropped, WorkerLifecycleRead,
           LifecycleRead, WorkerLifecycleSwap, LifecycleSwap, markProcessed,
           markFailed, ErrorSwallowed, Receive, Decide, Swap, ReadOrder,
           UpdateOrder, Commit, HandlerThrows
      <4>3. QED
        BY <1>0, <1>3, <3>2, <4>1, <4>2 DEF OthersKeep, TypeOK
    <3>3. QED
      BY <3>1, <3>2
  <2>4. ASSUME NEW q \in Payments, Initiator(q) \/ InitiatorThrows(q) \/ External(q)
        PROVE  pc[w] = "lifeSwap" /\ lifeSeen'[w] = lifeSeen[w]
    <3>1. UNCHANGED pc
      BY <1>0, <2>4, OutsideFrame DEF handler
    <3>2. UNCHANGED lifeSeen \/ \E s : lifeSeen' = [lifeSeen EXCEPT ![q] = s]
      BY <2>4 DEF External, CustomerPays, CardDeclined, SessionExpires, Initiator,
         InitiateStripe, InitiateWire, CreatePayment,
         OpenSession, SessionThrows, FailInitiation, FailInitiationConflict,
         RecordSession, NoteSession, InitiatorLifecycleDropped,
         InitiatorLifecycleRead, LifecycleRead, InitiatorLifecycleSwap,
         LifecycleSwap, InitiatorThrows
    <3>3. QED
      BY <1>0, <1>1, <1>3, <3>1, <3>2 DEF TypeOK
  <2>5. CASE Crash
    BY <1>3, <2>5 DEF Crash
  <2>6. CASE UNCHANGED <<pc, lifeSeen>>
    BY <1>3, <2>1, <2>6
  <2>7. QED
    BY <2>1, <2>2, <2>3, <2>4, <2>5, <2>6, WorkerSteps
       DEF Next, External, Quiet, OtherLifecycleMove, vars, handler
<1>4. QED
  BY <1>2, <1>3 DEF LifeInv

LEMMA LifecycleStep ==
  ASSUME IInv, LifeInv, [Next]_vars
  PROVE  canTransitionLifecycle(lifecycle, lifecycle')
<1>1. CASE UNCHANGED lifecycle
  BY <1>1 DEF canTransitionLifecycle
<1>2. ASSUME NEW p \in Payments, Initiator(p) \/ InitiatorThrows(p)
      PROVE  canTransitionLifecycle(lifecycle, lifecycle')
  <2>1. CASE InitiatorLifecycleSwap(p)
    <3>1. canTransitionLifecycle(lifeSeen[p], "PAYMENT_INITIATED")
      BY <2>1 DEF InitiatorLifecycleSwap, LifeInv
    <3>2. lifecycle' = IF lifecycle = lifeSeen[p] THEN "PAYMENT_INITIATED" ELSE lifecycle
      BY <2>1 DEF InitiatorLifecycleSwap, LifecycleSwap
    <3>3. QED
      BY <1>1, <3>1, <3>2
  <2>2. CASE UNCHANGED lifecycle
    BY <1>1, <2>2
  <2>3. QED
    BY <1>2, <2>1, <2>2 DEF Initiator, InitiateStripe, InitiateWire, CreatePayment,
       OpenSession, SessionThrows, FailInitiation, FailInitiationConflict,
       RecordSession, NoteSession, InitiatorLifecycleDropped,
       InitiatorLifecycleRead, InitiatorThrows, tables
<1>3. ASSUME NEW w \in Workers, Quiet(w) \/ Transact(w)
      PROVE  canTransitionLifecycle(lifecycle, lifecycle')
  <2>1. CASE WorkerLifecycleSwap(w)
    <3>1. canTransitionLifecycle(lifeSeen[w], "PAYMENT_CONFIRMED")
      BY <2>1 DEF WorkerLifecycleSwap, LifeInv
    <3>2. lifecycle' = IF lifecycle = lifeSeen[w] THEN "PAYMENT_CONFIRMED" ELSE lifecycle
      BY <2>1 DEF WorkerLifecycleSwap, LifecycleSwap
    <3>3. QED
      BY <1>1, <3>1, <3>2
  <2>2. CASE UNCHANGED lifecycle
    BY <1>1, <2>2
  <2>3. QED
    BY <1>3, <2>1, <2>2 DEF Quiet, Transact, Claim, ClaimDuplicate, Ignore,
       LoadPayment, Audit, SwapConflict, WorkerLifecycleDropped, WorkerLifecycleRead,
       markProcessed, markFailed, ErrorSwallowed, Receive, Decide, Swap, ReadOrder,
       UpdateOrder, Commit, HandlerThrows, tables
<1>4. ASSUME NEW s \in OtherMoves, OtherLifecycleMove(s)
      PROVE  canTransitionLifecycle(lifecycle, lifecycle')
  BY <1>4 DEF OtherLifecycleMove
<1>5. QED
  BY <1>1, <1>2, <1>3, <1>4, WorkerSteps
     DEF Next, External, CustomerPays, CardDeclined, SessionExpires, Quiet, Crash,
         vars, tables

-----------------------------------------------------------------------------
(* The abstract ledger.                                                    *)

\* An event is recorded on a payment when it has a row.
LEMMA RecordedByRows ==
  recordedEvents = [p \in Payments |-> {e \in Events : RowsOf(p, e) # {}}]
BY DEF recordedEvents, RowsOf

\* The ledger has a copy of the state machine.
LEMMA SameStates ==
  /\ \A s, t : Ledger!canTransition(s, t) <=> canTransition(s, t)
  /\ Ledger!PaymentMethods = PaymentMethods
  /\ Ledger!InitialStatusForMethod = InitialStatusForMethod
BY DEF Ledger!canTransition, Ledger!CommonTransitions, canTransition,
       CommonTransitions, Ledger!PaymentMethods, PaymentMethods,
       Ledger!InitialStatusForMethod, InitialStatusForMethod

\* A row without an event records none.
LEMMA NothingRecorded ==
  ASSUME IInv, [Next]_vars, NEW p \in Payments, Created(p) \/ GaveUp(p) \/ Noted(p)
  PROVE  recordedEvents' = recordedEvents
<1>0. TypeOK
  BY DEF IInv
<1>1. PICK s, t : Appended(p, Row(s, t, NoEvent))
  BY DEF Created, GaveUp, Noted
<1>2. PICK r : r = Row(s, t, NoEvent)
  OBVIOUS
<1>3. \A e \in Events : r.event # e
  BY <1>2, ConstantsAssumption DEF Row
<1>4. ASSUME NEW q \in Payments, NEW e \in Events
      PROVE  RowsOf(q, e)' = RowsOf(q, e)
  <2>1. RowsOf(q, e)' = RowsOf(q, e) \union
           (IF q = p /\ r.event = e THEN {Len(events[q]) + 1} ELSE {})
    BY <1>0, <1>1, <1>2, RowsAppended
  <2>2. QED
    BY <1>3, <2>1
<1>5. recordedEvents' = [q \in Payments |-> {e \in Events : RowsOf(q, e)' # {}}]
  BY DEF recordedEvents, RowsOf
<1>6. QED
  BY <1>4, <1>5, RecordedByRows

\* A worker records its event, which is new, on its payment.
LEMMA EventRecorded ==
  ASSUME IInv, RowsInv, NEW w \in Workers, Audit(w) \/ Commit(w),
         NEW p, p = ev[w].payment, NEW e, e = ev[w]
  PROVE  /\ p \in Payments /\ e \in Events
         /\ status[p] # "none" /\ e \notin recordedEvents[p]
         /\ recordedEvents' = [recordedEvents EXCEPT ![p] = @ \union {e}]
<1>0. TypeOK
  BY DEF IInv
<1>1. p \in Payments /\ e \in Events /\ status[p] # "none"
  BY Writer DEF PaymentStatuses
<1>2. RowsOf(p, e) = {}
  BY <1>1 DEF RowsInv, Audit, Commit, Unwritten, Deciding
<1>3. PICK s, t : Appended(p, Row(s, t, e))
  BY DEF Audit, Commit, Appended
<1>4. PICK r : r = Row(s, t, e)
  OBVIOUS
<1>5. r.event = e
  BY <1>4 DEF Row
<1>6. ASSUME NEW q \in Payments, NEW d \in Events
      PROVE  RowsOf(q, d)' # {} <=> RowsOf(q, d) # {} \/ (q = p /\ d = e)
  <2>1. RowsOf(q, d)' = RowsOf(q, d) \union
           (IF q = p /\ r.event = d THEN {Len(events[q]) + 1} ELSE {})
    BY <1>0, <1>1, <1>3, <1>4, RowsAppended
  <2>2. QED
    BY <1>5, <2>1
<1>7. recordedEvents' = [q \in Payments |-> {d \in Events : RowsOf(q, d)' # {}}]
  BY DEF recordedEvents, RowsOf
<1>8. recordedEvents' = [q \in Payments |->
                           {d \in Events : RowsOf(q, d) # {} \/ (q = p /\ d = e)}]
  BY <1>6, <1>7
<1>9. recordedEvents = [q \in Payments |-> {d \in Events : RowsOf(q, d) # {}}]
  BY RecordedByRows
<1>10. e \notin recordedEvents[p]
  BY <1>1, <1>2, <1>9
<1>11. /\ recordedEvents'[p] = recordedEvents[p] \union {e}
       /\ \A q \in Payments : q # p => recordedEvents'[q] = recordedEvents[q]
  BY <1>1, <1>8, <1>9
<1>12. DOMAIN recordedEvents = Payments /\ DOMAIN recordedEvents' = Payments
  BY <1>8, <1>9
<1>13. recordedEvents' = [recordedEvents EXCEPT ![p] = @ \union {e}]
  <2>1. /\ recordedEvents = [q \in Payments |-> recordedEvents[q]]
        /\ recordedEvents' = [q \in Payments |-> recordedEvents'[q]]
    BY <1>8, <1>9
  <2> HIDE DEF recordedEvents
  <2>2. QED
    BY <1>1, <1>11, <1>12, <2>1
<1>14. QED
  BY <1>1, <1>10, <1>13

LEMMA LedgerStep ==
  ASSUME IInv, RowsInv, [Next]_vars
  PROVE  [Ledger!Next]_(Ledger!ledger)
<1>0. TypeOK /\ OrderInv
  BY DEF IInv
<1>1. ASSUME NEW p \in Payments, Created(p)
      PROVE  Ledger!Open(p)
  BY <1>1, NothingRecorded, SameStates DEF Created, Ledger!Open, NoStatus
<1>2. ASSUME NEW p \in Payments, GaveUp(p)
      PROVE  Ledger!GiveUp(p)
  <2>1. canTransition("INITIATED", "FAILED")
    BY DEF canTransition, CommonTransitions
  <2>2. QED
    BY <1>2, <2>1, NothingRecorded, SameStates DEF GaveUp, Ledger!GiveUp, Ledger!Move
<1>3. ASSUME NEW p \in Payments, Noted(p)
      PROVE  UNCHANGED Ledger!ledger
  BY <1>3, NothingRecorded DEF Noted, Ledger!ledger
<1>4. ASSUME NEW w \in Workers, Audit(w)
      PROVE  \E p \in Payments, e \in Events : Ledger!Note(p, e)
  <2>1. PICK p, e : p = ev[w].payment /\ e = ev[w]
    OBVIOUS
  <2>2. UNCHANGED <<status, orderStatus>>
    BY <1>4 DEF Audit
  <2>3. QED
    BY <1>4, <2>1, <2>2, EventRecorded DEF Ledger!Note, Ledger!Record
<1>5. ASSUME NEW w \in Workers, Commit(w)
      PROVE  \E p \in Payments, e \in Events : Ledger!Confirm(p, e) \/ Ledger!Fail(p, e)
  <2>1. PICK p, e : p = ev[w].payment /\ e = ev[w]
    OBVIOUS
  <2>2. /\ status' = [status EXCEPT ![p] = Target(e)]
        /\ canTransition(status[p], Target(e))
    BY <1>5, <2>1, CommitMoves
  <2>3. p \in Payments /\ e \in Events /\ Ledger!Record(p, e)
    BY <1>5, <2>1, EventRecorded DEF Ledger!Record
  <2>4. OrderOf[p] \in Orders
    BY <2>3, ConstantsAssumption
  <2>5. pc[w] = "commit" /\ w # Free
    BY <1>5, ConstantsAssumption DEF Commit
  <2>6. \A o \in Orders : ordLock[o] = w => o = OrderOf[p] /\ isSuccess(e)
    BY <1>0, <2>1, <2>5 DEF OrderInv
  <2>7. isSuccess(e) => ordLock[OrderOf[p]] = w \/ orderStatus[OrderOf[p]] = "CONFIRMED"
    BY <1>0, <2>1, <2>5 DEF OrderInv
  <2>8. orderStatus' = [o \in Orders |-> IF ordLock[o] = w THEN "CONFIRMED"
                                         ELSE orderStatus[o]]
    BY <1>5 DEF Commit, UpdatesOrder
  <2>9. CASE isSuccess(e)
    <3>1. orderStatus' = [orderStatus EXCEPT ![OrderOf[p]] = "CONFIRMED"]
      BY <1>0, <2>4, <2>6, <2>7, <2>8, <2>9 DEF TypeOK
    <3>2. Ledger!Confirm(p, e)
      BY <2>2, <2>3, <2>9, <3>1, SameStates DEF Ledger!Confirm, Target
    <3>3. QED
      BY <2>3, <3>2
  <2>10. CASE ~isSuccess(e)
    <3>1. UNCHANGED orderStatus
      BY <1>0, <2>6, <2>8, <2>10 DEF TypeOK
    <3>2. Ledger!Fail(p, e)
      BY <2>2, <2>3, <2>10, <3>1, SameStates DEF Ledger!Fail, Ledger!Move, Target
    <3>3. QED
      BY <2>3, <3>2
  <2>11. QED
    BY <2>9, <2>10
<1>6. CASE Still
  BY <1>6 DEF Still, Ledger!ledger, recordedEvents
<1>7. QED
  BY <1>1, <1>2, <1>3, <1>4, <1>5, <1>6, LogSteps DEF Ledger!Next

LEMMA LedgerInit == Init => Ledger!Init
<1> SUFFICES ASSUME Init PROVE Ledger!Init
  OBVIOUS
<1>1. recordedEvents = [p \in Payments |-> {}]
  BY DEF Init, recordedEvents
<1>2. QED
  BY <1>1 DEF Init, Ledger!Init, NoStatus

-----------------------------------------------------------------------------
(* The invariant, and what follows from it.                                *)

LEMMA LInvInit == Init => LInv
<1> SUFFICES ASSUME Init PROVE LInv
  OBVIOUS
<1>1. \A p \in Payments : events[p] = <<>> /\ DOMAIN events[p] = {}
  BY DEF Init
<1>2. ClaimInv /\ SessionInv /\ DoneInv /\ LifeInv
  BY DEF Init, ClaimInv, SessionInv, DoneInv, LifeInv, Claimed, NoStatus
<1>3. RowsInv /\ AppliedOnce
  BY <1>1 DEF RowsInv, RowsOf, AppliedOnce
<1>4. AuditTrail
  BY <1>1 DEF Init, AuditTrail
<1>5. ConfirmedMeansPaid /\ OutcomeIsTruthful
  BY DEF Init, ConfirmedMeansPaid, OutcomeIsTruthful, NoStatus, SessionEvents, Events,
         Absent, WebhookRow
<1>6. QED
  BY <1>2, <1>3, <1>4, <1>5 DEF LInv

LEMMA LInvStep == IInv /\ LInv /\ [Next]_vars => LInv'
<1> SUFFICES ASSUME IInv, LInv, [Next]_vars PROVE LInv'
  OBVIOUS
<1>1. TypeOK'
  BY TypeStep
<1>2. ClaimInv' /\ RowsInv' /\ AppliedOnce'
  BY <1>1, ClaimStep, RowsInvStep, AppliedOnceStep DEF LInv
<1>3. SessionInv' /\ ConfirmedMeansPaid'
  BY SessionInvStep, ConfirmedMeansPaidStep DEF LInv
<1>4. DoneInv' /\ OutcomeIsTruthful'
  BY <1>1, DoneInvStep, OutcomeStep DEF LInv
<1>5. LifeInv' /\ AuditTrail'
  BY LifeInvStep, AuditTrailStep DEF LInv
<1>6. QED
  BY <1>2, <1>3, <1>4, <1>5 DEF LInv

LEMMA LInvariance == Spec => [](IInv /\ LInv)
<1>1. Init => IInv /\ LInv
  BY InitHolds, LInvInit
<1>2. IInv /\ LInv /\ [Next]_vars => (IInv /\ LInv)'
  BY StepHolds, LInvStep
<1>3. QED
  BY <1>1, <1>2, PTL DEF Spec

\* Every status change has its row in the audit log: the changing rows of a
\* payment form one chain from its creation to its current status, although
\* no-op rows and rows of the initiating request are written without any lock.
THEOREM AuditTrailHolds == Spec => []AuditTrail
<1>1. IInv /\ LInv => AuditTrail
  BY DEF LInv
<1>2. QED
  BY <1>1, LInvariance, PTL

\* A confirmed payment was paid at Stripe and keeps its payment intent: the
\* initiating request, which clears the column, has ended before it can be paid.
THEOREM ConfirmedPaymentsArePaid == Spec => []ConfirmedMeansPaid
<1>1. IInv /\ LInv => ConfirmedMeansPaid
  BY DEF LInv
<1>2. QED
  BY <1>1, LInvariance, PTL

\* A customer who paid at the first attempt never has a failed payment.
THEOREM PaidNeverFails == Spec => []PaidNotFailed
<1>1. IInv /\ LInv => PaidNotFailed
  BY PaidNotFailedFollows DEF LInv
<1>2. QED
  BY <1>1, LInvariance, PTL

\* An event delivered any number of times, to any number of requests at once,
\* leaves at most one row in the log of its payment.
THEOREM EventsApplyOnce == Spec => []AppliedOnce
<1>1. IInv /\ LInv => AppliedOnce
  BY DEF LInv
<1>2. QED
  BY <1>1, LInvariance, PTL

\* What webhook_events says of a processed event is what the log shows.
THEOREM OutcomesAreTrue == Spec => []OutcomeIsTruthful
<1>1. IInv /\ LInv => OutcomeIsTruthful
  BY DEF LInv
<1>2. QED
  BY <1>1, LInvariance, PTL

\* Two statements that read and write the lifecycle never take the thread off
\* its grammar, whatever other components do to it in between.
THEOREM LifecycleIsLegal == Spec => LifecycleFollowsGrammar
<1>1. IInv /\ LInv /\ [Next]_vars => [canTransitionLifecycle(lifecycle, lifecycle')]_lifecycle
  BY LifecycleStep DEF LInv
<1>2. QED
  BY <1>1, LInvariance, PTL DEF Spec, LifecycleFollowsGrammar

\* The payment service implements the abstract ledger: its requests, locks,
\* transactions, retries and crashes are invisible in the moves of payments,
\* the events recorded on them and the confirmation of their orders.
THEOREM ImplementsLedger == Spec => LedgerSpec
<1>1. Init => Ledger!Init
  BY LedgerInit
<1>2. IInv /\ LInv /\ [Next]_vars => [Ledger!Next]_(Ledger!ledger)
  BY LedgerStep DEF LInv
<1>3. QED
  BY <1>1, <1>2, LInvariance, PTL DEF Spec, LedgerSpec, Ledger!Spec

\* An event is in the hands of one worker at most, from its claim to its mark.
THEOREM OneHandlerPerEvent ==
  Spec => [](\A v, w \in Workers :
               pc[v] \in Claimed /\ pc[w] \in Claimed /\ ev[v] = ev[w] => v = w)
<1>1. IInv /\ LInv => \A v, w \in Workers :
         pc[v] \in Claimed /\ pc[w] \in Claimed /\ ev[v] = ev[w] => v = w
  BY DEF LInv, ClaimInv
<1>2. QED
  BY <1>1, LInvariance, PTL

\* The handlers' own look for an earlier row of the event (hasProcessedStripeEvent)
\* never finds one: the claim on webhook_events alone keeps events apart.
THEOREM ClaimSuffices ==
  Spec => [](\A w \in Workers : pc[w] = "check" =>
                ~hasProcessedStripeEvent(ev[w].payment, ev[w]))
<1>1. ASSUME IInv, LInv, NEW w \in Workers, pc[w] = "check"
      PROVE  ~hasProcessedStripeEvent(ev[w].payment, ev[w])
  <2>1. ev[w].payment \in Payments
    BY <1>1, SessionEventPayment DEF IInv, WorkerInv, Deciding
  <2>2. events[ev[w].payment] \in Seq(Rows)
    BY <1>1, <2>1 DEF IInv, TypeOK
  <2>3. RowsOf(ev[w].payment, ev[w]) = {}
    BY <1>1, <2>1 DEF LInv, RowsInv, Unwritten, Deciding
  <2>4. QED
    BY <2>2, <2>3, LogGrows DEF RowsOf, hasProcessedStripeEvent
<1>2. IInv /\ LInv => \A w \in Workers : pc[w] = "check" =>
                         ~hasProcessedStripeEvent(ev[w].payment, ev[w])
  BY <1>1
<1>3. QED
  BY <1>2, LInvariance, PTL
=============================================================================
