--------------------------- MODULE PaymentsProofs ---------------------------
(***************************************************************************)
(* Proofs about Payments, for any number of payments, orders and webhook   *)
(* requests and any number of failing calls and crashes.                   *)
(***************************************************************************)
EXTENDS Payments, TLAPS

-----------------------------------------------------------------------------
(* The inductive invariant, by the part of the state it relates.           *)

\* Program points at which a worker holds a payment and its status.
Deciding == {"check", "audit", "swap", "readOrder", "updateOrder", "commit"}
\* Program points inside the handler's transaction, after the row is locked.
InTx == {"readOrder", "updateOrder", "commit"}

\* A payment exists once its request has run its first transaction, and has a
\* session only after that.
CreationInv ==
    \A p \in Payments :
        /\ ipc[p] = "new" <=> status[p] = NoStatus
        /\ session[p] # "none" => ipc[p] \notin {"new", "session"}
        /\ p \in declined => session[p] # "none"

\* A busy worker has an event that Stripe emitted; one that looked its payment
\* up has an event of an existing payment and a real status.
WorkerInv ==
    \A w \in Workers :
        /\ pc[w] # "idle" => ev[w] \in Emitted
        /\ pc[w] \in Deciding \union {"lifeRead", "lifeSwap"} =>
             ev[w] \in SessionEvents
        /\ pc[w] \in Deciding => snap[w] \in PaymentStatuses

\* A transaction holds the lock of its payment, whose status is therefore
\* still the one that was read, and the move is legal.
LockInv ==
    /\ \A w \in Workers :
         /\ pc[w] \in InTx =>
              /\ payLock[ev[w].payment] = w
              /\ status[ev[w].payment] = snap[w]
         /\ pc[w] \in InTx \union {"swap"} => canTransition(snap[w], Target(ev[w]))
         /\ pc[w] \in {"readOrder", "updateOrder"} => isSuccess(ev[w])
    /\ \A p \in Payments : payLock[p] # Free =>
         /\ pc[payLock[p]] \in InTx
         /\ ev[payLock[p]].payment = p

\* The lock of an order is held by a transaction that is about to commit the
\* confirmation of one of its payments; a transaction that commits such a
\* confirmation without it has found the order confirmed.
OrderInv ==
    /\ \A o \in Orders : ordLock[o] # Free =>
         /\ pc[ordLock[o]] = "commit"
         /\ isSuccess(ev[ordLock[o]])
         /\ OrderOf[ev[ordLock[o]].payment] = o
    /\ \A w \in Workers :
         pc[w] = "commit" /\ isSuccess(ev[w]) =>
            \/ ordLock[OrderOf[ev[w].payment]] = w
            \/ orderStatus[OrderOf[ev[w].payment]] = "CONFIRMED"

IInv == TypeOK /\ CreationInv /\ WorkerInv /\ LockInv /\ OrderInv
             /\ OrderFollowsPayment

-----------------------------------------------------------------------------
(* Facts about the pure operators.                                         *)

\* An event of a session names the payment of the session.
LEMMA SessionEventPayment ==
  ASSUME NEW e \in SessionEvents
  PROVE  e.payment \in Payments /\ e.type \in SessionTypes
BY DEF SessionEvents, StripeEvent

\* Whatever Stripe has emitted is an event of one of our sessions or a stray
\* one, and a session that emitted an event has been opened.
LEMMA EmittedEvent ==
  ASSUME TypeOK, NEW e \in Emitted
  PROVE  e \in Events /\ (e \in SessionEvents \/ e \in StrayEvents)
<1>1. CASE e \in StrayEvents
  BY <1>1 DEF Events
<1>2. CASE \E p \in Payments, t \in SessionTypes : e = StripeEvent(p, t)
  BY <1>2 DEF Events, SessionEvents
<1>3. QED
  BY <1>1, <1>2 DEF Emitted, SessionTypes, TypeOK

\* The handlers aim at two statuses only, and reach CONFIRMED by a success.
LEMMA TargetStatus ==
  ASSUME NEW e
  PROVE  /\ Target(e) \in {"CONFIRMED", "FAILED"}
         /\ Target(e) = "CONFIRMED" <=> isSuccess(e)
BY DEF Target

\* Nothing leads from CONFIRMED to one of these two.
LEMMA ConfirmedIsLeftByRefundOnly ==
  ASSUME NEW s, NEW t \in {"CONFIRMED", "FAILED"}, canTransition(s, t)
  PROVE  s \in PaymentStatuses /\ s # "CONFIRMED"
BY DEF canTransition, CommonTransitions, PaymentStatuses

\* Appending a row keeps the log of a payment well formed.
LEMMA AppendRow ==
  ASSUME events \in [Payments -> Seq(Rows)], NEW p \in Payments, NEW r \in Rows
  PROVE  [events EXCEPT ![p] = Append(@, r)] \in [Payments -> Seq(Rows)]
<1>1. Append(events[p], r) \in Seq(Rows)
  OBVIOUS
<1>2. QED BY <1>1

LEMMA LifecycleNames ==
  {"PAYMENT_INITIATED", "PAYMENT_CONFIRMED", "ORDER_PLACED"} \subseteq LifecycleStatuses
BY DEF LifecycleStatuses, AnyNonTerminal

-----------------------------------------------------------------------------
(* What the steps of a process leave alone.                                *)

\* The steps of a worker outside its transaction and its decision.
Quiet(w) ==
    \/ Claim(w) \/ ClaimDuplicate(w) \/ Ignore(w) \/ LoadPayment(w) \/ Audit(w)
    \/ SwapConflict(w) \/ WorkerLifecycleDropped(w) \/ WorkerLifecycleRead(w)
    \/ WorkerLifecycleSwap(w) \/ markProcessed(w) \/ markFailed(w)
    \/ ErrorSwallowed(w)
    \/ \E e \in Events : Receive(w, e)

LEMMA QuietFrame ==
  ASSUME NEW w \in Workers, Quiet(w), TypeOK
  PROVE  /\ UNCHANGED <<status, orderStatus, locks, initiator, session, declined>>
         /\ pc[w] \notin InTx
         /\ \E l \in WorkerPCs \ (InTx \union {"swap"}) : pc' = [pc EXCEPT ![w] = l]
         /\ \A v \in Workers \ {w} : ev'[v] = ev[v] /\ snap'[v] = snap[v]
<1> USE DEF tables, locks, stripe, initiator, budgets, Goto, Return, InTx, WorkerPCs, TypeOK
<1>1. CASE Claim(w)                  BY <1>1 DEF Claim
<1>2. CASE ClaimDuplicate(w)         BY <1>2 DEF ClaimDuplicate
<1>3. CASE Ignore(w)                 BY <1>3 DEF Ignore, Finish
<1>4. CASE LoadPayment(w)            BY <1>4 DEF LoadPayment
<1>5. CASE Audit(w)                  BY <1>5 DEF Audit
<1>6. CASE SwapConflict(w)           BY <1>6 DEF SwapConflict
<1>7. CASE WorkerLifecycleDropped(w) BY <1>7 DEF WorkerLifecycleDropped
<1>8. CASE WorkerLifecycleRead(w)    BY <1>8 DEF WorkerLifecycleRead
<1>9. CASE WorkerLifecycleSwap(w)    BY <1>9 DEF WorkerLifecycleSwap, LifecycleSwap
<1>10. CASE markProcessed(w)         BY <1>10 DEF markProcessed
<1>11. CASE markFailed(w)            BY <1>11 DEF markFailed
<1>12. CASE ErrorSwallowed(w)        BY <1>12 DEF ErrorSwallowed
<1>13. ASSUME NEW e \in Events, Receive(w, e)
       PROVE  /\ UNCHANGED <<status, orderStatus, locks, initiator, session, declined>>
              /\ pc[w] \notin InTx
              /\ \E l \in WorkerPCs \ (InTx \union {"swap"}) : pc' = [pc EXCEPT ![w] = l]
              /\ \A v \in Workers \ {w} : ev'[v] = ev[v] /\ snap'[v] = snap[v]
  BY <1>13 DEF Receive
<1>14. QED
  BY <1>1, <1>2, <1>3, <1>4, <1>5, <1>6, <1>7, <1>8, <1>9, <1>10, <1>11,
     <1>12, <1>13 DEF Quiet

\* An initiator changes no other payment, and its own only by creating it or
\* by failing it while no transaction holds it.
LEMMA InitiatorFrame ==
  ASSUME NEW p \in Payments, Initiator(p) \/ InitiatorThrows(p), TypeOK
  PROVE  /\ UNCHANGED <<orderStatus, locks, handler, declined>>
         /\ \/ UNCHANGED status
            \/ /\ ipc[p] = "new"
               /\ \E s \in {"INITIATED", "AWAITING_SCREENSHOT"} :
                    status' = [status EXCEPT ![p] = s]
            \/ /\ payLock[p] = Free /\ status[p] = "INITIATED"
               /\ status' = [status EXCEPT ![p] = "FAILED"]
<1> USE DEF tables, locks, stripe, handler, budgets
<1>1. CASE InitiateStripe(p) \/ InitiateWire(p)
  BY <1>1 DEF InitiateStripe, InitiateWire, CreatePayment,
              InitialStatusForMethod, PaymentMethods
<1>2. CASE OpenSession(p)            BY <1>2 DEF OpenSession
<1>3. CASE SessionThrows(p)          BY <1>3 DEF SessionThrows
<1>4. CASE FailInitiation(p)         BY <1>4 DEF FailInitiation, TransitionWithinTx
<1>5. CASE FailInitiationConflict(p) BY <1>5 DEF FailInitiationConflict
<1>6. CASE RecordSession(p)          BY <1>6 DEF RecordSession
<1>7. CASE NoteSession(p)            BY <1>7 DEF NoteSession
<1>8. CASE InitiatorLifecycleDropped(p) BY <1>8 DEF InitiatorLifecycleDropped
<1>9. CASE InitiatorLifecycleRead(p) BY <1>9 DEF InitiatorLifecycleRead
<1>10. CASE InitiatorLifecycleSwap(p)
  BY <1>10 DEF InitiatorLifecycleSwap, LifecycleSwap
<1>11. CASE InitiatorThrows(p)       BY <1>11 DEF InitiatorThrows
<1>12. QED
  BY <1>1, <1>2, <1>3, <1>4, <1>5, <1>6, <1>7, <1>8, <1>9, <1>10, <1>11
     DEF Initiator

\* The environment changes no row, no lock and no handler.
External(p) == CustomerPays(p) \/ CardDeclined(p) \/ SessionExpires(p)

LEMMA ExternalFrame ==
  ASSUME NEW p \in Payments, External(p)
  PROVE  UNCHANGED <<status, orderStatus, locks, handler, initiator>>
BY DEF External, CustomerPays, CardDeclined, SessionExpires, tables, locks,
       handler, initiator

-----------------------------------------------------------------------------
(* The row locks: status changes only under the lock of the payment.       *)

\* A transaction has locked an existing payment.
LEMMA InTxHolds ==
  ASSUME IInv, NEW w \in Workers, pc[w] \in InTx
  PROVE  /\ ev[w].payment \in Payments
         /\ payLock[ev[w].payment] = w
         /\ status[ev[w].payment] = snap[w]
         /\ snap[w] \in PaymentStatuses
         /\ canTransition(snap[w], Target(ev[w]))
BY SessionEventPayment DEF IInv, WorkerInv, LockInv, InTx, Deciding

\* A step of w after which w is in no transaction, whether it was before or
\* not: its locks are gone, and it wrote nothing that another one has locked.
LEMMA LockLeft ==
  ASSUME IInv, NEW w \in Workers,
         \A v \in Workers \ {w} : pc'[v] = pc[v] /\ ev'[v] = ev[v] /\ snap'[v] = snap[v],
         pc'[w] \notin InTx,
         pc'[w] = "swap" => canTransition(snap'[w], Target(ev'[w])),
         \A p \in Payments : payLock'[p] = IF payLock[p] = w THEN Free ELSE payLock[p],
         \A p \in Payments : status'[p] # status[p] => payLock[p] \in {w, Free}
  PROVE  LockInv'
<1>1. \A v \in Workers \ {w} : pc[v] \in InTx =>
        /\ ev[v].payment \in Payments
        /\ payLock[ev[v].payment] = v
        /\ status[ev[v].payment] = snap[v]
  BY InTxHolds
<1>2. \A p \in Payments : payLock[p] \in Workers \union {Free}
  BY DEF IInv, TypeOK
<1>3. ASSUME NEW v \in Workers
      PROVE  /\ pc'[v] \in InTx => /\ payLock'[ev'[v].payment] = v
                                   /\ status'[ev'[v].payment] = snap'[v]
             /\ pc'[v] \in InTx \union {"swap"} => canTransition(snap'[v], Target(ev'[v]))
             /\ pc'[v] \in {"readOrder", "updateOrder"} => isSuccess(ev'[v])
  <2>1. CASE v = w
    BY <2>1 DEF InTx
  <2>2. CASE v # w
    <3>1. pc'[v] = pc[v] /\ ev'[v] = ev[v] /\ snap'[v] = snap[v]
      BY <2>2
    <3>2. pc[v] \in InTx => /\ payLock'[ev[v].payment] = v
                            /\ status'[ev[v].payment] = snap[v]
      BY <1>1, <2>2, ConstantsAssumption
    <3>3. QED
      BY <3>1, <3>2 DEF IInv, LockInv
  <2>3. QED BY <2>1, <2>2
<1>4. ASSUME NEW p \in Payments, payLock'[p] # Free
      PROVE  pc'[payLock'[p]] \in InTx /\ ev'[payLock'[p]].payment = p
  BY <1>4, <1>2 DEF IInv, LockInv
<1>5. QED
  BY <1>3, <1>4 DEF LockInv

LEMMA LockStep ==
  ASSUME IInv, [Next]_vars
  PROVE  LockInv'
<1>0. TypeOK /\ CreationInv /\ WorkerInv /\ LockInv
  BY DEF IInv
<1>1. ASSUME NEW p \in Payments, Initiator(p) \/ InitiatorThrows(p)
      PROVE  LockInv'
  <2>1. /\ UNCHANGED <<locks, handler>>
        /\ \A q \in Payments : status'[q] # status[q] =>
             payLock[q] = Free \/ status[q] = NoStatus
    BY <1>0, <1>1, InitiatorFrame, ZenonT(60) DEF CreationInv, TypeOK
  <2>2. \A w \in Workers : pc[w] \in InTx =>
          /\ ev[w].payment \in Payments
          /\ payLock[ev[w].payment] # Free
          /\ status[ev[w].payment] # NoStatus
    BY InTxHolds, ConstantsAssumption DEF PaymentStatuses, NoStatus
  <2>3. QED
    BY <1>0, <2>1, <2>2 DEF LockInv, TypeOK, locks, handler
<1>2. ASSUME NEW p \in Payments, External(p)
      PROVE  LockInv'
  BY <1>0, <1>2, ExternalFrame DEF LockInv, locks, handler
<1>3. ASSUME NEW w \in Workers, Quiet(w)
      PROVE  LockInv'
  <2>1. \A p \in Payments : payLock[p] # w
    BY <1>0, <1>3, QuietFrame, ConstantsAssumption DEF LockInv
  <2>2. /\ \A v \in Workers \ {w} : pc'[v] = pc[v] /\ ev'[v] = ev[v] /\ snap'[v] = snap[v]
        /\ pc'[w] \notin InTx \union {"swap"}
    BY <1>0, <1>3, QuietFrame, ZenonT(60) DEF TypeOK
  <2>3. UNCHANGED <<payLock, status>>
    BY <1>0, <1>3, QuietFrame DEF locks
  <2>4. QED
    BY <2>3, <2>2, <2>1, LockLeft
<1>4. ASSUME NEW w \in Workers, Decide(w)
      PROVE  LockInv'
  <2>1. /\ \A v \in Workers \ {w} : pc'[v] = pc[v]
        /\ pc'[w] \notin InTx
        /\ pc'[w] = "swap" => canTransition(snap[w], Target(ev[w]))
        /\ UNCHANGED <<ev, snap, payLock, status>>
    BY <1>0, <1>4 DEF Decide, Goto, tables, locks, InTx, TypeOK
  <2>2. \A p \in Payments : payLock[p] # w
    BY <1>0, <1>4, ConstantsAssumption DEF Decide, InTx, LockInv
  <2>3. QED
    BY <2>1, <2>2, LockLeft
<1>5. ASSUME NEW w \in Workers, Swap(w)
      PROVE  LockInv'
  <2>1. ev[w].payment \in Payments
    BY <1>0, <1>5, SessionEventPayment DEF Swap, WorkerInv, Deciding
  <2>2. QED
    BY <1>0, <1>5, <2>1, ConstantsAssumption DEF LockInv, TypeOK, Swap, Goto, tables, InTx
<1>6. ASSUME NEW w \in Workers, ReadOrder(w)
      PROVE  LockInv'
  BY <1>0, <1>6 DEF LockInv, TypeOK, ReadOrder, Goto, tables, locks, InTx
<1>7. ASSUME NEW w \in Workers, UpdateOrder(w)
      PROVE  LockInv'
  BY <1>0, <1>7 DEF LockInv, TypeOK, UpdateOrder, Goto, tables, InTx
<1>8. ASSUME NEW w \in Workers, Commit(w)
      PROVE  LockInv'
  <2>1. ev[w].payment \in Payments /\ payLock[ev[w].payment] = w
    BY <1>8, InTxHolds DEF Commit, InTx
  <2>2. /\ \A v \in Workers \ {w} : pc'[v] = pc[v]
        /\ pc'[w] \notin InTx \union {"swap"}
        /\ UNCHANGED <<ev, snap>>
    BY <1>0, <1>8 DEF Commit, Goto, InTx, TypeOK
  <2>3. \A p \in Payments :
          /\ payLock'[p] = IF payLock[p] = w THEN Free ELSE payLock[p]
          /\ status'[p] # status[p] => payLock[p] = w
    BY <1>0, <1>8, <2>1 DEF Commit, Release, TypeOK
  <2>4. QED
    BY <2>2, <2>3, LockLeft
<1>9. ASSUME NEW w \in Workers, HandlerThrows(w)
      PROVE  LockInv'
  <2>1. /\ \A v \in Workers \ {w} : pc'[v] = pc[v]
        /\ pc'[w] \notin InTx \union {"swap"}
        /\ UNCHANGED <<ev, snap, status>>
        /\ \A p \in Payments :
             payLock'[p] = IF payLock[p] = w THEN Free ELSE payLock[p]
    BY <1>0, <1>9 DEF HandlerThrows, Release, Goto, tables, InTx, TypeOK
  <2>2. QED
    BY <2>1, LockLeft
<1>10. ASSUME NEW s \in OtherMoves, OtherLifecycleMove(s)
       PROVE  LockInv'
  BY <1>0, <1>10 DEF LockInv, OtherLifecycleMove, locks, handler
<1>11. CASE Crash
  BY <1>11 DEF LockInv, Crash, InTx
<1>12. CASE UNCHANGED vars
  BY <1>0, <1>12 DEF LockInv, vars, tables, locks, handler
<1>13. QED
  BY <1>1, <1>2, <1>3, <1>4, <1>5, <1>6, <1>7, <1>8, <1>9, <1>10, <1>11, <1>12
     DEF Next, HandlerStep, Quiet, External

\* A step of w that leaves it outside "commit" and without its order lock.
LEMMA OrderLeft ==
  ASSUME IInv, NEW w \in Workers,
         \A v \in Workers \ {w} : pc'[v] = pc[v] /\ ev'[v] = ev[v],
         pc'[w] # "commit",
         \A o \in Orders : ordLock'[o] = IF ordLock[o] = w THEN Free ELSE ordLock[o],
         \A o \in Orders : orderStatus'[o] \in {"CONFIRMED", orderStatus[o]}
  PROVE  OrderInv'
<1>1. ASSUME NEW o \in Orders, ordLock'[o] # Free
      PROVE  /\ pc'[ordLock'[o]] = "commit"
             /\ isSuccess(ev'[ordLock'[o]])
             /\ OrderOf[ev'[ordLock'[o]].payment] = o
  <2>1. ordLock'[o] = ordLock[o] /\ ordLock[o] \in Workers \ {w}
    BY <1>1 DEF IInv, TypeOK
  <2>2. QED
    BY <1>1, <2>1 DEF IInv, OrderInv
<1>2. ASSUME NEW v \in Workers, pc'[v] = "commit", isSuccess(ev'[v])
      PROVE  \/ ordLock'[OrderOf[ev'[v].payment]] = v
             \/ orderStatus'[OrderOf[ev'[v].payment]] = "CONFIRMED"
  <2>1. v # w /\ pc[v] = "commit" /\ ev'[v] = ev[v]
    BY <1>2
  <2>2. OrderOf[ev[v].payment] \in Orders
    BY <2>1, InTxHolds, ConstantsAssumption DEF InTx
  <2>3. \/ ordLock[OrderOf[ev[v].payment]] = v
        \/ orderStatus[OrderOf[ev[v].payment]] = "CONFIRMED"
    BY <1>2, <2>1 DEF IInv, OrderInv
  <2>4. QED
    BY <2>1, <2>2, <2>3
<1>3. QED
  BY <1>1, <1>2 DEF OrderInv

\* The lock of the order, and what a confirming transaction knows of it.
LEMMA OrderStep ==
  ASSUME IInv, [Next]_vars
  PROVE  OrderInv'
<1>0. TypeOK /\ WorkerInv /\ LockInv /\ OrderInv
  BY DEF IInv
<1>1. ASSUME NEW p \in Payments, Initiator(p) \/ InitiatorThrows(p)
      PROVE  OrderInv'
  BY <1>0, <1>1, InitiatorFrame DEF OrderInv, locks, handler
<1>2. ASSUME NEW p \in Payments, External(p)
      PROVE  OrderInv'
  BY <1>0, <1>2, ExternalFrame DEF OrderInv, locks, handler
<1>3. ASSUME NEW w \in Workers, Quiet(w)
      PROVE  OrderInv'
  <2>1. /\ \A v \in Workers \ {w} : pc'[v] = pc[v] /\ ev'[v] = ev[v]
        /\ pc'[w] # "commit"
        /\ UNCHANGED <<ordLock, orderStatus>>
    BY <1>0, <1>3, QuietFrame, ZenonT(60) DEF locks, InTx, TypeOK
  <2>2. \A o \in Orders : ordLock[o] # w
    BY <1>0, <1>3, QuietFrame, ConstantsAssumption DEF InTx, OrderInv
  <2>3. QED
    BY <2>1, <2>2, OrderLeft
<1>4. ASSUME NEW w \in Workers, Decide(w)
      PROVE  OrderInv'
  BY <1>0, <1>4 DEF OrderInv, TypeOK, Decide, Goto, tables, locks
<1>5. ASSUME NEW w \in Workers, Swap(w)
      PROVE  OrderInv'
  BY <1>0, <1>5 DEF OrderInv, TypeOK, Swap, Goto, tables
<1>6. ASSUME NEW w \in Workers, ReadOrder(w)
      PROVE  OrderInv'
  <2>1. OrderOf[ev[w].payment] \in Orders
    BY <1>0, <1>6, SessionEventPayment, ConstantsAssumption
       DEF ReadOrder, WorkerInv, Deciding
  <2>2. QED
    BY <1>0, <1>6, <2>1 DEF OrderInv, TypeOK, ReadOrder, Goto, tables, locks
<1>7. ASSUME NEW w \in Workers, UpdateOrder(w)
      PROVE  OrderInv'
  <2>1. OrderOf[ev[w].payment] \in Orders /\ isSuccess(ev[w])
    BY <1>0, <1>7, SessionEventPayment, ConstantsAssumption
       DEF UpdateOrder, WorkerInv, LockInv, Deciding
  <2>2. QED
    BY <1>0, <1>7, <2>1, ConstantsAssumption
       DEF OrderInv, TypeOK, UpdateOrder, Goto, tables
<1>8. ASSUME NEW w \in Workers, Commit(w)
      PROVE  OrderInv'
  <2>1. /\ \A v \in Workers \ {w} : pc'[v] = pc[v]
        /\ pc'[w] # "commit" /\ ev' = ev
    BY <1>0, <1>8 DEF Commit, Goto, TypeOK
  <2>2. \A o \in Orders :
          /\ ordLock'[o] = IF ordLock[o] = w THEN Free ELSE ordLock[o]
          /\ orderStatus'[o] \in {"CONFIRMED", orderStatus[o]}
    BY <1>0, <1>8 DEF Commit, Release, TypeOK
  <2>3. QED
    BY <2>1, <2>2, OrderLeft
<1>9. ASSUME NEW w \in Workers, HandlerThrows(w)
      PROVE  OrderInv'
  <2>1. /\ \A v \in Workers \ {w} : pc'[v] = pc[v]
        /\ pc'[w] # "commit"
        /\ UNCHANGED <<ev, orderStatus>>
        /\ \A o \in Orders :
             ordLock'[o] = IF ordLock[o] = w THEN Free ELSE ordLock[o]
    BY <1>0, <1>9 DEF TypeOK, HandlerThrows, Release, Goto, tables
  <2>2. QED
    BY <2>1, OrderLeft
<1>10. ASSUME NEW s \in OtherMoves, OtherLifecycleMove(s)
       PROVE  OrderInv'
  BY <1>0, <1>10 DEF OrderInv, OtherLifecycleMove, locks, handler
<1>11. CASE Crash
  BY <1>0, <1>11 DEF OrderInv, Crash, tables
<1>12. CASE UNCHANGED vars
  BY <1>0, <1>12 DEF OrderInv, vars, tables, locks, handler
<1>13. QED
  BY <1>1, <1>2, <1>3, <1>4, <1>5, <1>6, <1>7, <1>8, <1>9, <1>10, <1>11, <1>12
     DEF Next, HandlerStep, Quiet, External
-----------------------------------------------------------------------------
(* Type correctness.                                                       *)

\* The rows that the steps append are rows.
LEMMA RowType ==
  ASSUME NEW s \in PaymentStatuses \union {NoStatus}, NEW t \in PaymentStatuses,
         NEW e \in Events \union {NoEvent}
  PROVE  Row(s, t, e) \in Rows
BY DEF Row, Rows

\* The bound on failing calls is kept.
LEMMA ThrowCounted ==
  ASSUME throws \in 0..MaxThrows, throws < MaxThrows
  PROVE  throws + 1 \in 0..MaxThrows
BY ConstantsAssumption

LEMMA TypeStep ==
  ASSUME IInv, [Next]_vars
  PROVE  TypeOK'
<1>0. TypeOK /\ WorkerInv
  BY DEF IInv
<1> USE DEF tables, locks, stripe, handler, initiator, budgets, TypeOK
<1>1. ASSUME NEW p \in Payments, NEW m \in PaymentMethods,
             NEW l \in {"session", "lifeRead"}, CreatePayment(p, m, l)
      PROVE  TypeOK'
  <2>1. InitialStatusForMethod[m] \in PaymentStatuses
    BY DEF InitialStatusForMethod, PaymentMethods, PaymentStatuses
  <2>2. events' \in [Payments -> Seq(Rows)]
    BY <1>0, <1>1, <2>1, AppendRow, RowType DEF CreatePayment
  <2>3. QED
    BY <1>0, <1>1, <2>1, <2>2 DEF CreatePayment, InitiatorPCs
<1>2. ASSUME NEW p \in Payments,
             OpenSession(p) \/ SessionThrows(p) \/ FailInitiationConflict(p)
               \/ InitiatorLifecycleDropped(p) \/ InitiatorThrows(p)
      PROVE  TypeOK'
  <2>1. CASE OpenSession(p)
    BY <1>0, <2>1 DEF OpenSession, InitiatorPCs
  <2>2. CASE SessionThrows(p)
    BY <1>0, <2>2 DEF SessionThrows, InitiatorPCs
  <2>3. CASE FailInitiationConflict(p)
    BY <1>0, <2>3 DEF FailInitiationConflict, InitiatorPCs
  <2>4. CASE InitiatorLifecycleDropped(p)
    BY <1>0, <2>4 DEF InitiatorLifecycleDropped, InitiatorPCs
  <2>5. CASE InitiatorThrows(p)
    BY <1>0, <2>5, ThrowCounted DEF InitiatorThrows, InitiatorPCs
  <2>6. QED
    BY <1>2, <2>1, <2>2, <2>3, <2>4, <2>5
<1>3. ASSUME NEW p \in Payments, FailInitiation(p)
      PROVE  TypeOK'
  <2>1. events' \in [Payments -> Seq(Rows)]
    BY <1>0, <1>3, AppendRow, RowType
       DEF FailInitiation, TransitionWithinTx, PaymentStatuses
  <2>2. QED
    BY <1>0, <1>3, <2>1
       DEF FailInitiation, TransitionWithinTx, PaymentStatuses, InitiatorPCs
<1>4. ASSUME NEW p \in Payments, RecordSession(p)
      PROVE  TypeOK'
  BY <1>0, <1>4 DEF RecordSession, InitiatorPCs
<1>5. ASSUME NEW p \in Payments, NoteSession(p)
      PROVE  TypeOK'
  <2>1. events' \in [Payments -> Seq(Rows)]
    BY <1>0, <1>5, AppendRow, RowType DEF NoteSession, PaymentStatuses
  <2>2. QED
    BY <1>0, <1>5, <2>1 DEF NoteSession, InitiatorPCs
<1>6. ASSUME NEW p \in Payments,
             InitiatorLifecycleRead(p) \/ InitiatorLifecycleSwap(p)
      PROVE  TypeOK'
  <2>1. CASE InitiatorLifecycleRead(p)
    BY <1>0, <2>1, LifecycleNames DEF InitiatorLifecycleRead, LifecycleRead, InitiatorPCs
  <2>2. CASE InitiatorLifecycleSwap(p)
    BY <1>0, <2>2, LifecycleNames DEF InitiatorLifecycleSwap, LifecycleSwap, InitiatorPCs
  <2>3. QED
    BY <1>6, <2>1, <2>2
<1>7. ASSUME NEW p \in Payments, External(p)
      PROVE  TypeOK'
  <2>1. CASE CustomerPays(p)
    BY <1>0, <2>1 DEF CustomerPays
  <2>2. CASE CardDeclined(p)
    BY <1>0, <2>2 DEF CardDeclined
  <2>3. CASE SessionExpires(p)
    BY <1>0, <2>3 DEF SessionExpires
  <2>4. QED
    BY <1>7, <2>1, <2>2, <2>3 DEF External
<1>8. ASSUME NEW w \in Workers, NEW e \in Events, Receive(w, e)
      PROVE  TypeOK'
  BY <1>0, <1>8 DEF Receive, Goto, WorkerPCs
<1>9. ASSUME NEW w \in Workers, Claim(w) \/ markProcessed(w) \/ markFailed(w)
      PROVE  TypeOK'
  <2>1. CASE Claim(w)
    BY <1>0, <2>1 DEF Claim, WebhookRow, Goto, WorkerPCs
  <2>2. CASE markProcessed(w)
    BY <1>0, <2>2 DEF markProcessed, WebhookRow, Return, WorkerPCs
  <2>3. CASE markFailed(w)
    BY <1>0, <2>3 DEF markFailed, WebhookRow, Return, WorkerPCs
  <2>4. QED
    BY <1>9, <2>1, <2>2, <2>3
<1>10. ASSUME NEW w \in Workers,
              ClaimDuplicate(w) \/ SwapConflict(w) \/ ErrorSwallowed(w)
                \/ WorkerLifecycleDropped(w)
       PROVE  TypeOK'
  <2>1. CASE ClaimDuplicate(w)
    BY <1>0, <2>1 DEF ClaimDuplicate, Return, WorkerPCs
  <2>2. CASE SwapConflict(w)
    BY <1>0, <2>2 DEF SwapConflict, Goto, WorkerPCs
  <2>3. CASE ErrorSwallowed(w)
    BY <1>0, <2>3, ThrowCounted DEF ErrorSwallowed, Return, WorkerPCs
  <2>4. CASE WorkerLifecycleDropped(w)
    BY <1>0, <2>4 DEF WorkerLifecycleDropped, Goto, WorkerPCs
  <2>5. QED
    BY <1>10, <2>1, <2>2, <2>3, <2>4
<1>11. ASSUME NEW w \in Workers, Ignore(w)
       PROVE  TypeOK'
  BY <1>0, <1>11, ZenonT(60) DEF Ignore, Finish, Goto, WorkerPCs, Outcomes
<1>12. ASSUME NEW w \in Workers, LoadPayment(w)
       PROVE  TypeOK'
  <2>1. ev[w] \in Emitted
    BY <1>0, <1>12 DEF WorkerInv, LoadPayment
  <2>2. ev[w].payment \in Payments
    BY <1>0, <1>12, <2>1, EmittedEvent, SessionEventPayment, ConstantsAssumption
       DEF LoadPayment
  <2>3. QED
    BY <1>0, <1>12, <2>2 DEF LoadPayment, Goto, WorkerPCs
<1>13. ASSUME NEW w \in Workers, Decide(w)
       PROVE  TypeOK'
  <2>1. \A e, s : NoOpOutcome(e, s) \in Outcomes
    BY DEF NoOpOutcome, Outcomes
  <2>2. QED
    <3>1. \E l \in WorkerPCs : pc' = [pc EXCEPT ![w] = l]
      BY <1>13 DEF Decide, Goto, WorkerPCs
    <3>2. \/ UNCHANGED outcome
          \/ \E o \in Outcomes : outcome' = [outcome EXCEPT ![w] = o]
      BY <1>13, <2>1 DEF Decide, Outcomes
    <3>3. pc' \in [Workers -> WorkerPCs] /\ outcome' \in [Workers -> Outcomes \union {NoOutcome}]
      BY <1>0, <3>1, <3>2, ZenonT(60)
    <3>4. UNCHANGED <<tables, locks, stripe, ev, snap, initiator, lifeSeen, budgets>>
      BY <1>13, Zenon DEF Decide
    <3>5. QED
      BY <1>0, <3>3, <3>4 DEF tables, locks, stripe, initiator, budgets
<1>14. ASSUME NEW w \in Workers, Audit(w)
       PROVE  TypeOK'
  <2>1. ev[w].payment \in Payments /\ ev[w] \in Events /\ snap[w] \in PaymentStatuses
    BY <1>0, <1>14, SessionEventPayment DEF Audit, WorkerInv, Deciding, Events
  <2>2. events' \in [Payments -> Seq(Rows)]
    BY <1>0, <1>14, <2>1, AppendRow, RowType DEF Audit
  <2>3. QED
    BY <1>0, <1>14, <2>2 DEF Audit, Goto, WorkerPCs
<1>15. ASSUME NEW w \in Workers, Swap(w) \/ ReadOrder(w) \/ UpdateOrder(w)
       PROVE  TypeOK'
  <2>1. CASE Swap(w)
    BY <1>0, <2>1 DEF Swap, Goto, WorkerPCs
  <2>2. CASE ReadOrder(w)
    BY <1>0, <2>2 DEF ReadOrder, Goto, WorkerPCs
  <2>3. CASE UpdateOrder(w)
    BY <1>0, <2>3 DEF UpdateOrder, Goto, WorkerPCs
  <2>4. QED
    BY <1>15, <2>1, <2>2, <2>3
<1>16. ASSUME NEW w \in Workers, Commit(w)
       PROVE  TypeOK'
  <2>1. ev[w].payment \in Payments /\ ev[w] \in Events /\ snap[w] \in PaymentStatuses
    BY <1>0, <1>16, SessionEventPayment DEF Commit, WorkerInv, Deciding, Events
  <2>2. Target(ev[w]) \in PaymentStatuses
    BY TargetStatus DEF PaymentStatuses
  <2>3. events' \in [Payments -> Seq(Rows)]
    BY <1>0, <1>16, <2>1, <2>2, AppendRow, RowType DEF Commit
  <2>4. /\ status' \in [Payments -> PaymentStatuses \union {NoStatus}]
        /\ hasIntent' \in [Payments -> BOOLEAN]
        /\ orderStatus' \in [Orders -> {"PENDING", "CONFIRMED"}]
        /\ history' \in [Orders -> Nat]
        /\ payLock' \in [Payments -> Workers \union {Free}]
        /\ ordLock' \in [Orders -> Workers \union {Free}]
    <3>1. status' \in [Payments -> PaymentStatuses \union {NoStatus}]
      BY <1>0, <1>16, <2>2 DEF Commit
    <3>2. hasIntent' \in [Payments -> BOOLEAN]
      BY <1>0, <1>16 DEF Commit
    <3>3. orderStatus' \in [Orders -> {"PENDING", "CONFIRMED"}]
      BY <1>0, <1>16 DEF Commit
    <3>4. history' \in [Orders -> Nat]
      BY <1>0, <1>16 DEF Commit
    <3>5. /\ payLock' \in [Payments -> Workers \union {Free}]
          /\ ordLock' \in [Orders -> Workers \union {Free}]
      BY <1>0, <1>16 DEF Commit, Release
    <3>6. QED BY <3>1, <3>2, <3>3, <3>4, <3>5
  <2>5. /\ pc' \in [Workers -> WorkerPCs]
        /\ outcome' \in [Workers -> Outcomes \union {NoOutcome}]
    BY <1>0, <1>16 DEF Commit, Goto, WorkerPCs, Outcomes
  <2>6. QED
    BY <1>0, <1>16, <2>3, <2>4, <2>5 DEF Commit
<1>17. ASSUME NEW w \in Workers, WorkerLifecycleRead(w) \/ WorkerLifecycleSwap(w)
       PROVE  TypeOK'
  <2>1. CASE WorkerLifecycleRead(w)
    BY <1>0, <2>1, LifecycleNames DEF WorkerLifecycleRead, LifecycleRead, Goto, WorkerPCs
  <2>2. CASE WorkerLifecycleSwap(w)
    BY <1>0, <2>2, LifecycleNames DEF WorkerLifecycleSwap, LifecycleSwap, Goto, WorkerPCs
  <2>3. QED
    BY <1>17, <2>1, <2>2
<1>18. ASSUME NEW w \in Workers, HandlerThrows(w)
       PROVE  TypeOK'
  <2>1. /\ payLock' \in [Payments -> Workers \union {Free}]
        /\ ordLock' \in [Orders -> Workers \union {Free}]
    BY <1>0, <1>18 DEF HandlerThrows, Release
  <2>2. QED
    BY <1>0, <1>18, <2>1, ThrowCounted DEF HandlerThrows, Goto, WorkerPCs
<1>19. ASSUME NEW s \in OtherMoves, OtherLifecycleMove(s)
       PROVE  TypeOK'
  BY <1>0, <1>19, ConstantsAssumption DEF OtherLifecycleMove
<1>20. CASE Crash
  BY <1>0, <1>20, ConstantsAssumption DEF Crash, WorkerPCs, InitiatorPCs
<1>21. CASE UNCHANGED vars
  BY <1>0, <1>21 DEF vars
<1>22. ASSUME NEW p \in Payments, Initiator(p) \/ InitiatorThrows(p)
       PROVE  TypeOK'
  BY <1>22, <1>1, <1>2, <1>3, <1>4, <1>5, <1>6
     DEF Initiator, InitiateStripe, InitiateWire, PaymentMethods
<1>23. ASSUME NEW w \in Workers,
              HandlerStep(w) \/ HandlerThrows(w) \/ ErrorSwallowed(w)
       PROVE  TypeOK'
  BY <1>23, <1>9, <1>10, <1>11, <1>12, <1>13, <1>14, <1>15, <1>16, <1>17, <1>18
     DEF HandlerStep
<1>24. QED
  BY <1>7, <1>8, <1>19, <1>20, <1>21, <1>22, <1>23 DEF Next, External

-----------------------------------------------------------------------------
(* Payments, sessions and the events that workers hold.                    *)

\* The steps inside a handler's transaction and the decision before it.
Transact(w) ==
    \/ Decide(w) \/ Swap(w) \/ ReadOrder(w) \/ UpdateOrder(w) \/ Commit(w)
    \/ HandlerThrows(w)

\* They touch neither Stripe nor an initiator, nor the event of any worker.
LEMMA TransactFrame ==
  ASSUME NEW w \in Workers, Transact(w)
  PROVE  UNCHANGED <<ev, snap, stripe, initiator>>
BY DEF Transact, Decide, Swap, ReadOrder, UpdateOrder, Commit, HandlerThrows

\* Every worker step is of one of the two kinds.
LEMMA WorkerSteps ==
  ASSUME NEW w \in Workers,
         HandlerStep(w) \/ HandlerThrows(w) \/ ErrorSwallowed(w)
  PROVE  Quiet(w) \/ Transact(w)
BY DEF HandlerStep, Quiet, Transact

LEMMA CreationStep ==
  ASSUME IInv, [Next]_vars
  PROVE  CreationInv'
<1>0. TypeOK /\ CreationInv
  BY DEF IInv
<1>1. ASSUME NEW p \in Payments, Initiator(p) \/ InitiatorThrows(p)
      PROVE  CreationInv'
  <2>1. /\ \A q \in Payments \ {p} : UNCHANGED <<ipc[q], status[q], session[q]>>
        /\ UNCHANGED declined
        /\ ipc'[p] = "new" <=> status'[p] = NoStatus
        /\ session'[p] # "none" =>
             /\ session[p] # "none" \/ ipc[p] = "session"
             /\ ipc'[p] \notin {"new", "session"}
        /\ session[p] # "none" => session'[p] # "none"
    <3> USE DEF tables, stripe, TypeOK, CreationInv, NoStatus
    <3>1. CASE InitiateStripe(p) \/ InitiateWire(p)
      BY <1>0, <3>1 DEF InitiateStripe, InitiateWire, CreatePayment,
                        InitialStatusForMethod, PaymentMethods
    <3>2. CASE OpenSession(p)            BY <1>0, <3>2 DEF OpenSession
    <3>3. CASE SessionThrows(p)          BY <1>0, <3>3 DEF SessionThrows
    <3>4. CASE FailInitiation(p)
      BY <1>0, <3>4 DEF FailInitiation, TransitionWithinTx
    <3>5. CASE FailInitiationConflict(p) BY <1>0, <3>5 DEF FailInitiationConflict
    <3>6. CASE RecordSession(p)          BY <1>0, <3>6 DEF RecordSession
    <3>7. CASE NoteSession(p)            BY <1>0, <3>7 DEF NoteSession
    <3>8. CASE InitiatorLifecycleDropped(p)
      BY <1>0, <3>8 DEF InitiatorLifecycleDropped
    <3>9. CASE InitiatorLifecycleRead(p) BY <1>0, <3>9 DEF InitiatorLifecycleRead
    <3>10. CASE InitiatorLifecycleSwap(p)
      BY <1>0, <3>10 DEF InitiatorLifecycleSwap
    <3>11. CASE InitiatorThrows(p)       BY <1>0, <3>11 DEF InitiatorThrows
    <3>12. QED
      BY <1>1, <3>1, <3>2, <3>3, <3>4, <3>5, <3>6, <3>7, <3>8, <3>9, <3>10, <3>11
         DEF Initiator
  <2>2. QED
    BY <1>0, <2>1 DEF CreationInv
<1>2. ASSUME NEW p \in Payments, External(p)
      PROVE  CreationInv'
  <2>1. UNCHANGED <<ipc, status>>
    BY <1>2, ExternalFrame DEF initiator
  <2>2. /\ \A q \in Payments : session'[q] # "none" <=> session[q] # "none"
        /\ \A q \in declined' : q \in declined \/ session[q] # "none"
    BY <1>0, <1>2
       DEF TypeOK, External, CustomerPays, CardDeclined, SessionExpires, CanPay
  <2>3. QED
    BY <1>0, <2>1, <2>2 DEF CreationInv, TypeOK
<1>3. ASSUME NEW w \in Workers, Quiet(w)
      PROVE  CreationInv'
  BY <1>0, <1>3, QuietFrame DEF CreationInv, initiator
<1>4. ASSUME NEW w \in Workers, Transact(w)
      PROVE  CreationInv'
  <2>1. \A p \in Payments : status'[p] # NoStatus <=> status[p] # NoStatus
    <3>1. CASE Commit(w)
      <4>1. /\ ev[w].payment \in Payments
            /\ status[ev[w].payment] # NoStatus
        BY <3>1, InTxHolds DEF Commit, InTx, PaymentStatuses, NoStatus
      <4>2. Target(ev[w]) # NoStatus
        BY TargetStatus DEF NoStatus
      <4>3. status' = [status EXCEPT ![ev[w].payment] = Target(ev[w])]
        BY <3>1 DEF Commit
      <4>4. QED
        BY <1>0, <4>1, <4>2, <4>3 DEF TypeOK
    <3>2. CASE UNCHANGED status
      BY <3>2
    <3>3. QED
      BY <1>4, <3>1, <3>2 DEF Transact, Decide, Swap, ReadOrder, UpdateOrder,
                               HandlerThrows, tables
  <2>2. QED
    BY <1>0, <1>4, <2>1, TransactFrame DEF CreationInv, stripe, initiator
<1>5. ASSUME NEW s \in OtherMoves, OtherLifecycleMove(s)
      PROVE  CreationInv'
  BY <1>0, <1>5 DEF OtherLifecycleMove, CreationInv, stripe, initiator
<1>6. CASE Crash
  BY <1>0, <1>6 DEF Crash, CreationInv, tables, stripe
<1>7. CASE UNCHANGED vars
  BY <1>0, <1>7 DEF vars, CreationInv, tables, stripe, initiator
<1>8. QED
  BY <1>1, <1>2, <1>3, <1>4, <1>5, <1>6, <1>7, WorkerSteps
     DEF Next, External, Quiet

\* Stripe takes nothing back.
StripeKeeps ==
    /\ \A p \in Payments : session[p] \in {"complete", "expired"} =>
                           session'[p] = session[p]
    /\ declined \subseteq declined'

LEMMA StripeStep ==
  ASSUME IInv, [Next]_vars
  PROVE  StripeKeeps
<1>0. TypeOK /\ CreationInv
  BY DEF IInv
<1> USE DEF stripe, StripeKeeps
<1>1. ASSUME NEW p \in Payments, Initiator(p) \/ InitiatorThrows(p)
      PROVE  StripeKeeps
  <2> USE DEF TypeOK, CreationInv
  <2>1. CASE OpenSession(p)
    BY <1>0, <2>1 DEF OpenSession
  <2>2. CASE SessionThrows(p)
    BY <1>0, <2>2 DEF SessionThrows
  <2>3. CASE UNCHANGED stripe
    BY <2>3
  <2>4. QED
    BY <1>1, <2>1, <2>2, <2>3 DEF Initiator, InitiatorThrows, InitiateStripe,
       InitiateWire, CreatePayment, FailInitiation, FailInitiationConflict,
       RecordSession, NoteSession, InitiatorLifecycleDropped,
       InitiatorLifecycleRead, InitiatorLifecycleSwap
<1>2. ASSUME NEW p \in Payments, External(p)
      PROVE  StripeKeeps
  BY <1>0, <1>2
     DEF TypeOK, External, CustomerPays, CardDeclined, SessionExpires, CanPay
<1>3. ASSUME NEW w \in Workers, Quiet(w)
      PROVE  StripeKeeps
  BY <1>0, <1>3, QuietFrame
<1>4. ASSUME NEW w \in Workers, Transact(w)
      PROVE  StripeKeeps
  BY <1>4, TransactFrame
<1>5. CASE UNCHANGED stripe
  BY <1>5
<1>6. QED
  BY <1>1, <1>2, <1>3, <1>4, <1>5, WorkerSteps
     DEF Next, External, Quiet, OtherLifecycleMove, Crash, vars

LEMMA EmittedGrows ==
  ASSUME IInv, [Next]_vars
  PROVE  Emitted \subseteq Emitted'
<1>1. TypeOK /\ StripeKeeps
  BY StripeStep DEF IInv
<1>2. QED
  BY <1>1 DEF Emitted, StripeKeeps

\* The payment of an emitted session event exists.
LEMMA EmittedExists ==
  ASSUME TypeOK, CreationInv, NEW e \in Emitted, e.payment \in Payments, e.type # OtherType
  PROVE  e \in SessionEvents /\ status[e.payment] \in PaymentStatuses
<1>1. e \in SessionEvents /\ e \notin StrayEvents
  BY EmittedEvent, ConstantsAssumption
<1>2. session[e.payment] # "none"
  BY <1>1 DEF Emitted, StripeEvent, CreationInv, TypeOK
<1>3. QED
  BY <1>1, <1>2 DEF CreationInv, TypeOK

\* It is enough to look at the worker that moved.
LEMMA WorkerMoved ==
  ASSUME IInv, [Next]_vars, NEW w \in Workers,
         \A v \in Workers \ {w} : pc'[v] = pc[v] /\ ev'[v] = ev[v] /\ snap'[v] = snap[v],
         pc'[w] # "idle" => ev'[w] \in Emitted,
         pc'[w] \in Deciding \union {"lifeRead", "lifeSwap"} => ev'[w] \in SessionEvents,
         pc'[w] \in Deciding => snap'[w] \in PaymentStatuses
  PROVE  WorkerInv'
<1>1. WorkerInv /\ Emitted \subseteq Emitted'
  BY EmittedGrows DEF IInv
<1>2. ASSUME NEW v \in Workers
      PROVE  /\ pc'[v] # "idle" => ev'[v] \in Emitted'
             /\ pc'[v] \in Deciding \union {"lifeRead", "lifeSwap"} =>
                  ev'[v] \in SessionEvents
             /\ pc'[v] \in Deciding => snap'[v] \in PaymentStatuses
  BY <1>1 DEF WorkerInv
<1>3. QED
  BY <1>2 DEF WorkerInv

LEMMA WorkerStep ==
  ASSUME IInv, [Next]_vars
  PROVE  WorkerInv'
<1>0. TypeOK /\ CreationInv /\ WorkerInv
  BY DEF IInv
<1>1. ASSUME UNCHANGED <<pc, ev, snap>>
      PROVE  WorkerInv'
  BY <1>0, <1>1, EmittedGrows DEF WorkerInv
<1>2. ASSUME NEW p \in Payments, Initiator(p) \/ InitiatorThrows(p) \/ External(p)
      PROVE  WorkerInv'
  BY <1>0, <1>1, <1>2, InitiatorFrame, ExternalFrame DEF handler
<1>3. ASSUME NEW w \in Workers, Quiet(w)
      PROVE  WorkerInv'
  <2>1. \A v \in Workers \ {w} : pc'[v] = pc[v] /\ ev'[v] = ev[v] /\ snap'[v] = snap[v]
    BY <1>0, <1>3, QuietFrame DEF TypeOK
  <2>2. /\ pc'[w] # "idle" => ev'[w] \in Emitted
        /\ pc'[w] \in Deciding \union {"lifeRead", "lifeSwap"} => ev'[w] \in SessionEvents
        /\ pc'[w] \in Deciding => snap'[w] \in PaymentStatuses
    <3> USE DEF Deciding, Goto, Return, WorkerInv, TypeOK
    <3>1. CASE Claim(w)                  BY <1>0, <3>1 DEF Claim
    <3>2. CASE ClaimDuplicate(w)         BY <1>0, <3>2 DEF ClaimDuplicate
    <3>3. CASE Ignore(w)                 BY <1>0, <3>3 DEF Ignore, Finish
    <3>4. CASE LoadPayment(w)
      <4>1. ev[w] \in Emitted /\ ev[w].type # OtherType /\ ev[w].payment # NoPayment
        BY <1>0, <3>4 DEF LoadPayment
      <4>2. ev[w].payment \in Payments
        BY <1>0, <4>1, EmittedEvent, SessionEventPayment, ConstantsAssumption
      <4>3. ev[w] \in SessionEvents /\ status[ev[w].payment] \in PaymentStatuses
        BY <1>0, <4>1, <4>2, EmittedExists
      <4>4. QED
        BY <1>0, <3>4, <4>1, <4>3 DEF LoadPayment
    <3>5. CASE Audit(w)                  BY <1>0, <3>5 DEF Audit
    <3>6. CASE SwapConflict(w)           BY <1>0, <3>6 DEF SwapConflict
    <3>7. CASE WorkerLifecycleDropped(w) BY <1>0, <3>7 DEF WorkerLifecycleDropped
    <3>8. CASE WorkerLifecycleRead(w)    BY <1>0, <3>8 DEF WorkerLifecycleRead
    <3>9. CASE WorkerLifecycleSwap(w)    BY <1>0, <3>9 DEF WorkerLifecycleSwap
    <3>10. CASE markProcessed(w)         BY <1>0, <3>10 DEF markProcessed
    <3>11. CASE markFailed(w)            BY <1>0, <3>11 DEF markFailed
    <3>12. CASE ErrorSwallowed(w)        BY <1>0, <3>12 DEF ErrorSwallowed
    <3>13. CASE \E e \in Events : Receive(w, e)
      BY <1>0, <3>13 DEF Receive
    <3>14. QED
      BY <1>3, <3>1, <3>2, <3>3, <3>4, <3>5, <3>6, <3>7, <3>8, <3>9, <3>10,
         <3>11, <3>12, <3>13 DEF Quiet
  <2>3. QED
    BY <2>1, <2>2, WorkerMoved
<1>4. ASSUME NEW w \in Workers, Transact(w)
      PROVE  WorkerInv'
  <2>1. /\ \A v \in Workers \ {w} : pc'[v] = pc[v]
        /\ pc[w] # "idle"
        /\ pc'[w] \in Deciding \union {"lifeRead", "lifeSwap"} => pc[w] \in Deciding
    <3> USE DEF Deciding, Goto, TypeOK
    <3>1. CASE Decide(w)        BY <1>0, <3>1 DEF Decide
    <3>2. CASE Swap(w)          BY <1>0, <3>2 DEF Swap
    <3>3. CASE ReadOrder(w)     BY <1>0, <3>3 DEF ReadOrder
    <3>4. CASE UpdateOrder(w)   BY <1>0, <3>4 DEF UpdateOrder
    <3>5. CASE Commit(w)        BY <1>0, <3>5 DEF Commit
    <3>6. CASE HandlerThrows(w) BY <1>0, <3>6 DEF HandlerThrows
    <3>7. QED
      BY <1>4, <3>1, <3>2, <3>3, <3>4, <3>5, <3>6 DEF Transact
  <2>2. UNCHANGED <<ev, snap>>
    BY <1>4, TransactFrame
  <2>3. QED
    BY <1>0, <2>1, <2>2, WorkerMoved DEF WorkerInv
<1>5. ASSUME NEW s \in OtherMoves, OtherLifecycleMove(s)
      PROVE  WorkerInv'
  BY <1>1, <1>5 DEF OtherLifecycleMove, handler
<1>6. CASE Crash
  BY <1>6 DEF Crash, WorkerInv, Deciding
<1>7. CASE UNCHANGED vars
  BY <1>1, <1>7 DEF vars, handler
<1>8. QED
  BY <1>2, <1>3, <1>4, <1>5, <1>6, <1>7, WorkerSteps DEF Next, External, Quiet

-----------------------------------------------------------------------------
(* Orders follow payments.                                                 *)

LEMMA OrderFollowsStep ==
  ASSUME IInv, [Next]_vars
  PROVE  OrderFollowsPayment'
<1>0. TypeOK /\ CreationInv /\ OrderInv /\ OrderFollowsPayment
  BY DEF IInv
<1>1. ASSUME UNCHANGED <<status, orderStatus>>
      PROVE  OrderFollowsPayment'
  BY <1>0, <1>1 DEF OrderFollowsPayment
<1>2. ASSUME NEW p \in Payments, Initiator(p) \/ InitiatorThrows(p)
      PROVE  OrderFollowsPayment'
  <2>1. \A q \in Payments : status'[q] = "CONFIRMED" <=> status[q] = "CONFIRMED"
    <3>1. CASE UNCHANGED status
      BY <3>1
    <3>2. ASSUME NEW t \in PaymentStatuses, status' = [status EXCEPT ![p] = t],
                 t # "CONFIRMED", status[p] # "CONFIRMED"
          PROVE  \A q \in Payments : status'[q] = "CONFIRMED" <=> status[q] = "CONFIRMED"
      BY <1>0, <3>2 DEF TypeOK
    <3>3. QED
      BY <1>0, <1>2, <3>1, <3>2, InitiatorFrame
         DEF CreationInv, PaymentStatuses, NoStatus
  <2>2. QED
    BY <1>0, <1>2, <2>1, InitiatorFrame DEF OrderFollowsPayment
<1>3. ASSUME NEW p \in Payments, External(p)
      PROVE  OrderFollowsPayment'
  BY <1>1, <1>3, ExternalFrame
<1>4. ASSUME NEW w \in Workers, Quiet(w)
      PROVE  OrderFollowsPayment'
  BY <1>0, <1>1, <1>4, QuietFrame
<1>5. ASSUME NEW w \in Workers, Commit(w)
      PROVE  OrderFollowsPayment'
  <2> DEFINE p == ev[w].payment
             o == OrderOf[p]
  <2>1. /\ p \in Payments /\ o \in Orders
        /\ canTransition(status[p], Target(ev[w]))
    BY <1>5, InTxHolds, ConstantsAssumption DEF Commit, InTx
  <2>2. status[p] # "CONFIRMED"
    BY <2>1, TargetStatus, ConfirmedIsLeftByRefundOnly
  <2>3. \A q \in Payments : status'[q] = IF q = p THEN Target(ev[w]) ELSE status[q]
    BY <1>0, <1>5 DEF Commit, TypeOK
  <2>4. \A x \in Orders : orderStatus'[x] = IF ordLock[x] = w THEN "CONFIRMED"
                                                           ELSE orderStatus[x]
    BY <1>5 DEF Commit, UpdatesOrder
  <2>5. pc[w] = "commit" /\ w # Free
    BY <1>5, ConstantsAssumption DEF Commit
  <2>6. \A x \in Orders : ordLock[x] = w => x = o /\ isSuccess(ev[w])
    BY <1>0, <2>5 DEF OrderInv
  <2>7. isSuccess(ev[w]) => ordLock[o] = w \/ orderStatus[o] = "CONFIRMED"
    BY <1>0, <2>5 DEF OrderInv
  <2>8. CASE isSuccess(ev[w])
    <3>1. Target(ev[w]) = "CONFIRMED"
      BY <2>8, TargetStatus
    <3>2. orderStatus'[o] = "CONFIRMED" /\ status'[p] = "CONFIRMED"
      BY <2>1, <2>3, <2>4, <2>7, <2>8, <3>1
    <3>3. ASSUME NEW x \in Orders, x # o
          PROVE  /\ orderStatus'[x] = orderStatus[x]
                 /\ \A q \in Payments : OrderOf[q] = x => status'[q] = status[q]
      BY <2>3, <2>4, <2>6, <3>3
    <3>4. QED
      BY <1>0, <2>1, <3>2, <3>3 DEF OrderFollowsPayment
  <2>9. CASE ~isSuccess(ev[w])
    <3>1. Target(ev[w]) # "CONFIRMED"
      BY <2>9, TargetStatus
    <3>2. \A q \in Payments : status'[q] = "CONFIRMED" <=> status[q] = "CONFIRMED"
      BY <2>2, <2>3, <3>1
    <3>3. \A x \in Orders : orderStatus'[x] = orderStatus[x]
      BY <2>4, <2>6, <2>9
    <3>4. QED
      BY <1>0, <3>2, <3>3 DEF OrderFollowsPayment
  <2>10. QED
    BY <2>8, <2>9
<1>6. ASSUME NEW w \in Workers, Transact(w), ~Commit(w)
      PROVE  OrderFollowsPayment'
  BY <1>1, <1>6 DEF Transact, Decide, Swap, ReadOrder, UpdateOrder,
                    HandlerThrows, tables
<1>7. ASSUME NEW s \in OtherMoves, OtherLifecycleMove(s)
      PROVE  OrderFollowsPayment'
  BY <1>1, <1>7 DEF OtherLifecycleMove
<1>8. CASE Crash
  BY <1>1, <1>8 DEF Crash, tables
<1>9. CASE UNCHANGED vars
  BY <1>1, <1>9 DEF vars, tables
<1>10. QED
  BY <1>2, <1>3, <1>4, <1>5, <1>6, <1>7, <1>8, <1>9, WorkerSteps
     DEF Next, External, Quiet

-----------------------------------------------------------------------------
(* The invariant, and what follows from it.                                *)

LEMMA InitHolds == Init => IInv
<1> SUFFICES ASSUME Init PROVE IInv
  OBVIOUS
<1>1. TypeOK
  BY ConstantsAssumption, LifecycleNames
     DEF Init, TypeOK, Absent, WebhookRow, InitiatorPCs, WorkerPCs
<1>2. CreationInv /\ WorkerInv
  BY DEF Init, CreationInv, WorkerInv, Deciding
<1>3. LockInv /\ OrderInv
  BY DEF Init, LockInv, OrderInv, InTx
<1>4. OrderFollowsPayment
  BY DEF Init, OrderFollowsPayment, NoStatus
<1>5. QED
  BY <1>1, <1>2, <1>3, <1>4 DEF IInv

LEMMA StepHolds == IInv /\ [Next]_vars => IInv'
BY TypeStep, CreationStep, WorkerStep, LockStep, OrderStep, OrderFollowsStep
   DEF IInv

LEMMA Invariance == Spec => []IInv
BY InitHolds, StepHolds, PTL DEF Spec

\* Type correctness: every reachable state of the payment service is typed, the
\* audit log holds rows of real statuses and events, and the budgets are kept.
THEOREM TypeCorrect == Spec => []TypeOK
<1>1. IInv => TypeOK
  BY DEF IInv
<1>2. QED
  BY <1>1, Invariance, PTL

\* The webhook transaction keeps orders and payments consistent: an order is
\* confirmed exactly when one of its payments is, for any number of payments,
\* concurrent webhook requests, failing calls and crashes.
THEOREM OrderConsistency == Spec => []OrderFollowsPayment
<1>1. IInv => OrderFollowsPayment
  BY DEF IInv
<1>2. QED
  BY <1>1, Invariance, PTL

\* A status changes only along the payment state machine: the compare-and-swap
\* under the row lock makes the decision on the earlier read safe.
THEOREM LegalMoves == Spec => StatusMovesLegal
<1>1. ASSUME IInv, [Next]_vars
      PROVE  [\A p \in Payments :
                 status'[p] # status[p] =>
                    status[p] = NoStatus \/ canTransition(status[p], status'[p])]_status
  <2>0. TypeOK /\ CreationInv
    BY <1>1 DEF IInv
  <2>1. ASSUME NEW q \in Payments, Initiator(q) \/ InitiatorThrows(q),
               NEW p \in Payments, status'[p] # status[p]
        PROVE  status[p] = NoStatus \/ canTransition(status[p], status'[p])
    <3>1. canTransition("INITIATED", "FAILED")
      BY DEF canTransition, CommonTransitions
    <3>2. QED
      BY <2>0, <2>1, <3>1, InitiatorFrame, ZenonT(60) DEF CreationInv, TypeOK
  <2>2. ASSUME NEW w \in Workers, Commit(w),
               NEW p \in Payments, status'[p] # status[p]
        PROVE  canTransition(status[p], status'[p])
    <3>1. canTransition(status[ev[w].payment], Target(ev[w]))
      BY <1>1, <2>2, InTxHolds DEF Commit, InTx
    <3>2. p = ev[w].payment /\ status'[p] = Target(ev[w])
      BY <2>0, <2>2 DEF Commit, TypeOK
    <3>3. QED
      BY <3>1, <3>2
  <2>3. ASSUME NEW w \in Workers, Quiet(w) \/ (Transact(w) /\ ~Commit(w))
        PROVE  UNCHANGED status
    BY <2>0, <2>3, QuietFrame DEF Transact, Decide, Swap, ReadOrder,
       UpdateOrder, HandlerThrows, tables
  <2>4. ASSUME NEW q \in Payments, External(q)
        PROVE  UNCHANGED status
    BY <2>4, ExternalFrame
  <2>5. QED
    BY <1>1, <2>1, <2>2, <2>3, <2>4, WorkerSteps
       DEF Next, External, Quiet, OtherLifecycleMove, Crash, vars, tables
<1>2. QED
  BY <1>1, Invariance, PTL DEF Spec, StatusMovesLegal

-----------------------------------------------------------------------------
(* Handlers come to an end.                                                *)

\* The transaction of v waits for a row that the one of w has locked: its
\* conditional update for the payment, confirmOrderIfPossible for the order.
WaitsFor(v, w) ==
    \/ pc[v] = "swap" /\ payLock[ev[v].payment] = w
    \/ pc[v] = "updateOrder" /\ ordLock[OrderOf[ev[v].payment]] = w

\* No webhook transactions wait for each other in a circle, because a payment
\* is locked before an order (transitionWithinTx, confirmOrderIfPossible): a
\* chain of waiting transactions ends after two, so it never closes.
THEOREM NoDeadlock ==
  Spec => [](\A u, v, w, x \in Workers :
                WaitsFor(u, v) /\ WaitsFor(v, w) => ~WaitsFor(w, x))
<1>1. ASSUME IInv
      PROVE  \A u, v, w, x \in Workers :
                WaitsFor(u, v) /\ WaitsFor(v, w) => ~WaitsFor(w, x)
  <2>0. WorkerInv /\ LockInv /\ OrderInv
    BY <1>1 DEF IInv
  <2>1. \A v, w \in Workers :
           WaitsFor(v, w) => /\ pc[v] \in {"swap", "updateOrder"}
                             /\ pc[w] \in InTx
                             /\ pc[v] = "updateOrder" => pc[w] = "commit"
    <3>1. ASSUME NEW v \in Workers, NEW w \in Workers,
                 pc[v] = "swap", payLock[ev[v].payment] = w
          PROVE  pc[w] \in InTx
      <4>1. ev[v].payment \in Payments
        BY <2>0, <3>1, SessionEventPayment DEF WorkerInv, Deciding
      <4>2. w # Free
        BY ConstantsAssumption
      <4>3. QED
        BY <2>0, <3>1, <4>1, <4>2 DEF LockInv
    <3>2. ASSUME NEW v \in Workers, NEW w \in Workers,
                 pc[v] = "updateOrder", ordLock[OrderOf[ev[v].payment]] = w
          PROVE  pc[w] = "commit"
      <4>1. OrderOf[ev[v].payment] \in Orders
        BY <1>1, <3>2, InTxHolds, ConstantsAssumption DEF InTx
      <4>2. w # Free
        BY ConstantsAssumption
      <4>3. QED
        BY <2>0, <3>2, <4>1, <4>2 DEF OrderInv
    <3>3. QED
      BY <3>1, <3>2 DEF WaitsFor, InTx
  <2>2. QED
    BY <2>1 DEF InTx
<1>2. QED
  BY <1>1, Invariance, PTL

\* The steps that are left for the handler of an event, at most.
StepsLeft(l) ==
    CASE l = "claim" -> 11
      [] l = "load" -> 10
      [] l = "check" -> 9
      [] l = "swap" -> 8
      [] l = "readOrder" -> 7
      [] l = "updateOrder" -> 6
      [] l = "commit" -> 5
      [] l = "lifeRead" -> 4
      [] l \in {"lifeSwap", "audit"} -> 3
      [] l = "mark" -> 2
      [] l = "fail" -> 1
      [] OTHER -> 0

\* A delivered event costs its handler eleven steps at most, whatever the
\* others do and whichever calls fail: applyStripeEvent repeats nothing.
THEOREM HandlersEnd ==
  Spec => [][\A w \in Workers :
               /\ pc[w] # "idle" /\ pc'[w] # pc[w] => StepsLeft(pc'[w]) < StepsLeft(pc[w])
               /\ HandlerStep(w) => pc'[w] # pc[w]]_vars
<1>1. ASSUME IInv, [Next]_vars
      PROVE  [\A w \in Workers :
               /\ pc[w] # "idle" /\ pc'[w] # pc[w] => StepsLeft(pc'[w]) < StepsLeft(pc[w])
               /\ HandlerStep(w) => pc'[w] # pc[w]]_vars
  <2>0. pc \in [Workers -> WorkerPCs]
    BY <1>1 DEF IInv, TypeOK
  <2> DEFINE Below(k, l) == k \in WorkerPCs /\ StepsLeft(k) < StepsLeft(l)
  <2>01. /\ Below("load", "claim") /\ Below("idle", "claim")
         /\ Below("check", "load") /\ Below("mark", "load")
         /\ \A k \in {"swap", "audit", "mark"} : Below(k, "check")
         /\ \A k \in {"readOrder", "commit"} : Below(k, "swap")
         /\ Below("updateOrder", "readOrder") /\ Below("commit", "readOrder")
         /\ Below("commit", "updateOrder")
         /\ \A k \in {"lifeRead", "mark"} : Below(k, "commit")
         /\ Below("lifeSwap", "lifeRead") /\ Below("mark", "lifeRead")
         /\ Below("mark", "lifeSwap") /\ Below("mark", "audit")
         /\ Below("idle", "mark") /\ Below("idle", "fail")
         /\ \A l \in {"load", "check", "audit", "swap", "readOrder", "updateOrder",
                      "commit", "lifeRead", "lifeSwap", "mark"} : Below("fail", l)
    BY DEF StepsLeft, WorkerPCs
  <2>1. ASSUME NEW v \in Workers, HandlerStep(v) \/ HandlerThrows(v) \/ ErrorSwallowed(v)
        PROVE  \E l : pc' = [pc EXCEPT ![v] = l] /\ Below(l, pc[v])
    <3> HIDE DEF Below
    <3>1. CASE Claim(v) \/ ClaimDuplicate(v)
      BY <2>01, <3>1, Zenon DEF Claim, ClaimDuplicate, Goto, Return
    <3>2. CASE Ignore(v) \/ LoadPayment(v)
      BY <2>01, <3>2, Zenon DEF Ignore, Finish, LoadPayment, Goto
    <3>3. CASE Decide(v)
      <4>1. PICK l \in {"swap", "audit", "mark"} : pc' = [pc EXCEPT ![v] = l]
        BY <3>3, Zenon DEF Decide, Goto
      <4>2. pc[v] = "check" /\ Below(l, "check")
        BY <2>01, <3>3, Zenon DEF Decide
      <4>3. QED
        BY <4>1, <4>2, Zenon
    <3>4. CASE Audit(v) \/ SwapConflict(v)
      BY <2>01, <3>4, Zenon DEF Audit, SwapConflict, Goto
    <3>5. CASE Swap(v)
      <4>1. PICK l \in {"readOrder", "commit"} : pc' = [pc EXCEPT ![v] = l]
        BY <3>5, Zenon DEF Swap, Goto
      <4>2. pc[v] = "swap" /\ Below(l, "swap")
        BY <2>01, <3>5, Zenon DEF Swap
      <4>3. QED
        BY <4>1, <4>2, Zenon
    <3>6. CASE ReadOrder(v)
      <4>1. PICK l \in {"updateOrder", "commit"} : pc' = [pc EXCEPT ![v] = l]
        BY <3>6, Zenon DEF ReadOrder, Goto
      <4>2. pc[v] = "readOrder" /\ Below(l, "readOrder")
        BY <2>01, <3>6, Zenon DEF ReadOrder
      <4>3. QED
        BY <4>1, <4>2, Zenon
    <3>61. CASE UpdateOrder(v)
      BY <2>01, <3>61, Zenon DEF UpdateOrder, Goto
    <3>7. CASE Commit(v)
      <4>1. PICK l \in {"lifeRead", "mark"} : pc' = [pc EXCEPT ![v] = l]
        BY <3>7, Zenon DEF Commit, Goto
      <4>2. pc[v] = "commit" /\ Below(l, "commit")
        BY <2>01, <3>7, Zenon DEF Commit
      <4>3. QED
        BY <4>1, <4>2, Zenon
    <3>8. CASE WorkerLifecycleDropped(v) \/ WorkerLifecycleRead(v) \/ WorkerLifecycleSwap(v)
      BY <2>01, <3>8, Zenon
         DEF WorkerLifecycleDropped, WorkerLifecycleRead, WorkerLifecycleSwap, Goto
    <3>9. CASE markProcessed(v)
      BY <2>01, <3>9, Zenon DEF markProcessed, Return
    <3>91. CASE markFailed(v)
      BY <2>01, <3>91, Zenon DEF markFailed, Return
    <3>10. CASE HandlerThrows(v)
      <4>1. pc' = [pc EXCEPT ![v] = "fail"]
        BY <3>10, Zenon DEF HandlerThrows, Goto
      <4>2. pc[v] \in {"load", "check", "audit", "swap", "readOrder", "updateOrder",
                       "commit", "lifeRead", "lifeSwap", "mark"}
        BY <3>10, Zenon DEF HandlerThrows
      <4>3. QED
        BY <2>01, <4>1, <4>2, Zenon
    <3>11. CASE ErrorSwallowed(v)
      BY <2>01, <3>11, Zenon DEF ErrorSwallowed, Return
    <3>12. QED
      BY <2>1, <3>1, <3>2, <3>3, <3>4, <3>5, <3>6, <3>61, <3>7, <3>8, <3>9, <3>91, <3>10,
         <3>11 DEF HandlerStep
  <2>2. ASSUME NEW w \in Workers, HandlerStep(w)
        PROVE  pc'[w] # pc[w]
    <3>1. PICK l \in WorkerPCs : pc' = [pc EXCEPT ![w] = l] /\ StepsLeft(l) < StepsLeft(pc[w])
      BY <2>1, <2>2, Zenon
    <3>2. \A k \in WorkerPCs : StepsLeft(k) \in Nat
      BY DEF StepsLeft
    <3>3. QED
      BY <2>0, <3>1, <3>2
  <2>3. ASSUME NEW w \in Workers, pc[w] # "idle", pc'[w] # pc[w]
        PROVE  StepsLeft(pc'[w]) < StepsLeft(pc[w])
    <3>1. ASSUME NEW v \in Workers, HandlerStep(v) \/ HandlerThrows(v) \/ ErrorSwallowed(v)
          PROVE  StepsLeft(pc'[w]) < StepsLeft(pc[w])
      BY <2>0, <2>1, <2>3, <3>1
    <3>2. ASSUME NEW v \in Workers, NEW e \in Events, Receive(v, e)
          PROVE  FALSE
      BY <2>0, <2>3, <3>2 DEF Receive, Goto
    <3>3. CASE Crash
      <4>1. pc'[w] = "idle"
        BY <3>3 DEF Crash
      <4>2. QED
        BY <2>0, <2>3, <4>1 DEF StepsLeft, WorkerPCs
    <3>4. CASE UNCHANGED pc
      BY <2>3, <3>4
    <3>5. ASSUME NEW p \in Payments, Initiator(p) \/ InitiatorThrows(p)
          PROVE  UNCHANGED pc
      BY <1>1, <3>5, InitiatorFrame DEF IInv, handler
    <3>6. ASSUME NEW p \in Payments, CustomerPays(p) \/ CardDeclined(p) \/ SessionExpires(p)
          PROVE  UNCHANGED pc
      BY <3>6, ExternalFrame DEF External, handler
    <3>7. QED
      BY <1>1, <3>1, <3>2, <3>3, <3>4, <3>5, <3>6 DEF Next, OtherLifecycleMove, handler, vars
  <2>4. QED
    BY <2>2, <2>3
<1>2. QED
  BY <1>1, Invariance, PTL DEF Spec
=============================================================================
