------------------------------ MODULE Payments ------------------------------
(***************************************************************************)
(* The payment service (payments/payments.service.ts) with the parts it    *)
(* works with: the webhook dedupe table (common/reliability/               *)
(* webhook-dedupe.service.ts), the Stripe webhook controller, the central  *)
(* conversation lifecycle mutator, and Stripe itself as an environment.    *)
(*                                                                         *)
(* Two kinds of process share the database. A worker is one webhook        *)
(* request being handled; any event Stripe has emitted may be delivered to *)
(* any idle worker, again and again and in any order. An initiator is the  *)
(* one request that creates a payment, identified by that payment. Each    *)
(* awaited database or Stripe call is a step of its own, so that every     *)
(* other process may run between two of them.                              *)
(*                                                                         *)
(* Transactions run at READ COMMITTED, PostgreSQL's default, which nothing *)
(* in the code changes: a row that a transaction has updated stays locked  *)
(* until it ends, its writes appear at commit, and plain reads see the     *)
(* last committed value and take no lock.                                  *)
(***************************************************************************)
EXTENDS PaymentStates, LifecycleTransitions, Naturals, Sequences, FiniteSets

CONSTANTS
    Payments,       \* payment ids, one initiation request for each
    Orders,
    OrderOf,        \* the order that the request of a payment names
    Workers,        \* webhook requests handled at the same time
    StrayEvents,    \* events of the account that no payment of ours owns
    HasOwner,       \* has the company an active user to sign the history?
    OtherMoves,     \* lifecycle statuses other components move to
    MaxThrows,      \* bound on failing database calls
    MaxCrashes,     \* bound on process crashes
    NoPayment, NoEvent, Free

NoStatus == "none"

SuccessTypes == {"checkout.session.completed",
                 "checkout.session.async_payment_succeeded"}
FailureTypes == {"checkout.session.expired",
                 "checkout.session.async_payment_failed",
                 "payment_intent.payment_failed"}
OtherType == "other"

StripeEvent(p, t) == [payment |-> p, type |-> t]

\* Card sessions complete or expire once; a declined card is an event of the
\* payment intent, which carries the same metadata.
SessionTypes == {"checkout.session.completed", "checkout.session.expired",
                 "payment_intent.payment_failed"}
SessionEvents == {StripeEvent(p, t) : p \in Payments, t \in SessionTypes}
Events == SessionEvents \union StrayEvents

ASSUME ConstantsAssumption ==
    /\ OrderOf \in [Payments -> Orders]
    /\ NoPayment \notin Payments
    /\ NoEvent \notin Events
    /\ Free \notin Workers
    /\ Workers \intersect Payments = {}
    /\ StrayEvents \subseteq
         [payment : Payments \union {NoPayment},
          type : SuccessTypes \union FailureTypes \union {OtherType}]
    /\ \A e \in StrayEvents : e.payment = NoPayment \/ e.type = OtherType
    /\ HasOwner \in BOOLEAN
    /\ OtherMoves \subseteq LifecycleStatuses
    /\ MaxThrows \in Nat
    /\ MaxCrashes \in Nat

VARIABLES
    \* ---- committed database state
    status,         \* Payment.status, or none while the row does not exist
    hasIntent,      \* is Payment.stripePaymentIntentId set?
    linked,         \* was an open conversation found for the payment?
    events,         \* PaymentEvent rows of a payment, oldest first
    orderStatus,    \* Order.status
    history,        \* number of PENDING -> CONFIRMED rows in the history
    lifecycle,      \* Conversation.lifecycleStatus of the customer's thread
    webhook,        \* webhook_events row of an event: status and outcome
    \* ---- row locks of open transactions
    payLock, ordLock,
    \* ---- Stripe
    session,        \* checkout session of a payment
    declined,       \* payments on which a card was declined
    acked,          \* events that have been answered 200
    \* ---- webhook workers
    pc, ev,
    snap,           \* the payment status the handler read
    outcome,        \* the result string of the handler
    \* ---- initiators
    ipc,
    \* ---- both
    lifeSeen,       \* the lifecycle status the mutator read
    \* ---- budgets
    throws, crashes

tables    == <<status, hasIntent, linked, events, orderStatus, history,
               lifecycle, webhook>>
locks     == <<payLock, ordLock>>
stripe    == <<session, declined, acked>>
handler   == <<pc, ev, snap, outcome>>
initiator == ipc
budgets   == <<throws, crashes>>
vars      == <<tables, locks, stripe, handler, initiator, lifeSeen, budgets>>

-----------------------------------------------------------------------------
(* Rows and lookups.                                                       *)

\* Names that begin with Bug are mutants: the definition that follows with a
\* mistake that could be made in the code. No action uses them.

\* Bug: the two statuses of the row are swapped.
BugRow(prev, new, event) == [prev |-> new, new |-> prev, event |-> event]

\* A PaymentEvent row. The Stripe event id is what metadata carries.
Row(prev, new, event) == [prev |-> prev, new |-> new, event |-> event]

Rows == [prev : PaymentStatuses \union {NoStatus}, new : PaymentStatuses,
         event : Events \union {NoEvent}]

hasProcessedStripeEvent(p, e) ==
    \E i \in 1..Len(events[p]) : events[p][i].event = e

Outcomes == {"ignored_event_type", "no_payment_metadata", "duplicate_event",
             "already_confirmed", "already_terminal",
             "invalid_transition_noop", "confirmed", "failed"}
NoOutcome == "none"

WebhookRow(s, o) == [status |-> s, outcome |-> o]
Absent == WebhookRow("absent", NoOutcome)

\* Everything Stripe has emitted so far.
Emitted ==
    StrayEvents
      \union {StripeEvent(p, "checkout.session.completed") :
                p \in {q \in Payments : session[q] = "complete"}}
      \union {StripeEvent(p, "checkout.session.expired") :
                p \in {q \in Payments : session[q] = "expired"}}
      \union {StripeEvent(p, "payment_intent.payment_failed") : p \in declined}

\* Bug: only the asynchronous success is dispatched as one.
BugIsSuccess(e) == e.type = "checkout.session.async_payment_succeeded"

isSuccess(e) == e.type \in SuccessTypes

\* Bug: a declined card is dispatched to the success handler.
BugTarget(e) == IF e.type = "checkout.session.expired" THEN "FAILED" ELSE "CONFIRMED"

\* The status the handler of an event wants to move the payment to.
Target(e) == IF isSuccess(e) THEN "CONFIRMED" ELSE "FAILED"

-----------------------------------------------------------------------------
Init ==
    /\ status = [p \in Payments |-> NoStatus]
    /\ hasIntent = [p \in Payments |-> FALSE]
    /\ linked = [p \in Payments |-> FALSE]
    /\ events = [p \in Payments |-> <<>>]
    /\ orderStatus = [o \in Orders |-> "PENDING"]
    /\ history = [o \in Orders |-> 0]
    /\ lifecycle = "ORDER_PLACED"
    /\ webhook = [e \in Events |-> Absent]
    /\ payLock = [p \in Payments |-> Free]
    /\ ordLock = [o \in Orders |-> Free]
    /\ session = [p \in Payments |-> "none"]
    /\ declined = {}
    /\ acked = {}
    /\ pc = [w \in Workers |-> "idle"]
    /\ ev = [w \in Workers |-> NoEvent]
    /\ snap = [w \in Workers |-> NoStatus]
    /\ outcome = [w \in Workers |-> NoOutcome]
    /\ ipc = [p \in Payments |-> "new"]
    /\ lifeSeen = [x \in Workers \union Payments |-> NoStatus]
    /\ throws = 0
    /\ crashes = 0

-----------------------------------------------------------------------------
(* Initiation: initiate, initiateStripe and initiateWire.                  *)

\* The transaction that creates the payment and its first event row. A thread
\* of the customer may or may not be open.
CreatePayment(p, method, next) ==
    /\ ipc[p] = "new"
    /\ orderStatus[OrderOf[p]] \notin {"CANCELLED", "COMPLETED"}
    /\ LET initial == InitialStatusForMethod[method]
       IN  /\ status' = [status EXCEPT ![p] = initial]
           /\ events' = [events EXCEPT ![p] =
                            Append(@, Row(NoStatus, initial, NoEvent))]
    /\ \E open \in BOOLEAN : linked' = [linked EXCEPT ![p] = open]
    /\ ipc' = [ipc EXCEPT ![p] = next]
    /\ UNCHANGED <<hasIntent, orderStatus, history, lifecycle, webhook, locks,
                   stripe, handler, lifeSeen, budgets>>

InitiateStripe(p) == CreatePayment(p, "STRIPE", "session")

InitiateWire(p) == CreatePayment(p, "WIRE_TRANSFER", "lifeRead")

\* stripe.createCheckoutSession returns the session.
OpenSession(p) ==
    /\ ipc[p] = "session"
    /\ session' = [session EXCEPT ![p] = "open"]
    /\ ipc' = [ipc EXCEPT ![p] = "record"]
    /\ UNCHANGED <<tables, locks, declined, acked, handler, lifeSeen, budgets>>

\* The SDK call throws; Stripe may have opened the session all the same.
SessionThrows(p) ==
    /\ ipc[p] = "session"
    /\ \E s \in {"none", "open"} : session' = [session EXCEPT ![p] = s]
    /\ ipc' = [ipc EXCEPT ![p] = "failing"]
    /\ UNCHANGED <<tables, locks, declined, acked, handler, lifeSeen, budgets>>

\* Bug: the update is not conditional on the status.
BugTransitionWithinTx(p, from, to, e) ==
    /\ payLock[p] = Free
    /\ canTransition(from, to)
    /\ status' = [status EXCEPT ![p] = to]
    /\ events' = [events EXCEPT ![p] = Append(@, Row(from, to, e))]

\* transitionWithinTx: a compare-and-swap on the status together with its
\* event row. The update waits for a lock on the row.
TransitionWithinTx(p, from, to, e) ==
    /\ payLock[p] = Free
    /\ canTransition(from, to)
    /\ status[p] = from
    /\ status' = [status EXCEPT ![p] = to]
    /\ events' = [events EXCEPT ![p] = Append(@, Row(from, to, e))]

\* The catch branch of initiateStripe: the payment is failed, the error goes
\* on to the requester.
FailInitiation(p) ==
    /\ ipc[p] = "failing"
    /\ TransitionWithinTx(p, "INITIATED", "FAILED", NoEvent)
    /\ ipc' = [ipc EXCEPT ![p] = "aborted"]
    /\ UNCHANGED <<hasIntent, linked, orderStatus, history, lifecycle, webhook,
                   locks, stripe, handler, lifeSeen, budgets>>

\* The same when the status has moved on: ConflictException.
FailInitiationConflict(p) ==
    /\ ipc[p] = "failing"
    /\ payLock[p] = Free
    /\ status[p] # "INITIATED"
    /\ ipc' = [ipc EXCEPT ![p] = "aborted"]
    /\ UNCHANGED <<tables, locks, stripe, handler, lifeSeen, budgets>>

\* payment.update with the identifiers of the session: a card session has no
\* payment intent yet, so the column is written as null.
RecordSession(p) ==
    /\ ipc[p] = "record"
    /\ payLock[p] = Free
    /\ hasIntent' = [hasIntent EXCEPT ![p] = FALSE]
    /\ ipc' = [ipc EXCEPT ![p] = "note"]
    /\ UNCHANGED <<status, linked, events, orderStatus, history, lifecycle,
                   webhook, locks, stripe, handler, lifeSeen, budgets>>

\* The audit-only row stripe_session_created.
NoteSession(p) ==
    /\ ipc[p] = "note"
    /\ events' = [events EXCEPT ![p] =
                     Append(@, Row("INITIATED", "INITIATED", NoEvent))]
    /\ ipc' = [ipc EXCEPT ![p] = "lifeRead"]
    /\ UNCHANGED <<status, hasIntent, linked, orderStatus, history, lifecycle,
                   webhook, locks, stripe, handler, lifeSeen, budgets>>

(* lifecycle.transition: read the status, drop an illegal move, otherwise  *)
(* compare-and-swap. x is the process that calls it.                       *)

\* The call returns at once: no thread is linked, or the move is illegal.
LifecycleDropped(p, next) ==
    ~linked[p] \/ ~canTransitionLifecycle(lifecycle, next)

LifecycleRead(x, p, next) ==
    /\ ~LifecycleDropped(p, next)
    /\ lifeSeen' = [lifeSeen EXCEPT ![x] = lifecycle]

\* Bug: the write does not compare.
BugLifecycleSwap(x, next) ==
    /\ lifecycle' = next
    /\ lifeSeen' = [lifeSeen EXCEPT ![x] = NoStatus]

LifecycleSwap(x, next) ==
    /\ lifecycle' = IF lifecycle = lifeSeen[x] THEN next ELSE lifecycle
    /\ lifeSeen' = [lifeSeen EXCEPT ![x] = NoStatus]

InitiatorLifecycleDropped(p) ==
    /\ ipc[p] = "lifeRead"
    /\ LifecycleDropped(p, "PAYMENT_INITIATED")
    /\ ipc' = [ipc EXCEPT ![p] = "returned"]
    /\ UNCHANGED <<tables, locks, stripe, handler, lifeSeen, budgets>>

InitiatorLifecycleRead(p) ==
    /\ ipc[p] = "lifeRead"
    /\ LifecycleRead(p, p, "PAYMENT_INITIATED")
    /\ ipc' = [ipc EXCEPT ![p] = "lifeSwap"]
    /\ UNCHANGED <<tables, locks, stripe, handler, budgets>>

\* With the lifecycle moved the request returns the checkout URL.
InitiatorLifecycleSwap(p) ==
    /\ ipc[p] = "lifeSwap"
    /\ LifecycleSwap(p, "PAYMENT_INITIATED")
    /\ ipc' = [ipc EXCEPT ![p] = "returned"]
    /\ UNCHANGED <<status, hasIntent, linked, events, orderStatus, history,
                   webhook, locks, stripe, handler, budgets>>

\* A database call of the initiator throws and nothing catches it.
InitiatorThrows(p) ==
    /\ throws < MaxThrows
    /\ ipc[p] \in {"failing", "record", "note", "lifeRead", "lifeSwap"}
    /\ throws' = throws + 1
    /\ ipc' = [ipc EXCEPT ![p] = "aborted"]
    /\ lifeSeen' = [lifeSeen EXCEPT ![p] = NoStatus]
    /\ UNCHANGED <<tables, locks, stripe, handler, crashes>>

Initiator(p) ==
    \/ InitiateStripe(p) \/ InitiateWire(p)
    \/ OpenSession(p) \/ SessionThrows(p)
    \/ FailInitiation(p) \/ FailInitiationConflict(p)
    \/ RecordSession(p) \/ NoteSession(p)
    \/ InitiatorLifecycleDropped(p) \/ InitiatorLifecycleRead(p)
    \/ InitiatorLifecycleSwap(p)

-----------------------------------------------------------------------------
(* Webhook handling: StripeWebhookController.receive and applyStripeEvent. *)

\* The worker is done with its event: its local state is dropped.
Return(w) ==
    /\ pc' = [pc EXCEPT ![w] = "idle"]
    /\ ev' = [ev EXCEPT ![w] = NoEvent]
    /\ snap' = [snap EXCEPT ![w] = NoStatus]
    /\ outcome' = [outcome EXCEPT ![w] = NoOutcome]

Goto(w, l) == pc' = [pc EXCEPT ![w] = l]

\* Go to markProcessed with the string the handler returned.
Finish(w, o) ==
    /\ outcome' = [outcome EXCEPT ![w] = o]
    /\ Goto(w, "mark")

\* A delivery passes the signature guard and is answered 200 before anything
\* is done about it.
Receive(w, e) ==
    /\ pc[w] = "idle"
    /\ e \in Emitted
    /\ acked' = acked \union {e}
    /\ ev' = [ev EXCEPT ![w] = e]
    /\ Goto(w, "claim")
    /\ UNCHANGED <<tables, locks, session, declined, snap, outcome, initiator,
                   lifeSeen, budgets>>

\* Bug: an event that is claimed already is claimed again.
BugClaim(w) ==
    /\ pc[w] = "claim"
    /\ webhook' = [webhook EXCEPT ![ev[w]] = WebhookRow("RECEIVED", NoOutcome)]
    /\ Goto(w, "load")
    /\ UNCHANGED <<status, hasIntent, linked, events, orderStatus, history,
                   lifecycle, locks, stripe, ev, snap, outcome, initiator,
                   lifeSeen, budgets>>

\* claim: the insert is decided by the unique index on the event id.
Claim(w) ==
    /\ pc[w] = "claim"
    /\ webhook[ev[w]] = Absent
    /\ webhook' = [webhook EXCEPT ![ev[w]] = WebhookRow("RECEIVED", NoOutcome)]
    /\ Goto(w, "load")
    /\ UNCHANGED <<status, hasIntent, linked, events, orderStatus, history,
                   lifecycle, locks, stripe, ev, snap, outcome, initiator,
                   lifeSeen, budgets>>

\* The insert violates the index (P2002): duplicate_event, whatever became of
\* the claim that got there first.
ClaimDuplicate(w) ==
    /\ pc[w] = "claim"
    /\ webhook[ev[w]] # Absent
    /\ Return(w)
    /\ UNCHANGED <<tables, locks, stripe, initiator, lifeSeen, budgets>>

\* dispatchStripeEvent and the handlers' first exits: a type nobody handles,
\* or an event without the metadata of a payment of ours.
Ignore(w) ==
    /\ pc[w] = "load"
    /\ \/ /\ ev[w].type = OtherType
          /\ Finish(w, "ignored_event_type")
       \/ /\ ev[w].type # OtherType
          /\ ev[w].payment = NoPayment
          /\ Finish(w, "no_payment_metadata")
    /\ UNCHANGED <<tables, locks, stripe, ev, snap, initiator, lifeSeen,
                   budgets>>

\* The handlers read the payment, outside any transaction.
LoadPayment(w) ==
    /\ pc[w] = "load"
    /\ ev[w].type # OtherType
    /\ ev[w].payment # NoPayment
    /\ snap' = [snap EXCEPT ![w] = status[ev[w].payment]]
    /\ Goto(w, "check")
    /\ UNCHANGED <<tables, locks, stripe, ev, outcome, initiator, lifeSeen,
                   budgets>>

\* What the handlers do about a payment they read in status s: the outcome if
\* they leave the payment alone, and whether they then write an audit row.
NoOpOutcome(e, s) ==
    IF isSuccess(e)
    THEN IF s = "CONFIRMED" THEN "already_confirmed"
         ELSE "invalid_transition_noop"
    ELSE IF isTerminal(s) THEN "already_terminal"
         ELSE "invalid_transition_noop"

\* Bug: a success that is refused leaves no row.
BugIsAudited(e, s) == ~isSuccess(e) /\ isTerminal(s)

isAudited(e, s) == isSuccess(e) \/ isTerminal(s)

\* hasProcessedStripeEvent, then the branches on the status that was read.
Decide(w) ==
    LET e == ev[w]
        legal == canTransition(snap[w], Target(e))
        seen == hasProcessedStripeEvent(e.payment, e)
    IN
    /\ pc[w] = "check"
    /\ \/ /\ legal /\ ~seen
          /\ Goto(w, "swap")
          /\ UNCHANGED outcome
       \/ /\ ~legal \/ seen
          /\ outcome' = [outcome EXCEPT ![w] =
                IF seen THEN "duplicate_event" ELSE NoOpOutcome(e, snap[w])]
          /\ Goto(w, IF ~seen /\ isAudited(e, snap[w]) THEN "audit" ELSE "mark")
    /\ UNCHANGED <<tables, locks, stripe, ev, snap, initiator, lifeSeen,
                   budgets>>

\* The audit-only row of a no-op: the status that was read, twice.
Audit(w) ==
    /\ pc[w] = "audit"
    /\ events' = [events EXCEPT ![ev[w].payment] =
                     Append(@, Row(snap[w], snap[w], ev[w]))]
    /\ Goto(w, "mark")
    /\ UNCHANGED <<status, hasIntent, linked, orderStatus, history, lifecycle,
                   webhook, locks, stripe, ev, snap, outcome, initiator,
                   lifeSeen, budgets>>

\* Bug: the transaction trusts the status that was read before it.
BugSwapStale(w) ==
    LET p == ev[w].payment IN
    /\ pc[w] = "swap"
    /\ payLock[p] = Free
    /\ payLock' = [payLock EXCEPT ![p] = w]
    /\ Goto(w, IF isSuccess(ev[w]) THEN "readOrder" ELSE "commit")
    /\ UNCHANGED <<tables, ordLock, stripe, ev, snap, outcome, initiator,
                   lifeSeen, budgets>>

\* Bug: the status is compared by a plain read, which takes no row lock.
BugSwapUnlocked(w) ==
    LET p == ev[w].payment IN
    /\ pc[w] = "swap"
    /\ status[p] = snap[w]
    /\ payLock' = [payLock EXCEPT ![p] = w]
    /\ Goto(w, IF isSuccess(ev[w]) THEN "readOrder" ELSE "commit")
    /\ UNCHANGED <<tables, ordLock, stripe, ev, snap, outcome, initiator,
                   lifeSeen, budgets>>

\* transitionWithinTx in the handler's transaction: the conditional update
\* finds the status that was read and locks the row.
Swap(w) ==
    LET p == ev[w].payment IN
    /\ pc[w] = "swap"
    /\ payLock[p] = Free
    /\ status[p] = snap[w]
    /\ payLock' = [payLock EXCEPT ![p] = w]
    /\ Goto(w, IF isSuccess(ev[w]) THEN "readOrder" ELSE "commit")
    /\ UNCHANGED <<tables, ordLock, stripe, ev, snap, outcome, initiator,
                   lifeSeen, budgets>>

\* Bug: the conflict is taken for a duplicate and the event is left as it is.
BugSwapConflict(w) ==
    LET p == ev[w].payment IN
    /\ pc[w] = "swap"
    /\ payLock[p] = Free
    /\ status[p] # snap[w]
    /\ Return(w)
    /\ UNCHANGED <<tables, locks, stripe, initiator, lifeSeen, budgets>>

\* The update matches no row: ConflictException, rolled back.
SwapConflict(w) ==
    LET p == ev[w].payment IN
    /\ pc[w] = "swap"
    /\ payLock[p] = Free
    /\ status[p] # snap[w]
    /\ Goto(w, "fail")
    /\ UNCHANGED <<tables, locks, stripe, ev, snap, outcome, initiator,
                   lifeSeen, budgets>>

\* Bug: the order is advanced only for a payment with a linked conversation.
BugReadOrder(w) ==
    /\ pc[w] = "readOrder"
    /\ Goto(w, IF orderStatus[OrderOf[ev[w].payment]] = "PENDING"
                    /\ linked[ev[w].payment]
               THEN "updateOrder" ELSE "commit")
    /\ UNCHANGED <<tables, locks, stripe, ev, snap, outcome, initiator,
                   lifeSeen, budgets>>

\* confirmOrderIfPossible reads the order without a lock.
ReadOrder(w) ==
    /\ pc[w] = "readOrder"
    /\ Goto(w, IF orderStatus[OrderOf[ev[w].payment]] = "PENDING"
               THEN "updateOrder" ELSE "commit")
    /\ UNCHANGED <<tables, locks, stripe, ev, snap, outcome, initiator,
                   lifeSeen, budgets>>

\* tx.order.update by primary key: no condition on the status that was read.
UpdateOrder(w) ==
    LET o == OrderOf[ev[w].payment] IN
    /\ pc[w] = "updateOrder"
    /\ ordLock[o] = Free
    /\ ordLock' = [ordLock EXCEPT ![o] = w]
    /\ Goto(w, "commit")
    /\ UNCHANGED <<tables, payLock, stripe, ev, snap, outcome, initiator,
                   lifeSeen, budgets>>

\* Bug: the order of a payment is not updated while another payment of it is
\* confirmed.
BugUpdatesOrder(w, o) ==
    /\ ordLock[o] = w
    /\ \A p \in Payments : OrderOf[p] = o => p = ev[w].payment \/ payLock[p] = Free

\* Has the transaction of w an order update to commit?
UpdatesOrder(w, o) == ordLock[o] = w

Release(w) ==
    /\ payLock' = [p \in Payments |-> IF payLock[p] = w THEN Free ELSE payLock[p]]
    /\ ordLock' = [o \in Orders |-> IF ordLock[o] = w THEN Free ELSE ordLock[o]]

\* The transaction commits: status and event row, the identifiers a success
\* carries, and the order with its history row when it was found PENDING.
Commit(w) ==
    LET p == ev[w].payment
        to == Target(ev[w])
    IN
    /\ pc[w] = "commit"
    /\ status' = [status EXCEPT ![p] = to]
    /\ events' = [events EXCEPT ![p] = Append(@, Row(snap[w], to, ev[w]))]
    /\ hasIntent' = [hasIntent EXCEPT ![p] = @ \/ isSuccess(ev[w])]
    /\ orderStatus' = [o \in Orders |->
                         IF UpdatesOrder(w, o) THEN "CONFIRMED" ELSE orderStatus[o]]
    /\ history' = [o \in Orders |->
                     IF UpdatesOrder(w, o) /\ HasOwner THEN history[o] + 1
                     ELSE history[o]]
    /\ Release(w)
    /\ outcome' = [outcome EXCEPT ![w] =
                     IF isSuccess(ev[w]) THEN "confirmed" ELSE "failed"]
    /\ Goto(w, IF isSuccess(ev[w]) THEN "lifeRead" ELSE "mark")
    /\ UNCHANGED <<linked, lifecycle, webhook, stripe, ev, snap, initiator,
                   lifeSeen, budgets>>

WorkerLifecycleDropped(w) ==
    /\ pc[w] = "lifeRead"
    /\ LifecycleDropped(ev[w].payment, "PAYMENT_CONFIRMED")
    /\ Goto(w, "mark")
    /\ UNCHANGED <<tables, locks, stripe, ev, snap, outcome, initiator,
                   lifeSeen, budgets>>

WorkerLifecycleRead(w) ==
    /\ pc[w] = "lifeRead"
    /\ LifecycleRead(w, ev[w].payment, "PAYMENT_CONFIRMED")
    /\ Goto(w, "lifeSwap")
    /\ UNCHANGED <<tables, locks, stripe, ev, snap, outcome, initiator, budgets>>

WorkerLifecycleSwap(w) ==
    /\ pc[w] = "lifeSwap"
    /\ LifecycleSwap(w, "PAYMENT_CONFIRMED")
    /\ Goto(w, "mark")
    /\ UNCHANGED <<status, hasIntent, linked, events, orderStatus, history,
                   webhook, locks, stripe, ev, snap, outcome, initiator,
                   budgets>>

markProcessed(w) ==
    /\ pc[w] = "mark"
    /\ webhook' = [webhook EXCEPT ![ev[w]] = WebhookRow("PROCESSED", outcome[w])]
    /\ Return(w)
    /\ UNCHANGED <<status, hasIntent, linked, events, orderStatus, history,
                   lifecycle, locks, stripe, initiator, lifeSeen, budgets>>

markFailed(w) ==
    /\ pc[w] = "fail"
    /\ webhook' = [webhook EXCEPT ![ev[w]] = WebhookRow("FAILED", NoOutcome)]
    /\ Return(w)
    /\ UNCHANGED <<status, hasIntent, linked, events, orderStatus, history,
                   lifecycle, locks, stripe, initiator, lifeSeen, budgets>>

\* A database call of the handler throws: an open transaction is rolled back
\* and the catch block of applyStripeEvent marks the event failed. A call may
\* throw after it took effect, which is a throw at the step that follows it.
HandlerThrows(w) ==
    /\ throws < MaxThrows
    /\ pc[w] \in {"load", "check", "audit", "swap", "readOrder", "updateOrder",
                  "commit", "lifeRead", "lifeSwap", "mark"}
    /\ throws' = throws + 1
    /\ Release(w)
    /\ Goto(w, "fail")
    /\ lifeSeen' = [lifeSeen EXCEPT ![w] = NoStatus]
    /\ UNCHANGED <<tables, stripe, ev, snap, outcome, initiator, crashes>>

\* The claim or markFailed throws: the controller swallows the error.
ErrorSwallowed(w) ==
    /\ throws < MaxThrows
    /\ pc[w] \in {"claim", "fail"}
    /\ throws' = throws + 1
    /\ Return(w)
    /\ UNCHANGED <<tables, locks, stripe, initiator, lifeSeen, crashes>>

HandlerStep(w) ==
    \/ Claim(w) \/ ClaimDuplicate(w)
    \/ Ignore(w) \/ LoadPayment(w) \/ Decide(w)
    \/ Audit(w) \/ Swap(w) \/ SwapConflict(w)
    \/ ReadOrder(w) \/ UpdateOrder(w) \/ Commit(w)
    \/ WorkerLifecycleDropped(w) \/ WorkerLifecycleRead(w)
    \/ WorkerLifecycleSwap(w)
    \/ markProcessed(w) \/ markFailed(w)

-----------------------------------------------------------------------------
(* The environment.                                                        *)

\* The customer has the URL only once the request has returned it.
CanPay(p) == session[p] = "open" /\ ipc[p] = "returned"

CustomerPays(p) ==
    /\ CanPay(p)
    /\ session' = [session EXCEPT ![p] = "complete"]
    /\ UNCHANGED <<tables, locks, declined, acked, handler, initiator,
                   lifeSeen, budgets>>

\* A declined card leaves the session open for another attempt.
CardDeclined(p) ==
    /\ CanPay(p)
    /\ p \notin declined
    /\ declined' = declined \union {p}
    /\ UNCHANGED <<tables, locks, session, acked, handler, initiator, lifeSeen,
                   budgets>>

SessionExpires(p) ==
    /\ session[p] = "open"
    /\ session' = [session EXCEPT ![p] = "expired"]
    /\ UNCHANGED <<tables, locks, declined, acked, handler, initiator,
                   lifeSeen, budgets>>

\* Another component moves the lifecycle through the same mutator.
OtherLifecycleMove(next) ==
    /\ lifecycle # next
    /\ canTransitionLifecycle(lifecycle, next)
    /\ lifecycle' = next
    /\ UNCHANGED <<status, hasIntent, linked, events, orderStatus, history,
                   webhook, locks, stripe, handler, initiator, lifeSeen,
                   budgets>>

\* The process dies: requests in flight are gone, the database rolls their
\* transactions back. The restarted process resumes nothing.
Crash ==
    /\ crashes < MaxCrashes
    /\ crashes' = crashes + 1
    /\ payLock' = [p \in Payments |-> Free]
    /\ ordLock' = [o \in Orders |-> Free]
    /\ pc' = [w \in Workers |-> "idle"]
    /\ ev' = [w \in Workers |-> NoEvent]
    /\ snap' = [w \in Workers |-> NoStatus]
    /\ outcome' = [w \in Workers |-> NoOutcome]
    /\ ipc' = [p \in Payments |->
                 IF ipc[p] \in {"new", "returned"} THEN ipc[p] ELSE "aborted"]
    /\ lifeSeen' = [x \in Workers \union Payments |-> NoStatus]
    /\ UNCHANGED <<tables, stripe, throws>>

-----------------------------------------------------------------------------
Next ==
    \/ \E p \in Payments : Initiator(p) \/ InitiatorThrows(p)
    \/ \E w \in Workers, e \in Events : Receive(w, e)
    \/ \E w \in Workers : HandlerStep(w) \/ HandlerThrows(w) \/ ErrorSwallowed(w)
    \/ \E p \in Payments : CustomerPays(p) \/ CardDeclined(p) \/ SessionExpires(p)
    \/ \E s \in OtherMoves : OtherLifecycleMove(s)
    \/ Crash

Spec == Init /\ [][Next]_vars

\* Every step that the code always takes next is taken: the event loop and the
\* database make progress. Stripe redelivers until it is answered 200, closes
\* every session within a day, and the server accepts every request (Workers
\* bounds the model, not the server: hence strong fairness).
Fairness ==
    /\ \A w \in Workers : WF_vars(HandlerStep(w))
    /\ \A p \in Payments :
         WF_vars(Initiator(p) /\ ipc[p] # "new") /\ WF_vars(SessionExpires(p))
    /\ \A e \in Events : SF_vars(e \notin acked /\ \E w \in Workers : Receive(w, e))

LiveSpec == Spec /\ Fairness

-----------------------------------------------------------------------------
(* Properties.                                                             *)

WorkerPCs == {"idle", "claim", "load", "check", "audit", "swap", "readOrder",
              "updateOrder", "commit", "lifeRead", "lifeSwap", "mark", "fail"}
InitiatorPCs == {"new", "session", "failing", "record", "note", "lifeRead",
                 "lifeSwap", "returned", "aborted"}

\* Every variable has its type.
TypeOK ==
    /\ status \in [Payments -> PaymentStatuses \union {NoStatus}]
    /\ hasIntent \in [Payments -> BOOLEAN]
    /\ linked \in [Payments -> BOOLEAN]
    /\ events \in [Payments -> Seq(Rows)]
    /\ orderStatus \in [Orders -> {"PENDING", "CONFIRMED"}]
    /\ history \in [Orders -> Nat]
    /\ lifecycle \in LifecycleStatuses
    /\ webhook \in [Events -> [status : {"absent", "RECEIVED", "PROCESSED", "FAILED"},
                              outcome : Outcomes \union {NoOutcome}]]
    /\ payLock \in [Payments -> Workers \union {Free}]
    /\ ordLock \in [Orders -> Workers \union {Free}]
    /\ session \in [Payments -> {"none", "open", "complete", "expired"}]
    /\ declined \in SUBSET Payments
    /\ acked \in SUBSET Events
    /\ pc \in [Workers -> WorkerPCs]
    /\ ev \in [Workers -> Events \union {NoEvent}]
    /\ snap \in [Workers -> PaymentStatuses \union {NoStatus}]
    /\ outcome \in [Workers -> Outcomes \union {NoOutcome}]
    /\ ipc \in [Payments -> InitiatorPCs]
    /\ lifeSeen \in [Workers \union Payments -> LifecycleStatuses \union {NoStatus}]
    /\ throws \in 0..MaxThrows
    /\ crashes \in 0..MaxCrashes

isChange(r) == r.prev # r.new

\* "Every status change writes a PaymentEvent in the same transaction": the
\* rows that change the status form a chain from the creation of the payment
\* to its current status, whatever requests interleaved, threw or died.
AuditTrail ==
    \A p \in Payments :
        LET log == events[p]
            change == {i \in DOMAIN log : isChange(log[i])}
            lastBefore(i, n) == i < n /\ \A j \in change : j < n => j <= i
        IN  /\ \A n \in change :
                 \/ n = 1 /\ log[n].prev = NoStatus
                 \/ \E i \in change : lastBefore(i, n) /\ log[i].new = log[n].prev
            /\ IF status[p] = NoStatus THEN log = <<>>
               ELSE \E i \in change : lastBefore(i, Len(log) + 1)
                                      /\ log[i].new = status[p]

\* An order is confirmed exactly when one of its payments is: the webhook
\* transaction writes both or neither, and two payments of one order that
\* are confirmed at the same time do not lose the order's confirmation.
OrderFollowsPayment ==
    \A o \in Orders :
        orderStatus[o] = "CONFIRMED" <=>
            \E p \in Payments : OrderOf[p] = o /\ status[p] = "CONFIRMED"

\* A payment is confirmed only if its customer has paid, and it keeps the
\* payment intent it was paid with: the initiating request, which writes the
\* same column, never overwrites it.
ConfirmedMeansPaid ==
    \A p \in Payments :
        status[p] = "CONFIRMED" => session[p] = "complete" /\ hasIntent[p]

\* A customer who paid at the first attempt does not end with a failed
\* payment, however late or often the events arrive.
PaidNotFailed ==
    \A p \in Payments :
        session[p] = "complete" /\ p \notin declined => status[p] # "FAILED"

\* However often Stripe delivers an event, it leaves at most one PaymentEvent
\* row: the claim on webhook_events alone makes processing idempotent.
AppliedOnce ==
    \A p \in Payments :
        \A i, j \in DOMAIN events[p] :
            events[p][i].event = events[p][j].event
                /\ events[p][i].event # NoEvent => i = j

\* The outcome in the webhook_events row is what happened: a processed success
\* of one of our payments has its row in the audit log, confirmed or refused,
\* and an event recorded as confirmed or failed made that change.
OutcomeIsTruthful ==
    \A e \in SessionEvents :
        webhook[e].status = "PROCESSED" =>
            /\ isSuccess(e) => hasProcessedStripeEvent(e.payment, e)
            /\ webhook[e].outcome \in {"confirmed", "failed"} =>
                 \E i \in DOMAIN events[e.payment] :
                     LET r == events[e.payment][i]
                     IN  r.event = e /\ isChange(r) /\ r.new = Target(e)

\* A payment's status changes only along the state machine, although the
\* handlers decide on a status they read before their transaction.
StatusMovesLegal ==
    [][\A p \in Payments :
         status'[p] # status[p] =>
             status[p] = NoStatus \/ canTransition(status[p], status'[p])]_status

\* The lifecycle changes only along its grammar, although the mutator reads
\* the current status in one statement and writes the next in another: in
\* particular a slow initiation never takes a conversation from
\* PAYMENT_CONFIRMED back to PAYMENT_INITIATED.
LifecycleFollowsGrammar ==
    [][canTransitionLifecycle(lifecycle, lifecycle')]_lifecycle

\* Without faults every claimed event is marked processed or failed.
ClaimsAreMarked ==
    \A e \in Events :
        webhook[e].status = "RECEIVED" ~> webhook[e].status \in {"PROCESSED", "FAILED"}

\* Without faults a payment with a session is eventually confirmed or failed.
SessionsSettle ==
    \A p \in Payments :
        session[p] # "none" ~> status[p] \in {"CONFIRMED", "FAILED"}

\* Without faults a customer who paid at the first attempt gets the payment
\* confirmed.
PaidIsConfirmed ==
    \A p \in Payments :
        session[p] = "complete" /\ p \notin declined ~> status[p] = "CONFIRMED"

\* Implements the abstract ledger: the events recorded on a payment are those
\* its rows carry.
recordedEvents ==
    [p \in Payments |->
        {e \in Events : \E i \in DOMAIN events[p] : events[p][i].event = e}]

Ledger == INSTANCE PaymentLedger WITH recorded <- recordedEvents

LedgerSpec == Ledger!Spec

(* What a comment of the code says, and an execution contradicts.          *)

\* confirmOrderIfPossible: "only auto-advance from PENDING". A history row
\* PENDING -> CONFIRMED is written only if the order was PENDING.
AdvancesFromPendingOnly ==
    [][\A o \in Orders : history'[o] # history[o] => orderStatus[o] = "PENDING"]_history
=============================================================================
