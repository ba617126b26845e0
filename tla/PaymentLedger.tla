--------------------------- MODULE PaymentLedger ---------------------------
(***************************************************************************)
(* What the payment service promises, without requests, transactions or    *)
(* webhook rows (payments/payments.service.ts, its "cross-cutting          *)
(* invariants"): a payment moves along the state machine, a Stripe event   *)
(* is recorded on it at most once, in the same step as the move it causes, *)
(* and confirming a payment confirms its order in that step.               *)
(***************************************************************************)
EXTENDS PaymentStates

CONSTANTS Payments, Orders, OrderOf, Events

VARIABLES status,       \* status of each payment, none before it exists
          recorded,     \* events recorded on each payment
          orderStatus

ledger == <<status, recorded, orderStatus>>

Init ==
    /\ status = [p \in Payments |-> "none"]
    /\ recorded = [p \in Payments |-> {}]
    /\ orderStatus = [o \in Orders |-> "PENDING"]

\* A payment comes into existence in the initial status of its method.
Open(p) ==
    /\ status[p] = "none"
    /\ \E m \in PaymentMethods :
         status' = [status EXCEPT ![p] = InitialStatusForMethod[m]]
    /\ UNCHANGED <<recorded, orderStatus>>

\* Event e, new to the payment, is recorded on it.
Record(p, e) ==
    /\ status[p] # "none"
    /\ e \notin recorded[p]
    /\ recorded' = [recorded EXCEPT ![p] = @ \union {e}]

\* An event that changes nothing else.
Note(p, e) ==
    /\ Record(p, e)
    /\ UNCHANGED <<status, orderStatus>>

Confirm(p, e) ==
    /\ Record(p, e)
    /\ canTransition(status[p], "CONFIRMED")
    /\ status' = [status EXCEPT ![p] = "CONFIRMED"]
    /\ orderStatus' = [orderStatus EXCEPT ![OrderOf[p]] = "CONFIRMED"]

Move(p) ==
    /\ canTransition(status[p], "FAILED")
    /\ status' = [status EXCEPT ![p] = "FAILED"]
    /\ UNCHANGED orderStatus

Fail(p, e) == Move(p) /\ Record(p, e)

\* The initiating request gives the payment up: no event is involved.
GiveUp(p) == Move(p) /\ UNCHANGED recorded

Next ==
    \E p \in Payments :
        \/ Open(p) \/ GiveUp(p)
        \/ \E e \in Events : Note(p, e) \/ Confirm(p, e) \/ Fail(p, e)

Spec == Init /\ [][Next]_ledger
=============================================================================
