--------------------------- MODULE PaymentStates ---------------------------
(***************************************************************************)
(* The payment state machine of payments/state/payment-state.ts: the       *)
(* statuses, the legal forward moves and the terminal statuses, shared by  *)
(* the payment service model and the abstract ledger.                      *)
(***************************************************************************)

PaymentStatuses == {"INITIATED", "AWAITING_SCREENSHOT", "PENDING_REVIEW",
                    "CONFIRMED", "FAILED", "CANCELLED", "REFUNDED"}

PaymentMethods == {"STRIPE", "WIRE_TRANSFER"}

\* Bug (a mutant, used nowhere): a Stripe payment cannot fail.
BugCommonTransitions ==
    {<<"INITIATED", "CONFIRMED">>, <<"INITIATED", "CANCELLED">>,
     <<"AWAITING_SCREENSHOT", "PENDING_REVIEW">>,
     <<"PENDING_REVIEW", "CONFIRMED">>, <<"PENDING_REVIEW", "FAILED">>,
     <<"CONFIRMED", "REFUNDED">>}

\* Legal forward transitions, as <<current, next>> pairs.
CommonTransitions ==
    ({"INITIATED"} \X {"CONFIRMED", "FAILED", "CANCELLED"})
        \union ({"AWAITING_SCREENSHOT"} \X {"PENDING_REVIEW", "CANCELLED"})
        \union ({"PENDING_REVIEW"} \X {"CONFIRMED", "FAILED"})
        \union ({"CONFIRMED"} \X {"REFUNDED"})

\* The status a payment is created in, by method.
InitialStatusForMethod ==
    [m \in PaymentMethods |->
        IF m = "STRIPE" THEN "INITIATED" ELSE "AWAITING_SCREENSHOT"]

TerminalStatuses == {"FAILED", "CANCELLED", "REFUNDED"}

isTerminal(s) == s \in TerminalStatuses

canTransition(from, to) == from # to /\ <<from, to>> \in CommonTransitions
=============================================================================
