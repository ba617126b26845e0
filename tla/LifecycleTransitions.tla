------------------------ MODULE LifecycleTransitions ------------------------
(***************************************************************************)
(* The lifecycle grammar of conversations/lifecycle-transitions.ts: which  *)
(* status of Conversation.lifecycleStatus the central mutator accepts as   *)
(* the next one.                                                           *)
(***************************************************************************)

ClosedLifecycles == {"AUTO_CLOSED_INACTIVE", "CLOSED_BY_CLIENT"}

\* What nearly every status may move to: the operator surface, the agent
\* and the two ways a thread ends.
CommonTargets == {"AGENT_REPLIED_WAITING", "NEEDS_ATTENTION",
                  "AGENT_ANALYZING"} \union ClosedLifecycles

\* ANY_NON_TERMINAL of the source: every status but NEW.
AnyNonTerminal ==
    CommonTargets \union
        {"INTERESTED", "APPOINTMENT_PENDING", "APPOINTMENT_BOOKED",
         "ORDER_PLACED", "PAYMENT_INITIATED", "PAYMENT_PENDING_REVIEW",
         "PAYMENT_CONFIRMED"}

LifecycleStatuses == AnyNonTerminal \union {"NEW"}

\* Accepted moves between two different statuses, as <<current, next>>.
LifecycleMoves ==
    ({"NEW", "NEEDS_ATTENTION", "AGENT_REPLIED_WAITING"} \X AnyNonTerminal)
      \union ({"AGENT_ANALYZING"} \X
                ((CommonTargets \ {"AGENT_ANALYZING"}) \union
                   {"INTERESTED", "APPOINTMENT_PENDING", "APPOINTMENT_BOOKED",
                    "ORDER_PLACED", "PAYMENT_INITIATED"}))
      \union ({"INTERESTED"} \X
                (CommonTargets \union
                   {"APPOINTMENT_PENDING", "APPOINTMENT_BOOKED",
                    "ORDER_PLACED", "PAYMENT_INITIATED"}))
      \union ({"APPOINTMENT_PENDING"} \X
                (CommonTargets \union {"APPOINTMENT_BOOKED"}))
      \union ({"APPOINTMENT_BOOKED"} \X
                (CommonTargets \union {"ORDER_PLACED", "PAYMENT_INITIATED"}))
      \union ({"ORDER_PLACED"} \X
                (CommonTargets \union
                   {"PAYMENT_INITIATED", "PAYMENT_PENDING_REVIEW",
                    "PAYMENT_CONFIRMED"}))
      \union ({"PAYMENT_INITIATED"} \X
                (CommonTargets \union
                   {"PAYMENT_PENDING_REVIEW", "PAYMENT_CONFIRMED"}))
      \union ({"PAYMENT_PENDING_REVIEW"} \X
                (CommonTargets \union
                   {"PAYMENT_CONFIRMED", "PAYMENT_INITIATED"}))
      \union ({"PAYMENT_CONFIRMED"} \X CommonTargets)
      \union (ClosedLifecycles \X
                {"AGENT_ANALYZING", "AGENT_REPLIED_WAITING",
                 "NEEDS_ATTENTION", "NEW"})

canTransitionLifecycle(from, to) == from = to \/ <<from, to>> \in LifecycleMoves
=============================================================================
