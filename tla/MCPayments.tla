----------------------------- MODULE MCPayments -----------------------------
(***************************************************************************)
(* Small instances of Payments for TLC.                                    *)
(***************************************************************************)
EXTENDS Payments, TLC

CONSTANTS p1, p2, o1, w1, w2

\* Two payments of one order: the second request was sent before the first
\* was paid.
MCSameOrder == [p \in Payments |-> o1]

MCNoStray == {}
MCNoMoves == {}

\* An event of another integration on the same Stripe account, and one of a
\* type that nobody handles.
MCStray == {[payment |-> NoPayment, type |-> "checkout.session.completed"],
            [payment |-> p1, type |-> OtherType]}

\* The agent answers and analyses while the payment is under way.
MCMoves == {"AGENT_ANALYZING", "AGENT_REPLIED_WAITING"}

MCSymmetry == Permutations(Workers) \union Permutations(Payments)
=============================================================================
