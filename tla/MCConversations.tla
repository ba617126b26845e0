--------------------------- MODULE MCConversations ---------------------------
(***************************************************************************)
(* Small instances of Conversations for TLC.                               *)
(***************************************************************************)
EXTENDS Conversations, TLC

CONSTANTS e1, e2, w1, w2, u1, u2, q1, q2, j1, j2, y1, y2

MCSymmetry ==
    Permutations(Workers) \union Permutations(Requests) \union Permutations(Jobs)
        \union Permutations(Replays) \union Permutations(Users)
=============================================================================
