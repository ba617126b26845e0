---------------------------- MODULE MCScheduling ----------------------------
(***************************************************************************)
(* Small instances of Scheduling for TLC.                                  *)
(***************************************************************************)
EXTENDS Scheduling, TLC

CONSTANTS x1, x2, q1, q2, q3, r1, owner, client, operator, other, c1

MCContact == [x \in {x1, x2} |-> c1]
MCRole == (owner :> "COMPANY_ADMIN") @@ (client :> "CLIENT")
            @@ (operator :> "SUPER_ADMIN") @@ (other :> "CLIENT")
MCUsers == DOMAIN MCRole

\* Days of six instants, a company two instants ahead of UTC.
MCOffset == 2
MCHours == { [staff |-> 1, day |-> 0, from |-> 2, to |-> 5],
             [staff |-> 2, day |-> 1, from |-> 1, to |-> 3],
             [staff |-> 1, day |-> 1, from |-> 0, to |-> 4] }

MCHints == {AnyTime, 4}

\* A meeting of a staff member with the contact, and one with somebody who has
\* left; one of SimplexLabs with the client is stored already.
MCDrafts == { [staff |-> s, contact |-> c1, type |-> "CLIENT_WITH_CONTACT",
               start |-> 4, dur |-> 3] : s \in {1, 3} }
MCStored == << [staff |-> AnyStaff, contact |-> Nobody,
                type |-> "SIMPLEX_WITH_CLIENT", start |-> 1, dur |-> 1] >>

MCMoves == { [start |-> 0, dur |-> 3], [start |-> 6, dur |-> 2] }
MCBlocks == { [staff |-> 1, start |-> 0, end |-> 2],
              [staff |-> AnyStaff, start |-> 6, end |-> 7] }

MCGuests == { NoGuests,
              [users |-> {operator, owner}, contacts |-> {c1}],
              [users |-> {client}, contacts |-> {}] }
MCSymmetry == Permutations({x1, x2}) \union Permutations({q1, q2, q3})
=============================================================================
