------------------------------ MODULE MCPlatform ------------------------------
(***************************************************************************)
(* Small instances of Platform for TLC: a company without an agent, one    *)
(* with two configurations of which the newer one is for WhatsApp, a       *)
(* client and a company administrator. The client company has the number   *)
(* that the platform sends from.                                           *)
(***************************************************************************)
EXTENDS Platform, TLC

CONSTANTS q1, q2, e1, e2, e3, manage, access, main, own, sandbox

MCRoleKeys == [r \in Roles |-> IF r = "SUPER_ADMIN" THEN {access} ELSE {manage}]
MCDefaultOn == [r \in Roles |-> IF r = "COMPANY_STAFF" THEN {manage} ELSE {}]
MCFounders ==
    << [email |-> e1, role |-> "CLIENT", company |-> 1],
       [email |-> e2, role |-> "COMPANY_ADMIN", company |-> 1] >>
MCFounded == << <<>>, <<[DefaultConfig EXCEPT !.whatsapp = FALSE], DefaultConfig>> >>
MCLines == << [company |-> 1, number |-> main], [company |-> 2, number |-> own] >>
=============================================================================
