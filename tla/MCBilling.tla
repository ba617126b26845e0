------------------------------ MODULE MCBilling ------------------------------
(***************************************************************************)
(* Small instances of Billing for TLC: a company with an agent plan that   *)
(* may be upgraded to a plan of another niche, and a website plan.         *)
(***************************************************************************)
EXTENDS Billing, TLC

CONSTANTS q1, q2, q3, basic, gold, site

MCCategory == (basic :> "AI_AGENTS") @@ (gold :> "AI_AGENTS") @@ (site :> "WEBSITE")
MCNiche == (basic :> "HEALTH") @@ (gold :> "LEGAL") @@ (site :> "HEALTH")
MCOnboarded == <<basic>>
=============================================================================
