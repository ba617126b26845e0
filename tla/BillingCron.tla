------------------------------ MODULE BillingCron ------------------------------
(***************************************************************************)
(* The daily job that marks subscriptions overdue                          *)
(* (subscriptions/billing-cron.service.ts). It works through the list it   *)
(* read and does not look at a row again before it marks it; a row that    *)
(* fails is left to the next day's job.                                    *)
(***************************************************************************)
EXTENDS Subscriptions

VARIABLE due        \* what the running job has still to mark

InitCron == due = {}

\* Active past the end of its period.
Lapsed(s) == s.status = "ACTIVE" /\ s.end < today

\* Bug: only what lapsed the day before is looked for.
BugReadDue ==
    /\ due = {}
    /\ due' = { i \in Ids : /\ Lapsed(subs[i]) /\ subs[i].end = today - 1
                            /\ subs[i].overdue = NotOverdue }
    /\ UNCHANGED subscriptions

ReadDue ==
    /\ due = {}
    /\ due' = { i \in Ids : Lapsed(subs[i]) /\ subs[i].overdue = NotOverdue }
    /\ UNCHANGED subscriptions

\* The row is marked, then the company is told, which changes no row.
MarkOverdue(i) ==
    /\ i \in due
    /\ subs' = [subs EXCEPT ![i].overdue = today]
    /\ due' = due \ {i}
    /\ UNCHANGED <<today, loc>>

MarkFails(i) ==
    /\ i \in due
    /\ due' = due \ {i}
    /\ UNCHANGED subscriptions

CronStep == ReadDue \/ \E i \in due : MarkOverdue(i) \/ MarkFails(i)

\* getAdminBillingOverview: what the administrators see as overdue.
OverdueRows == { i \in Ids : /\ subs[i].status = "ACTIVE"
                             /\ subs[i].overdue # NotOverdue }
=============================================================================
