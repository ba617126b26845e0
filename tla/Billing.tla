------------------------------- MODULE Billing -------------------------------
(***************************************************************************)
(* The subscriptions of a company with the requests of administrators, the *)
(* daily job and the passing of time.                                      *)
(***************************************************************************)
EXTENDS BillingCron

CONSTANT Horizon    \* the last day

ASSUME HorizonAssumption == Horizon \in Nat

vars == <<subscriptions, due>>

Init == InitSubscriptions /\ InitCron

Request(q) == RequestStep(q) /\ UNCHANGED due

NextDay ==
    /\ today < Horizon
    /\ today' = today + 1
    /\ UNCHANGED <<subs, loc, due>>

Next ==
    \/ \E q \in Requests : Request(q)
    \/ CronStep
    \/ NextDay

\* The job runs every day; its rows do not fail for ever.
Fairness ==
    /\ WF_vars(ReadDue)
    /\ \A i \in 1..MaxSubs : /\ WF_vars(MarkOverdue(i) \/ MarkFails(i))
                             /\ SF_vars(MarkOverdue(i))

Spec == Init /\ [][Next]_vars /\ Fairness

-----------------------------------------------------------------------------
\* The types of the tables and of what the requests hold.
TypeOK ==
    /\ today \in Nat
    /\ subs \in Seq([plan : Plans, category : Categories, status : Statuses,
                     cycle : Cycles, end : Nat, overdue : Nat,
                     pending : Plans \union {NoPlan},
                     records : Nat, billed : Nat, again : Nat])
    /\ loc \in [Requests ->
                 [pc : {"idle", "assign", "swap", "reactivate", "pay", "done"},
                  sub : Nat, plan : Plans \union {NoPlan},
                  cycle : Cycles \union {0}, end : Nat, status : Statuses,
                  old : BOOLEAN]]
    /\ due \subseteq Ids

\* A subscription never runs beyond the latest period that was billed, but for
\* the cycles of payments recorded again under an existing billing record: one
\* that computed its period from a row that others changed since gives no
\* cycle that the records do not show (recordPayment, which bills the period
\* and moves the subscription in separate computations).
PeriodsAreBilled == \A i \in Ids : subs[i].end <= subs[i].billed + subs[i].again

\* The plan of a subscription, and the one it will be upgraded to, are of the
\* category under which the index counts it, also when a payment applies an
\* upgrade that it read before others changed the row.
PlanStaysInCategory ==
    \A i \in Ids :
        /\ Category[subs[i].plan] = subs[i].category
        /\ subs[i].pending # NoPlan => Category[subs[i].pending] = subs[i].category

LapsedRow(i) == i \in Ids /\ Lapsed(subs[i])

\* A subscription that lapses is paid, ended, or comes to the administrators'
\* list of overdue ones, even if the job was late or failed on its row
\* (markOverdueSubscriptions, getAdminBillingOverview).
LapsedIsListed ==
    \A i \in 1..MaxSubs :
        LapsedRow(i) ~> (~LapsedRow(i) \/ i \in OverdueRows)
=============================================================================
