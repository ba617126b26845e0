---------------------------- MODULE Subscriptions ----------------------------
(***************************************************************************)
(* The subscriptions of one company (subscriptions/                        *)
(* subscriptions.service.ts): assignment, swap, reactivation, upgrades,    *)
(* payments and cancellation, as concurrent requests of administrators.    *)
(* An operation reads what it decides on before its transaction begins,    *)
(* and nothing it read is checked again; a partial unique index refuses a  *)
(* second live subscription of a category.                                 *)
(*                                                                         *)
(* Days are numbers. A row carries what its billing records, which commit  *)
(* with it, come to: records counts them, billed is the end of the latest  *)
(* period that one of them bills. They are created PAID, so a call that    *)
(* names an existing one records a payment again; again, which the program *)
(* does not keep, adds up the cycles that such calls added.                *)
(***************************************************************************)
EXTENDS Integers, Sequences

CONSTANTS
    Requests,       \* HTTP requests
    Plans,
    Category,       \* of each plan
    ActivePlans,
    Niche,          \* of each plan
    CompanyNiche,
    NoPlan,
    Cycles,         \* lengths of the billing cycles in days
    Onboarded,      \* plans the company was created with
    MaxSubs         \* subscriptions that are created, at most

Categories == { Category[p] : p \in Plans }

\* assertPlanMatchesCompanyNiche
MatchesNiche(p) == Niche[p] = CompanyNiche

\* loadPlanForNewSubscription: what may be subscribed to.
Offered == { p \in ActivePlans : MatchesNiche(p) }

\* assertNoActiveSubscriptionInCategory refused an onboarding otherwise.
NoneActiveInCategory ==
    \A i, j \in DOMAIN Onboarded :
        Category[Onboarded[i]] = Category[Onboarded[j]] => i = j

ASSUME SubscriptionsAssumption ==
    /\ NoPlan \notin Plans
    /\ DOMAIN Category = Plans /\ DOMAIN Niche = Plans
    /\ ActivePlans \subseteq Plans
    /\ Cycles \subseteq Nat \ {0} /\ Cycles # {}
    /\ Onboarded \in Seq(Offered)
    /\ NoneActiveInCategory
    /\ MaxSubs \in Nat

VARIABLES
    subs,           \* the rows, in the order of their creation
    today,
    loc             \* where each request is, and what it read

subscriptions == <<subs, today, loc>>

Ids == DOMAIN subs
Statuses == {"ACTIVE", "PAUSED", "CANCELLED"}
Live == {"ACTIVE", "PAUSED"}
NotOverdue == 0

\* computePeriodEnd
PeriodEnd(start, cycle) == start + cycle

\* insertSubscriptionWithSetupBilling: the first period is paid.
NewSub(plan, cycle, status) ==
    [plan |-> plan, category |-> Category[plan], status |-> status,
     cycle |-> cycle, end |-> PeriodEnd(today, cycle), overdue |-> NotOverdue,
     pending |-> NoPlan, records |-> 1, billed |-> PeriodEnd(today, cycle),
     again |-> 0]

Idle == [pc |-> "idle", sub |-> 0, plan |-> NoPlan, cycle |-> 0, end |-> 0,
         status |-> "ACTIVE", old |-> FALSE]

\* createWithinTransaction, for every plan of the onboarding.
InitSubscriptions ==
    /\ today = 1
    /\ \E c \in Cycles :
         subs = [i \in DOMAIN Onboarded |-> NewSub(Onboarded[i], c, "ACTIVE")]
    /\ loc = [q \in Requests |-> Idle]

-----------------------------------------------------------------------------
To(q, l) == loc' = [loc EXCEPT ![q] = l]
Done(q) == To(q, [Idle EXCEPT !.pc = "done"])
Starts(q) == loc[q].pc = "idle"

\* idx_one_active_sub_per_category
IndexAllows(ss) ==
    \A i, j \in DOMAIN ss :
        /\ ss[i].status \in Live /\ ss[j].status \in Live
        /\ ss[i].category = ss[j].category
        => i = j

\* A transaction commits, or is refused by the index; either way it ends the
\* request.
Commit(q, ss) ==
    /\ subs' = IF IndexAllows(ss) THEN ss ELSE subs
    /\ Done(q)
    /\ UNCHANGED today

\* findActiveSubscriptionInCategory
LiveIn(c) == { i \in Ids : subs[i].status \in Live /\ subs[i].category = c }

Cancelled(s) == [s EXCEPT !.status = "CANCELLED", !.pending = NoPlan]

\* assignToCompany: what is live in the category is replaced if the request
\* says so.
AssignRead(q) ==
    /\ Starts(q)
    /\ \E p \in Offered, replace \in BOOLEAN, c \in Cycles, s \in Statuses :
         \/ /\ LiveIn(Category[p]) = {}
            /\ To(q, [Idle EXCEPT !.pc = "assign", !.plan = p, !.cycle = c, !.status = s])
         \/ \E i \in LiveIn(Category[p]) :
              IF replace
              THEN To(q, [Idle EXCEPT !.pc = "assign", !.sub = i, !.plan = p,
                                      !.cycle = c, !.status = s])
              ELSE Done(q)
    /\ UNCHANGED <<subs, today>>

Assign(q) ==
    LET l == loc[q]
        closed == [i \in Ids |-> IF i = l.sub THEN Cancelled(subs[i]) ELSE subs[i]] IN
    /\ l.pc = "assign"
    /\ Len(subs) < MaxSubs
    /\ Commit(q, Append(closed, NewSub(l.plan, l.cycle, l.status)))

\* swapPlanImmediate, whatever the state of the old subscription.
SwapLoad(q) ==
    /\ Starts(q)
    /\ \E i \in Ids, p \in Offered :
         /\ Category[p] = subs[i].category
         /\ To(q, [Idle EXCEPT !.pc = "swap", !.sub = i, !.plan = p,
                               !.cycle = subs[i].cycle])
    /\ UNCHANGED <<subs, today>>

Swap(q) ==
    LET l == loc[q] IN
    /\ l.pc = "swap"
    /\ Len(subs) < MaxSubs
    /\ Commit(q, Append([subs EXCEPT ![l.sub] = Cancelled(@)],
                        NewSub(l.plan, l.cycle, "ACTIVE")))

\* updateAdmin: loads the row only to see that it exists.
UpdateAdmin(q) ==
    /\ Starts(q)
    /\ \E i \in Ids, s \in Statuses, c \in Cycles :
         Commit(q, [subs EXCEPT ![i].status = s, ![i].cycle = c,
                                ![i].overdue = IF s = "ACTIVE" THEN NotOverdue ELSE @])

\* reactivate: only if no other one is live.
ReactivateRead(q) ==
    /\ Starts(q)
    /\ \E i \in Ids :
         /\ subs[i].status # "ACTIVE"
         /\ LiveIn(subs[i].category) \subseteq {i}
         /\ To(q, [Idle EXCEPT !.pc = "reactivate", !.sub = i])
    /\ UNCHANGED <<subs, today>>

Reactivate(q) ==
    /\ loc[q].pc = "reactivate"
    /\ Commit(q, [subs EXCEPT ![loc[q].sub].status = "ACTIVE",
                              ![loc[q].sub].overdue = NotOverdue])

\* Bug: an upgrade to a plan of another category is scheduled.
BugScheduleUpgrade(q) ==
    /\ Starts(q)
    /\ \E i \in Ids, p \in Plans : Commit(q, [subs EXCEPT ![i].pending = p])

\* scheduleUpgrade: neither the plan's niche nor its being offered matters.
ScheduleUpgrade(q) ==
    /\ Starts(q)
    /\ \E i \in Ids, p \in Plans :
         /\ Category[p] = Category[subs[i].plan]
         /\ Commit(q, [subs EXCEPT ![i].pending = p])

\* Bug: the plan is cleared instead of the pending one.
BugCancelUpgrade(q) ==
    /\ Starts(q)
    /\ \E i \in Ids : Commit(q, [subs EXCEPT ![i].plan = NoPlan])

CancelUpgrade(q) ==
    /\ Starts(q)
    /\ \E i \in Ids : Commit(q, [subs EXCEPT ![i].pending = NoPlan])

\* recordPayment computes the next period and plan from the row it loaded. The
\* request may name an existing billing record (old), paid as it may be.
PayLoad(q) ==
    /\ Starts(q)
    /\ \E i \in Ids, old \in BOOLEAN :
         To(q, [Idle EXCEPT !.pc = "pay", !.sub = i, !.cycle = subs[i].cycle,
                            !.end = subs[i].end, !.old = old,
                            !.plan = IF subs[i].pending # NoPlan
                                     THEN subs[i].pending ELSE subs[i].plan])
    /\ UNCHANGED <<subs, today>>

Later(d, e) == IF d < e THEN e ELSE d

\* What a payment makes of a row: it is active, for one cycle from start, and
\* has one billing record more unless the payment names an existing one.
PaidFor(s, plan, start, cycle, old) ==
    LET end == PeriodEnd(start, cycle) IN
    [s EXCEPT !.status = "ACTIVE", !.overdue = NotOverdue, !.plan = plan,
              !.pending = NoPlan, !.end = end,
              !.records = IF old THEN @ ELSE @ + 1,
              !.billed = IF old THEN @ ELSE Later(@, end),
              !.again = IF old THEN @ + cycle ELSE @]

\* Bug: the new period of a late payer begins today, that of the billing
\* record does not.
BugPay(q) ==
    LET l == loc[q]
        start == IF l.end < today THEN today ELSE l.end IN
    /\ l.pc = "pay"
    /\ Commit(q, [subs EXCEPT ![l.sub] =
                    [PaidFor(@, l.plan, l.end, l.cycle, l.old)
                       EXCEPT !.end = PeriodEnd(start, l.cycle)]])

\* The record that is named is not one of the subscription, or an annual plan
\* has no price and the request no amount.
Refused(q) == Done(q) /\ UNCHANGED <<subs, today>>

Pay(q) ==
    LET l == loc[q] IN
    /\ l.pc = "pay"
    /\ \/ Commit(q, [subs EXCEPT ![l.sub] =
                       PaidFor(@, l.plan, l.end, l.cycle, l.old)])
       \/ Refused(q)

\* cancel; the notification that follows changes nothing here.
Cancel(q) ==
    /\ Starts(q)
    /\ \E i \in Ids : Commit(q, [subs EXCEPT ![i].status = "CANCELLED"])

RequestStep(q) ==
    \/ AssignRead(q) \/ Assign(q)
    \/ SwapLoad(q) \/ Swap(q)
    \/ UpdateAdmin(q)
    \/ ReactivateRead(q) \/ Reactivate(q)
    \/ ScheduleUpgrade(q) \/ CancelUpgrade(q)
    \/ PayLoad(q) \/ Pay(q)
    \/ Cancel(q)
=============================================================================
