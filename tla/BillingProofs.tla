---------------------------- MODULE BillingProofs ----------------------------
(***************************************************************************)
(* Proofs about Billing, for any number of requests, plans, cycles,        *)
(* subscriptions and days.                                                 *)
(***************************************************************************)
EXTENDS Billing, TLAPS

-----------------------------------------------------------------------------
(* The inductive invariant: what a row and what a request holds.           *)

Row == [plan : Plans, category : Categories, status : Statuses,
        cycle : Cycles, end : Nat, overdue : Nat,
        pending : Plans \union {NoPlan},
        records : Nat, billed : Nat, again : Nat]

\* The last day that the billing records of a row account for, with the
\* cycles of payments that were recorded again.
Accounted(s) == s.billed + s.again

\* A row by itself: its plans are of its category, its period is accounted for.
Sound(s) ==
    /\ s \in Row
    /\ Category[s.plan] = s.category
    /\ s.pending # NoPlan => Category[s.pending] = s.category
    /\ s.end <= Accounted(s)

\* What a request read holds although others wrote since: the plan of a
\* payment is of the row's category, and the period it read is accounted for.
RequestInv ==
    \A q \in Requests :
        /\ loc[q].pc \in {"assign", "swap"} =>
             loc[q].plan \in Plans /\ loc[q].cycle \in Cycles
        /\ loc[q].pc \in {"swap", "reactivate", "pay"} => loc[q].sub \in Ids
        /\ loc[q].pc = "pay" =>
             /\ loc[q].plan \in Plans /\ loc[q].cycle \in Cycles
             /\ Category[loc[q].plan] = subs[loc[q].sub].category
             /\ loc[q].end <= Accounted(subs[loc[q].sub])

RowsInv == \A i \in Ids : Sound(subs[i])

IInv == TypeOK /\ RowsInv /\ RequestInv

\* A table that a transaction may leave: sound rows, none of them gone, none
\* moved to another category or with less accounted for.
Follows(ss) ==
    /\ ss \in Seq(Row)
    /\ \A i \in DOMAIN ss : Sound(ss[i])
    /\ \A i \in Ids : /\ i \in DOMAIN ss
                      /\ ss[i].category = subs[i].category
                      /\ Accounted(ss[i]) >= Accounted(subs[i])

-----------------------------------------------------------------------------
(* Facts about tables of rows.                                             *)

\* What the type invariant says of the rows.
LEMMA SubsType ==
  ASSUME IInv
  PROVE  /\ subs \in Seq(Row) /\ today \in Nat
         /\ Follows(subs)
         /\ \A i \in Ids : i \in 1..Len(subs) /\ subs[i] \in Row
<1>1. subs \in Seq(Row) /\ today \in Nat
  BY DEF IInv, TypeOK, Row
<1>2. \A i \in Ids : i \in 1..Len(subs) /\ subs[i] \in Row
  BY <1>1 DEF Ids
<1>3. \A i \in Ids : Accounted(subs[i]) >= Accounted(subs[i])
  BY <1>2 DEF Row, Accounted
<1>4. QED
  BY <1>1, <1>2, <1>3 DEF Follows, IInv, RowsInv, Ids

\* What may be subscribed to is a plan.
LEMMA OfferedPlans == Offered \subseteq Plans
BY SubscriptionsAssumption DEF Offered

\* A table with one row changed into a sound one of its category.
LEMMA ChangedRow ==
  ASSUME IInv, NEW i \in Ids, NEW r, Sound(r),
         r.category = subs[i].category, Accounted(r) >= Accounted(subs[i])
  PROVE  Follows([subs EXCEPT ![i] = r])
<1> DEFINE ss == [subs EXCEPT ![i] = r]
<1>1. subs \in Seq(Row) /\ i \in 1..Len(subs) /\ r \in Row
  BY SubsType DEF Sound
<1>2. /\ ss \in Seq(Row) /\ DOMAIN ss = Ids
      /\ \A j \in Ids : ss[j] = IF j = i THEN r ELSE subs[j]
  BY <1>1 DEF Ids
<1>3. \A j \in Ids : Sound(ss[j])
  BY <1>2 DEF IInv, RowsInv
<1>4. \A j \in Ids : /\ ss[j].category = subs[j].category
                     /\ Accounted(ss[j]) >= Accounted(subs[j])
  BY <1>2, SubsType DEF Follows
<1>5. QED
  BY <1>2, <1>3, <1>4 DEF Follows

\* A table with one row more.
LEMMA AppendedRow ==
  ASSUME IInv, NEW ss, Follows(ss), NEW r, Sound(r)
  PROVE  Follows(Append(ss, r))
<1> DEFINE tt == Append(ss, r)
<1>1. ss \in Seq(Row) /\ r \in Row
  BY DEF Follows, Sound
<1>2. /\ tt \in Seq(Row)
      /\ \A j \in DOMAIN ss : j \in DOMAIN tt /\ tt[j] = ss[j]
      /\ \A j \in DOMAIN tt : j \in DOMAIN ss \/ tt[j] = r
  BY <1>1
<1>3. \A j \in DOMAIN tt : Sound(tt[j])
  BY <1>2 DEF Follows
<1>4. \A j \in Ids : /\ j \in DOMAIN tt
                     /\ tt[j].category = subs[j].category
                     /\ Accounted(tt[j]) >= Accounted(subs[j])
  BY <1>2 DEF Follows
<1>5. QED
  BY <1>2, <1>3, <1>4 DEF Follows

\* A cancelled row stays sound.
LEMMA CancelledRow ==
  ASSUME NEW s, Sound(s)
  PROVE  /\ Sound(Cancelled(s)) /\ Cancelled(s).category = s.category
         /\ Accounted(Cancelled(s)) = Accounted(s)
<1>1. Cancelled(s) \in Row
  BY DEF Sound, Cancelled, Row, Statuses
<1>2. QED
  BY <1>1 DEF Sound, Cancelled, Row, Accounted

\* A new row is sound.
LEMMA NewRow ==
  ASSUME today \in Nat, NEW p \in Plans, NEW c \in Cycles, NEW s \in Statuses
  PROVE  Sound(NewSub(p, c, s))
<1>1. c \in Nat /\ Category[p] \in Categories
  BY SubscriptionsAssumption DEF Categories
<1>2. NewSub(p, c, s) \in Row
  BY <1>1 DEF NewSub, PeriodEnd, NotOverdue, Row
<1>3. QED
  BY <1>1, <1>2 DEF NewSub, PeriodEnd, Sound, Accounted

-----------------------------------------------------------------------------
(* How a step changes the state.                                           *)

LocType == [pc : {"idle", "assign", "swap", "reactivate", "pay", "done"},
            sub : Nat, plan : Plans \union {NoPlan},
            cycle : Cycles \union {0}, end : Nat, status : Statuses, old : BOOLEAN]

\* What one request may hold when the table is ss.
Holds(l, ss) ==
    /\ l \in LocType
    /\ l.pc \in {"assign", "swap"} => l.plan \in Plans /\ l.cycle \in Cycles
    /\ l.pc \in {"swap", "reactivate", "pay"} => l.sub \in DOMAIN ss
    /\ l.pc = "pay" =>
         /\ l.plan \in Plans /\ l.cycle \in Cycles
         /\ Category[l.plan] = ss[l.sub].category
         /\ l.end <= Accounted(ss[l.sub])

LEMMA RequestsHold ==
  ASSUME IInv
  PROVE  \A q \in Requests : Holds(loc[q], subs)
BY Zenon DEF IInv, TypeOK, RequestInv, Holds, LocType, Ids

\* What a request holds stays true when the table becomes one that follows.
LEMMA HoldsOn ==
  ASSUME IInv, Follows(subs'), NEW l, Holds(l, subs)
  PROVE  Holds(l, subs')
<1>1. CASE l.pc = "pay"
  <2>1. l.sub \in Ids /\ l.end \in Nat
    BY <1>1 DEF Holds, LocType, Ids
  <2>2. /\ l.sub \in Ids' /\ subs'[l.sub].category = subs[l.sub].category
        /\ Accounted(subs'[l.sub]) >= Accounted(subs[l.sub])
    BY <2>1 DEF Follows, Ids
  <2>3. Accounted(subs[l.sub]) \in Nat /\ Accounted(subs'[l.sub]) \in Nat
    <3>1. subs[l.sub] \in Row /\ subs'[l.sub] \in Row
      BY <2>1, <2>2, SubsType DEF Follows, Ids, Sound
    <3>2. QED
      BY <3>1 DEF Row, Accounted
  <2>4. l.end <= Accounted(subs'[l.sub])
    BY <1>1, <2>1, <2>2, <2>3 DEF Holds
  <2>5. QED
    BY <1>1, <2>2, <2>4 DEF Holds, Ids
<1>2. CASE l.pc # "pay"
  BY <1>2 DEF Holds, Follows, Ids
<1>3. QED
  BY <1>1, <1>2

\* The parts of the invariant after a step that left a table that follows.
LEMMA StepKeeps ==
  ASSUME IInv, Follows(subs'), today' \in Nat,
         loc' \in [Requests -> LocType], \A q \in Requests : Holds(loc'[q], subs'),
         due' \subseteq Ids'
  PROVE  IInv'
<1>1. TypeOK'
  BY DEF TypeOK, Follows, Row, LocType
<1>2. RowsInv'
  BY DEF RowsInv, Follows, Ids
<1>3. RequestInv'
  BY DEF RequestInv, Holds, Ids
<1>4. QED
  BY <1>1, <1>2, <1>3 DEF IInv

LEMMA IdleHolds == Holds(Idle, subs) /\ Holds([Idle EXCEPT !.pc = "done"], subs)
BY DEF Idle, Holds, LocType, Statuses

\* A request moves on and takes with it what it read.
LEMMA ReadKeeps ==
  ASSUME IInv, NEW q \in Requests, NEW l, Holds(l, subs), To(q, l),
         UNCHANGED <<subs, today, due>>
  PROVE  IInv'
<1>1. loc \in [Requests -> LocType] /\ l \in LocType
  BY DEF IInv, TypeOK, LocType, Holds
<1>2. loc' \in [Requests -> LocType]
  BY <1>1 DEF To
<1>3. Follows(subs') /\ today' \in Nat /\ due' \subseteq Ids'
  BY SubsType DEF IInv, TypeOK, Ids
<1>4. \A r \in Requests : Holds(loc'[r], subs)
  BY <1>1, RequestsHold DEF To
<1>5. \A r \in Requests : Holds(loc'[r], subs')
  BY <1>4
<1>6. QED
  BY <1>2, <1>3, <1>5, StepKeeps

\* A transaction commits or is refused; in either case the request is done.
LEMMA CommitKeeps ==
  ASSUME IInv, NEW q \in Requests, NEW ss, Follows(ss), Commit(q, ss),
         UNCHANGED due
  PROVE  IInv'
<1> DEFINE l == [Idle EXCEPT !.pc = "done"]
<1>1. loc \in [Requests -> LocType] /\ l \in LocType
  BY IdleHolds DEF IInv, TypeOK, LocType, Holds
<1>2. loc' \in [Requests -> LocType]
  BY <1>1 DEF Commit, Done, To
<1>3. Follows(subs')
  BY SubsType DEF Commit, IInv
<1>4. today' \in Nat /\ due' \subseteq Ids'
  BY <1>3, SubsType DEF Commit, Follows, Ids, IInv, TypeOK
<1>5. \A r \in Requests : Holds(loc'[r], subs)
  BY <1>1, RequestsHold, IdleHolds DEF Commit, Done, To
<1>6. \A r \in Requests : Holds(loc'[r], subs')
  BY <1>3, <1>5, HoldsOn
<1>7. QED
  BY <1>2, <1>3, <1>4, <1>6, StepKeeps

-----------------------------------------------------------------------------
(* The initial state and the operations.                                   *)

LEMMA InitIInv == Init => IInv
<1> SUFFICES ASSUME Init
             PROVE  IInv
  OBVIOUS
<1> USE DEF Init, InitSubscriptions
<1>1. PICK c \in Cycles :
        subs = [i \in DOMAIN Onboarded |-> NewSub(Onboarded[i], c, "ACTIVE")]
  OBVIOUS
<1>2. today \in Nat /\ Onboarded \in Seq(Plans)
  BY SubscriptionsAssumption, OfferedPlans
<1>3. \A i \in DOMAIN Onboarded : Sound(NewSub(Onboarded[i], c, "ACTIVE"))
  <2> SUFFICES ASSUME NEW i \in DOMAIN Onboarded
               PROVE  Sound(NewSub(Onboarded[i], c, "ACTIVE"))
    OBVIOUS
  <2>1. Onboarded[i] \in Plans
    BY <1>2
  <2>2. "ACTIVE" \in Statuses
    BY DEF Statuses
  <2>3. QED
    BY <1>2, <2>1, <2>2, NewRow
<1>4. Ids = DOMAIN Onboarded /\ \A i \in Ids : Sound(subs[i])
  BY <1>1, <1>3 DEF Ids
<1>5. subs \in Seq(Row)
  <2>1. DOMAIN Onboarded = 1..Len(Onboarded) /\ Len(Onboarded) \in Nat
    BY <1>2
  <2>2. \A i \in 1..Len(Onboarded) : NewSub(Onboarded[i], c, "ACTIVE") \in Row
    BY <1>3, <2>1 DEF Sound
  <2>3. subs = [i \in 1..Len(Onboarded) |-> NewSub(Onboarded[i], c, "ACTIVE")]
    BY <1>1, <2>1
  <2>4. QED
    BY <2>1, <2>2, <2>3
<1>6. \A q \in Requests : loc[q] = Idle
  BY Zenon
<1>7. TypeOK
  <2>1. loc \in [Requests -> LocType]
    BY IdleHolds DEF Holds
  <2>2. due \subseteq Ids
    BY DEF InitCron
  <2>3. QED
    BY <1>2, <1>5, <2>1, <2>2 DEF TypeOK, Row, LocType
<1>8. RequestInv
  BY <1>6, Zenon DEF RequestInv, Idle
<1>9. QED
  BY <1>4, <1>7, <1>8 DEF IInv, RowsInv

LEMMA AssignReadKeeps ==
  ASSUME IInv, NEW q \in Requests, AssignRead(q), UNCHANGED due
  PROVE  IInv'
<1>1. UNCHANGED <<subs, today, due>>
  BY Zenon DEF AssignRead
<1>2. PICK p \in Offered, c \in Cycles, s \in Statuses :
        \/ To(q, [Idle EXCEPT !.pc = "assign", !.plan = p, !.cycle = c, !.status = s])
        \/ \E i \in LiveIn(Category[p]) :
             \/ To(q, [Idle EXCEPT !.pc = "assign", !.sub = i, !.plan = p,
                                   !.cycle = c, !.status = s])
             \/ Done(q)
  BY Zenon DEF AssignRead
<1>3. p \in Plans
  BY OfferedPlans
<1>4. ASSUME NEW i \in Nat
      PROVE  Holds([Idle EXCEPT !.pc = "assign", !.sub = i, !.plan = p,
                                !.cycle = c, !.status = s], subs)
  BY <1>3 DEF Idle, Holds, LocType
<1>5. Holds([Idle EXCEPT !.pc = "assign", !.plan = p, !.cycle = c, !.status = s], subs)
  BY <1>3 DEF Idle, Holds, LocType
<1>6. \A i \in LiveIn(Category[p]) : i \in Nat
  BY SubsType DEF LiveIn, Ids
<1>7. QED
  BY <1>1, <1>2, <1>4, <1>5, <1>6, IdleHolds, ReadKeeps, Zenon DEF Done

LEMMA AssignKeeps ==
  ASSUME IInv, NEW q \in Requests, Assign(q), UNCHANGED due
  PROVE  IInv'
<1> DEFINE l == loc[q]
           closed == [i \in Ids |-> IF i = l.sub THEN Cancelled(subs[i]) ELSE subs[i]]
<1>1. /\ l.pc = "assign"
      /\ Commit(q, Append(closed, NewSub(l.plan, l.cycle, l.status)))
  BY DEF Assign
<1>2. l.plan \in Plans /\ l.cycle \in Cycles /\ l.status \in Statuses
  BY <1>1, RequestsHold DEF Holds, LocType
<1>3. Sound(NewSub(l.plan, l.cycle, l.status))
  BY <1>2, SubsType, NewRow
<1>4. Follows(closed)
  <2>1. CASE l.sub \in Ids
    <3>1. closed = [subs EXCEPT ![l.sub] = Cancelled(subs[l.sub])]
      BY <2>1, SubsType DEF Ids
    <3>2. Sound(subs[l.sub])
      BY <2>1 DEF IInv, RowsInv
    <3>3. /\ Sound(Cancelled(subs[l.sub]))
          /\ Cancelled(subs[l.sub]).category = subs[l.sub].category
          /\ Accounted(Cancelled(subs[l.sub])) >= Accounted(subs[l.sub])
      BY <3>2, CancelledRow DEF Sound, Row, Accounted
    <3>4. QED
      BY <2>1, <3>1, <3>3, ChangedRow
  <2>2. CASE l.sub \notin Ids
    <3>1. closed = subs
      BY <2>2, SubsType DEF Ids
    <3>2. QED
      BY <3>1, SubsType
  <2>3. QED
    BY <2>1, <2>2
<1>5. Follows(Append(closed, NewSub(l.plan, l.cycle, l.status)))
  BY <1>3, <1>4, AppendedRow
<1>6. QED
  BY <1>1, <1>5, CommitKeeps

LEMMA SwapLoadKeeps ==
  ASSUME IInv, NEW q \in Requests, SwapLoad(q), UNCHANGED due
  PROVE  IInv'
<1>1. PICK i \in Ids, p \in Offered :
        To(q, [Idle EXCEPT !.pc = "swap", !.sub = i, !.plan = p,
                           !.cycle = subs[i].cycle])
  BY Zenon DEF SwapLoad
<1>2. p \in Plans /\ i \in Nat /\ subs[i].cycle \in Cycles
  BY OfferedPlans, SubsType DEF Ids, Row
<1>3. Holds([Idle EXCEPT !.pc = "swap", !.sub = i, !.plan = p,
                         !.cycle = subs[i].cycle], subs)
  BY <1>2 DEF Idle, Holds, LocType, Ids, Statuses
<1>4. UNCHANGED <<subs, today, due>>
  BY DEF SwapLoad
<1>5. QED
  BY <1>1, <1>3, <1>4, ReadKeeps

LEMMA SwapKeeps ==
  ASSUME IInv, NEW q \in Requests, Swap(q), UNCHANGED due
  PROVE  IInv'
<1> DEFINE l == loc[q]
           closed == [subs EXCEPT ![l.sub] = Cancelled(subs[l.sub])]
<1>1. l.pc = "swap" /\ Commit(q, Append(closed, NewSub(l.plan, l.cycle, "ACTIVE")))
  BY DEF Swap
<1>2. l.plan \in Plans /\ l.cycle \in Cycles /\ l.sub \in Ids
  BY <1>1, RequestsHold DEF Holds, Ids
<1>3. Sound(NewSub(l.plan, l.cycle, "ACTIVE"))
  BY <1>2, SubsType, NewRow DEF Statuses
<1>4. /\ Sound(Cancelled(subs[l.sub]))
      /\ Cancelled(subs[l.sub]).category = subs[l.sub].category
      /\ Accounted(Cancelled(subs[l.sub])) >= Accounted(subs[l.sub])
  BY <1>2, CancelledRow DEF IInv, RowsInv, Sound, Row, Accounted
<1>5. Follows(closed)
  BY <1>2, <1>4, ChangedRow
<1>6. QED
  BY <1>1, <1>3, <1>5, AppendedRow, CommitKeeps

\* A row with another status, cycle and mark of being overdue is as sound.
Edited(x, s, c, d) == [x EXCEPT !.status = s, !.cycle = c, !.overdue = d]

LEMMA EditedRow ==
  ASSUME NEW x, Sound(x), NEW s \in Statuses, NEW c \in Cycles, NEW d \in Nat
  PROVE  /\ Sound(Edited(x, s, c, d))
         /\ Edited(x, s, c, d).category = x.category
         /\ Accounted(Edited(x, s, c, d)) = Accounted(x)
<1> DEFINE r == Edited(x, s, c, d)
<1>1. x \in Row
  BY DEF Sound
<1>2. r \in Row
  BY <1>1 DEF Edited, Row
<1>3. /\ r.category = x.category /\ Accounted(r) = Accounted(x) /\ r.end = x.end
      /\ r.plan = x.plan /\ r.pending = x.pending
  BY <1>1 DEF Edited, Row, Accounted
<1>4. QED
  BY <1>2, <1>3 DEF Sound

LEMMA EditedTable ==
  ASSUME IInv, NEW i \in Ids, NEW s \in Statuses, NEW c \in Cycles, NEW d \in Nat
  PROVE  Follows([subs EXCEPT ![i] = Edited(subs[i], s, c, d)])
<1>1. Sound(subs[i]) /\ Accounted(subs[i]) \in Nat
  BY DEF IInv, RowsInv, Sound, Row, Accounted
<1>2. /\ Sound(Edited(subs[i], s, c, d))
      /\ Edited(subs[i], s, c, d).category = subs[i].category
      /\ Accounted(Edited(subs[i], s, c, d)) >= Accounted(subs[i])
  BY <1>1, EditedRow
<1>3. QED
  BY <1>2, ChangedRow

LEMMA UpdateAdminKeeps ==
  ASSUME IInv, NEW q \in Requests, UpdateAdmin(q), UNCHANGED due
  PROVE  IInv'
<1>1. PICK i \in Ids, s \in Statuses, c \in Cycles :
        Commit(q, [subs EXCEPT ![i].status = s, ![i].cycle = c,
                               ![i].overdue = IF s = "ACTIVE" THEN NotOverdue ELSE @])
  BY Zenon DEF UpdateAdmin
<1> DEFINE d == IF s = "ACTIVE" THEN NotOverdue ELSE subs[i].overdue
           ss == [subs EXCEPT ![i].status = s, ![i].cycle = c,
                              ![i].overdue = IF s = "ACTIVE" THEN NotOverdue ELSE @]
<1>2. subs[i] \in Row /\ subs \in Seq(Row) /\ i \in 1..Len(subs)
  BY SubsType
<1>3. d \in Nat
  BY <1>2 DEF Row, NotOverdue
<1>4. ss = [subs EXCEPT ![i] = Edited(subs[i], s, c, d)]
  BY <1>2 DEF Row, Edited
<1>5. Follows([subs EXCEPT ![i] = Edited(subs[i], s, c, d)])
  BY <1>3, EditedTable
<1>6. Follows(ss)
  BY <1>4, <1>5
<1>7. QED
  BY <1>1, <1>6, CommitKeeps

LEMMA ReactivateReadKeeps ==
  ASSUME IInv, NEW q \in Requests, ReactivateRead(q), UNCHANGED due
  PROVE  IInv'
<1>1. PICK i \in Ids : To(q, [Idle EXCEPT !.pc = "reactivate", !.sub = i])
  BY Zenon DEF ReactivateRead
<1>2. i \in Nat
  BY SubsType DEF Ids
<1>3. Holds([Idle EXCEPT !.pc = "reactivate", !.sub = i], subs)
  BY <1>2 DEF Idle, Holds, LocType, Ids, Statuses
<1>4. UNCHANGED <<subs, today, due>>
  BY DEF ReactivateRead
<1>5. QED
  BY <1>1, <1>3, <1>4, ReadKeeps

LEMMA ReactivateKeeps ==
  ASSUME IInv, NEW q \in Requests, Reactivate(q), UNCHANGED due
  PROVE  IInv'
<1> DEFINE i == loc[q].sub
           ss == [subs EXCEPT ![i].status = "ACTIVE", ![i].overdue = NotOverdue]
<1>1. i \in Ids /\ Commit(q, ss)
  BY RequestsHold DEF Reactivate, Holds, Ids
<1>2. subs[i] \in Row /\ subs \in Seq(Row) /\ i \in 1..Len(subs)
  BY <1>1, SubsType
<1>3. ss = [subs EXCEPT ![i] = Edited(subs[i], "ACTIVE", subs[i].cycle, NotOverdue)]
  BY <1>2 DEF Row, Edited
<1>4. "ACTIVE" \in Statuses /\ subs[i].cycle \in Cycles /\ NotOverdue \in Nat
  BY <1>2 DEF Row, Statuses, NotOverdue
<1>5. Follows([subs EXCEPT ![i] =
                 Edited(subs[i], "ACTIVE", subs[i].cycle, NotOverdue)])
  BY <1>1, <1>4, EditedTable
<1>6. Follows(ss)
  BY <1>3, <1>5
<1>7. QED
  BY <1>1, <1>6, CommitKeeps

LEMMA CancelKeeps ==
  ASSUME IInv, NEW q \in Requests, Cancel(q), UNCHANGED due
  PROVE  IInv'
<1>1. PICK i \in Ids : Commit(q, [subs EXCEPT ![i].status = "CANCELLED"])
  BY DEF Cancel
<1> DEFINE ss == [subs EXCEPT ![i].status = "CANCELLED"]
<1>2. subs[i] \in Row /\ subs \in Seq(Row) /\ i \in 1..Len(subs)
  BY SubsType
<1>3. ss = [subs EXCEPT ![i] =
              Edited(subs[i], "CANCELLED", subs[i].cycle, subs[i].overdue)]
  BY <1>2 DEF Row, Edited
<1>4. "CANCELLED" \in Statuses /\ subs[i].cycle \in Cycles /\ subs[i].overdue \in Nat
  BY <1>2 DEF Row, Statuses
<1>5. Follows([subs EXCEPT ![i] =
                 Edited(subs[i], "CANCELLED", subs[i].cycle, subs[i].overdue)])
  BY <1>4, EditedTable
<1>6. Follows(ss)
  BY <1>3, <1>5
<1>7. QED
  BY <1>1, <1>6, CommitKeeps

\* A row stays sound with an upgrade of its category, or with none.
LEMMA PendingTable ==
  ASSUME IInv, NEW i \in Ids, NEW p \in Plans \union {NoPlan},
         p # NoPlan => Category[p] = subs[i].category
  PROVE  Follows([subs EXCEPT ![i].pending = p])
<1> DEFINE r == [subs[i] EXCEPT !.pending = p]
<1>1. Sound(subs[i]) /\ subs[i] \in Row
  BY DEF IInv, RowsInv, Sound
<1>2. Sound(r)
  BY <1>1 DEF Sound, Row, Accounted
<1>3. r.category = subs[i].category /\ Accounted(r) >= Accounted(subs[i])
  BY <1>1 DEF Row, Accounted
<1>4. QED
  BY <1>2, <1>3, ChangedRow

LEMMA ScheduleUpgradeKeeps ==
  ASSUME IInv, NEW q \in Requests, ScheduleUpgrade(q), UNCHANGED due
  PROVE  IInv'
<1>1. PICK i \in Ids, p \in Plans :
        /\ Category[p] = Category[subs[i].plan]
        /\ Commit(q, [subs EXCEPT ![i].pending = p])
  BY DEF ScheduleUpgrade
<1>2. Category[p] = subs[i].category
  BY <1>1 DEF IInv, RowsInv, Sound
<1>3. QED
  BY <1>1, <1>2, PendingTable, CommitKeeps

LEMMA CancelUpgradeKeeps ==
  ASSUME IInv, NEW q \in Requests, CancelUpgrade(q), UNCHANGED due
  PROVE  IInv'
<1>1. PICK i \in Ids : Commit(q, [subs EXCEPT ![i].pending = NoPlan])
  BY DEF CancelUpgrade
<1>2. QED
  BY <1>1, PendingTable, CommitKeeps

LEMMA PayLoadKeeps ==
  ASSUME IInv, NEW q \in Requests, PayLoad(q), UNCHANGED due
  PROVE  IInv'
<1>1. PICK i \in Ids, old \in BOOLEAN :
        To(q, [Idle EXCEPT !.pc = "pay", !.sub = i, !.cycle = subs[i].cycle,
                           !.end = subs[i].end, !.old = old,
                           !.plan = IF subs[i].pending # NoPlan
                                    THEN subs[i].pending ELSE subs[i].plan])
  BY Zenon DEF PayLoad
<1> DEFINE p == IF subs[i].pending # NoPlan THEN subs[i].pending ELSE subs[i].plan
           l == [Idle EXCEPT !.pc = "pay", !.sub = i, !.cycle = subs[i].cycle,
                             !.end = subs[i].end, !.old = old, !.plan = p]
<1>2. Sound(subs[i]) /\ subs[i] \in Row /\ i \in Nat
  BY SubsType DEF IInv, RowsInv, Sound, Ids
<1>3. p \in Plans /\ Category[p] = subs[i].category
  BY <1>2 DEF Sound, Row
<1>4. /\ l.pc = "pay" /\ l.sub = i /\ l.cycle = subs[i].cycle
      /\ l.end = subs[i].end /\ l.plan = p /\ l \in LocType
  BY <1>2, <1>3 DEF Idle, Row, LocType, Statuses
<1>5. Holds(l, subs)
  <2>1. subs[i].cycle \in Cycles /\ subs[i].end <= Accounted(subs[i])
    BY <1>2 DEF Sound, Row
  <2> HIDE DEF l, p
  <2>2. QED
    BY <1>3, <1>4, <2>1 DEF Holds, Ids
<1>6. UNCHANGED <<subs, today, due>>
  BY DEF PayLoad
<1>7. QED
  BY <1>1, <1>5, <1>6, ReadKeeps

\* A payment computed from what was read of the row keeps it sound: the period
\* it read is accounted for, and so is the cycle it adds.
LEMMA PaidRow ==
  ASSUME NEW x, Sound(x), NEW p \in Plans, Category[p] = x.category,
         NEW e \in Nat, e <= Accounted(x), NEW c \in Cycles, NEW o \in BOOLEAN
  PROVE  /\ Sound(PaidFor(x, p, e, c, o))
         /\ PaidFor(x, p, e, c, o).category = x.category
         /\ Accounted(PaidFor(x, p, e, c, o)) >= Accounted(x)
<1> DEFINE r == PaidFor(x, p, e, c, o)
           n == IF o THEN x.records ELSE x.records + 1
           b == IF o THEN x.billed ELSE Later(x.billed, e + c)
           a == IF o THEN x.again + c ELSE x.again
<1>1. /\ x \in Row /\ c \in Nat
      /\ x.records \in Nat /\ x.billed \in Nat /\ x.again \in Nat
  BY SubscriptionsAssumption DEF Sound, Row
<1>2. /\ n \in Nat /\ b \in Nat /\ a \in Nat /\ e + c \in Nat
      /\ b + a >= x.billed + x.again
      /\ e <= x.billed + x.again => e + c <= b + a
  BY <1>1 DEF Later
<1>3. /\ r.category = x.category /\ r.plan = p /\ r.pending = NoPlan
      /\ r.end = e + c /\ r.billed = b /\ r.again = a
  BY <1>1 DEF PaidFor, PeriodEnd, Row
<1>4. r \in Row
  <2> DEFINE y == [x EXCEPT !.status = "ACTIVE", !.overdue = 0, !.plan = p]
             z == [y EXCEPT !.pending = NoPlan, !.end = e + c, !.records = n,
                            !.billed = b, !.again = a]
  <2>1. y \in Row
    BY <1>1 DEF Row, Statuses
  <2>2. z \in Row
    <3> HIDE DEF y, n, b, a
    <3>1. QED
      BY <1>2, <2>1 DEF Row
  <2>3. r = z
    BY <1>1 DEF PaidFor, PeriodEnd, NotOverdue, Row
  <2>4. QED
    BY <2>2, <2>3
<1>5. r.end <= Accounted(r) /\ Accounted(r) >= Accounted(x)
  BY <1>2, <1>3 DEF Accounted
<1>6. QED
  BY <1>3, <1>4, <1>5 DEF Sound

LEMMA PayKeeps ==
  ASSUME IInv, NEW q \in Requests, Pay(q), UNCHANGED due
  PROVE  IInv'
<1> DEFINE l == loc[q]
           r == PaidFor(subs[l.sub], l.plan, l.end, l.cycle, l.old)
<1>1. l.pc = "pay" /\ (Commit(q, [subs EXCEPT ![l.sub] = r]) \/ Refused(q))
  BY DEF Pay
<1>2. /\ l.plan \in Plans /\ l.cycle \in Cycles /\ l.sub \in Ids /\ l.end \in Nat
      /\ Category[l.plan] = subs[l.sub].category /\ l.old \in BOOLEAN
      /\ l.end <= Accounted(subs[l.sub])
  BY <1>1, RequestsHold DEF Holds, LocType, Ids
<1>3. Sound(subs[l.sub])
  BY <1>2 DEF IInv, RowsInv
<1>4. /\ Sound(r) /\ r.category = subs[l.sub].category
      /\ Accounted(r) >= Accounted(subs[l.sub])
  BY <1>2, <1>3, PaidRow
<1>5. Follows([subs EXCEPT ![l.sub] = r])
  BY <1>2, <1>4, ChangedRow
<1>6. CASE Commit(q, [subs EXCEPT ![l.sub] = r])
  BY <1>5, <1>6, CommitKeeps
<1>7. CASE Refused(q)
  BY <1>7, IdleHolds, ReadKeeps DEF Refused, Done
<1>8. QED
  BY <1>1, <1>6, <1>7

LEMMA RequestKeeps ==
  ASSUME IInv, NEW q \in Requests, Request(q)
  PROVE  IInv'
<1>1. UNCHANGED due /\ RequestStep(q)
  BY DEF Request
<1>2. CASE AssignRead(q)
  BY <1>1, <1>2, AssignReadKeeps
<1>3. CASE Assign(q)
  BY <1>1, <1>3, AssignKeeps
<1>4. CASE SwapLoad(q)
  BY <1>1, <1>4, SwapLoadKeeps
<1>5. CASE Swap(q)
  BY <1>1, <1>5, SwapKeeps
<1>6. CASE UpdateAdmin(q)
  BY <1>1, <1>6, UpdateAdminKeeps
<1>7. CASE ReactivateRead(q)
  BY <1>1, <1>7, ReactivateReadKeeps
<1>8. CASE Reactivate(q)
  BY <1>1, <1>8, ReactivateKeeps
<1>9. CASE ScheduleUpgrade(q)
  BY <1>1, <1>9, ScheduleUpgradeKeeps
<1>10. CASE CancelUpgrade(q)
  BY <1>1, <1>10, CancelUpgradeKeeps
<1>11. CASE PayLoad(q)
  BY <1>1, <1>11, PayLoadKeeps
<1>12. CASE Pay(q)
  BY <1>1, <1>12, PayKeeps
<1>13. CASE Cancel(q)
  BY <1>1, <1>13, CancelKeeps
<1>14. QED
  BY <1>1, <1>2, <1>3, <1>4, <1>5, <1>6, <1>7, <1>8, <1>9, <1>10, <1>11, <1>12,
     <1>13 DEF RequestStep

\* A step that moves no request and leaves a table that follows.
LEMMA OutsideKeeps ==
  ASSUME IInv, Follows(subs'), today' \in Nat,
         UNCHANGED loc, due' \subseteq Ids'
  PROVE  IInv'
<1>1. loc' \in [Requests -> LocType]
  BY DEF IInv, TypeOK, LocType
<1>2. \A q \in Requests : Holds(loc'[q], subs')
  BY RequestsHold, HoldsOn
<1>3. QED
  BY <1>1, <1>2, StepKeeps

LEMMA MarkOverdueKeeps ==
  ASSUME IInv, NEW i \in due, MarkOverdue(i)
  PROVE  IInv'
<1> DEFINE r == [subs[i] EXCEPT !.overdue = today]
<1>1. i \in Ids /\ subs' = [subs EXCEPT ![i] = r]
  BY DEF IInv, TypeOK, MarkOverdue
<1>2. Sound(subs[i]) /\ subs[i] \in Row /\ today \in Nat
  BY <1>1, SubsType DEF IInv, RowsInv
<1>3. /\ r \in Row /\ r.category = subs[i].category /\ Accounted(r) = Accounted(subs[i])
      /\ r.end = subs[i].end /\ r.plan = subs[i].plan
      /\ r.pending = subs[i].pending /\ r.status = subs[i].status
  BY <1>2 DEF Row, Accounted
<1>4. Sound(r) /\ Accounted(r) >= Accounted(subs[i])
  BY <1>2, <1>3 DEF Sound, Row, Accounted
<1>5. Follows(subs')
  BY <1>1, <1>3, <1>4, ChangedRow
<1>6. due' \subseteq Ids'
  BY <1>1 DEF MarkOverdue, IInv, TypeOK, Ids
<1>7. UNCHANGED loc /\ today' \in Nat
  BY <1>2 DEF MarkOverdue
<1>8. QED
  BY <1>5, <1>6, <1>7, OutsideKeeps

\* Whatever leaves the rows and the requests alone.
LEMMA IdleStepKeeps ==
  ASSUME IInv, UNCHANGED <<subs, loc>>, today' \in Nat, due' \subseteq Ids
  PROVE  IInv'
<1>1. Follows(subs') /\ due' \subseteq Ids'
  BY SubsType DEF IInv, Ids
<1>2. QED
  BY <1>1, OutsideKeeps

LEMMA NextIInv == IInv /\ [Next]_vars => IInv'
<1> SUFFICES ASSUME IInv, [Next]_vars
             PROVE  IInv'
  OBVIOUS
<1>1. today \in Nat /\ due \subseteq Ids
  BY DEF IInv, TypeOK
<1>2. CASE \E q \in Requests : Request(q)
  BY <1>2, RequestKeeps
<1>3. CASE ReadDue
  BY <1>1, <1>3, IdleStepKeeps DEF ReadDue, subscriptions
<1>4. CASE \E i \in due : MarkOverdue(i)
  BY <1>4, MarkOverdueKeeps
<1>5. CASE \E i \in due : MarkFails(i)
  BY <1>1, <1>5, IdleStepKeeps DEF MarkFails, subscriptions
<1>6. CASE NextDay
  BY <1>1, <1>6, IdleStepKeeps DEF NextDay
<1>7. CASE UNCHANGED vars
  BY <1>1, <1>7, IdleStepKeeps DEF vars, subscriptions
<1>8. QED
  BY <1>2, <1>3, <1>4, <1>5, <1>6, <1>7 DEF Next, CronStep

-----------------------------------------------------------------------------
(* The theorems.                                                           *)

LEMMA Invariance == Spec => []IInv
BY InitIInv, NextIInv, PTL DEF Spec

\* The tables and the requests have their types in every reachable state.
THEOREM TypeCorrect == Spec => []TypeOK
<1>1. IInv => TypeOK
  BY DEF IInv
<1>2. QED
  BY <1>1, Invariance, PTL

\* No subscription runs beyond the latest period that was billed, but for the
\* cycles of payments recorded again, although a payment computes the new
\* period from a row that others may have changed since.
THEOREM BilledPeriods == Spec => []PeriodsAreBilled
<1>1. IInv => PeriodsAreBilled
  BY DEF IInv, RowsInv, Sound, Accounted, PeriodsAreBilled
<1>2. QED
  BY <1>1, Invariance, PTL

\* The plan and the upgrade of a subscription stay in its category, also when
\* a payment applies an upgrade that was read before others wrote.
THEOREM PlanInCategory == Spec => []PlanStaysInCategory
<1>1. IInv => PlanStaysInCategory
  BY DEF IInv, RowsInv, Sound, PlanStaysInCategory
<1>2. QED
  BY <1>1, Invariance, PTL
=============================================================================
