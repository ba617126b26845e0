------------------------------- MODULE Bookings -------------------------------
(***************************************************************************)
(* The appointments of one company and everybody who writes them: the      *)
(* agent's executor (agents/steps/executor.service.ts,                     *)
(* tryBookAppointment), the dashboard (appointments/                       *)
(* appointments.service.ts), the calendar (calendar/calendar.service.ts)   *)
(* and the blocked times (scheduling/blocked-times.service.ts).            *)
(*                                                                         *)
(* A run is one execution of the agent's booking for a contact, a request  *)
(* one HTTP request of a user; each is served once and every database      *)
(* statement of it is a step. No statement locks the slot it is about.     *)
(***************************************************************************)
EXTENDS Availability, LifecycleTransitions, Sequences

CONSTANTS
    Runs,           \* executions of tryBookAppointment
    Requests,       \* HTTP requests
    Contact,        \* the contact of each run's conversation
    Users,          \* users of the dashboard
    Owner,          \* the oldest active user: organizes the agent's bookings
    Role,           \* of each user
    Nobody,
    Ops,            \* operations that requests ask for
    Hints,          \* starts a customer may ask for
    AnyTime,        \* no start was asked for
    SearchDays,     \* FALLBACK_SEARCH_DAYS
    Stored,         \* drafts of the dashboard that were created before
    Drafts,         \* [staff, contact, type, start, dur] of dashboard creations
    GuestLists,     \* [users, contacts] to invite to them
    Moves,          \* [start, dur] of reschedules
    BlockDrafts,    \* [staff, start, end] of blocked times
    SlotLength,     \* defaultSlotDurationMinutes
    MaxOccurrences  \* children of a recurring series

Contacts == { Contact[x] : x \in Runs }
Procs == Runs \union Requests
Clients == { u \in Users : Role[u] = "CLIENT" }
Operators == { u \in Users : Role[u] = "SUPER_ADMIN" }
Now == 0

AppointmentTypes == {"SIMPLEX_WITH_CLIENT", "CLIENT_WITH_CONTACT", "EXTERNAL"}

ASSUME BookingsAssumption ==
    /\ Runs \intersect Requests = {}
    /\ Owner \in Users /\ DOMAIN Role = Users
    /\ Nobody \notin Users \union Contacts
    /\ AnyTime \notin Nat /\ Hints \subseteq Nat \union {AnyTime}
    /\ SlotLength \in Nat \ {0} /\ SearchDays \in Nat \ {0}
    /\ MaxOccurrences \in Nat
    /\ Stored \in Seq([staff : Staff \union {AnyStaff}, contact : Contacts \union {Nobody},
                       type : AppointmentTypes, start : Int, dur : Nat])
    /\ \A d \in Drafts : d.type \in AppointmentTypes /\ d.start \in Int /\ d.dur \in Nat
    /\ Moves \subseteq [start : Int, dur : Nat \ {0}]
    /\ \A b \in BlockDrafts : b.start \in Int /\ b.end \in Int

VARIABLES
    appts,          \* the appointments, in the order they were created
    blocks,
    thread,         \* lifecycle status of each contact's open conversation
    clock,          \* number of writes to the calendar so far
    loc             \* where each run and request is, and what it read

bookings == <<appts, blocks, thread, clock, loc>>

Ids == DOMAIN appts
Table == { appts[i] : i \in Ids }
TableWithout(a) == { appts[i] : i \in Ids \ {a} }

Unchecked == -1

\* A row. Beside the columns: wrote and checked are the moments its slot was
\* written and last checked, offers counts the times it was PENDING, told the
\* confirmations sent to the customer.
NewRow(staff, contact, type, start, dur, organizer, checked) ==
    [staff |-> staff, contact |-> contact, type |-> type, status |-> "PENDING",
     start |-> start, dur |-> dur, organizer |-> organizer,
     callback |-> FALSE, handledBy |-> Nobody,
     wrote |-> clock, checked |-> checked, offers |-> 1, told |-> 0]

\* The lists of a request that has none.
NoGuests == [users |-> {}, contacts |-> {}]

Idle == [pc |-> "idle", user |-> Nobody, appt |-> 0, staff |-> AnyStaff,
         start |-> 0, dur |-> 0, at |-> 0, blocks |-> {}, life |-> "none",
         guests |-> NoGuests]

InitBookings ==
    /\ clock = 1
    /\ appts = [i \in DOMAIN Stored |->
                  [NewRow(Stored[i].staff, Stored[i].contact, Stored[i].type,
                          Stored[i].start, Stored[i].dur, Owner, Unchecked)
                   EXCEPT !.wrote = 0]]
    /\ blocks = {}
    /\ thread = [c \in Contacts |-> "AGENT_ANALYZING"]
    /\ loc = [p \in Procs |-> Idle]

-----------------------------------------------------------------------------
To(p, l) == loc' = [loc EXCEPT ![p].pc = l]
Done(p) == loc' = [loc EXCEPT ![p] = [Idle EXCEPT !.pc = "done"]]

Ticks == clock' = clock + 1

(* tryBookAppointment ******************************************************)

\* resolveSearchFrom
SearchFrom(hint) == IF hint = AnyTime \/ hint < Now THEN Now ELSE hint

Found(hint, members, dur) ==
    Slots(Table, blocks, members, SearchFrom(hint),
          SearchFrom(hint) + SearchDays * DayLength, dur)

Candidates(hint, slots) ==
    IF hint = AnyTime THEN slots ELSE { s \in slots : s.start = hint }

\* resolvePreferredStaff: one that the model or the customer named, or anybody.
PreferredStaff == {Staff} \union { {m} : m \in Staff }

\* The availability of the next days, and the slot to book; without one the
\* run offers alternatives.
Search(x) ==
    /\ loc[x].pc = "idle"
    /\ \E hint \in Hints, members \in PreferredStaff :
         LET fit == Candidates(hint, Found(hint, members, SlotLength)) IN
         IF fit = {} THEN Done(x)
         ELSE loc' = [loc EXCEPT ![x].pc = "recheckBlocks",
                                 ![x].staff = FirstSlot(fit).staff,
                                 ![x].start = FirstSlot(fit).start,
                                 ![x].dur = SlotLength]
    /\ UNCHANGED <<appts, blocks, thread, clock>>

\* isSlotAvailable inside of the transaction, through another connection:
\* the blocked times are read first, then the appointments.
RecheckBlocks(x) ==
    /\ loc[x].pc = "recheckBlocks"
    /\ loc' = [loc EXCEPT ![x].pc = "recheck", ![x].at = clock,
                          ![x].blocks = blocks]
    /\ UNCHANGED <<appts, blocks, thread, clock>>

\* Bug: the slot of the search is booked as it was found.
BugRecheck(x) ==
    /\ loc[x].pc = "recheck"
    /\ To(x, "book")
    /\ UNCHANGED <<appts, blocks, thread, clock>>

Recheck(x) ==
    /\ loc[x].pc = "recheck"
    /\ IF IsSlotAvailable(Table, loc[x].blocks, loc[x].staff, loc[x].start,
                          loc[x].dur)
       THEN To(x, "book")
       ELSE Done(x)
    /\ UNCHANGED <<appts, blocks, thread, clock>>

\* The transaction commits the PENDING appointment and the lifecycle status.
Book(x) ==
    /\ loc[x].pc = "book"
    /\ appts' = Append(appts,
                  NewRow(loc[x].staff, Contact[x], "CLIENT_WITH_CONTACT",
                         loc[x].start, loc[x].dur, Owner, loc[x].at))
    /\ thread' = [thread EXCEPT ![Contact[x]] = "APPOINTMENT_PENDING"]
    /\ Ticks
    /\ Done(x)
    /\ UNCHANGED blocks

\* Bug: the lifecycle status is written although the transaction fails.
BugBookFails(x) ==
    /\ loc[x].pc = "book"
    /\ thread' = [thread EXCEPT ![Contact[x]] = "APPOINTMENT_PENDING"]
    /\ Done(x)
    /\ UNCHANGED <<appts, blocks, clock>>

\* The transaction fails, which the executor reports as no booking.
BookFails(x) ==
    /\ loc[x].pc = "book"
    /\ Done(x)
    /\ UNCHANGED <<appts, blocks, thread, clock>>

RunStep(x) ==
    \/ Search(x) \/ RecheckBlocks(x) \/ Recheck(x) \/ Book(x) \/ BookFails(x)

(* The dashboard ***********************************************************)

\* assertOptionalReferencesBelongToCompany
Refers(d) == d.staff \in Staff \union {AnyStaff} /\ d.contact \in Contacts \union {Nobody}

\* syncAttendeesIfProvided, for the appointment that is being created.
SyncAttendees(q, u, g) ==
    IF g = NoGuests THEN Done(q)
    ELSE loc' = [loc EXCEPT ![q] = [Idle EXCEPT !.pc = "inviteUsers", !.user = u,
                                                !.appt = Len(appts) + 1, !.guests = g]]

\* AppointmentsService.create asks nobody whether the slot is free; the
\* guests are invited after the row is stored (Attendees).
Create(q) ==
    /\ loc[q].pc = "idle" /\ "create" \in Ops
    /\ \E u \in Users, d \in Drafts, g \in GuestLists :
         /\ Refers(d)
         /\ appts' = Append(appts, NewRow(d.staff, d.contact, d.type, d.start,
                                          d.dur, u, Unchecked))
         /\ SyncAttendees(q, u, g)
    /\ Ticks
    /\ UNCHANGED <<blocks, thread>>

\* Every other operation begins by loading the appointment.
Load(q, op, u, a, l) ==
    /\ loc[q].pc = "idle" /\ op \in Ops
    /\ a \in Ids
    /\ loc' = [loc EXCEPT ![q].pc = l, ![q].user = u, ![q].appt = a,
                          ![q].at = clock, ![q].start = appts[a].start,
                          ![q].dur = appts[a].dur]
    /\ UNCHANGED <<appts, blocks, thread, clock>>

\* assertConfirmable
Confirmable(a) == appts[a].status = "PENDING"

ConfirmLoad(q) ==
    \E u \in Users, a \in Ids :
        /\ Confirmable(a)
        /\ Load(q, "confirm", u, a, "confirm")

\* Bug: the update is not conditional on the status.
BugConfirm(q) ==
    LET a == loc[q].appt IN
    /\ loc[q].pc = "confirm"
    /\ appts' = [appts EXCEPT ![a].status = "CONFIRMED"]
    /\ To(q, "lifeRead")
    /\ UNCHANGED <<blocks, thread, clock>>

\* PENDING to CONFIRMED, or somebody else was faster.
Confirm(q) ==
    LET a == loc[q].appt IN
    /\ loc[q].pc = "confirm"
    /\ IF appts[a].status = "PENDING"
       THEN /\ appts' = [appts EXCEPT ![a].status = "CONFIRMED"]
            /\ To(q, "lifeRead")
       ELSE Done(q) /\ UNCHANGED appts
    /\ UNCHANGED <<blocks, thread, clock>>

\* updateLifecycleForContact: the contact's open conversation, if any.
ConfirmLifeRead(q) ==
    LET c == appts[loc[q].appt].contact IN
    /\ loc[q].pc = "lifeRead"
    /\ IF c \in Contacts /\ canTransitionLifecycle(thread[c], "APPOINTMENT_BOOKED")
       THEN loc' = [loc EXCEPT ![q].pc = "lifeSwap", ![q].life = thread[c]]
       ELSE To(q, "tell")
    /\ UNCHANGED <<appts, blocks, thread, clock>>

ConfirmLifeSwap(q) ==
    /\ loc[q].pc = "lifeSwap"
    /\ thread' = [thread EXCEPT ![appts[loc[q].appt].contact] =
                     IF @ = loc[q].life THEN "APPOINTMENT_BOOKED" ELSE @]
    /\ To(q, "tell")
    /\ UNCHANGED <<appts, blocks, clock>>

\* sendCustomerConfirmation: a contact with a phone is told, unless the send
\* fails; then nothing is stored.
TellCustomer(q) ==
    LET a == loc[q].appt IN
    /\ loc[q].pc = "tell"
    /\ \/ /\ appts[a].contact \in Contacts
          /\ appts' = [appts EXCEPT ![a].told = @ + 1]
       \/ UNCHANGED appts
    /\ Done(q)
    /\ UNCHANGED <<blocks, thread, clock>>

CallbackLoad(q) ==
    \E u \in Clients, a \in Ids :
        /\ appts[a].type = "SIMPLEX_WITH_CLIENT"
        /\ appts[a].status = "PENDING"
        /\ ~ appts[a].callback
        /\ Load(q, "callback", u, a, "callback")

RequestCallback(q) ==
    /\ loc[q].pc = "callback"
    /\ appts' = [appts EXCEPT ![loc[q].appt].callback = TRUE]
    /\ Done(q)
    /\ UNCHANGED <<blocks, thread, clock>>

\* Bug: whoever may see the appointment handles its callback.
BugHandledLoad(q) ==
    \E u \in Users, a \in Ids :
        /\ appts[a].callback
        /\ appts[a].handledBy = Nobody
        /\ Load(q, "handled", u, a, "handled")

\* A callback that was handled already is answered and left as it is.
HandledLoad(q) ==
    \E u \in Operators, a \in Ids :
        /\ appts[a].callback
        /\ appts[a].handledBy = Nobody
        /\ Load(q, "handled", u, a, "handled")

MarkCallbackHandled(q) ==
    /\ loc[q].pc = "handled"
    /\ appts' = [appts EXCEPT ![loc[q].appt].handledBy = loc[q].user]
    /\ Done(q)
    /\ UNCHANGED <<blocks, thread, clock>>

(* The calendar ************************************************************)

\* moveAppointment: only the organizer.
MoveLoad(q) ==
    \E a \in Ids : Load(q, "move", appts[a].organizer, a, "moveConflicts")

\* checkAvailability reads the appointments first, then the blocked times.
MoveConflicts(q) ==
    LET a == loc[q].appt IN
    /\ loc[q].pc = "moveConflicts"
    /\ \E m \in Moves :
         IF Conflicts(TableWithout(a), appts[a].staff, m.start, m.start + m.dur) = {}
         THEN loc' = [loc EXCEPT ![q].pc = "moveHours", ![q].at = clock,
                                 ![q].start = m.start, ![q].dur = m.dur]
         ELSE Done(q)
    /\ UNCHANGED <<appts, blocks, thread, clock>>

MoveHours(q) ==
    /\ loc[q].pc = "moveHours"
    /\ IF WithinWorkingHours(blocks, appts[loc[q].appt].staff, loc[q].start,
                             loc[q].start + loc[q].dur)
       THEN To(q, "move")
       ELSE Done(q)
    /\ UNCHANGED <<appts, blocks, thread, clock>>

\* The new slot has to be confirmed again.
MoveAppointment(q) ==
    LET a == loc[q].appt IN
    /\ loc[q].pc = "move"
    /\ appts' = [appts EXCEPT ![a] =
                   [@ EXCEPT !.start = loc[q].start, !.dur = loc[q].dur,
                             !.status = "PENDING", !.wrote = clock,
                             !.checked = loc[q].at,
                             !.offers = appts[a].offers + 1]]
    /\ Ticks
    /\ Done(q)
    /\ UNCHANGED <<blocks, thread>>

\* createRecurringAppointments loads the base, writes its recurrence columns,
\* and creates the occurrences after it from what was loaded; none of them is
\* checked.
RecurLoad(q) ==
    \E a \in Ids : \E u \in Operators \union {appts[a].organizer} :
        Load(q, "recur", u, a, "recur")

Occurrence(base, every, i) ==
    NewRow(base.staff, base.contact, base.type, base.start + i * every,
           base.dur, base.organizer, Unchecked)

RecurChildren(q) ==
    LET base == [appts[loc[q].appt] EXCEPT !.start = loc[q].start, !.dur = loc[q].dur] IN
    /\ loc[q].pc = "recur"
    /\ \E n \in 0..MaxOccurrences, every \in {DayLength, Week * DayLength} :
         appts' = appts \o [i \in 1..n |-> Occurrence(base, every, i)]
    /\ Ticks
    /\ Done(q)
    /\ UNCHANGED <<blocks, thread>>

BlockTime(q) ==
    /\ loc[q].pc = "idle" /\ "block" \in Ops
    /\ \E b \in BlockDrafts :
         /\ b.end > b.start
         /\ blocks' = blocks \union
              {[staff |-> b.staff, start |-> b.start, end |-> b.end, wrote |-> clock]}
    /\ Ticks
    /\ Done(q)
    /\ UNCHANGED <<appts, thread>>

UnblockTime(q) ==
    /\ loc[q].pc = "idle" /\ "unblock" \in Ops
    /\ \E b \in blocks : blocks' = blocks \ {b}
    /\ Done(q)
    /\ UNCHANGED <<appts, thread, clock>>

RequestStep(q) ==
    \/ Create(q)
    \/ ConfirmLoad(q) \/ Confirm(q) \/ ConfirmLifeRead(q) \/ ConfirmLifeSwap(q)
    \/ TellCustomer(q)
    \/ CallbackLoad(q) \/ RequestCallback(q)
    \/ HandledLoad(q) \/ MarkCallbackHandled(q)
    \/ MoveLoad(q) \/ MoveConflicts(q) \/ MoveHours(q) \/ MoveAppointment(q)
    \/ RecurLoad(q) \/ RecurChildren(q)
    \/ BlockTime(q) \/ UnblockTime(q)
=============================================================================
