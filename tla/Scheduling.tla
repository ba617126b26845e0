------------------------------ MODULE Scheduling ------------------------------
(***************************************************************************)
(* The calendar of one company with everybody who writes it: concurrent    *)
(* bookings of the agent, requests of the dashboard and the calendar,      *)
(* blocked times, and invitations.                                         *)
(***************************************************************************)
EXTENDS Attendees

vars == <<bookings, attendees>>

Init == InitBookings /\ InitAttendees

Run(x) == RunStep(x) /\ UNCHANGED attendees
Request(q) == RequestStep(q) /\ UNCHANGED attendees

Next ==
    \/ \E x \in Runs : Run(x)
    \/ \E q \in Requests : Request(q)
    \/ AttendeesStep

Spec == Init /\ [][Next]_vars

-----------------------------------------------------------------------------
\* The types of the tables. A checked slot was checked before it was written.
TypeOK ==
    /\ \A a \in Ids :
         /\ appts[a].status \in BUSY_STATUSES
         /\ appts[a].staff \in Staff \union {AnyStaff}
         /\ appts[a].organizer \in Users
         /\ appts[a].handledBy \in Operators \union {Nobody}
         /\ appts[a].checked \in Unchecked .. appts[a].wrote
         /\ appts[a].wrote < clock
    /\ \A b \in blocks : b.start < b.end /\ b.wrote < clock
    /\ thread \in [Contacts -> LifecycleStatuses]
    /\ \A k \in DOMAIN seats :
         /\ k \in Ids \X (Users \union Contacts)
         /\ seats[k] \in {"PENDING", "ACCEPTED", "DECLINED"}

Meet(a, b) == Overlaps(appts[a].start, End(appts[a]), appts[b].start, End(appts[b]))

\* The availability engine's promise for what is written after a check (the
\* executor's re-check and the calendar's): the slot overlaps no appointment
\* of the staff member, and no blocked time, that was written before the
\* check. What may still meet is what was written between a check and the
\* write that followed it, and what was written without any.
CheckedSlotsAreFree ==
    \A a \in Ids : appts[a].checked # Unchecked =>
        /\ \A b \in Ids \ {a} :
             /\ appts[b].staff = appts[a].staff
             /\ appts[b].wrote < appts[a].checked
             => ~Meet(a, b)
        /\ \A b \in BlocksOf(blocks, appts[a].staff) :
             b.wrote < appts[a].checked
             => ~Overlaps(appts[a].start, End(appts[a]), b.start, b.end)

\* Where a window of a staff member's hours is on the local day of an instant.
InWindow(h, a) ==
    /\ h.staff = a.staff
    /\ h.day = LocalDay(a.start) % Week
    /\ h.from <= WallTime(a.start)
    /\ WallTime(a.start) + a.dur <= h.to

\* What the agent books lies wholly within the staff member's hours of that
\* local day, and starts a whole number of slots after they do. (A reschedule
\* only has to start within them: WithinWorkingHours.)
AgentBooksWorkingHours ==
    \A a \in Ids :
        appts[a].checked # Unchecked /\ appts[a].offers = 1 =>
            \E h \in Hours :
                /\ InWindow(h, appts[a])
                /\ (WallTime(appts[a].start) - h.from) % appts[a].dur = 0

\* A customer is told once for every time the appointment was offered: two
\* users who confirm it at the same time, and a reschedule in between, do not
\* make it two messages (AppointmentsService.confirm).
ConfirmedOnce ==
    \A a \in Ids :
        appts[a].told <= appts[a].offers - (IF appts[a].status = "PENDING" THEN 1 ELSE 0)

\* A conversation says APPOINTMENT_PENDING only when the contact has an
\* appointment, and APPOINTMENT_BOOKED only when one was confirmed.
ThreadsFollowAppointments ==
    \A c \in Contacts :
        /\ thread[c] = "APPOINTMENT_PENDING" =>
             \E a \in Ids : appts[a].contact = c
        /\ thread[c] = "APPOINTMENT_BOOKED" =>
             \E a \in Ids : /\ appts[a].contact = c
                            /\ appts[a].status = "CONFIRMED" \/ appts[a].offers > 1

\* Whoever is invited has a seat to answer from, and is not the organizer.
InvitedAreSeated ==
    \A k \in invited : k \in DOMAIN seats /\ k[2] # appts[k[1]].organizer

\* "This is the "last line of defense" against stale-slot races between
\* availability preview and actual write" (availability.service.ts): two
\* bookings of the agent never share a staff member's time.
NoDoubleBooking ==
    \A a, b \in Ids :
        /\ a # b
        /\ appts[a].staff = appts[b].staff
        /\ appts[a].checked # Unchecked /\ appts[a].offers = 1
        /\ appts[b].checked # Unchecked /\ appts[b].offers = 1
        => ~Meet(a, b)
=============================================================================
