----------------------------- MODULE Availability -----------------------------
(***************************************************************************)
(* The two answers of the system to "is this slot free?":                  *)
(*   - the availability engine of the agent (scheduling/                   *)
(*     availability.service.ts, scheduling/timezone.util.ts), and          *)
(*   - the calendar's check of a reschedule (calendar/calendar.service.ts, *)
(*     calendar/calendar-availability.helper.ts).                          *)
(*                                                                         *)
(* Instants are numbers in UTC; a staff member's hours are wall-clock      *)
(* times of the company's time zone, which is Offset ahead of UTC. An      *)
(* appointment is a record with at least staff, status, start and dur, a   *)
(* block one with staff (AnyStaff: the company), start and end.            *)
(***************************************************************************)
EXTENDS Integers

CONSTANTS
    Staff,          \* active members, numbered: the engine orders by id
    AnyStaff,       \* the staff column is NULL
    DayLength,      \* instants of one day
    Week,           \* days after which the working hours repeat
    Offset,         \* of the company's time zone
    Hours           \* windows [staff, day, from, to] of WorkingHours

ASSUME AvailabilityAssumption ==
    /\ Staff \subseteq Nat /\ AnyStaff \notin Staff
    /\ DayLength \in Nat \ {0} /\ Week \in Nat \ {0} /\ Offset \in Int
    /\ Hours \subseteq [staff : Staff, day : 0..(Week - 1), from : Nat, to : Nat]
    /\ \A h \in Hours : h.from < h.to /\ h.to <= DayLength

-----------------------------------------------------------------------------
\* getZonedParts: the local date of an instant, and its wall-clock time.
LocalDay(t) == (t + Offset) \div DayLength
WallTime(t) == (t + Offset) % DayLength

\* Bug: the offset is taken from the wrong side.
BugToUtc(day, wall) == day * DayLength + wall + Offset

\* zonedWallTimeToUtc
ToUtc(day, wall) == day * DayLength + wall - Offset

\* enumerateZonedDates: the end's date is included.
LocalDays(from, to) ==
    IF to <= from THEN {} ELSE LocalDay(from) .. LocalDay(to)

End(a) == a.start + a.dur

\* overlapsAny, for one range.
Overlaps(s1, e1, s2, e2) == s2 < e1 /\ e2 > s1

BUSY_STATUSES == {"PENDING", "CONFIRMED"}

BlocksOf(blocks, m) == {b \in blocks : b.staff \in {m, AnyStaff}}

\* No obstacle of the engine meets the range.
Unobstructed(appts, blocks, m, s, e) ==
    /\ \A a \in appts :
         ~ (/\ a.staff = m /\ a.status \in BUSY_STATUSES
            /\ Overlaps(s, e, a.start, End(a)))
    /\ \A b \in BlocksOf(blocks, m) : ~ Overlaps(s, e, b.start, b.end)

\* compute: the free slots in [from, to). The slots of a working-hours window
\* are laid out from the start of the window, whatever the query asks.
Slots(appts, blocks, members, from, to, dur) ==
    { x \in [staff : members, start : from..(to - dur)] :
        /\ \E d \in LocalDays(from, to), h \in Hours :
             LET first == ToUtc(d, h.from) IN
             /\ h.staff = x.staff /\ h.day = d % Week
             /\ first <= x.start /\ x.start + dur <= ToUtc(d, h.to)
             /\ (x.start - first) % dur = 0
        /\ Unobstructed(appts, blocks, x.staff, x.start, x.start + dur) }

\* The order of the answer: by start, then by staff id.
Before(x, y) == x.start < y.start \/ (x.start = y.start /\ x.staff < y.staff)
FirstSlot(slots) == CHOOSE x \in slots : \A y \in slots \ {x} : Before(x, y)

\* isSlotAvailable
IsSlotAvailable(appts, blocks, m, s, dur) ==
    [staff |-> m, start |-> s] \in Slots(appts, blocks, {m}, s, s + dur, dur)

-----------------------------------------------------------------------------
\* findConflictingAppointments: without a staff member, any appointment of the
\* company conflicts.
Conflicts(appts, m, s, e) ==
    { a \in appts : /\ a.status # "CANCELLED"
                    /\ m = AnyStaff \/ a.staff = m
                    /\ Overlaps(s, e, a.start, End(a)) }

\* evaluateWorkingHoursAndBlocks: only the start has to be in a window.
WithinWorkingHours(blocks, m, s, e) ==
    /\ \A b \in blocks :
         b.staff \in {m, AnyStaff} => ~ Overlaps(s, e, b.start, b.end)
    /\ m # AnyStaff =>
         \E h \in Hours : /\ h.staff = m /\ h.day = LocalDay(s) % Week
                          /\ h.from <= WallTime(s) /\ WallTime(s) < h.to
=============================================================================
