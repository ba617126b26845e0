------------------------------ MODULE Attendees ------------------------------
(***************************************************************************)
(* Who is invited to an appointment (attendees/attendees.service.ts,       *)
(* attendees/attendee-invite.policy.ts). The rows are written after the    *)
(* appointment is stored, in statements of their own: a request that is    *)
(* refused or fails half way leaves the appointment and what it has        *)
(* written, and answers with an error.                                     *)
(***************************************************************************)
EXTENDS Bookings

CONSTANTS
    Replies,        \* requests of invited users to answer
    Inactive,       \* users that are deactivated
    PlatformUsers   \* users of the company that owns the platform

ASSUME AttendeesAssumption ==
    /\ Inactive \union PlatformUsers \subseteq Users
    /\ Replies \intersect Procs = {}

VARIABLES
    seats,          \* appointment_attendees: status per appointment and guest
    invited,        \* <<appointment, user>> of the invitations sent
    reply           \* the row that each answer found

attendees == <<seats, invited, reply>>

NoRow == <<>>

InitAttendees ==
    /\ seats = [k \in {} |-> "PENDING"]
    /\ invited = {}
    /\ reply = [r \in Replies |-> NoRow]

\* assertCanInviteAttendeeUser
SameCompany(u, g) == (u \in PlatformUsers) = (g \in PlatformUsers)
Privileged(u) == u \in Operators \/ Role[u] = "SIMPLEX_STAFF"

CanInvite(u, g) ==
    /\ g # u
    /\ \/ Privileged(u)
       \/ /\ Role[u] = "COMPANY_ADMIN"
          /\ \/ g \in PlatformUsers /\ Privileged(g)
             \/ Role[g] # "COMPANY_ADMIN"
       \/ /\ Role[u] # "COMPANY_ADMIN"
          /\ Role[g] = "COMPANY_ADMIN" /\ SameCompany(u, g)

Seat(a, gs) == [k \in DOMAIN seats \union ({a} \X gs) |->
                  IF k \in DOMAIN seats THEN seats[k] ELSE "PENDING"]

\* syncUserAttendees: the organizer is taken off the list; one guest that is
\* unknown, inactive or may not be invited refuses all of it.
InviteUsers(q) ==
    LET guests == loc[q].guests.users \ {loc[q].user} IN
    /\ loc[q].pc = "inviteUsers"
    /\ IF \A g \in guests : g \in Users \ Inactive /\ CanInvite(loc[q].user, g)
       THEN /\ seats' = Seat(loc[q].appt, guests)
            /\ To(q, "notifyGuests")
       ELSE UNCHANGED seats /\ Done(q)
    /\ UNCHANGED <<appts, blocks, thread, clock, invited, reply>>

\* Bug: the guests that asked not to be seated are notified, too.
BugNotifyGuests(q) ==
    /\ loc[q].pc = "notifyGuests"
    /\ invited' = invited \union ({loc[q].appt} \X loc[q].guests.users)
    /\ To(q, "inviteContacts")
    /\ UNCHANGED <<appts, blocks, thread, clock, seats, reply>>

\* The guests are notified together; a notification that fails makes the
\* request fail and does not take the others back.
NotifyGuests(q) ==
    LET guests == loc[q].guests.users \ {loc[q].user} IN
    /\ loc[q].pc = "notifyGuests"
    /\ \E sent \in SUBSET guests :
         /\ invited' = invited \union ({loc[q].appt} \X sent)
         /\ IF sent = guests THEN To(q, "inviteContacts") ELSE Done(q)
    /\ UNCHANGED <<appts, blocks, thread, clock, seats, reply>>

\* syncContactAttendees: contacts of the company only.
InviteContacts(q) ==
    LET guests == loc[q].guests.contacts IN
    /\ loc[q].pc = "inviteContacts"
    /\ seats' = IF guests \subseteq Contacts THEN Seat(loc[q].appt, guests) ELSE seats
    /\ Done(q)
    /\ UNCHANGED <<appts, blocks, thread, clock, invited, reply>>

\* respondToInvitation: find the user's row, then update it by its id.
FindInvitation(r) ==
    /\ reply[r] = NoRow
    /\ \E k \in DOMAIN seats : k[2] \in Users /\ reply' = [reply EXCEPT ![r] = k]
    /\ UNCHANGED <<bookings, seats, invited>>

RespondToInvitation(r) ==
    /\ reply[r] # NoRow
    /\ \E answer \in {"ACCEPTED", "DECLINED"} :
         seats' = [seats EXCEPT ![reply[r]] = answer]
    /\ UNCHANGED <<bookings, invited, reply>>

AttendeesStep ==
    \/ \E q \in Requests : InviteUsers(q) \/ NotifyGuests(q) \/ InviteContacts(q)
    \/ \E r \in Replies : FindInvitation(r) \/ RespondToInvitation(r)
=============================================================================
