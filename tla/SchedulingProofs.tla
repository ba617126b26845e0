--------------------------- MODULE SchedulingProofs ---------------------------
(***************************************************************************)
(* Proofs about Scheduling, for any number of runs, requests, staff        *)
(* members and users, any working hours, and any length of days and slots. *)
(***************************************************************************)
EXTENDS Scheduling, FiniteSetTheorems, WellFoundedInduction, TLAPS

-----------------------------------------------------------------------------
(* The inductive invariant.                                                *)

Rows == [staff : Staff \union {AnyStaff}, contact : Contacts \union {Nobody},
         type : AppointmentTypes, status : BUSY_STATUSES, start : Int, dur : Nat,
         organizer : Users, callback : BOOLEAN, handledBy : Operators \union {Nobody},
         wrote : Nat, checked : Int, offers : Nat \ {0}, told : Nat]

Lifecycles == [Contacts -> LifecycleStatuses]

Blocks == [staff : { b.staff : b \in BlockDrafts }, start : Int, end : Int, wrote : Nat]

TablesInv ==
    /\ clock \in Nat
    /\ appts \in Seq(Rows)
    /\ \A a \in Ids : /\ appts[a].checked \in Unchecked .. appts[a].wrote
                      /\ appts[a].wrote < clock
    /\ blocks \subseteq Blocks
    /\ \A b \in blocks : b.start < b.end /\ b.wrote < clock
    /\ thread \in Lifecycles

SeatsInv ==
    \A k \in DOMAIN seats : /\ k \in Ids \X (Users \union Contacts)
                            /\ seats[k] \in {"PENDING", "ACCEPTED", "DECLINED"}

RepliesInv == \A r \in DOMAIN reply : reply[r] # NoRow => reply[r] \in DOMAIN seats

\* No appointment but the one itself that was written before the moment at
\* meets the slot.
FreeOfAppointments(m, s, e, at, self) ==
    \A b \in Ids \ {self} : appts[b].staff = m /\ appts[b].wrote < at
                            => ~Overlaps(s, e, appts[b].start, End(appts[b]))

\* No blocked time that was set before the moment at meets the slot.
FreeOfBlocks(m, s, e, at) ==
    \A b \in BlocksOf(blocks, m) : b.wrote < at => ~Overlaps(s, e, b.start, b.end)

\* The slot is in a window of the member's hours, on the grid of the window.
OnGrid(m, s, d) ==
    \E h \in Hours : /\ h.staff = m /\ h.day = LocalDay(s) % Week
                     /\ h.from <= WallTime(s) /\ WallTime(s) + d <= h.to
                     /\ (WallTime(s) - h.from) % d = 0

RunPoints == {"recheckBlocks", "recheck", "book"}
TellPoints == {"lifeRead", "lifeSwap", "tell"}
MovePoints == {"moveConflicts", "moveHours", "move"}
ApptPoints == TellPoints \union MovePoints
                \union {"confirm", "callback", "handled", "recur",
                        "inviteUsers", "notifyGuests", "inviteContacts"}

Locs == [pc : {"idle", "done"} \union RunPoints \union ApptPoints,
         user : Users \union {Nobody}, appt : Nat, staff : Staff \union {AnyStaff},
         start : Int, dur : Nat, at : Nat, blocks : SUBSET Blocks,
         life : LifecycleStatuses \union {"none"}, guests : GuestLists \union {NoGuests}]

\* What a run holds at its program point.
RunLocal(l) ==
    /\ l \in Locs
    /\ l.pc \in RunPoints => l.staff \in Staff /\ l.dur = SlotLength
    /\ l.pc \in {"recheck", "book"} => l.at <= clock
    /\ l.pc = "recheck" =>
         \A b \in blocks : b.wrote < l.at => b \in l.blocks
    /\ l.pc = "book" =>
         /\ OnGrid(l.staff, l.start, l.dur)
         /\ FreeOfAppointments(l.staff, l.start, l.start + l.dur, l.at, 0)
         /\ FreeOfBlocks(l.staff, l.start, l.start + l.dur, l.at)

\* What a request holds at its program point.
RequestLocal(l) ==
    /\ l \in Locs
    /\ l.pc \in ApptPoints => l.appt \in Ids
    /\ l.pc = "handled" => l.user \in Operators
    /\ l.pc \in TellPoints =>
         appts[l.appt].status = "CONFIRMED" \/ appts[l.appt].offers > 1
    /\ l.pc \in {"moveHours", "move"} =>
         /\ l.at <= clock
         /\ FreeOfAppointments(appts[l.appt].staff, l.start, l.start + l.dur, l.at, l.appt)
    /\ l.pc = "move" => FreeOfBlocks(appts[l.appt].staff, l.start, l.start + l.dur, l.at)
    /\ l.pc \in {"inviteUsers", "notifyGuests"} => l.user = appts[l.appt].organizer
    /\ l.pc = "notifyGuests" => {l.appt} \X (l.guests.users \ {l.user}) \subseteq DOMAIN seats

\* The requests that are about to tell the customer.
Telling(a) == { q \in Requests : loc[q].pc \in TellPoints /\ loc[q].appt = a }

ToldInv ==
    \A a \in Ids :
        /\ IsFiniteSet(Telling(a))
        /\ appts[a].told + Cardinality(Telling(a))
             <= appts[a].offers - (IF appts[a].status = "PENDING" THEN 1 ELSE 0)

LocsInv ==
    /\ loc \in [Procs -> Locs]
    /\ \A x \in Runs : RunLocal(loc[x])
    /\ \A q \in Requests : RequestLocal(loc[q])

IInv == /\ TablesInv /\ SeatsInv /\ RepliesInv /\ LocsInv /\ ToldInv
        /\ CheckedSlotsAreFree /\ AgentBooksWorkingHours
        /\ ThreadsFollowAppointments /\ InvitedAreSeated

-----------------------------------------------------------------------------
(* What a step may do to the tables.                                       *)

\* A row that is new.
Fresh(r) ==
    /\ r \in Rows /\ r.wrote = clock /\ r.checked \in Unchecked .. clock
    /\ r.status = "PENDING" /\ r.offers = 1 /\ r.told = 0

\* A new row that was checked has a free slot on the grid.
Justified(r) ==
    r.checked # Unchecked =>
        /\ FreeOfAppointments(r.staff, r.start, r.start + r.dur, r.checked, 0)
        /\ FreeOfBlocks(r.staff, r.start, r.start + r.dur, r.checked)
        /\ OnGrid(r.staff, r.start, r.dur)

\* Rows are added.
Extended ==
    /\ appts' \in Seq(Rows) /\ Ids \subseteq Ids'
    /\ \A a \in Ids : appts'[a] = appts[a]
    /\ \A a \in Ids' \ Ids : Fresh(appts'[a]) /\ Justified(appts'[a])
    /\ clock' = clock + 1

\* A row keeps its slot.
SameSlot(r, s) ==
    /\ r.staff = s.staff /\ r.contact = s.contact /\ r.organizer = s.organizer
    /\ r.start = s.start /\ r.dur = s.dur
    /\ r.wrote = s.wrote /\ r.checked = s.checked /\ r.offers = s.offers

\* Rows change in what is no slot; PENDING becomes CONFIRMED at most.
Touched ==
    /\ appts' \in Seq(Rows) /\ Ids' = Ids
    /\ \A a \in Ids : /\ SameSlot(appts'[a], appts[a])
                      /\ appts'[a].status \in {appts[a].status, "CONFIRMED"}
    /\ clock' = clock

\* A row gets another slot, which is checked and offered again.
Moved ==
    \E a \in Ids, r \in Rows :
        /\ appts' = [appts EXCEPT ![a] = r]
        /\ r.staff = appts[a].staff /\ r.contact = appts[a].contact
        /\ r.organizer = appts[a].organizer
        /\ r.wrote = clock /\ r.checked \in Nat /\ r.checked <= clock
        /\ r.offers = appts[a].offers + 1 /\ r.status = "PENDING" /\ r.told = appts[a].told
        /\ FreeOfAppointments(r.staff, r.start, r.start + r.dur, r.checked, a)
        /\ FreeOfBlocks(r.staff, r.start, r.start + r.dur, r.checked)
        /\ clock' = clock + 1

\* What the processes rely on: time does not go back, rows and seats stay, a
\* slot is written now or it is what it was.
Grows ==
    /\ clock \in Nat /\ clock' \in Nat /\ clock <= clock'
    /\ Ids \subseteq Ids'
    /\ \A a \in Ids :
         /\ appts'[a].staff = appts[a].staff /\ appts'[a].contact = appts[a].contact
         /\ appts'[a].organizer = appts[a].organizer
         /\ \/ appts'[a].wrote = clock
            \/ SameSlot(appts'[a], appts[a])
         /\ appts[a].status = "CONFIRMED" \/ appts[a].offers > 1
              => appts'[a].status = "CONFIRMED" \/ appts'[a].offers > 1
    /\ \A a \in Ids' \ Ids : appts'[a].wrote = clock
    /\ \A b \in blocks' : b \in blocks \/ b.wrote = clock
    /\ DOMAIN seats \subseteq DOMAIN seats'

LEMMA Basics ==
  ASSUME IInv
  PROVE  /\ clock \in Nat /\ appts \in Seq(Rows)
         /\ Ids = 1..Len(appts) /\ Len(appts) \in Nat
         /\ thread \in Lifecycles
         /\ \A a \in Ids : appts[a] \in Rows
         /\ \A a \in Ids : appts[a].checked \in Unchecked .. appts[a].wrote
                           /\ appts[a].wrote < clock
BY DEF IInv, TablesInv, Ids

LEMMA RowFields ==
  \A r \in Rows :
    /\ r.staff \in Staff \union {AnyStaff} /\ r.contact \in Contacts \union {Nobody}
    /\ r.type \in AppointmentTypes /\ r.status \in BUSY_STATUSES
    /\ r.start \in Int /\ r.dur \in Nat
    /\ r.organizer \in Users /\ r.handledBy \in Operators \union {Nobody}
    /\ r.wrote \in Nat /\ r.checked \in Int /\ r.offers \in Nat \ {0} /\ r.told \in Nat
BY DEF Rows

LEMMA ElementsOf ==
  ASSUME NEW S, NEW s \in Seq(S)
  PROVE  \A i \in DOMAIN s : s[i] \in S
OBVIOUS

LEMMA SetElement ==
  ASSUME NEW S, NEW s \in Seq(S), NEW i, NEW x \in S
  PROVE  /\ [s EXCEPT ![i] = x] \in Seq(S)
         /\ DOMAIN [s EXCEPT ![i] = x] = DOMAIN s
         /\ \A j \in DOMAIN s : [s EXCEPT ![i] = x][j] = IF j = i THEN x ELSE s[j]
<1> DEFINE t == [s EXCEPT ![i] = x]
<1>1. /\ DOMAIN t = DOMAIN s /\ DOMAIN s = 1..Len(s) /\ Len(s) \in Nat
      /\ \A j \in DOMAIN s : t[j] = IF j = i THEN x ELSE s[j]
  BY ElementsOf
<1>2. t \in [1..Len(s) -> S]
  BY <1>1, ElementsOf
<1>3. t \in Seq(S)
  BY <1>1, <1>2
<1>4. QED
  BY <1>1, <1>3

\* Rows at the end.
LEMMA Concatenated ==
  ASSUME NEW S, NEW s \in Seq(S), NEW n \in Nat, NEW f \in [1..n -> S]
  PROVE  /\ s \o f \in Seq(S)
         /\ DOMAIN s \subseteq DOMAIN (s \o f)
         /\ \A i \in DOMAIN s : (s \o f)[i] = s[i]
         /\ \A i \in DOMAIN (s \o f) \ DOMAIN s : \E j \in 1..n : (s \o f)[i] = f[j]
<1>1. f \in Seq(S) /\ Len(f) = n
  OBVIOUS
<1>2. QED
  BY <1>1

LEMMA OneMore ==
  ASSUME NEW S, NEW s \in Seq(S), NEW x \in S
  PROVE  /\ Append(s, x) \in Seq(S)
         /\ DOMAIN s \subseteq DOMAIN Append(s, x)
         /\ DOMAIN Append(s, x) = DOMAIN s \union {Len(s) + 1}
         /\ Len(s) + 1 \notin DOMAIN s
         /\ \A i \in DOMAIN s : Append(s, x)[i] = s[i]
         /\ Append(s, x)[Len(s) + 1] = x
OBVIOUS

-----------------------------------------------------------------------------
(* A step that leaves the appointments alone, or does one of those.        *)

StillAppts == UNCHANGED <<appts, clock>>

LEMMA StillTouches ==
  ASSUME IInv, StillAppts
  PROVE  Touched
<1>1. \A a \in Ids : SameSlot(appts[a], appts[a])
  BY DEF SameSlot
<1>2. QED
  BY <1>1, Basics DEF Touched, StillAppts, Ids

LEMMA ExtendedGrows ==
  ASSUME IInv, Extended, UNCHANGED blocks, DOMAIN seats \subseteq DOMAIN seats'
  PROVE  Grows
<1>1. \A a \in Ids' \ Ids : appts'[a].wrote = clock
  BY DEF Extended, Fresh
<1>2. \A a \in Ids : appts'[a] = appts[a] /\ SameSlot(appts'[a], appts[a])
  BY DEF Extended, SameSlot
<1>3. clock \in Nat /\ clock' \in Nat /\ clock <= clock'
  BY Basics DEF Extended
<1>4. QED
  BY <1>1, <1>2, <1>3 DEF Extended, Grows

LEMMA TouchedGrows ==
  ASSUME IInv, Touched, \A b \in blocks' : b \in blocks \/ b.wrote = clock,
         DOMAIN seats \subseteq DOMAIN seats'
  PROVE  Grows
<1>1. clock \in Nat /\ clock' \in Nat /\ clock <= clock'
  BY Basics DEF Touched
<1>2. ASSUME NEW a \in Ids
      PROVE  /\ appts'[a].staff = appts[a].staff /\ appts'[a].contact = appts[a].contact
             /\ appts'[a].organizer = appts[a].organizer
             /\ SameSlot(appts'[a], appts[a])
             /\ appts[a].status = "CONFIRMED" \/ appts[a].offers > 1
                  => appts'[a].status = "CONFIRMED" \/ appts'[a].offers > 1
  BY DEF Touched, SameSlot
<1>3. QED
  BY <1>1, <1>2 DEF Touched, Grows

LEMMA MovedRows ==
  ASSUME IInv, NEW a \in Ids, NEW r \in Rows, appts' = [appts EXCEPT ![a] = r]
  PROVE  /\ appts' \in Seq(Rows) /\ Ids' = Ids /\ appts'[a] = r
         /\ \A b \in Ids : b # a => appts'[b] = appts[b]
BY Basics, SetElement DEF Ids

LEMMA MovedGrows ==
  ASSUME IInv, Moved, UNCHANGED <<blocks, seats>>
  PROVE  Grows
<1>1. PICK a \in Ids, r \in Rows :
        /\ appts' = [appts EXCEPT ![a] = r]
        /\ r.staff = appts[a].staff /\ r.contact = appts[a].contact
        /\ r.organizer = appts[a].organizer
        /\ r.wrote = clock /\ r.offers = appts[a].offers + 1
        /\ clock' = clock + 1
  BY DEF Moved
<1>2. Ids' = Ids /\ appts'[a] = r /\ \A b \in Ids : b # a => appts'[b] = appts[b]
  BY <1>1, MovedRows
<1>3. clock \in Nat /\ clock' \in Nat /\ clock <= clock'
  BY <1>1, Basics
<1>4. appts[a].offers \in Nat \ {0}
  BY Basics, RowFields
<1>5. r.offers > 1
  BY <1>1, <1>4
<1>6. \A b \in Ids : b # a => SameSlot(appts'[b], appts[b])
  BY <1>2 DEF SameSlot
<1>7. QED
  BY <1>1, <1>2, <1>3, <1>5, <1>6 DEF Grows

-----------------------------------------------------------------------------
(* What processes hold stays true while others take steps.                 *)

LEMMA FreeOfAppointmentsStays ==
  ASSUME IInv, Grows, NEW m, NEW s, NEW e, NEW at, at <= clock, at \in Nat, NEW self,
         FreeOfAppointments(m, s, e, at, self)
  PROVE  FreeOfAppointments(m, s, e, at, self)'
<1>1. ASSUME NEW b \in Ids' \ {self}, appts'[b].staff = m, appts'[b].wrote < at
      PROVE  ~Overlaps(s, e, appts'[b].start, End(appts'[b]))
  <2>1. appts'[b].wrote # clock
    BY <1>1 DEF Grows
  <2>2. b \in Ids /\ SameSlot(appts'[b], appts[b])
    BY <1>1, <2>1 DEF Grows
  <2>3. ~Overlaps(s, e, appts[b].start, End(appts[b]))
    BY <1>1, <2>2 DEF FreeOfAppointments, SameSlot
  <2>4. End(appts'[b]) = End(appts[b]) /\ appts'[b].start = appts[b].start
    BY <2>2 DEF SameSlot, End
  <2>5. QED
    BY <2>3, <2>4
<1>2. QED
  BY <1>1 DEF FreeOfAppointments

LEMMA FreeOfBlocksStays ==
  ASSUME IInv, Grows, NEW m, NEW s, NEW e, NEW at, at <= clock, at \in Nat,
         FreeOfBlocks(m, s, e, at)
  PROVE  FreeOfBlocks(m, s, e, at)'
BY DEF FreeOfBlocks, BlocksOf, Grows

LEMMA RunLocalStays ==
  ASSUME IInv, Grows, NEW l, RunLocal(l)
  PROVE  RunLocal(l)'
<1>1. l.pc \in {"recheck", "book"} => l.at \in Nat /\ l.at <= clock /\ l.at <= clock'
  BY DEF RunLocal, Grows, Locs
<1>2. l.pc = "recheck" => \A b \in blocks' : b.wrote < l.at => b \in l.blocks
  BY <1>1 DEF RunLocal, Grows
<1>3. l.pc = "book" =>
        /\ FreeOfAppointments(l.staff, l.start, l.start + l.dur, l.at, 0)'
        /\ FreeOfBlocks(l.staff, l.start, l.start + l.dur, l.at)'
  BY <1>1, FreeOfAppointmentsStays, FreeOfBlocksStays DEF RunLocal
<1>4. l.pc = "book" => OnGrid(l.staff, l.start, l.dur)'
  BY DEF RunLocal, OnGrid
<1>5. QED
  BY <1>1, <1>2, <1>3, <1>4 DEF RunLocal

LEMMA RequestLocalStays ==
  ASSUME IInv, Grows, NEW l, RequestLocal(l)
  PROVE  RequestLocal(l)'
<1>1. l.pc \in ApptPoints => l.appt \in Ids /\ l.appt \in Ids'
  BY DEF RequestLocal, Grows
<1>2. /\ MovePoints \subseteq ApptPoints /\ TellPoints \subseteq ApptPoints
      /\ {"moveHours", "move"} \subseteq ApptPoints
      /\ {"inviteUsers", "notifyGuests"} \subseteq ApptPoints
  BY DEF ApptPoints, MovePoints
<1>3. l.pc \in TellPoints =>
        appts'[l.appt].status = "CONFIRMED" \/ appts'[l.appt].offers > 1
  BY <1>1, <1>2 DEF RequestLocal, Grows
<1>4. ASSUME l.pc \in {"moveHours", "move"}
      PROVE  /\ l.at <= clock'
             /\ FreeOfAppointments(appts[l.appt].staff, l.start, l.start + l.dur, l.at, l.appt)'
             /\ l.pc = "move" =>
                  FreeOfBlocks(appts[l.appt].staff, l.start, l.start + l.dur, l.at)'
  <2>1. PICK m : m = appts[l.appt].staff
    OBVIOUS
  <2>2. appts'[l.appt].staff = m
    BY <1>1, <1>2, <1>4, <2>1 DEF Grows
  <2>3. l.at \in Nat /\ l.at <= clock /\ l.at <= clock'
    BY <1>4 DEF RequestLocal, Grows, Locs
  <2>4. FreeOfAppointments(m, l.start, l.start + l.dur, l.at, l.appt)'
    BY <1>4, <2>1, <2>3, FreeOfAppointmentsStays DEF RequestLocal
  <2>5. l.pc = "move" => FreeOfBlocks(m, l.start, l.start + l.dur, l.at)'
    BY <1>4, <2>1, <2>3, FreeOfBlocksStays DEF RequestLocal
  <2>6. QED
    BY <2>2, <2>3, <2>4, <2>5
<1>5. l.pc \in {"inviteUsers", "notifyGuests"} => l.user = appts'[l.appt].organizer
  BY <1>1, <1>2 DEF RequestLocal, Grows
<1>6. l.pc = "notifyGuests" => {l.appt} \X (l.guests.users \ {l.user}) \subseteq DOMAIN seats'
  BY DEF RequestLocal, Grows
<1>7. QED
  BY <1>1, <1>3, <1>4, <1>5, <1>6 DEF RequestLocal

\* A process goes on with what it may hold then.
RunMoves(x) == \E l : RunLocal(l)' /\ loc' = [loc EXCEPT ![x] = l]
RequestMoves(q) == \E l : RequestLocal(l)' /\ loc' = [loc EXCEPT ![q] = l]

LEMMA LocsAre ==
  ASSUME IInv
  PROVE  /\ loc \in [Procs -> Locs]
         /\ \A x \in Runs : x \in Procs /\ x \notin Requests /\ RunLocal(loc[x])
         /\ \A q \in Requests : q \in Procs /\ q \notin Runs /\ RequestLocal(loc[q])
         /\ \A p \in Procs : loc[p] \in Locs
BY BookingsAssumption DEF IInv, LocsInv, Procs

LEMMA StillMoves ==
  ASSUME IInv, Grows, UNCHANGED loc
  PROVE  LocsInv'
BY LocsAre, RunLocalStays, RequestLocalStays DEF LocsInv

LEMMA RunMovesOn ==
  ASSUME IInv, Grows, NEW x \in Runs, RunMoves(x)
  PROVE  /\ LocsInv'
         /\ \A q \in Requests : loc'[q] = loc[q]
<1>1. PICK l : RunLocal(l)' /\ loc' = [loc EXCEPT ![x] = l]
  BY DEF RunMoves
<1>2. l \in Locs
  BY <1>1 DEF RunLocal
<1>3. /\ loc' \in [Procs -> Locs] /\ loc'[x] = l
      /\ \A p \in Procs : p # x => loc'[p] = loc[p]
  BY <1>1, <1>2, LocsAre
<1>4. \A q \in Requests : loc'[q] = loc[q]
  BY <1>3, LocsAre
<1>5. \A y \in Runs : RunLocal(loc[y])'
  <2> TAKE y \in Runs
  <2>1. CASE y = x
    BY <1>1, <1>3, <2>1
  <2>2. CASE y # x
    <3>1. PICK k : k = loc[y]
      OBVIOUS
    <3>2. RunLocal(k)' /\ loc'[y] = k
      BY <1>3, <2>2, <3>1, LocsAre, RunLocalStays
    <3>3. QED
      BY <3>2
  <2>3. QED
    BY <2>1, <2>2
<1>6. \A q \in Requests : RequestLocal(loc[q])'
  <2> TAKE q \in Requests
  <2>1. PICK k : k = loc[q]
    OBVIOUS
  <2>2. RequestLocal(k)' /\ loc'[q] = k
    BY <1>4, <2>1, LocsAre, RequestLocalStays
  <2>3. QED
    BY <2>2
<1>7. QED
  BY <1>3, <1>4, <1>5, <1>6 DEF LocsInv

LEMMA RequestMovesOn ==
  ASSUME IInv, Grows, NEW q \in Requests, RequestMoves(q)
  PROVE  /\ LocsInv'
         /\ \A r \in Requests : r # q => loc'[r] = loc[r]
<1>1. PICK l : RequestLocal(l)' /\ loc' = [loc EXCEPT ![q] = l]
  BY DEF RequestMoves
<1>2. l \in Locs
  BY <1>1 DEF RequestLocal
<1>3. /\ loc' \in [Procs -> Locs] /\ loc'[q] = l
      /\ \A p \in Procs : p # q => loc'[p] = loc[p]
  BY <1>1, <1>2, LocsAre
<1>4. \A r \in Requests : r # q => loc'[r] = loc[r]
  BY <1>3, LocsAre
<1>5. \A r \in Requests : RequestLocal(loc[r])'
  <2> TAKE r \in Requests
  <2>1. CASE r = q
    BY <1>1, <1>3, <2>1
  <2>2. CASE r # q
    <3>1. PICK k : k = loc[r]
      OBVIOUS
    <3>2. RequestLocal(k)' /\ loc'[r] = k
      BY <1>3, <2>2, <3>1, LocsAre, RequestLocalStays
    <3>3. QED
      BY <3>2
  <2>3. QED
    BY <2>1, <2>2
<1>6. \A x \in Runs : RunLocal(loc[x])'
  <2> TAKE x \in Runs
  <2>1. PICK k : k = loc[x]
    OBVIOUS
  <2>2. RunLocal(k)' /\ loc'[x] = k
    BY <1>3, <2>1, LocsAre, RunLocalStays
  <2>3. QED
    BY <2>2
<1>7. QED
  BY <1>3, <1>4, <1>5, <1>6 DEF LocsInv

-----------------------------------------------------------------------------
(* The rows after a step.                                                  *)

LEMMA RowsStay ==
  ASSUME IInv, Extended \/ Touched \/ Moved
  PROVE  /\ clock' \in Nat /\ clock <= clock' /\ appts' \in Seq(Rows) /\ Ids \subseteq Ids'
         /\ \A a \in Ids' : appts'[a] \in Rows
         /\ \A a \in Ids' : /\ appts'[a].checked \in Unchecked .. appts'[a].wrote
                            /\ appts'[a].wrote < clock'
<1>1. CASE Extended
  <2>1. \A a \in Ids' : appts'[a] \in Rows
    BY <1>1 DEF Extended, Ids
  <2>2. ASSUME NEW a \in Ids'
        PROVE  /\ appts'[a].checked \in Unchecked .. appts'[a].wrote
               /\ appts'[a].wrote < clock'
    <3>1. CASE a \in Ids
      <4>1. /\ appts[a].checked \in Unchecked .. appts[a].wrote
            /\ appts[a].wrote < clock /\ appts[a].wrote \in Nat
        BY <3>1, Basics, RowFields
      <4>2. QED
        BY <1>1, <3>1, <4>1, Basics DEF Extended
    <3>2. CASE a \notin Ids
      BY <1>1, <3>2, Basics DEF Extended, Fresh
    <3>3. QED
      BY <3>1, <3>2
  <2>3. QED
    BY <1>1, <2>1, <2>2, Basics DEF Extended
<1>2. CASE Touched
  <2>1. \A a \in Ids' : appts'[a] \in Rows
    BY <1>2 DEF Touched, Ids
  <2>2. QED
    BY <1>2, <2>1, Basics DEF Touched, SameSlot
<1>3. CASE Moved
  <2>1. PICK a \in Ids, r \in Rows :
          /\ appts' = [appts EXCEPT ![a] = r]
          /\ r.wrote = clock /\ r.checked \in Nat /\ r.checked <= clock
          /\ clock' = clock + 1
    BY <1>3 DEF Moved
  <2>2. /\ appts' \in Seq(Rows) /\ Ids' = Ids /\ appts'[a] = r
        /\ \A b \in Ids : b # a => appts'[b] = appts[b]
    BY <2>1, MovedRows
  <2>3. \A b \in Ids' : appts'[b] \in Rows
    BY <2>2 DEF Ids
  <2>4. ASSUME NEW b \in Ids'
        PROVE  /\ appts'[b].checked \in Unchecked .. appts'[b].wrote
               /\ appts'[b].wrote < clock'
    <3>1. CASE b = a
      BY <2>1, <2>2, <3>1, Basics DEF Unchecked
    <3>2. CASE b # a
      <4>1. /\ appts[b].checked \in Unchecked .. appts[b].wrote
            /\ appts[b].wrote < clock /\ appts[b].wrote \in Nat
        BY <2>2, Basics, RowFields
      <4>2. QED
        BY <2>1, <2>2, <3>2, <4>1, Basics
    <3>3. QED
      BY <3>1, <3>2
  <2>5. QED
    BY <2>1, <2>2, <2>3, <2>4, Basics
<1>4. QED
  BY <1>1, <1>2, <1>3

\* A row that is free keeps being free, whoever writes after its check.
FreeRow(a) ==
    appts[a].checked # Unchecked =>
        /\ FreeOfAppointments(appts[a].staff, appts[a].start, End(appts[a]), appts[a].checked, a)
        /\ FreeOfBlocks(appts[a].staff, appts[a].start, End(appts[a]), appts[a].checked)

LEMMA FreeRows ==
  CheckedSlotsAreFree <=> \A a \in Ids : FreeRow(a)
BY DEF CheckedSlotsAreFree, FreeRow, FreeOfAppointments, FreeOfBlocks, Meet

\* Only the slot of a row counts.
LEMMA SlotStaysFree ==
  ASSUME IInv, Grows, NEW a \in Ids, SameSlot(appts'[a], appts[a]), FreeRow(a)
  PROVE  FreeRow(a)'
<1>1. PICK r : r = appts[a]
  OBVIOUS
<1>2. r \in Rows /\ r.checked \in Unchecked .. r.wrote /\ r.wrote < clock
  BY <1>1, Basics
<1>3. ASSUME r.checked # Unchecked
      PROVE  /\ FreeOfAppointments(r.staff, r.start, End(r), r.checked, a)'
             /\ FreeOfBlocks(r.staff, r.start, End(r), r.checked)'
  <2>1. r.checked \in Nat /\ r.checked <= clock
    BY <1>2, <1>3, Basics, RowFields DEF Unchecked
  <2>2. /\ FreeOfAppointments(r.staff, r.start, End(r), r.checked, a)
        /\ FreeOfBlocks(r.staff, r.start, End(r), r.checked)
    BY <1>1, <1>3 DEF FreeRow
  <2>3. QED
    BY <2>1, <2>2, FreeOfAppointmentsStays, FreeOfBlocksStays
<1>4. /\ appts'[a].staff = r.staff /\ appts'[a].start = r.start
      /\ appts'[a].checked = r.checked /\ End(appts'[a]) = End(r)
  BY <1>1 DEF SameSlot, End
<1>5. QED
  BY <1>3, <1>4 DEF FreeRow

LEMMA ChecksHold ==
  ASSUME IInv, Grows, Extended \/ Touched \/ Moved
  PROVE  CheckedSlotsAreFree'
<1>1. \A a \in Ids : FreeRow(a)
  BY FreeRows DEF IInv
<1>2. ASSUME NEW a \in Ids', a \in Ids, SameSlot(appts'[a], appts[a])
      PROVE  FreeRow(a)'
  BY <1>1, <1>2, SlotStaysFree
<1>3. ASSUME NEW a \in Ids'
      PROVE  FreeRow(a)'
  <2>1. CASE Extended
    <3>1. CASE a \in Ids
      BY <1>2, <2>1, <3>1 DEF Extended, SameSlot
    <3>2. CASE a \notin Ids
      <4>1. PICK r : r = appts'[a]
        OBVIOUS
      <4>2. r \in Rows /\ Justified(r) /\ r.checked \in Unchecked .. clock
        BY <2>1, <3>2, <4>1 DEF Extended, Fresh
      <4>3. ASSUME r.checked # Unchecked
            PROVE  /\ FreeOfAppointments(r.staff, r.start, End(r), r.checked, a)'
                   /\ FreeOfBlocks(r.staff, r.start, End(r), r.checked)'
        <5>1. r.checked \in Nat /\ r.checked <= clock
          BY <4>2, <4>3, Basics DEF Unchecked
        <5>2. /\ FreeOfAppointments(r.staff, r.start, End(r), r.checked, 0)
              /\ FreeOfBlocks(r.staff, r.start, End(r), r.checked)
          BY <4>2, <4>3 DEF Justified, End
        <5>3. FreeOfAppointments(r.staff, r.start, End(r), r.checked, a)
          BY <3>2, <5>2, Basics DEF FreeOfAppointments
        <5>4. QED
          BY <5>1, <5>2, <5>3, FreeOfAppointmentsStays, FreeOfBlocksStays
      <4>4. QED
        BY <4>1, <4>3 DEF FreeRow
    <3>3. QED
      BY <3>1, <3>2
  <2>2. CASE Touched
    BY <1>2, <2>2 DEF Touched
  <2>3. CASE Moved
    <3>1. PICK b \in Ids, r \in Rows :
            /\ appts' = [appts EXCEPT ![b] = r]
            /\ r.wrote = clock /\ r.checked \in Nat /\ r.checked <= clock
            /\ FreeOfAppointments(r.staff, r.start, r.start + r.dur, r.checked, b)
            /\ FreeOfBlocks(r.staff, r.start, r.start + r.dur, r.checked)
      BY <2>3 DEF Moved
    <3>2. /\ Ids' = Ids /\ appts'[b] = r
          /\ \A c \in Ids : c # b => appts'[c] = appts[c]
      BY <3>1, MovedRows
    <3>3. CASE a = b
      <4>1. /\ FreeOfAppointments(r.staff, r.start, End(r), r.checked, b)'
            /\ FreeOfBlocks(r.staff, r.start, End(r), r.checked)'
        BY <3>1, FreeOfAppointmentsStays, FreeOfBlocksStays DEF End
      <4>2. QED
        BY <3>2, <3>3, <4>1 DEF FreeRow
    <3>4. CASE a # b
      BY <1>2, <3>2, <3>4 DEF SameSlot
    <3>5. QED
      BY <3>3, <3>4
  <2>4. QED
    BY <2>1, <2>2, <2>3
<1>4. QED
  <2>1. (CheckedSlotsAreFree <=> \A a \in Ids : FreeRow(a))'
    BY FreeRows, PTL
  <2>2. QED
    BY <1>3, <2>1

\* What was booked stays on the grid.
OnGridRow(r) == r.checked # Unchecked /\ r.offers = 1 => OnGrid(r.staff, r.start, r.dur)

LEMMA GridRows ==
  AgentBooksWorkingHours <=> \A a \in Ids : OnGridRow(appts[a])
BY DEF AgentBooksWorkingHours, OnGridRow, OnGrid, InWindow

LEMMA GridHolds ==
  ASSUME IInv, Extended \/ Touched \/ Moved
  PROVE  AgentBooksWorkingHours'
<1>1. \A a \in Ids : OnGridRow(appts[a])
  BY GridRows DEF IInv
<1>2. ASSUME NEW a \in Ids'
      PROVE  OnGridRow(appts'[a])
  <2>1. CASE Extended
    <3>1. a \in Ids => appts'[a] = appts[a]
      BY <2>1 DEF Extended
    <3>2. a \notin Ids => Justified(appts'[a])
      BY <2>1 DEF Extended
    <3>3. QED
      BY <1>1, <3>1, <3>2 DEF Justified, OnGridRow
  <2>2. CASE Touched
    <3>1. a \in Ids /\ SameSlot(appts'[a], appts[a])
      BY <2>2 DEF Touched
    <3>2. QED
      BY <1>1, <3>1 DEF OnGridRow, SameSlot
  <2>3. CASE Moved
    <3>1. PICK b \in Ids, r \in Rows :
            /\ appts' = [appts EXCEPT ![b] = r]
            /\ r.offers = appts[b].offers + 1
      BY <2>3 DEF Moved
    <3>2. /\ Ids' = Ids /\ appts'[b] = r
          /\ \A c \in Ids : c # b => appts'[c] = appts[c]
      BY <3>1, MovedRows
    <3>3. r.offers # 1
      <4>1. appts[b].offers \in Nat \ {0}
        BY Basics, RowFields
      <4>2. QED
        BY <3>1, <4>1
    <3>4. QED
      BY <1>1, <3>2, <3>3 DEF OnGridRow
  <2>4. QED
    BY <2>1, <2>2, <2>3
<1>3. (AgentBooksWorkingHours <=> \A a \in Ids : OnGridRow(appts[a]))'
  BY GridRows, PTL
<1>4. QED
  BY <1>2, <1>3

-----------------------------------------------------------------------------
(* The slots of the engine.                                                *)

LEMMA Monotone ==
  \A D \in Nat : \A a, b \in Int : a <= b => D * a <= D * b
OBVIOUS

LEMMA DivMod ==
  ASSUME NEW D \in Nat \ {0}, NEW x \in Int
  PROVE  /\ x \div D \in Int /\ x % D \in 0..(D - 1)
         /\ x = D * (x \div D) + (x % D)
OBVIOUS

LEMMA DivOf ==
  ASSUME NEW D \in Nat \ {0}, NEW d \in Int, NEW r \in 0..(D - 1)
  PROVE  (d * D + r) \div D = d /\ (d * D + r) % D = r
<1> DEFINE x == d * D + r
           q == x \div D
           m == x % D
<1>1. x \in Int /\ D * d \in Int /\ x = D * d + r
  OBVIOUS
<1>2. q \in Int /\ m \in 0..(D - 1) /\ x = D * q + m
  BY <1>1, DivMod
<1> HIDE DEF q, m
<1>3. ~ (q + 1 <= d)
  <2> SUFFICES ASSUME q + 1 <= d PROVE FALSE
    OBVIOUS
  <2>1. D * (q + 1) <= D * d
    BY <1>2, Monotone
  <2>2. D * (q + 1) = D * q + D
    BY <1>2
  <2>3. D * q \in Int
    BY <1>2
  <2>4. QED
    BY <1>1, <1>2, <2>1, <2>2, <2>3
<1>4. ~ (d + 1 <= q)
  <2> SUFFICES ASSUME d + 1 <= q PROVE FALSE
    OBVIOUS
  <2>1. D * (d + 1) <= D * q
    BY <1>2, Monotone
  <2>2. D * (d + 1) = D * d + D
    OBVIOUS
  <2>3. D * q \in Int
    BY <1>2
  <2>4. QED
    BY <1>1, <1>2, <2>1, <2>2, <2>3
<1>5. q = d
  BY <1>2, <1>3, <1>4
<1>6. m = r
  BY <1>1, <1>2, <1>5
<1>7. QED
  BY <1>5, <1>6 DEF q, m

LEMMA Smallest ==
  ASSUME NEW S \in SUBSET Nat, S # {}
  PROVE  \E i \in S : \A j \in S : i <= j
<1> DEFINE R == OpToRel(<, Nat)
<1>1. IsWellFoundedOn(R, Nat)
  BY NatLessThanWellFounded, Zenon DEF OpToRel
<1>2. PICK i \in S : \A j \in S : <<j, i>> \notin R
  BY <1>1, WFMin, Zenon
<1>3. \A j \in S : ~ (j < i)
  BY <1>2 DEF OpToRel
<1>4. QED
  BY <1>3

\* There is a first of any slots.
LEMMA FirstSlotIsOne ==
  ASSUME NEW fit, fit \subseteq [staff : Staff, start : Nat], fit # {}
  PROVE  FirstSlot(fit) \in fit
<1> DEFINE starts == { x.start : x \in fit }
<1>1. starts \subseteq Nat /\ starts # {}
  OBVIOUS
<1>2. PICK s \in starts : \A t \in starts : s <= t
  BY <1>1, Smallest
<1> DEFINE early == { x \in fit : x.start = s }
           members == { x.staff : x \in early }
<1>3. members \subseteq Nat /\ members # {}
  <2>1. PICK x \in fit : x.start = s
    BY Zenon
  <2>2. x.staff \in members
    BY <2>1, Zenon
  <2>3. \A y \in early : y.staff \in Nat
    <3>1. \A y \in early : y \in [staff : Staff, start : Nat]
      BY Zenon
    <3> HIDE DEF early
    <3>2. QED
      BY <3>1, AvailabilityAssumption
  <2>4. QED
    BY <2>2, <2>3, Zenon
<1>4. PICK m \in members : \A n \in members : m <= n
  BY <1>3, Smallest
<1>5. PICK x \in early : x.staff = m
  OBVIOUS
<1>6. ASSUME NEW y \in fit \ {x} PROVE Before(x, y)
  <2>1. x.start = s /\ x.start \in Nat /\ y.start \in Nat /\ s <= y.start
    BY <1>2, <1>5, <1>6
  <2>2. x.staff \in Nat /\ y.staff \in Nat
    BY <1>5, <1>6, AvailabilityAssumption
  <2>3. CASE y.start = s
    <3>1. m <= y.staff
      BY <1>4, <1>6, <2>3
    <3>2. y.staff # x.staff
      <4>1. y \in [staff : Staff, start : Nat] /\ x \in [staff : Staff, start : Nat]
        BY <1>5, <1>6
      <4>2. QED
        BY <1>6, <2>1, <2>3, <4>1
    <3>3. QED
      BY <1>5, <2>1, <2>2, <2>3, <3>1, <3>2 DEF Before
  <2>4. CASE y.start # s
    BY <2>1, <2>4 DEF Before
  <2>5. QED
    BY <2>3, <2>4
<1>7. QED
  BY <1>5, <1>6 DEF FirstSlot

\* A slot that is available is on the grid of the hours, and free.
LEMMA AvailableSlot ==
  ASSUME NEW A, NEW B, NEW m \in Staff, NEW s \in Int, NEW dur \in Nat \ {0},
         IsSlotAvailable(A, B, m, s, dur)
  PROVE  OnGrid(m, s, dur) /\ Unobstructed(A, B, m, s, s + dur)
<1>1. /\ Unobstructed(A, B, m, s, s + dur)
      /\ \E d \in LocalDays(s, s + dur), h \in Hours :
           /\ h.staff = m /\ h.day = d % Week
           /\ ToUtc(d, h.from) <= s /\ s + dur <= ToUtc(d, h.to)
           /\ (s - ToUtc(d, h.from)) % dur = 0
  BY DEF IsSlotAvailable, Slots
<1>2. PICK d \in LocalDays(s, s + dur), h \in Hours :
           /\ h.staff = m /\ h.day = d % Week
           /\ ToUtc(d, h.from) <= s /\ s + dur <= ToUtc(d, h.to)
           /\ (s - ToUtc(d, h.from)) % dur = 0
  BY <1>1
<1>3. d \in Int
  BY DEF LocalDays
<1>4. /\ h.from \in Nat /\ h.to \in Nat /\ h.to <= DayLength
      /\ DayLength \in Nat \ {0} /\ Offset \in Int
  BY AvailabilityAssumption
<1> DEFINE b == d * DayLength
           r == s + Offset - b
<1>5. b \in Int
  BY <1>3, <1>4
<1>6. ToUtc(d, h.from) = b + h.from - Offset /\ ToUtc(d, h.to) = b + h.to - Offset
  BY DEF ToUtc
<1> HIDE DEF b
<1>7. /\ h.from <= r /\ r + dur <= h.to /\ r \in 0..(DayLength - 1)
      /\ s + Offset = b + r /\ s - ToUtc(d, h.from) = r - h.from
  BY <1>2, <1>4, <1>5, <1>6
<1> HIDE DEF r
<1>8. (b + r) \div DayLength = d /\ (b + r) % DayLength = r
  BY <1>3, <1>4, <1>7, DivOf DEF b
<1>9. LocalDay(s) = d /\ WallTime(s) = r
  BY <1>7, <1>8 DEF LocalDay, WallTime
<1>10. QED
  BY <1>1, <1>2, <1>7, <1>9 DEF OnGrid

-----------------------------------------------------------------------------
(* The rest of the invariant after a step.                                 *)

LEMMA ThreadsStay ==
  ASSUME IInv, Grows, UNCHANGED thread
  PROVE  thread' \in Lifecycles /\ ThreadsFollowAppointments'
<1>1. ASSUME NEW c \in Contacts
      PROVE  /\ thread'[c] = "APPOINTMENT_PENDING" =>
                  \E a \in Ids' : appts'[a].contact = c
             /\ thread'[c] = "APPOINTMENT_BOOKED" =>
                  \E a \in Ids' : /\ appts'[a].contact = c
                                  /\ appts'[a].status = "CONFIRMED" \/ appts'[a].offers > 1
  <2>1. ASSUME thread[c] = "APPOINTMENT_PENDING"
        PROVE  \E a \in Ids' : appts'[a].contact = c
    <3>1. PICK a \in Ids : appts[a].contact = c
      BY <2>1 DEF IInv, ThreadsFollowAppointments
    <3>2. a \in Ids' /\ appts'[a].contact = c
      BY <3>1 DEF Grows
    <3>3. QED
      BY <3>2
  <2>2. ASSUME thread[c] = "APPOINTMENT_BOOKED"
        PROVE  \E a \in Ids' : /\ appts'[a].contact = c
                               /\ appts'[a].status = "CONFIRMED" \/ appts'[a].offers > 1
    <3>1. PICK a \in Ids : /\ appts[a].contact = c
                           /\ appts[a].status = "CONFIRMED" \/ appts[a].offers > 1
      BY <2>2 DEF IInv, ThreadsFollowAppointments
    <3>2. /\ a \in Ids' /\ appts'[a].contact = c
          /\ appts'[a].status = "CONFIRMED" \/ appts'[a].offers > 1
      BY <3>1 DEF Grows
    <3>3. QED
      BY <3>2
  <2>3. QED
    BY <2>1, <2>2
<1>2. QED
  BY <1>1, Basics DEF ThreadsFollowAppointments

LEMMA GuestsStay ==
  ASSUME IInv, Grows, UNCHANGED attendees
  PROVE  SeatsInv' /\ RepliesInv' /\ InvitedAreSeated'
<1>1. UNCHANGED <<seats, invited, reply>>
  BY DEF attendees
<1>2. SeatsInv'
  BY <1>1 DEF IInv, SeatsInv, Grows
<1>3. RepliesInv'
  BY <1>1 DEF IInv, RepliesInv
<1>4. ASSUME NEW k \in invited
      PROVE  k \in DOMAIN seats /\ k[2] # appts'[k[1]].organizer
  <2>1. k \in DOMAIN seats /\ k[2] # appts[k[1]].organizer
    BY DEF IInv, InvitedAreSeated
  <2>2. k[1] \in Ids
    BY <2>1 DEF IInv, SeatsInv
  <2>3. QED
    BY <2>1, <2>2 DEF Grows
<1>5. QED
  BY <1>1, <1>2, <1>3, <1>4 DEF InvitedAreSeated

\* A step of the calendar that leaves blocked times and guests alone.
LEMMA CalendarStep ==
  ASSUME IInv, Grows, Extended \/ Touched \/ Moved, UNCHANGED <<blocks, attendees>>,
         thread' \in Lifecycles, ThreadsFollowAppointments', LocsInv', ToldInv'
  PROVE  IInv'
<1>1. SeatsInv' /\ RepliesInv' /\ InvitedAreSeated'
  BY GuestsStay
<1>2. CheckedSlotsAreFree' /\ AgentBooksWorkingHours'
  BY ChecksHold, GridHolds
<1>3. /\ clock' \in Nat /\ clock <= clock' /\ appts' \in Seq(Rows)
      /\ \A a \in Ids' : /\ appts'[a].checked \in Unchecked .. appts'[a].wrote
                         /\ appts'[a].wrote < clock'
  BY RowsStay
<1>4. ASSUME NEW b \in blocks PROVE b.start < b.end /\ b.wrote < clock'
  <2>1. b \in Blocks /\ b.start < b.end /\ b.wrote < clock
    BY DEF IInv, TablesInv
  <2>2. b.wrote \in Nat
    BY <2>1 DEF Blocks
  <2>3. QED
    BY <1>3, <2>1, <2>2, Basics
<1>5. TablesInv'
  BY <1>3, <1>4 DEF IInv, TablesInv
<1>6. QED
  BY <1>1, <1>2, <1>5 DEF IInv

-----------------------------------------------------------------------------
(* The requests that are about to tell a customer.                         *)

LEMMA TellingKnown ==
  ASSUME IInv
  PROVE  \A a : a \notin Ids => Telling(a) = {}
<1>1. \A q \in Requests : loc[q].pc \in TellPoints => loc[q].appt \in Ids
  BY LocsAre DEF RequestLocal, ApptPoints
<1>2. QED
  BY <1>1 DEF Telling

LEMMA ToldStays ==
  ASSUME IInv, \A a : Telling(a)' = Telling(a),
         \/ Extended \/ Moved
         \/ Touched /\ \A a \in Ids : appts'[a].told = appts[a].told
  PROVE  ToldInv'
<1>1. \A a : a \notin Ids => Telling(a) = {}
  BY TellingKnown
<1>2. ASSUME NEW a \in Ids
      PROVE  /\ IsFiniteSet(Telling(a)) /\ Cardinality(Telling(a)) \in Nat
             /\ appts[a].told + Cardinality(Telling(a))
                  <= appts[a].offers - (IF appts[a].status = "PENDING" THEN 1 ELSE 0)
             /\ appts[a].told \in Nat /\ appts[a].offers \in Nat
             /\ appts[a].status \in BUSY_STATUSES
  BY Basics, RowFields, FS_CardinalityType DEF IInv, ToldInv
<1>3. ASSUME NEW a \in Ids', NEW n \in Nat, NEW r, r = appts'[a],
             a \in Ids => n = Cardinality(Telling(a)), a \notin Ids => n = 0
      PROVE  r.told + n <= r.offers - (IF r.status = "PENDING" THEN 1 ELSE 0)
  <2>1. CASE Extended
    <3>1. CASE a \in Ids
      BY <1>2, <1>3, <2>1, <3>1 DEF Extended
    <3>2. CASE a \notin Ids
      BY <1>3, <2>1, <3>2 DEF Extended, Fresh
    <3>3. QED
      BY <3>1, <3>2
  <2>2. CASE Moved
    <3>1. PICK b \in Ids, s \in Rows :
            /\ appts' = [appts EXCEPT ![b] = s]
            /\ s.offers = appts[b].offers + 1 /\ s.status = "PENDING"
            /\ s.told = appts[b].told
      BY <2>2 DEF Moved
    <3>2. /\ Ids' = Ids /\ appts'[b] = s
          /\ \A c \in Ids : c # b => appts'[c] = appts[c]
      BY <3>1, MovedRows
    <3>3. CASE a = b
      <4>1. appts[b].told + n <= appts[b].offers
        BY <1>2, <1>3, <3>3
      <4>2. QED
        BY <1>2, <1>3, <3>1, <3>2, <3>3, <4>1
    <3>4. CASE a # b
      BY <1>2, <1>3, <3>2, <3>4
    <3>5. QED
      BY <3>3, <3>4
  <2>3. CASE Touched /\ \A b \in Ids : appts'[b].told = appts[b].told
    <3>1. /\ a \in Ids /\ r.offers = appts[a].offers /\ r.told = appts[a].told
          /\ r.status \in {appts[a].status, "CONFIRMED"}
      BY <1>3, <2>3 DEF Touched, SameSlot
    <3>2. QED
      BY <1>2, <1>3, <3>1
  <2>4. QED
    BY <2>1, <2>2, <2>3
<1>4. ASSUME NEW a \in Ids'
      PROVE  /\ IsFiniteSet(Telling(a)')
             /\ appts'[a].told + Cardinality(Telling(a)')
                  <= appts'[a].offers - (IF appts'[a].status = "PENDING" THEN 1 ELSE 0)
  <2>1. PICK T : T = Telling(a)
    OBVIOUS
  <2>2. T = Telling(a)'
    BY <2>1
  <2>3. IsFiniteSet(T) /\ Cardinality(T) \in Nat /\ (a \notin Ids => Cardinality(T) = 0)
    <3>1. CASE a \in Ids
      BY <1>2, <2>1, <3>1
    <3>2. CASE a \notin Ids
      <4>1. T = {}
        BY <1>1, <2>1, <3>2
      <4>2. QED
        BY <4>1, FS_EmptySet
    <3>3. QED
      BY <3>1, <3>2
  <2>4. PICK n \in Nat : n = Cardinality(T)
    BY <2>3
  <2>5. appts'[a].told + n
          <= appts'[a].offers - (IF appts'[a].status = "PENDING" THEN 1 ELSE 0)
    BY <1>3, <2>1, <2>3, <2>4
  <2>6. QED
    BY <2>2, <2>3, <2>4, <2>5
<1>5. QED
  BY <1>4 DEF ToldInv

LEMMA TellingStays ==
  ASSUME \A q \in Requests : loc'[q] = loc[q]
  PROVE  \A a : Telling(a)' = Telling(a)
BY DEF Telling

\* A request moves on and tells nobody else than before.
Quiet(k, l) == \/ k.pc \notin TellPoints /\ l.pc \notin TellPoints
               \/ k.pc \in TellPoints /\ l.pc \in TellPoints /\ l.appt = k.appt

QuietMoves(q) ==
    \E l : RequestLocal(l)' /\ loc' = [loc EXCEPT ![q] = l] /\ Quiet(loc[q], l)

LEMMA QuietTells ==
  ASSUME IInv, NEW q \in Requests, QuietMoves(q)
  PROVE  RequestMoves(q) /\ \A a : Telling(a)' = Telling(a)
<1>1. PICK l : RequestLocal(l)' /\ loc' = [loc EXCEPT ![q] = l] /\ Quiet(loc[q], l)
  BY DEF QuietMoves
<1>2. loc'[q] = l /\ \A r \in Requests : r # q => loc'[r] = loc[r]
  BY <1>1, LocsAre
<1>3. ASSUME NEW a, NEW r \in Requests
      PROVE  loc'[r].pc \in TellPoints /\ loc'[r].appt = a
             <=> loc[r].pc \in TellPoints /\ loc[r].appt = a
  BY <1>1, <1>2 DEF Quiet
<1>4. QED
  BY <1>1, <1>3 DEF Telling, RequestMoves

-----------------------------------------------------------------------------
(* Runs.                                                                   *)

LEMMA RunOn ==
  ASSUME IInv, NEW x \in Runs, NEW l, RunLocal(l), loc' = [loc EXCEPT ![x] = l],
         UNCHANGED <<appts, blocks, thread, clock, attendees>>
  PROVE  IInv'
<1>1. StillAppts /\ UNCHANGED blocks /\ UNCHANGED thread /\ UNCHANGED attendees
  BY DEF StillAppts
<1>2. Touched /\ \A a \in Ids : appts'[a].told = appts[a].told
  BY <1>1, StillTouches DEF StillAppts
<1>3. DOMAIN seats \subseteq DOMAIN seats'
  BY <1>1 DEF attendees
<1>4. Grows
  BY <1>1, <1>2, <1>3, TouchedGrows
<1>5. RunMoves(x)
  BY <1>4, RunLocalStays DEF RunMoves
<1>6. LocsInv' /\ \A q \in Requests : loc'[q] = loc[q]
  BY <1>4, <1>5, RunMovesOn
<1>7. ToldInv'
  BY <1>2, <1>6, TellingStays, ToldStays
<1>8. thread' \in Lifecycles /\ ThreadsFollowAppointments'
  BY <1>1, <1>4, ThreadsStay
<1>9. QED
  BY <1>1, <1>2, <1>4, <1>6, <1>7, <1>8, CalendarStep

LEMMA DoneHolds ==
  RunLocal([Idle EXCEPT !.pc = "done"]) /\ RequestLocal([Idle EXCEPT !.pc = "done"])
<1> DEFINE l == [Idle EXCEPT !.pc = "done"]
<1>1. l \in Locs /\ l.pc = "done"
  BY DEF Idle, Locs
<1> HIDE DEF l
<1>2. RunLocal(l) /\ RequestLocal(l)
  BY <1>1 DEF RunLocal, RequestLocal, RunPoints, ApptPoints, TellPoints, MovePoints
<1>3. QED
  BY <1>2 DEF l

LEMMA SlotsAre ==
  ASSUME NEW A, NEW B, NEW M, NEW f \in Nat, NEW t, NEW d, NEW s \in Slots(A, B, M, f, t, d)
  PROVE  s \in [staff : M, start : Nat]
<1>1. s \in [staff : M, start : f..(t - d)]
  BY DEF Slots
<1>2. QED
  BY <1>1

LEMMA SearchKeeps ==
  ASSUME IInv, NEW x \in Runs, Search(x), UNCHANGED attendees
  PROVE  IInv'
<1>1. PICK hint \in Hints, members \in PreferredStaff :
        LET fit == Candidates(hint, Found(hint, members, SlotLength)) IN
         IF fit = {} THEN Done(x)
         ELSE loc' = [loc EXCEPT ![x].pc = "recheckBlocks",
                                 ![x].staff = FirstSlot(fit).staff,
                                 ![x].start = FirstSlot(fit).start,
                                 ![x].dur = SlotLength]
  BY Zenon DEF Search
<1> DEFINE fit == Candidates(hint, Found(hint, members, SlotLength))
<1>2. CASE fit = {}
  <2>1. loc' = [loc EXCEPT ![x] = [Idle EXCEPT !.pc = "done"]]
    BY <1>1, <1>2 DEF Done
  <2>2. QED
    BY <2>1, DoneHolds, RunOn DEF Search
<1>3. CASE fit # {}
  <2>1. fit \subseteq [staff : Staff, start : Nat]
    <3>1. SearchFrom(hint) \in Nat
      BY BookingsAssumption DEF SearchFrom, Now
    <3>2. members \subseteq Staff
      BY DEF PreferredStaff
    <3>3. ASSUME NEW s \in Found(hint, members, SlotLength)
          PROVE  s \in [staff : Staff, start : Nat]
      <4>1. s \in [staff : members, start : Nat]
        BY <3>1, SlotsAre DEF Found
      <4>2. QED
        BY <3>2, <4>1
    <3>4. fit \subseteq Found(hint, members, SlotLength)
      BY DEF Candidates
    <3>5. QED
      BY <3>3, <3>4
  <2>2. PICK s \in [staff : Staff, start : Nat] : s = FirstSlot(fit)
    BY <1>3, <2>1, FirstSlotIsOne
  <2> DEFINE l == [loc[x] EXCEPT !.pc = "recheckBlocks", !.staff = s.staff,
                                 !.start = s.start, !.dur = SlotLength]
  <2>3. loc' = [loc EXCEPT ![x] = l]
    BY <1>1, <1>3, <2>2, LocsAre
  <2>4. l \in Locs /\ l.pc = "recheckBlocks" /\ l.staff \in Staff /\ l.dur = SlotLength
    <3>1. loc[x] \in Locs /\ s.staff \in Staff /\ s.start \in Int /\ SlotLength \in Nat
      BY <2>2, LocsAre, BookingsAssumption
    <3>2. QED
      BY <3>1 DEF Locs, RunPoints
  <2> HIDE DEF l
  <2>5. RunLocal(l)
    BY <2>4 DEF RunLocal
  <2>6. QED
    BY <2>3, <2>5, RunOn DEF Search
<1>4. QED
  BY <1>2, <1>3

LEMMA RecheckBlocksKeeps ==
  ASSUME IInv, NEW x \in Runs, RecheckBlocks(x), UNCHANGED attendees
  PROVE  IInv'
<1> DEFINE l == [loc[x] EXCEPT !.pc = "recheck", !.at = clock, !.blocks = blocks]
<1>1. loc' = [loc EXCEPT ![x] = l]
  BY LocsAre DEF RecheckBlocks
<1>2. /\ l \in Locs /\ l.pc = "recheck" /\ l.at = clock /\ l.blocks = blocks
      /\ l.staff = loc[x].staff /\ l.dur = loc[x].dur
  <2>1. loc[x] \in Locs /\ clock \in Nat /\ blocks \in SUBSET Blocks
    BY LocsAre DEF IInv, TablesInv
  <2>2. QED
    BY <2>1 DEF Locs, RunPoints
<1>3. loc[x].staff \in Staff /\ loc[x].dur = SlotLength
  BY LocsAre DEF RecheckBlocks, RunLocal, RunPoints
<1> HIDE DEF l
<1>4. RunLocal(l)
  BY <1>2, <1>3, Basics DEF RunLocal
<1>5. QED
  BY <1>1, <1>4, RunOn DEF RecheckBlocks

LEMMA RecheckKeeps ==
  ASSUME IInv, NEW x \in Runs, Recheck(x), UNCHANGED attendees
  PROVE  IInv'
<1> DEFINE k == loc[x]
<1>1. /\ k \in Locs /\ k.pc = "recheck" /\ k.staff \in Staff /\ k.dur = SlotLength
      /\ k.start \in Int /\ k.at <= clock /\ k.at \in Nat
      /\ \A b \in blocks : b.wrote < k.at => b \in k.blocks
  BY LocsAre DEF Recheck, RunLocal, RunPoints, Locs
<1>2. CASE IsSlotAvailable(Table, k.blocks, k.staff, k.start, k.dur)
  <2>1. /\ OnGrid(k.staff, k.start, k.dur)
        /\ Unobstructed(Table, k.blocks, k.staff, k.start, k.start + k.dur)
    <3>1. k.dur \in Nat \ {0}
      BY <1>1, BookingsAssumption
    <3>2. QED
      BY <1>1, <1>2, <3>1, AvailableSlot
  <2>2. FreeOfAppointments(k.staff, k.start, k.start + k.dur, k.at, 0)
    <3>1. \A b \in Ids : appts[b] \in Table /\ appts[b].status \in BUSY_STATUSES
      BY Basics, RowFields DEF Table
    <3>2. QED
      BY <2>1, <3>1 DEF Unobstructed, FreeOfAppointments
  <2>3. FreeOfBlocks(k.staff, k.start, k.start + k.dur, k.at)
    BY <1>1, <2>1 DEF Unobstructed, FreeOfBlocks, BlocksOf
  <2> DEFINE l == [k EXCEPT !.pc = "book"]
  <2>4. loc' = [loc EXCEPT ![x] = l]
    BY <1>2, LocsAre DEF Recheck, To
  <2>5. /\ l \in Locs /\ l.pc = "book" /\ l.staff = k.staff /\ l.start = k.start
        /\ l.dur = k.dur /\ l.at = k.at
    BY <1>1 DEF Locs, RunPoints
  <2> HIDE DEF l, k
  <2>6. RunLocal(l)
    BY <1>1, <2>1, <2>2, <2>3, <2>5 DEF RunLocal
  <2>7. QED
    BY <2>4, <2>6, RunOn DEF Recheck
<1>3. CASE ~IsSlotAvailable(Table, k.blocks, k.staff, k.start, k.dur)
  BY <1>3, DoneHolds, RunOn DEF Recheck, Done
<1>4. QED
  BY <1>2, <1>3

LEMMA BookFailsKeeps ==
  ASSUME IInv, NEW x \in Runs, BookFails(x), UNCHANGED attendees
  PROVE  IInv'
BY DoneHolds, RunOn DEF BookFails, Done

LEMMA BookKeeps ==
  ASSUME IInv, NEW x \in Runs, Book(x), UNCHANGED attendees
  PROVE  IInv'
<1> DEFINE k == loc[x]
           r == NewRow(k.staff, Contact[x], "CLIENT_WITH_CONTACT", k.start, k.dur, Owner, k.at)
           n == Len(appts) + 1
<1>1. /\ k \in Locs /\ k.pc = "book" /\ k.staff \in Staff /\ k.dur = SlotLength
      /\ k.start \in Int /\ k.at <= clock /\ k.at \in Nat
      /\ OnGrid(k.staff, k.start, k.dur)
      /\ FreeOfAppointments(k.staff, k.start, k.start + k.dur, k.at, 0)
      /\ FreeOfBlocks(k.staff, k.start, k.start + k.dur, k.at)
  BY LocsAre DEF Book, RunLocal, RunPoints, Locs
<1>2. /\ r \in Rows /\ r.wrote = clock /\ r.checked = k.at /\ r.status = "PENDING"
      /\ r.offers = 1 /\ r.told = 0 /\ r.staff = k.staff /\ r.start = k.start
      /\ r.dur = k.dur /\ r.contact = Contact[x]
  <2>1. /\ Contact[x] \in Contacts /\ Owner \in Users /\ SlotLength \in Nat
        /\ clock \in Nat
    BY BookingsAssumption, Basics DEF Contacts
  <2> HIDE DEF k
  <2>2. QED
    BY <1>1, <2>1 DEF NewRow, Rows, AppointmentTypes, BUSY_STATUSES
<1>3. /\ appts' = Append(appts, r) /\ clock' = clock + 1 /\ UNCHANGED blocks
      /\ thread' = [thread EXCEPT ![Contact[x]] = "APPOINTMENT_PENDING"]
      /\ loc' = [loc EXCEPT ![x] = [Idle EXCEPT !.pc = "done"]]
  BY DEF Book, Ticks, Done
<1> HIDE DEF k, r
<1>4. /\ appts' \in Seq(Rows) /\ Ids \subseteq Ids' /\ Ids' = Ids \union {n}
      /\ n \notin Ids /\ \A a \in Ids : appts'[a] = appts[a]
      /\ appts'[n] = r
  BY <1>2, <1>3, Basics, OneMore DEF Ids
<1>5. Extended
  <2>1. Fresh(r)
    BY <1>1, <1>2, Basics DEF Fresh, Unchecked
  <2>2. Justified(r)
    BY <1>1, <1>2 DEF Justified
  <2>3. QED
    BY <1>3, <1>4, <2>1, <2>2 DEF Extended
<1>6. Grows
  BY <1>3, <1>5, ExtendedGrows DEF attendees
<1>7. RunMoves(x)
  BY <1>3, <1>6, DoneHolds, RunLocalStays DEF RunMoves
<1>8. LocsInv' /\ \A q \in Requests : loc'[q] = loc[q]
  BY <1>6, <1>7, RunMovesOn
<1>9. ToldInv'
  BY <1>5, <1>8, TellingStays, ToldStays
<1>10. thread' \in Lifecycles
  <2>1. "APPOINTMENT_PENDING" \in LifecycleStatuses
    BY DEF LifecycleStatuses, AnyNonTerminal, CommonTargets
  <2>2. QED
    BY <1>3, <2>1, Basics DEF Lifecycles
<1>11. ThreadsFollowAppointments'
  <2>1. /\ n \in Ids' /\ appts'[n].contact = Contact[x]
    BY <1>2, <1>4
  <2>2. \A c \in Contacts : thread'[c] = IF c = Contact[x] THEN "APPOINTMENT_PENDING"
                                                         ELSE thread[c]
    BY <1>3, Basics DEF Lifecycles
  <2>3. \A c \in Contacts :
          /\ thread[c] = "APPOINTMENT_PENDING" =>
               \E a \in Ids' : appts'[a].contact = c
          /\ thread[c] = "APPOINTMENT_BOOKED" =>
               \E a \in Ids' : /\ appts'[a].contact = c
                               /\ appts'[a].status = "CONFIRMED" \/ appts'[a].offers > 1
    <3>1. ThreadsFollowAppointments
      BY DEF IInv
    <3>2. QED
      BY <1>4, <3>1 DEF ThreadsFollowAppointments
  <2>4. QED
    BY <2>1, <2>2, <2>3 DEF ThreadsFollowAppointments
<1>12. QED
  BY <1>3, <1>5, <1>6, <1>8, <1>9, <1>10, <1>11, CalendarStep

LEMMA RunKeeps ==
  ASSUME IInv, NEW x \in Runs, Run(x)
  PROVE  IInv'
BY SearchKeeps, RecheckBlocksKeeps, RecheckKeeps, BookKeeps, BookFailsKeeps
   DEF Run, RunStep

-----------------------------------------------------------------------------
(* Requests.                                                               *)

LEMMA QuietStep ==
  ASSUME IInv, NEW q \in Requests, QuietMoves(q), UNCHANGED <<blocks, thread, attendees>>,
         \/ Extended \/ Moved
         \/ Touched /\ \A a \in Ids : appts'[a].told = appts[a].told
  PROVE  IInv'
<1>1. UNCHANGED blocks /\ UNCHANGED thread /\ UNCHANGED seats
  BY DEF attendees
<1>2. Grows
  BY <1>1, ExtendedGrows, MovedGrows, TouchedGrows
<1>3. RequestMoves(q) /\ \A a : Telling(a)' = Telling(a)
  BY QuietTells
<1>4. LocsInv'
  BY <1>2, <1>3, RequestMovesOn
<1>5. ToldInv'
  BY <1>3, ToldStays
<1>6. thread' \in Lifecycles /\ ThreadsFollowAppointments'
  BY <1>1, <1>2, ThreadsStay
<1>7. QED
  BY <1>1, <1>2, <1>4, <1>5, <1>6, CalendarStep

LEMMA RequestOn ==
  ASSUME IInv, NEW q \in Requests, NEW l, RequestLocal(l), Quiet(loc[q], l),
         loc' = [loc EXCEPT ![q] = l],
         UNCHANGED <<appts, blocks, thread, clock, attendees>>
  PROVE  IInv'
<1>1. StillAppts /\ UNCHANGED blocks /\ UNCHANGED seats
  BY DEF StillAppts, attendees
<1>2. Touched /\ \A a \in Ids : appts'[a].told = appts[a].told
  BY <1>1, StillTouches DEF StillAppts
<1>3. Grows
  BY <1>1, <1>2, TouchedGrows
<1>4. QuietMoves(q)
  BY <1>3, RequestLocalStays DEF QuietMoves
<1>5. QED
  BY <1>2, <1>4, QuietStep

\* A row changes in what is no slot.
LEMMA TouchOne ==
  ASSUME IInv, NEW a \in Ids, NEW r \in Rows, SameSlot(r, appts[a]),
         r.status \in {appts[a].status, "CONFIRMED"},
         appts' = [appts EXCEPT ![a] = r], UNCHANGED clock
  PROVE  /\ Touched /\ appts'[a] = r
         /\ \A b \in Ids : b # a => appts'[b] = appts[b]
<1>1. /\ appts' \in Seq(Rows) /\ Ids' = Ids /\ appts'[a] = r
      /\ \A b \in Ids : b # a => appts'[b] = appts[b]
  BY MovedRows
<1>2. \A b \in Ids : SameSlot(appts[b], appts[b])
  BY DEF SameSlot
<1>3. QED
  BY <1>1, <1>2 DEF Touched

LEMMA Loads ==
  ASSUME IInv, NEW q \in Requests, NEW op, NEW u \in Users, NEW a \in Ids,
         NEW pt \in {"confirm", "callback", "handled", "recur", "moveConflicts"},
         pt = "handled" => u \in Operators,
         Load(q, op, u, a, pt), UNCHANGED attendees
  PROVE  IInv'
<1> DEFINE l == [loc[q] EXCEPT !.pc = pt, !.user = u, !.appt = a, !.at = clock,
                               !.start = appts[a].start, !.dur = appts[a].dur]
<1>1. loc' = [loc EXCEPT ![q] = l]
  BY LocsAre DEF Load
<1>2. /\ l \in Locs /\ l.pc = pt /\ l.user = u /\ l.appt = a
  <2>1. /\ loc[q] \in Locs /\ clock \in Nat /\ a \in Nat
        /\ appts[a].start \in Int /\ appts[a].dur \in Nat
    BY LocsAre, Basics, RowFields
  <2>2. pt \in ApptPoints
    BY DEF ApptPoints, MovePoints
  <2>3. QED
    BY <2>1, <2>2, Zenon DEF Locs
<1>3. loc[q].pc = "idle"
  BY DEF Load
<1> HIDE DEF l
<1>4. RequestLocal(l)
  BY <1>2 DEF RequestLocal, ApptPoints, MovePoints, TellPoints
<1>5. Quiet(loc[q], l)
  BY <1>2, <1>3 DEF Quiet, TellPoints
<1>6. QED
  BY <1>1, <1>4, <1>5, RequestOn DEF Load

LEMMA LoadsKeep ==
  ASSUME IInv, NEW q \in Requests, UNCHANGED attendees,
         ConfirmLoad(q) \/ CallbackLoad(q) \/ HandledLoad(q) \/ MoveLoad(q) \/ RecurLoad(q)
  PROVE  IInv'
<1>1. Operators \subseteq Users /\ Clients \subseteq Users
      /\ \A a \in Ids : appts[a].organizer \in Users
  BY Basics, RowFields DEF Operators, Clients
<1>2. CASE ConfirmLoad(q)
  BY <1>2, Loads DEF ConfirmLoad
<1>3. CASE CallbackLoad(q)
  BY <1>1, <1>3, Loads DEF CallbackLoad
<1>4. CASE HandledLoad(q)
  BY <1>1, <1>4, Loads DEF HandledLoad
<1>5. CASE MoveLoad(q)
  BY <1>1, <1>5, Loads DEF MoveLoad
<1>6. CASE RecurLoad(q)
  <2>1. PICK a \in Ids : \E u \in Operators \union {appts[a].organizer} :
          Load(q, "recur", u, a, "recur")
    BY <1>6 DEF RecurLoad
  <2>2. PICK u \in Users : Load(q, "recur", u, a, "recur")
    BY <1>1, <2>1
  <2>3. QED
    BY <2>2, Loads
<1>7. QED
  BY <1>2, <1>3, <1>4, <1>5, <1>6

\* A request that ends.
LEMMA DoneQuietly ==
  ASSUME IInv, Grows, NEW q \in Requests, Done(q), loc[q].pc \notin TellPoints
  PROVE  QuietMoves(q)
<1> DEFINE l == [Idle EXCEPT !.pc = "done"]
<1>1. RequestLocal(l)'
  BY DoneHolds, RequestLocalStays
<1>2. l.pc = "done"
  BY DEF Idle
<1>3. loc' = [loc EXCEPT ![q] = l]
  BY DEF Done
<1> HIDE DEF l
<1>4. QED
  BY <1>1, <1>2, <1>3 DEF QuietMoves, Quiet, TellPoints

LEMMA GivesUp ==
  ASSUME IInv, NEW q \in Requests, Done(q), loc[q].pc \notin TellPoints,
         UNCHANGED <<appts, blocks, thread, clock, attendees>>
  PROVE  IInv'
<1>1. StillAppts /\ UNCHANGED blocks /\ UNCHANGED seats
  BY DEF StillAppts, attendees
<1>2. Touched /\ \A a \in Ids : appts'[a].told = appts[a].told
  BY <1>1, StillTouches DEF StillAppts
<1>3. Grows
  BY <1>1, <1>2, TouchedGrows
<1>4. QED
  BY <1>2, <1>3, DoneQuietly, QuietStep

LEMMA CallbacksKeep ==
  ASSUME IInv, NEW q \in Requests, UNCHANGED attendees,
         RequestCallback(q) \/ MarkCallbackHandled(q)
  PROVE  IInv'
<1> DEFINE a == loc[q].appt
<1>1. a \in Ids /\ loc[q].pc \notin TellPoints
  BY LocsAre
     DEF RequestCallback, MarkCallbackHandled, RequestLocal, ApptPoints, TellPoints
<1>2. appts[a] \in Rows
  BY <1>1, Basics
<1>3. PICK r \in Rows : /\ appts' = [appts EXCEPT ![a] = r]
                        /\ SameSlot(r, appts[a]) /\ r.status = appts[a].status
                        /\ r.told = appts[a].told
  <2>1. CASE RequestCallback(q)
    <3> DEFINE r == [appts[a] EXCEPT !.callback = TRUE]
    <3>1. r \in Rows
      BY <1>2 DEF Rows
    <3>2. appts' = [appts EXCEPT ![a] = r]
      BY <2>1 DEF RequestCallback
    <3>3. SameSlot(r, appts[a]) /\ r.status = appts[a].status /\ r.told = appts[a].told
      BY <1>2 DEF SameSlot, Rows
    <3>4. QED
      BY <3>1, <3>2, <3>3
  <2>2. CASE MarkCallbackHandled(q)
    <3> DEFINE r == [appts[a] EXCEPT !.handledBy = loc[q].user]
    <3>1. loc[q].user \in Operators
      BY <2>2, LocsAre DEF MarkCallbackHandled, RequestLocal
    <3>2. r \in Rows
      BY <1>2, <3>1 DEF Rows
    <3>3. appts' = [appts EXCEPT ![a] = r]
      BY <2>2 DEF MarkCallbackHandled
    <3>4. SameSlot(r, appts[a]) /\ r.status = appts[a].status /\ r.told = appts[a].told
      BY <1>2 DEF SameSlot, Rows
    <3>5. QED
      BY <3>2, <3>3, <3>4
  <2>3. QED
    BY <2>1, <2>2
<1> HIDE DEF a
<1>4. /\ UNCHANGED <<blocks, thread, clock>> /\ UNCHANGED seats /\ Done(q)
  <2>1. CASE RequestCallback(q)
    BY <2>1, Zenon DEF RequestCallback, attendees
  <2>2. CASE MarkCallbackHandled(q)
    BY <2>2, Zenon DEF MarkCallbackHandled, attendees
  <2>3. QED
    BY <2>1, <2>2
<1>5. Touched /\ \A b \in Ids : appts'[b].told = appts[b].told
  <2>1. /\ Touched /\ appts'[a] = r
        /\ \A b \in Ids : b # a => appts'[b] = appts[b]
    <3>1. r.status \in {appts[a].status, "CONFIRMED"} /\ UNCHANGED clock
      BY <1>3, <1>4, Zenon
    <3>2. QED
      BY <1>1, <1>3, <3>1, TouchOne, Zenon
  <2>2. QED
    BY <1>3, <2>1
<1>6. Grows
  BY <1>4, <1>5, TouchedGrows
<1>7. QED
  BY <1>1, <1>4, <1>5, <1>6, DoneQuietly, QuietStep

LEMMA CreateKeeps ==
  ASSUME IInv, NEW q \in Requests, Create(q), UNCHANGED attendees
  PROVE  IInv'
<1>0. PICK n \in Nat : n = Len(appts) + 1
  BY Basics
<1>1. PICK u \in Users, d \in Drafts, g \in GuestLists :
         /\ Refers(d)
         /\ appts' = Append(appts, NewRow(d.staff, d.contact, d.type, d.start,
                                          d.dur, u, Unchecked))
         /\ SyncAttendees(q, u, g)
  BY DEF Create
<1> DEFINE r == NewRow(d.staff, d.contact, d.type, d.start, d.dur, u, Unchecked)
<1>2. /\ r \in Rows /\ r.wrote = clock /\ r.checked = Unchecked /\ r.status = "PENDING"
      /\ r.offers = 1 /\ r.told = 0 /\ r.organizer = u
  <2>1. /\ d.staff \in Staff \union {AnyStaff} /\ d.contact \in Contacts \union {Nobody}
        /\ d.type \in AppointmentTypes /\ d.start \in Int /\ d.dur \in Nat /\ clock \in Nat
    BY <1>1, BookingsAssumption, Basics DEF Refers
  <2>2. QED
    BY <2>1 DEF NewRow, Rows, BUSY_STATUSES, Unchecked
<1>3. appts' = Append(appts, r)
  BY <1>1
<1> HIDE DEF r
<1>4. /\ appts' \in Seq(Rows) /\ Ids \subseteq Ids' /\ Ids' = Ids \union {n}
      /\ n \notin Ids /\ \A a \in Ids : appts'[a] = appts[a]
      /\ appts'[n] = r
  BY <1>0, <1>2, <1>3, Basics, OneMore DEF Ids
<1>5. Extended
  <2>1. Fresh(r) /\ Justified(r)
    BY <1>2, Basics DEF Fresh, Justified, Unchecked
  <2>2. QED
    BY <1>4, <2>1 DEF Extended, Create, Ticks
<1>6. UNCHANGED <<blocks, thread>> /\ UNCHANGED seats /\ loc[q].pc \notin TellPoints
  BY DEF Create, attendees, TellPoints
<1>7. Grows
  BY <1>5, <1>6, ExtendedGrows
<1>8. QuietMoves(q)
  <2>1. CASE g = NoGuests
    BY <1>1, <1>6, <1>7, <2>1, DoneQuietly DEF SyncAttendees
  <2>2. CASE g # NoGuests
    <3> DEFINE l == [Idle EXCEPT !.pc = "inviteUsers", !.user = u, !.appt = n, !.guests = g]
    <3>1. loc' = [loc EXCEPT ![q] = l]
      BY <1>0, <1>1, <2>2 DEF SyncAttendees
    <3>2. l \in Locs /\ l.pc = "inviteUsers" /\ l.user = u /\ l.appt = n
      <4>1. Idle \in Locs
        BY DEF Idle, Locs
      <4>2. "inviteUsers" \in ApptPoints
        BY DEF ApptPoints
      <4>3. QED
        BY <4>1, <4>2 DEF Locs
    <3> HIDE DEF l
    <3>3. n \in Ids' /\ appts'[n].organizer = u
      BY <1>2, <1>4
    <3>4. RequestLocal(l)'
      BY <3>2, <3>3 DEF RequestLocal, TellPoints
    <3>5. Quiet(loc[q], l)
      BY <1>6, <3>2 DEF Quiet, TellPoints
    <3>6. QED
      BY <3>1, <3>4, <3>5 DEF QuietMoves
  <2>3. QED
    BY <2>1, <2>2
<1>9. QED
  BY <1>5, <1>6, <1>8, QuietStep

LEMMA RecurKeeps ==
  ASSUME IInv, NEW q \in Requests, RecurChildren(q), UNCHANGED attendees
  PROVE  IInv'
<1> DEFINE a == loc[q].appt
           base == [appts[a] EXCEPT !.start = loc[q].start, !.dur = loc[q].dur]
<1>1. a \in Ids /\ loc[q] \in Locs /\ loc[q].pc \notin TellPoints
  BY LocsAre DEF RecurChildren, RequestLocal, ApptPoints, TellPoints
<1>2. base \in Rows
  <2>1. appts[a] \in Rows /\ loc[q].start \in Int /\ loc[q].dur \in Nat
    BY <1>1, Basics DEF Locs
  <2>2. QED
    BY <2>1 DEF Rows
<1>3. PICK n \in 0..MaxOccurrences, every \in {DayLength, Week * DayLength} :
         appts' = appts \o [i \in 1..n |-> Occurrence(base, every, i)]
  BY DEF RecurChildren
<1> HIDE DEF base
<1>4. every \in Int /\ n \in Nat
  BY AvailabilityAssumption, BookingsAssumption
<1>5. ASSUME NEW i \in 1..n
      PROVE  /\ Occurrence(base, every, i) \in Rows
             /\ Fresh(Occurrence(base, every, i)) /\ Justified(Occurrence(base, every, i))
  <2> DEFINE s == base.start + i * every
             r == NewRow(base.staff, base.contact, base.type, s, base.dur,
                         base.organizer, Unchecked)
  <2>1. s \in Int
    <3>1. base.start \in Int
      BY <1>2, RowFields
    <3>2. i * every \in Int
      BY <1>4
    <3>3. QED
      BY <3>1, <3>2
  <2> HIDE DEF s
  <2>2. /\ r \in Rows /\ r.wrote = clock /\ r.checked = Unchecked /\ r.status = "PENDING"
        /\ r.offers = 1 /\ r.told = 0
    <3>1. /\ base.staff \in Staff \union {AnyStaff} /\ base.contact \in Contacts \union {Nobody}
          /\ base.type \in AppointmentTypes /\ base.dur \in Nat /\ base.organizer \in Users
          /\ clock \in Nat
      BY <1>2, RowFields, Basics
    <3>2. QED
      BY <2>1, <3>1 DEF NewRow, Rows, BUSY_STATUSES, Unchecked
  <2>3. r = Occurrence(base, every, i)
    BY DEF Occurrence, s
  <2> HIDE DEF r
  <2>4. QED
    BY <2>2, <2>3, Basics DEF Fresh, Justified, Unchecked
<1>6. Extended
  <2> DEFINE f == [i \in 1..n |-> Occurrence(base, every, i)]
  <2>1. f \in [1..n -> Rows]
    BY <1>5
  <2>2. \A i \in 1..n : f[i] = Occurrence(base, every, i)
    OBVIOUS
  <2>3. appts' = appts \o f
    BY <1>3
  <2> HIDE DEF f
  <2>4. /\ appts' \in Seq(Rows) /\ Ids \subseteq Ids'
        /\ \A b \in Ids : appts'[b] = appts[b]
        /\ \A b \in Ids' \ Ids : \E j \in 1..n : appts'[b] = f[j]
    <3>1. /\ appts \o f \in Seq(Rows)
          /\ DOMAIN appts \subseteq DOMAIN (appts \o f)
          /\ \A i \in DOMAIN appts : (appts \o f)[i] = appts[i]
          /\ \A i \in DOMAIN (appts \o f) \ DOMAIN appts : \E j \in 1..n : (appts \o f)[i] = f[j]
      BY <1>4, <2>1, Basics, Concatenated
    <3>2. QED
      BY <2>3, <3>1 DEF Ids
  <2>5. \A b \in Ids' \ Ids : Fresh(appts'[b]) /\ Justified(appts'[b])
    BY <1>5, <2>2, <2>4
  <2>6. QED
    BY <2>4, <2>5 DEF Extended, RecurChildren, Ticks
<1>7. UNCHANGED <<blocks, thread>> /\ UNCHANGED seats /\ Done(q)
  BY DEF RecurChildren, attendees
<1>8. Grows
  BY <1>6, <1>7, ExtendedGrows
<1>9. QED
  BY <1>1, <1>6, <1>7, <1>8, DoneQuietly, QuietStep

LEMMA MoveConflictsKeeps ==
  ASSUME IInv, NEW q \in Requests, MoveConflicts(q), UNCHANGED attendees
  PROVE  IInv'
<1> DEFINE a == loc[q].appt
           k == appts[a].staff
<1>1. a \in Ids /\ loc[q] \in Locs /\ loc[q].pc \notin TellPoints
  BY LocsAre DEF MoveConflicts, RequestLocal, ApptPoints, MovePoints, TellPoints
<1>2. PICK m \in Moves :
         IF Conflicts(TableWithout(a), k, m.start, m.start + m.dur) = {}
         THEN loc' = [loc EXCEPT ![q].pc = "moveHours", ![q].at = clock,
                                 ![q].start = m.start, ![q].dur = m.dur]
         ELSE Done(q)
  BY Zenon DEF MoveConflicts
<1>3. CASE Conflicts(TableWithout(a), k, m.start, m.start + m.dur) = {}
  <2> DEFINE l == [loc[q] EXCEPT !.pc = "moveHours", !.at = clock,
                                 !.start = m.start, !.dur = m.dur]
  <2>1. loc' = [loc EXCEPT ![q] = l]
    BY <1>2, <1>3, LocsAre
  <2>2. /\ l \in Locs /\ l.pc = "moveHours" /\ l.at = clock /\ l.appt = a
        /\ l.start = m.start /\ l.dur = m.dur
    <3>1. m.start \in Int /\ m.dur \in Nat /\ clock \in Nat
      BY BookingsAssumption, Basics
    <3>2. QED
      BY <1>1, <3>1 DEF Locs, ApptPoints, MovePoints
  <2>3. FreeOfAppointments(k, m.start, m.start + m.dur, clock, a)
    <3>1. ASSUME NEW b \in Ids \ {a}, appts[b].staff = k
          PROVE  ~Overlaps(m.start, m.start + m.dur, appts[b].start, End(appts[b]))
      <4>1. appts[b] \in TableWithout(a)
        BY DEF TableWithout
      <4>2. appts[b].status # "CANCELLED"
        BY Basics, RowFields DEF BUSY_STATUSES
      <4>3. QED
        BY <1>3, <3>1, <4>1, <4>2 DEF Conflicts
    <3>2. QED
      BY <3>1 DEF FreeOfAppointments
  <2> HIDE DEF l
  <2>4. RequestLocal(l)
    BY <1>1, <2>2, <2>3, Basics DEF RequestLocal, ApptPoints, MovePoints, TellPoints
  <2>5. Quiet(loc[q], l)
    BY <1>1, <2>2 DEF Quiet, TellPoints
  <2>6. QED
    BY <2>1, <2>4, <2>5, RequestOn DEF MoveConflicts
<1>4. CASE Conflicts(TableWithout(a), k, m.start, m.start + m.dur) # {}
  BY <1>1, <1>2, <1>4, GivesUp DEF MoveConflicts
<1>5. QED
  BY <1>3, <1>4

LEMMA MoveHoursKeeps ==
  ASSUME IInv, NEW q \in Requests, MoveHours(q), UNCHANGED attendees
  PROVE  IInv'
<1> DEFINE k == loc[q]
           m == appts[k.appt].staff
<1>1. /\ k \in Locs /\ k.pc = "moveHours" /\ k.appt \in Ids
      /\ k.at <= clock
      /\ FreeOfAppointments(m, k.start, k.start + k.dur, k.at, k.appt)
  BY LocsAre DEF MoveHours, RequestLocal, ApptPoints, MovePoints
<1>2. CASE WithinWorkingHours(blocks, m, k.start, k.start + k.dur)
  <2> DEFINE l == [k EXCEPT !.pc = "move"]
  <2>1. loc' = [loc EXCEPT ![q] = l]
    BY <1>2, LocsAre DEF MoveHours, To
  <2>2. /\ l \in Locs /\ l.pc = "move" /\ l.at = k.at /\ l.appt = k.appt
        /\ l.start = k.start /\ l.dur = k.dur
    BY <1>1 DEF Locs, ApptPoints, MovePoints
  <2>3. FreeOfBlocks(m, k.start, k.start + k.dur, k.at)
    BY <1>2 DEF WithinWorkingHours, FreeOfBlocks, BlocksOf
  <2> HIDE DEF l
  <2>4. RequestLocal(l)
    BY <1>1, <2>2, <2>3 DEF RequestLocal, ApptPoints, MovePoints, TellPoints
  <2>5. Quiet(loc[q], l)
    BY <1>1, <2>2 DEF Quiet, TellPoints
  <2>6. QED
    BY <2>1, <2>4, <2>5, RequestOn DEF MoveHours
<1>3. CASE ~WithinWorkingHours(blocks, m, k.start, k.start + k.dur)
  BY <1>1, <1>3, GivesUp DEF MoveHours, TellPoints
<1>4. QED
  BY <1>2, <1>3

LEMMA MoveKeeps ==
  ASSUME IInv, NEW q \in Requests, MoveAppointment(q), UNCHANGED attendees
  PROVE  IInv'
<1> DEFINE k == loc[q]
           a == k.appt
           r == [appts[a] EXCEPT !.start = k.start, !.dur = k.dur,
                                 !.status = "PENDING", !.wrote = clock,
                                 !.checked = k.at, !.offers = @ + 1]
<1>1. /\ k \in Locs /\ k.pc = "move" /\ a \in Ids /\ k.at <= clock
      /\ FreeOfAppointments(appts[a].staff, k.start, k.start + k.dur, k.at, a)
      /\ FreeOfBlocks(appts[a].staff, k.start, k.start + k.dur, k.at)
  BY LocsAre DEF MoveAppointment, RequestLocal, ApptPoints, MovePoints
<1>2. appts[a] \in Rows
  BY <1>1, Basics
<1>3. k.start \in Int /\ k.dur \in Nat /\ k.at \in Nat /\ clock \in Nat
  BY <1>1, Basics DEF Locs
<1>4. r \in Rows
  <2>1. PICK o \in Nat \ {0} : o = appts[a].offers + 1
    BY <1>2, RowFields
  <2>2. PICK c \in Int : c = k.at
    BY <1>3
  <2>3. r = [appts[a] EXCEPT !.start = k.start, !.dur = k.dur, !.status = "PENDING",
                             !.wrote = clock, !.checked = c, !.offers = o]
    BY <1>2, <2>1, <2>2 DEF Rows
  <2> HIDE DEF k, r
  <2>4. QED
    BY <1>2, <1>3, <2>3 DEF Rows, BUSY_STATUSES
<1>5. /\ r.staff = appts[a].staff /\ r.contact = appts[a].contact
      /\ r.organizer = appts[a].organizer /\ r.wrote = clock /\ r.checked = k.at
      /\ r.offers = appts[a].offers + 1 /\ r.status = "PENDING" /\ r.told = appts[a].told
      /\ r.start = k.start /\ r.dur = k.dur
  BY <1>2 DEF Rows
<1>6. appts' = [appts EXCEPT ![a] = r]
  <2>1. appts' = [appts EXCEPT ![a] =
                   [appts[a] EXCEPT !.start = k.start, !.dur = k.dur,
                                    !.status = "PENDING", !.wrote = clock,
                                    !.checked = k.at, !.offers = @ + 1]]
    BY Zenon DEF MoveAppointment
  <2>2. QED
    BY <2>1, Zenon
<1>61. /\ clock' = clock + 1 /\ Done(q)
       /\ UNCHANGED <<blocks, thread>> /\ UNCHANGED seats
  BY SMTT(30) DEF MoveAppointment, Ticks, attendees
<1> HIDE DEF r
<1>7. Moved
  <2>1. /\ FreeOfAppointments(r.staff, r.start, r.start + r.dur, r.checked, a)
        /\ FreeOfBlocks(r.staff, r.start, r.start + r.dur, r.checked)
    BY <1>1, <1>5
  <2>2. QED
    BY <1>1, <1>3, <1>4, <1>5, <1>6, <1>61, <2>1 DEF Moved
<1>8. Grows
  BY <1>61, <1>7, MovedGrows
<1>9. QED
  BY <1>1, <1>61, <1>7, <1>8, DoneQuietly, QuietStep DEF TellPoints

\* A request is about to tell the customer of one more appointment, or done.
LEMMA TellingMoves ==
  ASSUME IInv, NEW q \in Requests, NEW l, loc' = [loc EXCEPT ![q] = l]
  PROVE  \A a : Telling(a)' = IF l.pc \in TellPoints /\ l.appt = a
                              THEN Telling(a) \union {q} ELSE Telling(a) \ {q}
<1>1. loc'[q] = l /\ \A r \in Requests : r # q => loc'[r] = loc[r]
  BY LocsAre
<1>2. ASSUME NEW a, NEW r
      PROVE  r \in Telling(a)' <=>
               r \in IF l.pc \in TellPoints /\ l.appt = a
                     THEN Telling(a) \union {q} ELSE Telling(a) \ {q}
  <2>1. CASE r = q
    BY <1>1, <2>1 DEF Telling
  <2>2. CASE r # q
    BY <1>1, <2>2 DEF Telling
  <2>3. QED
    BY <2>1, <2>2
<1>3. QED
  BY <1>2

\* One row is told of by one request more or less.
LEMMA ToldChanges ==
  ASSUME IInv, NEW a \in Ids, NEW r \in Rows, Ids' = Ids, appts'[a] = r,
         \A b \in Ids : b # a => appts'[b] = appts[b],
         \A b : b # a => Telling(b)' = Telling(b),
         NEW n \in Int,
         IsFiniteSet(Telling(a)'), Cardinality(Telling(a)') = n,
         r.told + n <= r.offers - (IF r.status = "PENDING" THEN 1 ELSE 0)
  PROVE  ToldInv'
<1>1. ASSUME NEW b \in Ids, b # a
      PROVE  /\ IsFiniteSet(Telling(b)')
             /\ appts'[b].told + Cardinality(Telling(b)')
                  <= appts'[b].offers - (IF appts'[b].status = "PENDING" THEN 1 ELSE 0)
  <2>1. /\ IsFiniteSet(Telling(b))
        /\ appts[b].told + Cardinality(Telling(b))
             <= appts[b].offers - (IF appts[b].status = "PENDING" THEN 1 ELSE 0)
    BY DEF IInv, ToldInv
  <2>2. Telling(b)' = Telling(b) /\ appts'[b] = appts[b]
    BY <1>1
  <2>3. QED
    BY <2>1, <2>2
<1>2. ASSUME NEW b \in Ids'
      PROVE  /\ IsFiniteSet(Telling(b)')
             /\ appts'[b].told + Cardinality(Telling(b)')
                  <= appts'[b].offers - (IF appts'[b].status = "PENDING" THEN 1 ELSE 0)
  <2>1. CASE b = a
    BY <2>1
  <2>2. CASE b # a
    BY <1>1, <2>2
  <2>3. QED
    BY <2>1, <2>2
<1>3. QED
  BY <1>2 DEF ToldInv

\* What is known of a row and those who tell of it.
LEMMA ToldOf ==
  ASSUME IInv, NEW a \in Ids
  PROVE  /\ IsFiniteSet(Telling(a)) /\ Cardinality(Telling(a)) \in Nat
         /\ appts[a].told + Cardinality(Telling(a))
              <= appts[a].offers - (IF appts[a].status = "PENDING" THEN 1 ELSE 0)
         /\ appts[a].told \in Nat /\ appts[a].offers \in Nat \ {0}
         /\ appts[a].status \in BUSY_STATUSES
BY Basics, RowFields, FS_CardinalityType DEF IInv, ToldInv

LEMMA ConfirmKeeps ==
  ASSUME IInv, NEW q \in Requests, Confirm(q), UNCHANGED attendees
  PROVE  IInv'
<1>0. PICK k : k = loc[q]
  OBVIOUS
<1>1. PICK a \in Ids : a = k.appt
  BY <1>0, LocsAre DEF Confirm, RequestLocal, ApptPoints
<1>2. k \in Locs /\ k.pc = "confirm" /\ k.pc \notin TellPoints /\ UNCHANGED <<blocks, thread, clock>>
      /\ UNCHANGED seats
  BY <1>0, LocsAre DEF Confirm, TellPoints, attendees
<1>3. CASE appts[a].status = "PENDING"
  <2> DEFINE r == [appts[a] EXCEPT !.status = "CONFIRMED"]
             l == [k EXCEPT !.pc = "lifeRead"]
  <2>1. appts[a] \in Rows
    BY Basics
  <2>2. r \in Rows
    BY <2>1 DEF Rows, BUSY_STATUSES
  <2>3. /\ SameSlot(r, appts[a]) /\ r.status = "CONFIRMED" /\ r.told = appts[a].told
        /\ r.offers = appts[a].offers
    BY <2>1 DEF Rows, SameSlot
  <2>4. appts' = [appts EXCEPT ![a] = r]
    BY <1>0, <1>1, <1>3 DEF Confirm
  <2>5. PICK m : m = l
    OBVIOUS
  <2>6. m \in Locs /\ m.pc = "lifeRead" /\ m.appt = a
    BY <1>1, <1>2, <2>5 DEF Locs, ApptPoints, TellPoints
  <2>7. loc' = [loc EXCEPT ![q] = m]
    BY <1>0, <1>1, <1>3, <2>5, LocsAre DEF Confirm, To
  <2>8. PICK s \in Rows : s = r
    BY <2>2
  <2> HIDE DEF r, l
  <2>9. Touched /\ appts'[a] = s /\ \A b \in Ids : b # a => appts'[b] = appts[b]
    BY <1>2, <2>3, <2>4, <2>8, TouchOne
  <2>10. Ids' = Ids
    BY <2>9 DEF Touched
  <2>11. Grows
    BY <1>2, <2>9, TouchedGrows
  <2>12. RequestMoves(q)
    <3>1. a \in Ids' /\ appts'[a].status = "CONFIRMED"
      BY <2>3, <2>8, <2>9, <2>10
    <3>2. RequestLocal(m)'
      BY <2>6, <3>1 DEF RequestLocal, ApptPoints, TellPoints
    <3>3. QED
      BY <2>7, <3>2 DEF RequestMoves
  <2>13. LocsInv'
    BY <2>11, <2>12, RequestMovesOn
  <2>14. ToldInv'
    <3>1. q \notin Telling(a) /\ \A b : q \notin Telling(b)
      BY <1>0, <1>2 DEF Telling
    <3>2. /\ Telling(a)' = Telling(a) \union {q}
          /\ \A b : b # a => Telling(b)' = Telling(b)
      <4>1. \A b : Telling(b)' = IF m.pc \in TellPoints /\ m.appt = b
                                 THEN Telling(b) \union {q} ELSE Telling(b) \ {q}
        BY <2>7, TellingMoves
      <4>2. \A b : Telling(b) \ {q} = Telling(b)
        BY <3>1
      <4>3. m.pc \in TellPoints
        BY <2>6 DEF TellPoints
      <4>4. QED
        BY <2>6, <4>1, <4>2, <4>3
    <3>3. /\ IsFiniteSet(Telling(a) \union {q})
          /\ Cardinality(Telling(a) \union {q}) = Cardinality(Telling(a)) + 1
      BY <3>1, ToldOf, FS_AddElement
    <3>4. PICK n \in Nat : n = Cardinality(Telling(a))
      BY ToldOf
    <3>5. s.told + (n + 1) <= s.offers - (IF s.status = "PENDING" THEN 1 ELSE 0)
      BY <1>3, <2>3, <2>8, <3>4, ToldOf
    <3>6. /\ IsFiniteSet(Telling(a)') /\ Cardinality(Telling(a)') = n + 1
          /\ n + 1 \in Int
      BY <3>2, <3>3, <3>4
    <3>7. QED
      BY <2>9, <2>10, <3>2, <3>5, <3>6, ToldChanges
  <2>15. thread' \in Lifecycles /\ ThreadsFollowAppointments'
    BY <1>2, <2>11, ThreadsStay
  <2>16. QED
    BY <1>2, <2>9, <2>11, <2>13, <2>14, <2>15, CalendarStep
<1>4. CASE appts[a].status # "PENDING"
  BY <1>0, <1>1, <1>2, <1>4, GivesUp DEF Confirm
<1>5. QED
  BY <1>3, <1>4

LEMMA ConfirmLifeReadKeeps ==
  ASSUME IInv, NEW q \in Requests, ConfirmLifeRead(q), UNCHANGED attendees
  PROVE  IInv'
<1> DEFINE k == loc[q]
           c == appts[k.appt].contact
<1>1. /\ k \in Locs /\ k.pc \in TellPoints /\ k.appt \in Ids
      /\ appts[k.appt].status = "CONFIRMED" \/ appts[k.appt].offers > 1
  BY LocsAre DEF ConfirmLifeRead, RequestLocal, ApptPoints, TellPoints
<1>2. ASSUME NEW l \in Locs, l.pc \in TellPoints, l.appt = k.appt,
             loc' = [loc EXCEPT ![q] = l]
      PROVE  IInv'
  <2>1. RequestLocal(l)
    BY <1>1, <1>2 DEF RequestLocal, TellPoints
  <2>2. Quiet(k, l)
    BY <1>1, <1>2 DEF Quiet
  <2>3. QED
    BY <1>2, <2>1, <2>2, RequestOn DEF ConfirmLifeRead
<1>3. CASE c \in Contacts /\ canTransitionLifecycle(thread[c], "APPOINTMENT_BOOKED")
  <2> DEFINE l == [k EXCEPT !.pc = "lifeSwap", !.life = thread[c]]
  <2>1. loc' = [loc EXCEPT ![q] = l]
    BY <1>3, LocsAre DEF ConfirmLifeRead
  <2>2. thread[c] \in LifecycleStatuses
    BY <1>3, Basics DEF Lifecycles
  <2>3. l \in Locs /\ l.pc \in TellPoints /\ l.appt = k.appt
    BY <1>1, <2>2, ZenonT(60) DEF Locs, ApptPoints, TellPoints
  <2>4. QED
    BY <1>2, <2>1, <2>3
<1>4. CASE ~(c \in Contacts /\ canTransitionLifecycle(thread[c], "APPOINTMENT_BOOKED"))
  <2> DEFINE l == [k EXCEPT !.pc = "tell"]
  <2>1. loc' = [loc EXCEPT ![q] = l]
    BY <1>4, LocsAre DEF ConfirmLifeRead, To
  <2>2. l \in Locs /\ l.pc \in TellPoints /\ l.appt = k.appt
    BY <1>1 DEF Locs, ApptPoints, TellPoints
  <2>3. QED
    BY <1>2, <2>1, <2>2
<1>5. QED
  BY <1>3, <1>4

LEMMA ConfirmLifeSwapKeeps ==
  ASSUME IInv, NEW q \in Requests, ConfirmLifeSwap(q), UNCHANGED attendees
  PROVE  IInv'
<1> DEFINE k == loc[q]
           a == k.appt
           d == appts[a].contact
           l == [k EXCEPT !.pc = "tell"]
<1>1. /\ k \in Locs /\ k.pc \in TellPoints /\ a \in Ids
      /\ appts[a].status = "CONFIRMED" \/ appts[a].offers > 1
  BY LocsAre DEF ConfirmLifeSwap, RequestLocal, ApptPoints, TellPoints
<1>2. l \in Locs /\ l.pc \in TellPoints /\ l.appt = a
  BY <1>1 DEF Locs, ApptPoints, TellPoints
<1>3. loc' = [loc EXCEPT ![q] = l] /\ StillAppts /\ UNCHANGED blocks /\ UNCHANGED seats
  BY LocsAre DEF ConfirmLifeSwap, To, StillAppts, attendees
<1>4. Touched /\ \A b \in Ids : appts'[b] = appts[b]
  BY <1>3, StillTouches DEF StillAppts
<1>5. Grows
  BY <1>3, <1>4, TouchedGrows
<1>6. QuietMoves(q)
  <2>1. PICK m : m = l
    OBVIOUS
  <2> HIDE DEF l
  <2>2. RequestLocal(m)
    BY <1>1, <1>2, <2>1 DEF RequestLocal, TellPoints
  <2>3. RequestLocal(m)'
    BY <1>5, <2>2, RequestLocalStays
  <2>4. Quiet(k, m)
    BY <1>1, <1>2, <2>1 DEF Quiet
  <2>5. QED
    BY <1>3, <2>1, <2>3, <2>4 DEF QuietMoves
<1>7. RequestMoves(q) /\ \A b : Telling(b)' = Telling(b)
  BY <1>6, QuietTells
<1>8. LocsInv' /\ ToldInv'
  BY <1>4, <1>5, <1>7, RequestMovesOn, ToldStays
<1>9. /\ thread' \in Lifecycles
      /\ \A c \in Contacts : thread'[c] = thread[c] \/ (c = d /\ thread'[c] = "APPOINTMENT_BOOKED")
  <2>1. "APPOINTMENT_BOOKED" \in LifecycleStatuses
    BY DEF LifecycleStatuses, AnyNonTerminal, CommonTargets
  <2>2. thread \in [Contacts -> LifecycleStatuses]
    BY Basics DEF Lifecycles
  <2>3. thread' = [thread EXCEPT ![d] = IF thread[d] = k.life THEN "APPOINTMENT_BOOKED"
                                                            ELSE thread[d]]
    BY DEF ConfirmLifeSwap
  <2> HIDE DEF d, k
  <2>4. \A c \in Contacts : thread'[c] = IF c = d /\ thread[c] = k.life
                                         THEN "APPOINTMENT_BOOKED" ELSE thread[c]
    BY <2>2, <2>3
  <2>5. thread' = [c \in Contacts |-> thread'[c]]
    BY <2>2, <2>3
  <2>6. QED
    BY <2>1, <2>2, <2>4, <2>5 DEF Lifecycles
<1>10. ThreadsFollowAppointments'
  <2>1. Ids' = Ids
    BY <1>4 DEF Touched
  <2>2. a \in Ids' /\ appts'[a] = appts[a]
    BY <1>1, <1>4, <2>1
  <2>3. \A c \in Contacts :
          /\ thread[c] = "APPOINTMENT_PENDING" =>
               \E b \in Ids' : appts'[b].contact = c
          /\ thread[c] = "APPOINTMENT_BOOKED" =>
               \E b \in Ids' : /\ appts'[b].contact = c
                               /\ appts'[b].status = "CONFIRMED" \/ appts'[b].offers > 1
    <3>1. ThreadsFollowAppointments
      BY DEF IInv
    <3>2. QED
      BY <1>4, <2>1, <3>1 DEF ThreadsFollowAppointments
  <2>4. QED
    BY <1>1, <1>9, <2>2, <2>3 DEF ThreadsFollowAppointments
<1>11. QED
  BY <1>3, <1>4, <1>5, <1>8, <1>9, <1>10, CalendarStep

LEMMA TellCustomerKeeps ==
  ASSUME IInv, NEW q \in Requests, TellCustomer(q), UNCHANGED attendees
  PROVE  IInv'
<1>0. PICK k : k = loc[q]
  OBVIOUS
<1>1. PICK a \in Ids : a = k.appt
  BY <1>0, LocsAre DEF TellCustomer, RequestLocal, ApptPoints, TellPoints
<1>2. /\ k.pc = "tell" /\ k.pc \in TellPoints /\ UNCHANGED <<blocks, thread, clock>>
      /\ UNCHANGED seats /\ Done(q)
  BY <1>0 DEF TellCustomer, TellPoints, attendees
<1>3. PICK s \in Rows :
        /\ SameSlot(s, appts[a]) /\ s.status = appts[a].status
        /\ s.told <= appts[a].told + 1 /\ s.told \in Nat /\ s.offers = appts[a].offers
        /\ appts' = [appts EXCEPT ![a] = s]
  <2>1. appts[a] \in Rows /\ appts[a].told \in Nat
    BY Basics, RowFields
  <2>2. CASE appts' = [appts EXCEPT ![a].told = @ + 1]
    <3> DEFINE r == [appts[a] EXCEPT !.told = appts[a].told + 1]
    <3>1. r \in Rows
      BY <2>1 DEF Rows
    <3>2. /\ SameSlot(r, appts[a]) /\ r.status = appts[a].status
          /\ r.told = appts[a].told + 1 /\ r.offers = appts[a].offers
      BY <2>1 DEF Rows, SameSlot
    <3>3. appts' = [appts EXCEPT ![a] = r]
      BY <2>2
    <3> HIDE DEF r
    <3>4. r.told <= appts[a].told + 1 /\ r.told \in Nat
      BY <2>1, <3>2
    <3>5. QED
      BY <3>1, <3>2, <3>3, <3>4, Zenon
  <2>3. CASE UNCHANGED appts
    <3>1. appts' = [appts EXCEPT ![a] = appts[a]]
      BY <2>3, Basics
    <3>2. SameSlot(appts[a], appts[a])
      BY DEF SameSlot
    <3>3. appts[a].told <= appts[a].told + 1
      BY <2>1
    <3>4. QED
      BY <2>1, <3>1, <3>2, <3>3, Zenon
  <2>4. QED
    BY <1>0, <1>1, <2>2, <2>3 DEF TellCustomer
<1>4. Touched /\ appts'[a] = s /\ \A b \in Ids : b # a => appts'[b] = appts[b]
  BY <1>2, <1>3, TouchOne
<1>5. Ids' = Ids
  BY <1>4 DEF Touched
<1>6. Grows
  BY <1>2, <1>4, TouchedGrows
<1>7. PICK m : m = [Idle EXCEPT !.pc = "done"]
  OBVIOUS
<1>8. loc' = [loc EXCEPT ![q] = m] /\ m.pc = "done" /\ RequestLocal(m)
  BY <1>2, <1>7, DoneHolds DEF Done, Idle
<1>9. LocsInv'
  BY <1>6, <1>8, RequestLocalStays, RequestMovesOn DEF RequestMoves
<1>10. ToldInv'
  <2>1. \A b : Telling(b)' = Telling(b) \ {q}
    BY <1>8, TellingMoves DEF TellPoints
  <2>2. q \in Telling(a) /\ \A b : b # a => q \notin Telling(b)
    BY <1>0, <1>1, <1>2 DEF Telling
  <2>3. \A b : b # a => Telling(b)' = Telling(b)
    BY <2>1, <2>2
  <2>4. /\ IsFiniteSet(Telling(a) \ {q})
        /\ Cardinality(Telling(a) \ {q}) = Cardinality(Telling(a)) - 1
    BY <2>2, ToldOf, FS_RemoveElement
  <2>5. PICK n \in Nat : n = Cardinality(Telling(a))
    BY ToldOf
  <2>6. s.told + (n - 1) <= s.offers - (IF s.status = "PENDING" THEN 1 ELSE 0)
    BY <1>3, <2>5, ToldOf
  <2>7. IsFiniteSet(Telling(a)') /\ Cardinality(Telling(a)') = n - 1
    BY <2>1, <2>4, <2>5
  <2>8. n - 1 \in Int
    BY <2>5
  <2>9. QED
    BY <1>4, <1>5, <2>3, <2>6, <2>7, <2>8, ToldChanges
<1>11. thread' \in Lifecycles /\ ThreadsFollowAppointments'
  BY <1>2, <1>6, ThreadsStay
<1>12. QED
  BY <1>2, <1>4, <1>6, <1>9, <1>10, <1>11, CalendarStep

-----------------------------------------------------------------------------
(* Blocked times.                                                          *)

LEMMA BlocksStep ==
  ASSUME IInv, NEW q \in Requests, Grows, UNCHANGED <<thread, attendees>>, QuietMoves(q),
         Extended \/ (Touched /\ \A a \in Ids : appts'[a].told = appts[a].told),
         blocks' \subseteq Blocks, \A b \in blocks' : b.start < b.end /\ b.wrote < clock'
  PROVE  IInv'
<1>1. SeatsInv' /\ RepliesInv' /\ InvitedAreSeated'
  BY GuestsStay
<1>2. CheckedSlotsAreFree' /\ AgentBooksWorkingHours'
  BY ChecksHold, GridHolds
<1>3. thread' \in Lifecycles /\ ThreadsFollowAppointments'
  BY ThreadsStay
<1>4. TablesInv'
  BY <1>3, RowsStay DEF TablesInv
<1>5. RequestMoves(q) /\ \A a : Telling(a)' = Telling(a)
  BY QuietTells
<1>6. LocsInv' /\ ToldInv'
  BY <1>5, RequestMovesOn, ToldStays
<1>7. QED
  BY <1>1, <1>2, <1>3, <1>4, <1>6 DEF IInv

LEMMA BlockTimeKeeps ==
  ASSUME IInv, NEW q \in Requests, BlockTime(q), UNCHANGED attendees
  PROVE  IInv'
<1>1. PICK b \in BlockDrafts :
        /\ b.end > b.start
        /\ blocks' = blocks \union
             {[staff |-> b.staff, start |-> b.start, end |-> b.end, wrote |-> clock]}
  BY DEF BlockTime
<1> DEFINE n == [staff |-> b.staff, start |-> b.start, end |-> b.end, wrote |-> clock]
<1>2. n \in Blocks /\ n.start < n.end /\ n.wrote = clock
  BY <1>1, BookingsAssumption, Basics DEF Blocks
<1>3. blocks' = blocks \union {n}
  BY <1>1
<1> HIDE DEF n
<1>4. /\ UNCHANGED <<appts, thread>> /\ UNCHANGED seats /\ clock' = clock + 1 /\ Done(q)
      /\ loc[q].pc \notin TellPoints
  BY DEF BlockTime, Ticks, attendees, TellPoints
<1>5. Extended
  BY <1>4, Basics DEF Extended, Ids
<1>6. Grows
  <2>1. \A a \in Ids : appts'[a] = appts[a] /\ SameSlot(appts'[a], appts[a])
    BY <1>4 DEF SameSlot
  <2>2. clock \in Nat /\ clock' \in Nat /\ clock <= clock' /\ Ids' = Ids
    BY <1>4, Basics DEF Ids
  <2>3. \A c \in blocks' : c \in blocks \/ c.wrote = clock
    BY <1>2, <1>3
  <2>4. QED
    BY <1>4, <2>1, <2>2, <2>3 DEF Grows
<1>7. \A c \in blocks' : c \in Blocks /\ c.start < c.end /\ c.wrote < clock'
  <2>1. \A c \in blocks : c \in Blocks /\ c.start < c.end /\ c.wrote < clock /\ c.wrote \in Nat
    BY DEF IInv, TablesInv, Blocks
  <2>2. \A c \in blocks : c.wrote < clock'
    BY <1>4, <2>1, Basics
  <2>3. n.wrote < clock'
    BY <1>2, <1>4, Basics
  <2>4. QED
    BY <1>2, <1>3, <2>1, <2>2, <2>3
<1>8. QED
  BY <1>4, <1>5, <1>6, <1>7, DoneQuietly, BlocksStep

LEMMA UnblockTimeKeeps ==
  ASSUME IInv, NEW q \in Requests, UnblockTime(q), UNCHANGED attendees
  PROVE  IInv'
<1>1. /\ UNCHANGED thread /\ StillAppts /\ UNCHANGED seats /\ Done(q)
      /\ loc[q].pc \notin TellPoints /\ blocks' \subseteq blocks
  BY DEF UnblockTime, StillAppts, attendees, TellPoints
<1>2. Touched /\ \A a \in Ids : appts'[a].told = appts[a].told
  BY <1>1, StillTouches DEF StillAppts
<1>3. Grows
  BY <1>1, <1>2, TouchedGrows
<1>4. blocks' \subseteq Blocks /\ \A b \in blocks' : b.start < b.end /\ b.wrote < clock'
  BY <1>1 DEF IInv, TablesInv, StillAppts
<1>5. QED
  BY <1>1, <1>2, <1>3, <1>4, DoneQuietly, BlocksStep

LEMMA RequestKeeps ==
  ASSUME IInv, NEW q \in Requests, Request(q)
  PROVE  IInv'
BY CreateKeeps, LoadsKeep, ConfirmKeeps, ConfirmLifeReadKeeps, ConfirmLifeSwapKeeps,
   TellCustomerKeeps, CallbacksKeep, MoveConflictsKeeps, MoveHoursKeeps, MoveKeeps,
   RecurKeeps, BlockTimeKeeps, UnblockTimeKeeps
   DEF Request, RequestStep

-----------------------------------------------------------------------------
(* Guests.                                                                 *)

LEMMA SeatsGrow ==
  ASSUME IInv, NEW a \in Ids, NEW gs \in SUBSET (Users \union Contacts),
         seats' = Seat(a, gs), Ids' = Ids
  PROVE  /\ SeatsInv' /\ DOMAIN seats \subseteq DOMAIN seats'
         /\ {a} \X gs \subseteq DOMAIN seats'
<1>1. DOMAIN seats' = DOMAIN seats \union ({a} \X gs)
  BY DEF Seat
<1>2. ASSUME NEW k \in DOMAIN seats'
      PROVE  /\ k \in Ids \X (Users \union Contacts)
             /\ seats'[k] \in {"PENDING", "ACCEPTED", "DECLINED"}
  <2>1. CASE k \in DOMAIN seats
    BY <1>1, <2>1 DEF Seat, IInv, SeatsInv
  <2>2. CASE k \notin DOMAIN seats
    BY <1>1, <2>2 DEF Seat
  <2>3. QED
    BY <2>1, <2>2
<1>3. QED
  BY <1>1, <1>2 DEF SeatsInv

\* A step of the invitations.
LEMMA GuestStep ==
  ASSUME IInv, UNCHANGED <<appts, blocks, thread, clock>>,
         DOMAIN seats \subseteq DOMAIN seats', SeatsInv', RepliesInv', InvitedAreSeated',
         UNCHANGED loc \/ \E q \in Requests : QuietMoves(q)
  PROVE  IInv'
<1>1. Touched /\ \A a \in Ids : appts'[a].told = appts[a].told
  BY StillTouches DEF StillAppts
<1>2. Grows
  BY <1>1, TouchedGrows
<1>3. CheckedSlotsAreFree' /\ AgentBooksWorkingHours'
  BY <1>1, <1>2, ChecksHold, GridHolds
<1>4. ThreadsFollowAppointments'
  BY <1>2, ThreadsStay
<1>5. TablesInv'
  BY DEF IInv, TablesInv, Ids
<1>6. LocsInv' /\ ToldInv'
  <2>1. CASE UNCHANGED loc
    BY <1>1, <1>2, <2>1, StillMoves, TellingStays, ToldStays
  <2>2. CASE \E q \in Requests : QuietMoves(q)
    <3>1. PICK q \in Requests : QuietMoves(q)
      BY <2>2
    <3>2. RequestMoves(q) /\ \A a : Telling(a)' = Telling(a)
      BY <3>1, QuietTells
    <3>3. QED
      BY <1>1, <1>2, <3>2, RequestMovesOn, ToldStays
  <2>3. QED
    BY <2>1, <2>2
<1>7. QED
  BY <1>3, <1>4, <1>5, <1>6 DEF IInv

\* A request that stays where no customer is told.
LEMMA GuestMoves ==
  ASSUME IInv, NEW q \in Requests, NEW l, RequestLocal(l)', loc' = [loc EXCEPT ![q] = l],
         loc[q].pc \notin TellPoints, l.pc \notin TellPoints
  PROVE  QuietMoves(q)
BY DEF QuietMoves, Quiet

LEMMA GuestDone ==
  ASSUME IInv, NEW q \in Requests, Done(q), loc[q].pc \notin TellPoints,
         UNCHANGED <<appts, blocks, clock>>, DOMAIN seats \subseteq DOMAIN seats'
  PROVE  QuietMoves(q)
<1>1. Touched
  BY StillTouches DEF StillAppts
<1>2. Grows
  BY <1>1, TouchedGrows
<1>3. QED
  BY <1>2, DoneQuietly

LEMMA GuestsOf ==
  ASSUME IInv, NEW q \in Requests,
         loc[q].pc \in {"inviteUsers", "notifyGuests", "inviteContacts"}
  PROVE  /\ loc[q] \in Locs /\ loc[q].appt \in Ids /\ loc[q].pc \notin TellPoints
         /\ loc[q].pc # "inviteContacts" => loc[q].user = appts[loc[q].appt].organizer
         /\ loc[q].pc = "notifyGuests" =>
              {loc[q].appt} \X (loc[q].guests.users \ {loc[q].user}) \subseteq DOMAIN seats
BY LocsAre DEF RequestLocal, ApptPoints, TellPoints

LEMMA InvitedStay ==
  ASSUME IInv, UNCHANGED <<appts, invited>>, DOMAIN seats \subseteq DOMAIN seats'
  PROVE  InvitedAreSeated'
BY DEF IInv, InvitedAreSeated

LEMMA RepliesStay ==
  ASSUME IInv, UNCHANGED reply, DOMAIN seats \subseteq DOMAIN seats'
  PROVE  RepliesInv'
BY DEF IInv, RepliesInv

LEMMA InviteUsersKeeps ==
  ASSUME IInv, NEW q \in Requests, InviteUsers(q)
  PROVE  IInv'
<1>0. PICK k : k = loc[q]
  OBVIOUS
<1>1. PICK gs : gs = k.guests.users \ {k.user}
  OBVIOUS
<1>2. PICK a \in Ids : a = k.appt
  BY <1>0, GuestsOf DEF InviteUsers
<1>3. /\ k \in Locs /\ k.pc = "inviteUsers" /\ k.pc \notin TellPoints
      /\ k.user = appts[a].organizer
  BY <1>0, <1>2, GuestsOf DEF InviteUsers
<1>4. UNCHANGED <<appts, blocks, thread, clock, invited, reply>> /\ Ids' = Ids
  BY DEF InviteUsers, Ids
<1>5. CASE \A g \in gs : g \in Users \ Inactive /\ CanInvite(k.user, g)
  <2>1. seats' = Seat(a, gs) /\ To(q, "notifyGuests")
    BY <1>0, <1>1, <1>2, <1>5 DEF InviteUsers
  <2>2. /\ SeatsInv' /\ DOMAIN seats \subseteq DOMAIN seats'
        /\ {a} \X gs \subseteq DOMAIN seats'
    BY <1>4, <1>5, <2>1, SeatsGrow
  <2>3. PICK l : l = [k EXCEPT !.pc = "notifyGuests"]
    OBVIOUS
  <2>4. loc' = [loc EXCEPT ![q] = l]
    BY <1>0, <2>1, <2>3, LocsAre DEF To
  <2>5. /\ l \in Locs /\ l.pc = "notifyGuests" /\ l.user = k.user /\ l.appt = a
        /\ l.guests = k.guests
    BY <1>2, <1>3, <2>3 DEF Locs, ApptPoints
  <2>6. RequestLocal(l)'
    <3>1. l.user = appts'[l.appt].organizer
      BY <1>3, <1>4, <2>5
    <3>2. {l.appt} \X (l.guests.users \ {l.user}) \subseteq DOMAIN seats'
      BY <1>1, <2>2, <2>5
    <3>3. QED
      BY <1>4, <2>5, <3>1, <3>2 DEF RequestLocal, TellPoints
  <2>7. QuietMoves(q)
    BY <1>0, <1>3, <2>4, <2>5, <2>6, GuestMoves DEF TellPoints
  <2>8. QED
    BY <1>4, <2>2, <2>7, InvitedStay, RepliesStay, GuestStep
<1>6. CASE ~ \A g \in gs : g \in Users \ Inactive /\ CanInvite(k.user, g)
  <2>1. UNCHANGED seats /\ Done(q)
    BY <1>0, <1>1, <1>6 DEF InviteUsers
  <2>2. SeatsInv'
    BY <1>4, <2>1 DEF IInv, SeatsInv
  <2>3. QuietMoves(q)
    BY <1>0, <1>3, <1>4, <2>1, GuestDone
  <2>4. QED
    BY <1>4, <2>1, <2>2, <2>3, InvitedStay, RepliesStay, GuestStep
<1>7. QED
  BY <1>5, <1>6

LEMMA NotifyGuestsKeeps ==
  ASSUME IInv, NEW q \in Requests, NotifyGuests(q)
  PROVE  IInv'
<1>0. PICK k : k = loc[q]
  OBVIOUS
<1>1. PICK gs : gs = k.guests.users \ {k.user}
  OBVIOUS
<1>2. PICK a \in Ids : a = k.appt
  BY <1>0, GuestsOf DEF NotifyGuests
<1>3. /\ k \in Locs /\ k.pc = "notifyGuests" /\ k.pc \notin TellPoints
      /\ k.user = appts[a].organizer /\ {a} \X gs \subseteq DOMAIN seats
  BY <1>0, <1>1, <1>2, GuestsOf DEF NotifyGuests
<1>4. UNCHANGED <<appts, blocks, thread, clock, seats, reply>> /\ Ids' = Ids
  BY DEF NotifyGuests, Ids
<1>5. PICK sent \in SUBSET gs :
         /\ invited' = invited \union ({a} \X sent)
         /\ IF sent = gs THEN To(q, "inviteContacts") ELSE Done(q)
  BY <1>0, <1>1, <1>2 DEF NotifyGuests
<1>6. SeatsInv' /\ RepliesInv'
  BY <1>4, RepliesStay DEF IInv, SeatsInv
<1>7. InvitedAreSeated'
  <2>1. ASSUME NEW i \in invited'
        PROVE  i \in DOMAIN seats /\ i[2] # appts[i[1]].organizer
    <3>1. CASE i \in invited
      BY <3>1 DEF IInv, InvitedAreSeated
    <3>2. CASE i \in {a} \X sent
      BY <1>1, <1>3, <3>2
    <3>3. QED
      BY <1>5, <3>1, <3>2
  <2>2. QED
    BY <1>4, <2>1 DEF InvitedAreSeated
<1>8. QuietMoves(q)
  <2>1. CASE sent = gs
    <3>1. PICK l : l = [k EXCEPT !.pc = "inviteContacts"]
      OBVIOUS
    <3>2. loc' = [loc EXCEPT ![q] = l]
      BY <1>0, <1>5, <2>1, <3>1, LocsAre DEF To
    <3>3. l \in Locs /\ l.pc = "inviteContacts" /\ l.appt = a
      BY <1>2, <1>3, <3>1 DEF Locs, ApptPoints
    <3>4. RequestLocal(l)'
      BY <1>4, <3>3 DEF RequestLocal, TellPoints
    <3>5. QED
      BY <1>0, <1>3, <3>2, <3>3, <3>4, GuestMoves DEF TellPoints
  <2>2. CASE sent # gs
    BY <1>0, <1>3, <1>4, <1>5, <2>2, GuestDone
  <2>3. QED
    BY <2>1, <2>2
<1>9. QED
  BY <1>4, <1>6, <1>7, <1>8, GuestStep

LEMMA InviteContactsKeeps ==
  ASSUME IInv, NEW q \in Requests, InviteContacts(q)
  PROVE  IInv'
<1>1. /\ loc[q].appt \in Ids /\ loc[q].pc \notin TellPoints
  BY GuestsOf DEF InviteContacts
<1>2. UNCHANGED <<appts, blocks, thread, clock, invited, reply>> /\ Ids' = Ids /\ Done(q)
  BY DEF InviteContacts, Ids
<1>3. SeatsInv' /\ DOMAIN seats \subseteq DOMAIN seats'
  <2>1. CASE loc[q].guests.contacts \subseteq Contacts
    BY <1>1, <1>2, <2>1, SeatsGrow DEF InviteContacts
  <2>2. CASE ~(loc[q].guests.contacts \subseteq Contacts)
    BY <1>2, <2>2 DEF InviteContacts, IInv, SeatsInv
  <2>3. QED
    BY <2>1, <2>2
<1>4. QuietMoves(q)
  BY <1>1, <1>2, <1>3, GuestDone
<1>5. QED
  BY <1>2, <1>3, <1>4, InvitedStay, RepliesStay, GuestStep

LEMMA AnswersKeep ==
  ASSUME IInv, NEW r \in Replies, FindInvitation(r) \/ RespondToInvitation(r)
  PROVE  IInv'
<1>1. UNCHANGED <<appts, blocks, thread, clock>> /\ UNCHANGED loc /\ UNCHANGED invited /\ Ids' = Ids
  BY DEF FindInvitation, RespondToInvitation, bookings, Ids
<1>2. /\ SeatsInv' /\ DOMAIN seats' = DOMAIN seats
  <2>1. CASE FindInvitation(r)
    BY <1>1, <2>1 DEF FindInvitation, IInv, SeatsInv
  <2>2. CASE RespondToInvitation(r)
    BY <1>1, <2>2 DEF RespondToInvitation, IInv, SeatsInv
  <2>3. QED
    BY <2>1, <2>2
<1>3. RepliesInv'
  <2>1. CASE FindInvitation(r)
    <3>1. PICK k \in DOMAIN seats : reply' = [reply EXCEPT ![r] = k]
      BY <2>1 DEF FindInvitation
    <3>2. DOMAIN reply' = DOMAIN reply
      BY <3>1
    <3>3. \A s \in DOMAIN reply : reply'[s] = IF s = r THEN k ELSE reply[s]
      BY <3>1
    <3>4. QED
      BY <1>2, <3>2, <3>3 DEF IInv, RepliesInv
  <2>2. CASE RespondToInvitation(r)
    BY <1>2, <2>2, RepliesStay DEF RespondToInvitation
  <2>3. QED
    BY <2>1, <2>2
<1>4. QED
  BY <1>1, <1>2, <1>3, InvitedStay, GuestStep

-----------------------------------------------------------------------------
(* The theorems.                                                           *)

LEMMA InitHolds == Init => IInv
<1> SUFFICES ASSUME Init PROVE IInv
  OBVIOUS
<1>1. PICK n \in Nat : n = Len(Stored) /\ DOMAIN Stored = 1..n
  BY BookingsAssumption
<1>2. ASSUME NEW i \in 1..n
      PROVE  /\ appts[i] \in Rows /\ appts[i].checked = Unchecked /\ appts[i].wrote = 0
             /\ appts[i].offers = 1 /\ appts[i].told = 0
  <2>1. PICK d : d = Stored[i]
    OBVIOUS
  <2>2. d \in [staff : Staff \union {AnyStaff}, contact : Contacts \union {Nobody},
               type : AppointmentTypes, start : Int, dur : Nat]
    <3> DEFINE S == [staff : Staff \union {AnyStaff}, contact : Contacts \union {Nobody},
                     type : AppointmentTypes, start : Int, dur : Nat]
    <3>1. Stored \in Seq(S) /\ i \in DOMAIN Stored
      BY <1>1, BookingsAssumption
    <3> HIDE DEF S
    <3>2. d \in S
      BY <2>1, <3>1, ElementsOf
    <3>3. QED
      BY <3>2 DEF S
  <2>3. appts[i] = [NewRow(d.staff, d.contact, d.type, d.start, d.dur, Owner, Unchecked)
                      EXCEPT !.wrote = 0]
    BY <1>1, <2>1 DEF Init, InitBookings
  <2>4. clock = 1 /\ Owner \in Users
    BY BookingsAssumption DEF Init, InitBookings
  <2>5. PICK r : r = NewRow(d.staff, d.contact, d.type, d.start, d.dur, Owner, Unchecked)
    OBVIOUS
  <2>6. /\ r \in Rows /\ r.checked = Unchecked /\ r.offers = 1 /\ r.told = 0
    BY <2>2, <2>4, <2>5 DEF NewRow, Rows, BUSY_STATUSES, Unchecked
  <2>7. appts[i] = [r EXCEPT !.wrote = 0]
    BY <2>3, <2>5
  <2>8. QED
    BY <2>6, <2>7 DEF Rows
<1>3. appts \in Seq(Rows) /\ Ids = 1..n
  <2>1. DOMAIN appts = 1..n
    BY <1>1 DEF Init, InitBookings
  <2>2. appts = [i \in 1..n |-> appts[i]]
    BY <1>1 DEF Init, InitBookings
  <2>3. QED
    BY <1>2, <2>1, <2>2 DEF Ids
<1>4. TablesInv
  <2>1. "AGENT_ANALYZING" \in LifecycleStatuses
    BY DEF LifecycleStatuses, AnyNonTerminal, CommonTargets
  <2>2. clock = 1 /\ blocks = {} /\ thread \in Lifecycles
    BY <2>1 DEF Init, InitBookings, Lifecycles
  <2>3. QED
    BY <1>2, <1>3, <2>2 DEF TablesInv, Unchecked
<1>5. SeatsInv /\ RepliesInv /\ InvitedAreSeated
  BY DEF Init, InitAttendees, SeatsInv, RepliesInv, InvitedAreSeated
<1>6. /\ loc = [p \in Procs |-> Idle] /\ Runs \subseteq Procs /\ Requests \subseteq Procs
  BY DEF Init, InitBookings, Procs
<1>7. Idle \in Locs /\ Idle.pc = "idle"
  BY DEF Idle, Locs
<1>8. LocsInv
  <2>1. RunLocal(Idle) /\ RequestLocal(Idle)
    BY <1>7 DEF RunLocal, RequestLocal, RunPoints, ApptPoints, TellPoints, MovePoints
  <2>2. QED
    BY <1>6, <1>7, <2>1 DEF LocsInv
<1>9. ToldInv
  <2>1. \A a : Telling(a) = {}
    BY <1>6, <1>7 DEF Telling, TellPoints
  <2>2. ASSUME NEW a \in Ids
        PROVE  /\ IsFiniteSet(Telling(a))
               /\ appts[a].told + Cardinality(Telling(a))
                    <= appts[a].offers - (IF appts[a].status = "PENDING" THEN 1 ELSE 0)
    <3>1. IsFiniteSet(Telling(a)) /\ Cardinality(Telling(a)) = 0
      BY <2>1, FS_EmptySet
    <3>2. appts[a].offers = 1 /\ appts[a].told = 0
      BY <1>2, <1>3
    <3>3. QED
      BY <3>1, <3>2
  <2>3. QED
    BY <2>2 DEF ToldInv
<1>10. CheckedSlotsAreFree /\ AgentBooksWorkingHours
  BY <1>2, <1>3 DEF CheckedSlotsAreFree, AgentBooksWorkingHours
<1>11. ThreadsFollowAppointments
  BY DEF Init, InitBookings, ThreadsFollowAppointments
<1>12. QED
  BY <1>4, <1>5, <1>8, <1>9, <1>10, <1>11 DEF IInv

LEMMA StutterKeeps ==
  ASSUME IInv, UNCHANGED vars
  PROVE  IInv'
<1>1. /\ UNCHANGED <<appts, blocks, thread, clock>> /\ UNCHANGED loc
      /\ UNCHANGED <<seats, invited, reply>> /\ Ids' = Ids
  BY DEF vars, bookings, attendees, Ids
<1>2. SeatsInv' /\ RepliesInv' /\ InvitedAreSeated'
  BY <1>1, RepliesStay, InvitedStay DEF IInv, SeatsInv
<1>3. QED
  BY <1>1, <1>2, GuestStep

LEMMA NextKeeps == IInv /\ [Next]_vars => IInv'
<1> SUFFICES ASSUME IInv, [Next]_vars PROVE IInv'
  OBVIOUS
<1>1. CASE \E x \in Runs : Run(x)
  BY <1>1, RunKeeps
<1>2. CASE \E q \in Requests : Request(q)
  BY <1>2, RequestKeeps
<1>3. CASE AttendeesStep
  BY <1>3, InviteUsersKeeps, NotifyGuestsKeeps, InviteContactsKeeps, AnswersKeep
     DEF AttendeesStep
<1>4. CASE UNCHANGED vars
  BY <1>4, StutterKeeps
<1>5. QED
  BY <1>1, <1>2, <1>3, <1>4 DEF Next

\* The inductive invariant: the tables have their types, every run and request
\* that is on its way still knows of its slot what it read, at the moment it
\* read it, and the requests about to tell a customer are counted with the
\* confirmations sent.
THEOREM SpecIInv == Spec => []IInv
BY InitHolds, NextKeeps, PTL DEF Spec

\* The tables keep their types, and every checked slot was checked before it
\* was written.
THEOREM SpecTypeOK == Spec => []TypeOK
<1>1. IInv => TypeOK
  <2> SUFFICES ASSUME IInv PROVE TypeOK
    OBVIOUS
  <2>1. \A a \in Ids :
          /\ appts[a].status \in BUSY_STATUSES
          /\ appts[a].staff \in Staff \union {AnyStaff}
          /\ appts[a].organizer \in Users
          /\ appts[a].handledBy \in Operators \union {Nobody}
          /\ appts[a].checked \in Unchecked .. appts[a].wrote
          /\ appts[a].wrote < clock
    BY Basics, RowFields
  <2>2. QED
    BY <2>1, Basics DEF IInv, TablesInv, SeatsInv, TypeOK, Lifecycles
<1>2. QED
  BY <1>1, SpecIInv, PTL

\* What the executor's re-check and the calendar's check found free was free,
\* of everything written before the check, whoever wrote in between.
THEOREM SpecCheckedSlotsAreFree == Spec => []CheckedSlotsAreFree
BY SpecIInv, PTL DEF IInv

\* Whatever a customer asks for and whatever the offset of the company's time
\* zone, the agent books within one window of the member's hours of that local
\* day, on its grid.
THEOREM SpecAgentBooksWorkingHours == Spec => []AgentBooksWorkingHours
BY SpecIInv, PTL DEF IInv

\* However many users confirm one appointment, and however often it is moved,
\* the customer is told at most once for every time it was offered.
THEOREM SpecConfirmedOnce == Spec => []ConfirmedOnce
<1>1. IInv => ConfirmedOnce
  <2> SUFFICES ASSUME IInv, NEW a \in Ids
               PROVE  appts[a].told
                        <= appts[a].offers - (IF appts[a].status = "PENDING" THEN 1 ELSE 0)
    BY DEF ConfirmedOnce
  <2>1. QED
    BY ToldOf
<1>2. QED
  BY <1>1, SpecIInv, PTL

\* A thread says an appointment is pending or booked only if its contact has
\* one, or had one confirmed.
THEOREM SpecThreadsFollowAppointments == Spec => []ThreadsFollowAppointments
BY SpecIInv, PTL DEF IInv

\* Everybody who was sent an invitation has a row to answer it in, and nobody
\* is invited to what he organizes himself.
THEOREM SpecInvitedAreSeated == Spec => []InvitedAreSeated
BY SpecIInv, PTL DEF IInv
==============================================================================
