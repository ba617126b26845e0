\* A booking of the agent and two requests of users.
SPECIFICATION Spec
CONSTANTS
    x1 = x1  x2 = x2  q1 = q1  q2 = q2  q3 = q3  r1 = r1  c1 = c1
    owner = owner  client = client  operator = operator  other = other
    Staff = {1, 2}
    AnyStaff = AnyStaff
    DayLength = 6
    Week = 2
    Offset <- MCOffset
    Hours <- MCHours
    Runs = {x1}
    Requests = {q1, q2}
    Contact <- MCContact
    Users <- MCUsers
    Owner = owner
    Role <- MCRole
    Nobody = Nobody
    Ops = {"create", "confirm", "callback", "handled", "move", "recur", "block", "unblock"}
    Hints <- MCHints
    AnyTime = AnyTime
    SearchDays = 2
    Stored <- MCStored
    Drafts <- MCDrafts
    GuestLists <- MCGuests
    Moves <- MCMoves
    BlockDrafts <- MCBlocks
    SlotLength = 2
    MaxOccurrences = 1
    Replies = {r1}
    Inactive = {}
    PlatformUsers = {operator}
SYMMETRY MCSymmetry
INVARIANTS
    TypeOK CheckedSlotsAreFree AgentBooksWorkingHours ConfirmedOnce ThreadsFollowAppointments InvitedAreSeated
\* Every request may have been served.
CHECK_DEADLOCK FALSE
