\* Two bookings of the agent for one contact.
SPECIFICATION Spec
CONSTANTS
    x1 = x1  x2 = x2  q1 = q1  q2 = q2  q3 = q3  r1 = r1  c1 = c1
    owner = owner  client = client  operator = operator  other = other
    Staff = {1, 2}
    AnyStaff = AnyStaff
    DayLength = 6
    Week = 2
    Offset <- MCOffset
    Hours <- MCHours
    Runs = {x1, x2}
    Requests = {}
    Contact <- MCContact
    Users <- MCUsers
    Owner = owner
    Role <- MCRole
    Nobody = Nobody
    Ops = {}
    Hints <- MCHints
    AnyTime = AnyTime
    SearchDays = 2
    Stored <- MCStored
    Drafts = {}
    GuestLists = {}
    Moves = {}
    BlockDrafts = {}
    SlotLength = 2
    MaxOccurrences = 1
    Replies = {}
    Inactive = {}
    PlatformUsers = {operator}
INVARIANTS
    NoDoubleBooking
CHECK_DEADLOCK FALSE
