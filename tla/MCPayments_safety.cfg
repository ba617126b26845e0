\* Two payments of one order, two requests at a time.
SPECIFICATION Spec
CONSTANTS
    p1 = p1  p2 = p2  o1 = o1  w1 = w1  w2 = w2
    Payments = {p1, p2}
    Orders = {o1}
    OrderOf <- MCSameOrder
    Workers = {w1, w2}
    StrayEvents <- MCNoStray
    OtherMoves <- MCNoMoves
    HasOwner = TRUE
    MaxThrows = 0
    MaxCrashes = 0
    NoPayment = NoPayment
    NoEvent = NoEvent
    Free = Free
SYMMETRY MCSymmetry
INVARIANTS
    TypeOK AuditTrail OrderFollowsPayment ConfirmedMeansPaid PaidNotFailed
    AppliedOnce
PROPERTIES
    LedgerSpec StatusMovesLegal
\* Every request may have returned and every payment be a wire transfer.
CHECK_DEADLOCK FALSE
