\* One payment, two requests at a time, a failing call and a crash, foreign
\* events, and other components moving the lifecycle.
SPECIFICATION Spec
CONSTANTS
    p1 = p1  p2 = p2  o1 = o1  w1 = w1  w2 = w2
    Payments = {p1}
    Orders = {o1}
    OrderOf <- MCSameOrder
    Workers = {w1, w2}
    StrayEvents <- MCStray
    OtherMoves <- MCMoves
    HasOwner = TRUE
    MaxThrows = 1
    MaxCrashes = 1
    NoPayment = NoPayment
    NoEvent = NoEvent
    Free = Free
INVARIANTS
    AppliedOnce OutcomeIsTruthful
PROPERTIES
    LifecycleFollowsGrammar
\* Every request may have returned and every payment be a wire transfer.
CHECK_DEADLOCK FALSE
