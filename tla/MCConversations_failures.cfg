\* One message delivered to two workers, two replays and a request on the queue,
\* two failing calls and a crash.
SPECIFICATION Spec
CONSTANTS
    e1 = e1  e2 = e2  w1 = w1  w2 = w2  u1 = u1  u2 = u2
    q1 = q1  q2 = q2  j1 = j1  j2 = j2  y1 = y1  y2 = y2
    Events = {e1}
    Workers = {w1, w2}
    Users = {u1}
    Requests = {q1}
    Admins = {u1}
    Replays = {y1, y2}
    Jobs = {}
    Decisions = {"PLACE_ORDER", "something else"}
    MaxHuman = 0
    MaxThrows = 2
    MaxCrashes = 1
    Nobody = Nobody
    Nothing = Nothing
    Free = Free
SYMMETRY MCSymmetry
INVARIANTS
    IngestedOnce AnswerMatchesRun EscapedRunsAreKept
\* Every message may be answered and nobody send another.
CHECK_DEADLOCK FALSE
