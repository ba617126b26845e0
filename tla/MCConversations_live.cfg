\* Two messages, takeovers, nothing fails.
SPECIFICATION FairSpec
CONSTANTS
    e1 = e1  e2 = e2  w1 = w1  w2 = w2  u1 = u1  u2 = u2
    q1 = q1  q2 = q2  j1 = j1  j2 = j2  y1 = y1  y2 = y2
    Events = {e1, e2}
    Workers = {w1}
    Users = {u1}
    Requests = {q1}
    Admins = {}
    Replays = {}
    Jobs = {}
    Decisions = {"ESCALATE", "REQUEST_PAYMENT"}
    MaxHuman = 0
    MaxThrows = 0
    MaxCrashes = 0
    Nobody = Nobody
    Nothing = Nothing
    Free = Free
PROPERTIES
    MessageAnswered
\* Every message may be answered and nobody send another.
CHECK_DEADLOCK FALSE
