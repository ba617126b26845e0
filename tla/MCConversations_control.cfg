\* One message, two users and two requests at a time, two instances of the job.
SPECIFICATION Spec
CONSTANTS
    e1 = e1  e2 = e2  w1 = w1  w2 = w2  u1 = u1  u2 = u2
    q1 = q1  q2 = q2  j1 = j1  j2 = j2  y1 = y1  y2 = y2
    Events = {e1}
    Workers = {w1}
    Users = {u1, u2}
    Requests = {q1, q2}
    Admins = {}
    Replays = {}
    Jobs = {j1, j2}
    Decisions = {"SUGGEST_APPOINTMENT"}
    MaxHuman = 1
    MaxThrows = 0
    MaxCrashes = 0
    Nobody = Nobody
    Nothing = Nothing
    Free = Free
SYMMETRY MCSymmetry
INVARIANTS
    TypeOK OneGoodbye FinishedRunsAreRecorded
PROPERTIES
    AgentYields TakeoverNeverSteals ClosesIdleAgentThreads
\* Every message may be answered and nobody send another.
CHECK_DEADLOCK FALSE
