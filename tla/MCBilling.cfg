\* Three requests of administrators, the daily job and four days.
SPECIFICATION Spec
CONSTANTS
    q1 = q1  q2 = q2  q3 = q3  basic = basic  gold = gold  site = site
    Requests = {q1, q2, q3}
    Plans = {basic, gold, site}
    Category <- MCCategory
    ActivePlans = {basic, gold, site}
    Niche <- MCNiche
    CompanyNiche = "HEALTH"
    NoPlan = NoPlan
    Cycles = {1}
    Onboarded <- MCOnboarded
    MaxSubs = 2
    Horizon = 4
INVARIANTS
    TypeOK PeriodsAreBilled PlanStaysInCategory
PROPERTIES
    LapsedIsListed
\* Every request may have been served.
CHECK_DEADLOCK FALSE
