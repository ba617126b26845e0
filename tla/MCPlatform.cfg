\* Two concurrent requests, and somebody who signs up.
SPECIFICATION Spec
CONSTANTS
    q1 = q1  q2 = q2  e1 = e1  e2 = e2  e3 = e3
    manage = manage  access = access
    main = main  own = own  sandbox = sandbox
    Requests = {q1, q2}
    MaxAttempts = 2
    Emails = {e1, e2, e3}
    Roles = {"CLIENT", "COMPANY_STAFF", "COMPANY_ADMIN", "SUPER_ADMIN"}
    Keys = {manage, access}
    CompanyKeys = {manage}
    UsersPermissions = manage
    PlatformCompanies = {2}
    DefaultOn <- MCDefaultOn
    RoleKeys <- MCRoleKeys
    Founders <- MCFounders
    Founded <- MCFounded
    Numbers = {main, own, sandbox}
    PlatformNumber = main
    SandboxNumber = sandbox
    InboundFallback = TRUE
    Lines <- MCLines
    MaxAccounts = 4
    MaxCompanies = 4
    MaxConfigs = 2
INVARIANTS
    AccountsHaveRows AnswersComeBack
PROPERTIES
    SeedingKeepsConfig  RequestsReturn
\* Every request may have been served.
CHECK_DEADLOCK FALSE
