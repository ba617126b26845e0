------------------------------- MODULE Platform -------------------------------
(***************************************************************************)
(* Concurrent requests on the companies and users of the platform: every   *)
(* operation of Accounts, Permissions, AgentSetup, Channels and Delivery   *)
(* against every other one.                                                *)
(***************************************************************************)
EXTENDS Channels, AgentSetup

vars == <<accountState, channelState, loc, notices>>

Init == InitDelivery /\ InitAccounts /\ InitChannels

Deliver(q) == DeliveryStep(q) /\ UNCHANGED accountState

Request(q) ==
    \/ /\ Deliver(q) \/ AccountsStep(q) \/ PermissionsStep(q) \/ SetupStep(q)
       /\ UNCHANGED channelState
    \/ ChannelsStep(q)

Next ==
    \/ \E e \in Emails : SignUp(e) /\ UNCHANGED channelState
    \/ \E q \in Requests : Request(q)

\* Whatever a request waits for answers or times out.
Fairness == \A q \in Requests : WF_vars(loc[q].pc # "idle" /\ Request(q))

Spec == Init /\ [][Next]_vars /\ Fairness

-----------------------------------------------------------------------------
Creating(a) ==
    \E q \in Requests : loc[q].pc \in {"insertUser", "undo"} /\ loc[q].acct = a

\* No account of the identity provider is left without a user by a request
\* that failed: an account has its row, is about to get it, belongs to
\* somebody who signed up but has not come back, was made by a call whose
\* answer was lost, or its deletion was refused by the provider
\* (createClientUser, createStaffUser, safeDeleteSupabaseUser).
AccountsHaveRows ==
    \A a \in DOMAIN accounts :
        \/ a \in Ids
        \/ Creating(a)
        \/ accounts[a].made \in {"person", "lost"}
        \/ accounts[a].state \in {"deleted", "left"}

\* What a role gives to a user who has no overrides.
RoleGives(r) ==
    IF r.role \in MANAGER_ROLES THEN Fixed(r)
    ELSE RoleKeys[r.role] \intersect DefaultOn[r.role]

\* The permissions of a user change in two ways only: with the role, to what
\* the new role gives by itself, so that nothing that was granted or taken away
\* before survives the change; or by an override, and then only those that it
\* names and to what it says, also if it was checked against a role that has
\* changed since (updateUserRole, updateUserPermissions, resolvePermissions).
PermissionsFollow ==
    [][\A u \in Ids :
         \/ ResolvePermissions(u)' = ResolvePermissions(u)
         \/ \E q \in Requests :
              /\ At(q, "role") /\ loc[q].acct = u
              /\ users'[u].role = loc[q].role
              /\ ResolvePermissions(u)' = RoleGives(users'[u])
         \/ \E q \in Requests :
              /\ At(q, "grant") /\ loc[q].acct = u
              /\ \A k \in Keys :
                   (k \in ResolvePermissions(u)) # (k \in ResolvePermissions(u)')
                   => /\ k \in DOMAIN loc[q].keys
                      /\ loc[q].keys[k] = (k \in ResolvePermissions(u)')]_vars

\* A configuration that is added never takes over from one that is in use,
\* neither at the dashboard nor for the agent's answers: of the requests that
\* find none and seed one at once, the first stays (seedForCompany,
\* findActive, resolveForCompany).
SeedingKeepsConfig ==
    [][\A c \in Companies :
         /\ Len(companies'[c].configs) > Len(companies[c].configs)
         => /\ Current(c) # None => Current(c)' = Current(c)
            /\ Resolved(c) # None => Resolved(c)' = Resolved(c)]_vars

\* A customer who answers a message reaches the company that it was sent for:
\* no company's messages leave from a number that another one has, except for
\* a company without a number of its own, which sends from the platform's
\* (resolveCompanyChannel, getSendingCredentials, the unique index).
AnswersComeBack ==
    \A m \in outbound, i \in DOMAIN channels :
        m.source = "company_channel" /\ m.from = channels[i].number
        => m.company = channels[i].company

\* Every request comes back, however its provider behaves (maxAttempts of the
\* retry policy), and leaves a notification with the delivery rows that show
\* what became of it: one for the dashboard, and unless it was for the dashboard
\* only one for WhatsApp, and one for the email unless WhatsApp delivered. Each
\* of the rows may fail to be written, which is only logged, without any change
\* to the others; a notification has no rows at all if the company's settings
\* could not be read (create, runExternalDelivery, recordDelivery).
RequestsReturn ==
    \A q \in Requests :
        loc[q].pc # "idle" ~> loc[q].pc = "done" /\ Audited(notices[q])
=============================================================================
