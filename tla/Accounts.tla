------------------------------- MODULE Accounts -------------------------------
(***************************************************************************)
(* Companies, their users, and the accounts of the identity provider       *)
(* (admin/admin.service.ts, auth/auth.service.ts, users/users.service.ts,  *)
(* companies/companies.service.ts). A user is a row of the database and an *)
(* account of Supabase, which no transaction covers: an administrator's    *)
(* request makes the account first and deletes it if the row fails. A      *)
(* person who signs up with Google makes the account, and the row follows  *)
(* with the first callback; the provider gives everybody who proves an     *)
(* email address the one account that has it.                              *)
(***************************************************************************)
EXTENDS Delivery

CONSTANTS
    Emails,
    Roles,
    Keys,           \* permissions
    RoleKeys,       \* of each role, the permissions that it may have
    Founders,       \* email, role and company of the first users
    Founded,        \* configurations of the first companies, by age
    MaxAccounts,    \* accounts that are made, at most
    MaxCompanies    \* companies that are made, at most

\* An agent configuration: isActive, and is WHATSAPP among its channels?
Configs == [on : BOOLEAN, whatsapp : BOOLEAN]
DefaultConfig == [on |-> TRUE, whatsapp |-> TRUE]

ASSUME AccountsAssumption ==
    /\ {"CLIENT", "COMPANY_ADMIN", "SUPER_ADMIN"} \subseteq Roles
    /\ RoleKeys \in [Roles -> SUBSET Keys]
    /\ Founders \in Seq([email : Emails, role : Roles, company : DOMAIN Founded])
    /\ Founded \in Seq(Seq(Configs))
    /\ {MaxAccounts, MaxCompanies} \subseteq Nat

VARIABLES
    accounts,       \* Supabase: email, who made it, and what became of it
    users,          \* the rows, by account
    companies       \* isActive, and the agent configurations

accountState == <<accounts, users, companies>>

\* What a request overrides: at most one permission of the list it may send.
Overrides == {NoKeys} \union UNION { [{k} -> BOOLEAN] : k \in Keys }

NewUser(role, company, sent, keys) ==
    [role |-> role, company |-> company, active |-> TRUE, sent |-> sent, keys |-> keys]
NewCompany(configs) == [active |-> TRUE, configs |-> configs]

InitAccounts ==
    /\ accounts = [a \in DOMAIN Founders |->
                     [email |-> Founders[a].email, made |-> "admin", state |-> "live"]]
    /\ users = [a \in DOMAIN Founders |->
                  NewUser(Founders[a].role, Founders[a].company, FALSE, NoKeys)]
    /\ companies = [c \in DOMAIN Founded |-> NewCompany(Founded[c])]

Ids == DOMAIN users
Companies == DOMAIN companies

\* deleteUser of the provider may fail, which leaves the account.
Exists(a) == accounts[a].state # "deleted"
EmailUsed(e) == \E a \in DOMAIN accounts : Exists(a) /\ accounts[a].email = e
EmailTaken(e) == \E u \in Ids : accounts[u].email = e

Patch(us) == users' = us /\ UNCHANGED <<accounts, companies>>

(* Making users *************************************************************)

NewAccount(e, made) ==
    /\ Len(accounts) < MaxAccounts
    /\ accounts' = Append(accounts, [email |-> e, made |-> made, state |-> "live"])

\* Somebody signs up with Google.
SignUp(e) ==
    /\ ~EmailUsed(e)
    /\ NewAccount(e, "person")
    /\ UNCHANGED <<users, companies, loc, notices>>

\* A request for a user whose email is free.
NewUserOf(q, role, keys, staff) ==
    /\ Starts(q)
    /\ \E e \in Emails, c \in Companies :
         /\ ~EmailTaken(e)
         /\ To(q, [Idle EXCEPT !.pc = "createAccount", !.email = e, !.company = c,
                               !.role = role, !.keys = keys, !.on = staff])
    /\ UNCHANGED <<accountState, notices>>

\* createClientUser
CreateClientUser(q) == NewUserOf(q, "COMPANY_ADMIN", NoKeys, FALSE)

\* createStaffUser: any role, with overrides; the password counts as sent.
CreateStaffUser(q) == \E r \in Roles, ks \in Overrides : NewUserOf(q, r, ks, TRUE)

\* The account is made, or the provider says no, or it makes the account and
\* the answer is lost, which the request takes for a no.
CreateAccount(q) ==
    /\ At(q, "createAccount")
    /\ \/ /\ ~EmailUsed(loc[q].email)
          /\ NewAccount(loc[q].email, "admin")
          /\ To(q, [loc[q] EXCEPT !.pc = "insertUser", !.acct = Len(accounts) + 1])
       \/ Done(q) /\ UNCHANGED accounts
       \/ /\ ~EmailUsed(loc[q].email)
          /\ NewAccount(loc[q].email, "lost")
          /\ Done(q)
    /\ UNCHANGED <<users, companies, notices>>

\* Bug: the error of the row is passed on at once.
BugRowFails(q) == Done(q)
RowFails(q) == Goto(q, "undo")

\* The row with its overrides, unless the email or the account got one
\* meanwhile, the request was wrong, or the database fails.
InsertUser(q, valid) ==
    LET l == loc[q] IN
    /\ At(q, "insertUser")
    /\ \/ /\ valid
          /\ l.acct \notin Ids /\ ~EmailTaken(l.email)
          /\ users' = [u \in Ids \union {l.acct} |->
                         IF u \in Ids THEN users[u]
                         ELSE NewUser(l.role, l.company, l.on, l.keys)]
          /\ Done(q)
       \/ RowFails(q) /\ UNCHANGED users
    /\ UNCHANGED <<accounts, companies, notices>>

InsertClientUser(q) == ~loc[q].on /\ InsertUser(q, TRUE)

\* The overrides have to be for the role.
InsertStaffUser(q) ==
    /\ loc[q].on
    /\ InsertUser(q, DOMAIN loc[q].keys \subseteq RoleKeys[loc[q].role])

\* safeDeleteSupabaseUser only logs that it failed.
UndoAccount(q) ==
    /\ At(q, "undo")
    /\ \E s \in {"deleted", "left"} :
         accounts' = [accounts EXCEPT ![loc[q].acct].state = s]
    /\ Done(q)
    /\ UNCHANGED <<users, companies, notices>>

\* handleOAuthCallback: whose account has a row is let in, others get one.
OAuthRead(q) ==
    /\ Starts(q)
    /\ \E a \in DOMAIN accounts :
         /\ Exists(a)
         /\ IF a \in Ids THEN Done(q)
            ELSE To(q, [Idle EXCEPT !.pc = "oauth", !.acct = a, !.email = accounts[a].email])
    /\ UNCHANGED <<accountState, notices>>

\* One transaction: a company with a seeded configuration, and its client.
OAuthInsert(q) ==
    LET l == loc[q] IN
    /\ At(q, "oauth")
    /\ Len(companies) < MaxCompanies
    /\ IF l.acct \in Ids \/ EmailTaken(l.email)
       THEN UNCHANGED <<users, companies>>
       ELSE /\ companies' = Append(companies, NewCompany(<<DefaultConfig>>))
            /\ users' = [u \in Ids \union {l.acct} |->
                           IF u \in Ids THEN users[u]
                           ELSE NewUser("CLIENT", Len(companies) + 1, FALSE, NoKeys)]
    /\ Done(q)
    /\ UNCHANGED <<accounts, notices>>

\* createFullCompany: one transaction, with an agent for the channels that the
\* request names if a plan includes it.
CreateFullCompany(q) ==
    /\ Starts(q)
    /\ Len(companies) < MaxCompanies
    /\ \E configs \in {<<>>} \union { <<[DefaultConfig EXCEPT !.whatsapp = w]>> : w \in BOOLEAN } :
         companies' = Append(companies, NewCompany(configs))
    /\ Done(q)
    /\ UNCHANGED <<accounts, users, notices>>

(* Deactivation *************************************************************)

\* Every operation on a user begins by loading it; some are then refused.
Pick(q, pc, Allowed(_)) ==
    /\ Starts(q)
    /\ \E u \in Ids :
         /\ Allowed(users[u])
         /\ To(q, [Idle EXCEPT !.pc = pc, !.acct = u, !.company = users[u].company])
    /\ UNCHANGED <<accountState, notices>>

IsClient(r) == r.role = "CLIENT"
MayBeRemoved(r) == r.role # "SUPER_ADMIN" /\ r.active
\* PORTAL_CREDENTIAL_EMAIL_ROLES
GetsCredentials(r) == r.role \in {"CLIENT", "COMPANY_ADMIN"}

DeactivateLoad(q) == Pick(q, "deactivate", IsClient)
ReactivateLoad(q) == Pick(q, "reactivate", IsClient)
RemoveLoad(q) == Pick(q, "remove", MayBeRemoved)
SendLoad(q) == Pick(q, "send", GetsCredentials)

SetUser(q, on) == users' = [users EXCEPT ![loc[q].acct].active = on]
SetCompany(c, on) == companies' = [companies EXCEPT ![c].active = on]
SetStaffOf(c, on) ==
    users' = [u \in Ids |-> IF users[u].company = c
                            THEN [users[u] EXCEPT !.active = on] ELSE users[u]]

\* deactivateClient: the company goes with its client, and is told.
Deactivate(q) ==
    /\ At(q, "deactivate")
    /\ SetUser(q, FALSE) /\ SetCompany(loc[q].company, FALSE)
    /\ Goto(q, "notice")
    /\ UNCHANGED <<accounts, notices>>

Reactivate(q) ==
    /\ At(q, "reactivate")
    /\ SetUser(q, TRUE) /\ SetCompany(loc[q].company, TRUE)
    /\ Done(q)
    /\ UNCHANGED <<accounts, notices>>

\* UsersService.remove
Remove(q) ==
    /\ At(q, "remove")
    /\ SetUser(q, FALSE)
    /\ Done(q)
    /\ UNCHANGED <<accounts, companies, notices>>

\* reactivateCompany: also the users that had been removed one by one.
ReactivateCompany(q) ==
    /\ Starts(q)
    /\ \E c \in Companies : SetStaffOf(c, TRUE) /\ SetCompany(c, TRUE)
    /\ Done(q)
    /\ UNCHANGED <<accounts, notices>>

\* CompaniesService.remove
RemoveCompanyLoad(q) ==
    /\ Starts(q)
    /\ \E c \in Companies :
         /\ companies[c].active
         /\ To(q, [Idle EXCEPT !.pc = "removeCompany", !.company = c])
    /\ UNCHANGED <<accountState, notices>>

RemoveCompany(q) ==
    /\ At(q, "removeCompany")
    /\ SetStaffOf(loc[q].company, FALSE) /\ SetCompany(loc[q].company, FALSE)
    /\ Done(q)
    /\ UNCHANGED <<accounts, notices>>

(* Credentials **************************************************************)

\* sendOnboardingCredentials, through the email adapter.
SendCredentials(q) ==
    /\ At(q, "send")
    /\ To(q, [loc[q] EXCEPT !.pc = "email", !.to = {"EMAIL"}, !.next = "sent"])
    /\ UNCHANGED <<accountState, notices>>

MarkSent(q) ==
    /\ At(q, "sent")
    /\ users' = IF loc[q].ok THEN [users EXCEPT ![loc[q].acct].sent = TRUE] ELSE users
    /\ Done(q)
    /\ UNCHANGED <<accounts, companies, notices>>

AccountsStep(q) ==
    \/ CreateClientUser(q) \/ CreateStaffUser(q) \/ CreateAccount(q)
    \/ InsertClientUser(q) \/ InsertStaffUser(q) \/ UndoAccount(q)
    \/ OAuthRead(q) \/ OAuthInsert(q)
    \/ CreateFullCompany(q)
    \/ DeactivateLoad(q) \/ Deactivate(q)
    \/ ReactivateLoad(q) \/ Reactivate(q) \/ ReactivateCompany(q)
    \/ RemoveLoad(q) \/ Remove(q) \/ RemoveCompanyLoad(q) \/ RemoveCompany(q)
    \/ SendLoad(q) \/ SendCredentials(q) \/ MarkSent(q)
=============================================================================
