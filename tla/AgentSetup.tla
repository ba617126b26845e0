------------------------------ MODULE AgentSetup ------------------------------
(***************************************************************************)
(* The configurations of a company's agent (agents/config/                 *)
(* agent-config.service.ts, agents/defaults/agent-defaults.service.ts).    *)
(* The dashboard edits the oldest active one; the pipeline answers with    *)
(* the oldest active one for WhatsApp (agents/prompts/                     *)
(* prompt-resolver.service.ts). Requests that find none create one,        *)
(* without a lock.                                                         *)
(***************************************************************************)
EXTENDS Accounts

CONSTANT MaxConfigs     \* configurations of a company, at most

None == 0
ActiveConfigs(c) ==
    { i \in DOMAIN companies[c].configs : companies[c].configs[i].on }

Oldest(ids) == IF ids = {} THEN None ELSE CHOOSE i \in ids : \A j \in ids : i <= j

\* findActive
Current(c) == Oldest(ActiveConfigs(c))

\* resolveForCompany, whose prompts are the defaults if there is none.
Resolved(c) == Oldest({ i \in ActiveConfigs(c) : companies[c].configs[i].whatsapp })

SetConfigs(c, configs) ==
    /\ companies' = [companies EXCEPT ![c].configs = configs]
    /\ UNCHANGED <<accounts, users, notices>>

\* getActive: what is there is shown, or seeded.
GetActive(q) ==
    /\ Starts(q)
    /\ \E c \in Companies :
         IF Current(c) # None THEN Done(q)
         ELSE To(q, [Idle EXCEPT !.pc = "seed", !.company = c])
    /\ UNCHANGED <<accountState, notices>>

\* seedForCompany: also an inactive configuration is one.
SeedRead(q) ==
    /\ At(q, "seed")
    /\ IF companies[loc[q].company].configs # <<>> THEN Done(q) ELSE Goto(q, "seedCreate")
    /\ UNCHANGED <<accountState, notices>>

\* Bug: the other configurations are switched off, as for a new company.
BugSeedCreate(q) ==
    LET c == loc[q].company
        old == companies[c].configs IN
    /\ At(q, "seedCreate")
    /\ Len(old) < MaxConfigs
    /\ SetConfigs(c, Append([i \in DOMAIN old |-> [old[i] EXCEPT !.on = FALSE]],
                         DefaultConfig))
    /\ Done(q)

\* The prompts follow in a statement of their own; without them the defaults
\* are used.
SeedCreate(q) ==
    LET c == loc[q].company IN
    /\ At(q, "seedCreate")
    /\ Len(companies[c].configs) < MaxConfigs
    /\ SetConfigs(c, Append(companies[c].configs, DefaultConfig))
    /\ Done(q)

\* update: of isActive or of the channels.
ConfigLoad(q) ==
    /\ Starts(q)
    /\ \E c \in Companies, field \in {"on", "whatsapp"}, value \in BOOLEAN :
         /\ Current(c) # None
         /\ To(q, [Idle EXCEPT !.pc = IF field = "on" /\ ~value THEN "count" ELSE "config",
                               !.company = c, !.config = Current(c),
                               !.channel = field, !.on = value])
    /\ UNCHANGED <<accountState, notices>>

\* The only active one stays active.
CountOthers(q) ==
    /\ At(q, "count")
    /\ IF ActiveConfigs(loc[q].company) \subseteq {loc[q].config}
       THEN Done(q) ELSE Goto(q, "config")
    /\ UNCHANGED <<accountState, notices>>

UpdateConfig(q) ==
    LET l == loc[q] IN
    /\ At(q, "config")
    /\ SetConfigs(l.company, [companies[l.company].configs EXCEPT
                               ![l.config][l.channel] = l.on])
    /\ Done(q)

SetupStep(q) ==
    \/ GetActive(q) \/ SeedRead(q) \/ SeedCreate(q)
    \/ ConfigLoad(q) \/ CountOthers(q) \/ UpdateConfig(q)
=============================================================================
