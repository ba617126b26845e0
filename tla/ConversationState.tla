-------------------------- MODULE ConversationState --------------------------
(***************************************************************************)
(* The database that the conversation components share: contacts,          *)
(* conversations, messages, agent runs, dead-letter tasks and webhook      *)
(* claims of one company, for one customer phone on the WhatsApp channel.  *)
(*                                                                         *)
(* A row created while an inbound provider event is handled is identified  *)
(* by that event: the contact, the conversation and the message it created *)
(* if it did. Transactions run at READ COMMITTED: an updated row stays     *)
(* locked until its transaction ends, and an inserted key of a unique      *)
(* index makes a second insert of the key wait.                            *)
(***************************************************************************)
EXTENDS LifecycleTransitions, Naturals, Sequences, FiniteSets

CONSTANTS
    Events,         \* provider message ids (MessageSid) of the customer
    Users,          \* dashboard users of the company
    MaxThrows,      \* bound on failing database calls
    MaxCrashes,     \* bound on process crashes
    Nobody, Free

ASSUME StateAssumption ==
    /\ Nobody \notin Users
    /\ MaxThrows \in Nat
    /\ MaxCrashes \in Nat

VARIABLES
    contacts,       \* ClientContact rows with the customer's phone
    threads,        \* Conversation rows in the order of their creation
    conv,           \* Conversation columns
    messages,       \* Message rows of a conversation, oldest first
    agentRun,       \* how the AgentRun row of a message ended, or none
    effects,        \* rows the executor created on behalf of a message
    task,           \* FailedTask row of a message: its status, or none
    webhook,        \* webhook_events row of an event: its status, or absent
    convLock,       \* row lock of a conversation
    runLock,        \* uncommitted insert of the AgentRun of a message
    throws, crashes

tables  == <<contacts, threads, conv, messages, agentRun, effects, task, webhook>>
locks   == <<convLock, runLock>>
budgets == <<throws, crashes>>
shared  == <<tables, locks, budgets>>

ConvRows == [status : {"none", "OPEN", "CLOSED"}, mode : {"AGENT", "HUMAN"},
             owner : Users \union {Nobody}, lifecycle : LifecycleStatuses,
             quiet : BOOLEAN, contact : Events]

\* A new conversation. It is quiet once the customer has written nothing for
\* the company's inactivityCloseHours.
NewThread(contact) ==
    [status |-> "OPEN", mode |-> "AGENT", owner |-> Nobody, lifecycle |-> "NEW",
     quiet |-> FALSE, contact |-> contact]

\* Message rows by sender: the customer's own, the agent's answer to one, a
\* user's, and the goodbye of the inactivity job.
Inbound(e) == [kind |-> "inbound", by |-> e]
Answer(kind, e) == [kind |-> kind, by |-> e]
Human(u) == [kind |-> "human", by |-> u]
Goodbye == [kind |-> "goodbye", by |-> Nobody]

Messages == {Inbound(e) : e \in Events}
              \union {Answer(k, e) : k \in {"reply", "fallback"}, e \in Events}
              \union {Human(u) : u \in Users} \union {Goodbye}

Existing == {c \in Events : conv[c].status # "none"}

\* Occurrences of a message in the log of a conversation.
Copies(m, c) == {i \in DOMAIN messages[c] : messages[c][i] = m}

\* The conversation an inbound message was stored in.
HomeOf(e) == CHOOSE c \in Events : Copies(Inbound(e), c) # {}
Stored(e) == \E c \in Events : Copies(Inbound(e), c) # {}

Post(c, m) == messages' = [messages EXCEPT ![c] = Append(@, m)]

InitState ==
    /\ contacts = {}
    /\ threads = <<>>
    /\ conv = [c \in Events |-> [NewThread(c) EXCEPT !.status = "none"]]
    /\ messages = [c \in Events |-> <<>>]
    /\ agentRun = [e \in Events |-> "none"]
    /\ effects = [e \in Events |-> 0]
    /\ task = [e \in Events |-> "none"]
    /\ webhook = [e \in Events |-> "absent"]
    /\ convLock = [c \in Events |-> Free]
    /\ runLock = [e \in Events |-> Free]
    /\ throws = 0
    /\ crashes = 0
=============================================================================
