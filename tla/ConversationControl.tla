------------------------- MODULE ConversationControl -------------------------
(***************************************************************************)
(* Takeover, handback and manual sends                                     *)
(* (conversations/conversation-control.service.ts). A request reads the    *)
(* conversation, decides, and writes with a conditional update.            *)
(***************************************************************************)
EXTENDS ConversationState

CONSTANTS
    Requests,       \* HTTP requests in flight at the same time
    Admins,         \* SUPER_ADMIN users
    MaxHuman        \* bound on a user's messages in a conversation

ASSUME ControlAssumption == Admins \subseteq Users /\ MaxHuman \in Nat

VARIABLES
    qpc,
    quser,          \* the requester
    qconv           \* the conversation the request is about

requests == <<qpc, quser, qconv>>

InitRequests ==
    /\ qpc = [q \in Requests |-> "idle"]
    /\ quser = [q \in Requests |-> Nobody]
    /\ qconv = [q \in Requests |-> Nobody]

\* The request passed the checks on the row it read.
Passes(q, l, u, c) ==
    /\ qpc[q] = "idle"
    /\ c \in Existing
    /\ qpc' = [qpc EXCEPT ![q] = l]
    /\ quser' = [quser EXCEPT ![q] = u]
    /\ qconv' = [qconv EXCEPT ![q] = c]
    /\ UNCHANGED shared

Ended(q) ==
    /\ qpc' = [qpc EXCEPT ![q] = "idle"]
    /\ quser' = [quser EXCEPT ![q] = Nobody]
    /\ UNCHANGED qconv

\* The conditional update of the row: WHERE holds, SET makes the new row.
Swap(q, where, set) ==
    /\ convLock[qconv[q]] = Free
    /\ conv' = IF where THEN [conv EXCEPT ![qconv[q]] = set] ELSE conv
    /\ Ended(q)
    /\ UNCHANGED <<contacts, threads, messages, agentRun, effects, task, webhook,
                   locks, budgets>>

\* A conversation of the requester's own is returned as it is, one of
\* another user's is a conflict.
TakeoverRead(q, u, c) ==
    /\ conv[c].mode = "AGENT" \/ conv[c].owner = Nobody
    /\ Passes(q, "takeover", u, c)

TakenBy(q) == [conv[qconv[q]] EXCEPT !.mode = "HUMAN", !.owner = quser[q]]

\* Bug: the row that was read is trusted.
BugTakeoverSwap(q) ==
    /\ qpc[q] = "takeover"
    /\ Swap(q, TRUE, TakenBy(q))

TakeoverSwap(q) ==
    LET row == conv[qconv[q]] IN
    /\ qpc[q] = "takeover"
    /\ Swap(q, row.mode = "AGENT" \/ row.owner \in {quser[q], Nobody}, TakenBy(q))

\* Only the user in control, or an administrator, may hand back.
HandbackRead(q, u, c) ==
    /\ conv[c].mode = "HUMAN"
    /\ u \in Admins \/ conv[c].owner \in {u, Nobody}
    /\ Passes(q, "handback", u, c)

HandbackSwap(q) ==
    LET row == conv[qconv[q]] IN
    /\ qpc[q] = "handback"
    /\ Swap(q, row.mode = "HUMAN", [row EXCEPT !.mode = "AGENT", !.owner = Nobody])

SendRead(q, u, c) ==
    /\ u \in Admins \/ (conv[c].mode = "HUMAN" /\ conv[c].owner = u)
    /\ Cardinality(Copies(Human(u), c)) < MaxHuman
    /\ Passes(q, "send", u, c)

\* The message was sent to the customer; it is stored whoever is in control.
SendPersist(q) ==
    /\ qpc[q] = "send"
    /\ convLock[qconv[q]] = Free
    /\ Post(qconv[q], Human(quser[q]))
    /\ Ended(q)
    /\ UNCHANGED <<contacts, threads, conv, agentRun, effects, task, webhook, locks,
                   budgets>>

\* WhatsApp refuses the message, or the database fails: the user sees an error.
RequestFails(q) == qpc[q] # "idle" /\ Ended(q) /\ UNCHANGED shared

RequestStep(q) == TakeoverSwap(q) \/ HandbackSwap(q) \/ SendPersist(q)

RequestNext(q) ==
    \/ RequestStep(q) \/ RequestFails(q)
    \/ \E u \in Users, c \in Events :
         TakeoverRead(q, u, c) \/ HandbackRead(q, u, c) \/ SendRead(q, u, c)

KillRequests ==
    /\ qpc' = [q \in Requests |-> "idle"]
    /\ quser' = [q \in Requests |-> Nobody]
    /\ UNCHANGED qconv
=============================================================================
