--------------------------- MODULE InactivityClose ---------------------------
(***************************************************************************)
(* The inactivity job (notifications/scheduler/inactivity-close.job.ts)    *)
(* and the conditional close it uses                                       *)
(* (conversations/conversation-lifecycle.service.ts, autoCloseIfInactive). *)
(* A job is one instance of the backend: an instance runs one cycle at a   *)
(* time, two instances may run theirs together.                            *)
(***************************************************************************)
EXTENDS ConversationState

CONSTANT Jobs

VARIABLES
    jpc,
    jset,           \* candidates of the scan that are still to be handled
    jcur            \* the conversation that is being closed

jobs == <<jpc, jset, jcur>>

InitJobs ==
    /\ jpc = [j \in Jobs |-> "idle"]
    /\ jset = [j \in Jobs |-> {}]
    /\ jcur = [j \in Jobs |-> Nobody]

Closable(c) ==
    /\ conv[c].status = "OPEN"
    /\ conv[c].mode = "AGENT"
    /\ conv[c].lifecycle # "AUTO_CLOSED_INACTIVE"
    /\ conv[c].quiet

\* The scan of a cycle; the batch limit may leave some candidates out.
Scan(j) ==
    /\ jpc[j] = "idle"
    /\ \E s \in SUBSET {c \in Events : Closable(c)} \ {{}} :
         jset' = [jset EXCEPT ![j] = s]
    /\ jpc' = [jpc EXCEPT ![j] = "close"]
    /\ UNCHANGED <<shared, jcur>>

\* Bug: the two status columns are mixed up.
BugClosedRow(c) ==
    conv' = [conv EXCEPT ![c].status = "AUTO_CLOSED_INACTIVE", ![c].lifecycle = "CLOSED"]

ClosedRow(c) ==
    conv' = [conv EXCEPT ![c].status = "CLOSED", ![c].lifecycle = "AUTO_CLOSED_INACTIVE"]

CloseThread(j, c) ==
    /\ ClosedRow(c)
    /\ jset' = [jset EXCEPT ![j] = @ \ {c}]
    /\ jcur' = [jcur EXCEPT ![j] = c]
    /\ jpc' = [jpc EXCEPT ![j] = "goodbye"]
    /\ UNCHANGED <<contacts, threads, messages, agentRun, effects, task, webhook,
                   locks, budgets>>

\* Bug: the candidate is closed without the conditions of the scan.
BugClose(j, c) ==
    /\ jpc[j] = "close"
    /\ c \in jset[j]
    /\ convLock[c] = Free
    /\ CloseThread(j, c)

\* autoCloseIfInactive: the conditions of the scan are checked again.
Close(j, c) ==
    /\ jpc[j] = "close"
    /\ c \in jset[j]
    /\ convLock[c] = Free
    /\ Closable(c)
    /\ CloseThread(j, c)

\* Nothing matched: neither a change nor a goodbye.
Skip(j, c) ==
    /\ jpc[j] = "close"
    /\ c \in jset[j]
    /\ convLock[c] = Free
    /\ ~Closable(c)
    /\ jset' = [jset EXCEPT ![j] = @ \ {c}]
    /\ UNCHANGED <<shared, jpc, jcur>>

\* The goodbye is stored and sent, best effort.
SayGoodbye(j) ==
    /\ jpc[j] = "goodbye"
    /\ Post(jcur[j], Goodbye) \/ UNCHANGED messages
    /\ jcur' = [jcur EXCEPT ![j] = Nobody]
    /\ jpc' = [jpc EXCEPT ![j] = "close"]
    /\ UNCHANGED <<contacts, threads, conv, agentRun, effects, task, webhook, locks,
                   budgets, jset>>

CycleEnds(j) ==
    /\ jpc[j] = "close"
    /\ jset[j] = {}
    /\ jpc' = [jpc EXCEPT ![j] = "idle"]
    /\ UNCHANGED <<shared, jset, jcur>>

\* A read of closeOne fails after the close: the whole cycle is given up.
CycleFails(j) ==
    /\ jpc[j] \in {"close", "goodbye"}
    /\ throws < MaxThrows /\ throws' = throws + 1
    /\ jpc' = [jpc EXCEPT ![j] = "idle"]
    /\ jset' = [jset EXCEPT ![j] = {}]
    /\ jcur' = [jcur EXCEPT ![j] = Nobody]
    /\ UNCHANGED <<tables, locks, crashes>>

JobStep(j) ==
    \/ SayGoodbye(j) \/ CycleEnds(j)
    \/ \E c \in Events : Close(j, c) \/ Skip(j, c)

JobNext(j) == JobStep(j) \/ Scan(j) \/ CycleFails(j)

KillJobs ==
    /\ jpc' = [j \in Jobs |-> "idle"]
    /\ jset' = [j \in Jobs |-> {}]
    /\ jcur' = [j \in Jobs |-> Nobody]
=============================================================================
