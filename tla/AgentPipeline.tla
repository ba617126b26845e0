---------------------------- MODULE AgentPipeline ----------------------------
(***************************************************************************)
(* The agent pipeline (agents/pipeline/pipeline.service.ts) with the       *)
(* executor's effects (agents/steps/executor.service.ts) and the dead      *)
(* letter queue that replays it (common/reliability/                       *)
(* failed-task.service.ts, admin/admin.module.ts).                         *)
(*                                                                         *)
(* A run is one call of pipeline.run: the one that the ingestion starts    *)
(* for a stored message, identified by it, or one that an operator's       *)
(* replay request starts. A run never waits for another one.               *)
(***************************************************************************)
EXTENDS ConversationState

CONSTANTS
    Replays,        \* operator requests on the dead letter queue
    Decisions,      \* what the model may answer to the decider
    Nothing

Runs == Events \union Replays

\* REPLY stands for REPLY_WITH_KB and SUGGEST_PRODUCT too: the executor only
\* looks things up for them.
DECIDER_ACTIONS == {"REPLY", "NONE", "ESCALATE", "PLACE_ORDER",
                    "REQUEST_PAYMENT", "SUGGEST_APPOINTMENT"}

ASSUME PipelineAssumption ==
    /\ Replays \intersect Events = {}
    /\ Free \notin Runs
    /\ Nothing \notin Events
    /\ Decisions \subseteq DECIDER_ACTIONS \union {"something else"}

VARIABLES
    rpc,
    rmsg,           \* the message a run answers
    ract,           \* the decider's choice
    rkind,          \* how the run is going to be recorded
    rseen           \* lifecycle status the mutator read

pipeline == <<rpc, rmsg, ract, rkind, rseen>>

InitPipeline ==
    /\ rpc = [x \in Runs |-> "off"]
    /\ rmsg = [x \in Runs |-> Nothing]
    /\ ract = [x \in Runs |-> "none"]
    /\ rkind = [x \in Runs |-> "none"]
    /\ rseen = [x \in Runs |-> "none"]

-----------------------------------------------------------------------------
Home(x) == HomeOf(rmsg[x])

To(x, l) == rpc' = [rpc EXCEPT ![x] = l]

\* pipeline.run returns: a replay goes on to settle its task.
Returned(x, l) == To(x, IF x \in Replays THEN "settle" ELSE l)

\* pipeline.run throws, which it does before its try block only.
Escapes(x) == To(x, IF x \in Replays THEN "replayFailed" ELSE "dlq")

\* In the failure path of the run?
Failing(x) == rkind[x] \in {"fallback", "failed"}

\* An error while the outcome is recorded: the main path goes on to the
\* failure path, which swallows it.
PersistFailed(x) ==
    IF Failing(x) THEN Returned(x, "done") ELSE To(x, "fallback")

\* The ingestion calls pipeline.run for a message.
Start(x, e) ==
    /\ rpc' = [rpc EXCEPT ![x] = "gate"]
    /\ rmsg' = [rmsg EXCEPT ![x] = e]
    /\ ract' = [ract EXCEPT ![x] = "none"]
    /\ rkind' = [rkind EXCEPT ![x] = "none"]
    /\ UNCHANGED rseen

\* The gate before the run: a conversation in HUMAN mode is not answered.
Gate(x) ==
    /\ rpc[x] = "gate"
    /\ IF conv[Home(x)].mode = "HUMAN" THEN Returned(x, "human")
       ELSE To(x, "preflight")
    /\ UNCHANGED <<shared, rmsg, ract, rkind, rseen>>

\* assertOutboundReady: Twilio accepts the credentials or does not.
Preflight(x) ==
    /\ rpc[x] = "preflight"
    /\ \E l \in {"think", "notReady"} : To(x, l)
    /\ UNCHANGED <<shared, rmsg, ract, rkind, rseen>>

\* An AgentRun row for a message that has none; the unique index refuses a
\* second one.
CanInsertRun(e) == runLock[e] = Free /\ agentRun[e] = "none"
RunExists(e) == runLock[e] = Free /\ agentRun[e] # "none"

RecordNotReady(x) ==
    /\ rpc[x] = "notReady"
    /\ CanInsertRun(rmsg[x])
    /\ agentRun' = [agentRun EXCEPT ![rmsg[x]] = "notReady"]
    /\ Returned(x, "done")
    /\ UNCHANGED <<contacts, threads, conv, messages, effects, task, webhook,
                   locks, budgets, rmsg, ract, rkind, rseen>>

NotReadyDuplicate(x) ==
    /\ rpc[x] = "notReady"
    /\ RunExists(rmsg[x])
    /\ Escapes(x)
    /\ UNCHANGED <<shared, rmsg, ract, rkind, rseen>>

\* DeciderService.validate: an object that names no action is NONE.
Validate(raw) == IF raw \in DECIDER_ACTIONS THEN raw ELSE "NONE"

\* ExecutorService.run: the call that an action leads to first.
Execute(d) ==
    CASE d = "PLACE_ORDER" -> "order"
      [] d = "REQUEST_PAYMENT" -> "pay"
      [] d = "SUGGEST_APPOINTMENT" -> "book"
      [] d = "ESCALATE" -> "lifeRead"
      [] OTHER -> "respond"

\* Analyzer, retriever and decider. One of them throws, if only because the
\* model's answer is no object, or the executor's reads do.
Think(x) ==
    /\ rpc[x] = "think"
    /\ \/ \E raw \in Decisions :
            /\ ract' = [ract EXCEPT ![x] = Validate(raw)]
            /\ To(x, Execute(Validate(raw)))
       \/ To(x, "fallback") /\ UNCHANGED ract
    /\ UNCHANGED <<shared, rmsg, rkind, rseen>>

Effect(x) == effects' = [effects EXCEPT ![rmsg[x]] = @ + 1]

\* The transaction of tryPlaceOrder, or nothing to order.
PlaceOrder(x) ==
    /\ rpc[x] = "order"
    /\ \/ Effect(x) /\ To(x, "lifeRead")
       \/ To(x, "respond") /\ UNCHANGED effects
    /\ UNCHANGED <<contacts, threads, conv, messages, agentRun, task, webhook,
                   locks, budgets, rmsg, ract, rkind, rseen>>

\* tryRequestPayment: payments.initiate for an order of the contact (Payments),
\* if there is one, a method is enabled and the company has an owner. The
\* executor reports an error of it, which may come after the payment is stored.
RequestPayment(x) ==
    /\ rpc[x] = "pay"
    /\ Effect(x) \/ UNCHANGED effects
    /\ To(x, "respond")
    /\ UNCHANGED <<contacts, threads, conv, messages, agentRun, task, webhook,
                   locks, budgets, rmsg, ract, rkind, rseen>>

\* The transaction of tryBookAppointment: the appointment and the lifecycle
\* status, or no slot is left.
Book(x) ==
    /\ rpc[x] = "book"
    /\ \/ /\ convLock[Home(x)] = Free
          /\ Effect(x)
          /\ conv' = [conv EXCEPT ![Home(x)].lifecycle = "APPOINTMENT_PENDING"]
       \/ UNCHANGED <<effects, conv>>
    /\ To(x, "respond")
    /\ UNCHANGED <<contacts, threads, messages, agentRun, task, webhook, locks,
                   budgets, rmsg, ract, rkind, rseen>>

\* lifecycle.transition, called by the executor.
NextLifecycle(x) ==
    IF ract[x] = "PLACE_ORDER" THEN "ORDER_PLACED" ELSE "NEEDS_ATTENTION"
AfterLifecycle(x) == To(x, IF ract[x] = "PLACE_ORDER" THEN "respond" ELSE "notify")

LifecycleRead(x) ==
    LET now == conv[Home(x)].lifecycle IN
    /\ rpc[x] = "lifeRead"
    /\ IF canTransitionLifecycle(now, NextLifecycle(x))
       THEN rseen' = [rseen EXCEPT ![x] = now] /\ To(x, "lifeSwap")
       ELSE AfterLifecycle(x) /\ UNCHANGED rseen
    /\ UNCHANGED <<shared, rmsg, ract, rkind>>

LifecycleSwap(x) ==
    LET c == Home(x) IN
    /\ rpc[x] = "lifeSwap"
    /\ convLock[c] = Free
    /\ conv' = [conv EXCEPT ![c].lifecycle =
                   IF @ = rseen[x] THEN NextLifecycle(x) ELSE @]
    /\ rseen' = [rseen EXCEPT ![x] = "none"]
    /\ AfterLifecycle(x)
    /\ UNCHANGED <<contacts, threads, messages, agentRun, effects, task, webhook,
                   locks, budgets, rmsg, ract, rkind>>

\* The notification of an escalation; its errors are swallowed (safeNotify).
Notify(x) ==
    /\ rpc[x] = "notify"
    /\ Effect(x) \/ UNCHANGED effects
    /\ To(x, "respond")
    /\ UNCHANGED <<contacts, threads, conv, messages, agentRun, task, webhook,
                   locks, budgets, rmsg, ract, rkind, rseen>>

\* ResponderService.interpret: a text that is too short stands for silence if
\* the action is NONE, and for a configured message, never empty, otherwise.
Interpretations(x) == IF ract[x] = "NONE" THEN {"reply", "silent"} ELSE {"reply"}

\* The responder answers or throws.
Respond(x) ==
    /\ rpc[x] = "respond"
    /\ \/ /\ \E k \in Interpretations(x) : rkind' = [rkind EXCEPT ![x] = k]
          /\ To(x, "insert")
       \/ To(x, "fallback") /\ UNCHANGED rkind
    /\ UNCHANGED <<shared, rmsg, ract, rseen>>

\* persistFailedRunAndFallback: is there a fallback text for the company?
Fallback(x) ==
    /\ rpc[x] = "fallback"
    /\ \E k \in {"fallback", "failed"} : rkind' = [rkind EXCEPT ![x] = k]
    /\ To(x, "insert")
    /\ UNCHANGED <<shared, rmsg, ract, rseen>>

-----------------------------------------------------------------------------
(* The transaction of persistRunAndOutbound, and the same one of the       *)
(* failure path: insert the run, assert AGENT mode, create the message.    *)

\* Bug: the run is looked up instead of relying on the unique index.
BugInsertRun(x) ==
    /\ rpc[x] = "insert"
    /\ agentRun[rmsg[x]] = "none"
    /\ rkind[x] \in {"reply", "fallback"}
    /\ runLock' = [runLock EXCEPT ![rmsg[x]] = x]
    /\ To(x, "assert")
    /\ UNCHANGED <<tables, convLock, budgets, rmsg, ract, rkind, rseen>>

InsertRun(x) ==
    /\ rpc[x] = "insert"
    /\ CanInsertRun(rmsg[x])
    /\ rkind[x] \in {"reply", "fallback"}
    /\ runLock' = [runLock EXCEPT ![rmsg[x]] = x]
    /\ To(x, "assert")
    /\ UNCHANGED <<tables, convLock, budgets, rmsg, ract, rkind, rseen>>

\* Without a text the transaction is the insert alone.
InsertAlone(x) ==
    /\ rpc[x] = "insert"
    /\ CanInsertRun(rmsg[x])
    /\ agentRun' = [agentRun EXCEPT ![rmsg[x]] = rkind[x]]
    /\ Returned(x, "done")
    /\ UNCHANGED <<contacts, threads, conv, messages, effects, task, webhook,
                   locks, budgets, rmsg, ract, rkind, rseen>>

InsertSilentRun(x) == rkind[x] = "silent" /\ InsertAlone(x)

\* The failure path found no fallback text.
InsertFailedRun(x) == rkind[x] = "failed" /\ InsertAlone(x)

\* P2002: somebody has recorded a run of the message.
InsertDuplicate(x) ==
    /\ rpc[x] = "insert"
    /\ RunExists(rmsg[x])
    /\ PersistFailed(x)
    /\ UNCHANGED <<shared, rmsg, ract, rkind, rseen>>

\* Bug: the mode is read, not asserted by an update that locks the row.
BugAssertAgentMode(x) ==
    /\ rpc[x] = "assert"
    /\ conv[Home(x)].mode = "AGENT"
    /\ To(x, "commit")
    /\ UNCHANGED <<shared, rmsg, ract, rkind, rseen>>

AssertAgentMode(x) ==
    LET c == Home(x) IN
    /\ rpc[x] = "assert"
    /\ convLock[c] = Free
    /\ conv[c].mode = "AGENT"
    /\ convLock' = [convLock EXCEPT ![c] = x]
    /\ To(x, "commit")
    /\ UNCHANGED <<tables, runLock, budgets, rmsg, ract, rkind, rseen>>

Unlock(x) ==
    /\ convLock' = [c \in Events |-> IF convLock[c] = x THEN Free ELSE convLock[c]]
    /\ runLock' = [e \in Events |-> IF runLock[e] = x THEN Free ELSE runLock[e]]

\* Bug: the skipped run is recorded while the transaction is still open.
BugTakeoverRace(x) ==
    LET c == Home(x) IN
    /\ rpc[x] = "assert"
    /\ convLock[c] = Free
    /\ conv[c].mode = "HUMAN"
    /\ To(x, "skipRow")
    /\ UNCHANGED <<tables, locks, budgets, rmsg, ract, rkind, rseen>>

\* Bug: nothing is recorded after a takeover.
BugForgetsSkipped(x) ==
    LET c == Home(x) IN
    /\ rpc[x] = "assert"
    /\ convLock[c] = Free
    /\ conv[c].mode = "HUMAN"
    /\ Unlock(x)
    /\ Returned(x, "done")
    /\ UNCHANGED <<tables, budgets, rmsg, ract, rkind, rseen>>

\* TakeoverRaceError rolls the transaction back.
TakeoverRace(x) ==
    LET c == Home(x) IN
    /\ rpc[x] = "assert"
    /\ convLock[c] = Free
    /\ conv[c].mode = "HUMAN"
    /\ Unlock(x)
    /\ To(x, "skipRow")
    /\ UNCHANGED <<tables, budgets, rmsg, ract, rkind, rseen>>

\* The run and the agent's message appear.
CommitRun(x) ==
    /\ rpc[x] = "commit"
    /\ agentRun' = [agentRun EXCEPT ![rmsg[x]] = rkind[x]]
    /\ Post(Home(x), Answer(rkind[x], rmsg[x]))
    /\ Unlock(x)
    /\ To(x, "deliver")
    /\ UNCHANGED <<contacts, threads, conv, effects, task, webhook, budgets,
                   rmsg, ract, rkind, rseen>>

\* The message is read again, sent to the customer and announced; a send that
\* fails is only logged (sendOutbound).
Deliver(x) ==
    /\ rpc[x] = "deliver"
    /\ ~Failing(x)
    /\ Returned(x, "done")
    /\ UNCHANGED <<shared, rmsg, ract, rkind, rseen>>

\* Then the operators are told of the failure, if they can be.
DeliverFallback(x) ==
    /\ rpc[x] = "deliver"
    /\ Failing(x)
    /\ Returned(x, "done")
    /\ UNCHANGED <<shared, rmsg, ract, rkind, rseen>>

\* The skipped run that is recorded after a takeover.
InsertSkipped(x) ==
    /\ rpc[x] = "skipRow"
    /\ CanInsertRun(rmsg[x])
    /\ agentRun' = [agentRun EXCEPT ![rmsg[x]] = "skipped"]
    /\ Returned(x, "done")
    /\ UNCHANGED <<contacts, threads, conv, messages, effects, task, webhook,
                   locks, budgets, rmsg, ract, rkind, rseen>>

RecordSkipped(x) == ~Failing(x) /\ InsertSkipped(x)
RecordSkippedFallback(x) == Failing(x) /\ InsertSkipped(x)

SkippedDuplicate(x) ==
    /\ rpc[x] = "skipRow"
    /\ RunExists(rmsg[x])
    /\ PersistFailed(x)
    /\ UNCHANGED <<shared, rmsg, ract, rkind, rseen>>

-----------------------------------------------------------------------------
(* Failures of the run's own database calls.                               *)

Throw == throws < MaxThrows /\ throws' = throws + 1 /\ UNCHANGED crashes

\* Before the try block, an error leaves pipeline.run.
ThrowsEarly(x) ==
    /\ rpc[x] \in {"gate", "notReady"}
    /\ Throw
    /\ Escapes(x)
    /\ UNCHANGED <<tables, locks, rmsg, ract, rkind, rseen>>

\* In the executor, where the mutator's last call reads the row it announces:
\* an order that was placed is reported as failed, an escalation sends the run
\* into its failure path.
ThrowsInExecutor(x) ==
    /\ rpc[x] \in {"lifeRead", "lifeSwap", "notify"}
    /\ Throw
    /\ rseen' = [rseen EXCEPT ![x] = "none"]
    /\ To(x, IF ract[x] = "PLACE_ORDER" THEN "respond" ELSE "fallback")
    /\ UNCHANGED <<tables, locks, rmsg, ract, rkind>>

\* While the outcome is recorded, where the transaction is rolled back, or
\* right after it, where the outcome stands.
ThrowsLate(x) ==
    /\ rpc[x] \in {"insert", "assert", "commit", "skipRow", "deliver"}
    /\ Throw
    /\ Unlock(x)
    /\ PersistFailed(x)
    /\ UNCHANGED <<tables, rmsg, ract, rkind, rseen>>

-----------------------------------------------------------------------------
(* The dead letter queue.                                                  *)

\* Bug: the failure is only logged.
BugRecordFailure(x) ==
    /\ rpc[x] = "dlq"
    /\ To(x, "done")
    /\ UNCHANGED <<shared, rmsg, ract, rkind, rseen>>

\* failedTasks.record, called by the ingestion's catch handler.
RecordFailure(x) ==
    /\ rpc[x] = "dlq"
    /\ task' = [task EXCEPT ![rmsg[x]] = "PENDING_REPLAY"]
    /\ To(x, "done")
    /\ UNCHANGED <<contacts, threads, conv, messages, agentRun, effects, webhook,
                   locks, budgets, rmsg, ract, rkind, rseen>>

\* The record fails too: a log line is all that is left of the run.
RecordFailureThrows(x) ==
    /\ rpc[x] = "dlq"
    /\ Throw
    /\ To(x, "done")
    /\ UNCHANGED <<tables, locks, rmsg, ract, rkind, rseen>>

\* replay reads the task and calls its handler, which is pipeline.run.
Replay(y, e) ==
    /\ rpc[y] = "off"
    /\ task[e] = "PENDING_REPLAY"
    /\ Start(y, e)
    /\ UNCHANGED shared

\* The handler returned: the row is REPLAYED, whatever it is by now.
Settle(y) ==
    /\ rpc[y] = "settle"
    /\ task' = [task EXCEPT ![rmsg[y]] = "REPLAYED"]
    /\ To(y, "done")
    /\ UNCHANGED <<contacts, threads, conv, messages, agentRun, effects, webhook,
                   locks, budgets, rmsg, ract, rkind, rseen>>

SettleThrows(y) ==
    /\ rpc[y] = "settle"
    /\ Throw
    /\ To(y, "replayFailed")
    /\ UNCHANGED <<tables, locks, rmsg, ract, rkind, rseen>>

\* The handler threw: the attempt is counted and the task stays pending.
ReplayFailed(y) ==
    /\ rpc[y] = "replayFailed"
    /\ To(y, "done")
    /\ UNCHANGED <<shared, rmsg, ract, rkind, rseen>>

\* abandon reads the task, then writes it unconditionally.
AbandonRead(y, e) ==
    /\ rpc[y] = "off"
    /\ task[e] = "PENDING_REPLAY"
    /\ rpc' = [rpc EXCEPT ![y] = "abandon"]
    /\ rmsg' = [rmsg EXCEPT ![y] = e]
    /\ UNCHANGED <<shared, ract, rkind, rseen>>

AbandonWrite(y) ==
    /\ rpc[y] = "abandon"
    /\ task' = [task EXCEPT ![rmsg[y]] = "ABANDONED"]
    /\ To(y, "done")
    /\ UNCHANGED <<contacts, threads, conv, messages, agentRun, effects, webhook,
                   locks, budgets, rmsg, ract, rkind, rseen>>

-----------------------------------------------------------------------------
RunStep(x) ==
    \/ Gate(x) \/ Preflight(x) \/ RecordNotReady(x) \/ NotReadyDuplicate(x)
    \/ Think(x) \/ PlaceOrder(x) \/ RequestPayment(x) \/ Book(x)
    \/ LifecycleRead(x) \/ LifecycleSwap(x) \/ Notify(x)
    \/ Respond(x) \/ Fallback(x)
    \/ InsertRun(x) \/ InsertSilentRun(x) \/ InsertFailedRun(x) \/ InsertDuplicate(x)
    \/ AssertAgentMode(x) \/ TakeoverRace(x) \/ CommitRun(x)
    \/ Deliver(x) \/ DeliverFallback(x)
    \/ RecordSkipped(x) \/ RecordSkippedFallback(x) \/ SkippedDuplicate(x)
    \/ RecordFailure(x)

RunThrows(x) ==
    ThrowsEarly(x) \/ ThrowsInExecutor(x) \/ ThrowsLate(x) \/ RecordFailureThrows(x)

ReplayStep(y) ==
    \/ \E e \in Events : Replay(y, e) \/ AbandonRead(y, e)
    \/ Settle(y) \/ SettleThrows(y) \/ ReplayFailed(y) \/ AbandonWrite(y)

\* The process dies: no run is resumed.
KillRuns ==
    /\ rpc' = [x \in Runs |-> IF rpc[x] \in {"off", "human"} THEN rpc[x] ELSE "done"]
    /\ rseen' = [x \in Runs |-> "none"]
    /\ UNCHANGED <<rmsg, ract, rkind>>
=============================================================================
