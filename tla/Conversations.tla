---------------------------- MODULE Conversations ----------------------------
(***************************************************************************)
(* The life of a customer's WhatsApp conversations: the ingestion of       *)
(* messages, the agent pipeline and its dead letter queue, the users who   *)
(* take over, and the inactivity job, over one database. Every step is one *)
(* database transaction or one call outside of the program; a process      *)
(* crash ends everything in flight and rolls open transactions back.       *)
(***************************************************************************)
EXTENDS InboundMessages, ConversationControl, InactivityClose

vars == <<shared, pipeline, ingest, requests, jobs>>

Init ==
    /\ InitState
    /\ InitPipeline
    /\ InitIngest
    /\ InitRequests
    /\ InitJobs

Run(x) == (RunStep(x) \/ RunThrows(x)) /\ UNCHANGED <<ingest, requests, jobs>>
Operator(y) == ReplayStep(y) /\ UNCHANGED <<ingest, requests, jobs>>
Ingest(w) == IngestNext(w) /\ UNCHANGED <<requests, jobs>>
Request(q) == RequestNext(q) /\ UNCHANGED <<pipeline, ingest, jobs>>
Job(j) == JobNext(j) /\ UNCHANGED <<pipeline, ingest, requests>>

\* Is an ingestion or a run at work on the conversation?
Busy(c) ==
    \/ \E w \in Workers : wpc[w] # "idle" /\ wconv[w] = c
    \/ \E x \in Runs : rpc[x] \notin {"off", "human", "done"} /\ Home(x) = c

\* The customer has written nothing for inactivityCloseHours, much longer than
\* a run, an ingestion or a cycle of the job takes.
GoQuiet(c) ==
    /\ c \in Existing
    /\ ~conv[c].quiet
    /\ ~Busy(c)
    /\ \A j \in Jobs : jpc[j] = "idle"
    /\ conv' = [conv EXCEPT ![c].quiet = TRUE]
    /\ UNCHANGED <<contacts, threads, messages, agentRun, effects, task, webhook,
                   locks, budgets, pipeline, ingest, requests, jobs>>

Crash ==
    /\ crashes < MaxCrashes
    /\ crashes' = crashes + 1
    /\ convLock' = [c \in Events |-> Free]
    /\ runLock' = [e \in Events |-> Free]
    /\ KillRuns
    /\ KillWorkers
    /\ KillRequests
    /\ KillJobs
    /\ UNCHANGED <<tables, throws>>

Next ==
    \/ \E x \in Runs : Run(x)
    \/ \E y \in Replays : Operator(y)
    \/ \E w \in Workers : Ingest(w)
    \/ \E q \in Requests : Request(q)
    \/ \E j \in Jobs : Job(j)
    \/ \E c \in Events : GoQuiet(c)
    \/ Crash

Spec == Init /\ [][Next]_vars

\* The event loop and the database serve every call that is under way; calls
\* need not be made and need not fail.
Fairness ==
    /\ \A x \in Runs : WF_vars(RunStep(x) /\ UNCHANGED <<ingest, requests, jobs>>)
    /\ \A w \in Workers : WF_vars(IngestStep(w) /\ UNCHANGED <<requests, jobs>>)

FairSpec == Spec /\ Fairness

-----------------------------------------------------------------------------
(* Type invariant.                                                         *)

RunStates == {"off", "gate", "preflight", "notReady", "think", "order", "pay",
              "book", "lifeRead", "lifeSwap", "notify", "respond", "fallback", "insert",
              "assert", "commit", "deliver", "skipRow", "dlq", "human", "done",
              "settle", "replayFailed", "abandon"}

TablesTypeOK ==
    /\ contacts \subseteq Events
    /\ threads \in Seq(Events)
    /\ conv \in [Events -> ConvRows]
    /\ messages \in [Events -> Seq(Messages)]
    /\ agentRun \in [Events -> {"none", "notReady", "reply", "silent", "fallback",
                                "failed", "skipped"}]
    /\ effects \in [Events -> Nat]
    /\ task \in [Events -> {"none", "PENDING_REPLAY", "REPLAYED", "ABANDONED"}]
    /\ webhook \in [Events -> {"absent", "RECEIVED", "PROCESSED", "FAILED"}]

LocksTypeOK ==
    /\ convLock \in [Events -> Runs \union {Free}]
    /\ runLock \in [Events -> Runs \union {Free}]
    /\ throws \in 0..MaxThrows
    /\ crashes \in 0..MaxCrashes

PipelineTypeOK ==
    /\ rpc \in [Runs -> RunStates]
    /\ rmsg \in [Runs -> Events \union {Nothing}]
    /\ ract \in [Runs -> DECIDER_ACTIONS \union {"none"}]
    /\ rkind \in [Runs -> {"none", "reply", "silent", "fallback", "failed"}]
    /\ rseen \in [Runs -> LifecycleStatuses \union {"none"}]

IngestTypeOK ==
    /\ wpc \in [Workers -> {"idle", "claim", "contact", "newContact", "thread",
                            "newThread", "store", "dispatch", "mark", "fail"}]
    /\ wev \in [Workers -> Events \union {Nothing}]
    /\ wcontact \in [Workers -> Events \union {Nothing}]
    /\ wconv \in [Workers -> Events \union {Nothing}]

ControlTypeOK ==
    /\ qpc \in [Requests -> {"idle", "takeover", "handback", "send"}]
    /\ quser \in [Requests -> Users \union {Nobody}]
    /\ qconv \in [Requests -> Events \union {Nobody}]
    /\ jpc \in [Jobs -> {"idle", "close", "goodbye"}]
    /\ jset \in [Jobs -> SUBSET Events]
    /\ jcur \in [Jobs -> Events \union {Nobody}]

\* Every table, lock and local variable holds what its column or its type in
\* the code allows.
TypeOK == TablesTypeOK /\ LocksTypeOK /\ PipelineTypeOK /\ IngestTypeOK /\ ControlTypeOK

-----------------------------------------------------------------------------
(* Safety.                                                                 *)

Answers(e) == {Answer(k, e) : k \in {"reply", "fallback"}}

\* Places of the agent's answers to a message, in any conversation.
AnswerPlaces(e) ==
    UNION {Copies(m, c) \X {c} : m \in Answers(e), c \in Events}

\* A message is answered at most once, in the conversation it was stored in,
\* exactly when its agent run says so, whatever replays, failures and crashes
\* do to the runs (persistRunAndOutbound, persistFailedRunAndFallback).
AnswerMatchesRun ==
    \A e \in Events :
      /\ Cardinality(AnswerPlaces(e)) <= 1
      /\ \A k \in {"reply", "fallback"} :
           agentRun[e] = k <=> (Stored(e) /\ Copies(Answer(k, e), HomeOf(e)) # {})

\* A message Twilio delivers any number of times is stored at most once, and
\* an event marked processed has been stored and its run started
\* (ingestWhatsAppInbound with dedupe.claim).
IngestedOnce ==
    \A e \in Events :
      /\ Cardinality(UNION {Copies(Inbound(e), c) \X {c} : c \in Events}) <= 1
      /\ webhook[e] = "PROCESSED" => Stored(e) /\ rpc[e] # "off"

\* A run that left pipeline.run with an error is kept in the dead letter queue
\* when that error is the only failure (the catch handler of the ingestion).
EscapedRunsAreKept ==
    \A e \in Events :
      (rpc[e] = "done" /\ agentRun[e] = "none" /\ rkind[e] = "none"
         /\ throws <= 1 /\ crashes = 0)
      => task[e] # "none"

\* Without failures, a run of the pipeline that got past the gate leaves an
\* AgentRun row, also when a takeover stops its answer (persistRunAndOutbound).
FinishedRunsAreRecorded ==
    \A x \in Runs :
      (rpc[x] \in {"done", "settle"} /\ ract[x] # "none" /\ throws = 0 /\ crashes = 0)
      => agentRun[rmsg[x]] # "none"

\* The goodbye is said at most once in a conversation and only in one that is
\* closed, also when two instances run their cycles together (closeOne).
OneGoodbye ==
    \A c \in Events :
      /\ Cardinality(Copies(Goodbye, c)) <= 1
      /\ Copies(Goodbye, c) # {} => conv[c].status = "CLOSED"

-----------------------------------------------------------------------------
(* Action properties.                                                      *)

Appended(c, m) == messages'[c] # messages[c] /\ messages'[c] = Append(messages[c], m)

\* The human wins: the agent's text appears only in a conversation that is in
\* AGENT mode at that very moment (assertion inside persistRunAndOutbound).
AgentYields ==
    [][\A c, e \in Events : \A m \in Answers(e) :
         Appended(c, m) => conv[c].mode = "AGENT"]_vars

\* No takeover takes a conversation from another user; the owner of a
\* conversation changes only through AGENT mode (the swap of takeover).
TakeoverNeverSteals ==
    [][\A c \in Events :
         (conv[c].owner # Nobody /\ conv'[c].owner # conv[c].owner)
         => conv'[c].mode = "AGENT"]_vars

\* Only a conversation the agent controls and the customer left is closed,
\* whatever happened since the scan (autoCloseIfInactive).
ClosesIdleAgentThreads ==
    [][\A c \in Events :
         (conv[c].status = "OPEN" /\ conv'[c].status = "CLOSED")
         => conv[c].mode = "AGENT" /\ conv[c].quiet]_vars

-----------------------------------------------------------------------------
(* Liveness.                                                               *)

\* Without failures, a stored message is dealt with: its run is recorded, or a
\* human is in control when it starts (pipeline.run).
MessageAnswered ==
    \A e \in Events :
      Stored(e) ~> (agentRun[e] # "none" \/ rpc[e] = "human")

-----------------------------------------------------------------------------
(* What comments of the code say and the code does not do.                 *)

\* A second run for a message skips silently: what the executor does for a
\* message is done once (schema.prisma, AgentRun.messageId).
EffectsOnce == \A e \in Events : effects[e] <= 1
=============================================================================
