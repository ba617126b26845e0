--------------------------- MODULE InboundMessages ---------------------------
(***************************************************************************)
(* The ingestion of the customer's messages                                *)
(* (webhooks/webhooks.service.ts, ingestWhatsAppInbound). Twilio is        *)
(* acknowledged before the work starts and may deliver an event any number *)
(* of times; each delivery is handled by a worker of its own, and the      *)
(* workers interleave at every database call.                              *)
(***************************************************************************)
EXTENDS AgentPipeline

CONSTANT Workers

ASSUME InboundAssumption == Workers \intersect Runs = {}

VARIABLES
    wpc,
    wev,            \* the event a worker handles
    wcontact,       \* the contact it found or created
    wconv           \* the conversation it found or created

ingest == <<wpc, wev, wcontact, wconv>>

InitIngest ==
    /\ wpc = [w \in Workers |-> "idle"]
    /\ wev = [w \in Workers |-> Nothing]
    /\ wcontact = [w \in Workers |-> Nothing]
    /\ wconv = [w \in Workers |-> Nothing]

Goes(w, l) == wpc' = [wpc EXCEPT ![w] = l]

\* The handler ends and its local variables with it.
Ends(w) ==
    /\ Goes(w, "idle")
    /\ wev' = [wev EXCEPT ![w] = Nothing]
    /\ wcontact' = [wcontact EXCEPT ![w] = Nothing]
    /\ wconv' = [wconv EXCEPT ![w] = Nothing]

\* Twilio posts the event, for the first time or again.
Delivered(w, e) ==
    /\ wpc[w] = "idle"
    /\ Goes(w, "claim")
    /\ wev' = [wev EXCEPT ![w] = e]
    /\ UNCHANGED <<shared, pipeline, wcontact, wconv>>

ClaimRow(w) ==
    /\ webhook' = [webhook EXCEPT ![wev[w]] = "RECEIVED"]
    /\ Goes(w, "contact")
    /\ UNCHANGED <<contacts, threads, conv, messages, agentRun, effects, task, locks,
                   budgets, pipeline, wev, wcontact, wconv>>

\* Bug: an event is handled unless it was processed.
BugClaimEvent(w) ==
    wpc[w] = "claim" /\ webhook[wev[w]] # "PROCESSED" /\ ClaimRow(w)

\* dedupe.claim: the unique index admits one row for an event.
ClaimEvent(w) ==
    wpc[w] = "claim" /\ webhook[wev[w]] = "absent" /\ ClaimRow(w)

ClaimSkipped(w) ==
    /\ wpc[w] = "claim"
    /\ webhook[wev[w]] # "absent"
    /\ Ends(w)
    /\ UNCHANGED <<shared, pipeline>>

\* findOrCreateContact: the phone has no unique index.
FindContact(w) ==
    /\ wpc[w] = "contact"
    /\ IF contacts = {} THEN Goes(w, "newContact") /\ UNCHANGED wcontact
       ELSE /\ \E k \in contacts : wcontact' = [wcontact EXCEPT ![w] = k]
            /\ Goes(w, "thread")
    /\ UNCHANGED <<shared, pipeline, wev, wconv>>

CreateContact(w) ==
    /\ wpc[w] = "newContact"
    /\ contacts' = contacts \union {wev[w]}
    /\ wcontact' = [wcontact EXCEPT ![w] = wev[w]]
    /\ Goes(w, "thread")
    /\ UNCHANGED <<threads, conv, messages, agentRun, effects, task, webhook, locks,
                   budgets, pipeline, wev, wconv>>

\* The conversations of the worker's contact that are not closed, as
\* positions in the order of their creation.
OpenThreads(w) ==
    {i \in DOMAIN threads : /\ conv[threads[i]].contact = wcontact[w]
                            /\ conv[threads[i]].status # "CLOSED"}

\* findOrCreateOpenConversation: the newest conversation that is not closed.
FindThread(w) ==
    /\ wpc[w] = "thread"
    /\ IF OpenThreads(w) = {} THEN Goes(w, "newThread") /\ UNCHANGED wconv
       ELSE LET i == CHOOSE j \in OpenThreads(w) : \A k \in OpenThreads(w) : k <= j
            IN wconv' = [wconv EXCEPT ![w] = threads[i]] /\ Goes(w, "store")
    /\ UNCHANGED <<shared, pipeline, wev, wcontact>>

CreateThread(w) ==
    /\ wpc[w] = "newThread"
    /\ threads' = Append(threads, wev[w])
    /\ conv' = [conv EXCEPT ![wev[w]] = NewThread(wcontact[w])]
    /\ wconv' = [wconv EXCEPT ![w] = wev[w]]
    /\ Goes(w, "store")
    /\ UNCHANGED <<contacts, messages, agentRun, effects, task, webhook, locks,
                   budgets, pipeline, wev, wcontact>>

\* The message and the conversation's lastCustomerMessageAt, in one
\* transaction, whatever has become of the conversation.
Store(w) ==
    /\ wpc[w] = "store"
    /\ convLock[wconv[w]] = Free
    /\ Post(wconv[w], Inbound(wev[w]))
    /\ conv' = [conv EXCEPT ![wconv[w]].quiet = FALSE]
    /\ Goes(w, "dispatch")
    /\ UNCHANGED <<contacts, threads, agentRun, effects, task, webhook, locks,
                   budgets, pipeline, wev, wcontact, wconv>>

\* The pipeline is started and not awaited.
Dispatch(w) ==
    /\ wpc[w] = "dispatch"
    /\ Start(wev[w], wev[w])
    /\ Goes(w, "mark")
    /\ UNCHANGED <<shared, wev, wcontact, wconv>>

Settled(w, s) ==
    /\ webhook' = [webhook EXCEPT ![wev[w]] = s]
    /\ Ends(w)
    /\ UNCHANGED <<contacts, threads, conv, messages, agentRun, effects, task, locks,
                   budgets, pipeline>>

MarkProcessed(w) == wpc[w] = "mark" /\ Settled(w, "PROCESSED")
MarkFailed(w) == wpc[w] = "fail" /\ Settled(w, "FAILED")

\* A database call of the try block fails; so may the claim and markFailed,
\* and then the controller logs it and the event stays as it is.
IngestThrows(w) ==
    /\ Throw
    /\ \/ /\ wpc[w] \notin {"idle", "claim", "fail"}
          /\ Goes(w, "fail")
          /\ UNCHANGED <<wev, wcontact, wconv>>
       \/ wpc[w] \in {"claim", "fail"} /\ Ends(w)
    /\ UNCHANGED <<tables, locks, pipeline>>

IngestStep(w) ==
    \/ ClaimEvent(w) \/ ClaimSkipped(w) \/ FindContact(w) \/ CreateContact(w)
    \/ FindThread(w) \/ CreateThread(w) \/ Store(w) \/ Dispatch(w)
    \/ MarkProcessed(w) \/ MarkFailed(w)

IngestNext(w) ==
    IngestStep(w) \/ IngestThrows(w) \/ \E e \in Events : Delivered(w, e)

KillWorkers ==
    /\ wpc' = [w \in Workers |-> "idle"]
    /\ wev' = [w \in Workers |-> Nothing]
    /\ wcontact' = [w \in Workers |-> Nothing]
    /\ wconv' = [w \in Workers |-> Nothing]
=============================================================================
