------------------------- MODULE ConversationsProofs -------------------------
(***************************************************************************)
(* Proofs about Conversations, for any number of messages, workers, users, *)
(* requests, replays and jobs, and any number of failing calls and         *)
(* crashes.                                                                *)
(***************************************************************************)
EXTENDS Conversations, FiniteSetTheorems, WellFoundedInduction, TLAPS

-----------------------------------------------------------------------------
(* The inductive invariant, by the part of the state it relates.           *)

\* Program points of a run: before the decider has chosen, inside the
\* transaction of its outcome, and from that transaction on.
Undecided == {"off", "gate", "preflight", "notReady", "think", "human", "dlq",
              "abandon"}
InTx == {"assert", "commit"}
Recording == InTx \union {"insert", "skipRow", "deliver"}

\* What a run holds at a program point: it knows its message from the start
\* (the one that the ingestion starts is named after it), the action from the
\* decider on and the kind of its outcome from the responder on.
RunLocal(x, l, m, a, k) ==
    /\ l # "off" => m \in Events
    /\ x \in Events => m \in {x, Nothing}
    /\ l \in Undecided => a = "none"
    /\ l \in Recording => k # "none"
    /\ l \in InTx \union {"skipRow"} => k \in {"reply", "fallback"}

RunLocals == \A x \in Runs : RunLocal(x, rpc[x], rmsg[x], ract[x], rkind[x])

\* Program points of an ingestion: before its conversation is known, before
\* its message is stored, and all of those at which it owns the event.
Searching == {"contact", "newContact", "thread", "newThread"}
Unstored == Searching \union {"store"}
Handling == Unstored \union {"dispatch", "mark", "fail"}

WorkerLocals ==
    \A w \in Workers :
        /\ wpc[w] # "idle" => wev[w] \in Events
        /\ wpc[w] \in {"thread", "newThread"} => wcontact[w] \in Events
        /\ wpc[w] = "store" => wconv[w] \in Existing

RequestLocals ==
    /\ \A q \in Requests :
         qpc[q] # "idle" => quser[q] \in Users /\ qconv[q] \in Existing
    /\ \A j \in Jobs : jpc[j] = "goodbye" => jcur[j] \in Events

\* A conversation that was not created is empty, and all that is listed was.
ThreadsInv ==
    /\ \A c \in Events : conv[c].status = "none" => messages[c] = <<>>
    /\ \A i \in DOMAIN threads : threads[i] \in Existing

Typed == TypeOK /\ RunLocals /\ WorkerLocals /\ RequestLocals /\ ThreadsInv

\* One worker at most handles an event, which is stored and dispatched in that
\* order; nothing exists of an event that was not claimed.
WorkerClaim(w) ==
    /\ wpc[w] \in Handling => webhook[wev[w]] = "RECEIVED"
    /\ wpc[w] \in Searching => conv[wev[w]].status = "none"
    /\ wpc[w] \in Unstored => ~Stored(wev[w])
    /\ wpc[w] = "dispatch" => Stored(wev[w]) /\ rpc[wev[w]] = "off"
    /\ wpc[w] = "mark" => Stored(wev[w]) /\ rpc[wev[w]] # "off"

EventClaim(e) ==
    /\ webhook[e] = "absent" => ~Stored(e) /\ conv[e].status = "none"
    /\ webhook[e] = "PROCESSED" => Stored(e) /\ rpc[e] # "off"

ClaimInv ==
    /\ \A w \in Workers : WorkerClaim(w)
    /\ \A v, w \in Workers :
         wpc[v] \in Handling /\ wpc[w] \in Handling /\ wev[v] = wev[w] => v = w
    /\ \A e \in Events : EventClaim(e)

\* A message is in one place, and only messages that are stored have runs and
\* dead letters.
StoredInv ==
    /\ \A e, c, d \in Events :
         \A i \in Copies(Inbound(e), c), j \in Copies(Inbound(e), d) : c = d /\ i = j
    /\ \A x \in Runs : rpc[x] # "off" => Stored(rmsg[x])
    /\ \A e \in Events : task[e] # "none" => Stored(e)

\* A run inside its transaction has the key of its message, and from the
\* assertion on the row of the conversation, which is in AGENT mode; nobody
\* else has a lock.
LocksInv ==
    /\ \A x \in Runs :
         /\ rpc[x] \in InTx => runLock[rmsg[x]] = x /\ agentRun[rmsg[x]] = "none"
         /\ rpc[x] = "commit" => /\ convLock[Home(x)] = x
                                 /\ conv[Home(x)].mode = "AGENT"
    /\ \A e \in Events : runLock[e] # Free =>
         rpc[runLock[e]] \in InTx /\ rmsg[runLock[e]] = e
    /\ \A c \in Events : convLock[c] # Free =>
         rpc[convLock[c]] = "commit" /\ Home(convLock[c]) = c

AnswerInv ==
    \A e \in Events, k \in {"reply", "fallback"} :
        /\ \A c \in Events : Copies(Answer(k, e), c) # {} =>
             agentRun[e] = k /\ Stored(e) /\ c = HomeOf(e)
        /\ \A c \in Events : \A i, j \in Copies(Answer(k, e), c) : i = j
        /\ agentRun[e] = k => Stored(e) /\ Copies(Answer(k, e), HomeOf(e)) # {}

\* A job that is going to say goodbye is the only one that closed the
\* conversation, in which nobody has said it.
GoodbyeInv ==
    /\ \A c \in Events :
         /\ Copies(Goodbye, c) # {} => conv[c].status = "CLOSED"
         /\ \A i, j \in Copies(Goodbye, c) : i = j
    /\ \A j \in Jobs : jpc[j] = "goodbye" =>
         /\ conv[jcur[j]].status = "CLOSED"
         /\ Copies(Goodbye, jcur[j]) = {}
         /\ \A k \in Jobs : jpc[k] = "goodbye" /\ jcur[k] = jcur[j] => k = j

ModeInv == \A c \in Events : conv[c].mode = "AGENT" => conv[c].owner = Nobody

\* How a run ends without a trace, and why.
RecordInv ==
    /\ \A x \in Runs :
         rpc[x] \in {"done", "settle", "replayFailed", "deliver"} /\ ract[x] # "none"
           /\ throws = 0 /\ crashes = 0
         => agentRun[rmsg[x]] # "none"
    /\ \A e \in Events :
         rpc[e] = "dlq" => throws >= 1 \/ agentRun[e] # "none"

IInv == /\ Typed /\ ClaimInv /\ StoredInv /\ LocksInv /\ AnswerInv
        /\ GoodbyeInv /\ ModeInv /\ RecordInv /\ EscapedRunsAreKept

-----------------------------------------------------------------------------
(* Facts about the logs of the conversations.                              *)

Kinds == {"reply", "fallback"}

\* The senders of a message are told apart.
LEMMA MessageNames ==
  /\ \A e \in Events : Inbound(e) \in Messages
  /\ \A e \in Events, k \in Kinds : Answer(k, e) \in Messages
  /\ \A u \in Users : Human(u) \in Messages
  /\ Goodbye \in Messages
  /\ \A e, f : Inbound(e) = Inbound(f) => e = f
  /\ \A e, f : \A k, l \in Kinds : Answer(k, e) = Answer(l, f) => k = l /\ e = f
  /\ \A e, u : Inbound(e) # Human(u) /\ Inbound(e) # Goodbye /\ Goodbye # Human(u)
  /\ \A e, f, u : \A k \in Kinds : /\ Inbound(e) # Answer(k, f)
                                   /\ Human(u) # Answer(k, f) /\ Goodbye # Answer(k, f)
<1>1. /\ \A e : Inbound(e).kind = "inbound" /\ Inbound(e).by = e
      /\ \A f, k : Answer(k, f).kind = k /\ Answer(k, f).by = f
      /\ \A u : Human(u).kind = "human"
      /\ Goodbye.kind = "goodbye"
  BY DEF Inbound, Answer, Human, Goodbye
<1>2. \A e, f : Inbound(e) = Inbound(f) => e = f
  BY <1>1
<1>3. \A e, f : \A k, l \in Kinds : Answer(k, e) = Answer(l, f) => k = l /\ e = f
  BY <1>1
<1>4. \A e, u : Inbound(e) # Human(u) /\ Inbound(e) # Goodbye /\ Goodbye # Human(u)
  BY <1>1
<1>5. \A e, f, u : \A k \in Kinds :
        Inbound(e) # Answer(k, f) /\ Human(u) # Answer(k, f) /\ Goodbye # Answer(k, f)
  BY <1>1 DEF Kinds
<1>6. QED
  BY <1>2, <1>3, <1>4, <1>5 DEF Messages, Kinds

SameLogs == \A n : \A c \in Events : Copies(n, c)' = Copies(n, c)

LEMMA SameLogsIf ==
  ASSUME UNCHANGED messages
  PROVE  SameLogs
BY DEF SameLogs, Copies

\* A post adds one copy of its message to its conversation.
LEMMA PostCopies ==
  ASSUME messages \in [Events -> Seq(Messages)],
         NEW c \in Events, NEW m \in Messages, Post(c, m)
  PROVE  /\ messages' \in [Events -> Seq(Messages)]
         /\ messages'[c] # <<>>
         /\ \A d \in Events : d # c => messages'[d] = messages[d]
         /\ Copies(m, c)' = Copies(m, c) \union {Len(messages[c]) + 1}
         /\ Len(messages[c]) + 1 \notin Copies(m, c)
         /\ \A n : \A d \in Events : n # m \/ d # c => Copies(n, d)' = Copies(n, d)
<1> DEFINE log == messages[c]
<1>1. log \in Seq(Messages) /\ messages' = [messages EXCEPT ![c] = Append(log, m)]
  BY DEF Post
<1>2. /\ Append(log, m) \in Seq(Messages) /\ Append(log, m) # <<>>
      /\ DOMAIN Append(log, m) = DOMAIN log \union {Len(log) + 1}
      /\ Len(log) + 1 \notin DOMAIN log
      /\ \A i \in DOMAIN log : Append(log, m)[i] = log[i]
      /\ Append(log, m)[Len(log) + 1] = m
  BY <1>1
<1>3. /\ messages' \in [Events -> Seq(Messages)] /\ messages'[c] = Append(log, m)
      /\ \A d \in Events : d # c => messages'[d] = messages[d]
  BY <1>1, <1>2
<1>4. Copies(m, c)' = Copies(m, c) \union {Len(log) + 1}
  BY <1>2, <1>3 DEF Copies
<1>5. \A n : \A d \in Events : n # m \/ d # c => Copies(n, d)' = Copies(n, d)
  BY <1>2, <1>3, SMTT(30) DEF Copies
<1>6. QED
  BY <1>2, <1>3, <1>4, <1>5 DEF Copies

\* A stored message has a home, and keeps it while none of its copies moves.
LEMMA HomeFacts ==
  ASSUME NEW e, Stored(e)
  PROVE  HomeOf(e) \in Events /\ Copies(Inbound(e), HomeOf(e)) # {}
BY DEF Stored, HomeOf

LEMMA SameHome ==
  ASSUME NEW e, \A c \in Events : Copies(Inbound(e), c)' = Copies(Inbound(e), c)
  PROVE  (Stored(e)' <=> Stored(e)) /\ HomeOf(e)' = HomeOf(e)
BY DEF Stored, HomeOf

LEMMA SameLogsSameHome ==
  ASSUME SameLogs
  PROVE  \A e : (Stored(e)' <=> Stored(e)) /\ HomeOf(e)' = HomeOf(e)
BY SameHome DEF SameLogs

\* A message that is not of the customer moves nobody's home.
LEMMA PostKeepsHome ==
  ASSUME messages \in [Events -> Seq(Messages)],
         NEW c \in Events, NEW m \in Messages, Post(c, m),
         NEW e, m # Inbound(e)
  PROVE  (Stored(e)' <=> Stored(e)) /\ HomeOf(e)' = HomeOf(e)
BY PostCopies, SameHome

\* The customer's messages and the answers to them are where they were.
SameHistory ==
    \A e \in Events :
      /\ Stored(e)' <=> Stored(e)
      /\ HomeOf(e)' = HomeOf(e)
      /\ \A c \in Events : Copies(Inbound(e), c)' = Copies(Inbound(e), c)
      /\ \A c \in Events : \A k \in Kinds : Copies(Answer(k, e), c)' = Copies(Answer(k, e), c)

LEMMA SameHistoryIf ==
  ASSUME UNCHANGED messages
  PROVE  SameHistory
BY SameLogsIf, SameLogsSameHome DEF SameLogs, SameHistory

LEMMA PostKeepsHistory ==
  ASSUME messages \in [Events -> Seq(Messages)],
         NEW c \in Events, NEW m \in Messages, Post(c, m),
         \A e \in Events : m # Inbound(e) /\ \A k \in Kinds : m # Answer(k, e)
  PROVE  SameHistory
BY PostCopies, PostKeepsHome DEF SameHistory

\* A set of positions in a sequence has a last one.
LEMMA Largest ==
  ASSUME NEW n \in Nat, NEW T \in SUBSET (1..n), T # {}
  PROVE  \E x \in T : \A y \in T : y <= x
<1> DEFINE R == {p \in Nat \X Nat : p[1] < p[2]}
           S == {n - x : x \in T}
<1>1. IsWellFoundedOn(R, Nat)
  BY NatLessThanWellFounded, Zenon DEF OpToRel
<1>2. S \subseteq Nat /\ S # {}
  <2>1. \A x \in T : n - x \in Nat
    OBVIOUS
  <2>2. QED
    BY <2>1
<1> HIDE DEF R
<1>3. PICK m \in S : \A y \in S : ~ (<<y, m>> \in R)
  BY <1>1, <1>2, WFMin
<1>4. PICK x \in T : m = n - x
  OBVIOUS
<1>5. \A y \in T : y <= x
  <2> SUFFICES ASSUME NEW y \in T
               PROVE  y <= x
    OBVIOUS
  <2>1. n - y \in S
    OBVIOUS
  <2>2. ~(n - y < m)
    BY <2>1, <1>2, <1>3 DEF R
  <2>3. QED
    BY <2>2, <1>4
<1>6. QED
  BY <1>5

-----------------------------------------------------------------------------
(* What a run holds.                                                       *)

Outcomes == {"none", "reply", "silent", "fallback", "failed"}

\* A step of x that leaves the locals of the other runs alone.
Moves(x) ==
    /\ rpc' = [rpc EXCEPT ![x] = rpc'[x]]
    /\ rmsg' = [rmsg EXCEPT ![x] = rmsg'[x]]
    /\ ract' = [ract EXCEPT ![x] = ract'[x]]
    /\ rkind' = [rkind EXCEPT ![x] = rkind'[x]]
    /\ rseen' = [rseen EXCEPT ![x] = rseen'[x]]
    /\ rpc'[x] \in RunStates \ {"off"}
    /\ rmsg'[x] \in Events \union {Nothing}
    /\ ract'[x] \in DECIDER_ACTIONS \union {"none"}
    /\ rkind'[x] \in Outcomes
    /\ rseen'[x] \in LifecycleStatuses \union {"none"}
    /\ RunLocal(x, rpc'[x], rmsg'[x], ract'[x], rkind'[x])

LEMMA MovesKeep ==
  ASSUME PipelineTypeOK, RunLocals, NEW x \in Runs, Moves(x)
  PROVE  /\ PipelineTypeOK' /\ RunLocals'
         /\ \A z \in Runs : z # x => /\ rpc'[z] = rpc[z] /\ rmsg'[z] = rmsg[z]
                                     /\ ract'[z] = ract[z] /\ rkind'[z] = rkind[z]
<1>1. PipelineTypeOK'
  BY DEF PipelineTypeOK, Moves, Outcomes
<1>2. RunLocals'
  BY DEF PipelineTypeOK, Moves, RunLocals
<1>3. QED
  BY <1>1, <1>2 DEF PipelineTypeOK, Moves

LEMMA LocalTypes ==
  ASSUME PipelineTypeOK, RunLocals, NEW x \in Runs
  PROVE  /\ RunLocal(x, rpc[x], rmsg[x], ract[x], rkind[x])
         /\ rpc \in [Runs -> RunStates] /\ rmsg \in [Runs -> Events \union {Nothing}]
         /\ ract \in [Runs -> DECIDER_ACTIONS \union {"none"}]
         /\ rkind \in [Runs -> Outcomes]
         /\ rseen \in [Runs -> LifecycleStatuses \union {"none"}]
BY DEF PipelineTypeOK, RunLocals, Outcomes

\* The mutator accepts moves between statuses only.
LEMMA LifecycleSources ==
  ASSUME NEW s, NEW t \in LifecycleStatuses, canTransitionLifecycle(s, t)
  PROVE  s \in LifecycleStatuses
BY DEF canTransitionLifecycle, LifecycleMoves, LifecycleStatuses, AnyNonTerminal,
       CommonTargets, ClosedLifecycles

LEMMA NextLifecycles ==
  \A x : NextLifecycle(x) \in LifecycleStatuses
BY DEF NextLifecycle, LifecycleStatuses, AnyNonTerminal, CommonTargets

\* The answer of the decider and where it leads.
LEMMA Decided ==
  ASSUME NEW raw
  PROVE  /\ Validate(raw) \in DECIDER_ACTIONS
         /\ Execute(Validate(raw)) \in {"order", "pay", "book", "lifeRead", "respond"}
<1>1. Validate(raw) \in DECIDER_ACTIONS
  BY DEF Validate, DECIDER_ACTIONS
<1>2. \A d : Execute(d) \in {"order", "pay", "book", "lifeRead", "respond"}
  BY Zenon DEF Execute
<1>3. QED
  BY <1>1, <1>2

\* A step that changes the program point only.
LEMMA GoesTo ==
  ASSUME PipelineTypeOK, RunLocals, NEW x \in Runs, rpc[x] # "off",
         NEW l \in RunStates \ {"off"}, To(x, l), UNCHANGED <<rmsg, ract, rkind, rseen>>,
         l \in Undecided => ract[x] = "none",
         l \in Recording => rkind[x] # "none",
         l \in InTx \union {"skipRow"} => rkind[x] \in {"reply", "fallback"}
  PROVE  Moves(x)
BY LocalTypes DEF Moves, RunLocal, To

\* A step that chooses what the run will record, and goes on to record it.
LEMMA Chooses ==
  ASSUME PipelineTypeOK, RunLocals, NEW x \in Runs, rpc[x] # "off", To(x, "insert"),
         NEW k \in Outcomes \ {"none"}, rkind' = [rkind EXCEPT ![x] = k],
         UNCHANGED <<rmsg, ract, rseen>>
  PROVE  Moves(x)
<1> DEFINE l == "insert"
<1>1. /\ l \in RunStates \ {"off"} /\ l \notin Undecided /\ l \in Recording
      /\ l \notin InTx \union {"skipRow"}
  BY DEF RunStates, Undecided, Recording, InTx
<1>2. rpc' = [rpc EXCEPT ![x] = l]
  BY Zenon DEF To
<1> HIDE DEF l
<1>3. /\ rpc'[x] = l /\ rkind'[x] = k
      /\ rpc' = [rpc EXCEPT ![x] = rpc'[x]] /\ rkind' = [rkind EXCEPT ![x] = rkind'[x]]
  BY <1>2, LocalTypes, Zenon
<1>4. /\ rmsg' = [rmsg EXCEPT ![x] = rmsg'[x]] /\ ract' = [ract EXCEPT ![x] = ract'[x]]
      /\ rseen' = [rseen EXCEPT ![x] = rseen'[x]]
  BY LocalTypes
<1>5. RunLocal(x, rpc'[x], rmsg'[x], ract'[x], rkind'[x])
  BY <1>1, <1>3, LocalTypes DEF RunLocal
<1>6. QED
  BY <1>1, <1>3, <1>4, <1>5, LocalTypes DEF Moves

LEMMA Returns ==
  \A x, l : Returned(x, l) => To(x, l) \/ To(x, "settle")
BY DEF Returned

LEMMA Persisted ==
  ASSUME NEW x, PersistFailed(x)
  PROVE  To(x, "done") \/ To(x, "settle") \/ To(x, "fallback")
BY Returns DEF PersistFailed

LEMMA RunStepMoves ==
  ASSUME PipelineTypeOK, RunLocals, NEW x \in Runs, RunStep(x)
  PROVE  Moves(x)
<1> USE LocalTypes, PipelineAssumption
    DEF Moves, RunLocal, To, Returned, Escapes, Undecided, InTx, Recording, RunStates,
        Runs, Outcomes
<1>1. CASE Gate(x)
  <2> HIDE DEF Moves, RunLocal, To, Returned
  <2>1. To(x, "human") \/ To(x, "settle") \/ To(x, "preflight")
    BY <1>1, Returns, Zenon DEF Gate
  <2>2. rpc[x] = "gate" /\ ract[x] = "none" /\ UNCHANGED <<rmsg, ract, rkind, rseen>>
    BY <1>1, Zenon DEF Gate, RunLocal
  <2>3. QED
    BY <2>1, <2>2, GoesTo, Zenon
<1>2. CASE Preflight(x)
  BY <1>2, Zenon DEF Preflight
<1>3. CASE RecordNotReady(x)
  BY <1>3, Zenon DEF RecordNotReady
<1>4. CASE NotReadyDuplicate(x)
  BY <1>4, Zenon DEF NotReadyDuplicate
<1>5. CASE Think(x)
  <2> HIDE DEF Moves, RunLocal, To, Returned
  <2>1. CASE \E raw \in Decisions : /\ ract' = [ract EXCEPT ![x] = Validate(raw)]
                                   /\ To(x, Execute(Validate(raw)))
    <3>1. PICK raw \in Decisions : /\ ract' = [ract EXCEPT ![x] = Validate(raw)]
                                  /\ To(x, Execute(Validate(raw)))
      BY <2>1, Zenon
    <3>2. /\ Validate(raw) \in DECIDER_ACTIONS
          /\ Execute(Validate(raw)) \in {"order", "pay", "book", "lifeRead", "respond"}
      BY Decided
    <3>3. rpc[x] = "think" /\ UNCHANGED <<rmsg, rkind, rseen>>
      BY <1>5, Zenon DEF Think
    <3>4. QED
      BY <3>1, <3>2, <3>3, Zenon DEF Moves, RunLocal, To
  <2>2. CASE To(x, "fallback") /\ UNCHANGED ract
    <3>1. rpc[x] = "think" /\ ract[x] = "none" /\ UNCHANGED <<rmsg, ract, rkind, rseen>>
      BY <1>5, <2>2, Zenon DEF Think, RunLocal
    <3>2. QED
      BY <2>2, <3>1, GoesTo, Zenon
  <2>3. QED
    BY <1>5, <2>1, <2>2, Zenon DEF Think
<1>6. CASE PlaceOrder(x)
  <2> HIDE DEF Moves, RunLocal, To, Returned
  <2>1. To(x, "lifeRead") \/ To(x, "respond")
    BY <1>6, Zenon DEF PlaceOrder
  <2>2. rpc[x] = "order" /\ UNCHANGED <<rmsg, ract, rkind, rseen>>
    BY <1>6, Zenon DEF PlaceOrder
  <2>3. QED
    BY <2>1, <2>2, GoesTo, Zenon
<1>7. CASE RequestPayment(x)
  BY <1>7, Zenon DEF RequestPayment
<1>8. CASE Book(x)
  BY <1>8, Zenon DEF Book
<1>9. CASE LifecycleRead(x)
  <2> HIDE DEF Moves, RunLocal, To, Returned
  <2> DEFINE now == conv[Home(x)].lifecycle
  <2>1. rpc[x] = "lifeRead" /\ UNCHANGED <<rmsg, ract, rkind>>
    BY <1>9, Zenon DEF LifecycleRead
  <2>2. CASE /\ canTransitionLifecycle(now, NextLifecycle(x))
             /\ rseen' = [rseen EXCEPT ![x] = now] /\ To(x, "lifeSwap")
    <3>1. now \in LifecycleStatuses
      BY <2>2, LifecycleSources, NextLifecycles, Zenon
    <3>2. QED
      BY <2>1, <2>2, <3>1, Zenon DEF Moves, RunLocal, To
  <2>3. CASE AfterLifecycle(x) /\ UNCHANGED rseen
    <3>1. To(x, "respond") \/ To(x, "notify")
      BY <2>3, Zenon DEF AfterLifecycle
    <3>2. QED
      BY <2>1, <2>3, <3>1, GoesTo, Zenon
  <2>4. QED
    BY <1>9, <2>2, <2>3, Zenon DEF LifecycleRead
<1>10. CASE LifecycleSwap(x)
  BY <1>10, Zenon DEF LifecycleSwap, AfterLifecycle
<1>11. CASE Notify(x)
  BY <1>11, Zenon DEF Notify
<1>12. CASE Respond(x)
  <2> HIDE DEF Moves, RunLocal, To, Returned
  <2>1. rpc[x] = "respond" /\ UNCHANGED <<rmsg, ract, rseen>>
    BY <1>12, Zenon DEF Respond
  <2>2. CASE To(x, "fallback") /\ UNCHANGED rkind
    BY <2>1, <2>2, GoesTo, Zenon
  <2>3. CASE \E k \in {"reply", "silent"} : /\ rkind' = [rkind EXCEPT ![x] = k]
                                          /\ To(x, "insert")
    <3>1. PICK k \in {"reply", "silent"} : rkind' = [rkind EXCEPT ![x] = k]
      BY <2>3, Zenon
    <3>2. k \in Outcomes \ {"none"} /\ To(x, "insert") /\ rpc[x] # "off"
      BY <2>1, <2>3, <3>1, Zenon DEF Outcomes
    <3>3. QED
      BY <2>1, <3>1, <3>2, Chooses, Zenon
  <2>4. QED
    BY <1>12, <2>2, <2>3, Zenon DEF Respond, Interpretations
<1>13. CASE Fallback(x)
  <2> HIDE DEF Moves, RunLocal, To, Returned
  <2>1. PICK k \in {"fallback", "failed"} : rkind' = [rkind EXCEPT ![x] = k]
    BY <1>13, Zenon DEF Fallback
  <2>2. k \in Outcomes \ {"none"}
    BY Zenon DEF Outcomes
  <2>3. To(x, "insert") /\ rpc[x] # "off" /\ UNCHANGED <<rmsg, ract, rseen>>
    BY <1>13, Zenon DEF Fallback
  <2>4. QED
    BY <2>1, <2>2, <2>3, Chooses, Zenon
<1>14. CASE InsertRun(x)
  BY <1>14, Zenon DEF InsertRun
<1>15. CASE InsertSilentRun(x)
  BY <1>15, Zenon DEF InsertSilentRun, InsertAlone
<1>16. CASE InsertFailedRun(x)
  BY <1>16, Zenon DEF InsertFailedRun, InsertAlone
<1>17. CASE InsertDuplicate(x)
  <2> HIDE DEF Moves, RunLocal, To, Returned
  <2>1. rpc[x] \in Recording /\ UNCHANGED <<rmsg, ract, rkind, rseen>>
    BY <1>17, Zenon DEF InsertDuplicate
  <2>2. To(x, "done") \/ To(x, "settle") \/ To(x, "fallback")
    BY <1>17, Persisted, Zenon DEF InsertDuplicate
  <2>3. QED
    BY <2>1, <2>2, GoesTo, Zenon
<1>18. CASE AssertAgentMode(x)
  BY <1>18, Zenon DEF AssertAgentMode
<1>19. CASE TakeoverRace(x)
  BY <1>19, Zenon DEF TakeoverRace
<1>20. CASE CommitRun(x)
  BY <1>20, Zenon DEF CommitRun
<1>21. CASE Deliver(x)
  BY <1>21, Zenon DEF Deliver
<1>22. CASE DeliverFallback(x)
  BY <1>22, Zenon DEF DeliverFallback
<1>23. CASE RecordSkipped(x)
  BY <1>23, Zenon DEF RecordSkipped, InsertSkipped
<1>24. CASE RecordSkippedFallback(x)
  BY <1>24, Zenon DEF RecordSkippedFallback, InsertSkipped
<1>25. CASE SkippedDuplicate(x)
  <2> HIDE DEF Moves, RunLocal, To, Returned
  <2>1. rpc[x] \in Recording /\ UNCHANGED <<rmsg, ract, rkind, rseen>>
    BY <1>25, Zenon DEF SkippedDuplicate
  <2>2. To(x, "done") \/ To(x, "settle") \/ To(x, "fallback")
    BY <1>25, Persisted, Zenon DEF SkippedDuplicate
  <2>3. QED
    BY <2>1, <2>2, GoesTo, Zenon
<1>26. CASE RecordFailure(x)
  BY <1>26, Zenon DEF RecordFailure
<1>27. QED
  BY <1>1, <1>2, <1>3, <1>4, <1>5, <1>6, <1>7, <1>8, <1>9, <1>10, <1>11,
     <1>12, <1>13, <1>14, <1>15, <1>16, <1>17, <1>18, <1>19, <1>20, <1>21,
     <1>22, <1>23, <1>24, <1>25, <1>26, Zenon DEF RunStep

LEMMA RunThrowsMoves ==
  ASSUME PipelineTypeOK, RunLocals, NEW x \in Runs, RunThrows(x)
  PROVE  Moves(x)
<1> USE LocalTypes, PipelineAssumption
    DEF Moves, RunLocal, To, Returned, Escapes, Undecided, InTx, Recording, RunStates,
        Runs, Outcomes
<1>1. CASE ThrowsEarly(x)
  BY <1>1, Zenon DEF ThrowsEarly
<1>2. CASE ThrowsInExecutor(x)
  BY <1>2, Zenon DEF ThrowsInExecutor
<1>3. CASE ThrowsLate(x)
  <2> HIDE DEF Moves, RunLocal, To, Returned
  <2>1. rpc[x] \in Recording /\ UNCHANGED <<rmsg, ract, rkind, rseen>>
    BY <1>3, Zenon DEF ThrowsLate
  <2>2. To(x, "done") \/ To(x, "settle") \/ To(x, "fallback")
    BY <1>3, Persisted, Zenon DEF ThrowsLate
  <2>3. QED
    BY <2>1, <2>2, GoesTo, Zenon
<1>4. CASE RecordFailureThrows(x)
  BY <1>4, Zenon DEF RecordFailureThrows
<1>5. QED
  BY <1>1, <1>2, <1>3, <1>4, Zenon DEF RunThrows

LEMMA StartMoves ==
  ASSUME PipelineTypeOK, RunLocals, NEW x \in Runs, NEW e \in Events, Start(x, e),
         x \in Events => e = x
  PROVE  Moves(x)
<1>1. RunLocal(x, "gate", e, "none", "none")
  BY DEF RunLocal, Undecided, InTx, Recording
<1>2. QED
  BY <1>1, LocalTypes DEF Moves, Start, RunStates, Outcomes

LEMMA ReplayStepMoves ==
  ASSUME PipelineTypeOK, RunLocals, NEW x \in Replays, ReplayStep(x)
  PROVE  Moves(x)
<1> USE LocalTypes, PipelineAssumption
    DEF Moves, RunLocal, To, Undecided, InTx, Recording, RunStates, Runs, Outcomes
<1>1. ASSUME NEW e \in Events, Replay(x, e)
      PROVE  Moves(x)
  <2>1. x \in Runs /\ x \notin Events /\ Start(x, e)
    BY <1>1, Zenon DEF Replay
  <2>2. QED
    BY <2>1, StartMoves, Zenon
<1>2. ASSUME NEW e \in Events, AbandonRead(x, e)
      PROVE  Moves(x)
  BY <1>2, Zenon DEF AbandonRead
<1>3. CASE Settle(x)
  BY <1>3, Zenon DEF Settle
<1>4. CASE SettleThrows(x)
  BY <1>4, Zenon DEF SettleThrows
<1>5. CASE ReplayFailed(x)
  BY <1>5, Zenon DEF ReplayFailed
<1>6. CASE AbandonWrite(x)
  BY <1>6, Zenon DEF AbandonWrite
<1>7. QED
  BY <1>1, <1>2, <1>3, <1>4, <1>5, <1>6, Zenon DEF ReplayStep

-----------------------------------------------------------------------------
(* What a run does to the tables.                                          *)

\* Of a conversation it changes the lifecycle only, and it writes the dead
\* letter of its own message.
RunTables(x) ==
    /\ UNCHANGED <<contacts, threads, webhook, crashes>>
    /\ conv' \in [Events -> ConvRows]
    /\ \A c \in Events : /\ conv'[c].status = conv[c].status
                         /\ conv'[c].mode = conv[c].mode
                         /\ conv'[c].owner = conv[c].owner
                         /\ conv'[c].quiet = conv[c].quiet
    /\ effects' \in [Events -> Nat]
    /\ task' \in [Events -> {"none", "PENDING_REPLAY", "REPLAYED", "ABANDONED"}]
    /\ \A e \in Events : task'[e] # task[e] =>
         e = rmsg[x] /\ rpc[x] # "off" /\ task'[e] # "none"
    /\ throws' \in 0..MaxThrows /\ throws' >= throws

\* A step that neither locks nor records, one that records an outcome without
\* an answer, and the steps of the transaction.
Aside(x) ==
    /\ UNCHANGED <<messages, agentRun, locks>>
    /\ rpc[x] \notin InTx /\ rpc'[x] \notin InTx

Records(x) ==
    /\ UNCHANGED <<messages, locks>>
    /\ rpc[x] \notin InTx \union {"off"} /\ rpc'[x] \notin InTx
    /\ CanInsertRun(rmsg[x])
    /\ \E k \in {"notReady", "silent", "failed", "skipped"} :
         agentRun' = [agentRun EXCEPT ![rmsg[x]] = k]

TxStep(x) ==
    InsertRun(x) \/ AssertAgentMode(x) \/ TakeoverRace(x) \/ CommitRun(x) \/ ThrowsLate(x)

RunKind(x) == Aside(x) \/ Records(x) \/ TxStep(x)

LEMMA TableTypes ==
  ASSUME TablesTypeOK, LocksTypeOK
  PROVE  /\ conv \in [Events -> ConvRows]
         /\ effects \in [Events -> Nat]
         /\ task \in [Events -> {"none", "PENDING_REPLAY", "REPLAYED", "ABANDONED"}]
         /\ throws \in 0..MaxThrows /\ MaxThrows \in Nat
BY StateAssumption DEF TablesTypeOK, LocksTypeOK

\* A new lifecycle status in a row, or a new number of effects.
LEMMA LifecycleWrite ==
  ASSUME TablesTypeOK, NEW c, NEW s \in LifecycleStatuses,
         conv' = [conv EXCEPT ![c].lifecycle = s]
  PROVE  /\ conv' \in [Events -> ConvRows]
         /\ \A d \in Events : /\ conv'[d].status = conv[d].status
                              /\ conv'[d].mode = conv[d].mode
                              /\ conv'[d].owner = conv[d].owner
                              /\ conv'[d].quiet = conv[d].quiet
<1>1. \A d \in Events : conv'[d] = IF d = c THEN [conv[d] EXCEPT !.lifecycle = s]
                                  ELSE conv[d]
  BY DEF TablesTypeOK
<1>2. \A d \in Events : conv[d] \in ConvRows
  BY DEF TablesTypeOK
<1>3. \A d \in Events : conv'[d] \in ConvRows
  BY <1>1, <1>2 DEF ConvRows
<1>4. conv' \in [Events -> ConvRows]
  BY <1>3 DEF TablesTypeOK
<1>5. QED
  BY <1>1, <1>2, <1>4 DEF ConvRows

LEMMA EffectWrite ==
  ASSUME TablesTypeOK, NEW x, Effect(x) \/ UNCHANGED effects
  PROVE  effects' \in [Events -> Nat]
BY DEF TablesTypeOK, Effect

LEMMA TaskWrite ==
  ASSUME TablesTypeOK, NEW e, NEW s \in {"PENDING_REPLAY", "REPLAYED", "ABANDONED"},
         task' = [task EXCEPT ![e] = s]
  PROVE  /\ task' \in [Events -> {"none", "PENDING_REPLAY", "REPLAYED", "ABANDONED"}]
         /\ \A f \in Events : task'[f] # task[f] => f = e /\ task'[f] # "none"
BY DEF TablesTypeOK

\* The rows and the counters as they were.
LEMMA RowsStay ==
  ASSUME TablesTypeOK, LocksTypeOK, UNCHANGED <<contacts, threads, webhook, budgets>>
  PROVE  /\ UNCHANGED <<contacts, threads, webhook, crashes>>
         /\ throws' \in 0..MaxThrows /\ throws' >= throws
BY TableTypes DEF budgets

\* A step that writes the dead letter of its message and nothing else.
LEMMA TaskStep ==
  ASSUME TablesTypeOK, LocksTypeOK, NEW x, rpc[x] # "off",
         NEW s \in {"PENDING_REPLAY", "REPLAYED", "ABANDONED"},
         task' = [task EXCEPT ![rmsg[x]] = s],
         UNCHANGED <<contacts, threads, webhook, budgets, effects, conv>>
  PROVE  RunTables(x)
<1>1. /\ task' \in [Events -> {"none", "PENDING_REPLAY", "REPLAYED", "ABANDONED"}]
      /\ \A f \in Events : task'[f] # task[f] => f = rmsg[x] /\ task'[f] # "none"
  BY TaskWrite
<1>2. /\ UNCHANGED <<contacts, threads, webhook, crashes>>
      /\ throws' \in 0..MaxThrows /\ throws' >= throws
  BY RowsStay
<1>3. conv' \in [Events -> ConvRows] /\ effects' \in [Events -> Nat]
  BY TableTypes
<1>4. QED
  BY <1>1, <1>2, <1>3 DEF RunTables

LEMMA RunStepTables ==
  ASSUME TypeOK, RunLocals, NEW x \in Runs, RunStep(x)
  PROVE  RunTables(x)
<1> TablesTypeOK /\ LocksTypeOK /\ PipelineTypeOK
  BY DEF TypeOK
<1> USE TableTypes, EffectWrite DEF RunTables, shared, tables, budgets
<1>1. CASE Gate(x)
  BY <1>1 DEF Gate
<1>2. CASE Preflight(x)
  BY <1>2 DEF Preflight
<1>3. CASE RecordNotReady(x)
  BY <1>3 DEF RecordNotReady
<1>4. CASE NotReadyDuplicate(x)
  BY <1>4 DEF NotReadyDuplicate
<1>5. CASE Think(x)
  BY <1>5 DEF Think
<1>6. CASE PlaceOrder(x)
  BY <1>6 DEF PlaceOrder
<1>7. CASE RequestPayment(x)
  BY <1>7 DEF RequestPayment
<1>8. CASE Book(x)
  <2>1. CASE conv' = [conv EXCEPT ![Home(x)].lifecycle = "APPOINTMENT_PENDING"]
    <3>1. "APPOINTMENT_PENDING" \in LifecycleStatuses
      BY DEF LifecycleStatuses, AnyNonTerminal
    <3>2. /\ conv' \in [Events -> ConvRows]
          /\ \A d \in Events : /\ conv'[d].status = conv[d].status
                               /\ conv'[d].mode = conv[d].mode
                               /\ conv'[d].owner = conv[d].owner
                               /\ conv'[d].quiet = conv[d].quiet
      BY <2>1, <3>1, LifecycleWrite
    <3>3. QED
      BY <1>8, <3>2 DEF Book
  <2>2. CASE UNCHANGED <<effects, conv>>
    BY <1>8, <2>2 DEF Book
  <2>3. QED
    BY <1>8, <2>1, <2>2 DEF Book
<1>9. CASE LifecycleRead(x)
  BY <1>9 DEF LifecycleRead
<1>10. CASE LifecycleSwap(x)
  <2> DEFINE c == Home(x)
             s == IF conv[c].lifecycle = rseen[x] THEN NextLifecycle(x)
                  ELSE conv[c].lifecycle
  <2>1. conv' = [conv EXCEPT ![c].lifecycle = s]
    BY <1>10 DEF LifecycleSwap
  <2>2. /\ conv' \in [Events -> ConvRows]
        /\ \A d \in Events : /\ conv'[d].status = conv[d].status
                             /\ conv'[d].mode = conv[d].mode
                             /\ conv'[d].owner = conv[d].owner
                             /\ conv'[d].quiet = conv[d].quiet
    <3>1. CASE c \in Events
      <4>1. s \in LifecycleStatuses
        BY <3>1, NextLifecycles DEF ConvRows
      <4> HIDE DEF s
      <4>2. QED
        BY <2>1, <4>1, LifecycleWrite
    <3>2. CASE c \notin Events
      <4>1. conv' = conv
        BY <2>1, <3>2
      <4>2. QED
        BY <4>1
    <3>3. QED
      BY <3>1, <3>2
  <2>3. UNCHANGED <<contacts, threads, webhook, budgets, effects, task>>
    BY <1>10 DEF LifecycleSwap
  <2>4. QED
    BY <2>2, <2>3
<1>11. CASE Notify(x)
  BY <1>11 DEF Notify
<1>12. CASE Respond(x)
  BY <1>12 DEF Respond
<1>13. CASE Fallback(x)
  BY <1>13 DEF Fallback
<1>14. CASE InsertRun(x)
  BY <1>14 DEF InsertRun
<1>15. CASE InsertSilentRun(x)
  BY <1>15 DEF InsertSilentRun, InsertAlone
<1>16. CASE InsertFailedRun(x)
  BY <1>16 DEF InsertFailedRun, InsertAlone
<1>17. CASE InsertDuplicate(x)
  BY <1>17 DEF InsertDuplicate
<1>18. CASE AssertAgentMode(x)
  BY <1>18 DEF AssertAgentMode
<1>19. CASE TakeoverRace(x)
  BY <1>19 DEF TakeoverRace
<1>20. CASE CommitRun(x)
  BY <1>20 DEF CommitRun
<1>21. CASE Deliver(x)
  BY <1>21 DEF Deliver
<1>22. CASE DeliverFallback(x)
  BY <1>22 DEF DeliverFallback
<1>23. CASE RecordSkipped(x)
  BY <1>23 DEF RecordSkipped, InsertSkipped
<1>24. CASE RecordSkippedFallback(x)
  BY <1>24 DEF RecordSkippedFallback, InsertSkipped
<1>25. CASE SkippedDuplicate(x)
  BY <1>25 DEF SkippedDuplicate
<1>26. CASE RecordFailure(x)
  <2>1. /\ rpc[x] = "dlq" /\ task' = [task EXCEPT ![rmsg[x]] = "PENDING_REPLAY"]
        /\ UNCHANGED <<contacts, threads, webhook, budgets, effects, conv>>
    BY <1>26 DEF RecordFailure
  <2>2. QED
    <3> HIDE DEF RunTables, shared, tables, budgets
    <3>1. QED
      BY <2>1, TaskStep
<1>27. QED
  BY <1>1, <1>2, <1>3, <1>4, <1>5, <1>6, <1>7, <1>8, <1>9, <1>10, <1>11,
     <1>12, <1>13, <1>14, <1>15, <1>16, <1>17, <1>18, <1>19, <1>20, <1>21,
     <1>22, <1>23, <1>24, <1>25, <1>26 DEF RunStep

LEMMA RunThrowsTables ==
  ASSUME TypeOK, NEW x \in Runs, RunThrows(x)
  PROVE  RunTables(x)
<1> TablesTypeOK /\ LocksTypeOK /\ PipelineTypeOK
  BY DEF TypeOK
<1> USE TableTypes DEF RunTables, shared, tables, Throw
<1>1. CASE ThrowsEarly(x)
  BY <1>1 DEF ThrowsEarly
<1>2. CASE ThrowsInExecutor(x)
  BY <1>2 DEF ThrowsInExecutor
<1>3. CASE ThrowsLate(x)
  BY <1>3 DEF ThrowsLate
<1>4. CASE RecordFailureThrows(x)
  BY <1>4 DEF RecordFailureThrows
<1>5. QED
  BY <1>1, <1>2, <1>3, <1>4 DEF RunThrows

LEMMA ReplayStepTables ==
  ASSUME TypeOK, NEW x \in Replays, ReplayStep(x)
  PROVE  RunTables(x)
<1> TablesTypeOK /\ LocksTypeOK /\ PipelineTypeOK
  BY DEF TypeOK
<1> USE TableTypes DEF RunTables, shared, tables, budgets, Throw
<1>1. ASSUME NEW e \in Events, Replay(x, e) \/ AbandonRead(x, e)
      PROVE  RunTables(x)
  BY <1>1 DEF Replay, AbandonRead
<1>2. CASE Settle(x)
  <2>1. /\ rpc[x] = "settle" /\ task' = [task EXCEPT ![rmsg[x]] = "REPLAYED"]
        /\ UNCHANGED <<contacts, threads, webhook, budgets, effects, conv>>
    BY <1>2 DEF Settle
  <2>2. QED
    <3> HIDE DEF RunTables, shared, tables, budgets
    <3>1. QED
      BY <2>1, TaskStep
<1>3. CASE SettleThrows(x)
  BY <1>3 DEF SettleThrows
<1>4. CASE ReplayFailed(x)
  BY <1>4 DEF ReplayFailed
<1>5. CASE AbandonWrite(x)
  <2>1. /\ rpc[x] = "abandon" /\ task' = [task EXCEPT ![rmsg[x]] = "ABANDONED"]
        /\ UNCHANGED <<contacts, threads, webhook, budgets, effects, conv>>
    BY <1>5 DEF AbandonWrite
  <2>2. QED
    <3> HIDE DEF RunTables, shared, tables, budgets
    <3>1. QED
      BY <2>1, TaskStep
<1>6. QED
  BY <1>1, <1>2, <1>3, <1>4, <1>5 DEF ReplayStep

-----------------------------------------------------------------------------
(* What a run does to the records of its message.                          *)

\* A run that goes on to an ending after its decision has left a record, and
\* one that escapes has met an error or the record of another run.
Final == {"done", "settle", "replayFailed", "deliver"}

Ending(x) ==
    /\ IF rpc[x] # "off" THEN rmsg'[x] = rmsg[x]
       ELSE /\ x \in Replays /\ rpc'[x] \in {"gate", "abandon"}
            /\ rmsg'[x] \in Events /\ task[rmsg'[x]] # "none"
    /\ rpc'[x] \in Final /\ ract'[x] # "none" /\ throws' = 0 =>
         \/ agentRun'[rmsg[x]] # "none"
         \/ rpc[x] \in Final /\ ract'[x] = ract[x] /\ UNCHANGED agentRun
    /\ rpc'[x] = "dlq" => throws' >= 1 \/ agentRun'[rmsg[x]] # "none"
    /\ rpc'[x] = "done" /\ rkind'[x] = "none" /\ x \in Events =>
         \/ agentRun'[rmsg[x]] # "none"
         \/ task'[rmsg[x]] # "none"
         \/ rpc[x] = "dlq" /\ throws' = throws + 1

LEMMA RunKinds ==
  ASSUME PipelineTypeOK, RunLocals, NEW x \in Runs, RunStep(x) \/ RunThrows(x)
  PROVE  RunKind(x)
<1> USE LocalTypes DEF To, Returned, Escapes, InTx, shared, tables, locks
<1>1. CASE Gate(x) \/ Preflight(x) \/ NotReadyDuplicate(x)
  BY <1>1 DEF Gate, Preflight, NotReadyDuplicate, RunKind, Aside
<1>2. CASE Think(x)
  <2>1. /\ rpc[x] = "think" /\ UNCHANGED shared
        /\ \E l : l \notin InTx /\ To(x, l)
    BY <1>2, Decided DEF Think
  <2>2. QED
    BY <2>1 DEF RunKind, Aside
<1>3. CASE PlaceOrder(x) \/ RequestPayment(x) \/ Book(x) \/ Notify(x)
  BY <1>3 DEF PlaceOrder, RequestPayment, Book, Notify, RunKind, Aside
<1>4. CASE LifecycleRead(x) \/ LifecycleSwap(x)
  <2>1. /\ rpc[x] \in {"lifeRead", "lifeSwap"} /\ UNCHANGED <<messages, agentRun, locks>>
        /\ \E l \in {"lifeSwap", "respond", "notify"} : To(x, l)
    BY <1>4 DEF LifecycleRead, LifecycleSwap, AfterLifecycle
  <2>2. QED
    BY <2>1 DEF RunKind, Aside
<1>5. CASE Respond(x) \/ Fallback(x) \/ Deliver(x) \/ DeliverFallback(x)
  BY <1>5 DEF Respond, Fallback, Deliver, DeliverFallback, RunKind, Aside
<1>6. CASE InsertDuplicate(x) \/ SkippedDuplicate(x)
  BY <1>6 DEF InsertDuplicate, SkippedDuplicate, PersistFailed, RunKind, Aside
<1>7. CASE RecordFailure(x)
  BY <1>7 DEF RecordFailure, RunKind, Aside
<1>8. CASE RecordNotReady(x)
  BY <1>8 DEF RecordNotReady, RunKind, Records
<1>9. CASE InsertSilentRun(x) \/ InsertFailedRun(x)
  BY <1>9 DEF InsertSilentRun, InsertFailedRun, InsertAlone, RunKind, Records
<1>10. CASE RecordSkipped(x) \/ RecordSkippedFallback(x)
  BY <1>10 DEF RecordSkipped, RecordSkippedFallback, InsertSkipped, RunKind, Records
<1>11. CASE ThrowsEarly(x) \/ ThrowsInExecutor(x) \/ RecordFailureThrows(x)
  BY <1>11 DEF ThrowsEarly, ThrowsInExecutor, RecordFailureThrows, RunKind, Aside
<1>12. CASE TxStep(x)
  BY <1>12 DEF RunKind
<1>13. QED
  BY <1>1, <1>2, <1>3, <1>4, <1>5, <1>6, <1>7, <1>8, <1>9, <1>10, <1>11, <1>12
     DEF RunStep, RunThrows, TxStep

LEMMA ReplayKinds ==
  ASSUME PipelineTypeOK, RunLocals, NEW x \in Replays, ReplayStep(x)
  PROVE  Aside(x)
BY LocalTypes DEF ReplayStep, Replay, AbandonRead, Settle, SettleThrows, ReplayFailed,
   AbandonWrite, Start, To, InTx, shared, tables, locks, Aside, Runs

LEMMA RunEndings ==
  ASSUME TypeOK, RunLocals, NEW x \in Runs, RunStep(x) \/ RunThrows(x)
  PROVE  Ending(x)
<1> PipelineTypeOK /\ agentRun \in [Events -> {"none", "notReady", "reply", "silent",
                                     "fallback", "failed", "skipped"}]
  BY DEF TypeOK, TablesTypeOK
<1> throws \in Nat /\ task \in [Events -> {"none", "PENDING_REPLAY", "REPLAYED", "ABANDONED"}]
  BY StateAssumption DEF TypeOK, LocksTypeOK, TablesTypeOK
<1> USE LocalTypes DEF RunLocal, To, Returned, Escapes, InTx, Recording, Undecided,
        Final, shared, tables, locks, Ending
<1>1. CASE Gate(x) \/ Preflight(x)
  BY <1>1 DEF Gate, Preflight
<1>2. CASE Think(x) \/ PlaceOrder(x) \/ RequestPayment(x) \/ Book(x) \/ Notify(x)
  <2>1. /\ rpc[x] # "off" /\ UNCHANGED rmsg
        /\ \E l : l \notin Final \union {"dlq"} /\ To(x, l)
    BY <1>2, Decided DEF Think, PlaceOrder, RequestPayment, Book, Notify
  <2>2. QED
    BY <2>1
<1>3. CASE LifecycleRead(x) \/ LifecycleSwap(x)
  <2>1. /\ rpc[x] # "off" /\ UNCHANGED rmsg
        /\ \E l \in {"lifeSwap", "respond", "notify"} : To(x, l)
    BY <1>3 DEF LifecycleRead, LifecycleSwap, AfterLifecycle
  <2>2. QED
    BY <2>1
<1>4. CASE Respond(x) \/ Fallback(x) \/ InsertRun(x) \/ AssertAgentMode(x) \/ TakeoverRace(x)
  BY <1>4 DEF Respond, Fallback, InsertRun, AssertAgentMode, TakeoverRace
<1>5. CASE Deliver(x) \/ DeliverFallback(x)
  BY <1>5 DEF Deliver, DeliverFallback
<1>6. CASE NotReadyDuplicate(x) \/ InsertDuplicate(x) \/ SkippedDuplicate(x)
  BY <1>6
     DEF NotReadyDuplicate, InsertDuplicate, SkippedDuplicate, PersistFailed, RunExists
<1>7. CASE RecordFailure(x)
  BY <1>7 DEF RecordFailure
<1>8. CASE RecordNotReady(x)
  BY <1>8 DEF RecordNotReady
<1>9. CASE InsertSilentRun(x) \/ InsertFailedRun(x)
  BY <1>9 DEF InsertSilentRun, InsertFailedRun, InsertAlone
<1>10. CASE RecordSkipped(x) \/ RecordSkippedFallback(x)
  BY <1>10 DEF RecordSkipped, RecordSkippedFallback, InsertSkipped
<1>11. CASE ThrowsEarly(x) \/ ThrowsInExecutor(x) \/ RecordFailureThrows(x)
  BY <1>11 DEF ThrowsEarly, ThrowsInExecutor, RecordFailureThrows, Throw
<1>12. CASE ThrowsLate(x)
  BY <1>12 DEF ThrowsLate, Throw, PersistFailed
<1>13. CASE CommitRun(x)
  BY <1>13 DEF CommitRun
<1>14. QED
  BY <1>1, <1>2, <1>3, <1>4, <1>5, <1>6, <1>7, <1>8, <1>9, <1>10, <1>11, <1>12,
     <1>13 DEF RunStep, RunThrows

LEMMA ReplayEndings ==
  ASSUME TypeOK, RunLocals, NEW x \in Replays, ReplayStep(x)
  PROVE  Ending(x)
<1> PipelineTypeOK /\ throws \in Nat
  BY StateAssumption DEF TypeOK, LocksTypeOK
<1> x \in Runs /\ x \notin Events
  BY PipelineAssumption, Zenon DEF Runs
<1> USE LocalTypes DEF RunLocal, To, Undecided, Final, shared, tables, Ending
<1>1. ASSUME NEW e \in Events, Replay(x, e) \/ AbandonRead(x, e)
      PROVE  Ending(x)
  BY <1>1 DEF Replay, AbandonRead, Start
<1>2. CASE Settle(x) \/ SettleThrows(x) \/ ReplayFailed(x) \/ AbandonWrite(x)
  BY <1>2 DEF Settle, SettleThrows, ReplayFailed, AbandonWrite, Throw
<1>3. QED
  BY <1>1, <1>2 DEF ReplayStep

-----------------------------------------------------------------------------
(* A step of a run preserves the invariant.                                *)

RunMove(x) == /\ Moves(x) /\ RunTables(x) /\ RunKind(x) /\ Ending(x)
              /\ UNCHANGED <<ingest, requests, jobs>>

LEMMA RunIsMove ==
  ASSUME IInv, NEW x \in Runs, Run(x)
  PROVE  RunMove(x)
BY RunStepMoves, RunThrowsMoves, RunStepTables, RunThrowsTables, RunKinds, RunEndings
   DEF Run, RunMove, IInv, Typed, TypeOK

LEMMA OperatorIsMove ==
  ASSUME IInv, NEW x \in Replays, Operator(x)
  PROVE  RunMove(x)
BY ReplayStepMoves, ReplayStepTables, ReplayKinds, ReplayEndings
   DEF Operator, RunMove, IInv, Typed, TypeOK, RunKind, Runs

LEMMA Basics ==
  ASSUME IInv
  PROVE  /\ TablesTypeOK /\ LocksTypeOK /\ PipelineTypeOK /\ IngestTypeOK
         /\ ControlTypeOK /\ RunLocals /\ WorkerLocals /\ RequestLocals /\ ThreadsInv
         /\ ClaimInv /\ StoredInv /\ LocksInv /\ AnswerInv
         /\ GoodbyeInv /\ ModeInv /\ RecordInv /\ EscapedRunsAreKept
         /\ messages \in [Events -> Seq(Messages)]
BY DEF IInv, Typed, TypeOK, TablesTypeOK

\* The conversation of a run is one that was created.
LEMMA RunHome ==
  ASSUME IInv, NEW x \in Runs, rpc[x] # "off"
  PROVE  /\ rmsg[x] \in Events /\ Stored(rmsg[x])
         /\ Home(x) \in Events /\ conv[Home(x)].status # "none"
<1>1. rmsg[x] \in Events /\ Stored(rmsg[x])
  BY Basics DEF RunLocals, RunLocal, StoredInv
<1>2. Home(x) \in Events /\ Copies(Inbound(rmsg[x]), Home(x)) # {}
  BY <1>1, HomeFacts DEF Home
<1>3. messages[Home(x)] # <<>>
  BY <1>2 DEF Copies
<1>4. QED
  BY <1>1, <1>2, <1>3, Basics DEF ThreadsInv

\* The run that the ingestion started is named after its message.
LEMMA OwnMessage ==
  ASSUME IInv, NEW e \in Events, rpc[e] # "off"
  PROVE  rmsg[e] = e
<1>1. e \in Runs
  BY DEF Runs
<1>2. RunLocal(e, rpc[e], rmsg[e], ract[e], rkind[e])
  BY <1>1, Basics DEF RunLocals
<1>3. QED
  BY <1>2, PipelineAssumption, Zenon DEF RunLocal

LEMMA CommitFacts ==
  ASSUME IInv, NEW x \in Runs, CommitRun(x)
  PROVE  /\ rpc[x] = "commit" /\ rkind[x] \in Kinds
         /\ rmsg[x] \in Events /\ Stored(rmsg[x])
         /\ Home(x) \in Events /\ Home(x) = HomeOf(rmsg[x])
         /\ Answer(rkind[x], rmsg[x]) \in Messages
         /\ Post(Home(x), Answer(rkind[x], rmsg[x]))
         /\ conv[Home(x)].status # "none" /\ conv[Home(x)].mode = "AGENT"
         /\ agentRun[rmsg[x]] = "none"
         /\ agentRun' = [agentRun EXCEPT ![rmsg[x]] = rkind[x]]
<1>1. rpc[x] = "commit" /\ Post(Home(x), Answer(rkind[x], rmsg[x]))
      /\ agentRun' = [agentRun EXCEPT ![rmsg[x]] = rkind[x]]
  BY DEF CommitRun
<1>2. rkind[x] \in Kinds
  BY <1>1, Basics DEF RunLocals, RunLocal, InTx, Kinds
<1>3. agentRun[rmsg[x]] = "none" /\ conv[Home(x)].mode = "AGENT"
  BY <1>1, Basics DEF LocksInv, InTx
<1>4. QED
  BY <1>1, <1>2, <1>3, RunHome, MessageNames DEF Home

\* Only a commit writes a message, which is the answer to the run's own.
LEMMA RunWrites ==
  ASSUME IInv, NEW x \in Runs, RunMove(x)
  PROVE  UNCHANGED messages \/ CommitRun(x)
BY DEF RunMove, RunKind, Aside, Records, TxStep, InsertRun, AssertAgentMode,
   TakeoverRace, ThrowsLate, tables

LEMMA RunLogs ==
  ASSUME IInv, NEW x \in Runs, RunMove(x)
  PROVE  /\ messages' \in [Events -> Seq(Messages)]
         /\ \A e \in Events : (Stored(e)' <=> Stored(e)) /\ HomeOf(e)' = HomeOf(e)
         /\ \A e, c \in Events : Copies(Inbound(e), c)' = Copies(Inbound(e), c)
         /\ \A c \in Events : Copies(Goodbye, c)' = Copies(Goodbye, c)
         /\ \A c \in Events : conv[c].status = "none" => messages'[c] = messages[c]
<1>1. CASE UNCHANGED messages
  BY <1>1, Basics, SameLogsIf, SameLogsSameHome DEF SameLogs
<1>2. CASE CommitRun(x)
  <2> DEFINE m == Answer(rkind[x], rmsg[x])
  <2>1. Home(x) \in Events /\ m \in Messages /\ Post(Home(x), m)
        /\ conv[Home(x)].status # "none"
    BY <1>2, CommitFacts
  <2>2. \A e \in Events : m # Inbound(e)
    BY <1>2, CommitFacts, MessageNames
  <2>3. m # Goodbye
    BY <1>2, CommitFacts, MessageNames
  <2> HIDE DEF m
  <2>4. \A e \in Events : (Stored(e)' <=> Stored(e)) /\ HomeOf(e)' = HomeOf(e)
    BY <2>1, <2>2, Basics, PostKeepsHome
  <2>5. QED
    BY <2>1, <2>2, <2>3, <2>4, Basics, PostCopies
<1>3. QED
  BY <1>1, <1>2, RunWrites

LEMMA RunHomes ==
  ASSUME IInv, NEW x \in Runs, RunMove(x)
  PROVE  /\ \A z \in Runs : z # x => /\ rpc'[z] = rpc[z] /\ rmsg'[z] = rmsg[z]
                                     /\ ract'[z] = ract[z] /\ rkind'[z] = rkind[z]
         /\ \A z \in Runs : rpc[z] # "off" => /\ rpc'[z] # "off" /\ rmsg'[z] = rmsg[z]
                                              /\ Home(z)' = Home(z)
         /\ rpc'[x] # "off" /\ rmsg'[x] \in Events /\ PipelineTypeOK' /\ RunLocals'
<1>1. /\ PipelineTypeOK' /\ RunLocals'
      /\ \A z \in Runs : z # x => /\ rpc'[z] = rpc[z] /\ rmsg'[z] = rmsg[z]
                                  /\ ract'[z] = ract[z] /\ rkind'[z] = rkind[z]
  BY MovesKeep, Basics DEF RunMove
<1>2. rpc'[x] # "off" /\ (rpc[x] # "off" => rmsg'[x] = rmsg[x])
  BY DEF RunMove, Moves, Ending
<1>3. rmsg'[x] \in Events
  BY <1>2 DEF RunMove, Moves, RunLocal
<1>4. \A z \in Runs : rpc[z] # "off" => rpc'[z] # "off" /\ rmsg'[z] = rmsg[z]
  BY <1>1, <1>2
<1>5. \A z \in Runs : rpc[z] # "off" => Home(z)' = Home(z)
  <2> SUFFICES ASSUME NEW z \in Runs, rpc[z] # "off"
               PROVE  Home(z)' = Home(z)
    OBVIOUS
  <2>1. rmsg[z] \in Events /\ rmsg'[z] = rmsg[z]
    BY <1>4, RunHome
  <2>2. HomeOf(rmsg[z])' = HomeOf(rmsg[z])
    BY <2>1, RunLogs
  <2>3. QED
    BY <2>1, <2>2 DEF Home
<1>6. QED
  BY <1>1, <1>2, <1>3, <1>4, <1>5

RunOutcomes == {"none", "notReady", "reply", "silent", "fallback", "failed", "skipped"}

\* How the steps of a run change the locks and the records.
LEMMA RunLockMoves ==
  ASSUME IInv, NEW x \in Runs, RunMove(x)
  PROVE  \/ UNCHANGED locks
         \/ /\ InsertRun(x) /\ runLock' = [runLock EXCEPT ![rmsg[x]] = x]
            /\ UNCHANGED convLock
         \/ /\ AssertAgentMode(x) /\ convLock' = [convLock EXCEPT ![Home(x)] = x]
            /\ UNCHANGED runLock
         \/ Unlock(x)
BY DEF RunMove, RunKind, Aside, Records, TxStep, InsertRun, AssertAgentMode,
   TakeoverRace, ThrowsLate, CommitRun

LEMMA RunRecords ==
  ASSUME IInv, NEW x \in Runs, RunMove(x)
  PROVE  \/ UNCHANGED agentRun
         \/ \E k \in RunOutcomes \ {"none"} :
              /\ agentRun' = [agentRun EXCEPT ![rmsg[x]] = k]
              /\ agentRun[rmsg[x]] = "none" /\ rpc[x] # "off"
BY CommitFacts DEF RunMove, RunKind, Aside, Records, TxStep, InsertRun, AssertAgentMode,
   TakeoverRace, ThrowsLate, tables, CanInsertRun, Kinds, RunOutcomes, InTx

\* What is recorded stays recorded.
LEMMA RunRecordsStay ==
  ASSUME IInv, NEW x \in Runs, RunMove(x)
  PROVE  /\ agentRun' \in [Events -> RunOutcomes]
         /\ \A e \in Events : agentRun[e] # "none" => agentRun'[e] = agentRun[e]
         /\ \A e \in Events : task[e] # "none" => task'[e] # "none"
<1>1. agentRun \in [Events -> RunOutcomes]
  BY Basics DEF TablesTypeOK, RunOutcomes
<1>2. \A e \in Events : task[e] # "none" => task'[e] # "none"
  BY DEF RunMove, RunTables
<1>3. agentRun' \in [Events -> RunOutcomes]
         /\ \A e \in Events : agentRun[e] # "none" => agentRun'[e] = agentRun[e]
  BY <1>1, RunRecords
<1>4. QED
  BY <1>2, <1>3

LEMMA RunTypeOK ==
  ASSUME IInv, NEW x \in Runs, RunMove(x)
  PROVE  TypeOK'
<1>1. TablesTypeOK'
  BY Basics, RunLogs, RunRecordsStay DEF TablesTypeOK, RunMove, RunTables, RunOutcomes
<1>2. LocksTypeOK'
  <2>1. convLock' \in [Events -> Runs \union {Free}] /\ runLock' \in [Events -> Runs \union {Free}]
    BY Basics, RunLockMoves DEF LocksTypeOK, locks, Unlock
  <2>2. throws' \in 0..MaxThrows /\ crashes' \in 0..MaxCrashes
    BY Basics DEF LocksTypeOK, RunMove, RunTables
  <2>3. QED
    BY <2>1, <2>2 DEF LocksTypeOK
<1>3. PipelineTypeOK'
  BY RunHomes
<1>4. IngestTypeOK' /\ ControlTypeOK'
  BY Basics DEF IngestTypeOK, ControlTypeOK, RunMove, ingest, requests, jobs
<1>5. QED
  BY <1>1, <1>2, <1>3, <1>4 DEF TypeOK

LEMMA RunTyped ==
  ASSUME IInv, NEW x \in Runs, RunMove(x)
  PROVE  Typed'
<1>1. UNCHANGED <<threads, ingest, requests, jobs>>
      /\ \A c \in Events : conv'[c].status = conv[c].status
  BY DEF RunMove, RunTables
<1>2. WorkerLocals'
  BY <1>1, Basics DEF WorkerLocals, ingest, Existing
<1>3. RequestLocals'
  BY <1>1, Basics DEF RequestLocals, requests, jobs, Existing
<1>4. ThreadsInv'
  BY <1>1, Basics, RunLogs DEF ThreadsInv, Existing
<1>5. QED
  BY <1>2, <1>3, <1>4, RunHomes, RunTypeOK DEF Typed

LEMMA RunClaims ==
  ASSUME IInv, NEW x \in Runs, RunMove(x)
  PROVE  ClaimInv'
<1>1. /\ UNCHANGED <<webhook, ingest>>
      /\ \A c \in Events : conv'[c].status = conv[c].status
  BY DEF RunMove, RunTables
<1>2. \A e \in Events : rpc'[e] = "off" <=> rpc[e] = "off"
  <2>1. x \in Events => rpc[x] # "off"
    BY PipelineAssumption, Zenon DEF RunMove, Ending
  <2>2. QED
    BY <2>1, RunHomes DEF Runs
<1>3. \A w \in Workers : wpc[w] \in Handling => wev[w] \in Events
  BY Basics DEF WorkerLocals, Handling, Unstored, Searching
<1>4. \A e \in Events : Stored(e)' <=> Stored(e)
  BY RunLogs
<1>5. QED
  BY <1>1, <1>2, <1>3, <1>4, Basics
     DEF ClaimInv, WorkerClaim, EventClaim, ingest, Handling, Unstored, Searching

LEMMA RunStored ==
  ASSUME IInv, NEW x \in Runs, RunMove(x)
  PROVE  StoredInv'
<1>1. \A e \in Events : Stored(e)' <=> Stored(e)
  BY RunLogs
<1>2. \A e, c, d \in Events :
        \A i \in Copies(Inbound(e), c)', j \in Copies(Inbound(e), d)' : c = d /\ i = j
  BY RunLogs, Basics DEF StoredInv
<1>3. ASSUME NEW z \in Runs, rpc'[z] # "off"
      PROVE  Stored(rmsg[z])'
  <2>1. CASE rpc[z] # "off"
    <3>1. rmsg'[z] = rmsg[z] /\ rmsg[z] \in Events /\ Stored(rmsg[z])
      BY <2>1, RunHomes, RunHome
    <3>2. QED
      BY <3>1, <1>1
  <2>2. CASE rpc[z] = "off"
    <3>1. z = x
      BY <1>3, <2>2, RunHomes
    <3>2. rmsg'[x] \in Events /\ task[rmsg'[x]] # "none"
      BY <3>1, <2>2 DEF RunMove, Ending
    <3>3. Stored(rmsg'[x])
      BY <3>2, Basics DEF StoredInv
    <3>4. QED
      BY <3>1, <3>2, <3>3, <1>1
  <2>3. QED
    BY <2>1, <2>2
<1>4. ASSUME NEW e \in Events, task'[e] # "none"
      PROVE  Stored(e)'
  <2>1. Stored(e)
    <3>1. CASE task'[e] = task[e]
      BY <3>1, <1>4, Basics DEF StoredInv
    <3>2. CASE task'[e] # task[e]
      BY <3>2, RunHome DEF RunMove, RunTables
    <3>3. QED
      BY <3>1, <3>2
  <2>2. QED
    BY <2>1, <1>1
<1>5. QED
  BY <1>2, <1>3, <1>4 DEF StoredInv

LEMMA RunGoodbyes ==
  ASSUME IInv, NEW x \in Runs, RunMove(x)
  PROVE  GoodbyeInv' /\ ModeInv'
<1>1. /\ UNCHANGED jobs
      /\ \A c \in Events : /\ conv'[c].status = conv[c].status
                           /\ conv'[c].mode = conv[c].mode
                           /\ conv'[c].owner = conv[c].owner
  BY DEF RunMove, RunTables
<1>2. \A j \in Jobs : jpc[j] = "goodbye" => jcur[j] \in Events
  BY Basics DEF RequestLocals
<1>3. \A c \in Events : Copies(Goodbye, c)' = Copies(Goodbye, c)
  BY RunLogs
<1>4. GoodbyeInv'
  <2>1. \A c \in Events :
          /\ Copies(Goodbye, c)' # {} => conv'[c].status = "CLOSED"
          /\ \A i, j \in Copies(Goodbye, c)' : i = j
    BY <1>1, <1>3, Basics DEF GoodbyeInv
  <2>2. \A j \in Jobs : jpc'[j] = "goodbye" =>
          /\ conv'[jcur'[j]].status = "CLOSED"
          /\ Copies(Goodbye, jcur[j])' = {}
          /\ \A k \in Jobs : jpc'[k] = "goodbye" /\ jcur'[k] = jcur'[j] => k = j
    <3> SUFFICES ASSUME NEW j \in Jobs, jpc[j] = "goodbye"
                 PROVE  /\ conv'[jcur[j]].status = "CLOSED"
                        /\ Copies(Goodbye, jcur[j])' = {}
                        /\ \A k \in Jobs : jpc[k] = "goodbye" /\ jcur[k] = jcur[j] => k = j
      BY <1>1 DEF jobs
    <3>1. jcur[j] \in Events /\ jcur' = jcur
      BY <1>1, <1>2 DEF jobs
    <3>2. Copies(Goodbye, jcur[j])' = Copies(Goodbye, jcur[j])
      BY <3>1, <1>3
    <3>3. QED
      BY <3>1, <3>2, <1>1, Basics DEF GoodbyeInv
  <2>3. QED
    BY <2>1, <2>2 DEF GoodbyeInv
<1>5. QED
  BY <1>1, <1>4, Basics DEF ModeInv

\* The locks and the records of the other runs stand, and x holds what its new
\* program point says.
LocksFollow(x) ==
    /\ \A e \in Events :
         \/ runLock'[e] = runLock[e] /\ runLock[e] # x
         \/ runLock'[e] = x /\ runLock[e] \in {x, Free}
              /\ rpc'[x] \in InTx /\ rmsg'[x] = e
         \/ runLock'[e] = Free /\ runLock[e] \in {x, Free}
    /\ \A c \in Events :
         \/ convLock'[c] = convLock[c] /\ convLock[c] # x
         \/ convLock'[c] = x /\ convLock[c] \in {x, Free}
              /\ rpc'[x] = "commit" /\ Home(x)' = c
         \/ convLock'[c] = Free /\ convLock[c] \in {x, Free}
    /\ \A e \in Events : agentRun'[e] = agentRun[e] \/ runLock[e] \in {x, Free}
    /\ rpc'[x] \in InTx => runLock'[rmsg'[x]] = x /\ agentRun'[rmsg'[x]] = "none"
    /\ rpc'[x] = "commit" => /\ convLock'[Home(x)'] = x
                             /\ conv'[Home(x)'].mode = "AGENT"

LEMMA LocksKept ==
  ASSUME IInv, NEW x \in Runs, RunMove(x), LocksFollow(x)
  PROVE  LocksInv'
<1>1. /\ \A z \in Runs \ {x} : rpc'[z] = rpc[z] /\ rmsg'[z] = rmsg[z]
      /\ \A z \in Runs : rpc[z] # "off" => rmsg'[z] = rmsg[z] /\ Home(z)' = Home(z)
  BY RunHomes
<1>2. \A c \in Events : conv'[c].mode = conv[c].mode
  BY DEF RunMove, RunTables
<1>3. \A z \in Runs : rpc[z] # "off" =>
        rmsg[z] \in Events /\ Home(z) \in Events
  BY RunHome
<1>4. /\ convLock \in [Events -> Runs \union {Free}]
      /\ runLock \in [Events -> Runs \union {Free}] /\ Free \notin Runs
      /\ agentRun \in [Events -> RunOutcomes]
      /\ rpc \in [Runs -> RunStates]
  BY Basics, PipelineAssumption, Zenon
     DEF LocksTypeOK, TablesTypeOK, PipelineTypeOK, RunOutcomes
<1>5. /\ \A z \in Runs :
           /\ rpc[z] \in InTx => runLock[rmsg[z]] = z /\ agentRun[rmsg[z]] = "none"
           /\ rpc[z] = "commit" => /\ convLock[Home(z)] = z
                                   /\ conv[Home(z)].mode = "AGENT"
      /\ \A e \in Events : runLock[e] # Free =>
           /\ runLock[e] \in Runs /\ rpc[runLock[e]] \in InTx /\ rmsg[runLock[e]] = e
      /\ \A c \in Events : convLock[c] # Free =>
           /\ convLock[c] \in Runs /\ rpc[convLock[c]] = "commit"
           /\ Home(convLock[c]) = c
  BY <1>4, Basics DEF LocksInv
<1>6. "off" \notin InTx /\ "commit" \in InTx
  BY DEF InTx
<1>7. \A z \in Runs :
        /\ rpc'[z] \in InTx => runLock'[rmsg'[z]] = z /\ agentRun'[rmsg'[z]] = "none"
        /\ rpc'[z] = "commit" => /\ convLock'[Home(z)'] = z
                                 /\ conv'[Home(z)'].mode = "AGENT"
  <2> SUFFICES ASSUME NEW z \in Runs, z # x
               PROVE  /\ rpc'[z] \in InTx => runLock'[rmsg'[z]] = z /\ agentRun'[rmsg'[z]] = "none"
                      /\ rpc'[z] = "commit" => /\ convLock'[Home(z)'] = z
                                               /\ conv'[Home(z)'].mode = "AGENT"
    BY DEF LocksFollow
  <2>1. CASE rpc[z] \in InTx
    <3>1. /\ rmsg'[z] = rmsg[z] /\ rmsg[z] \in Events
          /\ Home(z)' = Home(z) /\ Home(z) \in Events
      BY <2>1, <1>1, <1>3, <1>6
    <3>2. runLock'[rmsg[z]] = z /\ agentRun'[rmsg[z]] = "none"
      BY <2>1, <3>1, <1>5, <1>4 DEF LocksFollow
    <3>3. rpc[z] = "commit" => convLock'[Home(z)] = z /\ conv'[Home(z)].mode = "AGENT"
      BY <3>1, <1>2, <1>5, <1>4 DEF LocksFollow
    <3>4. QED
      BY <3>1, <3>2, <3>3, <1>1
  <2>2. CASE rpc[z] \notin InTx
    BY <2>2, <1>1, <1>6
  <2>3. QED
    BY <2>1, <2>2
<1>8. \A e \in Events : runLock'[e] # Free =>
        rpc'[runLock'[e]] \in InTx /\ rmsg'[runLock'[e]] = e
  BY <1>1, <1>5, <1>6 DEF LocksFollow
<1>9. \A c \in Events : convLock'[c] # Free =>
        rpc'[convLock'[c]] = "commit" /\ Home(convLock[c])' = c
  <2> SUFFICES ASSUME NEW c \in Events, convLock'[c] # Free
               PROVE  rpc'[convLock'[c]] = "commit" /\ Home(convLock[c])' = c
    OBVIOUS
  <2>1. CASE convLock'[c] = x
    <3>1. rpc'[x] = "commit" /\ Home(x)' = c
      BY <2>1 DEF LocksFollow
    <3>2. QED
      BY <2>1, <3>1 DEF Home
  <2>2. CASE convLock'[c] # x
    <3> DEFINE z == convLock[c]
    <3>1. z \in Runs /\ z # x /\ convLock'[c] = z /\ rpc[z] = "commit" /\ Home(z) = c
      BY <2>2, <1>5 DEF LocksFollow
    <3>2. rpc'[z] = "commit" /\ Home(z)' = c
      BY <3>1, <1>1
    <3>3. QED
      BY <3>1, <3>2 DEF Home
  <2>3. QED
    BY <2>1, <2>2
<1>10. QED
  BY <1>7, <1>8, <1>9 DEF LocksInv

LEMMA UnlockFollows ==
  ASSUME IInv, NEW x \in Runs, RunMove(x), Unlock(x), rpc'[x] \notin InTx,
         \A e \in Events : agentRun'[e] = agentRun[e] \/ runLock[e] \in {x, Free}
  PROVE  LocksFollow(x)
<1>1. Free # x
  BY PipelineAssumption, Zenon
<1>2. QED
  BY <1>1 DEF Unlock, LocksFollow, InTx

LEMMA RunLocks ==
  ASSUME IInv, NEW x \in Runs, RunMove(x)
  PROVE  LocksInv'
<1> SUFFICES LocksFollow(x)
  BY LocksKept
<1>1. /\ convLock \in [Events -> Runs \union {Free}]
      /\ runLock \in [Events -> Runs \union {Free}] /\ Free # x
      /\ rpc \in [Runs -> RunStates] /\ agentRun \in [Events -> RunOutcomes]
  BY Basics, PipelineAssumption, Zenon
     DEF LocksTypeOK, TablesTypeOK, PipelineTypeOK, RunOutcomes
<1>2. /\ \A e \in Events : runLock[e] = x => rpc[x] \in InTx /\ rmsg[x] = e
      /\ \A c \in Events : convLock[c] = x => rpc[x] = "commit" /\ Home(x) = c
  BY <1>1, Basics DEF LocksInv
<1>3. rpc[x] # "off" => /\ rmsg'[x] = rmsg[x] /\ rmsg[x] \in Events
                        /\ Home(x)' = Home(x) /\ Home(x) \in Events
  BY RunHomes, RunHome
<1>4. CASE Aside(x)
  BY <1>4, <1>1, <1>2 DEF Aside, LocksFollow, InTx, locks
<1>5. CASE Records(x)
  BY <1>5, <1>1, <1>2, <1>3 DEF Records, LocksFollow, InTx, locks, CanInsertRun
<1>6. CASE InsertRun(x)
  <2>1. rpc[x] = "insert" /\ rpc'[x] = "assert"
    BY <1>6, <1>1 DEF InsertRun, To
  <2>2. QED
    BY <1>6, <2>1, <1>1, <1>2, <1>3
       DEF InsertRun, LocksFollow, InTx, CanInsertRun, tables
<1>7. CASE AssertAgentMode(x)
  <2>1. rpc[x] = "assert" /\ rpc'[x] = "commit" /\ UNCHANGED <<conv, agentRun, runLock>>
    BY <1>7, <1>1 DEF AssertAgentMode, To, tables
  <2>2. runLock[rmsg[x]] = x /\ agentRun[rmsg[x]] = "none"
    BY <2>1, Basics DEF LocksInv, InTx
  <2>3. /\ convLock[Home(x)] = Free /\ conv[Home(x)].mode = "AGENT"
        /\ convLock' = [convLock EXCEPT ![Home(x)] = x]
    BY <1>7 DEF AssertAgentMode
  <2>4. QED
    BY <2>1, <2>2, <2>3, <1>1, <1>2, <1>3 DEF LocksFollow, InTx
<1>8. CASE TakeoverRace(x)
  <2>1. Unlock(x) /\ rpc'[x] = "skipRow" /\ UNCHANGED agentRun
    BY <1>8, <1>1 DEF TakeoverRace, To, tables
  <2>2. QED
    BY <2>1, UnlockFollows DEF InTx
<1>9. CASE CommitRun(x)
  <2>1. Unlock(x) /\ rpc'[x] = "deliver"
    BY <1>9, <1>1 DEF CommitRun, To
  <2>2. runLock[rmsg[x]] = x
    BY <1>9, CommitFacts, Basics DEF LocksInv, InTx
  <2>3. \A e \in Events : agentRun'[e] = agentRun[e] \/ runLock[e] \in {x, Free}
    BY <1>9, <2>2, <1>1, CommitFacts
  <2>4. QED
    BY <2>1, <2>3, UnlockFollows DEF InTx
<1>10. CASE ThrowsLate(x)
  <2>1. Unlock(x) /\ UNCHANGED agentRun /\ PersistFailed(x)
    BY <1>10 DEF ThrowsLate, tables
  <2>2. rpc'[x] \in {"done", "settle", "fallback"}
    BY <2>1, <1>1, Persisted DEF To
  <2>3. QED
    BY <2>1, <2>2, UnlockFollows DEF InTx
<1>11. QED
  BY <1>4, <1>5, <1>6, <1>7, <1>8, <1>9, <1>10 DEF RunMove, RunKind, TxStep

\* The records and the answers of the messages, when no answer is written.
LEMMA AnswersKept ==
  ASSUME IInv, SameHistory,
         \A e \in Events : \/ agentRun'[e] = agentRun[e]
                           \/ agentRun[e] \notin Kinds /\ agentRun'[e] \notin Kinds
  PROVE  AnswerInv'
<1> SUFFICES ASSUME NEW e \in Events, NEW k \in Kinds
             PROVE  /\ \A c \in Events : Copies(Answer(k, e), c)' # {} =>
                         agentRun'[e] = k /\ Stored(e)' /\ c = HomeOf(e)'
                    /\ \A c \in Events : \A i, j \in Copies(Answer(k, e), c)' : i = j
                    /\ agentRun'[e] = k => Stored(e)' /\ Copies(Answer(k, e), HomeOf(e))' # {}
  BY DEF AnswerInv, Kinds
<1>2. /\ \A c \in Events : Copies(Answer(k, e), c) # {} =>
           agentRun[e] = k /\ Stored(e) /\ c = HomeOf(e)
      /\ \A c \in Events : \A i, j \in Copies(Answer(k, e), c) : i = j
      /\ agentRun[e] = k => Stored(e) /\ Copies(Answer(k, e), HomeOf(e)) # {}
  BY Basics DEF AnswerInv, Kinds
<1>3. agentRun'[e] = k <=> agentRun[e] = k
  OBVIOUS
<1>4. agentRun[e] = k => /\ HomeOf(e) \in Events
                         /\ Copies(Answer(k, e), HomeOf(e))' = Copies(Answer(k, e), HomeOf(e))
  <2>1. ASSUME agentRun[e] = k
        PROVE  HomeOf(e) \in Events
    BY <2>1, <1>2, HomeFacts
  <2>2. QED
    BY <2>1 DEF SameHistory
<1>5. QED
  BY <1>2, <1>3, <1>4 DEF SameHistory

LEMMA CommitAnswers ==
  ASSUME IInv, NEW x \in Runs, CommitRun(x)
  PROVE  AnswerInv'
<1>1. PICK f \in Events, l \in Kinds, h \in Events, m \in Messages :
        /\ m = Answer(l, f) /\ h = HomeOf(f)
        /\ Post(h, m) /\ agentRun[f] = "none" /\ Stored(f)
        /\ agentRun' = [agentRun EXCEPT ![f] = l]
  BY CommitFacts
<1>2. agentRun \in [Events -> RunOutcomes]
  BY Basics DEF TablesTypeOK, RunOutcomes
<1>3. \A e \in Events, k \in Kinds : Answer(k, e) = m => e = f /\ k = l
  BY <1>1, MessageNames
<1>4. \A e \in Events : m # Inbound(e)
  BY <1>1, MessageNames
<1>5. \A e \in Events : (Stored(e)' <=> Stored(e)) /\ HomeOf(e)' = HomeOf(e)
  BY <1>1, <1>4, Basics, PostKeepsHome
<1>6. /\ Copies(m, h)' = Copies(m, h) \union {Len(messages[h]) + 1}
      /\ \A n : \A d \in Events : n # m \/ d # h => Copies(n, d)' = Copies(n, d)
  BY <1>1, Basics, PostCopies
<1>7. HomeOf(f)' = h /\ Stored(f)'
  BY <1>1, <1>5
<1> SUFFICES ASSUME NEW e \in Events, NEW k \in Kinds
             PROVE  /\ \A c \in Events : Copies(Answer(k, e), c)' # {} =>
                         agentRun'[e] = k /\ Stored(e)' /\ c = HomeOf(e)'
                    /\ \A c \in Events : \A i, j \in Copies(Answer(k, e), c)' : i = j
                    /\ agentRun'[e] = k => Stored(e)' /\ Copies(Answer(k, e), HomeOf(e))' # {}
  BY DEF AnswerInv, Kinds
<1>8. /\ \A c \in Events : Copies(Answer(k, e), c) # {} =>
           agentRun[e] = k /\ Stored(e) /\ c = HomeOf(e)
      /\ \A c \in Events : \A i, j \in Copies(Answer(k, e), c) : i = j
      /\ agentRun[e] = k => Stored(e) /\ Copies(Answer(k, e), HomeOf(e)) # {}
  BY Basics DEF AnswerInv, Kinds
<1>9. CASE e = f /\ k = l
  <2>1. \A c \in Events : Copies(m, c) = {}
    BY <1>1, <1>8, <1>9 DEF Kinds
  <2>2. Copies(m, h)' = {Len(messages[h]) + 1}
        /\ \A c \in Events : c # h => Copies(m, c)' = {}
    BY <2>1, <1>1, <1>6
  <2>3. agentRun'[e] = k
    BY <1>1, <1>2, <1>9
  <2>4. Copies(Answer(k, e), HomeOf(e))' = Copies(m, h)'
    BY <1>1, <1>7, <1>9
  <2>5. QED
    BY <2>2, <2>3, <2>4, <1>1, <1>7, <1>9
<1>10. CASE ~(e = f /\ k = l)
  <2>1. \A c \in Events : Copies(Answer(k, e), c)' = Copies(Answer(k, e), c)
    BY <1>3, <1>6, <1>10
  <2>2. agentRun'[e] = k <=> agentRun[e] = k
    BY <1>1, <1>2, <1>10 DEF Kinds
  <2>3. agentRun[e] = k => /\ HomeOf(e) \in Events
                           /\ Copies(Answer(k, e), HomeOf(e))' = Copies(Answer(k, e), HomeOf(e))
    BY <2>1, <1>5, <1>8, HomeFacts
  <2>4. QED
    BY <2>1, <2>2, <2>3, <1>5, <1>8
<1>11. QED
  BY <1>9, <1>10

LEMMA RunAnswers ==
  ASSUME IInv, NEW x \in Runs, RunMove(x)
  PROVE  AnswerInv'
<1>1. CASE CommitRun(x)
  BY <1>1, CommitAnswers
<1>2. CASE UNCHANGED <<messages, agentRun>>
  BY <1>2, SameHistoryIf, AnswersKept
<1>3. CASE Records(x)
  <2>1. agentRun \in [Events -> RunOutcomes]
    BY Basics DEF TablesTypeOK, RunOutcomes
  <2>2. \A e \in Events : \/ agentRun'[e] = agentRun[e]
                          \/ agentRun[e] \notin Kinds /\ agentRun'[e] \notin Kinds
    BY <1>3, <2>1 DEF Records, CanInsertRun, Kinds
  <2>3. QED
    BY <1>3, <2>2, SameHistoryIf, AnswersKept DEF Records
<1>4. QED
  BY <1>1, <1>2, <1>3 DEF RunMove, RunKind, Aside, TxStep, InsertRun, AssertAgentMode,
     TakeoverRace, ThrowsLate, tables

LEMMA RunFinishes ==
  ASSUME IInv, NEW x \in Runs, RunMove(x)
  PROVE  RecordInv' /\ EscapedRunsAreKept'
<1>1. /\ \A z \in Runs \ {x} : /\ rpc'[z] = rpc[z] /\ rmsg'[z] = rmsg[z]
                               /\ ract'[z] = ract[z] /\ rkind'[z] = rkind[z]
      /\ \A z \in Runs : rpc[z] # "off" => rmsg'[z] = rmsg[z] /\ rmsg[z] \in Events
  BY RunHomes, RunHome
<1>2. /\ \A e \in Events : agentRun[e] # "none" => agentRun'[e] # "none"
      /\ \A e \in Events : task[e] # "none" => task'[e] # "none"
  BY RunRecordsStay
<1>3. /\ throws \in Nat /\ throws' \in Nat /\ throws' >= throws /\ crashes' = crashes
  BY Basics, StateAssumption DEF LocksTypeOK, RunMove, RunTables
<1>4. Ending(x) /\ rpc'[x] # "off" /\ RunLocal(x, rpc'[x], rmsg'[x], ract'[x], rkind'[x])
  BY DEF RunMove, Moves
<1>5. ASSUME NEW z \in Runs, rpc'[z] \in Final, ract'[z] # "none", throws' = 0, crashes' = 0
      PROVE  agentRun'[rmsg'[z]] # "none"
  <2>1. throws = 0 /\ crashes = 0
    BY <1>3, <1>5
  <2>2. rpc[z] \in Final /\ ract[z] # "none" => agentRun[rmsg[z]] # "none" /\ rpc[z] # "off"
    BY <2>1, Basics DEF RecordInv, Final
  <2>3. CASE z # x
    BY <2>2, <2>3, <1>1, <1>2, <1>5
  <2>4. CASE z = x
    <3>1. CASE rpc[x] # "off"
      BY <3>1, <2>2, <2>4, <1>1, <1>2, <1>4, <1>5 DEF Ending
    <3>2. CASE rpc[x] = "off"
      BY <3>2, <2>4, <1>4, <1>5 DEF Ending, Final
    <3>3. QED
      BY <3>1, <3>2
  <2>5. QED
    BY <2>3, <2>4
<1>6. /\ x \in Events => rpc[x] # "off"
      /\ \A e \in Events : rpc[e] # "off" => rmsg[e] = e
  <2>1. x \in Events => rpc[x] # "off"
    BY <1>4, PipelineAssumption, Zenon DEF Ending
  <2>2. \A e \in Events : rpc[e] # "off" => rmsg[e] = e
    BY OwnMessage
  <2>3. QED
    BY <2>1, <2>2
<1>7. ASSUME NEW e \in Events, rpc'[e] = "dlq"
      PROVE  throws' >= 1 \/ agentRun'[e] # "none"
  <2>1. CASE e # x
    BY <2>1, <1>1, <1>2, <1>3, <1>7, Basics DEF RecordInv, Runs
  <2>2. CASE e = x
    BY <2>2, <1>4, <1>6, <1>7 DEF Ending
  <2>3. QED
    BY <2>1, <2>2
<1>8. ASSUME NEW e \in Events, rpc'[e] = "done", agentRun'[e] = "none",
             rkind'[e] = "none", throws' <= 1, crashes' = 0
      PROVE  task'[e] # "none"
  <2>1. CASE e # x
    BY <2>1, <1>1, <1>2, <1>3, <1>8, Basics DEF EscapedRunsAreKept, Runs
  <2>2. CASE e = x
    <3>1. task'[e] # "none" \/ (rpc[e] = "dlq" /\ throws' = throws + 1)
      BY <2>2, <1>4, <1>6, <1>8 DEF Ending
    <3>2. rpc[e] = "dlq" => throws >= 1
      BY <1>2, <1>8, Basics DEF RecordInv
    <3>3. QED
      BY <3>1, <3>2, <1>3, <1>8
  <2>3. QED
    BY <2>1, <2>2
<1>9. QED
  BY <1>5, <1>7, <1>8 DEF RecordInv, EscapedRunsAreKept, Final

LEMMA RunKeepsIInv ==
  ASSUME IInv, NEW x \in Runs, RunMove(x)
  PROVE  IInv'
BY RunTyped, RunClaims, RunStored, RunGoodbyes, RunLocks, RunAnswers, RunFinishes
   DEF IInv

-----------------------------------------------------------------------------
(* Steps of the others.                                                    *)

\* A step that leaves the runs, their records and the messages these are about
\* as they are.
Calm == /\ SameHistory /\ UNCHANGED <<agentRun, task, locks, pipeline>>
        /\ crashes' = crashes /\ throws' \in 0..MaxThrows /\ throws' >= throws

\* A step that leaves the conversations as they are, too.
Quiet == Calm /\ UNCHANGED <<threads, conv, messages, effects>>

LEMMA CalmKeeps ==
  ASSUME IInv, Calm
  PROVE  /\ StoredInv' /\ AnswerInv' /\ RecordInv' /\ EscapedRunsAreKept'
         /\ PipelineTypeOK' /\ LocksTypeOK' /\ RunLocals'
         /\ \A e \in Events : Stored(e)' <=> Stored(e)
         /\ \A x \in Runs : rpc[x] # "off" => Home(x) \in Events /\ Home(x)' = Home(x)
<1>1. \A e \in Events : /\ Stored(e)' <=> Stored(e)
                        /\ HomeOf(e)' = HomeOf(e)
                        /\ \A c \in Events : Copies(Inbound(e), c)' = Copies(Inbound(e), c)
  BY DEF Calm, SameHistory
<1>2. \A x \in Runs : rpc[x] # "off" =>
        rmsg[x] \in Events /\ Stored(rmsg[x]) /\ Home(x) \in Events
  BY RunHome
<1>3. StoredInv'
  BY <1>1, <1>2, Basics DEF StoredInv, Calm, pipeline
<1>4. \A x \in Runs : rpc[x] # "off" => Home(x)' = Home(x)
  BY <1>1, <1>2 DEF Home, Calm, pipeline
<1>5. AnswerInv'
  BY AnswersKept DEF Calm
<1>6. RecordInv' /\ EscapedRunsAreKept'
  <2>1. throws \in Nat /\ throws' \in Nat /\ throws' >= throws /\ crashes' = crashes
    BY Basics, StateAssumption DEF LocksTypeOK, Calm
  <2>2. UNCHANGED <<agentRun, task, pipeline>>
    BY DEF Calm
  <2>3. QED
    BY <2>1, <2>2, Basics DEF RecordInv, EscapedRunsAreKept, pipeline
<1>7. PipelineTypeOK' /\ LocksTypeOK' /\ RunLocals'
  BY Basics DEF PipelineTypeOK, LocksTypeOK, RunLocals, Calm, pipeline, locks
<1>8. QED
  BY <1>1, <1>2, <1>3, <1>4, <1>5, <1>6, <1>7

\* The mode of a row stays while a run holds it.
LEMMA CalmLocks ==
  ASSUME IInv, Calm,
         \A c \in Events : convLock[c] # Free => conv'[c].mode = conv[c].mode
  PROVE  LocksInv'
<1>1. /\ \A x \in Runs : rpc[x] # "off" => Home(x)' = Home(x)
      /\ UNCHANGED <<agentRun, locks, pipeline>>
  BY CalmKeeps DEF Calm
<1>2. \A x \in Runs : rpc[x] # "off" => Home(x) \in Events
  BY RunHome
<1>3. /\ \A c \in Events : convLock[c] # Free => convLock[c] \in Runs
      /\ Free \notin Runs
  BY Basics, PipelineAssumption, Zenon DEF LocksTypeOK
<1>4. ASSUME NEW x \in Runs, rpc[x] = "commit"
      PROVE  conv'[Home(x)].mode = "AGENT"
  BY <1>2, <1>3, <1>4, Basics DEF LocksInv
<1>5. QED
  BY <1>1, <1>3, <1>4, Basics DEF LocksInv, pipeline, locks

LEMMA QuietKeeps ==
  ASSUME IInv, Quiet
  PROVE  LocksInv' /\ ModeInv' /\ ThreadsInv'
BY CalmLocks, Basics DEF ModeInv, ThreadsInv, Existing, Quiet, Calm

\* The worker takes up no event but an unclaimed one, and hands on what it knows.
WorkerMove(w) ==
    /\ \A v \in Workers \ {w} : /\ wpc'[v] = wpc[v] /\ wev'[v] = wev[v]
                                /\ wcontact'[v] = wcontact[v] /\ wconv'[v] = wconv[v]
    /\ wpc'[w] \in Handling => /\ wev'[w] = wev[w]
                               /\ wpc[w] \in Handling \/ webhook[wev[w]] = "absent"

\* The newest open conversation is one that exists.
LEMMA NewestOpen ==
  ASSUME IInv, NEW w, OpenThreads(w) # {},
         NEW i, i = CHOOSE j \in OpenThreads(w) : \A k \in OpenThreads(w) : k <= j
  PROVE  threads[i] \in Existing
<1>1. threads \in Seq(Events) /\ Len(threads) \in Nat
  BY Basics DEF TablesTypeOK
<1>2. OpenThreads(w) \in SUBSET (1..Len(threads))
  BY <1>1 DEF OpenThreads
<1>3. \E j \in OpenThreads(w) : \A k \in OpenThreads(w) : k <= j
  BY <1>1, <1>2, Largest
<1>4. i \in OpenThreads(w)
  BY <1>3, Zenon
<1>5. i \in DOMAIN threads
  BY <1>4 DEF OpenThreads
<1>6. QED
  BY <1>5, Basics DEF ThreadsInv

LEMMA ThreadFound ==
  ASSUME IInv, NEW w \in Workers, FindThread(w)
  PROVE  \/ /\ wpc' = [wpc EXCEPT ![w] = "newThread"] /\ UNCHANGED wconv
         \/ /\ wpc' = [wpc EXCEPT ![w] = "store"]
            /\ \E c \in Existing : wconv' = [wconv EXCEPT ![w] = c]
<1>1. CASE OpenThreads(w) = {}
  BY <1>1 DEF FindThread, Goes
<1>2. CASE OpenThreads(w) # {}
  <2> DEFINE i == CHOOSE j \in OpenThreads(w) : \A k \in OpenThreads(w) : k <= j
  <2>1. threads[i] \in Existing
    BY <1>2, NewestOpen
  <2>2. wpc' = [wpc EXCEPT ![w] = "store"] /\ wconv' = [wconv EXCEPT ![w] = threads[i]]
    BY <1>2 DEF FindThread, Goes
  <2> HIDE DEF i
  <2>3. QED
    BY <2>1, <2>2
<1>3. QED
  BY <1>1, <1>2

LEMMA IngestTypes ==
  ASSUME IInv, NEW w \in Workers, IngestNext(w)
  PROVE  /\ IngestTypeOK' /\ contacts' \subseteq Events
         /\ webhook' \in [Events -> {"absent", "RECEIVED", "PROCESSED", "FAILED"}]
<1>1. IngestTypeOK /\ contacts \subseteq Events /\ threads \in Seq(Events)
      /\ webhook \in [Events -> {"absent", "RECEIVED", "PROCESSED", "FAILED"}]
  BY Basics DEF TablesTypeOK
<1>2. wpc[w] # "idle" => wev[w] \in Events
  BY Basics DEF WorkerLocals
<1> USE <1>1, <1>2 DEF IngestTypeOK, Goes, Ends, shared, tables
<1>3. CASE \E e \in Events : Delivered(w, e)
  BY <1>3 DEF Delivered
<1>4. CASE ClaimEvent(w) \/ ClaimSkipped(w)
  BY <1>4 DEF ClaimEvent, ClaimRow, ClaimSkipped
<1>5. CASE FindContact(w) \/ CreateContact(w)
  BY <1>5 DEF FindContact, CreateContact
<1>6. CASE FindThread(w)
  <2>1. UNCHANGED <<contacts, webhook, wev, wcontact>>
    BY <1>6 DEF FindThread
  <2>2. QED
    BY <2>1, <1>6, ThreadFound DEF Existing
<1>7. CASE CreateThread(w) \/ Store(w) \/ Dispatch(w)
  BY <1>7 DEF CreateThread, Store, Dispatch
<1>8. CASE MarkProcessed(w) \/ MarkFailed(w)
  BY <1>8 DEF MarkProcessed, MarkFailed, Settled
<1>9. CASE IngestThrows(w)
  BY <1>9, ZenonT(60) DEF IngestThrows
<1>10. QED
  BY <1>3, <1>4, <1>5, <1>6, <1>7, <1>8, <1>9 DEF IngestNext, IngestStep

LEMMA IngestIsMove ==
  ASSUME IInv, NEW w \in Workers, IngestNext(w)
  PROVE  WorkerMove(w)
<1> IngestTypeOK
  BY Basics
<1> USE DEF IngestTypeOK, Goes, Ends, WorkerMove, Handling, Unstored, Searching
<1>1. CASE \E e \in Events : Delivered(w, e)
  BY <1>1 DEF Delivered
<1>2. CASE ClaimEvent(w) \/ ClaimSkipped(w)
  BY <1>2 DEF ClaimEvent, ClaimRow, ClaimSkipped
<1>3. CASE FindContact(w)
  BY <1>3 DEF FindContact
<1>4. CASE FindThread(w)
  <2>1. /\ wpc[w] = "thread" /\ UNCHANGED <<wev, wcontact>>
        /\ \A v \in Workers \ {w} : wpc'[v] = wpc[v] /\ wconv'[v] = wconv[v]
    BY <1>4 DEF FindThread
  <2>2. QED
    BY <2>1
<1>5. CASE CreateContact(w) \/ CreateThread(w) \/ Store(w) \/ Dispatch(w)
  BY <1>5 DEF CreateContact, CreateThread, Store, Dispatch
<1>6. CASE MarkProcessed(w) \/ MarkFailed(w)
  BY <1>6 DEF MarkProcessed, MarkFailed, Settled
<1>7. CASE IngestThrows(w)
  BY <1>7 DEF IngestThrows
<1>8. QED
  BY <1>1, <1>2, <1>3, <1>4, <1>5, <1>6, <1>7 DEF IngestNext, IngestStep

\* The steps that touch neither a conversation nor a run.
Unobtrusive(w) ==
    \/ \E e \in Events : Delivered(w, e)
    \/ ClaimEvent(w) \/ ClaimSkipped(w) \/ FindContact(w) \/ CreateContact(w)
    \/ FindThread(w) \/ MarkProcessed(w) \/ MarkFailed(w) \/ IngestThrows(w)

LEMMA UnobtrusiveIsQuiet ==
  ASSUME IInv, NEW w \in Workers, Unobtrusive(w)
  PROVE  Quiet
<1> throws \in 0..MaxThrows /\ MaxThrows \in Nat
  BY Basics, StateAssumption DEF LocksTypeOK
<1> USE SameHistoryIf DEF Quiet, Calm, shared, tables, budgets, locks
<1>1. CASE \E e \in Events : Delivered(w, e)
  BY <1>1 DEF Delivered
<1>2. CASE ClaimEvent(w) \/ ClaimSkipped(w)
  BY <1>2 DEF ClaimEvent, ClaimRow, ClaimSkipped
<1>3. CASE FindContact(w) \/ CreateContact(w) \/ FindThread(w)
  BY <1>3 DEF FindContact, CreateContact, FindThread
<1>4. CASE MarkProcessed(w) \/ MarkFailed(w)
  BY <1>4 DEF MarkProcessed, MarkFailed, Settled
<1>5. CASE IngestThrows(w)
  BY <1>5 DEF IngestThrows, Throw
<1>6. QED
  BY <1>1, <1>2, <1>3, <1>4, <1>5 DEF Unobtrusive

\* What the claims say of an event stands.
Stands(e) ==
    /\ webhook'[e] = webhook[e] /\ conv'[e].status = conv[e].status
    /\ rpc'[e] = "off" <=> rpc[e] = "off"
    /\ Stored(e)' <=> Stored(e)

\* A worker may change what stands of the event it owns or is about to own.
LEMMA ClaimKept ==
  ASSUME IInv, NEW w \in Workers, WorkerMove(w), WorkerClaim(w)',
         \A e \in Events :
           Stands(e) \/ /\ e = wev[w] /\ EventClaim(e)'
                        /\ wpc[w] \in Handling \/ webhook[e] = "absent"
  PROVE  ClaimInv'
<1>1. \A v \in Workers : wpc[v] \in Handling => wev[v] \in Events
  BY Basics DEF WorkerLocals, Handling, Unstored, Searching
<1>2. ASSUME NEW v \in Workers, v # w, wpc[v] \in Handling
      PROVE  Stands(wev[v])
  BY <1>1, <1>2, Basics DEF ClaimInv, WorkerClaim
<1>3. \A v \in Workers : WorkerClaim(v)'
  <2> SUFFICES ASSUME NEW v \in Workers, v # w
               PROVE  WorkerClaim(v)'
    OBVIOUS
  <2>1. wpc'[v] = wpc[v] /\ wev'[v] = wev[v] /\ WorkerClaim(v)
    BY Basics DEF WorkerMove, ClaimInv
  <2>2. CASE wpc[v] \in Handling
    <3>1. PICK e \in Events : e = wev[v] /\ e = wev'[v] /\ Stands(e)
      BY <2>1, <2>2, <1>1, <1>2
    <3>2. QED
      BY <2>1, <3>1 DEF WorkerClaim, Stands
  <2>3. CASE wpc[v] \notin Handling
    BY <2>1, <2>3 DEF WorkerClaim, Handling, Unstored
  <2>4. QED
    BY <2>2, <2>3
<1>4. \A v, u \in Workers :
        wpc'[v] \in Handling /\ wpc'[u] \in Handling /\ wev'[v] = wev'[u] => v = u
  BY Basics DEF ClaimInv, WorkerClaim, WorkerMove
<1>5. \A e \in Events : EventClaim(e)'
  <2> SUFFICES ASSUME NEW e \in Events, Stands(e)
               PROVE  EventClaim(e)'
    OBVIOUS
  <2>1. QED
    BY Basics DEF ClaimInv, EventClaim, Stands
<1>6. QED
  BY <1>3, <1>4, <1>5 DEF ClaimInv

LEMMA WorkerFacts ==
  ASSUME IInv, NEW w \in Workers
  PROVE  /\ wpc \in [Workers -> {"idle", "claim", "contact", "newContact", "thread",
                                 "newThread", "store", "dispatch", "mark", "fail"}]
         /\ wev \in [Workers -> Events \union {Nothing}]
         /\ wcontact \in [Workers -> Events \union {Nothing}]
         /\ wconv \in [Workers -> Events \union {Nothing}]
         /\ wpc[w] # "idle" => wev[w] \in Events
         /\ wpc[w] \in {"thread", "newThread"} => wcontact[w] \in Events
         /\ wpc[w] = "store" => wconv[w] \in Existing
         /\ WorkerClaim(w) /\ \A e \in Events : EventClaim(e)
         /\ webhook \in [Events -> {"absent", "RECEIVED", "PROCESSED", "FAILED"}]
         /\ contacts \subseteq Events /\ conv \in [Events -> ConvRows]
BY Basics DEF IngestTypeOK, WorkerLocals, ClaimInv, TablesTypeOK

LEMMA QuietStands ==
  ASSUME IInv, Quiet
  PROVE  \A e \in Events : UNCHANGED webhook \/ webhook'[e] = webhook[e] => Stands(e)
BY CalmKeeps DEF Quiet, Calm, Stands, pipeline

LEMMA UnobtrusiveClaims ==
  ASSUME IInv, NEW w \in Workers, Unobtrusive(w)
  PROVE  ClaimInv'
<1> USE WorkerFacts
<1>1. Quiet /\ WorkerMove(w)
  BY UnobtrusiveIsQuiet, IngestIsMove DEF Unobtrusive, IngestNext, IngestStep
<1>2. /\ \A e \in Events : UNCHANGED webhook \/ webhook'[e] = webhook[e] => Stands(e)
      /\ \A e \in Events : Stored(e)' <=> Stored(e)
      /\ UNCHANGED <<conv, pipeline>>
  BY <1>1, QuietStands, CalmKeeps DEF Quiet, Calm
<1> DEFINE Fine == /\ WorkerClaim(w)'
                   /\ \A e \in Events :
                        \/ Stands(e)
                        \/ /\ e = wev[w] /\ EventClaim(e)'
                           /\ wpc[w] \in Handling \/ webhook[e] = "absent"
<1> SUFFICES Fine
  BY <1>1, ClaimKept
<1>3. CASE UNCHANGED webhook /\ wpc'[w] \in {"idle", "claim", "fail"}
           /\ (wpc'[w] = "fail" => wpc[w] \in Handling /\ wev'[w] = wev[w])
  BY <1>3, <1>2 DEF WorkerClaim, Handling, Unstored, Searching
<1>4. CASE (\E e \in Events : Delivered(w, e)) \/ ClaimSkipped(w)
  BY <1>4, <1>3 DEF Delivered, ClaimSkipped, Goes, Ends, shared, tables
<1>5. CASE IngestThrows(w)
  <2>1. wpc'[w] = "fail" => wpc[w] \in Handling /\ wev'[w] = wev[w]
    BY <1>5 DEF IngestThrows, Goes, Ends, Handling, Unstored, Searching
  <2>2. UNCHANGED webhook /\ wpc'[w] \in {"idle", "fail"}
    BY <1>5 DEF IngestThrows, Goes, Ends, tables
  <2>3. QED
    BY <1>3, <2>1, <2>2
<1>6. CASE ClaimEvent(w)
  <2>1. /\ wpc[w] = "claim" /\ webhook[wev[w]] = "absent" /\ wpc'[w] = "contact"
        /\ UNCHANGED wev /\ webhook' = [webhook EXCEPT ![wev[w]] = "RECEIVED"]
    BY <1>6 DEF ClaimEvent, ClaimRow, Goes
  <2>2. WorkerClaim(w)'
    BY <2>1, <1>2 DEF WorkerClaim, EventClaim, Handling, Unstored, Searching
  <2>3. EventClaim(wev[w])'
    BY <2>1 DEF EventClaim
  <2>4. \A e \in Events : e # wev[w] => Stands(e)
    BY <2>1, <1>2
  <2>5. ASSUME NEW e \in Events, e = wev[w]
        PROVE  EventClaim(e)'
    BY <2>1, <2>5 DEF EventClaim
  <2>6. QED
    BY <2>1, <2>2, <2>4, <2>5
<1>7. CASE FindContact(w) \/ CreateContact(w) \/ FindThread(w)
  <2>1. /\ UNCHANGED <<webhook, wev>>
        /\ wpc[w] \in Searching /\ wpc'[w] \in Unstored
        /\ wpc'[w] \in Searching \/ wpc'[w] = "store"
    BY <1>7, ThreadFound
       DEF FindContact, CreateContact, FindThread, Goes, Searching, Unstored,
       shared, tables
  <2>2. WorkerClaim(w)'
    BY <2>1, <1>2 DEF WorkerClaim, Handling, Unstored, Searching
  <2>3. QED
    BY <2>1, <2>2, <1>2
<1>8. CASE MarkProcessed(w) \/ MarkFailed(w)
  <2>1. PICK s \in {"PROCESSED", "FAILED"} :
          /\ webhook' = [webhook EXCEPT ![wev[w]] = s] /\ wpc'[w] = "idle"
          /\ s = "PROCESSED" => wpc[w] = "mark"
          /\ wpc[w] \in {"mark", "fail"}
    BY <1>8 DEF MarkProcessed, MarkFailed, Settled, Goes, Ends
  <2>2. WorkerClaim(w)'
    BY <2>1 DEF WorkerClaim, Handling, Unstored, Searching
  <2>3. ASSUME NEW e \in Events, e = wev[w]
        PROVE  EventClaim(e)'
    BY <2>1, <2>3, <1>2 DEF EventClaim, WorkerClaim, Handling, pipeline
  <2>4. \A e \in Events : e # wev[w] => Stands(e)
    BY <2>1, <1>2
  <2>5. QED
    BY <2>1, <2>2, <2>3, <2>4 DEF Handling
<1>9. QED
  BY <1>4, <1>5, <1>6, <1>7, <1>8 DEF Unobtrusive

\* An ingestion closes no conversation, and says no goodbye.
LEMMA IngestLocals ==
  ASSUME IInv, NEW w \in Workers, IngestNext(w),
         \A c \in Existing : conv'[c].status # "none"
  PROVE  WorkerLocals'
<1> USE WorkerFacts DEF Goes, Ends, shared, tables
<1>1. WorkerMove(w) /\ \A c \in Existing : c \in Existing'
  BY IngestIsMove DEF Existing
<1>2. SUFFICES /\ wpc'[w] # "idle" => wev'[w] \in Events
               /\ wpc'[w] \in {"thread", "newThread"} => wcontact'[w] \in Events
               /\ wpc'[w] = "store" => wconv'[w] \in Existing'
  BY <1>1, Basics DEF WorkerLocals, WorkerMove
<1>3. CASE \E e \in Events : Delivered(w, e)
  BY <1>3 DEF Delivered
<1>4. CASE ClaimEvent(w) \/ ClaimSkipped(w)
  BY <1>4 DEF ClaimEvent, ClaimRow, ClaimSkipped
<1>5. CASE FindContact(w) \/ CreateContact(w)
  <2>1. CASE FindContact(w)
    BY <1>5, <2>1 DEF FindContact
  <2>2. CASE CreateContact(w)
    BY <1>5, <2>2 DEF CreateContact
  <2>3. QED
    BY <1>5, <2>1, <2>2
<1>6. CASE FindThread(w)
  BY <1>6, <1>1, ThreadFound, ZenonT(60) DEF FindThread
<1>7. CASE CreateThread(w)
  <2>1. /\ wpc[w] = "newThread" /\ wpc'[w] = "store" /\ UNCHANGED wev
        /\ wconv'[w] = wev[w]
        /\ conv' = [conv EXCEPT ![wev[w]] = NewThread(wcontact[w])]
    BY <1>7 DEF CreateThread
  <2>2. conv'[wev[w]].status = "OPEN"
    BY <2>1 DEF NewThread
  <2>3. QED
    BY <2>1, <2>2 DEF Existing
<1>8. CASE Store(w) \/ Dispatch(w)
  BY <1>8 DEF Store, Dispatch
<1>9. CASE MarkProcessed(w) \/ MarkFailed(w)
  BY <1>9 DEF MarkProcessed, MarkFailed, Settled
<1>10. CASE IngestThrows(w)
  BY <1>10 DEF IngestThrows
<1>11. QED
  BY <1>3, <1>4, <1>5, <1>6, <1>7, <1>8, <1>9, <1>10 DEF IngestNext, IngestStep

LEMMA GoodbyesKept ==
  ASSUME IInv, UNCHANGED jobs,
         \A c \in Events : /\ Copies(Goodbye, c)' = Copies(Goodbye, c)
                           /\ conv[c].status = "CLOSED" => conv'[c].status = "CLOSED"
  PROVE  GoodbyeInv'
<1>1. \A c \in Events :
        /\ Copies(Goodbye, c)' # {} => conv'[c].status = "CLOSED"
        /\ \A i, j \in Copies(Goodbye, c)' : i = j
  BY Basics DEF GoodbyeInv
<1>2. \A j \in Jobs : jpc'[j] = "goodbye" =>
        /\ conv'[jcur'[j]].status = "CLOSED"
        /\ Copies(Goodbye, jcur[j])' = {}
        /\ \A k \in Jobs : jpc'[k] = "goodbye" /\ jcur'[k] = jcur'[j] => k = j
  <2> SUFFICES ASSUME NEW j \in Jobs, jpc[j] = "goodbye"
               PROVE  /\ conv'[jcur[j]].status = "CLOSED"
                      /\ Copies(Goodbye, jcur[j])' = {}
                      /\ \A k \in Jobs : jpc[k] = "goodbye" /\ jcur[k] = jcur[j] => k = j
    BY DEF jobs
  <2>1. jcur[j] \in Events /\ jcur' = jcur
    BY Basics DEF RequestLocals, jobs
  <2>2. Copies(Goodbye, jcur[j])' = Copies(Goodbye, jcur[j])
    BY <2>1
  <2>3. QED
    BY <2>1, <2>2, Basics DEF GoodbyeInv
<1>3. QED
  BY <1>1, <1>2 DEF GoodbyeInv

LEMMA ControlKept ==
  ASSUME IInv, UNCHANGED <<requests, jobs>>,
         \A c \in Existing : conv'[c].status # "none"
  PROVE  ControlTypeOK' /\ RequestLocals'
BY Basics DEF ControlTypeOK, RequestLocals, requests, jobs, Existing

LEMMA UnobtrusiveKeepsIInv ==
  ASSUME IInv, NEW w \in Workers, Unobtrusive(w), UNCHANGED <<requests, jobs>>
  PROVE  IInv'
<1>1. Quiet /\ IngestNext(w)
  BY UnobtrusiveIsQuiet DEF Unobtrusive, IngestNext, IngestStep
<1>2. \A c \in Existing : conv'[c].status # "none"
  BY <1>1 DEF Existing, Quiet
<1>3. WorkerLocals' /\ IngestTypeOK' /\ ControlTypeOK' /\ RequestLocals'
  BY <1>1, <1>2, IngestLocals, IngestTypes, ControlKept
<1>4. TablesTypeOK'
  BY <1>1, IngestTypes, Basics DEF TablesTypeOK, Quiet, Calm
<1>5. GoodbyeInv'
  <2>1. SameLogs /\ UNCHANGED conv
    BY <1>1, SameLogsIf DEF Quiet, Calm
  <2>2. QED
    BY <2>1, GoodbyesKept DEF SameLogs
<1>6. QED
  BY <1>1, <1>3, <1>4, <1>5, CalmKeeps, QuietKeeps, UnobtrusiveClaims
     DEF IInv, Typed, TypeOK, Quiet

LEMMA CreateThreadKeepsIInv ==
  ASSUME IInv, NEW w \in Workers, CreateThread(w), UNCHANGED <<requests, jobs>>
  PROVE  IInv'
<1>1. PICK e \in Events, k \in Events :
        /\ e = wev[w] /\ k = wcontact[w] /\ wev'[w] = e
        /\ threads' = Append(threads, e) /\ conv' = [conv EXCEPT ![e] = NewThread(k)]
        /\ wpc[w] = "newThread" /\ wpc'[w] = "store"
  BY WorkerFacts DEF CreateThread, Goes
<1>2. /\ Calm /\ IngestNext(w) /\ UNCHANGED <<contacts, messages, webhook, effects>>
  BY Basics, StateAssumption, SameHistoryIf
     DEF CreateThread, Calm, IngestNext, IngestStep, budgets, locks, LocksTypeOK
<1>3. conv[e].status = "none" /\ ~Stored(e) /\ webhook[e] = "RECEIVED"
  BY <1>1, WorkerFacts DEF WorkerClaim, Handling, Unstored, Searching
<1>4. /\ NewThread(k) \in ConvRows
      /\ NewThread(k).status = "OPEN" /\ NewThread(k).mode = "AGENT"
      /\ NewThread(k).owner = Nobody
  BY DEF NewThread, ConvRows, LifecycleStatuses, AnyNonTerminal, CommonTargets
<1>5. /\ conv' \in [Events -> ConvRows]
      /\ conv'[e] = NewThread(k) /\ \A c \in Events : c # e => conv'[c] = conv[c]
  BY <1>1, <1>4, WorkerFacts
<1>6. /\ \A n : \A c \in Events : Copies(n, c)' = Copies(n, c)
      /\ \A f \in Events : Stored(f)' <=> Stored(f)
  BY <1>2, SameLogsIf, CalmKeeps DEF SameLogs
<1>7. TablesTypeOK'
  <2>1. threads' \in Seq(Events)
    BY <1>1, Basics DEF TablesTypeOK
  <2>2. QED
    BY <1>2, <1>5, <2>1, Basics DEF TablesTypeOK, Calm
<1>8. \A c \in Existing : conv'[c].status # "none"
  BY <1>3, <1>5 DEF Existing
<1>9. WorkerLocals' /\ IngestTypeOK' /\ ControlTypeOK' /\ RequestLocals'
  BY <1>2, <1>8, IngestLocals, IngestTypes, ControlKept
<1>10. ThreadsInv'
  <2>1. \A c \in Events : conv'[c].status = "none" => messages'[c] = <<>>
    BY <1>2, <1>4, <1>5, Basics DEF ThreadsInv, Calm
  <2>2. \A i \in DOMAIN threads' : threads'[i] \in Existing'
    <3>1. threads \in Seq(Events)
      BY Basics DEF TablesTypeOK
    <3>2. \A i \in DOMAIN threads' : (i \in DOMAIN threads /\ threads'[i] = threads[i])
                                     \/ threads'[i] = e
      BY <1>1, <3>1
    <3>3. \A i \in DOMAIN threads : threads[i] \in Existing /\ threads[i] \in Events
      BY Basics DEF ThreadsInv, Existing
    <3>4. e \in Existing'
      BY <1>4, <1>5 DEF Existing
    <3>5. \A c \in Existing : c \in Existing'
      BY <1>8 DEF Existing
    <3>6. QED
      BY <3>2, <3>3, <3>4, <3>5
  <2>3. QED
    BY <2>1, <2>2 DEF ThreadsInv
<1>11. ClaimInv'
  <2>1. WorkerClaim(w)'
    BY <1>1, <1>2, <1>3, <1>6 DEF WorkerClaim, Handling, Unstored, Searching
  <2>2. \A c \in Events : c # e => Stands(c)
    BY <1>2, <1>5, <1>6 DEF Stands, Calm, pipeline
  <2>3. EventClaim(e)'
    BY <1>2, <1>3 DEF EventClaim
  <2>4. wpc[w] \in Handling /\ WorkerMove(w)
    BY <1>1, <1>2, IngestIsMove DEF Handling, Unstored, Searching
  <2>5. QED
    BY <1>1, <2>1, <2>2, <2>3, <2>4, ClaimKept
<1>12. LocksInv'
  <2>1. convLock[e] = Free
    <3>1. convLock[e] \in Runs \union {Free}
      BY Basics DEF LocksTypeOK
    <3>2. ASSUME NEW x \in Runs, rpc[x] = "commit", Home(x) = e
          PROVE  FALSE
      BY <1>3, <3>2, RunHome
    <3>3. QED
      BY <3>1, <3>2, Basics DEF LocksInv
  <2>2. QED
    BY <1>2, <1>5, <2>1, CalmLocks
<1>13. GoodbyeInv' /\ ModeInv'
  BY <1>3, <1>4, <1>5, <1>6, GoodbyesKept, Basics DEF ModeInv
<1>14. QED
  BY <1>2, <1>7, <1>9, <1>10, <1>11, <1>12, <1>13, CalmKeeps DEF IInv, Typed, TypeOK

\* Nothing exists of a message before it is stored.
LEMMA UnstoredMessage ==
  ASSUME IInv, NEW e \in Events, ~Stored(e)
  PROVE  /\ rpc[e] = "off" /\ task[e] = "none"
         /\ \A x \in Runs : rpc[x] # "off" => rmsg[x] # e
         /\ \A k \in Kinds : agentRun[e] # k
         /\ \A k \in Kinds, c \in Events : Copies(Answer(k, e), c) = {}
         /\ \A c \in Events : Copies(Inbound(e), c) = {}
<1>1. e \in Runs
  BY DEF Runs
<1>2. \A x \in Runs : rpc[x] # "off" => rmsg[x] # e
  BY RunHome
<1>3. rpc[e] = "off"
  BY <1>1, <1>2, OwnMessage
<1>4. \A c \in Events : Copies(Inbound(e), c) = {}
  BY DEF Stored
<1>5. QED
  BY <1>2, <1>3, <1>4, Basics DEF StoredInv, AnswerInv, Kinds

\* What a worker stores, and where.
LEMMA StoreFacts ==
  ASSUME IInv, NEW w \in Workers, Store(w)
  PROVE  \E e \in Events, c \in Existing :
           /\ e = wev[w] /\ wev'[w] = e /\ ~Stored(e) /\ webhook[e] = "RECEIVED"
           /\ c \in Events /\ convLock[c] = Free
           /\ Post(c, Inbound(e)) /\ Inbound(e) \in Messages
           /\ conv' = [conv EXCEPT ![c].quiet = FALSE]
           /\ wpc[w] = "store" /\ wpc'[w] = "dispatch"
<1>1. wpc[w] = "store" /\ wpc'[w] = "dispatch" /\ wev' = wev
  BY WorkerFacts DEF Store, Goes
<1>2. wev[w] \in Events /\ wconv[w] \in Existing
  BY <1>1, WorkerFacts
<1>3. ~Stored(wev[w]) /\ webhook[wev[w]] = "RECEIVED"
  BY <1>1, WorkerFacts DEF WorkerClaim, Handling, Unstored
<1>4. QED
  BY <1>1, <1>2, <1>3, MessageNames DEF Store, Existing

\* The messages after the post of one that was not stored before.
LEMMA StoreLogs ==
  ASSUME IInv, NEW e \in Events, NEW c \in Events, ~Stored(e), Post(c, Inbound(e))
  PROVE  /\ messages' \in [Events -> Seq(Messages)]
         /\ \A d \in Events : d # c => messages'[d] = messages[d]
         /\ Stored(e)'
         /\ \A f \in Events : f # e => (Stored(f)' <=> Stored(f)) /\ HomeOf(f)' = HomeOf(f)
         /\ \A d, b \in Events : \A i \in Copies(Inbound(e), d)', j \in Copies(Inbound(e), b)' :
              d = b /\ i = j
         /\ \A f, d \in Events : f # e => Copies(Inbound(f), d)' = Copies(Inbound(f), d)
         /\ \A f, d \in Events : \A k \in Kinds :
              Copies(Answer(k, f), d)' = Copies(Answer(k, f), d)
         /\ \A d \in Events : Copies(Goodbye, d)' = Copies(Goodbye, d)
<1>1. PICK m \in Messages : m = Inbound(e)
  BY MessageNames
<1>2. Post(c, m)
  BY <1>1
<1>3. /\ messages' \in [Events -> Seq(Messages)]
      /\ \A d \in Events : d # c => messages'[d] = messages[d]
      /\ Copies(m, c)' = Copies(m, c) \union {Len(messages[c]) + 1}
      /\ \A n : \A d \in Events : n # m \/ d # c => Copies(n, d)' = Copies(n, d)
  BY <1>2, Basics, PostCopies
<1>4. \A f \in Events : f # e => (Stored(f)' <=> Stored(f)) /\ HomeOf(f)' = HomeOf(f)
  BY <1>1, <1>2, Basics, MessageNames, PostKeepsHome
<1>5. \A d \in Events : Copies(m, d) = {}
  BY <1>1, UnstoredMessage
<1>6. Copies(m, c)' = {Len(messages[c]) + 1} /\ \A d \in Events : d # c => Copies(m, d)' = {}
  BY <1>3, <1>5
<1>7. Stored(e)'
  BY <1>1, <1>6 DEF Stored
<1>8. \A d, b \in Events : \A i \in Copies(m, d)', j \in Copies(m, b)' : d = b /\ i = j
  BY <1>6
<1>9. /\ \A f, d \in Events : f # e => Copies(Inbound(f), d)' = Copies(Inbound(f), d)
      /\ \A d \in Events : Copies(Goodbye, d)' = Copies(Goodbye, d)
  <2>1. Goodbye # m /\ \A f \in Events : f # e => Inbound(f) # m
    BY <1>1, MessageNames
  <2>2. QED
    BY <1>3, <2>1
<1>10. \A f, d \in Events : \A k \in Kinds :
         Copies(Answer(k, f), d)' = Copies(Answer(k, f), d)
  BY <1>1, <1>3, MessageNames
<1>11. QED
  BY <1>1, <1>3, <1>4, <1>7, <1>8, <1>9, <1>10

LEMMA StoreKeepsIInv ==
  ASSUME IInv, NEW w \in Workers, Store(w), UNCHANGED <<requests, jobs>>
  PROVE  IInv'
<1>1. PICK e \in Events, c \in Existing :
        /\ e = wev[w] /\ wev'[w] = e /\ ~Stored(e) /\ webhook[e] = "RECEIVED"
        /\ c \in Events /\ convLock[c] = Free
        /\ Post(c, Inbound(e)) /\ Inbound(e) \in Messages
        /\ conv' = [conv EXCEPT ![c].quiet = FALSE]
        /\ wpc[w] = "store" /\ wpc'[w] = "dispatch"
  BY StoreFacts
<1>2. /\ IngestNext(w)
      /\ UNCHANGED <<contacts, threads, agentRun, effects, task, webhook, locks, budgets,
                     pipeline>>
  BY DEF Store, IngestNext, IngestStep
<1>3. /\ conv' \in [Events -> ConvRows]
      /\ \A d \in Events : /\ conv'[d].status = conv[d].status
                           /\ conv'[d].mode = conv[d].mode
                           /\ conv'[d].owner = conv[d].owner
  <2>1. conv \in [Events -> ConvRows] /\ conv[c] \in ConvRows
    BY <1>1, WorkerFacts
  <2>2. [conv[c] EXCEPT !.quiet = FALSE] \in ConvRows
    BY <2>1 DEF ConvRows
  <2>3. conv' = [conv EXCEPT ![c] = [conv[c] EXCEPT !.quiet = FALSE]]
    BY <1>1
  <2>4. QED
    BY <2>1, <2>2, <2>3 DEF ConvRows
<1>4. /\ messages' \in [Events -> Seq(Messages)]
      /\ \A d \in Events : d # c => messages'[d] = messages[d]
      /\ Stored(e)'
      /\ \A f \in Events : f # e => (Stored(f)' <=> Stored(f)) /\ HomeOf(f)' = HomeOf(f)
      /\ \A d, b \in Events : \A i \in Copies(Inbound(e), d)', j \in Copies(Inbound(e), b)' :
           d = b /\ i = j
      /\ \A f, d \in Events : f # e => Copies(Inbound(f), d)' = Copies(Inbound(f), d)
      /\ \A f, d \in Events : \A k \in Kinds :
           Copies(Answer(k, f), d)' = Copies(Answer(k, f), d)
      /\ \A d \in Events : Copies(Goodbye, d)' = Copies(Goodbye, d)
  BY <1>1, StoreLogs
<1>5. /\ rpc[e] = "off" /\ task[e] = "none"
      /\ \A x \in Runs : rpc[x] # "off" => rmsg[x] # e
      /\ \A k \in Kinds : agentRun[e] # k
      /\ \A k \in Kinds, d \in Events : Copies(Answer(k, e), d) = {}
  BY <1>1, UnstoredMessage
<1>6. TablesTypeOK' /\ LocksTypeOK' /\ PipelineTypeOK' /\ RunLocals'
  BY <1>2, <1>3, <1>4, Basics
     DEF TablesTypeOK, LocksTypeOK, PipelineTypeOK, RunLocals, locks, budgets, pipeline
<1>7. \A d \in Existing : conv'[d].status # "none"
  BY <1>3 DEF Existing
<1>8. WorkerLocals' /\ IngestTypeOK' /\ ControlTypeOK' /\ RequestLocals'
  BY <1>2, <1>7, IngestLocals, IngestTypes, ControlKept
<1>9. ThreadsInv'
  BY <1>1, <1>2, <1>3, <1>4, Basics DEF ThreadsInv, Existing
<1>10. ClaimInv'
  <2>1. WorkerClaim(w)'
    BY <1>1, <1>2, <1>4, <1>5 DEF WorkerClaim, Handling, Unstored, Searching, pipeline
  <2>2. \A d \in Events : d # e => Stands(d)
    BY <1>2, <1>3, <1>4 DEF Stands, pipeline
  <2>3. EventClaim(e)'
    BY <1>1, <1>2 DEF EventClaim
  <2>4. wpc[w] \in Handling /\ WorkerMove(w)
    BY <1>1, <1>2, IngestIsMove DEF Handling, Unstored
  <2>5. QED
    BY <1>1, <2>1, <2>2, <2>3, <2>4, ClaimKept
<1>11. StoredInv'
  <2>1. \A f, d, b \in Events :
          \A i \in Copies(Inbound(f), d)', j \in Copies(Inbound(f), b)' : d = b /\ i = j
    BY <1>4, Basics DEF StoredInv
  <2>2. ASSUME NEW x \in Runs, rpc'[x] # "off"
        PROVE  Stored(rmsg[x])'
    BY <1>2, <1>4, <2>2, RunHome DEF pipeline
  <2>3. \A f \in Events : task'[f] # "none" => Stored(f)'
    BY <1>2, <1>4, <1>5, Basics DEF StoredInv
  <2>4. QED
    BY <2>1, <2>2, <2>3 DEF StoredInv
<1>12. LocksInv'
  <2>1. \A x \in Runs : rpc[x] # "off" => Home(x)' = Home(x) /\ Home(x) \in Events
    BY <1>2, <1>4, <1>5, RunHome DEF Home, pipeline
  <2>2. \A d \in Events : convLock[d] # Free => convLock[d] \in Runs
    BY Basics DEF LocksTypeOK
  <2>3. QED
    BY <1>2, <1>3, <2>1, <2>2, Basics DEF LocksInv, pipeline, locks
<1>13. AnswerInv'
  <2> SUFFICES ASSUME NEW f \in Events, NEW k \in Kinds
               PROVE  /\ \A d \in Events : Copies(Answer(k, f), d)' # {} =>
                           agentRun'[f] = k /\ Stored(f)' /\ d = HomeOf(f)'
                      /\ \A d \in Events : \A i, j \in Copies(Answer(k, f), d)' : i = j
                      /\ agentRun'[f] = k => Stored(f)' /\ Copies(Answer(k, f), HomeOf(f))' # {}
    BY DEF AnswerInv, Kinds
  <2>1. CASE f = e
    BY <1>2, <1>4, <1>5, <2>1
  <2>2. CASE f # e
    <3>1. /\ \A d \in Events : Copies(Answer(k, f), d) # {} =>
               agentRun[f] = k /\ Stored(f) /\ d = HomeOf(f)
          /\ \A d \in Events : \A i, j \in Copies(Answer(k, f), d) : i = j
          /\ agentRun[f] = k => Stored(f) /\ Copies(Answer(k, f), HomeOf(f)) # {}
      BY Basics DEF AnswerInv, Kinds
    <3>2. agentRun[f] = k => /\ HomeOf(f) \in Events
                             /\ Copies(Answer(k, f), HomeOf(f))' = Copies(Answer(k, f), HomeOf(f))
      BY <1>4, <2>2, <3>1, HomeFacts
    <3>3. QED
      BY <1>2, <1>4, <2>2, <3>1, <3>2
  <2>3. QED
    BY <2>1, <2>2
<1>14. GoodbyeInv' /\ ModeInv'
  BY <1>3, <1>4, GoodbyesKept, Basics DEF ModeInv
<1>15. RecordInv' /\ EscapedRunsAreKept'
  BY <1>2, Basics DEF RecordInv, EscapedRunsAreKept, pipeline, budgets
<1>16. QED
  BY <1>6, <1>8, <1>9, <1>10, <1>11, <1>12, <1>13, <1>14, <1>15 DEF IInv, Typed, TypeOK

LEMMA DispatchKeepsIInv ==
  ASSUME IInv, NEW w \in Workers, Dispatch(w), UNCHANGED <<requests, jobs>>
  PROVE  IInv'
<1>1. PICK e \in Events :
        /\ e = wev[w] /\ wev'[w] = e /\ Start(e, e) /\ wpc[w] = "dispatch" /\ wpc'[w] = "mark"
  BY WorkerFacts DEF Dispatch, Goes
<1>2. IngestNext(w) /\ UNCHANGED shared
  BY DEF Dispatch, IngestNext, IngestStep
<1>3. Stored(e) /\ rpc[e] = "off" /\ webhook[e] = "RECEIVED" /\ e \in Runs
  BY <1>1, WorkerFacts DEF WorkerClaim, Handling, Runs
<1>4. Moves(e)
  BY <1>1, <1>3, StartMoves, Basics
<1>5. /\ PipelineTypeOK' /\ RunLocals'
      /\ \A z \in Runs : z # e => /\ rpc'[z] = rpc[z] /\ rmsg'[z] = rmsg[z]
                                  /\ ract'[z] = ract[z] /\ rkind'[z] = rkind[z]
  BY <1>3, <1>4, Basics, MovesKeep
<1>6. rpc'[e] = "gate" /\ rmsg'[e] = e
  BY <1>1, <1>3, Basics, LocalTypes DEF Start
<1>7. /\ SameLogs
      /\ \A f : (Stored(f)' <=> Stored(f)) /\ HomeOf(f)' = HomeOf(f)
      /\ \A n : \A c \in Events : Copies(n, c)' = Copies(n, c)
  <2>1. SameLogs
    BY <1>2, SameLogsIf DEF shared, tables
  <2>2. QED
    BY <2>1, SameLogsSameHome DEF SameLogs
<1>8. TablesTypeOK' /\ LocksTypeOK' /\ ThreadsInv'
  BY <1>2, Basics
     DEF TablesTypeOK, LocksTypeOK, ThreadsInv, Existing, shared, tables, locks, budgets
<1>9. \A c \in Existing : conv'[c].status # "none"
  BY <1>2 DEF Existing, shared, tables
<1>10. WorkerLocals' /\ IngestTypeOK' /\ ControlTypeOK' /\ RequestLocals'
  BY <1>2, <1>9, IngestLocals, IngestTypes, ControlKept
<1>11. ClaimInv'
  <2>1. WorkerClaim(w)'
    BY <1>1, <1>2, <1>3, <1>6, <1>7
       DEF WorkerClaim, Handling, Unstored, Searching, shared, tables
  <2>2. \A d \in Events : d # e => Stands(d)
    BY <1>2, <1>5, <1>7 DEF Stands, Runs, shared, tables
  <2>3. EventClaim(e)'
    BY <1>2, <1>3, <1>6, <1>7 DEF EventClaim, shared, tables
  <2>4. wpc[w] \in Handling /\ WorkerMove(w)
    BY <1>1, <1>2, IngestIsMove DEF Handling
  <2>5. QED
    BY <1>1, <2>1, <2>2, <2>3, <2>4, ClaimKept
<1>12. StoredInv'
  <2>1. \A f, d, b \in Events :
          \A i \in Copies(Inbound(f), d)', j \in Copies(Inbound(f), b)' : d = b /\ i = j
    BY <1>7, Basics DEF StoredInv
  <2>2. ASSUME NEW x \in Runs, rpc'[x] # "off"
        PROVE  Stored(rmsg[x])'
    BY <1>3, <1>5, <1>6, <1>7, <2>2, RunHome
  <2>3. \A f \in Events : task'[f] # "none" => Stored(f)'
    BY <1>2, <1>7, Basics DEF StoredInv, shared, tables
  <2>4. QED
    BY <2>1, <2>2, <2>3 DEF StoredInv
<1>13. LocksInv'
  <2>1. \A x \in Runs : x # e => Home(x)' = Home(x)
    BY <1>5, <1>7 DEF Home
  <2>2. /\ \A d \in Events : convLock[d] # Free => convLock[d] \in Runs
        /\ \A d \in Events : runLock[d] # Free => runLock[d] \in Runs
    BY Basics DEF LocksTypeOK
  <2>3. UNCHANGED <<conv, agentRun, convLock, runLock>> /\ "off" \notin InTx /\ "gate" \notin InTx
    BY <1>2 DEF shared, tables, locks, InTx
  <2>4. /\ \A d \in Events : convLock[d] # e
        /\ \A d \in Events : runLock[d] # e
    <3>1. e # Free
      BY <1>3, PipelineAssumption, Zenon
    <3>2. QED
      BY <1>3, <2>3, <3>1, Basics DEF LocksInv
  <2>5. LocksInv
    BY Basics
  <2> HIDE DEF InTx
  <2>6. \A x \in Runs :
          /\ rpc'[x] \in InTx => runLock'[rmsg'[x]] = x /\ agentRun'[rmsg'[x]] = "none"
          /\ rpc'[x] = "commit" => /\ convLock'[Home(x)'] = x
                                   /\ conv'[Home(x)'].mode = "AGENT"
    BY <1>5, <1>6, <2>1, <2>3, <2>5 DEF LocksInv
  <2>7. /\ \A d \in Events : runLock'[d] # Free =>
             rpc'[runLock'[d]] \in InTx /\ rmsg'[runLock'[d]] = d
        /\ \A d \in Events : convLock'[d] # Free =>
             rpc'[convLock'[d]] = "commit" /\ Home(convLock[d])' = d
    BY <1>5, <2>1, <2>2, <2>3, <2>4, <2>5 DEF LocksInv
  <2>8. QED
    BY <2>6, <2>7 DEF LocksInv
<1>14. AnswerInv'
  BY <1>2, SameHistoryIf, AnswersKept DEF shared, tables
<1>15. GoodbyeInv' /\ ModeInv'
  BY <1>2, <1>7, GoodbyesKept, Basics DEF ModeInv, shared, tables
<1>16. RecordInv' /\ EscapedRunsAreKept'
  BY <1>2, <1>5, <1>6, Basics
     DEF RecordInv, EscapedRunsAreKept, Runs, shared, tables, budgets
<1>17. QED
  BY <1>5, <1>8, <1>10, <1>11, <1>12, <1>13, <1>14, <1>15, <1>16
     DEF IInv, Typed, TypeOK

LEMMA IngestKeepsIInv ==
  ASSUME IInv, NEW w \in Workers, Ingest(w)
  PROVE  IInv'
BY UnobtrusiveKeepsIInv, CreateThreadKeepsIInv, StoreKeepsIInv, DispatchKeepsIInv
   DEF Ingest, IngestNext, IngestStep, Unobtrusive

-----------------------------------------------------------------------------
(* Steps on a single conversation.                                         *)

\* All of the invariant but what it says of the users and the jobs.
PipelineInv ==
    /\ TablesTypeOK /\ LocksTypeOK /\ PipelineTypeOK /\ IngestTypeOK
    /\ RunLocals /\ WorkerLocals /\ ThreadsInv
    /\ ClaimInv /\ StoredInv /\ LocksInv /\ AnswerInv /\ ModeInv
    /\ RecordInv /\ EscapedRunsAreKept

LEMMA PipelineFacts ==
  ASSUME IInv
  PROVE  PipelineInv
BY Basics DEF PipelineInv

LEMMA WholeInv ==
  ASSUME PipelineInv', ControlTypeOK', RequestLocals', GoodbyeInv'
  PROVE  IInv'
BY DEF PipelineInv, IInv, Typed, TypeOK

\* The claims depend on the existence of the rows and of the messages.
LEMMA ClaimsKept ==
  ASSUME IInv, Calm, UNCHANGED <<webhook, ingest>>,
         \A d \in Events : conv'[d].status = "none" <=> conv[d].status = "none"
  PROVE  ClaimInv'
<1>1. \A f \in Events : Stored(f)' <=> Stored(f)
  BY CalmKeeps
<1>2. \A w \in Workers : wpc[w] \in Handling => wev[w] \in Events
  BY Basics DEF WorkerLocals, Handling, Unstored, Searching
<1>3. UNCHANGED <<webhook, wpc, wev, rpc>>
  BY DEF Calm, ingest, pipeline
<1>4. \A w \in Workers : WorkerClaim(w)'
  BY <1>1, <1>2, <1>3, Basics
     DEF ClaimInv, WorkerClaim, Handling, Unstored, Searching
<1>5. \A e \in Events : EventClaim(e)'
  BY <1>1, <1>3, Basics DEF ClaimInv, EventClaim
<1>6. QED
  BY <1>3, <1>4, <1>5, Basics DEF ClaimInv

\* Steps that read the conversations only.
LEMMA QuietKeepsAll ==
  ASSUME IInv, Quiet, UNCHANGED <<contacts, webhook, ingest>>
  PROVE  PipelineInv'
<1>1. TablesTypeOK' /\ WorkerLocals' /\ IngestTypeOK'
  BY Basics DEF TablesTypeOK, WorkerLocals, IngestTypeOK, Existing, ingest, Quiet, Calm
<1>2. ClaimInv'
  BY ClaimsKept DEF Quiet
<1>3. QED
  BY <1>1, <1>2, CalmKeeps, QuietKeeps DEF PipelineInv, Quiet

\* A row may be rewritten while no run holds it, as long as it stays one that
\* exists, is closed if it was, and belongs to nobody in AGENT mode.
LEMMA RowWriteKeeps ==
  ASSUME IInv, Calm,
         UNCHANGED <<contacts, threads, messages, effects, webhook, ingest>>,
         NEW c \in Existing, NEW row \in ConvRows, convLock[c] = Free,
         conv' = [conv EXCEPT ![c] = row],
         row.status # "none",
         row.mode = "AGENT" => row.owner = Nobody
  PROVE  PipelineInv' /\ \A d \in Existing : conv'[d].status # "none"
<1>1. /\ c \in Events /\ conv[c].status # "none"
      /\ conv \in [Events -> ConvRows]
  BY Basics DEF Existing, TablesTypeOK
<1>2. /\ conv' \in [Events -> ConvRows]
      /\ conv'[c] = row /\ \A d \in Events : d # c => conv'[d] = conv[d]
  BY <1>1
<1>3. \A d \in Events : conv'[d].status = "none" <=> conv[d].status = "none"
  BY <1>1, <1>2
<1>4. TablesTypeOK'
  BY <1>2, Basics DEF TablesTypeOK, Calm
<1>5. ClaimInv'
  BY <1>3, ClaimsKept
<1>6. LocksInv'
  BY <1>2, CalmLocks
<1>7. ModeInv'
  BY <1>2, Basics DEF ModeInv
<1>8. ThreadsInv'
  BY <1>3, Basics DEF ThreadsInv, Existing
<1>9. WorkerLocals' /\ IngestTypeOK'
  BY <1>3, Basics DEF WorkerLocals, IngestTypeOK, ingest, Existing
<1>10. QED
  BY <1>3, <1>4, <1>5, <1>6, <1>7, <1>8, <1>9, CalmKeeps DEF PipelineInv, Existing

\* A message of a user or of the job in a conversation that exists.
LEMMA RemarkKeeps ==
  ASSUME IInv, NEW c \in Existing, NEW m \in Messages, Post(c, m),
         \A e \in Events : m # Inbound(e) /\ \A k \in Kinds : m # Answer(k, e),
         UNCHANGED <<contacts, threads, conv, agentRun, effects, task, webhook, locks,
                     budgets, pipeline, ingest>>
  PROVE  PipelineInv'
<1>1. c \in Events /\ conv[c].status # "none"
  BY DEF Existing
<1>2. SameHistory
  BY <1>1, Basics, PostKeepsHistory
<1>3. Calm
  BY <1>2, Basics, StateAssumption DEF Calm, budgets, LocksTypeOK
<1>4. /\ messages' \in [Events -> Seq(Messages)]
      /\ \A d \in Events : d # c => messages'[d] = messages[d]
  BY <1>1, Basics, PostCopies
<1>5. TablesTypeOK'
  BY <1>4, Basics DEF TablesTypeOK
<1>6. ThreadsInv'
  BY <1>1, <1>4, Basics DEF ThreadsInv, Existing
<1>7. ClaimInv' /\ LocksInv' /\ ModeInv'
  BY <1>3, ClaimsKept, CalmLocks, Basics DEF ModeInv
<1>8. WorkerLocals' /\ IngestTypeOK'
  BY Basics DEF WorkerLocals, IngestTypeOK, ingest, Existing
<1>9. QED
  BY <1>3, <1>5, <1>6, <1>7, <1>8, CalmKeeps DEF PipelineInv

-----------------------------------------------------------------------------
(* The steps of the users.                                                 *)

\* What a request holds after its step, and that it leaves the others' alone.
LEMMA RequestLocalsKept ==
  ASSUME IInv, NEW q \in Requests, RequestNext(q), UNCHANGED jobs,
         \A d \in Existing : conv'[d].status # "none"
  PROVE  ControlTypeOK' /\ RequestLocals'
<1>1. /\ qpc \in [Requests -> {"idle", "takeover", "handback", "send"}]
      /\ quser \in [Requests -> Users \union {Nobody}]
      /\ qconv \in [Requests -> Events \union {Nobody}]
  BY Basics DEF ControlTypeOK
<1>2. \/ Ended(q)
      \/ \E l \in {"takeover", "handback", "send"}, u \in Users, c \in Events :
           Passes(q, l, u, c)
  BY DEF RequestNext, RequestStep, RequestFails, TakeoverSwap, HandbackSwap,
     SendPersist, Swap, TakeoverRead, HandbackRead, SendRead
<1>3. /\ qpc' \in [Requests -> {"idle", "takeover", "handback", "send"}]
      /\ quser' \in [Requests -> Users \union {Nobody}]
      /\ qconv' \in [Requests -> Events \union {Nobody}]
  BY <1>1, <1>2 DEF Ended, Passes
<1>4. \A p \in Requests : qpc'[p] # "idle" => quser'[p] \in Users /\ qconv'[p] \in Existing
  BY <1>1, <1>2, Basics DEF Ended, Passes, RequestLocals
<1>5. \A p \in Requests : qpc'[p] # "idle" => quser'[p] \in Users /\ qconv'[p] \in Existing'
  BY <1>4 DEF Existing
<1>6. QED
  BY <1>3, <1>5, Basics DEF ControlTypeOK, RequestLocals, jobs

LEMMA SwapKeeps ==
  ASSUME IInv, NEW q \in Requests, qpc[q] # "idle",
         TakeoverSwap(q) \/ HandbackSwap(q),
         UNCHANGED <<pipeline, ingest>>
  PROVE  /\ PipelineInv'
         /\ \A d \in Existing : conv'[d].status # "none"
         /\ \A c \in Events : conv[c].status = "CLOSED" => conv'[c].status = "CLOSED"
<1> DEFINE c == qconv[q]
<1>1. /\ c \in Existing /\ c \in Events /\ quser[q] \in Users
      /\ conv \in [Events -> ConvRows] /\ conv[c] \in ConvRows /\ conv[c].status # "none"
  BY Basics DEF RequestLocals, TablesTypeOK, Existing
<1>2. /\ UNCHANGED <<contacts, threads, messages, agentRun, effects, task, webhook,
                     locks, budgets, pipeline, ingest>>
      /\ convLock[c] = Free
  BY DEF TakeoverSwap, HandbackSwap, Swap
<1>3. Calm
  BY <1>2, SameHistoryIf, Basics, StateAssumption DEF Calm, budgets, LocksTypeOK
<1> DEFINE taken == [conv[c] EXCEPT !.mode = "HUMAN", !.owner = quser[q]]
           back == [conv[c] EXCEPT !.mode = "AGENT", !.owner = Nobody]
<1>4. \/ conv' = [conv EXCEPT ![c] = taken]
      \/ conv' = [conv EXCEPT ![c] = back]
      \/ conv' = conv
  BY DEF TakeoverSwap, HandbackSwap, Swap, TakenBy
<1>5. /\ taken \in ConvRows /\ taken.status = conv[c].status
      /\ taken.mode = "HUMAN"
      /\ back \in ConvRows /\ back.status = conv[c].status
      /\ back.mode = "AGENT" /\ back.owner = Nobody
  BY <1>1 DEF ConvRows
<1>6. CASE conv' = conv
  <2>1. Quiet
    BY <1>2, <1>3, <1>6 DEF Quiet
  <2>2. QED
    BY <1>2, <1>6, <2>1, QuietKeepsAll DEF Existing
<1>7. ASSUME NEW row \in ConvRows, conv' = [conv EXCEPT ![c] = row],
             row.status = conv[c].status, row.mode = "AGENT" => row.owner = Nobody
      PROVE  /\ PipelineInv'
             /\ \A d \in Existing : conv'[d].status # "none"
             /\ \A d \in Events : conv[d].status = "CLOSED" => conv'[d].status = "CLOSED"
  <2>1. PipelineInv' /\ \A d \in Existing : conv'[d].status # "none"
    BY <1>1, <1>2, <1>3, <1>7, RowWriteKeeps
  <2>2. QED
    BY <1>1, <1>7, <2>1
<1>8. QED
  BY <1>4, <1>5, <1>6, <1>7

LEMMA RequestKeepsIInv ==
  ASSUME IInv, NEW q \in Requests, Request(q)
  PROVE  IInv'
<1>1. RequestNext(q) /\ UNCHANGED <<pipeline, ingest, jobs>>
  BY DEF Request
<1>2. CASE \/ RequestFails(q)
           \/ \E u \in Users, c \in Events :
                TakeoverRead(q, u, c) \/ HandbackRead(q, u, c) \/ SendRead(q, u, c)
  <2>1. UNCHANGED shared
    BY <1>2 DEF RequestFails, TakeoverRead, HandbackRead, SendRead, Passes
  <2>2. Quiet /\ UNCHANGED <<contacts, webhook, ingest>>
    BY <1>1, <2>1, SameHistoryIf, Basics, StateAssumption
       DEF Quiet, Calm, shared, tables, budgets, LocksTypeOK
  <2>3. PipelineInv'
    BY <2>2, QuietKeepsAll
  <2>4. ControlTypeOK' /\ RequestLocals'
    BY <1>1, <2>2, RequestLocalsKept DEF Quiet, Existing
  <2>5. GoodbyeInv'
    BY <1>1, <2>2, SameLogsIf, GoodbyesKept DEF Quiet, SameLogs
  <2>6. QED
    BY <2>3, <2>4, <2>5, WholeInv
<1>3. CASE TakeoverSwap(q) \/ HandbackSwap(q)
  <2>1. qpc[q] # "idle" /\ UNCHANGED messages
    BY <1>3 DEF TakeoverSwap, HandbackSwap, Swap
  <2>2. /\ PipelineInv'
        /\ \A d \in Existing : conv'[d].status # "none"
        /\ \A c \in Events : conv[c].status = "CLOSED" => conv'[c].status = "CLOSED"
    BY <1>1, <1>3, <2>1, SwapKeeps
  <2>3. ControlTypeOK' /\ RequestLocals'
    BY <1>1, <2>2, RequestLocalsKept
  <2>4. GoodbyeInv'
    BY <1>1, <2>1, <2>2, SameLogsIf, GoodbyesKept DEF SameLogs
  <2>5. QED
    BY <2>2, <2>3, <2>4, WholeInv
<1>4. CASE SendPersist(q)
  <2>1. PICK u \in Users, c \in Existing :
          /\ Post(c, Human(u)) /\ Human(u) \in Messages
          /\ UNCHANGED <<contacts, threads, conv, agentRun, effects, task, webhook, locks,
                         budgets>>
    <3>1. qpc[q] # "idle"
      BY <1>4 DEF SendPersist
    <3>2. quser[q] \in Users /\ qconv[q] \in Existing
      BY <3>1, Basics DEF RequestLocals
    <3>3. QED
      BY <1>4, <3>2, MessageNames DEF SendPersist
  <2>2. /\ \A e \in Events : /\ Human(u) # Inbound(e)
                             /\ \A k \in Kinds : Human(u) # Answer(k, e)
        /\ Goodbye # Human(u)
    BY MessageNames
  <2>3. PipelineInv'
    BY <1>1, <2>1, <2>2, RemarkKeeps
  <2>4. \A d \in Existing : conv'[d].status # "none"
    BY <2>1 DEF Existing
  <2>5. ControlTypeOK' /\ RequestLocals'
    BY <1>1, <2>4, RequestLocalsKept
  <2>6. \A d \in Events : Copies(Goodbye, d)' = Copies(Goodbye, d)
    <3>1. c \in Events
      BY DEF Existing
    <3>2. PICK m \in Messages : m = Human(u)
      BY <2>1
    <3>3. QED
      BY <2>1, <2>2, <3>1, <3>2, Basics, PostCopies
  <2>7. GoodbyeInv'
    BY <1>1, <2>1, <2>6, GoodbyesKept
  <2>8. QED
    BY <2>3, <2>5, <2>7, WholeInv
<1>5. QED
  BY <1>1, <1>2, <1>3, <1>4 DEF RequestNext, RequestStep

-----------------------------------------------------------------------------
(* The steps of the jobs.                                                  *)

JobFacts(j) ==
    /\ jpc \in [Jobs -> {"idle", "close", "goodbye"}]
    /\ jset \in [Jobs -> SUBSET Events]
    /\ jcur \in [Jobs -> Events \union {Nobody}]
    /\ \A i \in Jobs : jpc[i] = "goodbye" => jcur[i] \in Events

\* What a job holds after its step, and that it leaves the others' alone.
LEMMA JobLocalsKept ==
  ASSUME IInv, NEW j \in Jobs, JobNext(j), UNCHANGED requests,
         \A d \in Existing : conv'[d].status # "none"
  PROVE  /\ ControlTypeOK' /\ RequestLocals'
         /\ \A i \in Jobs : i # j => jpc'[i] = jpc[i] /\ jcur'[i] = jcur[i]
<1>1. JobFacts(j)
  BY Basics DEF ControlTypeOK, RequestLocals, JobFacts
<1>2. /\ JobFacts(j)'
      /\ \A i \in Jobs : i # j => jpc'[i] = jpc[i] /\ jcur'[i] = jcur[i]
  <2>1. CASE Scan(j) \/ CycleEnds(j) \/ CycleFails(j)
    BY <1>1, <2>1 DEF Scan, CycleEnds, CycleFails, JobFacts
  <2>2. ASSUME NEW c \in Events, Close(j, c) \/ Skip(j, c)
        PROVE  /\ JobFacts(j)'
               /\ \A i \in Jobs : i # j => jpc'[i] = jpc[i] /\ jcur'[i] = jcur[i]
    BY <1>1, <2>2 DEF Close, CloseThread, Skip, JobFacts
  <2>3. CASE SayGoodbye(j)
    BY <1>1, <2>3 DEF SayGoodbye, JobFacts
  <2>4. QED
    BY <2>1, <2>2, <2>3 DEF JobNext, JobStep
<1>3. \A q \in Requests : qpc[q] # "idle" => qconv[q] \in Existing'
  BY Basics DEF RequestLocals, Existing
<1>4. QED
  BY <1>2, <1>3, Basics DEF ControlTypeOK, RequestLocals, requests, JobFacts

\* A job that does not go on to a goodbye.
LEMMA NoGoodbye ==
  ASSUME IInv, NEW j \in Jobs, jpc'[j] # "goodbye", SameLogs,
         \A i \in Jobs : i # j => jpc'[i] = jpc[i] /\ jcur'[i] = jcur[i],
         UNCHANGED conv
  PROVE  GoodbyeInv'
<1>1. \A c \in Events : Copies(Goodbye, c)' = Copies(Goodbye, c)
  BY DEF SameLogs
<1>2. ASSUME NEW i \in Jobs, jpc'[i] = "goodbye"
      PROVE  /\ conv'[jcur'[i]].status = "CLOSED"
             /\ Copies(Goodbye, jcur[i])' = {}
             /\ \A k \in Jobs : jpc'[k] = "goodbye" /\ jcur'[k] = jcur'[i] => k = i
  <2>1. i # j /\ jpc[i] = "goodbye" /\ jcur'[i] = jcur[i] /\ jcur[i] \in Events
    BY <1>2, Basics DEF RequestLocals
  <2>2. Copies(Goodbye, jcur[i])' = {}
    BY <1>1, <2>1, Basics DEF GoodbyeInv
  <2>3. QED
    BY <2>1, <2>2, Basics DEF GoodbyeInv
<1>3. \A c \in Events : /\ Copies(Goodbye, c)' # {} => conv'[c].status = "CLOSED"
                        /\ \A i, k \in Copies(Goodbye, c)' : i = k
  BY <1>1, Basics DEF GoodbyeInv
<1>4. QED
  BY <1>2, <1>3 DEF GoodbyeInv

LEMMA CloseKeepsIInv ==
  ASSUME IInv, NEW j \in Jobs, NEW c \in Events, Close(j, c), Job(j)
  PROVE  IInv'
<1>1. JobNext(j) /\ UNCHANGED <<pipeline, ingest, requests>>
  BY DEF Job
<1>2. /\ convLock[c] = Free /\ conv[c].status = "OPEN" /\ conv[c].mode = "AGENT"
      /\ conv' = [conv EXCEPT ![c].status = "CLOSED",
                              ![c].lifecycle = "AUTO_CLOSED_INACTIVE"]
      /\ UNCHANGED <<contacts, threads, messages, agentRun, effects, task, webhook,
                     locks, budgets>>
      /\ jpc' = [jpc EXCEPT ![j] = "goodbye"] /\ jcur' = [jcur EXCEPT ![j] = c]
  BY DEF Close, CloseThread, ClosedRow, Closable
<1>3. /\ conv \in [Events -> ConvRows] /\ conv[c] \in ConvRows
      /\ jpc \in [Jobs -> {"idle", "close", "goodbye"}]
      /\ jcur \in [Jobs -> Events \union {Nobody}]
  BY Basics DEF TablesTypeOK, ControlTypeOK
<1>4. conv[c].owner = Nobody /\ c \in Existing
  BY <1>2, Basics DEF ModeInv, Existing
<1> DEFINE row == [conv[c] EXCEPT !.status = "CLOSED", !.lifecycle = "AUTO_CLOSED_INACTIVE"]
<1>5. /\ row \in ConvRows /\ row.status = "CLOSED" /\ row.owner = Nobody
      /\ conv' = [conv EXCEPT ![c] = row]
  <2>1. "AUTO_CLOSED_INACTIVE" \in LifecycleStatuses
    BY DEF LifecycleStatuses, AnyNonTerminal, CommonTargets, ClosedLifecycles
  <2>2. row \in ConvRows /\ row.status = "CLOSED" /\ row.owner = Nobody
    BY <1>3, <1>4, <2>1 DEF ConvRows
  <2>3. conv' = [conv EXCEPT ![c] = row]
    BY <1>2
  <2>4. QED
    BY <2>2, <2>3
<1> HIDE DEF row
<1>6. PipelineInv' /\ \A d \in Existing : conv'[d].status # "none"
  <2>1. Calm
    BY <1>1, <1>2, SameHistoryIf, Basics, StateAssumption DEF Calm, budgets, LocksTypeOK
  <2>2. QED
    BY <1>1, <1>2, <1>4, <1>5, <2>1, RowWriteKeeps
<1>7. ControlTypeOK' /\ RequestLocals'
  BY <1>1, <1>6, JobLocalsKept
<1>8. GoodbyeInv'
  <2>1. /\ \A d \in Events : Copies(Goodbye, d)' = Copies(Goodbye, d)
    BY <1>2, SameLogsIf DEF SameLogs
  <2>2. /\ conv'[c].status = "CLOSED"
        /\ \A d \in Events : d # c => conv'[d] = conv[d]
    BY <1>3, <1>5
  <2>3. Copies(Goodbye, c) = {}
    BY <1>2, Basics DEF GoodbyeInv
  <2>4. ASSUME NEW i \in Jobs, jpc'[i] = "goodbye"
        PROVE  /\ conv'[jcur'[i]].status = "CLOSED"
               /\ Copies(Goodbye, jcur[i])' = {}
               /\ \A k \in Jobs : jpc'[k] = "goodbye" /\ jcur'[k] = jcur'[i] => k = i
    <3>1. CASE i = j
      <4>1. jcur'[i] = c
        BY <1>2, <1>3, <3>1
      <4>2. Copies(Goodbye, c)' = {}
        BY <2>1, <2>3
      <4>3. \A k \in Jobs : k # j /\ jpc'[k] = "goodbye" => jcur'[k] # c
        BY <1>2, <1>3, Basics DEF GoodbyeInv
      <4>4. QED
        BY <2>2, <3>1, <4>1, <4>2, <4>3
    <3>2. CASE i # j
      <4>1. /\ jpc[i] = "goodbye" /\ jcur'[i] = jcur[i] /\ jcur[i] \in Events
            /\ conv[jcur[i]].status = "CLOSED" /\ jcur[i] # c
            /\ Copies(Goodbye, jcur[i]) = {}
        BY <1>2, <1>3, <2>4, <3>2, Basics DEF RequestLocals, GoodbyeInv
      <4>2. Copies(Goodbye, jcur[i])' = {}
        BY <2>1, <4>1
      <4>3. \A k \in Jobs : jpc'[k] = "goodbye" /\ jcur'[k] = jcur'[i] => k = i
        BY <1>2, <1>3, <3>2, <4>1, Basics DEF GoodbyeInv
      <4>4. QED
        BY <2>2, <4>1, <4>2, <4>3
    <3>3. QED
      BY <3>1, <3>2
  <2>5. \A d \in Events : /\ Copies(Goodbye, d)' # {} => conv'[d].status = "CLOSED"
                          /\ \A i, k \in Copies(Goodbye, d)' : i = k
    BY <2>1, <2>2, Basics DEF GoodbyeInv
  <2>6. QED
    BY <2>4, <2>5 DEF GoodbyeInv
<1>9. QED
  BY <1>6, <1>7, <1>8, WholeInv

LEMMA GoodbyeKeepsIInv ==
  ASSUME IInv, NEW j \in Jobs, SayGoodbye(j), Job(j)
  PROVE  IInv'
<1>1. /\ JobNext(j) /\ UNCHANGED <<pipeline, ingest, requests>>
      /\ UNCHANGED <<contacts, threads, conv, agentRun, effects, task, webhook, locks,
                     budgets>>
  BY DEF Job, SayGoodbye
<1>2. \A d \in Existing : conv'[d].status # "none"
  BY <1>1 DEF Existing
<1>3. /\ ControlTypeOK' /\ RequestLocals'
      /\ \A i \in Jobs : i # j => jpc'[i] = jpc[i] /\ jcur'[i] = jcur[i]
  BY <1>1, <1>2, JobLocalsKept
<1>4. jpc[j] = "goodbye" /\ jpc'[j] = "close"
  BY Basics DEF SayGoodbye, ControlTypeOK
<1>5. CASE UNCHANGED messages
  <2>1. Quiet
    BY <1>1, <1>5, SameHistoryIf, Basics, StateAssumption
       DEF Quiet, Calm, budgets, LocksTypeOK
  <2>2. PipelineInv'
    BY <1>1, <2>1, QuietKeepsAll
  <2>3. GoodbyeInv'
    BY <1>1, <1>3, <1>4, <1>5, SameLogsIf, NoGoodbye
  <2>4. QED
    BY <1>3, <2>2, <2>3, WholeInv
<1>6. CASE Post(jcur[j], Goodbye)
  <2>1. PICK c \in Events, m \in Messages :
          /\ c = jcur[j] /\ m = Goodbye /\ Post(c, m)
          /\ conv[c].status = "CLOSED" /\ Copies(Goodbye, c) = {}
    BY <1>4, <1>6, MessageNames, Basics DEF RequestLocals, GoodbyeInv
  <2>2. /\ c \in Existing
        /\ \A e \in Events : /\ m # Inbound(e)
                             /\ \A k \in Kinds : m # Answer(k, e)
    BY <2>1, MessageNames DEF Existing
  <2>3. PipelineInv'
    BY <1>1, <2>1, <2>2, RemarkKeeps
  <2>4. /\ Copies(m, c)' = {Len(messages[c]) + 1}
        /\ \A d \in Events : d # c => Copies(m, d)' = Copies(m, d)
    BY <2>1, Basics, PostCopies
  <2>5. \A d \in Events : /\ Copies(m, d)' # {} => conv'[d].status = "CLOSED"
                          /\ \A i, k \in Copies(m, d)' : i = k
    BY <1>1, <2>1, <2>4, Basics DEF GoodbyeInv
  <2>6. ASSUME NEW i \in Jobs, jpc'[i] = "goodbye"
        PROVE  /\ conv'[jcur'[i]].status = "CLOSED"
               /\ Copies(Goodbye, jcur[i])' = {}
               /\ \A k \in Jobs : jpc'[k] = "goodbye" /\ jcur'[k] = jcur'[i] => k = i
    <3>1. /\ i # j /\ jpc[i] = "goodbye" /\ jcur'[i] = jcur[i] /\ jcur[i] \in Events
      BY <1>3, <1>4, <2>6, Basics DEF RequestLocals
    <3>2. jcur[i] # c
      BY <1>4, <2>1, <3>1, Basics DEF GoodbyeInv
    <3>3. Copies(Goodbye, jcur[i])' = {}
      BY <2>1, <2>4, <3>1, <3>2, Basics DEF GoodbyeInv
    <3>4. QED
      BY <1>1, <1>3, <1>4, <3>1, <3>3, Basics DEF GoodbyeInv
  <2>7. GoodbyeInv'
    BY <2>1, <2>5, <2>6 DEF GoodbyeInv
  <2>8. QED
    BY <1>3, <2>3, <2>7, WholeInv
<1>7. QED
  BY <1>5, <1>6 DEF SayGoodbye

LEMMA JobKeepsIInv ==
  ASSUME IInv, NEW j \in Jobs, Job(j)
  PROVE  IInv'
<1>1. JobNext(j) /\ UNCHANGED <<pipeline, ingest, requests>>
  BY DEF Job
<1>2. CASE \/ Scan(j) \/ CycleEnds(j) \/ CycleFails(j)
           \/ \E c \in Events : Skip(j, c)
  <2>1. jpc'[j] # "goodbye"
    BY <1>2, Basics DEF Scan, CycleEnds, CycleFails, Skip, ControlTypeOK
  <2>2. Quiet /\ UNCHANGED <<contacts, webhook>>
    BY <1>1, <1>2, SameHistoryIf, Basics, StateAssumption
       DEF Quiet, Calm, Scan, CycleEnds, CycleFails, Skip, shared, tables, budgets,
           LocksTypeOK
  <2>3. PipelineInv'
    BY <1>1, <2>2, QuietKeepsAll
  <2>4. /\ ControlTypeOK' /\ RequestLocals'
        /\ \A i \in Jobs : i # j => jpc'[i] = jpc[i] /\ jcur'[i] = jcur[i]
    BY <1>1, <2>2, JobLocalsKept DEF Quiet, Existing
  <2>5. GoodbyeInv'
    BY <2>1, <2>2, <2>4, SameLogsIf, NoGoodbye DEF Quiet
  <2>6. QED
    BY <2>3, <2>4, <2>5, WholeInv
<1>3. QED
  BY <1>1, <1>2, CloseKeepsIInv, GoodbyeKeepsIInv DEF JobNext, JobStep

-----------------------------------------------------------------------------
(* Time passes, the process dies, nothing happens.                         *)

LEMMA GoQuietKeepsIInv ==
  ASSUME IInv, NEW c \in Events, GoQuiet(c)
  PROVE  IInv'
<1>1. /\ c \in Existing /\ conv' = [conv EXCEPT ![c].quiet = TRUE]
      /\ UNCHANGED <<contacts, threads, messages, agentRun, effects, task, webhook,
                     locks, budgets, pipeline, ingest, requests, jobs>>
  BY DEF GoQuiet
<1>2. conv \in [Events -> ConvRows]
  BY Basics DEF TablesTypeOK
<1>3. /\ conv' \in [Events -> ConvRows]
      /\ \A d \in Events : /\ conv'[d].status = conv[d].status
                           /\ conv'[d].mode = conv[d].mode
                           /\ conv'[d].owner = conv[d].owner
  <2>1. conv[c] \in ConvRows
    BY <1>2
  <2>2. [conv[c] EXCEPT !.quiet = TRUE] \in ConvRows
    BY <2>1 DEF ConvRows
  <2>3. conv' = [conv EXCEPT ![c] = [conv[c] EXCEPT !.quiet = TRUE]]
    BY <1>1
  <2>4. QED
    BY <1>2, <2>1, <2>2, <2>3 DEF ConvRows
<1>4. Calm
  BY <1>1, SameHistoryIf, Basics, StateAssumption DEF Calm, budgets, LocksTypeOK
<1>5. PipelineInv'
  <2>1. TablesTypeOK' /\ WorkerLocals' /\ IngestTypeOK' /\ ThreadsInv' /\ ModeInv'
    BY <1>1, <1>3, Basics
       DEF TablesTypeOK, WorkerLocals, IngestTypeOK, ThreadsInv, ModeInv, Existing, ingest
  <2>2. ClaimInv' /\ LocksInv'
    BY <1>1, <1>3, <1>4, ClaimsKept, CalmLocks
  <2>3. QED
    BY <1>4, <2>1, <2>2, CalmKeeps DEF PipelineInv
<1>6. \A d \in Existing : conv'[d].status # "none"
  BY <1>3 DEF Existing
<1>7. GoodbyeInv'
  BY <1>1, <1>3, SameLogsIf, GoodbyesKept DEF SameLogs
<1>8. QED
  BY <1>1, <1>5, <1>6, <1>7, ControlKept, WholeInv

LEMMA StutterKeepsIInv ==
  ASSUME IInv, UNCHANGED vars
  PROVE  IInv'
<1>1. /\ UNCHANGED <<contacts, threads, conv, messages, agentRun, effects, task, webhook,
                     locks, budgets, pipeline, ingest, requests, jobs>>
  BY DEF vars, shared, tables
<1>2. Quiet
  BY <1>1, SameHistoryIf, Basics, StateAssumption DEF Quiet, Calm, budgets, LocksTypeOK
<1>3. PipelineInv'
  BY <1>1, <1>2, QuietKeepsAll
<1>4. GoodbyeInv'
  BY <1>1, SameLogsIf, GoodbyesKept DEF SameLogs
<1>5. QED
  BY <1>1, <1>3, <1>4, ControlKept, WholeInv DEF Existing

\* A crash ends every run, ingestion, request and cycle; what is committed
\* stays, and no lock outlives it.
LEMMA CrashKeepsIInv ==
  ASSUME IInv, Crash
  PROVE  IInv'
<1>1. /\ UNCHANGED <<contacts, threads, conv, messages, agentRun, effects, task, webhook,
                     throws, rmsg, ract, rkind>>
      /\ crashes' = crashes + 1 /\ crashes < MaxCrashes
      /\ convLock' = [c \in Events |-> Free] /\ runLock' = [e \in Events |-> Free]
      /\ rpc' = [x \in Runs |-> IF rpc[x] \in {"off", "human"} THEN rpc[x] ELSE "done"]
      /\ rseen' = [x \in Runs |-> "none"]
      /\ KillWorkers /\ KillRequests /\ KillJobs
  BY DEF Crash, KillRuns, tables
<1>2. crashes \in Nat /\ crashes' \in 0..MaxCrashes /\ crashes' # 0
  BY <1>1, StateAssumption, Basics DEF LocksTypeOK
<1>3. \A x \in Runs : /\ rpc[x] = "off" <=> rpc'[x] = "off"
                      /\ rpc'[x] \in {"off", "human", "done"}
                      /\ rpc'[x] = "off" \/ rpc'[x] = "done" \/ rpc'[x] = rpc[x]
                      /\ rpc'[x] \notin Recording \union InTx
                      /\ rpc'[x] = "human" => rpc[x] = "human"
  BY <1>1, Basics DEF PipelineTypeOK, Recording, InTx
<1>4. SameHistory /\ SameLogs
  BY <1>1, SameHistoryIf, SameLogsIf
<1>5. TablesTypeOK' /\ LocksTypeOK' /\ ThreadsInv'
  BY <1>1, <1>2, Basics DEF TablesTypeOK, LocksTypeOK, ThreadsInv, Existing
<1>6. PipelineTypeOK'
  BY <1>1, Basics DEF PipelineTypeOK, RunStates
<1>7. RunLocals'
  BY <1>1, <1>3, Basics DEF RunLocals, RunLocal, Undecided, Recording, InTx
<1>8. IngestTypeOK' /\ WorkerLocals' /\ ControlTypeOK' /\ RequestLocals'
  BY <1>1, Basics
     DEF IngestTypeOK, WorkerLocals, ControlTypeOK, RequestLocals, KillWorkers,
         KillRequests, KillJobs
<1>9. ClaimInv'
  <2>1. \A w \in Workers : wpc'[w] = "idle"
    BY <1>1 DEF KillWorkers
  <2>2. \A e \in Events : /\ Stored(e)' <=> Stored(e)
                          /\ rpc[e] = "off" <=> rpc'[e] = "off"
    BY <1>3, <1>4 DEF SameHistory, Runs
  <2>3. \A w \in Workers : WorkerClaim(w)'
    BY <2>1 DEF WorkerClaim, Handling, Unstored, Searching
  <2>4. \A e \in Events : EventClaim(e)'
    BY <1>1, <2>2, Basics DEF ClaimInv, EventClaim
  <2>5. QED
    BY <2>1, <2>3, <2>4 DEF ClaimInv, Handling, Unstored, Searching
<1>10. StoredInv'
  <2>1. \A f, d, b \in Events :
          \A i \in Copies(Inbound(f), d)', j \in Copies(Inbound(f), b)' : d = b /\ i = j
    BY <1>4, Basics DEF SameHistory, StoredInv
  <2>2. ASSUME NEW x \in Runs, rpc'[x] # "off"
        PROVE  Stored(rmsg[x])'
    BY <1>1, <1>3, <1>4, <2>2, RunHome DEF SameHistory
  <2>3. \A f \in Events : task'[f] # "none" => Stored(f)'
    BY <1>1, <1>4, Basics DEF StoredInv, SameHistory
  <2>4. QED
    BY <2>1, <2>2, <2>3 DEF StoredInv
<1>11. LocksInv'
  BY <1>1, <1>3 DEF LocksInv, InTx
<1>12. AnswerInv'
  BY <1>1, <1>4, AnswersKept
<1>13. GoodbyeInv' /\ ModeInv'
  <2>1. \A j \in Jobs : jpc'[j] = "idle"
    BY <1>1 DEF KillJobs
  <2>2. \A c \in Events : /\ Copies(Goodbye, c)' # {} => conv'[c].status = "CLOSED"
                          /\ \A i, j \in Copies(Goodbye, c)' : i = j
    BY <1>1, <1>4, Basics DEF SameLogs, GoodbyeInv
  <2>3. QED
    BY <1>1, <2>1, <2>2, Basics DEF GoodbyeInv, ModeInv
<1>14. RecordInv' /\ EscapedRunsAreKept'
  BY <1>1, <1>2, <1>3, Basics DEF RecordInv, EscapedRunsAreKept, Runs
<1>15. QED
  BY <1>5, <1>6, <1>7, <1>8, <1>9, <1>10, <1>11, <1>12, <1>13, <1>14
     DEF IInv, Typed, TypeOK

-----------------------------------------------------------------------------
(* The invariant.                                                          *)

LEMMA InitIsIInv ==
  ASSUME Init
  PROVE  IInv
<1>1. InitState /\ InitPipeline /\ InitIngest /\ InitRequests /\ InitJobs
  BY DEF Init
<1>2. /\ \A n : \A c \in Events : Copies(n, c) = {}
      /\ \A e : ~Stored(e)
      /\ \A x \in Runs : rpc[x] = "off" /\ rmsg[x] = Nothing /\ ract[x] = "none"
                         /\ rkind[x] = "none"
  <2>1. \A n : \A c \in Events : Copies(n, c) = {}
    BY <1>1 DEF InitState, Copies
  <2>2. QED
    BY <1>1, <2>1 DEF InitPipeline, Stored
<1>3. TypeOK
  <2>1. TablesTypeOK
    <3>1. \A c \in Events : [NewThread(c) EXCEPT !.status = "none"] \in ConvRows
      <4>1. \A c \in Events : NewThread(c) \in ConvRows
        BY DEF ConvRows, NewThread, LifecycleStatuses
      <4>2. QED
        BY <4>1 DEF ConvRows
    <3>2. conv \in [Events -> ConvRows]
      BY <1>1, <3>1 DEF InitState
    <3>3. QED
      BY <1>1, <3>2 DEF InitState, TablesTypeOK
  <2>2. LocksTypeOK /\ PipelineTypeOK
    BY <1>1, StateAssumption
       DEF InitState, InitPipeline, LocksTypeOK, PipelineTypeOK, RunStates
  <2>3. IngestTypeOK /\ ControlTypeOK
    BY <1>1 DEF InitIngest, InitRequests, InitJobs, IngestTypeOK, ControlTypeOK
  <2>4. QED
    BY <2>1, <2>2, <2>3 DEF TypeOK
<1>4. Typed
  BY <1>1, <1>2, <1>3
     DEF Typed, RunLocals, RunLocal, Undecided, Recording, InTx, WorkerLocals, RequestLocals,
         ThreadsInv, InitState, InitIngest, InitRequests, InitJobs
<1>5. ClaimInv
  BY <1>1, <1>2 DEF ClaimInv, WorkerClaim, EventClaim, Handling, Unstored, Searching,
     InitState, InitIngest, NewThread
<1>6. StoredInv /\ LocksInv
  BY <1>1, <1>2 DEF StoredInv, LocksInv, InitState, InTx
<1>7. AnswerInv
  BY <1>1, <1>2 DEF AnswerInv, InitState
<1>8. GoodbyeInv /\ ModeInv
  BY <1>1, <1>2 DEF GoodbyeInv, ModeInv, InitState, InitJobs, NewThread
<1>9. RecordInv /\ EscapedRunsAreKept
  BY <1>1, <1>2 DEF RecordInv, EscapedRunsAreKept, Runs
<1>10. QED
  BY <1>4, <1>5, <1>6, <1>7, <1>8, <1>9 DEF IInv

LEMMA NextKeepsIInv ==
  ASSUME IInv, [Next]_vars
  PROVE  IInv'
<1>1. ASSUME NEW x \in Runs, Run(x)
      PROVE  IInv'
  BY <1>1, RunIsMove, RunKeepsIInv
<1>2. ASSUME NEW y \in Replays, Operator(y)
      PROVE  IInv'
  BY <1>2, OperatorIsMove, RunKeepsIInv DEF Runs
<1>3. ASSUME NEW w \in Workers, Ingest(w)
      PROVE  IInv'
  BY <1>3, IngestKeepsIInv
<1>4. ASSUME NEW q \in Requests, Request(q)
      PROVE  IInv'
  BY <1>4, RequestKeepsIInv
<1>5. ASSUME NEW j \in Jobs, Job(j)
      PROVE  IInv'
  BY <1>5, JobKeepsIInv
<1>6. ASSUME NEW c \in Events, GoQuiet(c)
      PROVE  IInv'
  BY <1>6, GoQuietKeepsIInv
<1>7. CASE Crash
  BY <1>7, CrashKeepsIInv
<1>8. CASE UNCHANGED vars
  BY <1>8, StutterKeepsIInv
<1>9. QED
  BY <1>1, <1>2, <1>3, <1>4, <1>5, <1>6, <1>7, <1>8 DEF Next

\* The invariant of the conversations: what each process holds, what a claim,
\* a stored message and a lock stand for, and what the records say.
THEOREM SpecIInv == Spec => []IInv
<1>1. Init => IInv
  BY InitIsIInv
<1>2. IInv /\ [Next]_vars => IInv'
  BY NextKeepsIInv
<1>3. QED
  BY <1>1, <1>2, PTL DEF Spec

-----------------------------------------------------------------------------
(* What the runs check.                                                    *)

\* Every table, lock and local variable holds what its column or its type in
\* the code allows, in every reachable state.
THEOREM SpecTypeOK == Spec => []TypeOK
<1>1. IInv => TypeOK
  BY DEF IInv, Typed
<1>2. QED
  BY <1>1, SpecIInv, PTL

LEMMA AtMostOne ==
  ASSUME NEW S, \A a, b \in S : a = b
  PROVE  Cardinality(S) <= 1
<1>1. CASE S = {}
  BY <1>1, FS_EmptySet
<1>2. ASSUME NEW a \in S
      PROVE  Cardinality(S) <= 1
  <2>1. S = {a}
    BY <1>2
  <2>2. QED
    BY <2>1, FS_Singleton
<1>3. QED
  BY <1>1, <1>2

\* A message that Twilio delivers any number of times is stored at most once,
\* and an event marked processed was stored and its run started
\* (ingestWhatsAppInbound with dedupe.claim).
THEOREM SpecIngestedOnce == Spec => []IngestedOnce
<1>1. IInv => IngestedOnce
  <2> SUFFICES ASSUME IInv, NEW e \in Events
               PROVE  /\ Cardinality(UNION {Copies(Inbound(e), c) \X {c} : c \in Events}) <= 1
                      /\ webhook[e] = "PROCESSED" => Stored(e) /\ rpc[e] # "off"
    BY DEF IngestedOnce
  <2> DEFINE S == UNION {Copies(Inbound(e), c) \X {c} : c \in Events}
  <2>1. \A a, b \in S : a = b
    <3> SUFFICES ASSUME NEW c \in Events, NEW d \in Events,
                        NEW i \in Copies(Inbound(e), c), NEW j \in Copies(Inbound(e), d)
                 PROVE  <<i, c>> = <<j, d>>
      OBVIOUS
    <3>1. QED
      BY Basics DEF StoredInv
  <2>2. Cardinality(S) <= 1
    BY <2>1, AtMostOne
  <2>3. QED
    BY <2>2, Basics DEF ClaimInv, EventClaim
<1>2. QED
  BY <1>1, SpecIInv, PTL

\* A message is answered at most once, in the conversation it was stored in,
\* exactly when its agent run says so, whatever replays, failures and crashes
\* do to the runs (persistRunAndOutbound, persistFailedRunAndFallback).
THEOREM SpecAnswerMatchesRun == Spec => []AnswerMatchesRun
<1>1. IInv => AnswerMatchesRun
  <2> SUFFICES ASSUME IInv, NEW e \in Events
               PROVE  /\ Cardinality(AnswerPlaces(e)) <= 1
                      /\ \A k \in Kinds :
                           agentRun[e] = k <=> (Stored(e) /\ Copies(Answer(k, e), HomeOf(e)) # {})
    BY DEF AnswerMatchesRun, Kinds
  <2>1. \A k \in Kinds :
          /\ \A c \in Events : Copies(Answer(k, e), c) # {} =>
               agentRun[e] = k /\ Stored(e) /\ c = HomeOf(e)
          /\ \A c \in Events : \A i, j \in Copies(Answer(k, e), c) : i = j
          /\ agentRun[e] = k => Stored(e) /\ Copies(Answer(k, e), HomeOf(e)) # {}
    BY Basics DEF AnswerInv, Kinds
  <2>2. \A a, b \in AnswerPlaces(e) : a = b
    <3>1. \A a \in AnswerPlaces(e) :
            \E k \in Kinds, c \in Events : \E i \in Copies(Answer(k, e), c) : a = <<i, c>>
      BY DEF AnswerPlaces, Answers, Kinds
    <3>2. ASSUME NEW k \in Kinds, NEW l \in Kinds, NEW c \in Events, NEW d \in Events,
                 NEW i \in Copies(Answer(k, e), c), NEW j \in Copies(Answer(l, e), d)
          PROVE  <<i, c>> = <<j, d>>
      <4>1. agentRun[e] = k /\ agentRun[e] = l /\ c = HomeOf(e) /\ d = HomeOf(e)
        BY <2>1, <3>2
      <4>2. QED
        BY <2>1, <3>2, <4>1
    <3>3. QED
      BY <3>1, <3>2
  <2>3. Cardinality(AnswerPlaces(e)) <= 1
    BY <2>2, AtMostOne
  <2>4. \A k \in Kinds :
          agentRun[e] = k <=> (Stored(e) /\ Copies(Answer(k, e), HomeOf(e)) # {})
    BY <2>1, HomeFacts
  <2>5. QED
    BY <2>3, <2>4
<1>2. QED
  BY <1>1, SpecIInv, PTL

\* The goodbye is said at most once in a conversation and only in one that is
\* closed, however many instances run their cycles together (closeOne).
THEOREM SpecOneGoodbye == Spec => []OneGoodbye
<1>1. IInv => OneGoodbye
  BY Basics, AtMostOne DEF OneGoodbye, GoodbyeInv
<1>2. QED
  BY <1>1, SpecIInv, PTL

\* Without failures, a run of the pipeline that decided on an action and ended
\* left an AgentRun row, also when a takeover stopped its answer
\* (persistRunAndOutbound).
THEOREM SpecFinishedRunsAreRecorded == Spec => []FinishedRunsAreRecorded
<1>1. IInv => FinishedRunsAreRecorded
  BY Basics DEF FinishedRunsAreRecorded, RecordInv
<1>2. QED
  BY <1>1, SpecIInv, PTL

\* A run that left pipeline.run with an error is kept in the dead letter queue
\* when that error is the only failure (the catch handler of the ingestion).
THEOREM SpecEscapedRunsAreKept == Spec => []EscapedRunsAreKept
<1>1. IInv => EscapedRunsAreKept
  BY DEF IInv
<1>2. QED
  BY <1>1, SpecIInv, PTL

-----------------------------------------------------------------------------
(* What a step may never do.                                               *)

SameControl(c) == /\ conv'[c].status = conv[c].status
                  /\ conv'[c].mode = conv[c].mode
                  /\ conv'[c].owner = conv[c].owner

\* Who writes the columns that say who is in control of a conversation, and
\* whether it is open.
LEMMA ControlChanges ==
  ASSUME IInv, [Next]_vars
  PROVE  \/ \A c \in Events : SameControl(c)
         \/ \E w \in Workers : CreateThread(w)
         \/ \E q \in Requests : TakeoverSwap(q) \/ HandbackSwap(q)
         \/ \E j \in Jobs, c \in Events : Close(j, c)
<1>1. ASSUME UNCHANGED conv
      PROVE  \A c \in Events : SameControl(c)
  BY <1>1 DEF SameControl
<1>2. ASSUME NEW x \in Runs, RunMove(x)
      PROVE  \A c \in Events : SameControl(c)
  BY <1>2 DEF RunMove, RunTables, SameControl
<1>3. ASSUME NEW w \in Workers, Ingest(w)
      PROVE  CreateThread(w) \/ \A c \in Events : SameControl(c)
  <2>1. CASE Unobtrusive(w)
    BY <1>1, <2>1, UnobtrusiveIsQuiet DEF Quiet
  <2>2. CASE Dispatch(w)
    BY <1>1, <2>2 DEF Dispatch, shared, tables
  <2>3. CASE Store(w)
    <3>1. PICK d \in Events : conv' = [conv EXCEPT ![d].quiet = FALSE]
      BY <2>3, StoreFacts
    <3>2. conv \in [Events -> ConvRows]
      BY Basics DEF TablesTypeOK
    <3>3. QED
      BY <3>1, <3>2 DEF SameControl
  <2>4. QED
    BY <1>3, <2>1, <2>2, <2>3 DEF Ingest, IngestNext, IngestStep, Unobtrusive
<1>4. ASSUME NEW q \in Requests, Request(q)
      PROVE  TakeoverSwap(q) \/ HandbackSwap(q) \/ \A c \in Events : SameControl(c)
  BY <1>1, <1>4 DEF Request, RequestNext, RequestStep, SendPersist, RequestFails,
     TakeoverRead, HandbackRead, SendRead, Passes, shared, tables
<1>5. ASSUME NEW j \in Jobs, Job(j)
      PROVE  (\E c \in Events : Close(j, c)) \/ \A c \in Events : SameControl(c)
  BY <1>1, <1>5 DEF Job, JobNext, JobStep, Skip, SayGoodbye, CycleEnds, Scan, CycleFails,
     shared, tables
<1>6. ASSUME NEW d \in Events, GoQuiet(d)
      PROVE  \A c \in Events : SameControl(c)
  <2>1. conv' = [conv EXCEPT ![d].quiet = TRUE] /\ conv \in [Events -> ConvRows]
    BY <1>6, Basics DEF GoQuiet, TablesTypeOK
  <2>2. QED
    BY <2>1 DEF SameControl
<1>7. CASE Crash \/ UNCHANGED vars
  BY <1>1, <1>7 DEF Crash, vars, shared, tables
<1>8. QED
  BY <1>2, <1>3, <1>4, <1>5, <1>6, <1>7, RunIsMove, OperatorIsMove DEF Next, Runs

\* Whose messages are stored.
LEMMA LogChanges ==
  ASSUME IInv, [Next]_vars
  PROVE  \/ UNCHANGED messages
         \/ \E x \in Runs : CommitRun(x)
         \/ \E c \in Events, m \in Messages :
              /\ Post(c, m)
              /\ \A e \in Events, k \in Kinds : m # Answer(k, e)
<1>1. ASSUME NEW x \in Runs, RunMove(x)
      PROVE  UNCHANGED messages \/ CommitRun(x)
  BY <1>1, RunWrites
<1>2. ASSUME NEW w \in Workers, Ingest(w)
      PROVE  \/ UNCHANGED messages
             \/ \E c \in Events, m \in Messages :
                  /\ Post(c, m)
                  /\ \A e \in Events, k \in Kinds : m # Answer(k, e)
  <2>1. CASE Unobtrusive(w)
    BY <2>1, UnobtrusiveIsQuiet DEF Quiet
  <2>2. CASE Dispatch(w) \/ CreateThread(w)
    BY <2>2 DEF Dispatch, CreateThread, shared, tables
  <2>3. CASE Store(w)
    BY <2>3, StoreFacts, MessageNames
  <2>4. QED
    BY <1>2, <2>1, <2>2, <2>3 DEF Ingest, IngestNext, IngestStep, Unobtrusive
<1>3. ASSUME NEW q \in Requests, Request(q)
      PROVE  \/ UNCHANGED messages
             \/ \E c \in Events, m \in Messages :
                  /\ Post(c, m)
                  /\ \A e \in Events, k \in Kinds : m # Answer(k, e)
  <2>1. CASE SendPersist(q)
    <3>1. quser[q] \in Users /\ qconv[q] \in Events /\ Post(qconv[q], Human(quser[q]))
      BY <2>1, Basics DEF SendPersist, RequestLocals, Existing
    <3>2. QED
      BY <3>1, MessageNames
  <2>2. CASE ~SendPersist(q)
    BY <1>3, <2>2 DEF Request, RequestNext, RequestStep, RequestFails, TakeoverRead,
       HandbackRead, SendRead, Passes, TakeoverSwap, HandbackSwap, Swap, shared, tables
  <2>3. QED
    BY <2>1, <2>2
<1>4. ASSUME NEW j \in Jobs, Job(j)
      PROVE  \/ UNCHANGED messages
             \/ \E c \in Events, m \in Messages :
                  /\ Post(c, m)
                  /\ \A e \in Events, k \in Kinds : m # Answer(k, e)
  <2>1. CASE SayGoodbye(j)
    <3>1. jcur[j] \in Events /\ (Post(jcur[j], Goodbye) \/ UNCHANGED messages)
      BY <2>1, Basics DEF SayGoodbye, RequestLocals
    <3>2. Goodbye \in Messages /\ \A e \in Events, k \in Kinds : Goodbye # Answer(k, e)
      BY MessageNames
    <3>3. QED
      BY <3>1, <3>2
  <2>2. CASE ~SayGoodbye(j)
    BY <1>4, <2>2 DEF Job, JobNext, JobStep, Skip, Close, CloseThread, CycleEnds, Scan,
       CycleFails, shared, tables
  <2>3. QED
    BY <2>1, <2>2
<1>5. CASE Crash \/ UNCHANGED vars \/ \E d \in Events : GoQuiet(d)
  BY <1>5 DEF Crash, GoQuiet, vars, shared, tables
<1>6. QED
  BY <1>1, <1>2, <1>3, <1>4, <1>5, RunIsMove, OperatorIsMove DEF Next, Runs

\* A message that was appended to a conversation is the one that was posted.
LEMMA AppendedIsPosted ==
  ASSUME messages \in [Events -> Seq(Messages)], NEW c \in Events, NEW m \in Messages,
         NEW d \in Events, NEW n, Post(d, n), Appended(c, m)
  PROVE  c = d /\ m = n
<1>1. messages'[c] = IF c = d THEN Append(messages[c], n) ELSE messages[c]
  BY DEF Post
<1>2. c = d /\ Append(messages[c], m) = Append(messages[c], n)
  BY <1>1 DEF Appended
<1>3. QED
  <2>1. messages[c] \in Seq(Messages)
    OBVIOUS
  <2>2. Append(messages[c], m)[Len(messages[c]) + 1] = m
    BY <2>1
  <2>3. Append(messages[c], n)[Len(messages[c]) + 1] = n
    BY <2>1
  <2>4. QED
    BY <1>2, <2>2, <2>3

\* The human wins: the agent's text appears only in a conversation that is in
\* AGENT mode at that very moment (assertion inside persistRunAndOutbound).
THEOREM SpecAgentYields == Spec => AgentYields
<1>1. ASSUME IInv, [Next]_vars
      PROVE  \A c, e \in Events : \A m \in Answers(e) :
               Appended(c, m) => conv[c].mode = "AGENT"
  <2> SUFFICES ASSUME NEW c \in Events, NEW e \in Events, NEW k \in Kinds,
                      Appended(c, Answer(k, e))
               PROVE  conv[c].mode = "AGENT"
    BY DEF Answers, Kinds
  <2>1. messages \in [Events -> Seq(Messages)] /\ Answer(k, e) \in Messages
    BY <1>1, Basics, MessageNames
  <2>2. messages' # messages
    BY DEF Appended
  <2>3. ASSUME NEW x \in Runs, CommitRun(x)
        PROVE  conv[c].mode = "AGENT"
    BY <1>1, <2>1, <2>3, CommitFacts, AppendedIsPosted
  <2>4. ASSUME NEW d \in Events, NEW n \in Messages, Post(d, n),
               \A f \in Events, l \in Kinds : n # Answer(l, f)
        PROVE  FALSE
    BY <2>1, <2>4, AppendedIsPosted
  <2>5. QED
    BY <1>1, <2>2, <2>3, <2>4, LogChanges
<1>2. QED
  BY <1>1, SpecIInv, PTL DEF Spec, AgentYields

\* No takeover takes a conversation from another user; the owner of a
\* conversation changes only through AGENT mode (the swap of takeover).
THEOREM SpecTakeoverNeverSteals == Spec => TakeoverNeverSteals
<1>1. ASSUME IInv, [Next]_vars
      PROVE  \A c \in Events :
               (conv[c].owner # Nobody /\ conv'[c].owner # conv[c].owner)
               => conv'[c].mode = "AGENT"
  <2> SUFFICES ASSUME NEW c \in Events, conv[c].owner # Nobody,
                      conv'[c].owner # conv[c].owner
               PROVE  conv'[c].mode = "AGENT"
    OBVIOUS
  <2>1. conv \in [Events -> ConvRows] /\ conv[c].mode # "AGENT"
    BY <1>1, Basics DEF TablesTypeOK, ModeInv
  <2>2. ~SameControl(c)
    BY DEF SameControl
  <2>3. ASSUME NEW w \in Workers, CreateThread(w)
        PROVE  conv'[c].mode = "AGENT"
    <3>1. PICK e \in Events, k \in Events : conv' = [conv EXCEPT ![e] = NewThread(k)]
      BY <1>1, <2>3, WorkerFacts DEF CreateThread
    <3>2. QED
      BY <2>1, <3>1 DEF NewThread
  <2>4. ASSUME NEW q \in Requests, TakeoverSwap(q)
        PROVE  conv'[c].mode = "AGENT"
    BY <2>1, <2>4 DEF TakeoverSwap, Swap, TakenBy, ConvRows
  <2>5. ASSUME NEW q \in Requests, HandbackSwap(q)
        PROVE  conv'[c].mode = "AGENT"
    BY <2>1, <2>5 DEF HandbackSwap, Swap, ConvRows
  <2>6. ASSUME NEW j \in Jobs, NEW d \in Events, Close(j, d)
        PROVE  FALSE
    BY <2>1, <2>6 DEF Close, CloseThread, ClosedRow, ConvRows
  <2>7. QED
    BY <1>1, <2>2, <2>3, <2>4, <2>5, <2>6, ControlChanges
<1>2. QED
  BY <1>1, SpecIInv, PTL DEF Spec, TakeoverNeverSteals

\* Only a conversation the agent controls and the customer left is closed,
\* whatever happened since the scan (autoCloseIfInactive).
THEOREM SpecClosesIdleAgentThreads == Spec => ClosesIdleAgentThreads
<1>1. ASSUME IInv, [Next]_vars
      PROVE  \A c \in Events :
               (conv[c].status = "OPEN" /\ conv'[c].status = "CLOSED")
               => conv[c].mode = "AGENT" /\ conv[c].quiet
  <2> SUFFICES ASSUME NEW c \in Events, conv[c].status = "OPEN", conv'[c].status = "CLOSED"
               PROVE  conv[c].mode = "AGENT" /\ conv[c].quiet
    OBVIOUS
  <2>1. conv \in [Events -> ConvRows]
    BY <1>1, Basics DEF TablesTypeOK
  <2>2. ~SameControl(c)
    BY DEF SameControl
  <2>3. ASSUME NEW w \in Workers, CreateThread(w)
        PROVE  FALSE
    <3>1. PICK e \in Events, k \in Events : conv' = [conv EXCEPT ![e] = NewThread(k)]
      BY <1>1, <2>3, WorkerFacts DEF CreateThread
    <3>2. QED
      BY <2>1, <3>1 DEF NewThread
  <2>4. ASSUME NEW q \in Requests, TakeoverSwap(q) \/ HandbackSwap(q)
        PROVE  FALSE
    <3> DEFINE d == qconv[q]
    <3>1. PICK row : /\ conv' = conv \/ conv' = [conv EXCEPT ![d] = row]
                     /\ conv[d] \in ConvRows => row.status = conv[d].status
      <4>1. CASE TakeoverSwap(q)
        <5>1. conv[d] \in ConvRows => TakenBy(q).status = conv[d].status
          BY DEF TakenBy, ConvRows
        <5>2. conv' = conv \/ conv' = [conv EXCEPT ![d] = TakenBy(q)]
          BY <4>1, Zenon DEF TakeoverSwap, Swap
        <5>3. QED
          BY <5>1, <5>2, Zenon
      <4>2. CASE HandbackSwap(q)
        <5> DEFINE back == [conv[d] EXCEPT !.mode = "AGENT", !.owner = Nobody]
        <5>1. conv[d] \in ConvRows => back.status = conv[d].status
          BY DEF ConvRows
        <5>2. conv' = conv \/ conv' = [conv EXCEPT ![d] = back]
          BY <4>2, Zenon DEF HandbackSwap, Swap
        <5>3. QED
          BY <5>1, <5>2, Zenon
      <4>3. QED
        BY <2>4, <4>1, <4>2
    <3> HIDE DEF d
    <3>2. QED
      BY <2>1, <3>1
  <2>5. ASSUME NEW j \in Jobs, NEW d \in Events, Close(j, d)
        PROVE  conv[c].mode = "AGENT" /\ conv[c].quiet
    BY <2>1, <2>5 DEF Close, Closable, CloseThread, ClosedRow, ConvRows
  <2>6. QED
    BY <1>1, <2>2, <2>3, <2>4, <2>5, ControlChanges
<1>2. QED
  BY <1>1, SpecIInv, PTL DEF Spec, ClosesIdleAgentThreads

-----------------------------------------------------------------------------
(* Runs come to an end.                                                    *)

\* The transaction of x waits for a key or a row that the one of z has locked:
\* the key of the message for its run, the row of the conversation for the
\* assertion and for the writes of the executor.
WaitsFor(x, z) ==
    \/ rpc[x] \in {"notReady", "insert", "skipRow"} /\ runLock[rmsg[x]] = z
    \/ rpc[x] \in {"assert", "book", "lifeSwap"} /\ convLock[Home(x)] = z

\* No runs wait for each other in a circle, because a transaction takes the key
\* of its message before the row of the conversation (persistRunAndOutbound): a
\* chain of waiting transactions ends after two, so it never closes.
THEOREM NoDeadlock ==
  Spec => [](\A u, x, y, z \in Runs :
                WaitsFor(u, x) /\ WaitsFor(x, y) => ~WaitsFor(y, z))
<1>1. ASSUME IInv
      PROVE  \A u, x, y, z \in Runs :
                WaitsFor(u, x) /\ WaitsFor(x, y) => ~WaitsFor(y, z)
  <2>1. \A x, y \in Runs :
           WaitsFor(x, y) => rpc[y] \in InTx /\ (rpc[x] \in InTx => rpc[y] = "commit")
    <3> SUFFICES ASSUME NEW x \in Runs, NEW y \in Runs, WaitsFor(x, y)
                 PROVE  rpc[y] \in InTx /\ (rpc[x] \in InTx => rpc[y] = "commit")
      OBVIOUS
    <3>1. rmsg[x] \in Events /\ Home(x) \in Events
      BY <1>1, RunHome DEF WaitsFor
    <3>2. y # Free
      BY PipelineAssumption
    <3>3. CASE rpc[x] \in {"notReady", "insert", "skipRow"} /\ runLock[rmsg[x]] = y
      BY <1>1, <3>1, <3>2, <3>3, Basics DEF LocksInv, InTx
    <3>4. CASE convLock[Home(x)] = y
      BY <1>1, <3>1, <3>2, <3>4, Basics DEF LocksInv, InTx
    <3>5. QED
      BY <3>3, <3>4 DEF WaitsFor
  <2>2. \A x, y \in Runs : WaitsFor(x, y) => rpc[x] # "commit"
    BY DEF WaitsFor
  <2>3. QED
    <3> SUFFICES ASSUME NEW u \in Runs, NEW x \in Runs, NEW y \in Runs, NEW z \in Runs,
                        WaitsFor(u, x), WaitsFor(x, y), WaitsFor(y, z)
                 PROVE  FALSE
      OBVIOUS
    <3>1. rpc[x] \in InTx
      BY <2>1
    <3>2. rpc[y] = "commit"
      BY <2>1, <3>1
    <3>3. QED
      BY <2>2, <3>2
<1>2. QED
  BY <1>1, SpecIInv, PTL

\* The steps that are left for a run at a program point, at most, by the kind
\* of the outcome that it records: the failure path comes last.
StepsLeft(l, k) ==
    LET failing == k \in {"fallback", "failed"} IN
    CASE l = "off" -> 24
      [] l = "gate" -> 23
      [] l = "preflight" -> 22
      [] l \in {"think", "notReady"} -> 21
      [] l \in {"order", "pay", "book"} -> 20
      [] l = "lifeRead" -> 19
      [] l = "lifeSwap" -> 18
      [] l = "notify" -> 17
      [] l = "respond" -> 16
      [] l = "insert" -> IF failing THEN 10 ELSE 15
      [] l = "assert" -> IF failing THEN 9 ELSE 14
      [] l = "commit" -> IF failing THEN 8 ELSE 13
      [] l \in {"deliver", "skipRow"} -> IF failing THEN 7 ELSE 12
      [] l = "fallback" -> 11
      [] l = "settle" -> 2
      [] l \in {"replayFailed", "dlq", "abandon"} -> 1
      [] OTHER -> 0

\* Program point m comes after l, in either path.
After(m, l) == /\ m \in RunStates \ {l}
               /\ \A k : StepsLeft(m, k) < StepsLeft(l, k)

LEMMA RunOrder ==
  /\ After("gate", "off") /\ After("abandon", "off") /\ After("done", "abandon")
  /\ \A m \in {"preflight", "human", "settle", "dlq", "replayFailed"} : After(m, "gate")
  /\ \A m \in {"think", "notReady"} : After(m, "preflight")
  /\ \A m \in {"done", "settle", "dlq", "replayFailed"} : After(m, "notReady")
  /\ \A m \in {"order", "pay", "book", "lifeRead", "respond", "fallback"} :
       After(m, "think")
  /\ \A m \in {"lifeRead", "respond"} : After(m, "order")
  /\ After("respond", "pay") /\ After("respond", "book")
  /\ \A m \in {"lifeSwap", "notify", "respond", "fallback"} : After(m, "lifeRead")
  /\ \A m \in {"notify", "respond", "fallback"} : After(m, "lifeSwap")
  /\ \A m \in {"respond", "fallback"} : After(m, "notify")
  /\ After("fallback", "respond")
  /\ After("assert", "insert") /\ After("commit", "assert") /\ After("skipRow", "assert")
  /\ After("deliver", "commit")
  /\ \A l \in Recording, m \in {"done", "settle"} : After(m, l)
  /\ After("done", "dlq") /\ After("done", "replayFailed")
  /\ After("done", "settle") /\ After("replayFailed", "settle")
BY DEF After, StepsLeft, RunStates, Recording, InTx

LEMMA PathOrder ==
  /\ \A j, k : StepsLeft("insert", k) < StepsLeft("respond", j)
  /\ \A j, k : k \in {"fallback", "failed"} =>
       StepsLeft("insert", k) < StepsLeft("fallback", j)
  /\ \A k : \A l \in Recording : k \notin {"fallback", "failed"} =>
       StepsLeft("fallback", k) < StepsLeft(l, k)
  /\ "insert" \in RunStates /\ "fallback" \in RunStates \ Recording
BY DEF StepsLeft, RunStates, Recording, InTx

\* The step of x brings it nearer to its end.
Advances(x) ==
    \E m \in RunStates \ {rpc[x]} :
        /\ To(x, m)
        /\ \E k : /\ rkind' = [rkind EXCEPT ![x] = k]
                  /\ StepsLeft(m, k) < StepsLeft(rpc[x], rkind[x])

LEMMA Onward ==
  ASSUME PipelineTypeOK, NEW x \in Runs, NEW m, After(m, rpc[x]), To(x, m), UNCHANGED rkind
  PROVE  Advances(x)
<1>1. rkind' = [rkind EXCEPT ![x] = rkind[x]]
  BY DEF PipelineTypeOK
<1>2. QED
  BY <1>1, Zenon DEF Advances, After

\* A failure while the outcome is recorded leads to the failure path once.
LEMMA PersistOnward ==
  ASSUME PipelineTypeOK, NEW x \in Runs, rpc[x] \in Recording, PersistFailed(x),
         UNCHANGED rkind
  PROVE  Advances(x)
<1>1. CASE To(x, "done") \/ To(x, "settle")
  BY <1>1, RunOrder, Onward, Zenon
<1>2. CASE ~Failing(x) /\ To(x, "fallback")
  <2>1. rkind' = [rkind EXCEPT ![x] = rkind[x]]
    BY DEF PipelineTypeOK
  <2>2. StepsLeft("fallback", rkind[x]) < StepsLeft(rpc[x], rkind[x])
    BY <1>2, PathOrder, Zenon DEF Failing
  <2>3. QED
    BY <1>2, <2>1, <2>2, PathOrder, Zenon DEF Advances
<1>3. QED
  BY <1>1, <1>2, Returns, Zenon DEF PersistFailed

LEMMA RunAdvances ==
  ASSUME PipelineTypeOK, NEW x \in Runs, RunStep(x) \/ RunThrows(x)
  PROVE  Advances(x)
<1>0. ASSUME NEW l \in Recording, rpc[x] = l, UNCHANGED rkind, NEW m \in {"done", "settle"},
             To(x, m)
      PROVE  Advances(x)
  BY <1>0, RunOrder, Onward, Zenon
<1>1. CASE Gate(x) \/ ThrowsEarly(x)
  <2>1. UNCHANGED rkind
    BY <1>1, Zenon DEF Gate, ThrowsEarly
  <2>2. CASE rpc[x] = "gate"
    <3>1. PICK m \in {"preflight", "human", "settle", "dlq", "replayFailed"} : To(x, m)
      BY <1>1, <2>2, Returns, Zenon DEF Gate, ThrowsEarly, Escapes
    <3>2. QED
      BY <2>1, <2>2, <3>1, RunOrder, Onward, Zenon
  <2>3. CASE rpc[x] = "notReady" /\ ThrowsEarly(x)
    <3>1. PICK m \in {"dlq", "replayFailed"} : To(x, m)
      BY <2>3, Zenon DEF ThrowsEarly, Escapes
    <3>2. QED
      BY <2>1, <2>3, <3>1, RunOrder, Onward, Zenon
  <2>4. QED
    BY <1>1, <2>2, <2>3, Zenon DEF Gate, ThrowsEarly
<1>2. CASE Preflight(x)
  BY <1>2, RunOrder, Onward, Zenon DEF Preflight
<1>3. CASE RecordNotReady(x) \/ NotReadyDuplicate(x)
  <2>1. rpc[x] = "notReady" /\ UNCHANGED rkind
    BY <1>3, Zenon DEF RecordNotReady, NotReadyDuplicate
  <2>2. PICK m \in {"done", "settle", "dlq", "replayFailed"} : To(x, m)
    BY <1>3, Returns, Zenon DEF RecordNotReady, NotReadyDuplicate, Escapes
  <2>3. QED
    BY <2>1, <2>2, RunOrder, Onward, Zenon
<1>4. CASE Think(x)
  <2>1. rpc[x] = "think" /\ UNCHANGED rkind
    BY <1>4, Zenon DEF Think
  <2>2. PICK m \in {"order", "pay", "book", "lifeRead", "respond", "fallback"} : To(x, m)
    BY <1>4, Decided, Zenon DEF Think
  <2>3. QED
    BY <2>1, <2>2, RunOrder, Onward, Zenon
<1>5. CASE PlaceOrder(x)
  <2>1. rpc[x] = "order" /\ UNCHANGED rkind
    BY <1>5, Zenon DEF PlaceOrder
  <2>2. PICK m \in {"lifeRead", "respond"} : To(x, m)
    BY <1>5, Zenon DEF PlaceOrder
  <2>3. QED
    BY <2>1, <2>2, RunOrder, Onward, Zenon
<1>6. CASE RequestPayment(x)
  BY <1>6, RunOrder, Onward, Zenon DEF RequestPayment
<1>7. CASE Book(x)
  BY <1>7, RunOrder, Onward, Zenon DEF Book
<1>8. CASE LifecycleRead(x)
  <2>1. rpc[x] = "lifeRead" /\ UNCHANGED rkind
    BY <1>8, Zenon DEF LifecycleRead
  <2>2. PICK m \in {"lifeSwap", "notify", "respond"} : To(x, m)
    BY <1>8, Zenon DEF LifecycleRead, AfterLifecycle
  <2>3. QED
    BY <2>1, <2>2, RunOrder, Onward, Zenon
<1>9. CASE LifecycleSwap(x)
  <2>1. rpc[x] = "lifeSwap" /\ UNCHANGED rkind
    BY <1>9, Zenon DEF LifecycleSwap
  <2>2. PICK m \in {"notify", "respond"} : To(x, m)
    BY <1>9, Zenon DEF LifecycleSwap, AfterLifecycle
  <2>3. QED
    BY <2>1, <2>2, RunOrder, Onward, Zenon
<1>10. CASE Notify(x)
  BY <1>10, RunOrder, Onward, Zenon DEF Notify
<1>11. CASE ThrowsInExecutor(x)
  <2>1. rpc[x] \in {"lifeRead", "lifeSwap", "notify"} /\ UNCHANGED rkind
    BY <1>11, Zenon DEF ThrowsInExecutor
  <2>2. PICK m \in {"respond", "fallback"} : To(x, m)
    BY <1>11, Zenon DEF ThrowsInExecutor
  <2>3. QED
    BY <2>1, <2>2, RunOrder, Onward, Zenon
<1>12. CASE Respond(x)
  <2>1. CASE To(x, "fallback") /\ UNCHANGED rkind
    BY <1>12, <2>1, RunOrder, Onward, Zenon DEF Respond
  <2>2. CASE To(x, "insert") /\ \E k : rkind' = [rkind EXCEPT ![x] = k]
    <3>1. rpc[x] = "respond"
      BY <1>12, Zenon DEF Respond
    <3>2. QED
      BY <2>2, <3>1, PathOrder, Zenon DEF Advances
  <2>3. QED
    BY <1>12, <2>1, <2>2, Zenon DEF Respond
<1>13. CASE Fallback(x)
  <2>1. PICK k \in {"fallback", "failed"} : rkind' = [rkind EXCEPT ![x] = k]
    BY <1>13, Zenon DEF Fallback
  <2>2. rpc[x] = "fallback" /\ To(x, "insert")
    BY <1>13, Zenon DEF Fallback
  <2>3. StepsLeft("insert", k) < StepsLeft(rpc[x], rkind[x])
    BY <2>2, PathOrder, Zenon
  <2>4. "insert" \in RunStates \ {rpc[x]}
    BY <2>2, PathOrder, Zenon
  <2>5. QED
    BY <2>1, <2>2, <2>3, <2>4, Zenon DEF Advances
<1>14. CASE InsertRun(x)
  BY <1>14, RunOrder, Onward, Zenon DEF InsertRun
<1>15. CASE InsertSilentRun(x) \/ InsertFailedRun(x)
  <2>1. rpc[x] = "insert" /\ UNCHANGED rkind /\ Returned(x, "done")
    BY <1>15, Zenon DEF InsertSilentRun, InsertFailedRun, InsertAlone
  <2>2. QED
    BY <1>0, <2>1, Returns, Zenon DEF Recording
<1>16. CASE InsertDuplicate(x) \/ SkippedDuplicate(x) \/ ThrowsLate(x)
  <2>1. rpc[x] \in Recording /\ UNCHANGED rkind /\ PersistFailed(x)
    BY <1>16, Zenon DEF InsertDuplicate, SkippedDuplicate, ThrowsLate, Recording, InTx
  <2>2. QED
    BY <2>1, PersistOnward, Zenon
<1>17. CASE AssertAgentMode(x) \/ TakeoverRace(x)
  BY <1>17, RunOrder, Onward, Zenon DEF AssertAgentMode, TakeoverRace
<1>18. CASE CommitRun(x)
  BY <1>18, RunOrder, Onward, Zenon DEF CommitRun
<1>19. CASE Deliver(x) \/ DeliverFallback(x)
  <2>1. rpc[x] = "deliver" /\ UNCHANGED rkind /\ Returned(x, "done")
    BY <1>19, Zenon DEF Deliver, DeliverFallback
  <2>2. QED
    BY <1>0, <2>1, Returns, Zenon DEF Recording
<1>20. CASE RecordSkipped(x) \/ RecordSkippedFallback(x)
  <2>1. rpc[x] = "skipRow" /\ UNCHANGED rkind /\ Returned(x, "done")
    BY <1>20, Zenon DEF RecordSkipped, RecordSkippedFallback, InsertSkipped
  <2>2. QED
    BY <1>0, <2>1, Returns, Zenon DEF Recording
<1>21. CASE RecordFailure(x) \/ RecordFailureThrows(x)
  BY <1>21, RunOrder, Onward, Zenon DEF RecordFailure, RecordFailureThrows
<1>22. QED
  BY <1>1, <1>2, <1>3, <1>4, <1>5, <1>6, <1>7, <1>8, <1>9, <1>10, <1>11, <1>12, <1>13,
     <1>14, <1>15, <1>16, <1>17, <1>18, <1>19, <1>20, <1>21 DEF RunStep, RunThrows
LEMMA StartAdvances ==
  ASSUME NEW x, NEW e, Start(x, e), rpc[x] = "off"
  PROVE  Advances(x)
<1>1. \A k : StepsLeft("gate", k) < StepsLeft("off", rkind[x])
  BY DEF StepsLeft
<1>2. "gate" \in RunStates
  BY Zenon DEF RunStates
<1>3. QED
  BY <1>1, <1>2, Zenon DEF Advances, Start, To

LEMMA ReplayAdvances ==
  ASSUME PipelineTypeOK, NEW y \in Replays, ReplayStep(y)
  PROVE  Advances(y)
<1>0. y \in Runs
  BY Zenon DEF Runs
<1>1. ASSUME NEW e \in Events, Replay(y, e)
      PROVE  Advances(y)
  BY <1>1, StartAdvances, Zenon DEF Replay
<1>2. ASSUME NEW e \in Events, AbandonRead(y, e)
      PROVE  Advances(y)
  BY <1>0, <1>2, RunOrder, Onward, Zenon DEF AbandonRead, To
<1>3. CASE Settle(y) \/ SettleThrows(y)
  BY <1>0, <1>3, RunOrder, Onward, Zenon DEF Settle, SettleThrows
<1>4. CASE ReplayFailed(y) \/ AbandonWrite(y)
  BY <1>0, <1>4, RunOrder, Onward, Zenon DEF ReplayFailed, AbandonWrite
<1>5. QED
  BY <1>1, <1>2, <1>3, <1>4, Zenon DEF ReplayStep

\* A run that is started takes twenty-three steps at most, whatever the others
\* do, whichever calls fail and whenever the process dies: pipeline.run repeats
\* nothing, goes through its failure path once, and is never started again.
THEOREM RunsEnd ==
  Spec => [][\A x \in Runs :
               /\ rpc'[x] # rpc[x] \/ rkind'[x] # rkind[x] =>
                    StepsLeft(rpc'[x], rkind'[x]) < StepsLeft(rpc[x], rkind[x])
               /\ RunStep(x) \/ RunThrows(x) => rpc'[x] # rpc[x]]_vars
<1>1. ASSUME IInv, [Next]_vars
      PROVE  [\A x \in Runs :
               /\ rpc'[x] # rpc[x] \/ rkind'[x] # rkind[x] =>
                    StepsLeft(rpc'[x], rkind'[x]) < StepsLeft(rpc[x], rkind[x])
               /\ RunStep(x) \/ RunThrows(x) => rpc'[x] # rpc[x]]_vars
  <2> DEFINE Nearer(x) == StepsLeft(rpc'[x], rkind'[x]) < StepsLeft(rpc[x], rkind[x])
             Still(x) == rpc'[x] = rpc[x] /\ rkind'[x] = rkind[x]
  <2>0. /\ PipelineTypeOK
        /\ rpc \in [Runs -> RunStates] /\ rkind \in [Runs -> Outcomes]
    BY <1>1, Basics DEF PipelineTypeOK, Outcomes
  <2>1. ASSUME NEW x \in Runs, Advances(x)
        PROVE  Nearer(x) /\ \A z \in Runs : z # x => Still(z)
    <3>0. PICK m \in RunStates :
             \E k : /\ rpc' = [rpc EXCEPT ![x] = m]
                    /\ rkind' = [rkind EXCEPT ![x] = k]
                    /\ StepsLeft(m, k) < StepsLeft(rpc[x], rkind[x])
      BY <2>1, Zenon DEF Advances, To
    <3>1. PICK k : /\ rpc' = [rpc EXCEPT ![x] = m]
                   /\ rkind' = [rkind EXCEPT ![x] = k]
                   /\ StepsLeft(m, k) < StepsLeft(rpc[x], rkind[x])
      BY <3>0
    <3>2. rpc'[x] = m /\ rkind'[x] = k
      BY <2>0, <3>1, Zenon
    <3>3. \A z \in Runs : z # x => Still(z)
      BY <2>0, <3>1
    <3>4. QED
      BY <3>1, <3>2, <3>3, Zenon
  <2>2. ASSUME NEW x \in Runs, RunStep(x) \/ RunThrows(x)
        PROVE  rpc'[x] # rpc[x]
    <3>1. PICK m \in RunStates \ {rpc[x]} : rpc' = [rpc EXCEPT ![x] = m]
      BY <2>0, <2>2, RunAdvances, Zenon DEF Advances, To
    <3>2. QED
      BY <2>0, <3>1, Zenon
  <2>3. ASSUME NEW x \in Runs
        PROVE  Still(x) \/ Nearer(x)
    <3> HIDE DEF Nearer
    <3>1. ASSUME NEW y \in Runs, Advances(y)
          PROVE  Still(x) \/ Nearer(x)
      BY <2>1, <3>1, Zenon
    <3>2. CASE UNCHANGED pipeline
      BY <3>2 DEF pipeline
    <3>3. CASE Crash
      <4>1. rkind' = rkind /\ \/ rpc'[x] = rpc[x]
                              \/ rpc[x] \notin {"off", "human", "done"} /\ rpc'[x] = "done"
        BY <3>3 DEF Crash, KillRuns
      <4>2. \A k : \A l \in RunStates \ {"off", "human", "done"} :
               StepsLeft("done", k) < StepsLeft(l, k)
        BY DEF StepsLeft, RunStates
      <4>3. CASE rpc[x] \notin {"off", "human", "done"} /\ rpc'[x] = "done"
        <5>1. rpc[x] \in RunStates \ {"off", "human", "done"} /\ rkind'[x] = rkind[x]
          BY <2>0, <4>1, <4>3, Zenon
        <5>2. QED
          BY <4>2, <4>3, <5>1, Zenon DEF Nearer
      <4>4. QED
        BY <4>1, <4>3
    <3>4. ASSUME NEW w \in Workers, Dispatch(w)
          PROVE  Still(x) \/ Nearer(x)
      <4>1. wev[w] \in Runs /\ rpc[wev[w]] = "off"
        BY <1>1, <3>4, Basics DEF Dispatch, ClaimInv, WorkerClaim, WorkerLocals, Runs
      <4>2. Advances(wev[w])
        BY <3>4, <4>1, StartAdvances, Zenon DEF Dispatch
      <4>3. QED
        BY <3>1, <4>1, <4>2, Zenon
    <3>5. ASSUME NEW w \in Workers, Ingest(w), ~Dispatch(w)
          PROVE  UNCHANGED pipeline
      <4>1. CASE ClaimEvent(w) \/ ClaimSkipped(w)
        BY <4>1, Zenon DEF ClaimEvent, ClaimRow, ClaimSkipped
      <4>11. CASE FindContact(w) \/ CreateContact(w)
        BY <4>11, Zenon DEF FindContact, CreateContact
      <4>2. CASE FindThread(w) \/ CreateThread(w) \/ Store(w)
        BY <4>2, Zenon DEF FindThread, CreateThread, Store
      <4>3. CASE MarkProcessed(w) \/ MarkFailed(w)
        BY <4>3, Zenon DEF MarkProcessed, MarkFailed, Settled
      <4>4. CASE IngestThrows(w) \/ \E e \in Events : Delivered(w, e)
        BY <4>4, Zenon DEF IngestThrows, Delivered
      <4>5. QED
        BY <3>5, <4>1, <4>11, <4>2, <4>3, <4>4, Zenon DEF Ingest, IngestNext, IngestStep
    <3>6. CASE \E y \in Runs : Run(y)
      BY <2>0, <3>1, <3>6, RunAdvances, Zenon DEF Run
    <3>7. CASE \E y \in Replays : Operator(y)
      <4>1. \A y \in Replays : y \in Runs
        BY Zenon DEF Runs
      <4>2. QED
        BY <2>0, <3>1, <3>7, <4>1, ReplayAdvances, Zenon DEF Operator
    <3>8. CASE \E q \in Requests : Request(q)
      BY <3>2, <3>8, Zenon DEF Request
    <3>9. CASE \E j \in Jobs : Job(j)
      BY <3>2, <3>9, Zenon DEF Job
    <3>10. CASE \E c \in Events : GoQuiet(c)
      BY <3>2, <3>10, Zenon DEF GoQuiet
    <3>11. CASE UNCHANGED vars
      BY <3>2, <3>11, Zenon DEF vars
    <3>12. QED
      BY <1>1, <3>2, <3>3, <3>4, <3>5, <3>6, <3>7, <3>8, <3>9, <3>10, <3>11, Zenon
         DEF Next
  <2>4. QED
    BY <2>2, <2>3, Zenon
<1>2. QED
  BY <1>1, SpecIInv, PTL DEF Spec
==============================================================================
