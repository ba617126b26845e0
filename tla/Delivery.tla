------------------------------- MODULE Delivery -------------------------------
(***************************************************************************)
(* How a request tells a company something: the notification row, its      *)
(* delivery rows and the channels it is sent through (notifications/       *)
(* notifications.service.ts, notifications/adapters/email.service.ts), and *)
(* the retry loop around a provider (common/reliability/                   *)
(* retry-policy.service.ts). The email adapter also sends the credentials  *)
(* of Accounts; next says where a request goes on after an email.          *)
(***************************************************************************)
EXTENDS Integers, Sequences

CONSTANTS
    Requests,       \* HTTP requests, each of them one operation
    MaxAttempts     \* of a retried call

ASSUME DeliveryAssumption == MaxAttempts \in Nat \ {0}

VARIABLES
    loc,            \* where each request is, and what it read
    notices         \* the notification that each request made

\* A notification: whether it is sent out of the dashboard, whether its making
\* was cut off, the delivery rows it got, and those that could not be written.
NoNotice == [made |-> FALSE, read |-> FALSE, external |-> TRUE, cut |-> FALSE,
             log |-> {}, lost |-> {}]
NoKeys == [k \in {} |-> FALSE]

Idle == [pc |-> "idle", acct |-> 0, company |-> 0, email |-> "", role |-> "",
         keys |-> NoKeys, on |-> FALSE, to |-> {}, channel |-> "", ok |-> FALSE,
         attempt |-> 1, next |-> "", config |-> 0, external |-> TRUE]

InitDelivery ==
    /\ loc = [q \in Requests |-> Idle]
    /\ notices = [q \in Requests |-> NoNotice]

To(q, l) == loc' = [loc EXCEPT ![q] = l]
Goto(q, pc) == loc' = [loc EXCEPT ![q].pc = pc]
Done(q) == To(q, [Idle EXCEPT !.pc = "done"])
At(q, pc) == loc[q].pc = pc
Starts(q) == At(q, "idle")

\* NotificationsService.create on behalf of another service, which may ask that
\* nothing is sent (deliverExternal).
StartNotice(q) ==
    /\ Starts(q)
    /\ \E external \in BOOLEAN :
         To(q, [Idle EXCEPT !.pc = "notice", !.external = external])
    /\ UNCHANGED notices

\* The row; an error is the caller's, who logs it.
CreateNotice(q) ==
    /\ At(q, "notice")
    /\ \/ /\ notices' = [notices EXCEPT ![q].made = TRUE,
                                      ![q].external = loc[q].external]
          /\ Goto(q, "settings")
       \/ Done(q) /\ UNCHANGED notices

\* The company may have configured a number, an address, both or neither. If
\* they cannot be read, the notification stays as it is and the error is the
\* caller's.
ReadSettings(q) ==
    /\ At(q, "settings")
    /\ \/ /\ \E to \in SUBSET {"WHATSAPP", "EMAIL"} :
              To(q, [loc[q] EXCEPT !.pc = "record", !.channel = "IN_APP", !.ok = TRUE,
                                   !.to = to, !.next = "record"])
          /\ UNCHANGED notices
       \/ /\ notices' = [notices EXCEPT ![q].cut = TRUE]
          /\ Done(q)

\* Bug: a number that is not configured is passed over without a row.
BugAfter(l) ==
    CASE l.channel = "IN_APP" /\ l.external /\ "WHATSAPP" \in l.to -> "whatsapp"
      [] l.channel = "IN_APP" /\ l.external /\ "WHATSAPP" \notin l.to -> "email"
      [] l.channel = "WHATSAPP" /\ ~l.ok -> "email"
      [] OTHER -> "done"

\* create, runExternalDelivery: the email is for what WhatsApp did not deliver.
After(l) ==
    CASE l.channel = "IN_APP" /\ l.external -> "whatsapp"
      [] l.channel = "WHATSAPP" /\ ~l.ok -> "email"
      [] OTHER -> "done"

\* recordDelivery: a row that cannot be written is only logged.
Record(q) ==
    LET l == loc[q] IN
    /\ At(q, "record")
    /\ \/ notices' = [notices EXCEPT ![q].log = @ \union {<<l.channel, l.ok>>}]
       \/ notices' = [notices EXCEPT ![q].lost = @ \union {<<l.channel, l.ok>>}]
    /\ IF After(l) = "done" THEN Done(q) ELSE Goto(q, After(l))

Sent(q, channel, ok) ==
    To(q, [loc[q] EXCEPT !.pc = loc[q].next, !.channel = channel, !.ok = ok,
                         !.attempt = 1])

\* sendTextMessage: Twilio accepts the message or it does not.
Answers(l) == IF "WHATSAPP" \in l.to THEN BOOLEAN ELSE {FALSE}

\* attemptWhatsapp: one attempt, if there is a number.
SendWhatsapp(q) ==
    /\ At(q, "whatsapp")
    /\ \E ok \in Answers(loc[q]) : Sent(q, "WHATSAPP", ok)
    /\ UNCHANGED notices

\* classifyEmailError, classifyResendError: what an error of the provider is.
Classified == {"retryable", "terminal"}

\* EmailAdapter.send; an address or a provider that is not configured counts
\* as terminal.
Outcomes(l) == IF "EMAIL" \in l.to THEN {"sent"} \union Classified ELSE {"terminal"}

\* The next attempt, after the backoff.
TryAgain(l) == [l EXCEPT !.attempt = @ + 1]

\* RetryPolicyService.run around a send.
TryEmail(q) ==
    LET l == loc[q] IN
    /\ At(q, "email")
    /\ \E o \in Outcomes(l) :
         IF o = "retryable" /\ l.attempt < MaxAttempts
         THEN To(q, TryAgain(l))
         ELSE Sent(q, "EMAIL", o = "sent")
    /\ UNCHANGED notices

\* markRead: only what is unread is written.
MarkRead(q) ==
    /\ Starts(q)
    /\ \E n \in Requests : notices[n].made /\ ~notices[n].read
                           /\ notices' = [notices EXCEPT ![n].read = TRUE]
    /\ Done(q)

MarkAllRead(q) ==
    /\ Starts(q)
    /\ notices' = [n \in Requests |-> [notices[n] EXCEPT !.read = notices[n].made]]
    /\ Done(q)

DeliveryStep(q) ==
    \/ StartNotice(q) \/ CreateNotice(q) \/ ReadSettings(q) \/ Record(q)
    \/ SendWhatsapp(q) \/ TryEmail(q)
    \/ MarkRead(q) \/ MarkAllRead(q)

\* The outcomes that the delivery rows of a notification may show: one for the
\* dashboard, and if it was to be sent one for WhatsApp, and one for the email
\* unless WhatsApp delivered.
Outcome(rows, external) ==
    rows \in { {<<"IN_APP", TRUE>>} \union sent :
               sent \in IF ~external THEN {{}}
                        ELSE {{<<"WHATSAPP", TRUE>>}}
                             \union { {<<"WHATSAPP", FALSE>>, <<"EMAIL", ok>>} :
                                      ok \in BOOLEAN } }

\* What is left of a notification: nothing more after it was cut off, and
\* otherwise the rows of an outcome, but for those that could not be written.
Audited(n) ==
    \/ ~n.made
    \/ n.cut /\ n.log \union n.lost = {}
    \/ ~n.cut /\ Outcome(n.log \union n.lost, n.external)
=============================================================================
