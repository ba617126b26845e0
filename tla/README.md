# Formal model of the SimplexLabs backend

The backend answers customers on WhatsApp with an AI agent, lets users of a
company take over, books appointments, takes orders and payments, and bills the
companies. It is a NestJS program over PostgreSQL (Prisma, READ COMMITTED, which
nothing in the code changes). Its hard part is not any single handler but what
happens *between* two awaited calls: webhooks, dashboard requests, agent runs,
jobs and operators share rows, most checks are made on rows read earlier, and
providers deliver events late, twice or never.

Source paths below are relative to `src/src/` unless they name `prisma/`,
`scripts/` or `docs/`. `PROJECT.json` maps every definition to its lines, and
lists the components, the hazards and the mutants.

## 1. Inventory

Status: **M** modelled, **P** partly, **-** not modelled (section 6 says why).

| Component (code) | State | Operations that change it | Works with | What is hard, and what must hold |
|---|---|---|---|---|
| **M** payments (`modules/payments`) | Payment, PaymentEvent, Order status and history | initiate (Stripe, wire), success and failure webhooks, order confirmation | Stripe, dedupe, lifecycle | events twice and out of order, read-decide-swap, two payments of one order; audit trail, payment and order agree |
| **M** webhook dedupe (`common/reliability/webhook-dedupe`) | WebhookEvent | claim, markProcessed, markFailed | both webhooks | one handling per event; what a failed one means |
| **P** ingestion (`modules/webhooks`) | ClientContact, Conversation, Message | ingestWhatsAppInbound | Twilio, dedupe, pipeline | two messages at once, acknowledged before stored; stored once |
| **M** pipeline (`agents/pipeline`) | AgentRun, Message | run, both persisting transactions | steps, executor, control | a takeover while the model thinks, failures while recording; the human wins, one answer |
| **P** executor (`agents/steps/executor`) | Appointment, Order, lifecycle | book, order, escalate, request payment | availability, payments, lifecycle | effects before the run is recorded, slot checked without a lock |
| **P** steps (`agents/steps`, `agents/providers`) | none | model calls | retry policy | any answer, or an error |
| **M** lifecycle (`modules/conversations`) | Conversation.lifecycleStatus | transition, autoCloseIfInactive | payments, executor, job | read-check-swap, writers that go past it |
| **M** control (`conversation-control`) | controlMode, controlledByUserId | takeover, handback, send | pipeline | two users, stale decisions; nobody steals |
| **M** dead letter queue (`failed-task`, `modules/admin`) | FailedTask | record, replay, abandon | pipeline | two operators, a replay of what was done |
| **M** inactivity job (`notifications/scheduler`) | Conversation status, Message | scan, close, goodbye | lifecycle | a customer or a user acts between scan and close; two instances |
| **M** availability, appointments (`modules/scheduling`, `modules/appointments`) | Appointment, BlockedTime | create, confirm, callback, block; the agent's booking | executor, calendar | time zones, two bookings of a slot; checked slots are free and inside working hours |
| **P** calendar, attendees (`modules/calendar`, `modules/attendees`) | Appointment, attendees | move, recur, attendee lists | appointments | a move races with a booking; whoever is invited has a seat |
| **M** subscriptions (`modules/subscriptions`) | Subscription, BillingRecord | assign, swap, reactivate, upgrade, pay, cancel, overdue job | admin, plans | periods and upgrades computed from stale rows, the job racing a payment; no period that the records do not show |
| **P** plans, products, orders | Order, Plan, Product | queries only; orders are written by the executor and the payments | payments, subscriptions | the advance by a payment, the category of a plan |
| **M** administration (`modules/admin`) | Company, User, Supabase account | onboarding, credentials, deactivate, reactivate | identity provider, notifications | a compensation that may fail itself; no account without a user |
| **P** authentication, users (`modules/auth`, `modules/users`) | User, Company | OAuth callback, removal | identity provider | a person who signs up between an account and its row |
| **M** permissions (`modules/permissions`, `common/guards`) | overrides, roles | update overrides, change role | every request | an override checked against a role that changes; rights follow the role and the overrides, nothing else |
| **P** agent configuration (`agents/config`, `agents/bootstrap`) | AgentConfig | seed, update | pipeline | two first visits seed one each; the one in use stays |
| **M** notifications (`modules/notifications`) | Notification, NotificationDelivery | create, markRead, markAllRead | WhatsApp, e-mail | fallback from one channel to the other, rows or settings that fail meanwhile; what is recorded is what was tried |
| **M** retry policy (`common/reliability`) | loop counter | run | e-mail | stops at its budget, terminal errors are not repeated |
| **M** channels (`modules/channels`) | CompanyChannel | create, update, remove, the seed script | ingestion, sender | whose number a message came to and leaves from |
| **P** WhatsApp sender (`modules/webhooks`) | none | send | channels | the number is chosen in several reads |
| **P** companies, websites | single rows | removal of a company | administration | no other interaction |
| **-** realtime, reports, search, plumbing | none in the database | emits, queries | all | nothing to check |

How they interact: a WhatsApp message is mapped to a company (`Channels`), claimed
and stored (`InboundMessages`), and answered by a run of the pipeline
(`AgentPipeline`), which may book (`Bookings`), order or ask for a payment
(`Payments`). Users take conversations over (`ConversationControl`), jobs close
them (`InactivityClose`), and all of them move one lifecycle status. Around that,
administrators make companies, users, roles, configurations and numbers
(`Platform`) and sell them subscriptions (`Billing`).

## 2. The modules

```
PaymentStates   LifecycleTransitions --------------------------.
      \          /            \                  Availability   |
       Payments                ConversationState        \       |
      /    |    \              /        |       \        Bookings
PaymentLedger   |   AgentPipeline  ConversationControl  |      \
 (refined by)   |        |              |  InactivityClose      Attendees
        PaymentsProofs  InboundMessages |       |                   \
        /       \             \         |       |                 Scheduling
PaymentsLedger-  MCPayments    Conversations --'                 /        \
   Proofs                      /           \             MCScheduling  SchedulingProofs
                  MCConversations  ConversationsProofs

Subscriptions                 Delivery
      |                          |
  BillingCron                 Accounts
      |                       /      \
   Billing            Permissions   AgentSetup
   /     \                 |         /
MCBilling BillingProofs  Channels   /
                             \     /
                             Platform
                             /      \
                     MCPlatform   PlatformProofs
```

Every awaited call of the code is an action. A local variable of a handler that
outlives an await is part of the record `loc[q]` of its request (or of `ev`,
`snap`... in the older modules), so what a handler read stays as it read it.

**`PaymentStates`, `LifecycleTransitions`** are the two transition tables of the
code (`payments/state/payment-state.ts`, `conversations/lifecycle-transitions.ts`)
as relations, with `canTransition` and `canTransitionLifecycle`.

**`Payments`** models `payments.service.ts` with its controller, the dedupe table
and the lifecycle mutator. Workers are webhook requests, an initiator is the
request that creates a payment: `Receive`, `Claim`, `LoadPayment`, `Decide`, `Swap`
(the conditional update, which takes the row lock), `ReadOrder`, `UpdateOrder`,
`Commit`, the lifecycle read and swap, `markProcessed`, `markFailed`. Stripe is an
environment: sessions that are paid, declined or expire, events delivered any
number of times in any order.

**`PaymentLedger`** is what the component promises to its readers: a payment with
an audit log that is opened, moved, confirmed, failed or noted in one atomic step.
`Payments` implements it (`LedgerSpec`).

**`ConversationState`** is the database the conversation components share, for one
customer phone. A contact, a conversation and a message are named by the provider
event whose handling created them. `convLock` is the lock of a conversation row
and `runLock` the uncommitted key of `agent_runs.message_id`, because a second
insert of it waits for the first transaction.

**`InboundMessages`** (`webhooks.service.ts`): a worker claims the event, finds or
creates the contact and the conversation, stores the message, starts the pipeline
without waiting for it and marks the event.

**`AgentPipeline`** (`pipeline.service.ts`, the steps, `executor.service.ts`,
`failed-task.service.ts`): a run passes the gate and the preflight, thinks (the
model's answer is validated and one of its interpretations chosen), executes a
decision, and records its outcome in a transaction that inserts the run, asserts
AGENT mode and creates the message; errors go to the failure path, which does the
same with the fallback text and swallows its own errors. Operator requests replay
or abandon a dead letter.

**`ConversationControl`** (`conversation-control.service.ts`): a request reads the
row, decides, and writes with a conditional update (`Swap`).

**`InactivityClose`** (`inactivity-close.job.ts`): scan, conditional close, goodbye.

**`Conversations`** composes the four over the shared tables and adds the crash of
the process and `GoQuiet`, the passing of the company's inactivity threshold. That
threshold is hours, so it does not pass while a run, an ingestion or a cycle of the
job is busy with the conversation.

**`Availability`** is the slot engine (`availability.service.ts`,
`timezone.util.ts`) and the calendar's own check of a reschedule, as functions of
the working hours, the blocked times and the appointments. Instants are numbers in
UTC, hours are wall-clock times at a fixed offset from it.

**`Bookings`** is the appointment table and its writers: the executor's search,
re-check and transaction (`tryBookAppointment`), creation, confirmation, callback
requests, reschedules, series and blocked times. `clock` orders the writes and
`checked` says when a slot was checked; both exist only to state properties.

**`Attendees`** adds the seats of an appointment and the invitations, which are
written after it in statements of their own; **`Scheduling`** composes the three.

**`Subscriptions`** (`subscriptions.service.ts`) has two actions for each operation
that reads before its transaction (`AssignRead`/`Assign`, `SwapLoad`/`Swap`,
`ReactivateRead`/`Reactivate`, `PayLoad`/`Pay`) and one for the others. `Commit`
measures every transaction by the partial unique index
`idx_one_active_sub_per_category`. A row carries what its billing records come to:
`records` counts them and `billed` is the end of the latest period they bill. A payment
that names an existing record, paid as it may be, adds none and extends the period all
the same; `again` adds up the cycles of such payments, which the program keeps nowhere.
**`BillingCron`** is the overdue job over the list it read; **`Billing`** composes them
with the passing of days.

**`Delivery`** is how a request tells a company something: the notification row,
the delivery rows and the fallback from WhatsApp to e-mail, with the bounded retry
loop around the provider (`notifications.service.ts`, `retry-policy.service.ts`). The
company's settings are read after the notification is stored, and when that fails the
request ends without any delivery row (`cut`); a notification may be for the dashboard
only (`external`, the `deliverExternal: false` of the attendees), and each row may be
lost by itself (`lost`), which the code only logs.

**`Accounts`** (`admin.service.ts`, `auth.service.ts`, `users.service.ts`,
`companies.service.ts`): a user is a row and an account at Supabase, which no
transaction covers. `CreateAccount`, `InsertUser` and `UndoAccount` are the three
steps of a creation with its compensation, and the provider's answer may be lost after
the account was made; `SignUp` and `OAuthRead`/`OAuthInsert`
are the person who comes by Google meanwhile.

**`Permissions`** is the resolution of roles and overrides and the guard, with the
two operations that change them; **`AgentSetup`** the agent
configurations of a company; **`Channels`** the WhatsApp numbers, the mapping of a
message to a company and the choice of the number that an answer leaves from.
**`Platform`** composes all of them: every request of every kind against every other.

**`PaymentsProofs`, `PaymentsLedgerProofs`, `ConversationsProofs`,
`SchedulingProofs`, `BillingProofs` and `PlatformProofs`** extend the composed
specifications by an inductive invariant, lemmas and the theorems of section 5. They
define nothing that the models use.

**`MC...`** modules give the constants values for TLC. Definitions named `Bug...`
are not part of any specification: each is a plausible mistake in the definition it
is named after, and shows that a property notices it.

## 3. Plan

Done: payments with their ledger; conversations; availability, bookings and
attendees; subscriptions with the billing job; the platform (delivery, accounts,
permissions, configurations, numbers); and theorems for every invariant and action
property that a run of them checks, with the refinement of the ledger, and theorems
that no run states: no circle of waiting transactions, how many steps a webhook, a run
and a request take at most, and which accounts a compensation reaches.

Next, in this order:

1. Theorems that bound what a booking or a subscription request takes, as those of
   section 5 do for webhooks, runs and requests of the platform; what an upgrade of
   `Subscriptions` is scheduled for.
2. `Payments` without the assumption that a foreign event names no payment of ours.
3. Abstract specifications for the conversation (a thread that is ingested, answered
   once, taken over and closed) and for the calendar, as `PaymentLedger` is for payments.

## 4. What the runs check

All bounds are constants of the configurations.

| Run | Instance | Shows |
|---|---|---|
| `payments_safety` | 2 payments of 1 order, 2 workers, no faults | `AuditTrail`, `OrderFollowsPayment`, `ConfirmedMeansPaid`, `PaidNotFailed`, `AppliedOnce`, `TypeOK`; `Payments` implements `PaymentLedger` (`LedgerSpec`); `StatusMovesLegal` |
| `payments_restart` | 1 payment, foreign events, other lifecycle moves, a failing call and a crash | `OutcomeIsTruthful` and `AppliedOnce` survive failures and crashes (so does `OrderFollowsPayment`, which is proved); the mutator respects the grammar under races (`LifecycleFollowsGrammar`) |
| `payments_liveness` | 1 payment, foreign events, no faults | `ClaimsAreMarked`, `SessionsSettle`, `PaidIsConfirmed` (who paid at the first attempt) |
| `conversations_control` | 1 message, 2 users, 2 requests, 2 jobs | `AgentYields`, `TakeoverNeverSteals`, `ClosesIdleAgentThreads`, `OneGoodbye`, `FinishedRunsAreRecorded`, `TypeOK` |
| `conversations_failures` | 1 message, 2 workers, 2 replays, an operator request and a takeover by an administrator, 2 failing calls, a crash | `IngestedOnce`, `AnswerMatchesRun` (one answer whatever is replayed), `EscapedRunsAreKept` |
| `conversations_liveness` | 2 messages, takeovers, no faults | `MessageAnswered` |
| `scheduling` | 1 booking of the agent, 2 requests, 1 reply, 2 staff members, a week of 2 days of 6 instants, 2 instants ahead of UTC | `CheckedSlotsAreFree`, `AgentBooksWorkingHours`, `ConfirmedOnce`, `ThreadsFollowAppointments`, `InvitedAreSeated`, `TypeOK` |
| `billing` | 3 requests, 3 plans of 2 categories and 2 niches, cycles of a day, 2 subscriptions, 4 days | `PeriodsAreBilled`, `PlanStaysInCategory`, `LapsedIsListed`, `TypeOK` |
| `platform` | 2 requests, 3 e-mail addresses, 4 roles, 2 permissions, 2 companies of which one owns the platform, 3 numbers, 2 attempts | `AccountsHaveRows`, `PermissionsFollow`, `AnswersComeBack`, `SeedingKeepsConfig`, `RequestsReturn` |

Why these bounds are enough to be interesting: the races are between two parties,
so two workers, requests, jobs or replays make each of them happen, and the second
payment or message is needed only where two rows of the same order or contact
meet. One failing call reaches every catch block, the second one the catch block of
a catch block. In `billing` the third request is the one that spoils a pair (two
payments read the same row, a third request cancels it), four days are a period
that ends, a payment or a job that comes late, and the job that runs again. Cycles of
other lengths and more subscriptions are left to the theorems, which are about all of
them. In `scheduling`
the offset makes the local day of an instant differ from its UTC day, the slots of
a window do not divide it evenly, and one draft names a staff member who has left.
In `platform` each request performs one operation from beginning to end; a
permission is of the company or of the platform, and of the two roles whose overrides
count one has it by default and the other has not; two attempts are a retry and the end
of the retries; the
client company owns the number that the platform sends from, so that the choice of
a number can go wrong, and of the two agent configurations of the other company the
older one is not for WhatsApp, so that the dashboard and the agent choose
differently.

**Runs that find a disagreement.** Each checks one sentence of the code's own
comments and TLC finds it violated; `PROJECT.json` quotes the sentence.

| Run | The code |
|---|---|
| `payments_double_advance` | advances an order twice when two payments of it are confirmed together |
| `conversations_effects` | executes a decision again in a second run of a message, before the unique index stops it |
| `scheduling_double_booking` | re-checks a slot inside the transaction without a lock: two bookings take it |


**Disagreements that have no run.** Met while reading or modelling; the models have
the behaviour where they cover the code, and properties are stated around it.

*Payments and webhooks*

- A failure event of a confirmed payment is processed without a `PaymentEvent` row
  (`modules/payments/payments.service.ts:543`, against
  `stripe-webhook.controller.ts:29-30`).
- `claim` answers `duplicate` for an event whose handling FAILED as well
  (`common/reliability/webhook-dedupe.service.ts:52`); its lines 12-13 promise it for
  "PROCESSED or RECEIVED still in-flight" only.

*Conversations*

- Two messages at once open two conversations: `webhooks.service.ts:242` looks for an
  open one without a lock, its lines 230-231 "enforce 'at most one open conversation
  per (contactId, channel)'".
- A message may be stored between the close and the goodbye
  (`inactivity-close.job.ts:205`, against its lines 196-197).
- The grammar makes "illegal jumps … fail loudly at runtime"
  (`lifecycle-transitions.ts:10-11`), but the executor writes APPOINTMENT_PENDING past
  it (`executor.service.ts:425`), from any status.
- A replay may move the lifecycle of a closed conversation
  (`lifecycle-transitions.ts:124`, against its lines 20-22).
- "Only the controlling user (or SUPER_ADMIN) may hand back"
  (`conversation-control.service.ts:149`), but the write at :166 asks for HUMAN mode
  only: a handback decided earlier revokes the control of somebody else.
- A replay that finds WhatsApp not ready is settled as REPLAYED
  (`failed-task.service.ts:145`, against its lines 46-47).
- "The Executor NEVER throws" (`executor.service.ts:73`), but its reads and the
  lifecycle call are outside of any try block.

*Subscriptions*

- "Record a subscription payment and advance period" (`subscriptions.controller.ts:50`):
  of two payments at once, which read the same row, both get a billing record of the same
  period and the subscription advances once (`subscriptions.service.ts:639`). A payment
  that names a record which is PAID already (:617) advances it with nothing newly paid.
- The job "marks subscriptions past period end as overdue" (`billing-cron.service.ts:20`)
  from the list it read; one that was paid meanwhile is marked too.

*Platform*

- "Change user role (clears permission overrides)" (`permissions.controller.ts:67`), but
  overrides that were checked before the change may be stored after it
  (`permissions.service.ts:163`), although they are refused with "Permission is not
  defined for this user's role" (:155-160). Those that the new role does not know have no
  effect, are not listed, and cannot be taken back before the next change of the role.
  Overrides of a COMPANY_ADMIN are stored and have no effect.
- "Super Administrators cannot be demoted" (`permissions.service.ts:211`) is checked on
  a row read earlier.
- "IN_APP : always persisted, NotificationDelivery row created" (`notifications.service.ts:62`)
  and "Every attempt … is recorded" (:69), but a delivery row that cannot be written is
  only logged, and settings that cannot be read (:106) leave a stored notification without
  any row.
- The configuration the dashboard edits "matches `PromptResolverService`"
  (`agent-config.service.ts:42-44`), which asks for the channel as well, so that they may
  choose different rows. The refusal "to deactivate the only active AgentConfig"
  (:146) can be raced by two updates.
- A number nobody has is dropped "instead of assigning it to the wrong tenant"
  (`channels.service.ts:190-193`), but with the sandbox fallback, which is on unless
  configured (`config/configuration.ts:69`), a message to a number that was retired goes
  to the sandbox's company.
- `scripts/seed-twilio-sandbox.ts:76` seals a token for the platform's company in a row
  that may belong to another one. It never opens again, and since that row is tried
  first, no company can send.
- "SUPER_ADMIN joins nothing by default" (`realtime.gateway.ts:40`), but one with a
  company joins its room (:68). The socket of a user who is deactivated stays open.
- "`SUPER_ADMIN` without `companyId` gets `{}`" (`common/tenant/tenant-scope.ts`), but the
  function throws Forbidden.

Other behaviour that the models have and a reader should know: a wire payment has no
operation that reviews it; all payments of one order may be confirmed; a human message may
be stored after its author lost control; a reschedule asks only that the appointment
starts within the working hours; a confirmation may say a time that has changed; a
person who signs up by Google between the account and the row of an invitation keeps a
user whose account the compensation deletes; a company without a number sends from
the platform's, even if another company has it, and answers leave from the company's
oldest number, not from the one written to.

**Fairness.**

- `Payments` and `Conversations` assume weak fairness of each worker, initiator and run:
  Node's event loop and the database serve every pending call. For its liveness run
  `Payments` also assumes that Stripe closes every session within a day and redelivers
  an event until it is acknowledged (strong fairness, because the number of workers
  bounds the model and not the server). Nothing is assumed of customers, users,
  operators or crashes. Both are checked for liveness without faults only, because with
  them the code promises little: a handler that fails and whose `markFailed` fails too
  leaves its event RECEIVED for ever.
- `Billing` assumes that the job runs every day and that no row fails for ever (strong
  fairness of marking it): the cron decorator and the try block of each row. Days need
  not pass, requests need not be made.
- `Platform` assumes that a request that has started goes on: providers answer or time
  out, and both are among the outcomes of every call.

## 5. What is proved

Every invariant and every action property that a passing run checks, and the
refinement of the ledger, is a theorem for all values of the constants: any number of
events, workers, runs, requests, users, rows and days, any number of failing calls and
crashes where the model has them. No theorem assumes fairness.

Three kinds of theorems go beyond what the runs state. `NoDeadlock` (payments,
conversations) says that transactions which wait for a row lock never wait in a circle.
`HandlersEnd`, `RunsEnd` and `RequestsEnd` give every process a number of steps left
that each of its own steps makes smaller and that no step of another process changes.
With `DoneIsAudited` they are the half of the liveness properties that needs no
fairness: nothing is repeated without end, and where a process ends, what it owes is
there. That it gets there if nobody starves is what the runs check.

Each proof goes the same way. The property alone is seldom inductive, because a
handler acts on what it read earlier. `IInv` adds to it what every handler holds at
each of its program points and why the steps of others cannot spoil that. One lemma
(or a few, one for each part of `IInv`) carries `IInv` over each action, and the
properties follow from it by state, or by step for the action properties.

**Payments** (`PaymentsProofs`, `PaymentsLedgerProofs`)

| Theorem | States |
|---|---|
| `TypeCorrect` | `TypeOK` |
| `OrderConsistency` | `OrderFollowsPayment`: an order is CONFIRMED exactly when one of its payments is |
| `LegalMoves` | `StatusMovesLegal`: no step moves a payment off the state machine |
| `ImplementsLedger` | `LedgerSpec`: `Payments` implements `PaymentLedger` |
| `AuditTrailHolds` | `AuditTrail`: the changing rows of a log are one chain to the current status |
| `ConfirmedPaymentsArePaid` | `ConfirmedMeansPaid` |
| `PaidNeverFails` | `PaidNotFailed` |
| `EventsApplyOnce` | `AppliedOnce` |
| `OutcomesAreTrue` | `OutcomeIsTruthful` |
| `LifecycleIsLegal` | `LifecycleFollowsGrammar` |
| `NoDeadlock` | a chain of webhook transactions that wait for each other ends after two |
| `HandlersEnd` | a delivered event costs its handler eleven steps at most, whatever fails |
| `OneHandlerPerEvent` | from its claim to its mark an event is in the hands of one worker at most |
| `ClaimSuffices` | the handlers' own look for an earlier row (`hasProcessedStripeEvent`) never finds one, so the claim alone keeps events apart |

The assumption is `ConstantsAssumption`: the ids of workers, payments and events are
distinct from each other and from the markers, and foreign events name no payment of
ours. The first module uses

    IInv == TypeOK /\ CreationInv /\ WorkerInv /\ LockInv /\ OrderInv /\ OrderFollowsPayment

A confirming transaction writes the payment and the order in different calls, so the
invariant says what a worker in the middle of it holds (`LockInv`: it owns the row lock
of its payment, which has still the status it was allowed to leave), what it read of
the order and is going to write (`OrderInv`), that its target comes from the event it
handles (`WorkerInv`), and that a payment has no events, locks or readers before it is
created (`CreationInv`). `NoDeadlock` follows from `LockInv` and `OrderInv`: who waits
for an order holds a payment, who holds an order waits for nothing. `LegalMoves` follows from `LockInv`: the status cannot change
between the conditional update and the commit. The second module holds, together with
`IInv`,

    LInv == ClaimInv /\ RowsInv /\ SessionInv /\ DoneInv /\ LifeInv
              /\ AuditTrail /\ AppliedOnce /\ ConfirmedMeansPaid /\ OutcomeIsTruthful

`ClaimInv`: a claimed event has one worker, and its row stays RECEIVED until that worker
marks it, whatever is redelivered. `RowsInv`: an event that nobody claimed left nothing
in a log, and a worker that has still to write its row finds none. `SessionInv`: a
customer pays or is declined only after the initiating request has returned, so nothing
clears the payment intent any more; a payment fails only by an expired session, a
declined card or that request. `DoneInv`: the outcome a worker is about to record is
true of the log. `LifeInv`: the lifecycle status that was read leads legally to the one
that will be written. A step changes a log only by appending one row (`LogSteps`), which
either notes (`TrailNote`) or extends the chain (`TrailChange`). In the refinement the
creation of a payment opens it, an aborted initiation gives it up, an audit row notes,
a commit confirms or fails; every other step stutters.

**Conversations** (`ConversationsProofs`)

`SpecIInv` is the inductive invariant; from it `SpecTypeOK`, `SpecIngestedOnce`,
`SpecAnswerMatchesRun`, `SpecOneGoodbye`, `SpecFinishedRunsAreRecorded` and
`SpecEscapedRunsAreKept` state the invariants of the same names, and `SpecAgentYields`,
`SpecTakeoverNeverSteals` and `SpecClosesIdleAgentThreads` the action properties.
`NoDeadlock` says that runs do not wait for each other in a circle (the key of a message
comes before the row of a conversation), `RunsEnd` that a run takes at most
twenty-three steps once it has started, also if it throws, and is not started again. They
assume that events, replays, workers and the markers are told apart and that
administrators are users (`StateAssumption`, `InboundAssumption`, `PipelineAssumption`,
`ControlAssumption`).

    IInv == /\ Typed /\ ClaimInv /\ StoredInv /\ LocksInv /\ AnswerInv
            /\ GoodbyeInv /\ ModeInv /\ RecordInv /\ EscapedRunsAreKept

`LocksInv` is the heart: a run inside its transaction has the key of its message in
`agent_runs`, and after its assertion the row of the conversation too, which is in AGENT
mode as long as it is held. With it `AnswerInv` (an answer is in the conversation exactly
when the run of its message recorded one of that kind, and once) survives replays, and
`AgentYields` follows: only the holder of the row writes an answer. `ClaimInv` and
`StoredInv` do the same for the ingestion, `GoodbyeInv` for the job that closed a
conversation, `ModeInv` says that nobody owns a conversation in AGENT mode, and
`RecordInv` says which failures let a run end without a record. Most actions leave most
parts alone; the frames `RunMove`, `Calm` and `Quiet` say so once. The action properties
follow from two lemmas on how a step may change the control columns (`ControlChanges`)
and the messages (`LogChanges`).

**Scheduling** (`SchedulingProofs`)

`SpecIInv`, and from it `SpecTypeOK`, `SpecCheckedSlotsAreFree`,
`SpecAgentBooksWorkingHours`, `SpecConfirmedOnce`, `SpecThreadsFollowAppointments` and
`SpecInvitedAreSeated`. They assume `AvailabilityAssumption` (hours are non-empty and end
within their day), `BookingsAssumption` and `AttendeesAssumption` (runs, replies and
requests are told apart, markers are no values).

    IInv == /\ TablesInv /\ SeatsInv /\ RepliesInv /\ LocsInv /\ ToldInv
            /\ CheckedSlotsAreFree /\ AgentBooksWorkingHours
            /\ ThreadsFollowAppointments /\ InvitedAreSeated

`CheckedSlotsAreFree` speaks of an appointment and the moment it was checked; to write
one, a run must still know at its insert that the slot was free at that moment.
`LocsInv` says that it does: no row written before `at` meets the slot, however many
were written since. That is why double bookings (section 4) do not refute it. `ToldInv`
counts: the requests that are about to tell a customer, with the confirmations already
sent, are no more than the confirmations that were made. `Extended`, `Touched` and
`Moved` are the three ways in which the table changes; all of them only grow what the
others rely on (`Grows`). The grid of the slots needs lemmas about division of instants
by the length of a day and of a slot.

**Subscriptions** (`BillingProofs`)

- `TypeCorrect`: `TypeOK`;
- `BilledPeriods`: `PeriodsAreBilled`, no subscription runs beyond the latest period that
  was billed, but for the cycles of payments recorded again under an existing record;
- `PlanInCategory`: `PlanStaysInCategory`, no payment or upgrade moves a subscription
  to a plan of another category.

They rest on `SubscriptionsAssumption` and `HorizonAssumption`, and on

    IInv == TypeOK /\ RowsInv /\ RequestInv

Both need what a payment remembers of a row that others change meanwhile. `RequestInv`
says that the plan it is going to store is of its row's category and that the period it
counts from was accounted for (`Accounted`, what was billed and what was recorded again).
`RowsInv` says the same of the rows. The lemmas about `Follows` carry `RequestInv` over
the steps of others: rows are only appended, never change their category, and what is
accounted for a row only grows. There is one lemma for each action, over `StepKeeps`,
`ReadKeeps` and `CommitKeeps`.

That a company has one live subscription of a category is not among the properties. The
partial unique index (`IndexAllows`) says so and every transaction is measured by it
(`Commit`): it is a fact about the index, which no request could break.

**Platform** (`PlatformProofs`)

`SpecIInv`, and from it `SpecAccountsHaveRows`, `SpecAnswersComeBack` and the action
properties `SpecPermissionsFollow` and `SpecSeedingKeepsConfig`. Beyond the runs
go `DoneIsAudited` (the delivery rows of a finished request are those of one outcome of
its notification, each written or lost by itself; the row for the dashboard alone if
nothing was to be sent, and none if the settings could not be read),
`RequestsEnd` (it took eight steps and its attempts at an email at most) and
`CompensationIsOwn` (what a failed creation takes back is the account that the same
request made, still there and held by no other request; never one that a person made,
though a person who came by Google may have got a row for it, see section 4). They assume
`DeliveryAssumption`, `AccountsAssumption`, `PermissionsAssumption` and
`ChannelsAssumption` (no number is seeded twice).

    IInv == /\ TablesInv /\ LocsInv /\ Ids \subseteq DOMAIN accounts
            /\ AccountsHaveRows /\ NumbersInv

`AccountsHaveRows` needs that a request between an account and its row knows which
account it made (`LocsInv`). `NumbersInv` is the unique index on the numbers, and that
an answer left from a number of the company it was for; rows never change their owner,
so it stays so. An account whose creation was answered by an error that was none is an
exception that `AccountsHaveRows` names. `SpecPermissionsFollow` follows from lemmas on
what each step does to the role, the company and the overrides of every user:
`SwitchKeepsRights`, `AddedUserKeepsRights` and `AccountsKeepRights` say that the others
leave the rights alone (`RightsStay`), `RoleFollows` and `GrantFollows` what the two
operations make of them; both act on a row that may have changed since they read it.
`SpecSeedingKeepsConfig` follows from how a step may reconfigure a
company (`Reconfigured`) and from the oldest of a set of configurations staying the
oldest when one is appended (`OldestKept`).

Two more invariants are inductive relative to `IInv`. `ToldInv` says which delivery rows
a request has written at each point of a notification, that it has made no notification
anywhere else, and that its attempts are within the budget. `HeldInv` says that an
account which a request made and has not given a row is live, made by an administrator
and held by that request alone. Most operations tell nobody anything, and `Elsewhere`
says so once for all of them.

**Only model-checked** are the liveness properties `ClaimsAreMarked`, `SessionsSettle`,
`PaidIsConfirmed`, `MessageAnswered`, `LapsedIsListed` and `RequestsReturn`, because the
proof system reasons neither about fairness nor about ENABLED (of those about handlers,
runs and requests the other half is proved, see above), and the three violations
`EffectsOnce`, `AdvancesFromPendingOnly` and `NoDoubleBooking`, which are counterexamples. Facts by induction over data are beyond it too; the smallest
configuration of `OldestKept` is taken by well-foundedness instead. Recursive operators
are avoided in the modules that theorems are about.

## 6. What is left out, and known limits

Everywhere: wording, logging, metrics, response mapping, queries, search, dashboards
and reports; realtime emits, which write nothing.

*Payments*

- Both webhooks acknowledge before they store anything. The models have the loss
  this implies (a crash after the acknowledgement, an event refused on redelivery);
  properties say what holds in spite of it, not that nothing is lost.
- A customer whose first card attempt was declined and who then pays keeps a FAILED
  payment: `PaidIsConfirmed` therefore speaks of the first attempt.

*Conversations*

- What the language model answers: a choice of the decisions in `Decisions`. Prompts,
  knowledge base and context are not modelled. REQUEST_PAYMENT and orders are effects
  that are counted; `payments.initiate` is in `Payments`, bookings are in `Bookings`.
- One phone and one channel: rows of different companies and customers do not meet
  in the conversation code.
- The echo reply of development environments. The second operator request on a task
  that is settled.
- A run that throws inside its try block and whose failure path fails too leaves
  nothing behind; `EscapedRunsAreKept` speaks of the runs that throw before it.

*Scheduling*

- The zone of a company is a fixed offset: what happens on the two days of a year when
  it changes is not modelled.
- CANCELLED and COMPLETED appointments: no code writes these statuses.
- The reads of one search are one action; the re-check, which matters, is its own.

*Subscriptions*

- Amounts. Billing records are counted, and of their periods the latest end is kept:
  no decision reads the others back. A request that names an existing record is modelled
  as naming some record of the subscription, or one that is refused.
- Model and code alike: a payment does not clear `cancelledAt`, an upgrade is
  scheduled without a look at the plan's niche or whether it is active, and one that was
  cancelled after a payment had read it is applied all the same, while one that was
  scheduled after it is lost. A payment that commits late moves the period back. The
  properties bound what such payments can do, they do not exclude them.

*Platform*

- Several reads of one operation are one action where nothing is decided between them,
  and settings of the environment are chosen when they are read. A provider that is not
  configured counts as one that refuses.
- Each request performs one operation. No crash between an account and its row, after
  which nothing in the code would find the account.
- Login, refresh and logout keep no state here; the first-login flag and e-mail
  wording are left out. Companies and websites are single rows.
- `createUser` does not look at whether the company is active, and reactivating a company
  reactivates the users who were removed one by one; the model has both.
- No controller calls `create`, `update` and `remove` of the channels service at this
  commit; they are modelled as the operations they offer. Encryption is reduced to the
  company that a token was sealed for, the tenant check is left out.
