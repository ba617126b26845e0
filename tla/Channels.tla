------------------------------- MODULE Channels -------------------------------
(***************************************************************************)
(* The WhatsApp numbers of the companies (channels/channels.service.ts):   *)
(* which company a message belongs to (resolveCompanyByExternalId) and     *)
(* which number an answer leaves from (webhooks/                           *)
(* whatsapp-sender.service.ts). The rows are changed by the service and by *)
(* a script of the operators (scripts/seed-twilio-sandbox.ts), between the *)
(* reads of a message on its way. Of a token only matters for which        *)
(* company it was sealed: it opens for no other one.                       *)
(***************************************************************************)
EXTENDS Permissions

CONSTANTS
    Numbers,
    PlatformNumber,     \* TWILIO_WHATSAPP_FROM, which startup insists on
    SandboxNumber,      \* DIALOG_SANDBOX_EXTERNAL_ID
    InboundFallback,    \* DIALOG_SANDBOX_INBOUND_FALLBACK
    Lines               \* company and number of the first rows, by age

ASSUME ChannelsAssumption ==
    /\ {PlatformNumber, SandboxNumber} \subseteq Numbers
    /\ InboundFallback \in BOOLEAN
    /\ Lines \in Seq([company : DOMAIN Founded, number : Numbers])
    /\ \A i, j \in DOMAIN Lines : Lines[i].number = Lines[j].number => i = j

VARIABLES
    channels,           \* the rows, by age
    outbound            \* what Twilio accepted: for whom, from where, and why

channelState == <<channels, outbound>>

NewChannel(c, n, on) == [company |-> c, number |-> n, active |-> on, sealed |-> c]

InitChannels ==
    /\ channels = [i \in DOMAIN Lines |-> NewChannel(Lines[i].company, Lines[i].number, TRUE)]
    /\ outbound = {}

\* There is one row at most (the unique index).
RowOf(n) == { i \in DOMAIN channels : channels[i].number = n }
ActiveRow(n) == { i \in RowOf(n) : channels[i].active }

\* decryptRow, with aadFor of the row.
Opens(i) == channels[i].sealed = channels[i].company

(* The rows *****************************************************************)

SetChannels(cs) == channels' = cs /\ UNCHANGED <<outbound, accountState, notices>>

\* create: refused if somebody has the number.
CreateChannel(q) ==
    /\ Starts(q)
    /\ \E c \in Companies, n \in Numbers, on \in BOOLEAN :
         SetChannels(IF RowOf(n) = {} THEN Append(channels, NewChannel(c, n, on))
                     ELSE channels)
    /\ Done(q)

\* update: what it reads of the row never changes.
UpdateChannel(q) ==
    /\ Starts(q)
    /\ \E i \in DOMAIN channels, on \in BOOLEAN :
         \E s \in {channels[i].sealed, channels[i].company} :
           SetChannels([channels EXCEPT ![i].active = on, ![i].sealed = s])
    /\ Done(q)

\* remove
RemoveChannel(q) ==
    /\ Starts(q)
    /\ \E i \in DOMAIN channels : SetChannels([channels EXCEPT ![i].active = FALSE])
    /\ Done(q)

\* seed-twilio-sandbox, of the company that owns the platform: its other
\* numbers are retired,
SeedRetire(q) ==
    /\ Starts(q)
    /\ \E c \in PlatformCompanies :
         /\ SetChannels([i \in DOMAIN channels |->
              IF channels[i].company = c /\ channels[i].number # PlatformNumber
              THEN [channels[i] EXCEPT !.active = FALSE] ELSE channels[i]])
         /\ To(q, [Idle EXCEPT !.pc = "seedChannel", !.company = c])

\* then the platform's is made, or sealed anew for the owner, whose-ever it is.
SeedUpsert(q) ==
    LET c == loc[q].company IN
    /\ At(q, "seedChannel")
    /\ SetChannels(IF RowOf(PlatformNumber) = {}
                   THEN Append(channels, NewChannel(c, PlatformNumber, TRUE))
                   ELSE [i \in DOMAIN channels |->
                           IF i \in RowOf(PlatformNumber)
                           THEN [channels[i] EXCEPT !.active = TRUE, !.sealed = c]
                           ELSE channels[i]])
    /\ Done(q)

(* Messages *****************************************************************)

\* resolveCompanyByExternalId, of the number that a customer wrote to.
ResolveCompany(q) ==
    /\ Starts(q)
    /\ \E n \in Numbers :
         IF ActiveRow(n) # {}
         THEN \E i \in ActiveRow(n) :
                To(q, [Idle EXCEPT !.pc = "credentials", !.company = channels[i].company])
         ELSE IF InboundFallback /\ n # SandboxNumber
              THEN Goto(q, "sandbox") ELSE Done(q)
    /\ UNCHANGED <<channelState, accountState, notices>>

\* resolveDialogSandboxFallback, in a read of its own.
SandboxFallback(q) ==
    /\ At(q, "sandbox")
    /\ IF ActiveRow(SandboxNumber) # {}
       THEN \E i \in ActiveRow(SandboxNumber) :
              To(q, [Idle EXCEPT !.pc = "credentials", !.company = channels[i].company])
       ELSE Done(q)
    /\ UNCHANGED <<channelState, accountState, notices>>

\* sendTextMessage for a notification, a human answer or another one of the agent.
StartSending(q) ==
    /\ Starts(q)
    /\ \E c \in Companies : To(q, [Idle EXCEPT !.pc = "credentials", !.company = c])
    /\ UNCHANGED <<channelState, accountState, notices>>

\* Twilio accepts the message or refuses it.
Leaves(q, from, source) ==
    outbound' \in {outbound, outbound \union
        {[company |-> loc[q].company, from |-> from, source |-> source]}}

\* Bug: whose the number is does not matter.
BugOwnSender(q) == { i \in ActiveRow(PlatformNumber) : Opens(i) }

\* bySender, if it is the company's.
OwnSender(q) == { i \in ActiveRow(PlatformNumber) :
                    Opens(i) /\ channels[i].company = loc[q].company }

\* resolveCompanyChannel prefers the platform's number; if its token does not
\* open the send fails, for every company.
PreferPlatform(q) ==
    /\ At(q, "credentials")
    /\ CASE \E i \in ActiveRow(PlatformNumber) : ~Opens(i) -> Done(q) /\ UNCHANGED outbound
         [] OwnSender(q) # {} -> Leaves(q, PlatformNumber, "company_channel") /\ Done(q)
         [] OTHER -> Goto(q, "oldest") /\ UNCHANGED outbound
    /\ UNCHANGED <<channels, accountState, notices>>

\* getSendingCredentials: the company's oldest active row, if there is one.
SendingRow(c) ==
    LET rows == { i \in DOMAIN channels : channels[i].active /\ channels[i].company = c } IN
    { i \in rows : \A j \in rows : i <= j }

\* resolveCredentials: without a row the platform's own number is taken.
OldestOrEnv(q) ==
    LET row == SendingRow(loc[q].company) IN
    /\ At(q, "oldest")
    /\ IF row = {} THEN Leaves(q, PlatformNumber, "env")
       ELSE \E i \in row :
              IF Opens(i) THEN Leaves(q, channels[i].number, "company_channel")
              ELSE UNCHANGED outbound
    /\ Done(q)
    /\ UNCHANGED <<channels, accountState, notices>>

ChannelsStep(q) ==
    \/ CreateChannel(q) \/ UpdateChannel(q) \/ RemoveChannel(q)
    \/ SeedRetire(q) \/ SeedUpsert(q)
    \/ ResolveCompany(q) \/ SandboxFallback(q) \/ StartSending(q)
    \/ PreferPlatform(q) \/ OldestOrEnv(q)
=============================================================================
