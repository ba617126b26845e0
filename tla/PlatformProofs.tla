---------------------------- MODULE PlatformProofs ----------------------------
(***************************************************************************)
(* Proofs about Platform, for any number of requests, emails, roles,       *)
(* permissions, companies and numbers.                                     *)
(***************************************************************************)
EXTENDS Platform, WellFoundedInduction, TLAPS

-----------------------------------------------------------------------------
(* The inductive invariant.                                                *)

KeyMaps == UNION { [S -> BOOLEAN] : S \in SUBSET Keys }

AccountRows == [email : Emails, made : {"admin", "person", "lost"},
                state : {"live", "deleted", "left"}]
UserRows == [role : Roles, company : Nat, active : BOOLEAN, sent : BOOLEAN,
             keys : KeyMaps]
CompanyRows == [active : BOOLEAN, configs : Seq(Configs)]
ChannelRows == [company : Nat, number : Numbers, active : BOOLEAN, sealed : Nat]

TablesInv ==
    /\ accounts \in Seq(AccountRows)
    /\ users \in [Ids -> UserRows]
    /\ companies \in Seq(CompanyRows)
    /\ channels \in Seq(ChannelRows)

Points == {"idle", "done", "notice", "settings", "record", "whatsapp", "email",
           "createAccount", "insertUser", "undo", "oauth", "deactivate",
           "reactivate", "remove", "removeCompany", "send", "sent", "grant", "role",
           "seed", "seedCreate", "count", "config", "seedChannel", "sandbox",
           "credentials", "oldest"}

Locs == [pc : Points, acct : Nat, company : Nat, email : Emails \union {""},
         role : Roles \union {""}, keys : KeyMaps, on : BOOLEAN,
         to : SUBSET {"WHATSAPP", "EMAIL"},
         channel : {"", "IN_APP", "WHATSAPP", "EMAIL", "on", "whatsapp"},
         ok : BOOLEAN, attempt : Nat, next : {"", "record", "sent"}, config : Nat,
         external : BOOLEAN]

\* What a request holds at its program point, of n accounts.
Local(l, n) ==
    /\ l \in Locs
    /\ l.pc \in {"createAccount", "insertUser"} => l.email \in Emails
    /\ l.pc \in {"createAccount", "insertUser", "role"} => l.role \in Roles
    /\ l.pc \in {"insertUser", "undo", "oauth"} => l.acct \in 1..n
    /\ l.pc \in {"record", "whatsapp"} => l.next = "record"
    /\ l.pc = "email" => l.next # ""
    /\ l.pc \in {"count", "config"} => l.channel \in {"on", "whatsapp"}

LocsInv ==
    /\ loc \in [Requests -> Locs]
    /\ \A q \in Requests : Local(loc[q], Len(accounts))

\* No number is in two rows, and what left from a company's number left from
\* one that was that company's.
NumbersInv ==
    /\ \A i, j \in DOMAIN channels : channels[i].number = channels[j].number => i = j
    /\ \A m \in outbound : m.source = "company_channel" =>
         \E i \in DOMAIN channels : /\ channels[i].number = m.from
                                    /\ channels[i].company = m.company

IInv == /\ TablesInv /\ LocsInv /\ Ids \subseteq DOMAIN accounts
        /\ AccountsHaveRows /\ NumbersInv

-----------------------------------------------------------------------------
(* Facts about sequences and overrides.                                    *)

LEMMA ElementsOf ==
  ASSUME NEW S, NEW s \in Seq(S)
  PROVE  \A i \in DOMAIN s : s[i] \in S
OBVIOUS

LEMMA SetElement ==
  ASSUME NEW S, NEW s \in Seq(S), NEW i, NEW x, i \in DOMAIN s => x \in S
  PROVE  /\ [s EXCEPT ![i] = x] \in Seq(S)
         /\ Len([s EXCEPT ![i] = x]) = Len(s)
         /\ DOMAIN [s EXCEPT ![i] = x] = DOMAIN s
<1> DEFINE t == [s EXCEPT ![i] = x]
<1>1. /\ DOMAIN t = DOMAIN s /\ DOMAIN s = 1..Len(s) /\ Len(s) \in Nat
      /\ \A j \in DOMAIN s : t[j] \in S
  OBVIOUS
<1>2. t \in [1..Len(s) -> S]
  BY <1>1
<1>3. t \in Seq(S) /\ Len(t) = Len(s)
  BY <1>1, <1>2
<1>4. QED
  BY <1>1, <1>3

LEMMA SameLength ==
  ASSUME NEW S, NEW s \in Seq(S), NEW i, NEW x
  PROVE  Len([s EXCEPT ![i] = x]) = Len(s)
<1>1. s \in Seq(S \union {x})
  OBVIOUS
<1>2. QED
  BY <1>1, SetElement

LEMMA Appended ==
  ASSUME NEW S, NEW s \in Seq(S), NEW x \in S
  PROVE  /\ Append(s, x) \in Seq(S)
         /\ Len(Append(s, x)) = Len(s) + 1
         /\ DOMAIN s \subseteq DOMAIN Append(s, x)
         /\ DOMAIN Append(s, x) = DOMAIN s \union {Len(s) + 1}
         /\ Len(s) + 1 \notin DOMAIN s
         /\ \A i \in DOMAIN s : Append(s, x)[i] = s[i]
         /\ Append(s, x)[Len(s) + 1] = x
  OBVIOUS

LEMMA KeyMapFacts ==
  /\ NoKeys \in KeyMaps
  /\ Overrides \subseteq KeyMaps
  /\ \A f, g \in KeyMaps :
       [k \in DOMAIN f \union DOMAIN g |-> IF k \in DOMAIN g THEN g[k] ELSE f[k]] \in KeyMaps
<1>1. NoKeys \in KeyMaps
  <2>1. NoKeys \in [{} -> BOOLEAN]
    BY DEF NoKeys
  <2>2. QED
    BY <2>1 DEF KeyMaps
<1>2. Overrides \subseteq KeyMaps
  <2>1. ASSUME NEW f \in Overrides, f # NoKeys  PROVE f \in KeyMaps
    <3>1. PICK k \in Keys : f \in [{k} -> BOOLEAN]
      BY <2>1, Zenon DEF Overrides
    <3>2. {k} \in SUBSET Keys
      OBVIOUS
    <3>3. QED
      BY <3>1, <3>2, Zenon DEF KeyMaps
  <2>2. QED
    BY <1>1, <2>1, Zenon
<1>3. ASSUME NEW f \in KeyMaps, NEW g \in KeyMaps
      PROVE  [k \in DOMAIN f \union DOMAIN g |-> IF k \in DOMAIN g THEN g[k] ELSE f[k]]
               \in KeyMaps
  <2>1. PICK S \in SUBSET Keys, T \in SUBSET Keys : f \in [S -> BOOLEAN] /\ g \in [T -> BOOLEAN]
    BY DEF KeyMaps
  <2>2. [k \in DOMAIN f \union DOMAIN g |-> IF k \in DOMAIN g THEN g[k] ELSE f[k]]
          \in [S \union T -> BOOLEAN]
    BY <2>1
  <2>3. QED
    BY <2>2 DEF KeyMaps
<1>4. QED
  BY <1>1, <1>2, <1>3

LEMMA IdleIsLocal ==
  \A n \in Nat : Local(Idle, n) /\ Local([Idle EXCEPT !.pc = "done"], n)
<1>1. Idle \in Locs /\ [Idle EXCEPT !.pc = "done"] \in Locs
  BY KeyMapFacts, Zenon DEF Idle, Locs, Points
<1>2. QED
  BY <1>1, Zenon DEF Local, Idle

LEMMA LocalGrows ==
  ASSUME NEW l, NEW n \in Nat, NEW m \in Nat, n <= m, Local(l, n)
  PROVE  Local(l, m)
<1>1. 1..n \subseteq 1..m
  OBVIOUS
<1>2. QED
  BY <1>1, Zenon DEF Local

LEMMA LocFields ==
  \A l \in Locs :
    /\ l.pc \in Points /\ l.acct \in Nat /\ l.company \in Nat /\ l.config \in Nat
    /\ l.attempt \in Nat /\ l.on \in BOOLEAN /\ l.ok \in BOOLEAN /\ l.external \in BOOLEAN
    /\ l.keys \in KeyMaps
    /\ l.email \in Emails \union {""} /\ l.role \in Roles \union {""}
    /\ l.next \in {"", "record", "sent"}
BY Zenon DEF Locs

\* A request that starts over holds only the company that it is about.
LEMMA IdleStarts ==
  \A n \in Nat, c \in Nat :
    \A pc \in {"removeCompany", "seed", "seedChannel", "credentials"} :
      Local([Idle EXCEPT !.pc = pc, !.company = c], n)
<1> SUFFICES ASSUME NEW n \in Nat, NEW c \in Nat,
                    NEW pc \in {"removeCompany", "seed", "seedChannel", "credentials"}
             PROVE  Local([Idle EXCEPT !.pc = pc, !.company = c], n)
  BY Zenon
<1>1. Idle \in Locs
  BY IdleIsLocal, Zenon DEF Local
<1> DEFINE x == [Idle EXCEPT !.pc = pc, !.company = c]
<1>2. x \in Locs /\ x.pc = pc
  <2>1. pc \in Points
    BY DEF Points
  <2>2. QED
    BY <1>1, <2>1, Zenon DEF Locs
<1> HIDE DEF x
<1>3. Local(x, n)
  BY <1>2, Zenon DEF Local
<1>4. QED
  BY <1>3 DEF x

-----------------------------------------------------------------------------
(* The oldest of some configurations.                                      *)

\* A set of natural numbers that is not empty has a smallest element.
LEMMA Smallest ==
  ASSUME NEW S \in SUBSET Nat, S # {}
  PROVE  \E i \in S : \A j \in S : i <= j
<1> DEFINE R == OpToRel(<, Nat)
<1>1. IsWellFoundedOn(R, Nat)
  BY NatLessThanWellFounded, Zenon DEF OpToRel
<1>2. PICK i \in S : \A j \in S : <<j, i>> \notin R
  BY <1>1, WFMin, Zenon
<1>3. \A j \in S : ~ (j < i)
  BY <1>2 DEF OpToRel
<1>4. QED
  BY <1>3

LEMMA OldestOf ==
  ASSUME NEW S \in SUBSET Nat, S # {}
  PROVE  Oldest(S) \in S /\ \A j \in S : Oldest(S) <= j
BY Smallest DEF Oldest

LEMMA CurrentIsNat ==
  ASSUME companies \in Seq(CompanyRows), NEW c \in Companies
  PROVE  /\ companies[c].configs \in Seq(Configs)
         /\ ActiveConfigs(c) \subseteq Nat
         /\ Current(c) \in Nat
<1>1. companies[c] \in CompanyRows
  BY DEF Companies
<1>2. companies[c].configs \in Seq(Configs)
  BY <1>1 DEF CompanyRows
<1>3. ActiveConfigs(c) \subseteq Nat
  BY <1>2 DEF ActiveConfigs
<1>4. QED
  BY <1>2, <1>3, OldestOf DEF Current, Oldest, None

-----------------------------------------------------------------------------
(* What a request holds after its step.                                    *)

Moves(q) == \E l : Local(l, Len(accounts')) /\ To(q, l)

LEMMA Basics ==
  ASSUME IInv
  PROVE  /\ accounts \in Seq(AccountRows) /\ Len(accounts) \in Nat
         /\ users \in [Ids -> UserRows]
         /\ companies \in Seq(CompanyRows) /\ Len(companies) \in Nat
         /\ DOMAIN companies = 1..Len(companies)
         /\ channels \in Seq(ChannelRows)
         /\ loc \in [Requests -> Locs]
         /\ \A q \in Requests : loc[q] \in Locs /\ Local(loc[q], Len(accounts))
BY DEF IInv, TablesInv, LocsInv

LEMMA DoneMoves ==
  ASSUME NEW q, Done(q), Len(accounts') \in Nat
  PROVE  Moves(q)
BY IdleIsLocal DEF Done, Moves

LEMMA GotoMoves ==
  ASSUME IInv, NEW q \in Requests, NEW pc \in Points, Goto(q, pc),
         Local([loc[q] EXCEPT !.pc = pc], Len(accounts'))
  PROVE  Moves(q)
<1>1. loc' = [loc EXCEPT ![q] = [loc[q] EXCEPT !.pc = pc]]
  BY Basics DEF Goto
<1>2. QED
  BY <1>1 DEF Moves, To

\* A step that goes on to a point where nothing in particular is held.
Plain == Points \ {"createAccount", "insertUser", "role", "undo", "oauth", "record",
                   "whatsapp", "email", "count", "config"}

LEMMA GotoPlain ==
  ASSUME IInv, NEW q \in Requests, NEW pc \in Plain, Goto(q, pc)
  PROVE  Moves(q)
<1>1. pc \in Points /\ loc[q] \in Locs
  BY Basics DEF Plain
<1>2. [loc[q] EXCEPT !.pc = pc] \in Locs /\ [loc[q] EXCEPT !.pc = pc].pc = pc
  BY <1>1, Zenon DEF Locs
<1>3. Local([loc[q] EXCEPT !.pc = pc], Len(accounts'))
  BY <1>2, Zenon DEF Local, Plain
<1>4. QED
  BY <1>1, <1>3, GotoMoves

LEMMA DeliveryMoves ==
  ASSUME IInv, NEW q \in Requests, DeliveryStep(q), UNCHANGED accountState
  PROVE  Moves(q)
<1> DEFINE l == loc[q]
           n == Len(accounts')
<1>1. n \in Nat /\ n = Len(accounts) /\ l \in Locs /\ Local(l, n)
  BY Basics DEF accountState
<1>2. CASE Done(q)
  BY <1>1, <1>2, DoneMoves
<1>10. CASE StartNotice(q)
  <2>1. PICK external \in BOOLEAN : To(q, [Idle EXCEPT !.pc = "notice", !.external = external])
    BY <1>10, Zenon DEF StartNotice
  <2> DEFINE x == [Idle EXCEPT !.pc = "notice", !.external = external]
  <2>2. x \in Locs /\ x.pc = "notice"
    <3>1. "notice" \in Points /\ Idle \in Locs
      BY <1>1, IdleIsLocal, Zenon DEF Points, Local
    <3>2. QED
      BY <3>1, Zenon DEF Locs
  <2>3. Local(x, n)
    <3> HIDE DEF x
    <3>1. QED
      BY <2>2 DEF Local
  <2>4. QED
    BY <2>1, <2>3 DEF Moves
<1>3. CASE CreateNotice(q)
  BY <1>1, <1>2, <1>3, GotoPlain DEF CreateNotice, Plain, Points
<1>4. ASSUME NEW to \in SUBSET {"WHATSAPP", "EMAIL"},
             To(q, [l EXCEPT !.pc = "record", !.channel = "IN_APP", !.ok = TRUE,
                             !.to = to, !.next = "record"])
      PROVE  Moves(q)
  <2> DEFINE x == [l EXCEPT !.pc = "record", !.channel = "IN_APP", !.ok = TRUE,
                            !.to = to, !.next = "record"]
  <2>2. x \in Locs /\ x.pc = "record" /\ x.next = "record"
    <3>1. "record" \in Points
      BY DEF Points
    <3>2. QED
      BY <1>1, <3>1, Zenon DEF Locs
  <2>3. Local(x, n)
    <3> HIDE DEF x
    <3>1. QED
      BY <2>2 DEF Local
  <2>4. QED
    BY <1>4, <2>3 DEF Moves
<1>11. CASE ReadSettings(q)
  BY <1>2, <1>4, <1>11, Zenon DEF ReadSettings
<1>5. CASE Record(q)
  <2>1. l.pc = "record" /\ l.next = "record"
    BY <1>1, <1>5 DEF Record, At, Local
  <2>2. \A x : After(x) \in {"whatsapp", "email", "done"}
    BY Zenon DEF After
  <2>3. Done(q) \/ Goto(q, After(l))
    BY <1>5 DEF Record
  <2>4. ASSUME NEW pc \in {"whatsapp", "email"}
        PROVE  Local([l EXCEPT !.pc = pc], n)
    <3> DEFINE x == [l EXCEPT !.pc = pc]
    <3>1. pc \in Points
      BY <2>4 DEF Points
    <3>2. x \in Locs /\ x.pc = pc /\ x.next = "record"
      BY <1>1, <2>1, <3>1, Zenon DEF Locs
    <3> HIDE DEF x
    <3>3. Local(x, n)
      BY <2>4, <3>2 DEF Local
    <3>4. QED
      BY <3>3 DEF x
  <2>5. CASE After(l) = "done"
    BY <1>1, <1>2, <1>5, <2>5 DEF Record
  <2>6. QED
    BY <1>2, <2>2, <2>3, <2>4, <2>5, GotoMoves DEF Points
<1>6. ASSUME NEW c \in {"WHATSAPP", "EMAIL"}, NEW ok \in BOOLEAN, Sent(q, c, ok),
             l.pc \in {"whatsapp", "email"}
      PROVE  Moves(q)
  <2>1. l.next \in {"record", "sent"}
    BY <1>1, <1>6, Zenon DEF Local, Locs
  <2> DEFINE x == [l EXCEPT !.pc = l.next, !.channel = c, !.ok = ok, !.attempt = 1]
  <2>2. x \in Locs /\ x.pc = l.next /\ x.next = l.next
    <3>1. l.next \in Points
      BY <2>1 DEF Points
    <3>2. c \in {"", "IN_APP", "WHATSAPP", "EMAIL", "on", "whatsapp"}
      BY Zenon
    <3>3. QED
      BY <1>1, <3>1, <3>2, ZenonT(60) DEF Locs
  <2>3. Local(x, n)
    <3> HIDE DEF x
    <3>1. QED
      BY <2>1, <2>2, Zenon DEF Local
  <2>4. QED
    BY <1>6, <2>3 DEF Moves, Sent
<1>7. CASE SendWhatsapp(q)
  <2>1. l.pc = "whatsapp" /\ \E ok \in BOOLEAN : Sent(q, "WHATSAPP", ok)
    BY <1>7 DEF SendWhatsapp, At, Answers
  <2>2. QED
    BY <1>6, <2>1
<1>8. CASE TryEmail(q)
  <2>1. l.pc = "email"
    BY <1>8 DEF TryEmail, At
  <2>2. CASE To(q, TryAgain(l))
    <3>0. l.attempt \in Nat
      BY <1>1, LocFields, Zenon
    <3>a. l.attempt + 1 \in Nat
      BY <3>0
    <3>1. [l EXCEPT !.attempt = @ + 1] \in Locs
      BY <1>1, <3>a, Zenon DEF Locs
    <3>2. Local([l EXCEPT !.attempt = @ + 1], n)
      BY <1>1, <2>1, <3>1, Zenon DEF Local, Locs
    <3>3. QED
      BY <2>2, <3>2 DEF Moves, TryAgain
  <2>3. (\E ok \in BOOLEAN : Sent(q, "EMAIL", ok)) \/ To(q, TryAgain(l))
    BY <1>8 DEF TryEmail
  <2>4. QED
    BY <1>6, <2>1, <2>2, <2>3
<1>9. QED
  BY <1>2, <1>3, <1>5, <1>7, <1>8, <1>10, <1>11 DEF DeliveryStep, MarkRead, MarkAllRead

\* What a step of one request does to the accounts: none, one more that the
\* request goes on with or does not learn of, or the end of one that the
\* request had made.
Accounting(q) ==
    \/ UNCHANGED accounts
    \/ /\ \E e \in Emails : NewAccount(e, "admin")
       /\ loc'[q].pc = "insertUser" /\ loc'[q].acct = Len(accounts) + 1
    \/ /\ \E e \in Emails : NewAccount(e, "lost")
       /\ Done(q)
    \/ /\ At(q, "undo") /\ loc[q].acct \in DOMAIN accounts
       /\ \E s \in {"deleted", "left"} : accounts' = [accounts EXCEPT ![loc[q].acct].state = s]

LEMMA NewAccountRow ==
  ASSUME IInv, NEW e \in Emails, NEW made \in {"admin", "person", "lost"}, NewAccount(e, made)
  PROVE  /\ accounts' \in Seq(AccountRows)
         /\ Len(accounts') = Len(accounts) + 1
         /\ DOMAIN accounts' = DOMAIN accounts \union {Len(accounts) + 1}
         /\ \A a \in DOMAIN accounts : accounts'[a] = accounts[a]
         /\ accounts'[Len(accounts) + 1].made = made
<1> DEFINE row == [email |-> e, made |-> made, state |-> "live"]
<1>1. row \in AccountRows /\ row.made = made
  BY DEF AccountRows
<1>2. accounts \in Seq(AccountRows) /\ accounts' = Append(accounts, row)
  BY Basics DEF NewAccount
<1>3. QED
  BY <1>1, <1>2, Appended

LEMMA EndedAccount ==
  ASSUME IInv, NEW a \in DOMAIN accounts, NEW s \in {"deleted", "left"},
         accounts' = [accounts EXCEPT ![a].state = s]
  PROVE  /\ accounts' \in Seq(AccountRows)
         /\ Len(accounts') = Len(accounts)
         /\ DOMAIN accounts' = DOMAIN accounts
         /\ \A b \in DOMAIN accounts : b # a => accounts'[b] = accounts[b]
         /\ accounts'[a].state = s
<1> DEFINE x == [accounts[a] EXCEPT !.state = s]
<1>1. accounts \in Seq(AccountRows) /\ accounts' = [accounts EXCEPT ![a] = x]
  BY Basics
<1>2. accounts[a] \in AccountRows
  BY <1>1
<1>3. x \in AccountRows /\ x.state = s
  BY <1>2 DEF AccountRows
<1>4. /\ [accounts EXCEPT ![a] = x] \in Seq(AccountRows)
      /\ Len([accounts EXCEPT ![a] = x]) = Len(accounts)
      /\ DOMAIN [accounts EXCEPT ![a] = x] = DOMAIN accounts
  <2> HIDE DEF x
  <2>1. QED
    BY <1>1, <1>3, SetElement
<1>5. QED
  BY <1>1, <1>3, <1>4

LEMMA AccountsGrow ==
  ASSUME IInv, NEW q, Accounting(q)
  PROVE  /\ accounts' \in Seq(AccountRows) /\ Len(accounts') \in Nat
         /\ Len(accounts) <= Len(accounts')
         /\ DOMAIN accounts \subseteq DOMAIN accounts'
<1>1. accounts \in Seq(AccountRows) /\ Len(accounts) \in Nat
  BY Basics
<1>2. CASE UNCHANGED accounts
  BY <1>1, <1>2
<1>3. CASE \E e \in Emails, made \in {"admin", "lost"} : NewAccount(e, made)
  BY <1>1, <1>3, NewAccountRow
<1>4. CASE /\ At(q, "undo") /\ loc[q].acct \in DOMAIN accounts
           /\ \E s \in {"deleted", "left"} : accounts' = [accounts EXCEPT ![loc[q].acct].state = s]
  <2>1. PICK s \in {"deleted", "left"} : accounts' = [accounts EXCEPT ![loc[q].acct].state = s]
    BY <1>4
  <2>2. /\ accounts' \in Seq(AccountRows)
        /\ Len(accounts') = Len(accounts)
        /\ DOMAIN accounts' = DOMAIN accounts
    BY <1>4, <2>1, EndedAccount
  <2>3. QED
    BY <1>1, <2>2
<1>5. \/ UNCHANGED accounts
      \/ \E e \in Emails, made \in {"admin", "lost"} : NewAccount(e, made)
      \/ /\ At(q, "undo") /\ loc[q].acct \in DOMAIN accounts
         /\ \E s \in {"deleted", "left"} : accounts' = [accounts EXCEPT ![loc[q].acct].state = s]
  BY Zenon DEF Accounting
<1>6. QED
  BY <1>2, <1>3, <1>4, <1>5, Zenon

\* A request that starts over holds only what the step gives it.
LEMMA FreshLocs ==
  ASSUME NEW n \in Nat, NEW pc \in Points, NEW acct \in Nat, NEW company \in Nat
  PROVE  /\ [Idle EXCEPT !.pc = pc, !.acct = acct, !.company = company] \in Locs
         /\ [Idle EXCEPT !.pc = pc, !.acct = acct] \in Locs
         /\ [Idle EXCEPT !.pc = pc, !.company = company] \in Locs
<1>1. Idle \in Locs
  BY IdleIsLocal, Zenon DEF Local
<1>2. QED
  BY <1>1, Zenon DEF Locs

LEMMA CreateAccountMoves ==
  ASSUME IInv, NEW q \in Requests, CreateAccount(q)
  PROVE  Accounting(q) /\ Moves(q)
<1> DEFINE l == loc[q]
           k == Len(accounts) + 1
           x == [l EXCEPT !.pc = "insertUser", !.acct = k]
<1>1. /\ l \in Locs /\ l.pc = "createAccount" /\ l.email \in Emails /\ l.role \in Roles
      /\ Len(accounts) \in Nat /\ k \in Nat
  <2>1. l.pc = "createAccount"
    BY DEF CreateAccount, At
  <2>2. l \in Locs /\ Local(l, Len(accounts)) /\ Len(accounts) \in Nat
    BY Basics
  <2>3. QED
    BY <2>1, <2>2 DEF Local
<1>2. CASE Done(q) /\ UNCHANGED accounts
  <2>1. Len(accounts') \in Nat
    BY <1>1, <1>2
  <2>2. QED
    BY <1>2, <2>1, DoneMoves DEF Accounting
<1>3. CASE NewAccount(l.email, "admin") /\ To(q, x)
  <2>1. Len(accounts') = k
    BY <1>1, <1>3, NewAccountRow
  <2>2. x \in Locs /\ x.pc = "insertUser" /\ x.acct = k /\ x.email = l.email /\ x.role = l.role
    BY <1>1, Zenon DEF Locs, Points
  <2> HIDE DEF x
  <2>3. Local(x, k)
    BY <1>1, <2>2 DEF Local
  <2>4. Moves(q)
    BY <1>3, <2>1, <2>3 DEF Moves
  <2>5. loc'[q] = x
    BY <1>3, Basics DEF To
  <2>6. Accounting(q)
    BY <1>1, <1>3, <2>2, <2>5 DEF Accounting
  <2>7. QED
    BY <2>4, <2>6
<1>4. CASE NewAccount(l.email, "lost") /\ Done(q)
  <2>1. Len(accounts') \in Nat
    BY <1>1, <1>4, NewAccountRow
  <2>2. Accounting(q)
    BY <1>1, <1>4, Zenon DEF Accounting
  <2>3. QED
    BY <1>4, <2>1, <2>2, DoneMoves
<1>5. QED
  BY <1>2, <1>3, <1>4, Zenon DEF CreateAccount

LEMMA InsertUserMoves ==
  ASSUME IInv, NEW q \in Requests, NEW valid, InsertUser(q, valid)
  PROVE  Accounting(q) /\ Moves(q)
<1> DEFINE l == loc[q]
           n == Len(accounts')
           x == [l EXCEPT !.pc = "undo"]
<1>1. /\ l \in Locs /\ l.pc = "insertUser" /\ l.acct \in 1..n /\ n \in Nat /\ UNCHANGED accounts
  BY Basics, Zenon DEF InsertUser, At, Local
<1>2. x \in Locs /\ x.pc = "undo" /\ x.acct = l.acct
  BY <1>1, Zenon DEF Locs, Points
<1>3. Local(x, n)
  <2> HIDE DEF x
  <2>1. QED
    BY <1>1, <1>2 DEF Local
<1>4. Goto(q, "undo") => Moves(q)
  BY <1>3, GotoMoves DEF Points
<1>5. Done(q) => Moves(q)
  BY <1>1, DoneMoves
<1>6. Goto(q, "undo") \/ Done(q)
  BY DEF InsertUser, RowFails
<1>7. QED
  BY <1>1, <1>4, <1>5, <1>6 DEF Accounting

LEMMA UndoMoves ==
  ASSUME IInv, NEW q \in Requests, UndoAccount(q)
  PROVE  Accounting(q) /\ Moves(q)
<1>1. loc[q].acct \in 1..Len(accounts) /\ accounts \in Seq(AccountRows)
  BY Basics, Zenon DEF UndoAccount, At, Local
<1>2. loc[q].acct \in DOMAIN accounts
  BY <1>1
<1>3. Accounting(q)
  BY <1>2 DEF UndoAccount, Accounting
<1>4. QED
  BY <1>3, AccountsGrow, DoneMoves DEF UndoAccount

LEMMA NewUserMoves ==
  ASSUME IInv, NEW q \in Requests, NEW r \in Roles, NEW ks \in KeyMaps, NEW on \in BOOLEAN,
         NewUserOf(q, r, ks, on)
  PROVE  Accounting(q) /\ Moves(q)
<1> DEFINE n == Len(accounts')
<1>1. n \in Nat /\ UNCHANGED accounts /\ Idle \in Locs
  BY Basics, IdleIsLocal, Zenon DEF NewUserOf, accountState, Local
<1>2. PICK e \in Emails, c \in Companies :
        To(q, [Idle EXCEPT !.pc = "createAccount", !.email = e, !.company = c,
                           !.role = r, !.keys = ks, !.on = on])
  BY Zenon DEF NewUserOf
<1>3. c \in Nat
  BY Basics DEF Companies
<1> DEFINE x == [Idle EXCEPT !.pc = "createAccount", !.email = e, !.company = c,
                             !.role = r, !.keys = ks, !.on = on]
<1>4. x \in Locs /\ x.pc = "createAccount" /\ x.email = e /\ x.role = r
  <2>1. "createAccount" \in Points
    BY DEF Points
  <2>2. QED
    BY <1>1, <1>3, <2>1, Zenon DEF Locs
<1>5. Local(x, n)
  <2> HIDE DEF x
  <2>1. QED
    BY <1>4 DEF Local
<1>6. QED
  BY <1>1, <1>2, <1>5 DEF Moves, Accounting

LEMMA OAuthMoves ==
  ASSUME IInv, NEW q \in Requests, OAuthRead(q)
  PROVE  Accounting(q) /\ Moves(q)
<1> DEFINE n == Len(accounts')
<1>1. n \in Nat /\ UNCHANGED accounts /\ Idle \in Locs /\ accounts \in Seq(AccountRows)
  BY Basics, IdleIsLocal, Zenon DEF OAuthRead, accountState, Local
<1>2. PICK a \in DOMAIN accounts :
        \/ Done(q)
        \/ To(q, [Idle EXCEPT !.pc = "oauth", !.acct = a, !.email = accounts[a].email])
  BY Zenon DEF OAuthRead
<1> DEFINE x == [Idle EXCEPT !.pc = "oauth", !.acct = a, !.email = accounts[a].email]
<1>3. a \in 1..n /\ a \in Nat /\ accounts[a].email \in Emails
  <2>1. accounts[a] \in AccountRows /\ a \in 1..Len(accounts)
    BY <1>1
  <2>2. QED
    BY <1>1, <2>1 DEF AccountRows
<1>4. x \in Locs /\ x.pc = "oauth" /\ x.acct = a
  <2>1. "oauth" \in Points
    BY DEF Points
  <2>2. QED
    BY <1>1, <1>3, <2>1, Zenon DEF Locs
<1>5. Local(x, n)
  <2> HIDE DEF x
  <2>1. QED
    BY <1>3, <1>4 DEF Local
<1>6. CASE Done(q)
  BY <1>1, <1>6, DoneMoves DEF Accounting
<1>7. CASE To(q, x)
  BY <1>1, <1>5, <1>7 DEF Moves, Accounting
<1>8. QED
  BY <1>2, <1>6, <1>7

Picks(q) == DeactivateLoad(q) \/ ReactivateLoad(q) \/ RemoveLoad(q) \/ SendLoad(q)

LEMMA PickMoves ==
  ASSUME IInv, NEW q \in Requests, Picks(q)
  PROVE  Accounting(q) /\ Moves(q)
<1> DEFINE n == Len(accounts')
<1>1. PICK u \in Ids, pc \in {"deactivate", "reactivate", "remove", "send"} :
        /\ To(q, [Idle EXCEPT !.pc = pc, !.acct = u, !.company = users[u].company])
        /\ UNCHANGED accountState
  BY Zenon DEF Picks, DeactivateLoad, ReactivateLoad, RemoveLoad, SendLoad, Pick
<1>2. n \in Nat /\ UNCHANGED accounts /\ Idle \in Locs
  BY <1>1, Basics, IdleIsLocal, Zenon DEF accountState, Local
<1>3. u \in Nat /\ users[u].company \in Nat
  <2>1. u \in DOMAIN accounts /\ DOMAIN accounts = 1..Len(accounts)
    BY Basics DEF IInv
  <2>2. users[u] \in UserRows
    BY Basics
  <2>3. QED
    BY <2>1, <2>2 DEF UserRows
<1> DEFINE x == [Idle EXCEPT !.pc = pc, !.acct = u, !.company = users[u].company]
<1>4. x \in Locs /\ x.pc = pc
  <2>1. pc \in Points
    BY DEF Points
  <2>2. QED
    BY <1>2, <1>3, <2>1, Zenon DEF Locs
<1>5. Local(x, n)
  <2> HIDE DEF x
  <2>1. QED
    BY <1>4, Zenon DEF Local
<1>6. QED
  BY <1>1, <1>2, <1>5 DEF Moves, Accounting

\* The steps that leave the accounts alone and end the request, or go on with
\* what it held.
Ends(q) ==
    \/ OAuthInsert(q) \/ CreateFullCompany(q) \/ Deactivate(q) \/ Reactivate(q)
    \/ ReactivateCompany(q) \/ Remove(q) \/ RemoveCompany(q) \/ MarkSent(q)

LEMMA EndMoves ==
  ASSUME IInv, NEW q \in Requests, Ends(q)
  PROVE  Accounting(q) /\ Moves(q)
<1>1. UNCHANGED accounts /\ (Done(q) \/ Goto(q, "notice"))
  BY DEF Ends, OAuthInsert, CreateFullCompany, Deactivate, Reactivate, ReactivateCompany,
         Remove, RemoveCompany, MarkSent
<1>2. Len(accounts') \in Nat
  BY <1>1, Basics
<1>3. Done(q) => Moves(q)
  BY <1>2, DoneMoves
<1>4. Goto(q, "notice") => Moves(q)
  BY GotoPlain DEF Plain, Points
<1>5. QED
  BY <1>1, <1>3, <1>4 DEF Accounting

LEMMA RemoveCompanyLoadMoves ==
  ASSUME IInv, NEW q \in Requests, RemoveCompanyLoad(q)
  PROVE  Accounting(q) /\ Moves(q)
<1>1. PICK c \in Companies : To(q, [Idle EXCEPT !.pc = "removeCompany", !.company = c])
  BY Zenon DEF RemoveCompanyLoad
<1>2. c \in Nat /\ UNCHANGED accounts /\ Len(accounts') \in Nat
  BY Basics DEF Companies, RemoveCompanyLoad, accountState
<1>3. Local([Idle EXCEPT !.pc = "removeCompany", !.company = c], Len(accounts'))
  BY <1>2, IdleStarts, Zenon
<1>4. QED
  BY <1>1, <1>2, <1>3 DEF Moves, Accounting

LEMMA SendMoves ==
  ASSUME IInv, NEW q \in Requests, SendCredentials(q)
  PROVE  Accounting(q) /\ Moves(q)
<1> DEFINE l == loc[q]
           x == [l EXCEPT !.pc = "email", !.to = {"EMAIL"}, !.next = "sent"]
<1>1. To(q, x) /\ UNCHANGED accounts /\ l \in Locs
  BY Basics DEF SendCredentials, accountState
<1>2. x \in Locs /\ x.pc = "email" /\ x.next = "sent"
  <2>1. "email" \in Points
    BY DEF Points
  <2>2. QED
    BY <1>1, <2>1, Zenon DEF Locs
<1>3. Local(x, Len(accounts'))
  <2> HIDE DEF x
  <2>1. QED
    BY <1>2 DEF Local
<1>4. QED
  BY <1>1, <1>3 DEF Moves, Accounting

LEMMA AccountsMoves ==
  ASSUME IInv, NEW q \in Requests, AccountsStep(q)
  PROVE  Accounting(q) /\ Moves(q)
<1>1. CASE CreateClientUser(q)
  BY <1>1, NewUserMoves, AccountsAssumption, KeyMapFacts DEF CreateClientUser
<1>2. CASE CreateStaffUser(q)
  <2>1. PICK r \in Roles, ks \in Overrides : NewUserOf(q, r, ks, TRUE)
    BY <1>2 DEF CreateStaffUser
  <2>2. QED
    BY <2>1, NewUserMoves, KeyMapFacts
<1>3. CASE InsertClientUser(q) \/ InsertStaffUser(q)
  <2>1. \E valid \in BOOLEAN : InsertUser(q, valid)
    BY <1>3 DEF InsertClientUser, InsertStaffUser
  <2>2. QED
    BY <2>1, InsertUserMoves
<1>4. CASE Ends(q)
  BY <1>4, EndMoves
<1>5. CASE Picks(q)
  BY <1>5, PickMoves
<1>6. QED
  BY <1>1, <1>2, <1>3, <1>4, <1>5, CreateAccountMoves, UndoMoves, OAuthMoves,
     RemoveCompanyLoadMoves, SendMoves DEF AccountsStep, Ends, Picks

-----------------------------------------------------------------------------
LEMMA PermissionsMoves ==
  ASSUME IInv, NEW q \in Requests, PermissionsStep(q)
  PROVE  UNCHANGED accounts /\ Moves(q)
<1> DEFINE n == Len(accounts')
<1>1. UNCHANGED accounts
  BY Zenon
     DEF PermissionsStep, GrantLoad, Grant, RoleLoad, ChangeRole, Patch, accountState
<1>2. n \in Nat /\ Idle \in Locs
  BY <1>1, Basics, IdleIsLocal, Zenon DEF Local
<1>3. \A u \in Ids : u \in Nat
  BY Basics DEF IInv
<1>4. CASE GrantLoad(q)
  <2>1. PICK u \in Ids, ks \in Overrides :
          To(q, [Idle EXCEPT !.pc = "grant", !.acct = u, !.keys = ks])
    BY <1>4, Zenon DEF GrantLoad
  <2> DEFINE x == [Idle EXCEPT !.pc = "grant", !.acct = u, !.keys = ks]
  <2>2. x \in Locs /\ x.pc = "grant"
    <3>1. "grant" \in Points
      BY DEF Points
    <3>2. QED
      BY <1>2, <1>3, KeyMapFacts, <3>1, Zenon DEF Locs
  <2>3. Local(x, n)
    <3> HIDE DEF x
    <3>1. QED
      BY <2>2 DEF Local
  <2>4. QED
    BY <1>1, <2>1, <2>3 DEF Moves
<1>5. CASE RoleLoad(q)
  <2>1. PICK u \in Ids, r \in Roles :
          To(q, [Idle EXCEPT !.pc = "role", !.acct = u, !.role = r])
    BY <1>5, Zenon DEF RoleLoad
  <2> DEFINE x == [Idle EXCEPT !.pc = "role", !.acct = u, !.role = r]
  <2>2. x \in Locs /\ x.pc = "role" /\ x.role = r
    <3>1. "role" \in Points
      BY DEF Points
    <3>2. QED
      BY <1>2, <1>3, <3>1, Zenon DEF Locs
  <2>3. Local(x, n)
    <3> HIDE DEF x
    <3>1. QED
      BY <2>2 DEF Local
  <2>4. QED
    BY <1>1, <2>1, <2>3 DEF Moves
<1>6. CASE Grant(q) \/ ChangeRole(q)
  BY <1>1, <1>2, <1>6, DoneMoves DEF Grant, ChangeRole
<1>7. QED
  BY <1>4, <1>5, <1>6 DEF PermissionsStep

LEMMA SetupMoves ==
  ASSUME IInv, NEW q \in Requests, SetupStep(q)
  PROVE  UNCHANGED <<accounts, users>> /\ Moves(q)
<1> DEFINE l == loc[q]
           n == Len(accounts')
<1>1. UNCHANGED <<accounts, users>>
  BY Zenon
     DEF SetupStep, GetActive, SeedRead, SeedCreate, ConfigLoad, CountOthers,
         UpdateConfig,
         SetConfigs, accountState
<1>2. n \in Nat /\ Idle \in Locs /\ l \in Locs /\ Local(l, n)
  BY <1>1, Basics, IdleIsLocal, Zenon DEF Local
<1>3. Done(q) => Moves(q)
  BY <1>2, DoneMoves
<1>4. CASE GetActive(q)
  <2>1. PICK c \in Companies :
          Done(q) \/ To(q, [Idle EXCEPT !.pc = "seed", !.company = c])
    BY <1>4, Zenon DEF GetActive
  <2>2. c \in Nat
    BY Basics DEF Companies
  <2>3. Local([Idle EXCEPT !.pc = "seed", !.company = c], n)
    BY <1>2, <2>2, IdleStarts, Zenon
  <2>4. QED
    BY <1>1, <1>3, <2>1, <2>3 DEF Moves
<1>5. CASE SeedRead(q)
  <2>1. Goto(q, "seedCreate") => Moves(q)
    BY GotoPlain DEF Plain, Points
  <2>2. QED
    BY <1>1, <1>3, <1>5, <2>1 DEF SeedRead
<1>6. CASE SeedCreate(q) \/ UpdateConfig(q)
  BY <1>1, <1>3, <1>6 DEF SeedCreate, UpdateConfig
<1>7. CASE ConfigLoad(q)
  <2>1. PICK c \in Companies, field \in {"on", "whatsapp"}, value \in BOOLEAN,
             pc \in {"count", "config"} :
          To(q, [Idle EXCEPT !.pc = pc, !.company = c, !.config = Current(c),
                             !.channel = field, !.on = value])
    BY <1>7, Zenon DEF ConfigLoad
  <2>2. c \in Nat /\ Current(c) \in Nat
    BY Basics, CurrentIsNat DEF Companies
  <2> DEFINE x == [Idle EXCEPT !.pc = pc, !.company = c, !.config = Current(c),
                               !.channel = field, !.on = value]
  <2>3. x \in Locs /\ x.pc = pc /\ x.channel = field
    <3>1. /\ pc \in Points
          /\ field \in {"", "IN_APP", "WHATSAPP", "EMAIL", "on", "whatsapp"}
      BY Zenon DEF Points
    <3>2. QED
      BY <1>2, <2>2, <3>1, ZenonT(60) DEF Locs
  <2>4. Local(x, n)
    <3> HIDE DEF x
    <3>1. QED
      BY <2>3, Zenon DEF Local
  <2>5. QED
    BY <1>1, <2>1, <2>4 DEF Moves
<1>8. CASE CountOthers(q)
  <2>1. l.pc = "count" /\ l.channel \in {"on", "whatsapp"}
    BY <1>2, <1>8 DEF CountOthers, At, Local
  <2> DEFINE x == [l EXCEPT !.pc = "config"]
  <2>2. x \in Locs /\ x.pc = "config" /\ x.channel = l.channel
    <3>1. "config" \in Points /\ l \in Locs
      BY <1>2 DEF Points
    <3>2. QED
      BY <3>1, Zenon DEF Locs
  <2>3. Local(x, n)
    <3> HIDE DEF x
    <3>1. QED
      BY <2>1, <2>2 DEF Local
  <2>4. Goto(q, "config") => Moves(q)
    BY <2>3, GotoMoves DEF Points
  <2>5. QED
    BY <1>1, <1>3, <1>8, <2>4 DEF CountOthers
<1>9. QED
  BY <1>4, <1>5, <1>6, <1>7, <1>8 DEF SetupStep

-----------------------------------------------------------------------------
(* The numbers.                                                            *)

LEMMA ChannelsMoves ==
  ASSUME IInv, NEW q \in Requests, ChannelsStep(q)
  PROVE  UNCHANGED accountState /\ Moves(q)
<1> DEFINE n == Len(accounts')
<1>1. UNCHANGED accountState
  BY Zenon
     DEF ChannelsStep, CreateChannel, UpdateChannel, RemoveChannel, SeedRetire,
         SeedUpsert,
         ResolveCompany, SandboxFallback, StartSending, PreferPlatform, OldestOrEnv, SetChannels
<1>2. n \in Nat
  BY <1>1, Basics DEF accountState
<1>3. Done(q) => Moves(q)
  BY <1>2, DoneMoves
<1>4. Goto(q, "sandbox") \/ Goto(q, "oldest") => Moves(q)
  BY GotoPlain DEF Plain, Points
<1>5. \A c \in Nat, pc \in {"seedChannel", "credentials"} :
        To(q, [Idle EXCEPT !.pc = pc, !.company = c]) => Moves(q)
  BY <1>2, IdleStarts, Zenon DEF Moves
<1>6. CASE CreateChannel(q) \/ UpdateChannel(q) \/ RemoveChannel(q) \/ SeedUpsert(q)
           \/ OldestOrEnv(q)
  BY <1>1, <1>3, <1>6, Zenon
     DEF CreateChannel, UpdateChannel, RemoveChannel, SeedUpsert, OldestOrEnv
<1>7. CASE SeedRetire(q)
  <2>1. PlatformCompanies \subseteq Nat
    BY PermissionsAssumption, AccountsAssumption
  <2>2. PICK c \in PlatformCompanies : To(q, [Idle EXCEPT !.pc = "seedChannel", !.company = c])
    BY <1>7, Zenon DEF SeedRetire
  <2>3. QED
    BY <1>1, <1>5, <2>1, <2>2, Zenon
<1>8. \A i \in DOMAIN channels : channels[i].company \in Nat
  <2> TAKE i \in DOMAIN channels
  <2>1. channels[i] \in ChannelRows
    BY Basics
  <2>2. QED
    BY <2>1 DEF ChannelRows
<1>9. CASE ResolveCompany(q) \/ SandboxFallback(q)
  <2>1. \/ Done(q) \/ Goto(q, "sandbox")
        \/ \E i \in DOMAIN channels :
             To(q, [Idle EXCEPT !.pc = "credentials", !.company = channels[i].company])
    BY <1>9, Zenon DEF ResolveCompany, SandboxFallback, ActiveRow, RowOf
  <2>2. QED
    BY <1>1, <1>3, <1>4, <1>5, <1>8, <2>1, Zenon
<1>10. CASE StartSending(q)
  <2>1. PICK c \in Companies : To(q, [Idle EXCEPT !.pc = "credentials", !.company = c])
    BY <1>10, Zenon DEF StartSending
  <2>2. c \in Nat
    BY Basics DEF Companies
  <2>3. QED
    BY <1>1, <1>5, <2>1, <2>2, Zenon
<1>11. CASE PreferPlatform(q)
  <2>1. Done(q) \/ Goto(q, "oldest")
    BY <1>11, Zenon DEF PreferPlatform
  <2>2. QED
    BY <1>1, <1>3, <1>4, <2>1
<1>12. QED
  BY <1>6, <1>7, <1>9, <1>10, <1>11 DEF ChannelsStep

\* A row keeps its company and its number, and a row that is added has a
\* number that nobody has.
KeepsNumbers ==
    /\ channels' \in Seq(ChannelRows)
    /\ DOMAIN channels \subseteq DOMAIN channels'
    /\ \A i \in DOMAIN channels : /\ channels'[i].company = channels[i].company
                                  /\ channels'[i].number = channels[i].number
    /\ \A i, j \in DOMAIN channels' :
         i \notin DOMAIN channels /\ channels'[i].number = channels'[j].number => i = j

LEMMA SameRowsKeep ==
  ASSUME IInv, NEW cs \in [DOMAIN channels -> ChannelRows], channels' = cs,
         \A i \in DOMAIN channels : /\ cs[i].company = channels[i].company
                                    /\ cs[i].number = channels[i].number
  PROVE  KeepsNumbers
<1>1. DOMAIN channels = 1..Len(channels) /\ Len(channels) \in Nat
  BY Basics
<1>2. cs \in [1..Len(channels) -> ChannelRows]
  BY <1>1
<1>3. cs \in Seq(ChannelRows) /\ DOMAIN cs = DOMAIN channels
  BY <1>1, <1>2
<1>4. QED
  BY <1>3 DEF KeepsNumbers

LEMMA NewRowKeeps ==
  ASSUME IInv, NEW c \in Nat, NEW n \in Numbers, NEW on \in BOOLEAN, RowOf(n) = {},
         channels' = Append(channels, NewChannel(c, n, on))
  PROVE  KeepsNumbers
<1> DEFINE x == NewChannel(c, n, on)
           k == Len(channels) + 1
<1>1. x \in ChannelRows /\ x.number = n
  BY DEF NewChannel, ChannelRows
<1>2. channels \in Seq(ChannelRows)
  BY Basics
<1> HIDE DEF x
<1>3. /\ Append(channels, x) \in Seq(ChannelRows)
      /\ DOMAIN channels \subseteq DOMAIN Append(channels, x)
      /\ DOMAIN Append(channels, x) = DOMAIN channels \union {k}
      /\ k \notin DOMAIN channels
      /\ \A i \in DOMAIN channels : Append(channels, x)[i] = channels[i]
      /\ Append(channels, x)[k] = x
  BY <1>1, <1>2, Appended
<1>4. channels' = Append(channels, x)
  BY DEF x
<1>5. \A i \in DOMAIN channels : channels[i].number # n
  BY DEF RowOf
<1>6. \A i \in DOMAIN channels :
        channels'[i].company = channels[i].company /\ channels'[i].number = channels[i].number
  BY <1>3, <1>4
<1>7. \A i, j \in DOMAIN channels' :
        i \notin DOMAIN channels /\ channels'[i].number = channels'[j].number => i = j
  BY <1>1, <1>3, <1>4, <1>5
<1>8. QED
  BY <1>3, <1>4, <1>6, <1>7 DEF KeepsNumbers

\* A row that is switched on or off, or gets another token.
LEMMA PatchedRow ==
  \A r \in ChannelRows : \A on \in BOOLEAN, s \in Nat :
    /\ [r EXCEPT !.active = on] \in ChannelRows
    /\ [r EXCEPT !.active = on].company = r.company
    /\ [r EXCEPT !.active = on].number = r.number
    /\ [r EXCEPT !.active = on, !.sealed = s] \in ChannelRows
    /\ [r EXCEPT !.active = on, !.sealed = s].company = r.company
    /\ [r EXCEPT !.active = on, !.sealed = s].number = r.number
BY DEF ChannelRows

LEMMA StillKeeps ==
  ASSUME IInv, UNCHANGED channels
  PROVE  KeepsNumbers
BY Basics DEF KeepsNumbers

LEMMA ChannelsKeepNumbers ==
  ASSUME IInv, NEW q \in Requests, ChannelsStep(q)
  PROVE  KeepsNumbers
<1> DEFINE rows == DOMAIN channels
<1>1. \A i \in rows : channels[i] \in ChannelRows /\ channels[i].company \in Nat
                      /\ channels[i].sealed \in Nat /\ channels[i].active \in BOOLEAN
  <2> TAKE i \in rows
  <2>1. channels[i] \in ChannelRows
    BY Basics
  <2>2. QED
    BY <2>1 DEF ChannelRows
<1>2. channels \in Seq(ChannelRows)
  BY Basics
<1>3. CASE UNCHANGED channels
  BY <1>3, StillKeeps
<1>4. CASE CreateChannel(q)
  <2>1. PICK c \in Companies, n \in Numbers, on \in BOOLEAN :
          channels' = IF RowOf(n) = {} THEN Append(channels, NewChannel(c, n, on)) ELSE channels
    BY <1>4 DEF CreateChannel, SetChannels
  <2>2. c \in Nat
    BY Basics DEF Companies
  <2>3. CASE RowOf(n) = {}
    BY <2>1, <2>2, <2>3, NewRowKeeps
  <2>4. QED
    BY <1>3, <2>1, <2>3
<1>5. CASE UpdateChannel(q)
  <2>1. PICK i \in rows, on \in BOOLEAN, s \in Nat :
          channels' = [channels EXCEPT ![i].active = on, ![i].sealed = s]
    <3>1. PICK j \in rows, b \in BOOLEAN : \E s \in {channels[j].sealed, channels[j].company} :
            channels' = [channels EXCEPT ![j].active = b, ![j].sealed = s]
      BY <1>5 DEF UpdateChannel, SetChannels
    <3>2. {channels[j].sealed, channels[j].company} \subseteq Nat
      BY <1>1
    <3>3. QED
      BY <3>1, <3>2, Zenon
  <2> DEFINE x == [channels[i] EXCEPT !.active = on, !.sealed = s]
             cs == [j \in rows |-> IF j = i THEN x ELSE channels[j]]
  <2>2. x \in ChannelRows /\ x.company = channels[i].company /\ x.number = channels[i].number
    <3>1. channels[i] \in ChannelRows
      BY <1>1
    <3>2. QED
      BY <3>1 DEF ChannelRows
  <2>3. channels' = cs
    BY <1>2, <2>1
  <2> HIDE DEF x
  <2>4. cs \in [rows -> ChannelRows]
    BY <1>1, <2>2
  <2>5. \A j \in rows : cs[j].company = channels[j].company /\ cs[j].number = channels[j].number
    BY <2>2
  <2>6. QED
    BY <2>3, <2>4, <2>5, SameRowsKeep
<1>6. CASE RemoveChannel(q)
  <2>1. PICK i \in rows : channels' = [channels EXCEPT ![i].active = FALSE]
    BY <1>6 DEF RemoveChannel, SetChannels
  <2> DEFINE x == [channels[i] EXCEPT !.active = FALSE]
             cs == [j \in rows |-> IF j = i THEN x ELSE channels[j]]
  <2>2. x \in ChannelRows /\ x.company = channels[i].company /\ x.number = channels[i].number
    BY <1>1, PatchedRow, Zenon
  <2>3. channels' = cs
    BY <1>2, <2>1
  <2> HIDE DEF x
  <2>4. cs \in [rows -> ChannelRows]
    BY <1>1, <2>2
  <2>5. \A j \in rows : cs[j].company = channels[j].company /\ cs[j].number = channels[j].number
    BY <2>2
  <2>6. QED
    BY <2>3, <2>4, <2>5, SameRowsKeep
<1>7. CASE SeedRetire(q)
  <2>1. PICK c : channels' = [i \in rows |->
              IF channels[i].company = c /\ channels[i].number # PlatformNumber
              THEN [channels[i] EXCEPT !.active = FALSE] ELSE channels[i]]
    BY <1>7 DEF SeedRetire, SetChannels
  <2> DEFINE cs == [i \in rows |->
              IF channels[i].company = c /\ channels[i].number # PlatformNumber
              THEN [channels[i] EXCEPT !.active = FALSE] ELSE channels[i]]
  <2>2. \A i \in rows : /\ cs[i] \in ChannelRows
                        /\ cs[i].company = channels[i].company
                        /\ cs[i].number = channels[i].number
    <3> TAKE i \in rows
    <3>1. cs[i] \in {[channels[i] EXCEPT !.active = FALSE], channels[i]}
      OBVIOUS
    <3>2. QED
      BY <1>1, <3>1, PatchedRow, Zenon
  <2>3. channels' = cs /\ cs \in [rows -> ChannelRows]
    BY <2>1, <2>2
  <2>4. QED
    BY <2>2, <2>3, SameRowsKeep
<1>8. CASE SeedUpsert(q)
  <2> DEFINE c == loc[q].company
             n == PlatformNumber
             cs == [i \in rows |->
                      IF i \in RowOf(n) THEN [channels[i] EXCEPT !.active = TRUE, !.sealed = c]
                      ELSE channels[i]]
  <2>1. c \in Nat /\ n \in Numbers
    BY Basics, LocFields, ChannelsAssumption, Zenon
  <2>2. channels' = IF RowOf(n) = {} THEN Append(channels, NewChannel(c, n, TRUE)) ELSE cs
    BY <1>8, Zenon DEF SeedUpsert, SetChannels
  <2>3. \A i \in rows : /\ cs[i] \in ChannelRows
                        /\ cs[i].company = channels[i].company
                        /\ cs[i].number = channels[i].number
    <3> TAKE i \in rows
    <3>1. cs[i] \in {[channels[i] EXCEPT !.active = TRUE, !.sealed = c], channels[i]}
      OBVIOUS
    <3>2. QED
      BY <1>1, <2>1, <3>1, PatchedRow, Zenon
  <2>4. CASE RowOf(n) = {}
    BY <2>1, <2>2, <2>4, NewRowKeeps
  <2>5. CASE RowOf(n) # {}
    <3>1. channels' = cs /\ cs \in [rows -> ChannelRows]
      BY <2>2, <2>3, <2>5, Zenon
    <3>2. QED
      BY <2>3, <3>1, SameRowsKeep, Zenon
  <2>6. QED
    BY <2>4, <2>5
<1>9. CASE \/ ResolveCompany(q) \/ SandboxFallback(q) \/ StartSending(q)
           \/ PreferPlatform(q) \/ OldestOrEnv(q)
  BY <1>3, <1>9, Zenon
     DEF ResolveCompany, SandboxFallback, StartSending, PreferPlatform, OldestOrEnv,
                    channelState
<1>10. QED
  BY <1>4, <1>5, <1>6, <1>7, <1>8, <1>9 DEF ChannelsStep

\* Nothing left from a number of a company that is not its own.
OwnNumbers ==
    \A m \in outbound' : m \notin outbound /\ m.source = "company_channel" =>
      \E i \in DOMAIN channels : /\ channels[i].number = m.from
                                 /\ channels[i].company = m.company

LEMMA SilenceOwns ==
  ASSUME UNCHANGED outbound
  PROVE  OwnNumbers
BY DEF OwnNumbers

LEMMA LeavesOwns ==
  ASSUME NEW q, NEW from, NEW source, Leaves(q, from, source),
         source = "company_channel" =>
           \E i \in DOMAIN channels : /\ channels[i].number = from
                                      /\ channels[i].company = loc[q].company
  PROVE  OwnNumbers
<1> DEFINE x == [company |-> loc[q].company, from |-> from, source |-> source]
<1>1. x.company = loc[q].company /\ x.from = from /\ x.source = source
  OBVIOUS
<1> HIDE DEF x
<1>2. \A m \in outbound' : m \in outbound \/ m = x
  BY DEF Leaves, x
<1>3. QED
  BY <1>1, <1>2 DEF OwnNumbers

LEMMA ChannelsOwnNumbers ==
  ASSUME IInv, NEW q \in Requests, ChannelsStep(q)
  PROVE  OwnNumbers
<1>1. CASE PreferPlatform(q)
  <2>1. OwnSender(q) # {} => \E i \in DOMAIN channels :
          channels[i].number = PlatformNumber /\ channels[i].company = loc[q].company
    BY DEF OwnSender, ActiveRow, RowOf
  <2>2. \/ UNCHANGED outbound
        \/ OwnSender(q) # {} /\ Leaves(q, PlatformNumber, "company_channel")
    BY <1>1, Zenon DEF PreferPlatform
  <2>3. QED
    BY <2>1, <2>2, SilenceOwns, LeavesOwns
<1>2. CASE OldestOrEnv(q)
  <2> DEFINE row == SendingRow(loc[q].company)
  <2>1. \A i \in row : i \in DOMAIN channels /\ channels[i].company = loc[q].company
    BY DEF SendingRow
  <2>2. \/ UNCHANGED outbound
        \/ Leaves(q, PlatformNumber, "env")
        \/ \E i \in row : Leaves(q, channels[i].number, "company_channel")
    BY <1>2 DEF OldestOrEnv
  <2>3. ASSUME NEW i \in row, Leaves(q, channels[i].number, "company_channel")
        PROVE  OwnNumbers
    BY <2>1, <2>3, LeavesOwns
  <2>4. Leaves(q, PlatformNumber, "env") => OwnNumbers
    BY LeavesOwns
  <2>5. QED
    BY <2>2, <2>3, <2>4, SilenceOwns
<1>3. CASE UNCHANGED outbound
  BY <1>3, SilenceOwns
<1>4. CASE \/ CreateChannel(q) \/ UpdateChannel(q) \/ RemoveChannel(q) \/ SeedRetire(q)
           \/ SeedUpsert(q) \/ ResolveCompany(q) \/ SandboxFallback(q) \/ StartSending(q)
  BY <1>3, <1>4, Zenon
     DEF CreateChannel, UpdateChannel, RemoveChannel, SeedRetire, SeedUpsert,
                    ResolveCompany, SandboxFallback, StartSending, SetChannels, channelState
<1>5. QED
  BY <1>1, <1>2, <1>4 DEF ChannelsStep

LEMMA NumbersPreserved ==
  ASSUME IInv, KeepsNumbers, OwnNumbers
  PROVE  NumbersInv'
<1>1. \A i, j \in DOMAIN channels' : channels'[i].number = channels'[j].number => i = j
  <2> SUFFICES ASSUME NEW i \in DOMAIN channels', NEW j \in DOMAIN channels',
                      channels'[i].number = channels'[j].number
               PROVE  i = j
    OBVIOUS
  <2>1. CASE i \notin DOMAIN channels \/ j \notin DOMAIN channels
    BY <2>1 DEF KeepsNumbers
  <2>2. CASE i \in DOMAIN channels /\ j \in DOMAIN channels
    <3>1. channels[i].number = channels[j].number
      BY <2>2 DEF KeepsNumbers
    <3>2. QED
      BY <2>2, <3>1 DEF IInv, NumbersInv
  <2>3. QED
    BY <2>1, <2>2
<1>2. ASSUME NEW m \in outbound', m.source = "company_channel"
      PROVE  \E i \in DOMAIN channels' : channels'[i].number = m.from
                                         /\ channels'[i].company = m.company
  <2>1. PICK i \in DOMAIN channels : channels[i].number = m.from /\ channels[i].company = m.company
    BY <1>2 DEF OwnNumbers, IInv, NumbersInv
  <2>2. QED
    BY <2>1 DEF KeepsNumbers
<1>3. QED
  BY <1>1, <1>2 DEF NumbersInv

-----------------------------------------------------------------------------
(* The users and the companies.                                            *)

\* Nobody leaves, and everything keeps its type.
Peopled ==
    /\ users' \in [Ids' -> UserRows]
    /\ Ids \subseteq Ids'
    /\ Ids' \subseteq DOMAIN accounts
    /\ companies' \in Seq(CompanyRows)

LEMMA SameUsers ==
  ASSUME IInv, NEW us \in [Ids -> UserRows], users' = us
  PROVE  users' \in [Ids' -> UserRows] /\ Ids' = Ids /\ Ids \subseteq DOMAIN accounts
BY DEF Ids, IInv

LEMMA UsersAre ==
  ASSUME IInv
  PROVE  users \in [Ids -> UserRows] /\ \A u \in Ids : users[u] \in UserRows
BY DEF IInv, TablesInv

LEMMA PatchedUser ==
  ASSUME IInv, NEW a, NEW x, a \in Ids => x \in UserRows, users' = [users EXCEPT ![a] = x]
  PROVE  users' \in [Ids' -> UserRows] /\ Ids' = Ids /\ Ids \subseteq DOMAIN accounts
<1>1. [users EXCEPT ![a] = x] \in [Ids -> UserRows]
  BY UsersAre
<1>2. QED
  BY <1>1, SameUsers

LEMMA SetUserTyped ==
  ASSUME IInv, NEW q, NEW on \in BOOLEAN, SetUser(q, on)
  PROVE  users' \in [Ids' -> UserRows] /\ Ids' = Ids /\ Ids \subseteq DOMAIN accounts
<1> DEFINE a == loc[q].acct
           x == [users[a] EXCEPT !.active = on]
<1>1. users' = [users EXCEPT ![a] = x]
  BY DEF SetUser
<1>2. a \in Ids => x \in UserRows
  <2>1. a \in Ids => users[a] \in UserRows
    BY UsersAre
  <2>2. QED
    BY <2>1 DEF UserRows
<1> HIDE DEF x
<1>3. QED
  BY <1>1, <1>2, PatchedUser

LEMMA SetStaffTyped ==
  ASSUME IInv, NEW c, NEW on \in BOOLEAN, SetStaffOf(c, on)
  PROVE  users' \in [Ids' -> UserRows] /\ Ids' = Ids /\ Ids \subseteq DOMAIN accounts
<1> DEFINE us == [u \in Ids |-> IF users[u].company = c
                                THEN [users[u] EXCEPT !.active = on] ELSE users[u]]
<1>1. \A u \in Ids : us[u] \in UserRows
  <2> TAKE u \in Ids
  <2>1. us[u] \in {[users[u] EXCEPT !.active = on], users[u]}
    OBVIOUS
  <2>2. users[u] \in UserRows
    BY UsersAre
  <2>3. [users[u] EXCEPT !.active = on] \in UserRows
    BY <2>2 DEF UserRows
  <2>4. QED
    BY <2>1, <2>2, <2>3
<1>2. us \in [Ids -> UserRows] /\ users' = us
  BY <1>1 DEF SetStaffOf
<1>3. QED
  BY <1>2, SameUsers

LEMMA CompaniesAre ==
  ASSUME IInv
  PROVE  /\ companies \in Seq(CompanyRows)
         /\ \A c \in Companies : companies[c] \in CompanyRows
BY DEF IInv, TablesInv, Companies

LEMMA SetCompanyTyped ==
  ASSUME IInv, NEW c, NEW on \in BOOLEAN, SetCompany(c, on)
  PROVE  companies' \in Seq(CompanyRows)
<1> DEFINE x == [companies[c] EXCEPT !.active = on]
<1>1. companies' = [companies EXCEPT ![c] = x]
  BY DEF SetCompany
<1>2. c \in DOMAIN companies => x \in CompanyRows
  BY CompaniesAre DEF Companies, CompanyRows
<1> HIDE DEF x
<1>3. QED
  BY <1>1, <1>2, CompaniesAre, SetElement

LEMMA SetConfigsTyped ==
  ASSUME IInv, NEW c, NEW configs, SetConfigs(c, configs),
         c \in Companies => configs \in Seq(Configs)
  PROVE  companies' \in Seq(CompanyRows)
<1> DEFINE x == [companies[c] EXCEPT !.configs = configs]
<1>1. companies' = [companies EXCEPT ![c] = x]
  BY DEF SetConfigs
<1>2. c \in DOMAIN companies => x \in CompanyRows
  BY CompaniesAre DEF Companies, CompanyRows
<1> HIDE DEF x
<1>3. QED
  BY <1>1, <1>2, CompaniesAre, SetElement

LEMMA AddCompanyTyped ==
  ASSUME IInv, NEW configs \in Seq(Configs),
         companies' = Append(companies, NewCompany(configs))
  PROVE  companies' \in Seq(CompanyRows)
<1>1. NewCompany(configs) \in CompanyRows
  BY DEF NewCompany, CompanyRows
<1>2. QED
  BY <1>1, CompaniesAre, Appended

LEMMA AddUserTyped ==
  ASSUME IInv, NEW a \in DOMAIN accounts, NEW role \in Roles, NEW c \in Nat,
         NEW sent \in BOOLEAN, NEW keys \in KeyMaps,
         users' = [u \in Ids \union {a} |->
                     IF u \in Ids THEN users[u] ELSE NewUser(role, c, sent, keys)]
  PROVE  /\ users' \in [Ids' -> UserRows]
         /\ Ids' = Ids \union {a} /\ Ids' \subseteq DOMAIN accounts
<1>1. NewUser(role, c, sent, keys) \in UserRows
  BY DEF NewUser, UserRows
<1> DEFINE us == [u \in Ids \union {a} |->
                     IF u \in Ids THEN users[u] ELSE NewUser(role, c, sent, keys)]
<1>2. us \in [Ids \union {a} -> UserRows]
  BY <1>1, UsersAre
<1>3. Ids' = Ids \union {a}
  BY DEF Ids
<1>4. QED
  BY <1>2, <1>3 DEF IInv

LEMMA SameTables ==
  ASSUME IInv, UNCHANGED <<users, companies>>
  PROVE  Peopled
BY UsersAre, CompaniesAre DEF Peopled, Ids, IInv

LEMMA InsertUserTyped ==
  ASSUME IInv, NEW q \in Requests, NEW valid, InsertUser(q, valid)
  PROVE  Peopled
<1> DEFINE l == loc[q]
<1>1. l.pc = "insertUser" /\ UNCHANGED companies
  BY DEF InsertUser, At
<1>2. l \in Locs /\ Local(l, Len(accounts)) /\ accounts \in Seq(AccountRows)
  BY Basics
<1>3. l.role \in Roles /\ l.acct \in DOMAIN accounts
  BY <1>1, <1>2 DEF Local
<1>4. l.company \in Nat /\ l.on \in BOOLEAN /\ l.keys \in KeyMaps
  BY <1>2, LocFields, Zenon
<1>5. CASE UNCHANGED users
  BY <1>1, <1>5, SameTables
<1>6. CASE users' = [u \in Ids \union {l.acct} |->
                       IF u \in Ids THEN users[u]
                       ELSE NewUser(l.role, l.company, l.on, l.keys)]
  <2>1. /\ users' \in [Ids' -> UserRows]
        /\ Ids' = Ids \union {l.acct} /\ Ids' \subseteq DOMAIN accounts
    BY <1>3, <1>4, <1>6, AddUserTyped
  <2>2. companies' \in Seq(CompanyRows)
    BY <1>1, CompaniesAre
  <2>3. QED
    BY <2>1, <2>2 DEF Peopled
<1>7. QED
  BY <1>5, <1>6 DEF InsertUser

LEMMA OAuthInsertTyped ==
  ASSUME IInv, NEW q \in Requests, OAuthInsert(q)
  PROVE  Peopled
<1> DEFINE l == loc[q]
           n == Len(companies) + 1
<1>1. l.pc = "oauth"
  BY DEF OAuthInsert, At
<1>2. l.acct \in DOMAIN accounts /\ n \in Nat
  <2>1. Local(l, Len(accounts)) /\ accounts \in Seq(AccountRows) /\ n \in Nat
    BY Basics
  <2>2. QED
    BY <1>1, <2>1 DEF Local
<1>3. CASE UNCHANGED <<users, companies>>
  BY <1>3, SameTables
<1>4. CASE /\ companies' = Append(companies, NewCompany(<<DefaultConfig>>))
           /\ users' = [u \in Ids \union {l.acct} |->
                          IF u \in Ids THEN users[u] ELSE NewUser("CLIENT", n, FALSE, NoKeys)]
  <2>1. "CLIENT" \in Roles /\ NoKeys \in KeyMaps /\ <<DefaultConfig>> \in Seq(Configs)
    BY AccountsAssumption, KeyMapFacts DEF DefaultConfig, Configs
  <2>2. /\ users' \in [Ids' -> UserRows]
        /\ Ids' = Ids \union {l.acct} /\ Ids' \subseteq DOMAIN accounts
    BY <1>2, <1>4, <2>1, AddUserTyped, ZenonT(60)
  <2>3. companies' \in Seq(CompanyRows)
    BY <1>4, <2>1, AddCompanyTyped
  <2>4. QED
    BY <2>2, <2>3 DEF Peopled
<1>5. QED
  BY <1>3, <1>4, Zenon DEF OAuthInsert

LEMMA CompanyTyped ==
  ASSUME IInv, NEW q \in Requests, CreateFullCompany(q)
  PROVE  Peopled
<1>1. PICK configs \in {<<>>} \union { <<[DefaultConfig EXCEPT !.whatsapp = w]>> : w \in BOOLEAN } :
        companies' = Append(companies, NewCompany(configs))
  BY DEF CreateFullCompany
<1>2. configs \in Seq(Configs)
  <2>1. \A w \in BOOLEAN : [DefaultConfig EXCEPT !.whatsapp = w] \in Configs
    BY DEF DefaultConfig, Configs
  <2>2. \A x \in Configs : <<x>> \in Seq(Configs)
    OBVIOUS
  <2>3. <<>> \in Seq(Configs)
    OBVIOUS
  <2>4. QED
    BY <1>1, <2>1, <2>2, <2>3
<1>3. UNCHANGED users
  BY DEF CreateFullCompany
<1>4. companies' \in Seq(CompanyRows)
  BY <1>1, <1>2, AddCompanyTyped
<1>5. users' \in [Ids' -> UserRows] /\ Ids' = Ids /\ Ids \subseteq DOMAIN accounts
  BY <1>3, UsersAre, SameUsers
<1>6. QED
  BY <1>4, <1>5 DEF Peopled

LEMMA SwitchTyped ==
  ASSUME IInv, NEW q \in Requests,
         \/ Deactivate(q) \/ Reactivate(q) \/ ReactivateCompany(q)
         \/ Remove(q) \/ RemoveCompany(q)
  PROVE  Peopled
<1>1. \E on \in BOOLEAN : \E c :
        /\ SetUser(q, on) \/ SetStaffOf(c, on)
        /\ SetCompany(c, on) \/ UNCHANGED companies
  BY Zenon DEF Deactivate, Reactivate, ReactivateCompany, Remove, RemoveCompany
<1>2. PICK on \in BOOLEAN : \E c :
        /\ SetUser(q, on) \/ SetStaffOf(c, on)
        /\ SetCompany(c, on) \/ UNCHANGED companies
  BY <1>1
<1>3. users' \in [Ids' -> UserRows] /\ Ids' = Ids /\ Ids \subseteq DOMAIN accounts
  BY <1>2, SetUserTyped, SetStaffTyped
<1>4. companies' \in Seq(CompanyRows)
  <2>1. UNCHANGED companies => companies' \in Seq(CompanyRows)
    BY CompaniesAre
  <2>2. QED
    BY <1>2, <2>1, SetCompanyTyped
<1>5. QED
  BY <1>3, <1>4 DEF Peopled

LEMMA MarkSentTyped ==
  ASSUME IInv, NEW q \in Requests, MarkSent(q)
  PROVE  Peopled
<1> DEFINE a == loc[q].acct
           x == [users[a] EXCEPT !.sent = TRUE]
<1>1. UNCHANGED companies /\ (UNCHANGED users \/ users' = [users EXCEPT ![a] = x])
  BY DEF MarkSent
<1>2. a \in Ids => x \in UserRows
  <2>1. a \in Ids => users[a] \in UserRows
    BY UsersAre
  <2>2. QED
    BY <2>1 DEF UserRows
<1>3. companies' \in Seq(CompanyRows)
  BY <1>1, CompaniesAre
<1>4. CASE UNCHANGED users
  BY <1>1, <1>4, SameTables
<1>5. CASE users' = [users EXCEPT ![a] = x]
  <2> HIDE DEF x
  <2>1. users' \in [Ids' -> UserRows] /\ Ids' = Ids /\ Ids \subseteq DOMAIN accounts
    BY <1>2, <1>5, PatchedUser
  <2>2. QED
    BY <1>3, <2>1 DEF Peopled
<1>6. QED
  BY <1>1, <1>4, <1>5

LEMMA AccountsTyped ==
  ASSUME IInv, NEW q \in Requests, AccountsStep(q)
  PROVE  Peopled
<1>1. CASE InsertClientUser(q) \/ InsertStaffUser(q)
  <2>1. \E valid \in BOOLEAN : InsertUser(q, valid)
    BY <1>1 DEF InsertClientUser, InsertStaffUser
  <2>2. QED
    BY <2>1, InsertUserTyped
<1>2. CASE \/ CreateClientUser(q) \/ CreateStaffUser(q) \/ CreateAccount(q)
           \/ UndoAccount(q) \/ OAuthRead(q) \/ RemoveCompanyLoad(q) \/ SendCredentials(q)
  <2>1. UNCHANGED <<users, companies>>
    BY <1>2, Zenon
       DEF CreateClientUser, CreateStaffUser, NewUserOf, CreateAccount, UndoAccount,
                OAuthRead, RemoveCompanyLoad, SendCredentials, accountState
  <2>2. QED
    BY <2>1, SameTables
<1>3. CASE Picks(q)
  <2>1. UNCHANGED <<users, companies>>
    BY <1>3, Zenon
       DEF Picks, DeactivateLoad, ReactivateLoad, RemoveLoad, SendLoad, Pick,
           accountState
  <2>2. QED
    BY <2>1, SameTables
<1>4. QED
  BY <1>1, <1>2, <1>3, OAuthInsertTyped, CompanyTyped, SwitchTyped, MarkSentTyped
     DEF AccountsStep, Picks

LEMMA PermissionsTyped ==
  ASSUME IInv, NEW q \in Requests, PermissionsStep(q)
  PROVE  Peopled
<1> DEFINE l == loc[q]
           a == l.acct
<1>1. l \in Locs /\ Local(l, Len(accounts)) /\ l.keys \in KeyMaps
  BY Basics, LocFields, Zenon
<1>2. CASE GrantLoad(q) \/ RoleLoad(q)
  BY <1>2, SameTables, Zenon DEF GrantLoad, RoleLoad, accountState
<1>3. CASE Grant(q)
  <2> DEFINE old == users[a].keys
             ks == [k \in DOMAIN old \union DOMAIN l.keys |->
                      IF k \in DOMAIN l.keys THEN l.keys[k] ELSE old[k]]
             x == [users[a] EXCEPT !.keys = ks]
  <2>1. users' = [users EXCEPT ![a] = x] /\ UNCHANGED companies
    BY <1>3 DEF Grant, Patch
  <2>2. a \in Ids => users[a] \in UserRows /\ old \in KeyMaps
    BY UsersAre DEF UserRows
  <2>3. a \in Ids => ks \in KeyMaps
    BY <1>1, <2>2, KeyMapFacts
  <2> HIDE DEF ks
  <2>4. a \in Ids => x \in UserRows
    BY <2>2, <2>3 DEF UserRows
  <2> HIDE DEF x
  <2>5. users' \in [Ids' -> UserRows] /\ Ids' = Ids /\ Ids \subseteq DOMAIN accounts
    BY <2>1, <2>4, PatchedUser
  <2>6. QED
    BY <2>1, <2>5, CompaniesAre DEF Peopled
<1>4. CASE ChangeRole(q)
  <2> DEFINE x == [users[a] EXCEPT !.role = l.role, !.keys = NoKeys]
  <2>1. users' = [users EXCEPT ![a] = x] /\ UNCHANGED companies
    <3>1. users' = [users EXCEPT ![a].role = l.role, ![a].keys = NoKeys] /\ UNCHANGED companies
      BY <1>4 DEF ChangeRole, Patch
    <3>2. QED
      BY <3>1, UsersAre
  <2>2. a \in Ids => users[a] \in UserRows
    BY UsersAre
  <2>3. l.role \in Roles /\ NoKeys \in KeyMaps
    BY <1>1, <1>4, KeyMapFacts DEF ChangeRole, At, Local
  <2>4. a \in Ids => x \in UserRows
    BY <2>2, <2>3 DEF UserRows
  <2> HIDE DEF x
  <2>5. users' \in [Ids' -> UserRows] /\ Ids' = Ids /\ Ids \subseteq DOMAIN accounts
    BY <2>1, <2>4, PatchedUser
  <2>6. QED
    BY <2>1, <2>5, CompaniesAre DEF Peopled
<1>5. QED
  BY <1>2, <1>3, <1>4 DEF PermissionsStep

LEMMA SetupTyped ==
  ASSUME IInv, NEW q \in Requests, SetupStep(q)
  PROVE  Peopled
<1> DEFINE l == loc[q]
           c == l.company
           old == companies[c].configs
<1>1. l \in Locs /\ Local(l, Len(accounts)) /\ l.on \in BOOLEAN
  BY Basics, LocFields, Zenon
<1>2. c \in Companies => old \in Seq(Configs)
  BY CompaniesAre, CurrentIsNat
<1>3. ASSUME NEW configs, SetConfigs(c, configs), c \in Companies => configs \in Seq(Configs)
      PROVE  Peopled
  <2>1. companies' \in Seq(CompanyRows) /\ UNCHANGED users
    BY <1>3, SetConfigsTyped DEF SetConfigs
  <2>2. users' \in [Ids' -> UserRows] /\ Ids' = Ids /\ Ids \subseteq DOMAIN accounts
    BY <2>1, UsersAre, SameUsers
  <2>3. QED
    BY <2>1, <2>2 DEF Peopled
<1>4. CASE GetActive(q) \/ SeedRead(q) \/ ConfigLoad(q) \/ CountOthers(q)
  <2>1. UNCHANGED <<users, companies>>
    BY <1>4, Zenon DEF GetActive, SeedRead, ConfigLoad, CountOthers, accountState
  <2>2. QED
    BY <2>1, SameTables
<1>5. CASE SeedCreate(q)
  <2>1. DefaultConfig \in Configs
    BY DEF DefaultConfig, Configs
  <2>2. c \in Companies => Append(old, DefaultConfig) \in Seq(Configs)
    BY <1>2, <2>1, Appended
  <2>3. SetConfigs(c, Append(old, DefaultConfig))
    BY <1>5 DEF SeedCreate
  <2>4. QED
    BY <1>3, <2>2, <2>3
<1>6. CASE UpdateConfig(q)
  <2> DEFINE i == l.config
             x == [old[i] EXCEPT ![l.channel] = l.on]
  <2>1. SetConfigs(c, [old EXCEPT ![i] = x])
    BY <1>6 DEF UpdateConfig
  <2>2. l.channel \in {"on", "whatsapp"}
    <3>1. l.pc = "config"
      BY <1>6, Zenon DEF UpdateConfig, At
    <3>2. QED
      BY <1>1, <3>1, Zenon DEF Local
  <2>3. c \in Companies /\ i \in DOMAIN old => x \in Configs
    <3>1. SUFFICES ASSUME c \in Companies, i \in DOMAIN old  PROVE x \in Configs
      OBVIOUS
    <3>2. old[i] \in Configs
      <4>1. old \in Seq(Configs)
        BY <1>2, <3>1, Zenon
      <4> HIDE DEF old, i
      <4>2. QED
        BY <3>1, <4>1
    <3> HIDE DEF l, old, i
    <3>3. [old[i] EXCEPT !.on = l.on] \in Configs /\ [old[i] EXCEPT !.whatsapp = l.on] \in Configs
      BY <1>1, <3>2 DEF Configs
    <3>4. QED
      BY <2>2, <3>3
  <2> HIDE DEF x
  <2>4. c \in Companies => [old EXCEPT ![i] = x] \in Seq(Configs)
    BY <1>2, <2>3, SetElement
  <2>5. QED
    BY <1>3, <2>1, <2>4
<1>7. QED
  BY <1>4, <1>5, <1>6 DEF SetupStep

-----------------------------------------------------------------------------
(* The accounts and their rows.                                            *)

\* A request that made an account gives it its row, goes on to take it back,
\* or has the provider's answer to that.
Settles(q) ==
    loc[q].pc \in {"insertUser", "undo"} =>
      \/ loc[q].acct \in Ids'
      \/ loc'[q].pc = "undo" /\ loc'[q].acct = loc[q].acct
      \/ accounts'[loc[q].acct].state \in {"deleted", "left"}

LEMMA InsertUserSettles ==
  ASSUME IInv, NEW q \in Requests, NEW valid, InsertUser(q, valid)
  PROVE  Settles(q)
<1> DEFINE l == loc[q]
<1>1. l \in Locs /\ loc \in [Requests -> Locs]
  BY Basics
<1>2. CASE Goto(q, "undo")
  <2>1. loc' = [loc EXCEPT ![q] = [l EXCEPT !.pc = "undo"]]
    BY <1>1, <1>2 DEF Goto
  <2>2. loc'[q] = [l EXCEPT !.pc = "undo"]
    BY <1>1, <2>1
  <2>3. loc'[q].pc = "undo" /\ loc'[q].acct = l.acct
    BY <1>1, <2>2, Zenon DEF Locs
  <2>4. QED
    BY <2>3 DEF Settles
<1>3. CASE users' = [u \in Ids \union {l.acct} |->
                       IF u \in Ids THEN users[u]
                       ELSE NewUser(l.role, l.company, l.on, l.keys)]
  BY <1>3 DEF Settles, Ids
<1>4. QED
  BY <1>2, <1>3 DEF InsertUser, RowFails

LEMMA UndoSettles ==
  ASSUME IInv, NEW q \in Requests, UndoAccount(q)
  PROVE  Settles(q)
<1> DEFINE a == loc[q].acct
<1>1. a \in 1..Len(accounts) /\ accounts \in Seq(AccountRows)
  BY Basics, Zenon DEF UndoAccount, At, Local
<1>2. PICK s \in {"deleted", "left"} : accounts' = [accounts EXCEPT ![a].state = s]
  BY DEF UndoAccount
<1>3. accounts'[a].state = s
  BY <1>1, <1>2, EndedAccount
<1>4. QED
  BY <1>3 DEF Settles

LEMMA RequestSettles ==
  ASSUME IInv, NEW q \in Requests, Request(q)
  PROVE  Settles(q)
<1> SUFFICES ASSUME loc[q].pc \in {"insertUser", "undo"}
             PROVE  Settles(q)
  BY DEF Settles
<1>1. ~ ChannelsStep(q)
  BY Zenon
     DEF ChannelsStep, CreateChannel, UpdateChannel, RemoveChannel, SeedRetire,
         SeedUpsert,
         ResolveCompany, SandboxFallback, StartSending, PreferPlatform, OldestOrEnv, Starts, At
<1>2. ~ DeliveryStep(q)
  BY Zenon
     DEF DeliveryStep, StartNotice, CreateNotice, ReadSettings, Record, SendWhatsapp,
         TryEmail,
         MarkRead, MarkAllRead, Starts, At
<1>3. ~ PermissionsStep(q)
  BY Zenon DEF PermissionsStep, GrantLoad, Grant, RoleLoad, ChangeRole, Starts, At
<1>4. ~ SetupStep(q)
  BY Zenon
     DEF SetupStep, GetActive, SeedRead, SeedCreate, ConfigLoad, CountOthers,
         UpdateConfig,
         Starts, At
<1>5. ~ Ends(q)
  BY DEF Ends, OAuthInsert, CreateFullCompany, Deactivate, Reactivate, ReactivateCompany,
         Remove, RemoveCompany, MarkSent, Starts, At
<1>6. ~ Picks(q)
  BY Zenon
     DEF Picks, DeactivateLoad, ReactivateLoad, RemoveLoad, SendLoad, Pick, Starts, At
<1>7. /\ ~ CreateClientUser(q) /\ ~ CreateStaffUser(q) /\ ~ CreateAccount(q)
      /\ ~ OAuthRead(q) /\ ~ RemoveCompanyLoad(q) /\ ~ SendCredentials(q)
  BY Zenon DEF CreateClientUser, CreateStaffUser, NewUserOf, CreateAccount, OAuthRead,
         RemoveCompanyLoad, SendCredentials, Starts, At
<1>8. AccountsStep(q)
  BY <1>1, <1>2, <1>3, <1>4 DEF Request, Deliver
<1>9. InsertClientUser(q) \/ InsertStaffUser(q) \/ UndoAccount(q)
  BY <1>5, <1>6, <1>7, <1>8 DEF AccountsStep, Ends, Picks
<1>10. (\E valid \in BOOLEAN : InsertUser(q, valid)) \/ UndoAccount(q)
  BY <1>9 DEF InsertClientUser, InsertStaffUser
<1>11. QED
  BY <1>10, InsertUserSettles, UndoSettles

LEMMA OthersStay ==
  ASSUME IInv, NEW q \in Requests, Moves(q)
  PROVE  /\ \A r \in Requests : r # q => loc'[r] = loc[r]
         /\ loc' \in [Requests -> Locs] /\ Local(loc'[q], Len(accounts'))
<1>1. PICK l : Local(l, Len(accounts')) /\ loc' = [loc EXCEPT ![q] = l]
  BY DEF Moves, To
<1>2. l \in Locs /\ loc \in [Requests -> Locs]
  BY <1>1, Basics, Zenon DEF Local
<1>3. QED
  BY <1>1, <1>2

LEMMA RequestHasRows ==
  ASSUME IInv, NEW q \in Requests, Moves(q), Accounting(q), Settles(q), Ids \subseteq Ids'
  PROVE  AccountsHaveRows'
<1>1. accounts \in Seq(AccountRows) /\ accounts' \in Seq(AccountRows)
  BY Basics, AccountsGrow
<1>2. \A r \in Requests : r # q => loc'[r] = loc[r]
  BY OthersStay
\* An account stays what it was, or its request has just ended it.
<1>3. \A a \in DOMAIN accounts :
        \/ accounts'[a] = accounts[a]
        \/ accounts'[a].state \in {"deleted", "left"}
  <2>1. CASE UNCHANGED accounts
    BY <2>1
  <2>2. CASE \E e \in Emails, made \in {"admin", "lost"} : NewAccount(e, made)
    BY <2>2, NewAccountRow
  <2>3. CASE /\ loc[q].acct \in DOMAIN accounts
             /\ \E s \in {"deleted", "left"} : accounts' = [accounts EXCEPT ![loc[q].acct].state = s]
    <3>1. PICK s \in {"deleted", "left"} : accounts' = [accounts EXCEPT ![loc[q].acct].state = s]
      BY <2>3
    <3>2. /\ \A b \in DOMAIN accounts : b # loc[q].acct => accounts'[b] = accounts[b]
          /\ accounts'[loc[q].acct].state = s
      BY <2>3, <3>1, EndedAccount
    <3>3. QED
      BY <3>2
  <2>4. \/ UNCHANGED accounts
        \/ \E e \in Emails, made \in {"admin", "lost"} : NewAccount(e, made)
        \/ /\ loc[q].acct \in DOMAIN accounts
           /\ \E s \in {"deleted", "left"} : accounts' = [accounts EXCEPT ![loc[q].acct].state = s]
    BY Zenon DEF Accounting
  <2>5. QED
    BY <2>1, <2>2, <2>3, <2>4, Zenon
<1>4. \A a \in DOMAIN accounts' \ DOMAIN accounts :
        \/ loc'[q].pc = "insertUser" /\ loc'[q].acct = a
        \/ accounts'[a].made = "lost"
  <2>1. CASE UNCHANGED accounts
    BY <2>1
  <2>2. CASE /\ \E e \in Emails : NewAccount(e, "admin")
             /\ loc'[q].pc = "insertUser" /\ loc'[q].acct = Len(accounts) + 1
    <3>1. DOMAIN accounts' = DOMAIN accounts \union {Len(accounts) + 1}
      BY <2>2, NewAccountRow
    <3>2. QED
      BY <2>2, <3>1
  <2>6. CASE \E e \in Emails : NewAccount(e, "lost")
    <3>1. /\ DOMAIN accounts' = DOMAIN accounts \union {Len(accounts) + 1}
          /\ accounts'[Len(accounts) + 1].made = "lost"
      BY <2>6, NewAccountRow
    <3>2. QED
      BY <3>1
  <2>3. CASE /\ loc[q].acct \in DOMAIN accounts
             /\ \E s \in {"deleted", "left"} : accounts' = [accounts EXCEPT ![loc[q].acct].state = s]
    BY <1>1, <2>3
  <2>4. \/ UNCHANGED accounts
        \/ /\ \E e \in Emails : NewAccount(e, "admin")
           /\ loc'[q].pc = "insertUser" /\ loc'[q].acct = Len(accounts) + 1
        \/ \E e \in Emails : NewAccount(e, "lost")
        \/ /\ loc[q].acct \in DOMAIN accounts
           /\ \E s \in {"deleted", "left"} : accounts' = [accounts EXCEPT ![loc[q].acct].state = s]
    BY Zenon DEF Accounting
  <2>5. QED
    BY <2>1, <2>2, <2>3, <2>4, <2>6, Zenon
<1>5. ASSUME NEW a \in DOMAIN accounts'
      PROVE  \/ a \in Ids'
             \/ \E r \in Requests : loc'[r].pc \in {"insertUser", "undo"} /\ loc'[r].acct = a
             \/ accounts'[a].made \in {"person", "lost"}
             \/ accounts'[a].state \in {"deleted", "left"}
  <2>1. CASE a \notin DOMAIN accounts
    BY <1>4, <2>1
  <2>2. CASE a \in DOMAIN accounts /\ accounts'[a] = accounts[a]
    <3>1. a \in Ids \/ Creating(a) \/ accounts[a].made \in {"person", "lost"}
          \/ accounts[a].state \in {"deleted", "left"}
      BY <2>2 DEF IInv, AccountsHaveRows
    <3>2. CASE Creating(a)
      <4>1. PICK r \in Requests : loc[r].pc \in {"insertUser", "undo"} /\ loc[r].acct = a
        BY <3>2 DEF Creating
      <4>2. CASE r = q
        BY <4>1, <4>2 DEF Settles
      <4>3. CASE r # q
        BY <1>2, <4>1, <4>3
      <4>4. QED
        BY <4>2, <4>3
    <3>3. QED
      BY <2>2, <3>1, <3>2
  <2>3. QED
    BY <1>3, <2>1, <2>2
<1>6. QED
  BY <1>5 DEF AccountsHaveRows, Creating

LEMMA LocsPreserved ==
  ASSUME IInv, NEW q \in Requests, Moves(q), Len(accounts') \in Nat,
         Len(accounts) <= Len(accounts')
  PROVE  LocsInv'
<1>1. \A r \in Requests : Local(loc'[r], Len(accounts'))
  <2> TAKE r \in Requests
  <2>1. CASE r = q
    BY <2>1, OthersStay
  <2>2. CASE r # q
    <3>1. loc'[r] = loc[r] /\ Local(loc[r], Len(accounts)) /\ Len(accounts) \in Nat
      BY <2>2, OthersStay, Basics
    <3>2. QED
      BY <3>1, LocalGrows
  <2>3. QED
    BY <2>1, <2>2
<1>2. QED
  BY <1>1, OthersStay DEF LocsInv

-----------------------------------------------------------------------------
(* Every step.                                                             *)

LEMMA RequestSteps ==
  ASSUME IInv, NEW q \in Requests, Request(q)
  PROVE  Accounting(q) /\ Moves(q) /\ Peopled /\ KeepsNumbers /\ OwnNumbers
<1>1. CASE Deliver(q) /\ UNCHANGED channelState
  <2>1. UNCHANGED accountState /\ Moves(q)
    BY <1>1, DeliveryMoves DEF Deliver
  <2>2. Peopled
    BY <2>1, SameTables DEF accountState
  <2>3. Accounting(q)
    BY <2>1 DEF accountState, Accounting
  <2>4. QED
    BY <1>1, <2>1, <2>2, <2>3, StillKeeps, SilenceOwns DEF channelState
<1>2. CASE AccountsStep(q) /\ UNCHANGED channelState
  BY <1>2, AccountsMoves, AccountsTyped, StillKeeps, SilenceOwns DEF channelState
<1>3. CASE PermissionsStep(q) /\ UNCHANGED channelState
  BY <1>3, PermissionsMoves, PermissionsTyped, StillKeeps, SilenceOwns
     DEF channelState, Accounting
<1>4. CASE SetupStep(q) /\ UNCHANGED channelState
  BY <1>4, SetupMoves, SetupTyped, StillKeeps, SilenceOwns DEF channelState, Accounting
<1>5. CASE ChannelsStep(q)
  <2>1. UNCHANGED accountState /\ Moves(q)
    BY <1>5, ChannelsMoves
  <2>2. Peopled
    BY <2>1, SameTables DEF accountState
  <2>3. Accounting(q)
    BY <2>1 DEF accountState, Accounting
  <2>4. QED
    BY <1>5, <2>1, <2>2, <2>3, ChannelsKeepNumbers, ChannelsOwnNumbers
<1>6. QED
  BY <1>1, <1>2, <1>3, <1>4, <1>5 DEF Request

LEMMA RequestPreserves ==
  ASSUME IInv, NEW q \in Requests, Request(q)
  PROVE  IInv'
<1>1. Accounting(q) /\ Moves(q) /\ Peopled /\ KeepsNumbers /\ OwnNumbers /\ Settles(q)
  BY RequestSteps, RequestSettles
<1>2. /\ accounts' \in Seq(AccountRows) /\ Len(accounts') \in Nat
      /\ Len(accounts) <= Len(accounts') /\ DOMAIN accounts \subseteq DOMAIN accounts'
  BY <1>1, AccountsGrow
<1>3. TablesInv'
  BY <1>1, <1>2 DEF TablesInv, Peopled, KeepsNumbers
<1>4. LocsInv'
  BY <1>1, <1>2, LocsPreserved
<1>5. (Ids \subseteq DOMAIN accounts)'
  BY <1>1, <1>2 DEF Peopled
<1>6. AccountsHaveRows'
  BY <1>1, RequestHasRows DEF Peopled
<1>7. NumbersInv'
  BY <1>1, NumbersPreserved
<1>8. QED
  BY <1>3, <1>4, <1>5, <1>6, <1>7 DEF IInv

LEMMA SignUpPreserves ==
  ASSUME IInv, NEW e \in Emails, SignUp(e), UNCHANGED channelState
  PROVE  IInv'
<1>1. NewAccount(e, "person") /\ UNCHANGED <<users, companies, loc>>
  BY DEF SignUp
<1>2. /\ accounts' \in Seq(AccountRows)
      /\ Len(accounts') = Len(accounts) + 1
      /\ DOMAIN accounts' = DOMAIN accounts \union {Len(accounts) + 1}
      /\ \A a \in DOMAIN accounts : accounts'[a] = accounts[a]
      /\ accounts'[Len(accounts) + 1].made = "person"
  BY <1>1, NewAccountRow
<1>3. Peopled /\ KeepsNumbers /\ OwnNumbers
  BY <1>1, SameTables, StillKeeps, SilenceOwns DEF channelState
<1>4. TablesInv'
  BY <1>2, <1>3 DEF TablesInv, Peopled, KeepsNumbers
<1>5. LocsInv'
  <2>1. \A r \in Requests : Local(loc[r], Len(accounts'))
    <3> TAKE r \in Requests
    <3>1. Local(loc[r], Len(accounts)) /\ Len(accounts) \in Nat
      BY Basics
    <3>2. Len(accounts') \in Nat /\ Len(accounts) <= Len(accounts')
      BY <1>2, <3>1
    <3>3. QED
      BY <3>1, <3>2, LocalGrows
  <2>2. QED
    BY <1>1, <2>1, Basics DEF LocsInv
<1>6. (Ids \subseteq DOMAIN accounts)'
  BY <1>2, <1>3 DEF Peopled
<1>7. AccountsHaveRows'
  <2>1. ASSUME NEW a \in DOMAIN accounts'
        PROVE  \/ a \in Ids'
               \/ \E r \in Requests : loc'[r].pc \in {"insertUser", "undo"} /\ loc'[r].acct = a
               \/ accounts'[a].made \in {"person", "lost"}
               \/ accounts'[a].state \in {"deleted", "left"}
    BY <1>1, <1>2 DEF IInv, AccountsHaveRows, Creating, Ids
  <2>2. QED
    BY <2>1 DEF AccountsHaveRows, Creating
<1>8. NumbersInv'
  BY <1>3, NumbersPreserved
<1>9. QED
  BY <1>4, <1>5, <1>6, <1>7, <1>8 DEF IInv

LEMMA NextPreserves ==
  ASSUME IInv, [Next]_vars
  PROVE  IInv'
<1>1. CASE Next
  BY <1>1, SignUpPreserves, RequestPreserves DEF Next
<1>2. CASE UNCHANGED vars
  <2>1. UNCHANGED <<accounts, users, companies, channels, outbound, loc>>
    BY <1>2 DEF vars, accountState, channelState
  <2>2. TablesInv' /\ LocsInv' /\ (Ids \subseteq DOMAIN accounts)' /\ NumbersInv'
    BY <2>1 DEF IInv, TablesInv, LocsInv, NumbersInv, Ids
  <2>3. AccountsHaveRows'
    BY <2>1 DEF IInv, AccountsHaveRows, Creating, Ids
  <2>4. QED
    BY <2>2, <2>3 DEF IInv
<1>3. QED
  BY <1>1, <1>2

LEMMA InitIInv ==
  ASSUME Init
  PROVE  IInv
<1>1. /\ loc = [q \in Requests |-> Idle]
      /\ accounts = [a \in DOMAIN Founders |->
                       [email |-> Founders[a].email, made |-> "admin", state |-> "live"]]
      /\ users = [a \in DOMAIN Founders |->
                    NewUser(Founders[a].role, Founders[a].company, FALSE, NoKeys)]
      /\ companies = [c \in DOMAIN Founded |-> NewCompany(Founded[c])]
      /\ channels = [i \in DOMAIN Lines |-> NewChannel(Lines[i].company, Lines[i].number, TRUE)]
      /\ outbound = {}
  BY DEF Init, InitDelivery, InitAccounts, InitChannels
<1>2. /\ Founders \in Seq([email : Emails, role : Roles, company : DOMAIN Founded])
      /\ Founded \in Seq(Seq(Configs))
      /\ Lines \in Seq([company : DOMAIN Founded, number : Numbers])
  BY AccountsAssumption, ChannelsAssumption
<1>3. DOMAIN Founded \subseteq Nat
  BY <1>2
<1>4. accounts \in Seq(AccountRows)
  <2>1. \A a \in DOMAIN Founders : Founders[a] \in [email : Emails, role : Roles, company : DOMAIN Founded]
    BY <1>2, ElementsOf
  <2>2. \A a \in DOMAIN Founders :
          [email |-> Founders[a].email, made |-> "admin", state |-> "live"] \in AccountRows
    BY <2>1 DEF AccountRows
  <2>3. DOMAIN Founders = 1..Len(Founders) /\ Len(Founders) \in Nat
    BY <1>2
  <2>4. accounts \in [1..Len(Founders) -> AccountRows]
    BY <1>1, <2>2, <2>3
  <2>5. QED
    BY <2>3, <2>4
<1>5. users \in [Ids -> UserRows] /\ Ids = DOMAIN Founders
  <2>1. \A a \in DOMAIN Founders : Founders[a].role \in Roles /\ Founders[a].company \in Nat
    <3> TAKE a \in DOMAIN Founders
    <3>1. Founders[a] \in [email : Emails, role : Roles, company : DOMAIN Founded]
      BY <1>2, ElementsOf
    <3>2. QED
      BY <1>3, <3>1
  <2>2. \A a \in DOMAIN Founders :
          NewUser(Founders[a].role, Founders[a].company, FALSE, NoKeys) \in UserRows
    BY <2>1, KeyMapFacts DEF NewUser, UserRows
  <2>3. QED
    BY <1>1, <2>2 DEF Ids
<1>6. companies \in Seq(CompanyRows)
  <2>1. \A c \in DOMAIN Founded : NewCompany(Founded[c]) \in CompanyRows
    BY <1>2 DEF NewCompany, CompanyRows
  <2>2. DOMAIN Founded = 1..Len(Founded) /\ Len(Founded) \in Nat
    BY <1>2
  <2>3. companies \in [1..Len(Founded) -> CompanyRows]
    BY <1>1, <2>1, <2>2
  <2>4. QED
    BY <2>2, <2>3
<1>7. \A i \in DOMAIN Lines :
        LET x == NewChannel(Lines[i].company, Lines[i].number, TRUE) IN
        x \in ChannelRows /\ x.number = Lines[i].number
  <2> TAKE i \in DOMAIN Lines
  <2>1. Lines[i] \in [company : DOMAIN Founded, number : Numbers]
    BY <1>2, ElementsOf
  <2>2. Lines[i].company \in Nat /\ Lines[i].number \in Numbers
    BY <1>3, <2>1
  <2>3. QED
    BY <2>2 DEF NewChannel, ChannelRows
<1>8. channels \in Seq(ChannelRows)
  <2>1. DOMAIN Lines = 1..Len(Lines) /\ Len(Lines) \in Nat
    BY <1>2
  <2>2. channels \in [1..Len(Lines) -> ChannelRows]
    BY <1>1, <1>7, <2>1
  <2>3. QED
    BY <2>1, <2>2
<1>9. NumbersInv
  <2>1. DOMAIN channels = DOMAIN Lines /\ \A i \in DOMAIN Lines : channels[i].number = Lines[i].number
    BY <1>1, <1>7
  <2>2. \A i, j \in DOMAIN channels : channels[i].number = channels[j].number => i = j
    BY <2>1, ChannelsAssumption
  <2>3. QED
    BY <1>1, <2>2 DEF NumbersInv
<1>10. LocsInv
  <2>1. Len(accounts) \in Nat
    BY <1>4
  <2>2. Idle \in Locs /\ Local(Idle, Len(accounts))
    BY <2>1, IdleIsLocal, Zenon DEF Local
  <2>3. QED
    BY <1>1, <2>2 DEF LocsInv
<1>11. Ids \subseteq DOMAIN accounts /\ AccountsHaveRows
  BY <1>1, <1>5 DEF AccountsHaveRows
<1>12. QED
  BY <1>4, <1>5, <1>6, <1>8, <1>9, <1>10, <1>11 DEF IInv, TablesInv

\* The inductive invariant holds in every state.
THEOREM SpecIInv == Spec => []IInv
<1>1. Init => IInv
  BY InitIInv
<1>2. IInv /\ [Next]_vars => IInv'
  BY NextPreserves
<1>3. QED
  BY <1>1, <1>2, PTL DEF Spec

\* No account of the identity provider is left without its user by a request
\* that failed (createClientUser, createStaffUser, safeDeleteSupabaseUser).
THEOREM SpecAccountsHaveRows == Spec => []AccountsHaveRows
<1>1. IInv => AccountsHaveRows
  BY DEF IInv
<1>2. QED
  BY <1>1, SpecIInv, PTL

-----------------------------------------------------------------------------
(* What follows in each state.                                             *)

LEMMA RowsGiveBack ==
  ASSUME IInv
  PROVE  AnswersComeBack
<1> SUFFICES ASSUME NEW m \in outbound, NEW i \in DOMAIN channels,
                    m.source = "company_channel", m.from = channels[i].number
             PROVE  m.company = channels[i].company
  BY DEF AnswersComeBack
<1>1. PICK j \in DOMAIN channels : channels[j].number = m.from /\ channels[j].company = m.company
  BY DEF IInv, NumbersInv
<1>2. i = j
  BY <1>1 DEF IInv, NumbersInv
<1>3. QED
  BY <1>1, <1>2

\* An answer to a message reaches the company that it was sent for
\* (resolveCompanyChannel, getSendingCredentials, resolveCompanyByExternalId).
THEOREM SpecAnswersComeBack == Spec => []AnswersComeBack
<1>1. IInv => AnswersComeBack
  BY RowsGiveBack
<1>2. QED
  BY <1>1, SpecIInv, PTL

-----------------------------------------------------------------------------
(* What changes the permissions of a user.                                 *)

SameRights(u) ==
    /\ users'[u].role = users[u].role /\ users'[u].company = users[u].company
    /\ users'[u].keys = users[u].keys

RightsStay == \A u \in Ids : SameRights(u)

LEMMA SameRightsResolve ==
  ASSUME NEW u, SameRights(u)
  PROVE  ResolvePermissions(u)' = ResolvePermissions(u)
<1>1. \A k : Holds(users'[u], k) = Holds(users[u], k)
  BY DEF SameRights, Holds
<1>2. Fixed(users'[u]) = Fixed(users[u])
  BY DEF SameRights, Fixed
<1>3. QED
  BY <1>1, <1>2 DEF SameRights, ResolvePermissions

LEMMA SwitchKeepsRights ==
  ASSUME IInv, NEW q, NEW on, NEW c,
         \/ UNCHANGED users
         \/ SetUser(q, on)
         \/ SetStaffOf(c, on)
         \/ users' = [users EXCEPT ![loc[q].acct].sent = on]
  PROVE  RightsStay
<1> SUFFICES ASSUME NEW u \in Ids  PROVE SameRights(u)
  BY DEF RightsStay
<1>1. users[u] \in UserRows /\ DOMAIN users = Ids
  BY UsersAre
<1>2. \/ users'[u] = users[u]
      \/ users'[u] = [users[u] EXCEPT !.active = on]
      \/ users'[u] = [users[u] EXCEPT !.sent = on]
  BY <1>1 DEF SetUser, SetStaffOf
<1>3. QED
  BY <1>1, <1>2 DEF SameRights, UserRows

LEMMA AddedUserKeepsRights ==
  ASSUME IInv, NEW a, NEW x,
         users' = [u \in Ids \union {a} |-> IF u \in Ids THEN users[u] ELSE x]
  PROVE  RightsStay
BY DEF RightsStay, SameRights

LEMMA AccountsKeepRights ==
  ASSUME IInv, NEW q \in Requests, AccountsStep(q)
  PROVE  RightsStay
<1>1. CASE InsertClientUser(q) \/ InsertStaffUser(q) \/ OAuthInsert(q)
  <2>1. \/ UNCHANGED users
        \/ \E a, x : users' = [u \in Ids \union {a} |-> IF u \in Ids THEN users[u] ELSE x]
    BY <1>1, Zenon DEF InsertClientUser, InsertStaffUser, InsertUser, OAuthInsert
  <2>2. QED
    BY <2>1, SwitchKeepsRights, AddedUserKeepsRights
<1>2. CASE \/ CreateClientUser(q) \/ CreateStaffUser(q) \/ CreateAccount(q)
           \/ UndoAccount(q) \/ OAuthRead(q) \/ RemoveCompanyLoad(q) \/ SendCredentials(q)
           \/ CreateFullCompany(q)
  <2>1. UNCHANGED users
    BY <1>2, Zenon
       DEF CreateClientUser, CreateStaffUser, NewUserOf, CreateAccount, UndoAccount,
           OAuthRead, RemoveCompanyLoad, SendCredentials, CreateFullCompany, accountState
  <2>2. QED
    BY <2>1, SwitchKeepsRights
<1>3. CASE Picks(q)
  <2>1. UNCHANGED users
    BY <1>3, Zenon
       DEF Picks, DeactivateLoad, ReactivateLoad, RemoveLoad, SendLoad, Pick,
           accountState
  <2>2. QED
    BY <2>1, SwitchKeepsRights
<1>4. CASE \/ Deactivate(q) \/ Reactivate(q) \/ ReactivateCompany(q) \/ Remove(q)
           \/ RemoveCompany(q) \/ MarkSent(q)
  <2>1. \E on, c : \/ UNCHANGED users
                   \/ SetUser(q, on)
                   \/ SetStaffOf(c, on)
                   \/ users' = [users EXCEPT ![loc[q].acct].sent = on]
    BY <1>4, Zenon DEF Deactivate, Reactivate, ReactivateCompany, Remove, RemoveCompany, MarkSent
  <2>2. QED
    BY <2>1, SwitchKeepsRights
<1>5. QED
  BY <1>1, <1>2, <1>3, <1>4 DEF AccountsStep, Picks

\* The disjuncts of PermissionsFollow for one user.
Follows(u) ==
    \/ ResolvePermissions(u)' = ResolvePermissions(u)
    \/ \E q \in Requests :
         /\ At(q, "role") /\ loc[q].acct = u
         /\ users'[u].role = loc[q].role
         /\ ResolvePermissions(u)' = RoleGives(users'[u])
    \/ \E q \in Requests :
         /\ At(q, "grant") /\ loc[q].acct = u
         /\ \A k \in Keys :
              (k \in ResolvePermissions(u)) # (k \in ResolvePermissions(u)')
              => /\ k \in DOMAIN loc[q].keys
                 /\ loc[q].keys[k] = (k \in ResolvePermissions(u)')

LEMMA RoleFollows ==
  ASSUME IInv, NEW q \in Requests, ChangeRole(q), NEW u \in Ids
  PROVE  Follows(u)
<1> DEFINE l == loc[q]
           x == [users[u] EXCEPT !.role = l.role, !.keys = NoKeys]
<1>1. At(q, "role") /\ users' = [users EXCEPT ![l.acct].role = l.role, ![l.acct].keys = NoKeys]
  BY DEF ChangeRole, Patch
<1>2. users[u] \in UserRows /\ DOMAIN users = Ids
  BY UsersAre
<1>3. CASE u # l.acct
  <2>1. SameRights(u)
    BY <1>1, <1>2, <1>3 DEF SameRights
  <2>2. QED
    BY <2>1, SameRightsResolve DEF Follows
<1>4. CASE u = l.acct
  <2>1. users'[u] = x
    BY <1>1, <1>2, <1>4
  <2>2. x.role = l.role /\ x.keys = NoKeys
    BY <1>2 DEF UserRows
  <2> HIDE DEF x
  <2>3. \A k : Holds(x, k) = (k \in DefaultOn[x.role])
    BY <2>2 DEF Holds, NoKeys
  <2>4. { k \in RoleKeys[x.role] : Holds(x, k) } = RoleKeys[x.role] \intersect DefaultOn[x.role]
    BY <2>3
  <2>5. ResolvePermissions(u)' = RoleGives(users'[u])
    BY <2>1, <2>4 DEF ResolvePermissions, RoleGives
  <2>6. QED
    BY <1>1, <1>4, <2>1, <2>2, <2>5 DEF Follows
<1>5. QED
  BY <1>3, <1>4

LEMMA GrantFollows ==
  ASSUME IInv, NEW q \in Requests, Grant(q), NEW u \in Ids
  PROVE  Follows(u)
<1> DEFINE l == loc[q]
           old == users[l.acct].keys
           ks == [k \in DOMAIN old \union DOMAIN l.keys |->
                    IF k \in DOMAIN l.keys THEN l.keys[k] ELSE old[k]]
           x == [users[u] EXCEPT !.keys = ks]
<1>1. At(q, "grant") /\ users' = [users EXCEPT ![l.acct].keys = ks]
  BY DEF Grant, Patch
<1>2. users[u] \in UserRows /\ DOMAIN users = Ids
  BY UsersAre
<1>3. CASE u # l.acct
  <2> HIDE DEF ks
  <2>1. SameRights(u)
    BY <1>1, <1>2, <1>3 DEF SameRights
  <2>2. QED
    BY <2>1, SameRightsResolve DEF Follows
<1>4. CASE u = l.acct
  <2>1. \A k : /\ k \in DOMAIN l.keys => k \in DOMAIN ks /\ ks[k] = l.keys[k]
               /\ k \notin DOMAIN l.keys =>
                    /\ k \in DOMAIN ks <=> k \in DOMAIN users[u].keys
                    /\ k \in DOMAIN ks => ks[k] = users[u].keys[k]
    BY <1>4
  <2> HIDE DEF ks
  <2>2. users'[u] = x /\ x.keys = ks /\ x.role = users[u].role /\ x.company = users[u].company
    BY <1>1, <1>2, <1>4 DEF UserRows
  <2>3. Fixed(x) = Fixed(users[u])
    BY <2>2 DEF Fixed
  <2> HIDE DEF x
  <2>4. CASE users[u].role \in MANAGER_ROLES
    BY <2>2, <2>3, <2>4 DEF Follows, ResolvePermissions
  <2>5. CASE users[u].role \notin MANAGER_ROLES
    <3>1. ASSUME NEW k,
                 (k \in ResolvePermissions(u)) # (k \in ResolvePermissions(u)')
          PROVE  /\ k \in DOMAIN l.keys
                 /\ l.keys[k] = (k \in ResolvePermissions(u)')
      <4>1. k \in ResolvePermissions(u) <=> k \in RoleKeys[x.role] /\ Holds(users[u], k)
        BY <2>2, <2>5 DEF ResolvePermissions
      <4>2. k \in ResolvePermissions(u)' <=> k \in RoleKeys[x.role] /\ Holds(x, k)
        BY <2>2, <2>5 DEF ResolvePermissions
      <4>3. k \notin DOMAIN l.keys => (Holds(x, k) <=> Holds(users[u], k))
        BY <2>1, <2>2 DEF Holds
      <4>9. ~ (k \in ResolvePermissions(u) <=> k \in ResolvePermissions(u)')
        BY <3>1
      <4>4. k \in DOMAIN l.keys
        BY <4>1, <4>2, <4>3, <4>9, Zenon
      <4>5. Holds(x, k) = l.keys[k]
        BY <2>1, <2>2, <4>4 DEF Holds
      <4>6. l.keys[k] \in BOOLEAN
        <5>1. l.keys \in KeyMaps
          BY Basics, LocFields, Zenon
        <5>2. QED
          BY <4>4, <5>1 DEF KeyMaps
      <4>7. k \in RoleKeys[x.role]
        BY <4>1, <4>2, <4>9, Zenon
      <4>8. k \in ResolvePermissions(u)' <=> l.keys[k] = TRUE
        BY <4>2, <4>5, <4>6, <4>7, Zenon
      <4>10. QED
        BY <4>4, <4>6, <4>8
    <3>2. QED
      BY <1>1, <1>4, <3>1, Zenon DEF Follows
  <2>6. QED
    BY <2>4, <2>5
<1>5. QED
  BY <1>3, <1>4

LEMMA NextFollows ==
  ASSUME IInv, [Next]_vars, NEW u \in Ids
  PROVE  Follows(u)
<1>1. RightsStay => Follows(u)
  BY SameRightsResolve DEF RightsStay, Follows
<1>2. UNCHANGED users => RightsStay
  BY SwitchKeepsRights
<1>3. CASE UNCHANGED vars \/ \E e \in Emails : SignUp(e)
  BY <1>1, <1>2, <1>3 DEF vars, accountState, SignUp
<1>4. ASSUME NEW q \in Requests, Request(q)
      PROVE  Follows(u)
  <2>1. CASE Deliver(q) \/ SetupStep(q) \/ ChannelsStep(q)
    <3>1. UNCHANGED users
      BY <2>1, SetupMoves, ChannelsMoves DEF Deliver, accountState
    <3>2. QED
      BY <1>1, <1>2, <3>1
  <2>2. CASE AccountsStep(q)
    BY <1>1, <2>2, AccountsKeepRights
  <2>3. CASE GrantLoad(q) \/ RoleLoad(q)
    BY <1>1, <1>2, <2>3, Zenon DEF GrantLoad, RoleLoad, accountState
  <2>4. QED
    BY <1>4, <2>1, <2>2, <2>3, RoleFollows, GrantFollows DEF Request, PermissionsStep
<1>5. QED
  BY <1>3, <1>4 DEF Next

\* A change of the role leaves a user what the new role gives by itself, an
\* override changes only the permissions that it names, and nothing else
\* changes what a user may do (updateUserRole, updateUserPermissions,
\* resolvePermissions).
THEOREM SpecPermissionsFollow == Spec => PermissionsFollow
<1>1. IInv /\ [Next]_vars => [\A u \in Ids : Follows(u)]_vars
  BY NextFollows
<1>2. QED
  BY <1>1, SpecIInv, PTL DEF Spec, PermissionsFollow, Follows

-----------------------------------------------------------------------------
(* Configurations that are added.                                          *)

\* A later configuration does not become the oldest.
LEMMA OldestKept ==
  ASSUME NEW n \in Nat, NEW S \in SUBSET (1..n), S # {}
  PROVE  Oldest(S \union {n + 1}) = Oldest(S)
<1> DEFINE T == S \union {n + 1}
<1>1. S \in SUBSET Nat /\ T \in SUBSET Nat /\ T # {}
  OBVIOUS
<1>2. Oldest(S) \in S /\ \A j \in S : Oldest(S) <= j
  BY <1>1, OldestOf
<1>3. Oldest(T) \in T /\ \A j \in T : Oldest(T) <= j
  <2> HIDE DEF T
  <2>1. QED
    BY <1>1, OldestOf
<1>4. Oldest(T) <= Oldest(S) /\ Oldest(S) \in 1..n
  BY <1>2, <1>3
<1>5. Oldest(T) # n + 1
  BY <1>1, <1>3, <1>4
<1>6. Oldest(T) \in S
  BY <1>3, <1>5
<1>7. Oldest(S) <= Oldest(T) /\ Oldest(T) \in Nat /\ Oldest(S) \in Nat
  BY <1>1, <1>2, <1>6
<1>8. QED
  BY <1>4, <1>7

\* A company's configurations stay as many, or the default is added.
Reconfigured ==
    \A c \in Companies :
        \/ Len(companies'[c].configs) = Len(companies[c].configs)
        \/ companies'[c].configs = Append(companies[c].configs, DefaultConfig)

LEMMA SetConfigsReconfigures ==
  ASSUME IInv, NEW d, NEW configs, SetConfigs(d, configs),
         d \in Companies => \/ Len(configs) = Len(companies[d].configs)
                            \/ configs = Append(companies[d].configs, DefaultConfig)
  PROVE  Reconfigured
<1> SUFFICES ASSUME NEW c \in Companies
             PROVE  \/ Len(companies'[c].configs) = Len(companies[c].configs)
                    \/ companies'[c].configs = Append(companies[c].configs, DefaultConfig)
  BY DEF Reconfigured
<1>1. companies' = [companies EXCEPT ![d].configs = configs]
  BY DEF SetConfigs
<1>2. companies[c] \in CompanyRows
  BY CompaniesAre
<1>3. companies'[c] = IF c = d THEN [companies[c] EXCEPT !.configs = configs] ELSE companies[c]
  BY <1>1, CompaniesAre DEF Companies
<1>4. CASE c = d
  <2>1. companies'[c].configs = configs
    BY <1>2, <1>3, <1>4 DEF CompanyRows
  <2>2. QED
    BY <1>4, <2>1
<1>5. CASE c # d
  BY <1>3, <1>5
<1>6. QED
  BY <1>4, <1>5

LEMMA OthersReconfigure ==
  ASSUME IInv,
         \/ UNCHANGED companies
         \/ \E configs : companies' = Append(companies, NewCompany(configs))
         \/ \E d, on : SetCompany(d, on)
  PROVE  Reconfigured
<1>1. companies \in Seq(CompanyRows)
  BY CompaniesAre
<1>2. CASE UNCHANGED companies
  BY <1>2 DEF Reconfigured
<1>3. CASE \E x : companies' = Append(companies, x)
  BY <1>1, <1>3 DEF Reconfigured, Companies
<1>4. CASE \E d, on : SetCompany(d, on)
  <2>1. PICK d, on : companies' = [companies EXCEPT ![d].active = on]
    BY <1>4 DEF SetCompany
  <2>2. ASSUME NEW c \in Companies
        PROVE  companies'[c].configs = companies[c].configs
    <3>1. companies[c] \in CompanyRows
      BY CompaniesAre
    <3>2. companies'[c] = IF c = d THEN [companies[c] EXCEPT !.active = on] ELSE companies[c]
      BY <1>1, <2>1 DEF Companies
    <3>3. QED
      BY <3>1, <3>2 DEF CompanyRows
  <2>3. QED
    BY <2>2 DEF Reconfigured
<1>5. QED
  BY <1>2, <1>3, <1>4

LEMMA SetupReconfigures ==
  ASSUME IInv, NEW q \in Requests, SetupStep(q)
  PROVE  Reconfigured
<1> DEFINE l == loc[q]
           c == l.company
           old == companies[c].configs
<1>1. CASE SeedCreate(q)
  <2>1. SetConfigs(c, Append(old, DefaultConfig))
    BY <1>1 DEF SeedCreate
  <2>2. QED
    BY <2>1, SetConfigsReconfigures
<1>2. CASE UpdateConfig(q)
  <2> DEFINE y == [old[l.config] EXCEPT ![l.channel] = l.on]
             x == [old EXCEPT ![l.config] = y]
  <2>1. SetConfigs(c, x)
    BY <1>2 DEF UpdateConfig
  <2> HIDE DEF y
  <2>2. ASSUME c \in Companies  PROVE Len(x) = Len(old)
    BY <2>2, CompaniesAre, CurrentIsNat, SameLength
  <2>3. QED
    BY <2>1, <2>2, SetConfigsReconfigures
<1>3. CASE GetActive(q) \/ SeedRead(q) \/ ConfigLoad(q) \/ CountOthers(q)
  BY <1>3, OthersReconfigure, Zenon
     DEF GetActive, SeedRead, ConfigLoad, CountOthers, accountState
<1>4. QED
  BY <1>1, <1>2, <1>3 DEF SetupStep

LEMMA AccountsReconfigure ==
  ASSUME IInv, NEW q \in Requests, AccountsStep(q)
  PROVE  Reconfigured
<1>1. CASE InsertClientUser(q) \/ InsertStaffUser(q)
  BY <1>1, OthersReconfigure DEF InsertClientUser, InsertStaffUser, InsertUser
<1>2. CASE \/ CreateClientUser(q) \/ CreateStaffUser(q) \/ CreateAccount(q)
           \/ UndoAccount(q) \/ OAuthRead(q) \/ RemoveCompanyLoad(q) \/ SendCredentials(q)
           \/ Remove(q) \/ MarkSent(q)
  <2>1. UNCHANGED companies
    BY <1>2, Zenon
       DEF CreateClientUser, CreateStaffUser, NewUserOf, CreateAccount, UndoAccount,
                OAuthRead, RemoveCompanyLoad, SendCredentials, Remove, MarkSent, accountState
  <2>2. QED
    BY <2>1, OthersReconfigure
<1>3. CASE Picks(q)
  <2>1. UNCHANGED companies
    BY <1>3, Zenon
       DEF Picks, DeactivateLoad, ReactivateLoad, RemoveLoad, SendLoad, Pick,
           accountState
  <2>2. QED
    BY <2>1, OthersReconfigure
<1>4. CASE OAuthInsert(q) \/ CreateFullCompany(q)
  <2>1. \/ UNCHANGED companies
        \/ \E configs : companies' = Append(companies, NewCompany(configs))
    BY <1>4, Zenon DEF OAuthInsert, CreateFullCompany
  <2>2. QED
    BY <2>1, OthersReconfigure
<1>5. CASE Deactivate(q) \/ Reactivate(q) \/ ReactivateCompany(q) \/ RemoveCompany(q)
  <2>1. \E c, on : SetCompany(c, on)
    BY <1>5 DEF Deactivate, Reactivate, ReactivateCompany, RemoveCompany
  <2>2. QED
    BY <2>1, OthersReconfigure
<1>6. QED
  BY <1>1, <1>2, <1>3, <1>4, <1>5 DEF AccountsStep, Picks

LEMMA NextReconfigures ==
  ASSUME IInv, [Next]_vars
  PROVE  Reconfigured
<1>1. CASE \E e \in Emails : SignUp(e)
  BY <1>1, OthersReconfigure DEF SignUp
<1>2. CASE UNCHANGED vars
  BY <1>2, OthersReconfigure DEF vars, accountState
<1>3. ASSUME NEW q \in Requests, Request(q)
      PROVE  Reconfigured
  <2>1. CASE Deliver(q) \/ PermissionsStep(q) \/ ChannelsStep(q)
    <3>1. PermissionsStep(q) => UNCHANGED companies
      BY Zenon
         DEF PermissionsStep, GrantLoad, Grant, RoleLoad, ChangeRole, Patch,
             accountState
    <3>2. UNCHANGED companies
      BY <2>1, <3>1, ChannelsMoves DEF Deliver, accountState
    <3>3. QED
      BY <3>2, OthersReconfigure
  <2>2. QED
    BY <1>3, <2>1, AccountsReconfigure, SetupReconfigures DEF Request
<1>4. QED
  BY <1>1, <1>2, <1>3 DEF Next

\* What is added is younger than what a company had.
LEMMA AddedIsYounger ==
  ASSUME IInv, [Next]_vars, NEW c \in Companies,
         Len(companies'[c].configs) > Len(companies[c].configs)
  PROVE  /\ Current(c) # None => Current(c)' = Current(c)
         /\ Resolved(c) # None => Resolved(c)' = Resolved(c)
<1> DEFINE old == companies[c].configs
           n == Len(old)
           new == Append(old, DefaultConfig)
           A == ActiveConfigs(c)
           W == { i \in A : old[i].whatsapp }
<1>1. old \in Seq(Configs) /\ n \in Nat
  BY CompaniesAre, CurrentIsNat
<1>2. companies'[c].configs = new
  BY <1>1, NextReconfigures DEF Reconfigured
<1>3. /\ DOMAIN new = DOMAIN old \union {n + 1} /\ DOMAIN old = 1..n
      /\ n + 1 \notin DOMAIN old
      /\ \A i \in DOMAIN old : new[i] = old[i]
      /\ new[n + 1] = DefaultConfig
  <2>1. DefaultConfig \in Configs
    BY DEF DefaultConfig, Configs
  <2>2. DOMAIN old = 1..n
    BY <1>1
  <2>3. QED
    BY <1>1, <2>1, <2>2, Appended
<1>4. DefaultConfig.on /\ DefaultConfig.whatsapp
  BY DEF DefaultConfig
<1>5. A \in SUBSET (1..n) /\ W \in SUBSET (1..n)
  BY <1>3 DEF ActiveConfigs
<1>6. ActiveConfigs(c)' = { i \in DOMAIN new : new[i].on }
  BY <1>2 DEF ActiveConfigs
<1>7. ActiveConfigs(c)' = A \union {n + 1}
  BY <1>3, <1>4, <1>6 DEF ActiveConfigs
<1>8. { i \in ActiveConfigs(c)' : companies'[c].configs[i].whatsapp } = W \union {n + 1}
  <2>1. { i \in ActiveConfigs(c)' : new[i].whatsapp } = W \union {n + 1}
    BY <1>3, <1>4, <1>5, <1>7
  <2>2. QED
    BY <1>2, <2>1
<1>9. Current(c)' = Oldest(A \union {n + 1})
  BY <1>7 DEF Current, Oldest
<1>10. Resolved(c)' = Oldest(W \union {n + 1})
  <2>1. Resolved(c)' = Oldest({ i \in ActiveConfigs(c)' : companies'[c].configs[i].whatsapp })
    BY Zenon DEF Resolved, Oldest
  <2>2. QED
    BY <1>8, <2>1
<1>11. ASSUME Current(c) # None  PROVE Current(c)' = Current(c)
  <2>1. A # {}
    BY <1>11 DEF Current, Oldest
  <2> HIDE DEF A
  <2>2. Oldest(A \union {n + 1}) = Oldest(A)
    BY <1>1, <1>5, <2>1, OldestKept
  <2>3. QED
    BY <1>9, <2>2 DEF Current, A
<1>12. ASSUME Resolved(c) # None  PROVE Resolved(c)' = Resolved(c)
  <2>1. W # {}
    BY <1>12 DEF Resolved, Oldest
  <2>2. Resolved(c) = Oldest(W)
    BY DEF Resolved
  <2> HIDE DEF W
  <2>3. Oldest(W \union {n + 1}) = Oldest(W)
    BY <1>1, <1>5, <2>1, OldestKept
  <2>4. QED
    BY <1>10, <2>2, <2>3
<1>13. QED
  BY <1>11, <1>12

\* A configuration that is added never takes over from one that is in use
\* (seedForCompany, findActive, resolveForCompany).
THEOREM SpecSeedingKeepsConfig == Spec => SeedingKeepsConfig
<1>1. IInv /\ [Next]_vars =>
        [\A c \in Companies :
           /\ Len(companies'[c].configs) > Len(companies[c].configs)
           => /\ Current(c) # None => Current(c)' = Current(c)
              /\ Resolved(c) # None => Resolved(c)' = Resolved(c)]_vars
  BY AddedIsYounger
<1>2. QED
  BY <1>1, SpecIInv, PTL DEF Spec, SeedingKeepsConfig
-----------------------------------------------------------------------------
(* Requests come to an end.                                                *)

\* The steps that are left for a request at point p, at most, with the channel
\* that it wrote to and the attempts that it made.
StepsLeft(p, channel, attempt) ==
    CASE p = "idle" -> MaxAttempts + 8
      [] p = "deactivate" -> MaxAttempts + 7
      [] p = "notice" -> MaxAttempts + 6
      [] p = "settings" -> MaxAttempts + 5
      [] p = "record" /\ channel = "IN_APP" -> MaxAttempts + 4
      [] p = "whatsapp" -> MaxAttempts + 3
      [] (p = "record" /\ channel = "WHATSAPP") \/ p = "send" -> MaxAttempts + 2
      [] p = "email" -> MaxAttempts + 2 - attempt
      [] p \in {"createAccount", "sandbox"} -> 3
      [] p \in {"insertUser", "seed", "count", "credentials"} -> 2
      [] p = "done" -> 0
      [] OTHER -> 1

\* Point m comes after p, in whatever state of the delivery.
Before(p, m) ==
    \A c, d : \A i, j \in 1..MaxAttempts : StepsLeft(m, d, j) < StepsLeft(p, c, i)

LEMMA PointOrder ==
  /\ \A m \in Points \ {"idle"} : Before("idle", m)
  /\ \A p \in Points \ {"done"} : Before(p, "done")
  /\ Before("createAccount", "insertUser") /\ Before("insertUser", "undo")
  /\ Before("deactivate", "notice") /\ Before("notice", "settings")
  /\ Before("settings", "record") /\ Before("whatsapp", "email")
  /\ Before("send", "email") /\ Before("email", "sent")
  /\ Before("seed", "seedCreate") /\ Before("count", "config")
  /\ Before("sandbox", "credentials") /\ Before("credentials", "oldest")
BY DeliveryAssumption DEF Before, StepsLeft, Points

\* The points at which a request tells a company something.
Telling == {"settings", "record", "whatsapp"}

\* The points at which a request holds an account that it made.
Holding == {"insertUser", "undo"}

\* The account is a new one, or the one that the request held already.
HoldsOwn(q) ==
    loc'[q].pc \in Holding =>
      \/ \E e \in Emails : NewAccount(e, "admin") /\ loc'[q].acct = Len(accounts) + 1
      \/ loc[q].pc \in Holding /\ loc'[q].acct = loc[q].acct

\* Request q goes on to m.
Hops(q, m) ==
    /\ loc'[q].pc = m /\ loc'[q].attempt \in {1, loc[q].attempt}
    /\ m = "email" => loc'[q].next = "sent"
    /\ HoldsOwn(q)

LEMMA ToHops ==
  ASSUME IInv, NEW q \in Requests, NEW x, To(q, x), x.attempt = 1,
         x.pc \notin Holding \union {"email"}
  PROVE  Hops(q, x.pc)
<1>1. loc'[q] = x
  BY Basics, Zenon DEF To
<1>2. QED
  BY <1>1, Zenon DEF Hops, HoldsOwn

LEMMA DoneHops ==
  ASSUME IInv, NEW q \in Requests, Done(q)
  PROVE  Hops(q, "done")
<1> DEFINE x == [Idle EXCEPT !.pc = "done"]
<1>1. x.pc = "done" /\ x.attempt = 1
  BY Zenon DEF Idle
<1>2. To(q, x)
  BY Zenon DEF Done
<1> HIDE DEF x
<1>3. x.pc \notin Holding \union {"email"}
  BY <1>1, Zenon DEF Holding
<1>4. QED
  BY <1>1, <1>2, <1>3, ToHops

LEMMA GotoHops ==
  ASSUME IInv, NEW q \in Requests, NEW m \in Points \ {"email"}, Goto(q, m),
         m \in Holding => loc[q].pc \in Holding
  PROVE  Hops(q, m)
<1>1. loc[q] \in Locs /\ loc \in [Requests -> Locs]
  BY Basics
<1>2. loc'[q] = [loc[q] EXCEPT !.pc = m]
  BY <1>1, Zenon DEF Goto
<1>3. /\ loc'[q].pc = m /\ loc'[q].attempt = loc[q].attempt
      /\ loc'[q].acct = loc[q].acct
  BY <1>1, <1>2, Zenon DEF Locs
<1>4. QED
  BY <1>3, Zenon DEF Hops, HoldsOwn
\* A step that tells nobody anything: it begins and ends outside of a
\* notification, although it may lead to one.
Elsewhere(q) ==
    /\ loc[q].pc \notin Telling \union {"email", "done"}
    /\ UNCHANGED notices
    /\ \E m \in Points \ Telling : Hops(q, m) /\ Before(loc[q].pc, m)

\* The steps that begin a request.
LEMMA BeginsElsewhere ==
  ASSUME IInv, NEW q \in Requests, Starts(q), UNCHANGED notices, NEW x, To(q, x),
         x.attempt = 1, x.pc \in Points \ (Telling \union Holding \union {"idle", "email", "done"})
  PROVE  Elsewhere(q)
<1> DEFINE m == x.pc
<1>1. loc[q].pc = "idle" /\ Before("idle", m) /\ Hops(q, m)
  BY PointOrder, ToHops, Zenon DEF Starts, At
<1> HIDE DEF m
<1>2. "idle" \notin Telling \union {"email", "done"}
  BY Zenon DEF Telling
<1>3. m \in Points \ Telling
  BY Zenon DEF m
<1>4. QED
  BY <1>1, <1>2, <1>3, Zenon DEF Elsewhere

\* The steps that end one.
LEMMA EndsElsewhere ==
  ASSUME IInv, NEW q \in Requests, NEW p \in Points \ (Telling \union {"email", "done"}),
         At(q, p), UNCHANGED notices, Done(q)
  PROVE  Elsewhere(q)
<1>1. loc[q].pc = p /\ Before(p, "done") /\ Hops(q, "done")
  BY PointOrder, DoneHops, Zenon DEF At
<1>2. "done" \in Points \ Telling
  BY Zenon DEF Points, Telling
<1>3. QED
  BY <1>1, <1>2, Zenon DEF Elsewhere

\* And those that go on.
LEMMA PassesElsewhere ==
  ASSUME IInv, NEW q \in Requests, NEW p \in Points \ (Telling \union {"email", "done"}),
         At(q, p), UNCHANGED notices,
         NEW m \in Points \ (Telling \union Holding \union {"email"}), Goto(q, m), Before(p, m)
  PROVE  Elsewhere(q)
<1>1. loc[q].pc = p /\ Hops(q, m)
  <2>1. m \in Points \ {"email"} /\ (m \in Holding => loc[q].pc \in Holding)
    BY Zenon
  <2>2. QED
    BY <2>1, GotoHops, Zenon DEF At
<1>2. QED
  BY <1>1, Zenon DEF Elsewhere

LEMMA AccountsElsewhere ==
  ASSUME IInv, NEW q \in Requests, AccountsStep(q)
  PROVE  Elsewhere(q)
<1> DEFINE Silent == Points \ (Telling \union Holding \union {"email", "done"})
<1>0. /\ {"idle", "createAccount", "oauth", "deactivate", "reactivate", "remove",
          "removeCompany", "send", "sent", "notice"} \subseteq Silent
      /\ Holding \subseteq Points \ (Telling \union {"email", "done"})
      /\ "email" \in Points \ Telling
  BY DEF Points, Telling, Holding
<1>1. Starts(q) => At(q, "idle")
  BY DEF Starts
<1> HIDE DEF Silent
\* The ones that end, or go on with what they hold.
<1>2. ASSUME NEW p \in Silent, At(q, p), UNCHANGED notices, Done(q)
      PROVE  Elsewhere(q)
  BY <1>2, EndsElsewhere, Zenon DEF Silent
<1>3. ASSUME NEW p \in Silent, At(q, p), UNCHANGED notices, NEW m \in Silent,
             Goto(q, m), Before(p, m)
      PROVE  Elsewhere(q)
  BY <1>3, PassesElsewhere, Zenon DEF Silent
<1>4. ASSUME NEW x, Starts(q), UNCHANGED notices, To(q, x), x.attempt = 1,
             x.pc \in Silent \ {"idle"}
      PROVE  Elsewhere(q)
  BY <1>4, BeginsElsewhere, Zenon DEF Silent
<1>5. CASE CreateClientUser(q) \/ CreateStaffUser(q)
  <2>1. PICK r, ks, on : NewUserOf(q, r, ks, on)
    BY <1>5, Zenon DEF CreateClientUser, CreateStaffUser
  <2>2. PICK e, c : To(q, [Idle EXCEPT !.pc = "createAccount", !.email = e, !.company = c,
                                       !.role = r, !.keys = ks, !.on = on])
    BY <2>1, Zenon DEF NewUserOf
  <2> DEFINE x == [Idle EXCEPT !.pc = "createAccount", !.email = e, !.company = c,
                               !.role = r, !.keys = ks, !.on = on]
  <2>3. x.pc = "createAccount" /\ x.attempt = 1
    BY Zenon DEF Idle
  <2>4. Starts(q) /\ UNCHANGED notices /\ To(q, x)
    BY <2>1, <2>2, Zenon DEF NewUserOf
  <2> HIDE DEF x
  <2>5. QED
    BY <1>0, <1>4, <2>3, <2>4
<1>6. CASE CreateAccount(q)
  <2>1. At(q, "createAccount") /\ UNCHANGED notices
    BY <1>6, Zenon DEF CreateAccount
  <2>2. CASE Done(q)
    BY <1>0, <1>2, <2>1, <2>2
  <2>3. ASSUME NEW e \in Emails, NewAccount(e, "admin"),
               To(q, [loc[q] EXCEPT !.pc = "insertUser", !.acct = Len(accounts) + 1])
        PROVE  Elsewhere(q)
    <3>1. loc'[q] = [loc[q] EXCEPT !.pc = "insertUser", !.acct = Len(accounts) + 1]
      BY <2>3, Basics, Zenon DEF To
    <3>2. loc[q] \in Locs
      BY Basics
    <3>3. /\ loc'[q].pc = "insertUser" /\ loc'[q].attempt = loc[q].attempt
          /\ loc'[q].acct = Len(accounts) + 1
      BY <3>1, <3>2, Zenon DEF Locs
    <3>4. HoldsOwn(q)
      BY <2>3, <3>3, Zenon DEF HoldsOwn
    <3>5. Hops(q, "insertUser")
      BY <3>3, <3>4, Zenon DEF Hops
    <3>6. "insertUser" \in Points \ Telling /\ Before("createAccount", "insertUser")
      BY <1>0, PointOrder DEF Holding
    <3>7. "createAccount" \notin Telling \union {"email", "done"}
      BY Zenon DEF Telling
    <3>8. QED
      BY <2>1, <3>5, <3>6, <3>7, Zenon DEF Elsewhere, At
  <2>4. \/ Done(q)
        \/ /\ To(q, [loc[q] EXCEPT !.pc = "insertUser", !.acct = Len(accounts) + 1])
           /\ \E e \in Emails : NewAccount(e, "admin")
    BY <1>6, Basics, Zenon DEF CreateAccount, Local, At
  <2>5. QED
    BY <2>2, <2>3, <2>4, Zenon
\* With the account that it made.
<1>7. CASE InsertClientUser(q) \/ InsertStaffUser(q)
  <2>1. /\ At(q, "insertUser") /\ UNCHANGED notices
        /\ Done(q) \/ Goto(q, "undo")
    BY <1>7, Zenon DEF InsertClientUser, InsertStaffUser, InsertUser, RowFails
  <2>2. CASE Done(q)
    <3>1. "insertUser" \in Points \ (Telling \union {"email", "done"})
      BY <1>0 DEF Holding
    <3>2. QED
      BY <2>1, <2>2, <3>1, EndsElsewhere
  <2>3. CASE Goto(q, "undo")
    <3>1. /\ {"insertUser", "undo"} \subseteq Points \ (Telling \union {"email", "done"})
          /\ Before("insertUser", "undo")
      BY <1>0, PointOrder DEF Holding
    <3>2. loc[q].pc \in Holding /\ "undo" \in Points \ {"email"}
      BY <2>1, <3>1, Zenon DEF At, Holding
    <3>3. Hops(q, "undo")
      BY <2>3, <3>2, GotoHops
    <3>4. QED
      BY <2>1, <3>1, <3>3, Zenon DEF Elsewhere, At
  <2>4. QED
    BY <2>1, <2>2, <2>3
<1>8. CASE UndoAccount(q) \/ OAuthInsert(q)
  <2>1. CASE OAuthInsert(q)
    BY <1>0, <1>2, <2>1 DEF OAuthInsert
  <2>2. CASE UndoAccount(q)
    <3>1. "undo" \in Points \ (Telling \union {"email", "done"})
      BY <1>0 DEF Holding
    <3>2. QED
      BY <2>2, <3>1, EndsElsewhere, Zenon DEF UndoAccount
  <2>3. QED
    BY <1>8, <2>1, <2>2
<1>9. CASE OAuthRead(q)
  <2>1. PICK a : \/ Done(q)
                 \/ To(q, [Idle EXCEPT !.pc = "oauth", !.acct = a,
                                       !.email = accounts[a].email])
    BY <1>9, Zenon DEF OAuthRead
  <2> DEFINE x == [Idle EXCEPT !.pc = "oauth", !.acct = a, !.email = accounts[a].email]
  <2>2. x.pc = "oauth" /\ x.attempt = 1
    BY Zenon DEF Idle
  <2>3. Starts(q) /\ UNCHANGED notices /\ (Done(q) \/ To(q, x))
    BY <1>9, <2>1, Zenon DEF OAuthRead
  <2> HIDE DEF x
  <2>4. QED
    BY <1>0, <1>1, <1>2, <1>4, <2>2, <2>3
<1>10. CASE CreateFullCompany(q) \/ ReactivateCompany(q)
  BY <1>0, <1>1, <1>2, <1>10, Zenon DEF CreateFullCompany, ReactivateCompany
<1>11. CASE Picks(q)
  <2>1. PICK u \in Ids, pc \in {"deactivate", "reactivate", "remove", "send"} :
          To(q, [Idle EXCEPT !.pc = pc, !.acct = u, !.company = users[u].company])
    BY <1>11, Zenon DEF Picks, DeactivateLoad, ReactivateLoad, RemoveLoad, SendLoad, Pick
  <2>2. Starts(q) /\ UNCHANGED notices
    BY <1>11, Zenon DEF Picks, DeactivateLoad, ReactivateLoad, RemoveLoad, SendLoad, Pick
  <2> DEFINE x == [Idle EXCEPT !.pc = pc, !.acct = u, !.company = users[u].company]
  <2>3. x.pc = pc /\ x.attempt = 1
    BY Zenon DEF Idle
  <2>4. To(q, x)
    BY <2>1, Zenon
  <2> HIDE DEF x
  <2>5. QED
    BY <1>0, <1>4, <2>2, <2>3, <2>4
<1>12. CASE Deactivate(q)
  BY <1>0, <1>3, <1>12, PointOrder, Zenon DEF Deactivate
<1>13. CASE Reactivate(q) \/ Remove(q) \/ RemoveCompany(q) \/ MarkSent(q)
  BY <1>0, <1>2, <1>13, Zenon DEF Reactivate, Remove, RemoveCompany, MarkSent
<1>14. CASE RemoveCompanyLoad(q)
  <2>1. PICK c : To(q, [Idle EXCEPT !.pc = "removeCompany", !.company = c])
    BY <1>14, Zenon DEF RemoveCompanyLoad
  <2> DEFINE x == [Idle EXCEPT !.pc = "removeCompany", !.company = c]
  <2>2. x.pc = "removeCompany" /\ x.attempt = 1
    BY Zenon DEF Idle
  <2>3. Starts(q) /\ UNCHANGED notices /\ To(q, x)
    BY <1>14, <2>1, Zenon DEF RemoveCompanyLoad
  <2> HIDE DEF x
  <2>4. QED
    BY <1>0, <1>4, <2>2, <2>3
<1>15. CASE SendCredentials(q)
  <2>1. loc'[q] = [loc[q] EXCEPT !.pc = "email", !.to = {"EMAIL"}, !.next = "sent"]
    BY <1>15, Basics, Zenon DEF SendCredentials, To
  <2>2. loc[q] \in Locs
    BY Basics
  <2>3. /\ loc'[q].pc = "email" /\ loc'[q].attempt = loc[q].attempt
        /\ loc'[q].next = "sent"
    BY <2>1, <2>2, Zenon DEF Locs
  <2>4. At(q, "send") /\ UNCHANGED notices
    BY <1>15, Zenon DEF SendCredentials
  <2>5. Hops(q, "email")
    BY <2>3, Zenon DEF Hops, HoldsOwn, Holding
  <2>6. QED
    BY <1>0, <2>4, <2>5, PointOrder, Zenon DEF Elsewhere, At, Silent
<1>16. QED
  BY <1>5, <1>6, <1>7, <1>8, <1>9, <1>10, <1>11, <1>12, <1>13, <1>14, <1>15, Zenon
     DEF AccountsStep, Picks
LEMMA PermissionsElsewhere ==
  ASSUME IInv, NEW q \in Requests, PermissionsStep(q)
  PROVE  Elsewhere(q)
<1> DEFINE Silent == Points \ (Telling \union Holding \union {"email", "done"})
<1>0. {"grant", "role"} \subseteq Silent \ {"idle"}
  BY DEF Points, Telling, Holding
<1> HIDE DEF Silent
<1>1. CASE GrantLoad(q)
  <2>1. PICK u, ks : To(q, [Idle EXCEPT !.pc = "grant", !.acct = u, !.keys = ks])
    BY <1>1, Zenon DEF GrantLoad
  <2> DEFINE x == [Idle EXCEPT !.pc = "grant", !.acct = u, !.keys = ks]
  <2>2. x.pc = "grant" /\ x.attempt = 1
    BY Zenon DEF Idle
  <2>3. Starts(q) /\ UNCHANGED notices /\ To(q, x)
    BY <1>1, <2>1, Zenon DEF GrantLoad
  <2> HIDE DEF x
  <2>4. QED
    BY <1>0, <2>2, <2>3, BeginsElsewhere, Zenon DEF Silent
<1>2. CASE RoleLoad(q)
  <2>1. PICK u, r : To(q, [Idle EXCEPT !.pc = "role", !.acct = u, !.role = r])
    BY <1>2, Zenon DEF RoleLoad
  <2> DEFINE x == [Idle EXCEPT !.pc = "role", !.acct = u, !.role = r]
  <2>2. x.pc = "role" /\ x.attempt = 1
    BY Zenon DEF Idle
  <2>3. Starts(q) /\ UNCHANGED notices /\ To(q, x)
    BY <1>2, <2>1, Zenon DEF RoleLoad
  <2> HIDE DEF x
  <2>4. QED
    BY <1>0, <2>2, <2>3, BeginsElsewhere, Zenon DEF Silent
<1>3. CASE Grant(q)
  BY <1>0, <1>3, EndsElsewhere, Zenon DEF Grant, Silent
<1>4. CASE ChangeRole(q)
  BY <1>0, <1>4, EndsElsewhere, Zenon DEF ChangeRole, Silent
<1>5. QED
  BY <1>1, <1>2, <1>3, <1>4, Zenon DEF PermissionsStep

LEMMA SetupElsewhere ==
  ASSUME IInv, NEW q \in Requests, SetupStep(q)
  PROVE  Elsewhere(q)
<1> DEFINE Silent == Points \ (Telling \union Holding \union {"email", "done"})
<1>0. {"idle", "seed", "seedCreate", "count", "config"} \subseteq Silent
  BY DEF Points, Telling, Holding
<1> HIDE DEF Silent
<1>1. ASSUME NEW p \in Silent, At(q, p), UNCHANGED notices, Done(q)
      PROVE  Elsewhere(q)
  BY <1>1, EndsElsewhere, Zenon DEF Silent
<1>2. ASSUME NEW x, Starts(q), UNCHANGED notices, To(q, x), x.attempt = 1,
             x.pc \in Silent \ {"idle"}
      PROVE  Elsewhere(q)
  BY <1>2, BeginsElsewhere, Zenon DEF Silent
<1>3. ASSUME NEW p \in Silent, At(q, p), UNCHANGED notices, NEW m \in Silent,
             Goto(q, m), Before(p, m)
      PROVE  Elsewhere(q)
  BY <1>3, PassesElsewhere, Zenon DEF Silent
<1>4. CASE GetActive(q)
  <2>1. PICK c : Done(q) \/ To(q, [Idle EXCEPT !.pc = "seed", !.company = c])
    BY <1>4, Zenon DEF GetActive
  <2> DEFINE x == [Idle EXCEPT !.pc = "seed", !.company = c]
  <2>2. x.pc = "seed" /\ x.attempt = 1
    BY Zenon DEF Idle
  <2>3. Starts(q) /\ UNCHANGED notices /\ (Done(q) \/ To(q, x))
    BY <1>4, <2>1, Zenon DEF GetActive
  <2> HIDE DEF x
  <2>4. QED
    BY <1>0, <1>1, <1>2, <2>2, <2>3, Zenon DEF Starts
<1>5. CASE SeedRead(q)
  <2>1. /\ At(q, "seed") /\ UNCHANGED notices
        /\ Done(q) \/ Goto(q, "seedCreate")
    BY <1>5, Zenon DEF SeedRead
  <2>2. QED
    BY <1>0, <1>1, <1>3, <2>1, PointOrder, Zenon
<1>6. CASE SeedCreate(q)
  BY <1>0, <1>1, <1>6, Zenon DEF SeedCreate, SetConfigs
<1>7. CASE UpdateConfig(q)
  BY <1>0, <1>1, <1>7, Zenon DEF UpdateConfig, SetConfigs
<1>8. CASE ConfigLoad(q)
  <2>1. PICK c \in Companies, field \in {"on", "whatsapp"}, value \in BOOLEAN,
             pc \in {"count", "config"} :
          To(q, [Idle EXCEPT !.pc = pc, !.company = c, !.config = Current(c),
                             !.channel = field, !.on = value])
    BY <1>8, Zenon DEF ConfigLoad
  <2> DEFINE x == [Idle EXCEPT !.pc = pc, !.company = c, !.config = Current(c),
                               !.channel = field, !.on = value]
  <2>2. x.pc = pc /\ x.attempt = 1
    BY Zenon DEF Idle
  <2>3. Starts(q) /\ UNCHANGED notices
    BY <1>8, Zenon DEF ConfigLoad
  <2>4. To(q, x)
    BY <2>1, Zenon
  <2> HIDE DEF x
  <2>5. pc \in Silent \ {"idle"}
    BY <1>0, Zenon
  <2>6. QED
    BY <1>2, <2>2, <2>3, <2>4, <2>5, Zenon
<1>9. CASE CountOthers(q)
  <2>1. /\ At(q, "count") /\ UNCHANGED notices
        /\ Done(q) \/ Goto(q, "config")
    BY <1>9, Zenon DEF CountOthers
  <2>2. QED
    BY <1>0, <1>1, <1>3, <2>1, PointOrder, Zenon
<1>10. QED
  BY <1>4, <1>5, <1>6, <1>7, <1>8, <1>9, Zenon DEF SetupStep

LEMMA ChannelsElsewhere ==
  ASSUME IInv, NEW q \in Requests, ChannelsStep(q)
  PROVE  Elsewhere(q)
<1> DEFINE Silent == Points \ (Telling \union Holding \union {"email", "done"})
<1>0. {"idle", "seedChannel", "credentials", "sandbox", "oldest"} \subseteq Silent
  BY DEF Points, Telling, Holding
<1> HIDE DEF Silent
<1>1. ASSUME NEW p \in Silent, At(q, p), UNCHANGED notices, Done(q)
      PROVE  Elsewhere(q)
  BY <1>1, EndsElsewhere, Zenon DEF Silent
<1>2. ASSUME NEW p \in Silent, At(q, p), UNCHANGED notices, NEW m \in Silent,
             Goto(q, m), Before(p, m)
      PROVE  Elsewhere(q)
  BY <1>2, PassesElsewhere, Zenon DEF Silent
\* Whose messages are sent, or whose number is made.
<1>3. ASSUME NEW p \in {"idle", "sandbox"}, At(q, p), UNCHANGED notices, NEW c,
             NEW m \in {"seedChannel", "credentials"},
             To(q, [Idle EXCEPT !.pc = m, !.company = c]), Before(p, m)
      PROVE  Elsewhere(q)
  <2> DEFINE x == [Idle EXCEPT !.pc = m, !.company = c]
  <2>1. x.pc = m /\ x.attempt = 1
    BY Zenon DEF Idle
  <2>2. To(q, x)
    BY <1>3, Zenon
  <2> HIDE DEF x
  <2>3. /\ m \notin Holding \union {"email"} /\ m \in Points \ Telling
        /\ p \notin Telling \union {"email", "done"}
    BY DEF Points, Telling, Holding
  <2>4. Hops(q, m)
    BY <2>1, <2>2, <2>3, ToHops, Zenon
  <2>5. QED
    BY <1>3, <2>3, <2>4, Zenon DEF Elsewhere, At
<1>4. CASE CreateChannel(q) \/ UpdateChannel(q) \/ RemoveChannel(q)
  BY <1>0, <1>1, <1>4, Zenon
     DEF CreateChannel, UpdateChannel, RemoveChannel, SetChannels, Starts
<1>5. CASE SeedRetire(q)
  <2>1. PICK c : To(q, [Idle EXCEPT !.pc = "seedChannel", !.company = c])
    BY <1>5, Zenon DEF SeedRetire
  <2>2. At(q, "idle") /\ UNCHANGED notices
    BY <1>5, Zenon DEF SeedRetire, SetChannels, Starts
  <2>3. QED
    BY <1>3, <2>1, <2>2, PointOrder, Zenon DEF Points
<1>6. CASE SeedUpsert(q)
  BY <1>0, <1>1, <1>6, Zenon DEF SeedUpsert, SetChannels
<1>7. CASE ResolveCompany(q) \/ StartSending(q)
  <2>1. At(q, "idle") /\ UNCHANGED notices
    BY <1>7, Zenon DEF ResolveCompany, StartSending, Starts
  <2>2. \/ Done(q) \/ Goto(q, "sandbox")
        \/ \E c : To(q, [Idle EXCEPT !.pc = "credentials", !.company = c])
    BY <1>7, Zenon DEF ResolveCompany, StartSending
  <2>3. Before("idle", "sandbox") /\ Before("idle", "credentials")
    BY PointOrder DEF Points
  <2>4. CASE Done(q)
    BY <1>0, <1>1, <2>1, <2>4, Zenon
  <2>5. CASE Goto(q, "sandbox")
    BY <1>0, <1>2, <2>1, <2>3, <2>5, Zenon
  <2>6. ASSUME NEW c, To(q, [Idle EXCEPT !.pc = "credentials", !.company = c])
        PROVE  Elsewhere(q)
    BY <1>3, <2>1, <2>3, <2>6, Zenon
  <2>7. QED
    BY <2>2, <2>4, <2>5, <2>6, Zenon
<1>8. CASE SandboxFallback(q)
  <2>1. /\ At(q, "sandbox") /\ UNCHANGED notices
        /\ Done(q) \/ \E c : To(q, [Idle EXCEPT !.pc = "credentials", !.company = c])
    BY <1>8, Zenon DEF SandboxFallback
  <2>2. QED
    BY <1>0, <1>1, <1>3, <2>1, PointOrder, Zenon
<1>9. CASE PreferPlatform(q)
  <2>1. /\ At(q, "credentials") /\ UNCHANGED notices
        /\ Done(q) \/ Goto(q, "oldest")
    BY <1>9, Zenon DEF PreferPlatform
  <2>2. QED
    BY <1>0, <1>1, <1>2, <2>1, PointOrder, Zenon
<1>10. CASE OldestOrEnv(q)
  BY <1>0, <1>1, <1>10, Zenon DEF OldestOrEnv
<1>11. QED
  BY <1>4, <1>5, <1>6, <1>7, <1>8, <1>9, <1>10, Zenon DEF ChannelsStep
-----------------------------------------------------------------------------
(* What a request has told, and written down, at each of its points.       *)

Rowset == SUBSET ({"IN_APP", "WHATSAPP", "EMAIL"} \X BOOLEAN)
Notices == [made : BOOLEAN, read : BOOLEAN, external : BOOLEAN, cut : BOOLEAN,
            log : Rowset, lost : Rowset]

\* The rows of a notification, written or lost: when the dashboard's is made,
\* and when that of a message is that WhatsApp did not deliver.
Rows(n) == n.log \union n.lost
Listed == {<<"IN_APP", TRUE>>}
Refused == {<<"IN_APP", TRUE>>, <<"WHATSAPP", FALSE>>}

\* On its way to tell a company something.
OnWay(l) == l.pc \in Telling \/ (l.pc = "email" /\ l.next = "record")

Told(l, n) ==
    /\ l.attempt \in 1..MaxAttempts
    /\ ~n.made => Rows(n) = {} /\ ~n.cut
    /\ OnWay(l) => n.made /\ ~n.cut /\ (n.external <=> l.external)
    /\ l.pc = "settings" => Rows(n) = {}
    /\ l.pc = "record" =>
         /\ l.channel \in {"IN_APP", "WHATSAPP", "EMAIL"}
         /\ l.channel = "IN_APP" => l.ok = TRUE /\ Rows(n) = {}
         /\ l.channel = "WHATSAPP" => l.external /\ Rows(n) = Listed
         /\ l.channel = "EMAIL" => l.external /\ Rows(n) = Refused
    /\ l.pc = "whatsapp" => l.external /\ Rows(n) = Listed
    /\ l.pc = "email" /\ l.next = "record" => l.external /\ Rows(n) = Refused
    /\ l.pc = "done" => Audited(n)
    /\ ~OnWay(l) /\ l.pc # "done" => ~n.made

\* What Told says of a notification it says of one that only has been read.
Alike(v, n) ==
    /\ v.made = n.made /\ v.external = n.external /\ v.cut = n.cut
    /\ v.log = n.log /\ v.lost = n.lost

ToldInv ==
    /\ notices \in [Requests -> Notices]
    /\ \A q \in Requests : Told(loc[q], notices[q])

Left(l) == StepsLeft(l.pc, l.channel, l.attempt)

\* A step of request q, as far as its notification is concerned.
Tells(q) ==
    /\ notices' \in [Requests -> Notices]
    /\ Told(loc'[q], notices'[q])
    /\ Left(loc'[q]) < Left(loc[q])
    /\ HoldsOwn(q)
    /\ \A r \in Requests : r # q => Alike(notices'[r], notices[r])

LEMMA NoticeFields ==
  \A n \in Notices : /\ n.made \in BOOLEAN /\ n.external \in BOOLEAN /\ n.cut \in BOOLEAN
                     /\ n.log \in Rowset /\ n.lost \in Rowset
BY DEF Notices

LEMMA ToldAlike ==
  ASSUME NEW l, NEW n, NEW v, Told(l, n), Alike(v, n)
  PROVE  Told(l, v)
<1>1. Audited(n) => Audited(v)
  BY Zenon DEF Alike, Audited
<1>2. Rows(v) = Rows(n)
  BY Zenon DEF Alike, Rows
<1>3. QED
  BY <1>1, <1>2, Zenon DEF Told, Alike

\* The rows that make up an outcome.
LEMMA OutcomesAre ==
  ASSUME NEW external
  PROVE  /\ ~external => Outcome(Listed, external)
         /\ external => Outcome(Listed \union {<<"WHATSAPP", TRUE>>}, external)
         /\ \A ok \in BOOLEAN :
              external => Outcome(Refused \union {<<"EMAIL", ok>>}, external)
<1>1. ASSUME ~external  PROVE Outcome(Listed, external)
  BY <1>1 DEF Outcome, Listed
<1>2. ASSUME external  PROVE Outcome(Listed \union {<<"WHATSAPP", TRUE>>}, external)
  BY <1>2 DEF Outcome, Listed
<1>3. ASSUME external, NEW ok \in BOOLEAN
      PROVE  Outcome(Refused \union {<<"EMAIL", ok>>}, external)
  <2>1. Refused \union {<<"EMAIL", ok>>}
          = {<<"IN_APP", TRUE>>} \union {<<"WHATSAPP", FALSE>>, <<"EMAIL", ok>>}
    BY DEF Refused
  <2>2. QED
    BY <1>3, <2>1 DEF Outcome
<1>4. QED
  BY <1>1, <1>2, <1>3

\* Where a request may be after steps that tell nobody anything.
LEMMA ElsewhereTells ==
  ASSUME IInv, ToldInv, NEW q \in Requests, Elsewhere(q)
  PROVE  Tells(q)
<1>1. PICK m \in Points \ Telling : Hops(q, m) /\ Before(loc[q].pc, m)
  BY DEF Elsewhere
<1>2. /\ Told(loc[q], notices[q]) /\ UNCHANGED notices
      /\ loc[q].pc \notin Telling \union {"email", "done"}
  BY DEF ToldInv, Elsewhere
<1>3. /\ ~notices[q].made /\ Rows(notices[q]) = {} /\ ~notices[q].cut
      /\ loc[q].attempt \in 1..MaxAttempts
  BY <1>2, Zenon DEF Told, OnWay
<1>4. /\ loc'[q].pc = m /\ (m = "email" => loc'[q].next = "sent")
      /\ loc'[q].attempt \in 1..MaxAttempts
  <2>1. 1 \in 1..MaxAttempts
    BY DeliveryAssumption
  <2>2. QED
    BY <1>1, <1>3, <2>1, Zenon DEF Hops
<1>5. Told(loc'[q], notices'[q])
  <2>1. "sent" # "record" /\ m \notin {"record", "whatsapp"}
    BY Zenon DEF Telling
  <2>2. /\ ~notices'[q].made /\ Rows(notices'[q]) = {} /\ ~notices'[q].cut
        /\ Audited(notices'[q])
    BY <1>2, <1>3, Zenon DEF Audited, Rows
  <2>3. m \notin Telling /\ ~OnWay(loc'[q])
    BY <1>4, <2>1, Zenon DEF OnWay
  <2>4. m # "settings"
    BY Zenon DEF Telling
  <2>5. QED
    BY <1>4, <2>1, <2>2, <2>3, <2>4, Zenon DEF Told
<1>6. Left(loc'[q]) < Left(loc[q])
  BY <1>1, <1>3, <1>4, Zenon DEF Before, Left
<1>7. QED
  BY <1>1, <1>2, <1>5, <1>6, Zenon DEF Tells, ToldInv, Hops, Alike

\* A step of the delivery that writes no row.
LEMMA SilentlyTells ==
  ASSUME ToldInv, NEW q \in Requests, UNCHANGED notices,
         Told(loc'[q], notices[q]), Left(loc'[q]) < Left(loc[q]), HoldsOwn(q)
  PROVE  Tells(q)
BY Zenon DEF ToldInv, Tells, Alike

\* And one that writes to the request's own notification.
LEMMA OwnNotice ==
  ASSUME ToldInv, NEW q \in Requests, NEW n \in Notices,
         notices' = [notices EXCEPT ![q] = n],
         Told(loc'[q], n), Left(loc'[q]) < Left(loc[q]), HoldsOwn(q)
  PROVE  Tells(q)
<1>1. notices \in [Requests -> Notices]
  BY DEF ToldInv
<1>2. /\ notices' \in [Requests -> Notices] /\ notices'[q] = n
      /\ \A r \in Requests : r # q => notices'[r] = notices[r]
  BY <1>1
<1>3. QED
  BY <1>2, Zenon DEF Tells, Alike

\* The steps that are left on the way of a notification.
LEMMA WayOfNotice ==
  \A a, b \in 1..MaxAttempts :
    /\ \A c, d : /\ StepsLeft("notice", d, b) < StepsLeft("idle", c, a)
                 /\ StepsLeft("settings", d, b) < StepsLeft("notice", c, a)
                 /\ StepsLeft("record", "IN_APP", b) < StepsLeft("settings", c, a)
                 /\ StepsLeft("whatsapp", d, b) < StepsLeft("record", "IN_APP", a)
                 /\ StepsLeft("record", "WHATSAPP", b) < StepsLeft("whatsapp", c, a)
                 /\ StepsLeft("email", d, b) < StepsLeft("record", "WHATSAPP", a)
                 /\ StepsLeft("record", "EMAIL", b) < StepsLeft("email", c, a)
                 /\ StepsLeft("sent", d, b) < StepsLeft("email", c, a)
                 /\ StepsLeft("done", d, b) < StepsLeft("record", c, a)
                 /\ StepsLeft("done", d, b) < StepsLeft("notice", c, a)
                 /\ StepsLeft("done", d, b) < StepsLeft("settings", c, a)
                 /\ StepsLeft("done", d, b) < StepsLeft("idle", c, a)
    /\ \A c : a < b => StepsLeft("email", c, b) < StepsLeft("email", c, a)
BY DeliveryAssumption DEF StepsLeft

LEMMA DeliveryTells ==
  ASSUME IInv, ToldInv, NEW q \in Requests, DeliveryStep(q)
  PROVE  Tells(q)
<1> DEFINE l == loc[q]
           n == notices[q]
           k == loc'[q]
<1>0. ASSUME k.pc \in Telling \union {"notice", "email", "sent", "done"}
      PROVE  HoldsOwn(q)
  BY <1>0, Zenon DEF HoldsOwn, Holding, Telling
<1>1. /\ loc \in [Requests -> Locs] /\ l \in Locs
      /\ notices \in [Requests -> Notices] /\ n \in Notices
      /\ Told(l, n)
  BY Basics DEF ToldInv
<1>2. l.attempt \in 1..MaxAttempts /\ 1 \in 1..MaxAttempts
  BY <1>1, DeliveryAssumption DEF Told
<1>3. ASSUME Done(q)
      PROVE  k.pc = "done" /\ k.attempt = 1
  <2>1. k = [Idle EXCEPT !.pc = "done"]
    BY <1>1, <1>3, Zenon DEF Done, To
  <2>2. QED
    BY <2>1, Zenon DEF Idle
<1>4. ASSUME NEW p, Goto(q, p)
      PROVE  /\ k.pc = p /\ k.attempt = l.attempt /\ k.next = l.next
             /\ k.channel = l.channel /\ k.ok = l.ok /\ k.external = l.external
  <2>1. k = [l EXCEPT !.pc = p]
    BY <1>1, <1>4, Zenon DEF Goto
  <2>2. QED
    BY <1>1, <2>1, Zenon DEF Locs
<1>5. CASE StartNotice(q)
  <2>1. l.pc = "idle" /\ UNCHANGED notices
    BY <1>5, Zenon DEF StartNotice, Starts, At
  <2>5. PICK external \in BOOLEAN : To(q, [Idle EXCEPT !.pc = "notice", !.external = external])
    BY <1>5, Zenon DEF StartNotice
  <2>6. k = [Idle EXCEPT !.pc = "notice", !.external = external]
    BY <1>1, <2>5, Zenon DEF To
  <2>7. k.pc = "notice" /\ k.attempt = 1
    BY <2>6, Zenon DEF Idle
  <2>2. ~n.made /\ Rows(n) = {} /\ ~n.cut
    BY <1>1, <2>1, Zenon DEF Told, OnWay, Telling
  <2>3. Told(k, n)
    BY <1>2, <2>2, <2>7, Zenon DEF Told, OnWay, Telling
  <2>4. Left(k) < Left(l) /\ HoldsOwn(q)
    BY <1>0, <1>2, <2>1, <2>7, WayOfNotice, Zenon DEF Left, Telling
  <2>8. QED
    BY <2>1, <2>3, <2>4, SilentlyTells
<1>6. CASE CreateNotice(q)
  <2>1. l.pc = "notice"
    BY <1>6 DEF CreateNotice, At
  <2>2. ~n.made /\ Rows(n) = {} /\ ~n.cut
    BY <1>1, <2>1, Zenon DEF Told, OnWay, Telling
  <2>3. CASE Done(q) /\ UNCHANGED notices
    <3>1. k.pc = "done" /\ k.attempt = 1
      BY <1>3, <2>3
    <3>2. Told(k, n)
      BY <1>2, <2>2, <3>1, Zenon DEF Told, OnWay, Telling, Audited
    <3>3. Left(k) < Left(l) /\ HoldsOwn(q)
      BY <1>0, <1>2, <2>1, <3>1, WayOfNotice, Zenon DEF Left, Telling
    <3>4. QED
      BY <2>3, <3>2, <3>3, SilentlyTells
  <2>4. CASE /\ Goto(q, "settings")
             /\ notices' = [notices EXCEPT ![q].made = TRUE, ![q].external = l.external]
    <3>1. k.pc = "settings" /\ k.attempt = l.attempt /\ k.external = l.external
      BY <1>4, <2>4
    <3> DEFINE w == [n EXCEPT !.made = TRUE, !.external = l.external]
    <3>2. w \in Notices /\ notices' = [notices EXCEPT ![q] = w]
      BY <1>1, <2>4, LocFields DEF Notices
    <3>6. w.made /\ w.external = l.external /\ w.cut = n.cut /\ Rows(w) = Rows(n)
      BY <1>1 DEF Notices, Rows
    <3>3. Told(k, w)
      <4> HIDE DEF w
      <4>1. QED
        BY <1>2, <2>2, <3>1, <3>6, Zenon DEF Told, OnWay, Telling
    <3>4. Left(k) < Left(l) /\ HoldsOwn(q)
      BY <1>0, <1>2, <2>1, <3>1, WayOfNotice, Zenon DEF Left, Telling
    <3> HIDE DEF w
    <3>5. QED
      BY <3>2, <3>3, <3>4, OwnNotice
  <2>5. QED
    BY <1>6, <2>3, <2>4, Zenon DEF CreateNotice
<1>7. CASE ReadSettings(q)
  <2>1. l.pc = "settings"
    BY <1>7 DEF ReadSettings, At
  <2>2. n.made /\ ~n.cut /\ (n.external <=> l.external) /\ Rows(n) = {}
    BY <1>1, <2>1, Zenon DEF Told, OnWay, Telling
  <2>3. ASSUME NEW to,
               To(q, [l EXCEPT !.pc = "record", !.channel = "IN_APP", !.ok = TRUE,
                               !.to = to, !.next = "record"]),
               UNCHANGED notices
        PROVE  Tells(q)
    <3>1. k = [l EXCEPT !.pc = "record", !.channel = "IN_APP", !.ok = TRUE,
                        !.to = to, !.next = "record"]
      BY <1>1, <2>3, Zenon DEF To
    <3>2. /\ k.pc = "record" /\ k.channel = "IN_APP" /\ k.ok = TRUE /\ k.attempt = l.attempt
          /\ k.external = l.external
      BY <1>1, <3>1, Zenon DEF Locs
    <3>3. Told(k, n)
      BY <1>2, <2>2, <3>2, Zenon DEF Told, OnWay, Telling
    <3>4. Left(k) < Left(l) /\ HoldsOwn(q)
      BY <1>0, <1>2, <2>1, <3>2, WayOfNotice, Zenon DEF Left, Telling
    <3>5. QED
      BY <2>3, <3>3, <3>4, SilentlyTells
\* The settings cannot be read.
  <2>4. CASE Done(q) /\ notices' = [notices EXCEPT ![q].cut = TRUE]
    <3>1. k.pc = "done" /\ k.attempt = 1
      BY <1>3, <2>4
    <3> DEFINE w == [n EXCEPT !.cut = TRUE]
    <3>2. w \in Notices /\ notices' = [notices EXCEPT ![q] = w]
      BY <1>1, <2>4 DEF Notices
    <3>3. w.made /\ w.cut /\ Rows(w) = {}
      BY <1>1, <2>2 DEF Notices, Rows
    <3> HIDE DEF w
    <3>4. Audited(w)
      BY <3>3, Zenon DEF Audited, Rows
    <3>5. Told(k, w)
      BY <1>2, <3>1, <3>3, <3>4, Zenon DEF Told, OnWay, Telling
    <3>6. Left(k) < Left(l) /\ HoldsOwn(q)
      BY <1>0, <1>2, <2>1, <3>1, WayOfNotice, Zenon DEF Left, Telling
    <3>7. QED
      BY <3>2, <3>5, <3>6, OwnNotice
  <2>5. QED
    BY <1>7, <2>3, <2>4, Zenon DEF ReadSettings
<1>8. CASE Record(q)
  <2> DEFINE row == <<l.channel, l.ok>>
  <2>1. /\ l.pc = "record" /\ l.channel \in {"IN_APP", "WHATSAPP", "EMAIL"}
        /\ l.ok \in BOOLEAN /\ l.next = "record"
    BY <1>1, <1>8, Basics, LocFields, Zenon DEF Record, At, Told, Local
  <2>2. n.made /\ ~n.cut /\ (n.external <=> l.external)
    BY <1>1, <2>1, Zenon DEF Told, OnWay, Telling
  <2>3. n.log \union {row} \in Rowset /\ n.lost \union {row} \in Rowset
    BY <1>1, <2>1, NoticeFields DEF Rowset
  <2>4. PICK w \in Notices :
          /\ notices' = [notices EXCEPT ![q] = w]
          /\ w.made /\ ~w.cut /\ (w.external <=> l.external)
          /\ Rows(w) = Rows(n) \union {row}
    <3>1. CASE notices' = [notices EXCEPT ![q].lost = @ \union {row}]
      <4> DEFINE rows == n.lost \union {row}
                 v == [n EXCEPT !.lost = rows]
      <4>1. notices' = [notices EXCEPT ![q] = v]
        BY <1>1, <3>1, Zenon
      <4> HIDE DEF rows
      <4>2. v \in Notices /\ Rows(v) = n.log \union rows
            /\ v.made = n.made /\ v.cut = n.cut /\ v.external = n.external
        BY <1>1, <2>3, Zenon DEF Notices, Rows, rows
      <4> HIDE DEF v
      <4>3. Rows(v) = Rows(n) \union {row}
        BY <4>2 DEF Rows, rows
      <4>4. QED
        BY <2>2, <4>1, <4>2, <4>3, Zenon
    <3>2. CASE notices' = [notices EXCEPT ![q].log = @ \union {row}]
      <4> DEFINE rows == n.log \union {row}
                 v == [n EXCEPT !.log = rows]
      <4>1. notices' = [notices EXCEPT ![q] = v]
        BY <1>1, <3>2, Zenon
      <4> HIDE DEF rows
      <4>2. v \in Notices /\ Rows(v) = rows \union n.lost
            /\ v.made = n.made /\ v.cut = n.cut /\ v.external = n.external
        BY <1>1, <2>3, Zenon DEF Notices, Rows, rows
      <4> HIDE DEF v
      <4>3. Rows(v) = Rows(n) \union {row}
        BY <4>2 DEF Rows, rows
      <4>4. QED
        BY <2>2, <4>1, <4>2, <4>3, Zenon
    <3>3. QED
      BY <1>8, <3>1, <3>2, Zenon DEF Record
\* It goes on to WhatsApp.
  <2>5. CASE l.channel = "IN_APP" /\ l.external
    <3>1. Rows(w) = Listed
      <4>1. l.ok = TRUE /\ Rows(n) = {}
        BY <1>1, <2>1, <2>5, Zenon DEF Told
      <4>2. QED
        BY <2>4, <2>5, <4>1 DEF Listed
    <3>2. After(l) = "whatsapp"
      BY <2>5, Zenon DEF After
    <3>3. Goto(q, "whatsapp")
      BY <1>8, <3>2, Zenon DEF Record
    <3>4. k.pc = "whatsapp" /\ k.attempt = l.attempt /\ k.external = l.external
      BY <1>4, <3>3
    <3>5. Told(k, w)
      BY <1>2, <2>4, <2>5, <3>1, <3>4, Zenon DEF Told, OnWay, Telling
    <3>6. Left(k) < Left(l) /\ HoldsOwn(q)
      BY <1>0, <1>2, <2>1, <2>5, <3>4, WayOfNotice, Zenon DEF Left, Telling
    <3>7. QED
      BY <2>4, <3>5, <3>6, OwnNotice
\* WhatsApp did not deliver it.
  <2>6. CASE l.channel = "WHATSAPP" /\ ~l.ok
    <3>1. l.external /\ Rows(w) = Refused
      <4>1. l.external /\ Rows(n) = Listed
        BY <1>1, <2>1, <2>6, Zenon DEF Told
      <4>2. l.ok = FALSE
        BY <2>1, <2>6
      <4>3. QED
        BY <2>4, <2>6, <4>1, <4>2 DEF Listed, Refused
    <3>2. After(l) = "email"
      BY <2>6, Zenon DEF After
    <3>3. Goto(q, "email")
      BY <1>8, <3>2, Zenon DEF Record
    <3>4. k.pc = "email" /\ k.attempt = l.attempt /\ k.next = "record" /\ k.external = l.external
      BY <1>4, <2>1, <3>3
    <3>5. Told(k, w)
      BY <1>2, <2>4, <3>1, <3>4, Zenon DEF Told, OnWay, Telling
    <3>6. Left(k) < Left(l) /\ HoldsOwn(q)
      BY <1>0, <1>2, <2>1, <2>6, <3>4, WayOfNotice, Zenon DEF Left, Telling
    <3>7. QED
      BY <2>4, <3>5, <3>6, OwnNotice
\* The last row: only the dashboard, what WhatsApp delivered, or how the email
\* ended.
  <2>7. CASE \/ l.channel = "IN_APP" /\ ~l.external
             \/ l.channel = "WHATSAPP" /\ l.ok
             \/ l.channel = "EMAIL"
    <3>1. Outcome(Rows(w), w.external)
      <4>1. CASE l.channel = "IN_APP" /\ ~l.external
        <5>1. l.ok = TRUE /\ Rows(n) = {}
          BY <1>1, <2>1, <4>1, Zenon DEF Told
        <5>2. Rows(w) = Listed /\ ~w.external
          BY <2>4, <4>1, <5>1 DEF Listed
        <5>3. QED
          BY <5>2, OutcomesAre
      <4>2. CASE l.channel = "WHATSAPP" /\ l.ok
        <5>1. l.external /\ Rows(n) = Listed
          BY <1>1, <2>1, <4>2, Zenon DEF Told
        <5>2. l.ok = TRUE
          BY <2>1, <4>2
        <5>3. Rows(w) = Listed \union {<<"WHATSAPP", TRUE>>} /\ w.external
          BY <2>4, <4>2, <5>1, <5>2
        <5>4. QED
          BY <5>3, OutcomesAre
      <4>3. CASE l.channel = "EMAIL"
        <5>1. l.external /\ Rows(n) = Refused
          BY <1>1, <2>1, <4>3, Zenon DEF Told
        <5>2. Rows(w) = Refused \union {<<"EMAIL", l.ok>>} /\ w.external
          BY <2>4, <4>3, <5>1
        <5>3. QED
          BY <2>1, <5>2, OutcomesAre
      <4>4. QED
        BY <2>7, <4>1, <4>2, <4>3
    <3>2. After(l) = "done"
      BY <2>7, Zenon DEF After
    <3>3. k.pc = "done" /\ k.attempt = 1
      BY <1>3, <1>8, <3>2, Zenon DEF Record
    <3>4. Audited(w)
      BY <2>4, <3>1, Zenon DEF Audited, Rows
    <3>5. Told(k, w)
      BY <1>2, <2>4, <3>3, <3>4, Zenon DEF Told, OnWay, Telling
    <3>6. Left(k) < Left(l) /\ HoldsOwn(q)
      BY <1>0, <1>2, <2>1, <3>3, WayOfNotice, Zenon DEF Left, Telling
    <3>7. QED
      BY <2>4, <3>5, <3>6, OwnNotice
  <2>8. QED
    BY <2>1, <2>5, <2>6, <2>7, Zenon
<1>9. ASSUME NEW c, NEW ok \in BOOLEAN, Sent(q, c, ok)
      PROVE  /\ k.pc = l.next /\ k.next = l.next /\ k.channel = c /\ k.attempt = 1
             /\ (k.ok <=> ok) /\ k.external = l.external
  <2>1. k = [l EXCEPT !.pc = l.next, !.channel = c, !.ok = ok, !.attempt = 1]
    BY <1>1, <1>9, Zenon DEF Sent, To
  <2>2. QED
    BY <1>1, <2>1, Zenon DEF Locs
<1>10. CASE SendWhatsapp(q)
  <2>1. /\ l.pc = "whatsapp" /\ UNCHANGED notices
        /\ \E ok \in BOOLEAN : Sent(q, "WHATSAPP", ok)
    BY <1>10 DEF SendWhatsapp, At, Answers
  <2>2. /\ l.external /\ Rows(n) = Listed /\ l.next = "record"
        /\ n.made /\ ~n.cut /\ (n.external <=> l.external)
    BY <1>1, <2>1, Basics, Zenon DEF Told, Local, OnWay, Telling
  <2>3. k.pc = "record" /\ k.channel = "WHATSAPP" /\ k.attempt = 1 /\ k.external = l.external
    BY <1>9, <2>1, <2>2, Zenon
  <2>4. Told(k, n)
    BY <1>2, <2>2, <2>3, Zenon DEF Told, OnWay, Telling
  <2>5. Left(k) < Left(l) /\ HoldsOwn(q)
    BY <1>0, <1>2, <2>1, <2>3, WayOfNotice, Zenon DEF Left, Telling
  <2>6. QED
    BY <2>1, <2>4, <2>5, SilentlyTells
<1>11. CASE TryEmail(q)
  <2>1. /\ l.pc = "email" /\ UNCHANGED notices
        /\ \/ l.attempt < MaxAttempts /\ To(q, TryAgain(l))
           \/ \E ok \in BOOLEAN : Sent(q, "EMAIL", ok)
    BY <1>11 DEF TryEmail, At
  <2>2. CASE l.attempt < MaxAttempts /\ To(q, TryAgain(l))
    <3>1. k = TryAgain(l)
      BY <1>1, <2>2, Zenon DEF To
    <3>2. /\ k.pc = "email" /\ k.next = l.next /\ k.channel = l.channel
          /\ k.attempt = l.attempt + 1 /\ k.external = l.external
      BY <1>1, <2>1, <3>1, Zenon DEF TryAgain, Locs
    <3>3. k.attempt \in 1..MaxAttempts /\ l.attempt < k.attempt
      BY <1>2, <2>2, <3>2, DeliveryAssumption
    <3>4. Told(k, n)
      BY <1>1, <2>1, <3>2, <3>3, Zenon DEF Told, OnWay, Telling
    <3>5. Left(k) < Left(l) /\ HoldsOwn(q)
      BY <1>0, <1>2, <2>1, <3>2, <3>3, WayOfNotice, Zenon DEF Left, Telling
    <3>6. QED
      BY <2>1, <3>4, <3>5, SilentlyTells
  <2>3. ASSUME NEW ok \in BOOLEAN, Sent(q, "EMAIL", ok)
        PROVE  Tells(q)
    <3>1. k.pc = l.next /\ k.channel = "EMAIL" /\ k.attempt = 1 /\ k.external = l.external
      BY <1>9, <2>3, Zenon
    <3>2. l.next = "record" \/ l.next = "sent"
      BY <1>1, <2>1, Basics, LocFields, Zenon DEF Local
    <3>3. Told(k, n)
      BY <1>1, <1>2, <2>1, <3>1, <3>2, Zenon DEF Told, OnWay, Telling
    <3>4. Left(k) < Left(l) /\ HoldsOwn(q)
      BY <1>0, <1>2, <2>1, <3>1, <3>2, WayOfNotice, Zenon DEF Left, Telling
    <3>5. QED
      BY <2>1, <3>3, <3>4, SilentlyTells
  <2>4. QED
    BY <2>1, <2>2, <2>3
<1>12. CASE MarkRead(q) \/ MarkAllRead(q)
  <2>1. l.pc = "idle" /\ k.pc = "done" /\ k.attempt = 1
    BY <1>3, <1>12, Zenon DEF MarkRead, MarkAllRead, Starts, At
  <2>2. /\ notices' \in [Requests -> Notices]
        /\ \A r \in Requests : Alike(notices'[r], notices[r])
    <3>1. CASE MarkRead(q)
      <4>1. PICK r \in Requests : notices' = [notices EXCEPT ![r].read = TRUE]
        BY <3>1, Zenon DEF MarkRead
      <4> DEFINE w == [notices[r] EXCEPT !.read = TRUE]
      <4>2. notices' = [notices EXCEPT ![r] = w]
        BY <1>1, <4>1, Zenon
      <4>3. w \in Notices /\ Alike(w, notices[r])
        BY <1>1 DEF Notices, Alike
      <4>5. \A m : Alike(m, m)
        BY Zenon DEF Alike
      <4> HIDE DEF w
      <4>4. QED
        BY <1>1, <4>2, <4>3, <4>5
    <3>2. CASE MarkAllRead(q)
      <4>1. notices' = [r \in Requests |-> [notices[r] EXCEPT !.read = notices[r].made]]
        BY <3>2 DEF MarkAllRead
      <4>2. ASSUME NEW w \in Notices
            PROVE  LET v == [w EXCEPT !.read = w.made]
                   IN  v \in Notices /\ Alike(v, w)
        BY DEF Notices, Alike
      <4>3. \A r \in Requests : notices[r] \in Notices
        BY <1>1
      <4>4. QED
        BY <4>1, <4>2, <4>3
    <3>3. QED
      BY <1>12, <3>1, <3>2
  <2>3. ~n.made /\ Rows(n) = {} /\ ~n.cut
    BY <1>1, <2>1, Zenon DEF Told, OnWay, Telling
  <2>4. /\ ~notices'[q].made /\ Rows(notices'[q]) = {} /\ ~notices'[q].cut
        /\ Audited(notices'[q])
    BY <2>2, <2>3, Zenon DEF Audited, Alike, Rows
  <2>5. Told(k, notices'[q])
    BY <1>2, <2>1, <2>4, Zenon DEF Told, OnWay, Telling
  <2>6. Left(k) < Left(l) /\ HoldsOwn(q)
    BY <1>0, <1>2, <2>1, WayOfNotice, Zenon DEF Left, Telling
  <2>7. QED
    BY <2>2, <2>5, <2>6, Zenon DEF Tells
<1>13. QED
  BY <1>5, <1>6, <1>7, <1>8, <1>10, <1>11, <1>12, Zenon DEF DeliveryStep

LEMMA RequestTells ==
  ASSUME IInv, ToldInv, NEW q \in Requests, Request(q)
  PROVE  Tells(q)
BY DeliveryTells, ElsewhereTells, AccountsElsewhere, PermissionsElsewhere,
   SetupElsewhere, ChannelsElsewhere, Zenon DEF Request, Deliver

LEMMA InitToldInv == Init => ToldInv
<1> SUFFICES ASSUME Init
             PROVE  ToldInv
  OBVIOUS
<1>1. /\ loc = [q \in Requests |-> Idle]
      /\ notices = [q \in Requests |-> NoNotice]
  BY DEF Init, InitDelivery
<1>2. NoNotice \in Notices /\ ~NoNotice.made /\ ~NoNotice.cut /\ Rows(NoNotice) = {}
  BY DEF NoNotice, Notices, Rows, Rowset
<1>3. Idle.pc = "idle" /\ Idle.attempt = 1
  BY Zenon DEF Idle
<1>4. 1 \in 1..MaxAttempts
  BY DeliveryAssumption
<1>5. Told(Idle, NoNotice)
  BY <1>2, <1>3, <1>4, Zenon DEF Told, OnWay, Telling
<1>6. QED
  BY <1>1, <1>2, <1>5, Zenon DEF ToldInv

\* Only its own steps move a request on.
LEMMA OnlyOwn ==
  ASSUME IInv, NEW q \in Requests, Request(q)
  PROVE  \A r \in Requests : r # q => loc'[r] = loc[r]
<1>1. Moves(q)
  BY RequestSteps
<1>2. QED
  BY <1>1, OthersStay

LEMMA NextTells ==
  ASSUME IInv, ToldInv, [Next]_vars
  PROVE  ToldInv'
<1>1. ASSUME NEW q \in Requests, Request(q)
      PROVE  ToldInv'
  <2>1. Tells(q)
    BY <1>1, RequestTells
  <2>2. \A r \in Requests : r # q => loc'[r] = loc[r]
    BY <1>1, OnlyOwn
  <2>3. ASSUME NEW r \in Requests, r # q
        PROVE  Told(loc'[r], notices'[r])
    <3>1. loc'[r] = loc[r] /\ Told(loc[r], notices[r])
      BY <2>2, <2>3 DEF ToldInv
    <3>2. Alike(notices'[r], notices[r])
      BY <2>1, <2>3 DEF Tells
    <3>3. QED
      BY <3>1, <3>2, ToldAlike, Zenon
  <2>4. QED
    BY <2>1, <2>3, Zenon DEF ToldInv, Tells
<1>2. ASSUME NEW e \in Emails, SignUp(e)
      PROVE  ToldInv'
  BY <1>2, Zenon DEF SignUp, ToldInv
<1>3. CASE UNCHANGED vars
  BY <1>3, Zenon DEF vars, ToldInv
<1>4. QED
  BY <1>1, <1>2, <1>3, Zenon DEF Next

LEMMA SpecToldInv == Spec => []ToldInv
<1>1. Init => ToldInv
  BY InitToldInv
<1>2. IInv /\ ToldInv /\ [Next]_vars => ToldInv'
  BY NextTells
<1>3. QED
  BY <1>1, <1>2, SpecIInv, PTL DEF Spec

\* A request that has come back leaves a notification with the delivery rows
\* that show what became of it, but for those that could not be written: the
\* dashboard's, and unless it was for the dashboard only WhatsApp's, and the
\* email's unless WhatsApp delivered. It leaves none if the company's settings
\* could not be read (create, runExternalDelivery, recordDelivery).
THEOREM DoneIsAudited ==
  Spec => [](\A q \in Requests : loc[q].pc = "done" => Audited(notices[q]))
<1>1. ToldInv => \A q \in Requests : loc[q].pc = "done" => Audited(notices[q])
  BY Zenon DEF ToldInv, Told
<1>2. QED
  BY <1>1, SpecToldInv, PTL

LEMMA LeftIsNat ==
  \A c : \A m \in Points : \A a \in 1..MaxAttempts : StepsLeft(m, c, a) \in 0..(MaxAttempts + 8)
BY DeliveryAssumption DEF StepsLeft

\* A request takes at most eight steps and its attempts at an email, whatever
\* the others do and whichever calls fail: the loop of the retry policy is the
\* only one, and every round of it uses up an attempt.
THEOREM RequestsEnd ==
  /\ Spec => [](\A q \in Requests : StepsLeft(loc[q].pc, loc[q].channel, loc[q].attempt)
                                      \in 0..(MaxAttempts + 8))
  /\ Spec => [][\A q \in Requests :
                  Request(q) \/ loc'[q] # loc[q] =>
                    StepsLeft(loc'[q].pc, loc'[q].channel, loc'[q].attempt)
                      < StepsLeft(loc[q].pc, loc[q].channel, loc[q].attempt)]_vars
<1>1. IInv /\ ToldInv =>
        \A q \in Requests : StepsLeft(loc[q].pc, loc[q].channel, loc[q].attempt)
                              \in 0..(MaxAttempts + 8)
  <2> SUFFICES ASSUME IInv, ToldInv, NEW q \in Requests
               PROVE  StepsLeft(loc[q].pc, loc[q].channel, loc[q].attempt)
                        \in 0..(MaxAttempts + 8)
    OBVIOUS
  <2>1. loc[q].pc \in Points /\ loc[q].attempt \in 1..MaxAttempts
    BY Basics, LocFields, Zenon DEF ToldInv, Told
  <2>2. QED
    BY <2>1, LeftIsNat
<1>2. ASSUME IInv, ToldInv, [Next]_vars
      PROVE  [\A q \in Requests :
               Request(q) \/ loc'[q] # loc[q] =>
                 StepsLeft(loc'[q].pc, loc'[q].channel, loc'[q].attempt)
                   < StepsLeft(loc[q].pc, loc[q].channel, loc[q].attempt)]_vars
  <2>1. ASSUME NEW q \in Requests, Request(q)
        PROVE  Left(loc'[q]) < Left(loc[q])
    BY <1>2, <2>1, RequestTells DEF Tells
  <2>2. ASSUME NEW q \in Requests, loc'[q] # loc[q]
        PROVE  Request(q) \/ UNCHANGED vars
    <3>1. CASE \E e \in Emails : SignUp(e)
      BY <2>2, <3>1, Zenon DEF SignUp
    <3>2. ASSUME NEW r \in Requests, Request(r)
          PROVE  r = q
      BY <1>2, <2>2, <3>2, OnlyOwn
    <3>3. QED
      BY <1>2, <3>1, <3>2, Zenon DEF Next
  <2>3. QED
    BY <2>1, <2>2, Zenon DEF Left
<1>3. QED
  BY <1>1, <1>2, SpecIInv, SpecToldInv, PTL DEF Spec
-----------------------------------------------------------------------------
(* The accounts that requests take back.                                   *)

\* What a request holds is an account that it made and that nobody else holds.
HeldInv ==
    \A q \in Requests : loc[q].pc \in Holding =>
        /\ loc[q].acct \in DOMAIN accounts
        /\ accounts[loc[q].acct].made = "admin" /\ accounts[loc[q].acct].state = "live"
        /\ \A r \in Requests \ {q} : loc[r].pc \in Holding => loc[r].acct # loc[q].acct

LEMMA NewAccountIsHeld ==
  ASSUME IInv, NEW e \in Emails, NEW made \in {"admin", "person", "lost"}, NewAccount(e, made)
  PROVE  /\ DOMAIN accounts' = DOMAIN accounts \union {Len(accounts) + 1}
         /\ Len(accounts) + 1 \notin DOMAIN accounts
         /\ \A a \in DOMAIN accounts : accounts'[a] = accounts[a]
         /\ accounts'[Len(accounts) + 1].made = made
         /\ accounts'[Len(accounts) + 1].state = "live"
<1> DEFINE row == [email |-> e, made |-> made, state |-> "live"]
<1>1. accounts \in Seq(AccountRows) /\ Len(accounts) \in Nat /\ accounts' = Append(accounts, row)
  BY Basics DEF NewAccount
<1>2. row \in AccountRows /\ row.state = "live"
  BY DEF AccountRows
<1> HIDE DEF row
<1>3. accounts'[Len(accounts) + 1] = row /\ Len(accounts) + 1 \notin DOMAIN accounts
  BY <1>1, <1>2
<1>4. QED
  BY <1>2, <1>3, NewAccountRow

\* Who takes an account back is done.
LEMMA UndoIsLast ==
  ASSUME NEW q \in Requests, Tells(q), At(q, "undo")
  PROVE  loc'[q].pc \notin Holding
<1>1. Left(loc[q]) = 1
  BY DEF Left, At, StepsLeft
<1>2. loc'[q].pc \in Holding => Left(loc'[q]) \in {1, 2}
  BY DEF Left, Holding, StepsLeft
<1>3. Left(loc'[q]) < Left(loc[q])
  BY DEF Tells
<1>4. QED
  BY <1>1, <1>2, <1>3

\* What was held before a step and is held after it has not changed.
LEMMA HeldStays ==
  ASSUME IInv, ToldInv, HeldInv, NEW q \in Requests, Request(q),
         NEW r \in Requests, loc[r].pc \in Holding, loc'[r].pc \in Holding,
         loc'[r].acct = loc[r].acct
  PROVE  /\ loc'[r].acct \in DOMAIN accounts /\ loc'[r].acct \in DOMAIN accounts'
         /\ accounts'[loc'[r].acct] = accounts[loc[r].acct]
<1> DEFINE a == loc[r].acct
<1>1. Accounting(q) /\ Tells(q)
  BY RequestSteps, RequestTells
<1>2. a \in DOMAIN accounts
  BY DEF HeldInv
<1>3. CASE UNCHANGED accounts
  BY <1>2, <1>3
<1>4. CASE \E e \in Emails, made \in {"admin", "lost"} : NewAccount(e, made)
  BY <1>2, <1>4, NewAccountIsHeld
<1>5. ASSUME At(q, "undo"), loc[q].acct \in DOMAIN accounts, NEW s \in {"deleted", "left"},
             accounts' = [accounts EXCEPT ![loc[q].acct].state = s]
      PROVE  a \in DOMAIN accounts' /\ accounts'[a] = accounts[a]
  <2>1. loc[q].pc \in Holding /\ loc'[q].pc \notin Holding
    BY <1>1, <1>5, UndoIsLast DEF At, Holding
  <2>2. r # q
    BY <2>1
  <2>3. loc[q].acct # a
    BY <2>1, <2>2 DEF HeldInv
  <2>4. QED
    BY <1>2, <1>5, <2>3, EndedAccount
<1>6. QED
  BY <1>1, <1>2, <1>3, <1>4, <1>5 DEF Accounting

LEMMA RequestKeepsHeld ==
  ASSUME IInv, ToldInv, HeldInv, NEW q \in Requests, Request(q)
  PROVE  HeldInv'
<1> DEFINE Old(r) == loc[r].pc \in Holding /\ loc'[r].acct = loc[r].acct
           New(r) == /\ r = q /\ loc'[r].acct = Len(accounts) + 1
                     /\ \E e \in Emails : NewAccount(e, "admin")
<1>1. Tells(q) /\ \A r \in Requests : r # q => loc'[r] = loc[r]
  BY RequestTells, OnlyOwn
<1>2. \A r \in Requests : loc'[r].pc \in Holding => Old(r) \/ New(r)
  BY <1>1, Zenon DEF Tells, HoldsOwn
<1>3. ASSUME NEW r \in Requests, loc'[r].pc \in Holding, Old(r)
      PROVE  /\ loc'[r].acct \in DOMAIN accounts /\ loc'[r].acct \in DOMAIN accounts'
             /\ accounts'[loc'[r].acct] = accounts[loc[r].acct]
  BY <1>3, HeldStays
<1>4. ASSUME NEW r \in Requests, New(r)
      PROVE  /\ loc'[r].acct \notin DOMAIN accounts /\ loc'[r].acct \in DOMAIN accounts'
             /\ accounts'[loc'[r].acct].made = "admin"
             /\ accounts'[loc'[r].acct].state = "live"
  BY <1>4, NewAccountIsHeld
<1>5. ASSUME NEW r \in Requests, loc'[r].pc \in Holding
      PROVE  /\ loc'[r].acct \in DOMAIN accounts'
             /\ accounts'[loc'[r].acct].made = "admin"
             /\ accounts'[loc'[r].acct].state = "live"
  <2>1. CASE Old(r)
    BY <1>3, <1>5, <2>1 DEF HeldInv
  <2>2. CASE New(r)
    BY <1>4, <2>2
  <2>3. QED
    BY <1>2, <1>5, <2>1, <2>2
<1>6. ASSUME NEW r \in Requests, NEW u \in Requests \ {r},
             loc'[r].pc \in Holding, loc'[u].pc \in Holding
      PROVE  loc'[u].acct # loc'[r].acct
  <2>1. CASE Old(r) /\ Old(u)
    BY <1>6, <2>1 DEF HeldInv
  <2>2. CASE (New(r) /\ Old(u)) \/ (Old(r) /\ New(u))
    BY <1>3, <1>4, <1>6, <2>2
  <2>3. ~(New(r) /\ New(u))
    BY <1>6
  <2>4. (Old(r) \/ New(r)) /\ (Old(u) \/ New(u))
    BY <1>2, <1>6
  <2> HIDE DEF Old, New
  <2>5. QED
    BY <2>1, <2>2, <2>3, <2>4, Zenon
<1>7. QED
  BY <1>5, <1>6 DEF HeldInv

LEMMA NextKeepsHeld ==
  ASSUME IInv, ToldInv, HeldInv, [Next]_vars
  PROVE  HeldInv'
<1>1. ASSUME NEW e \in Emails, SignUp(e)
      PROVE  HeldInv'
  <2>1. UNCHANGED loc /\ NewAccount(e, "person")
    BY <1>1 DEF SignUp
  <2>2. \A a \in DOMAIN accounts : a \in DOMAIN accounts' /\ accounts'[a] = accounts[a]
    BY <2>1, NewAccountIsHeld
  <2>3. QED
    BY <2>1, <2>2 DEF HeldInv
<1>2. CASE UNCHANGED vars
  BY <1>2 DEF vars, accountState, HeldInv
<1>3. QED
  BY <1>1, <1>2, RequestKeepsHeld DEF Next

LEMMA SpecHeldInv == Spec => []HeldInv
<1>1. Init => HeldInv
  <2> SUFFICES ASSUME Init
               PROVE  HeldInv
    OBVIOUS
  <2>1. loc = [q \in Requests |-> Idle] /\ Idle.pc = "idle"
    BY Zenon DEF Init, InitDelivery, Idle
  <2>2. QED
    BY <2>1, Zenon DEF HeldInv, Holding
<1>2. IInv /\ ToldInv /\ HeldInv /\ [Next]_vars => HeldInv'
  BY NextKeepsHeld
<1>3. QED
  BY <1>1, <1>2, SpecIInv, SpecToldInv, PTL DEF Spec

\* The compensation of a failed creation reaches only the account that the same
\* request made, and only once: never one that a person made who signed up
\* meanwhile, one of another administrator's request, or one that is gone
\* already (createClientUser, createStaffUser, safeDeleteSupabaseUser).
THEOREM CompensationIsOwn ==
  /\ Spec => [](\A q, r \in Requests :
                  q # r /\ loc[q].pc \in Holding /\ loc[r].pc \in Holding
                  => loc[q].acct # loc[r].acct)
  /\ Spec => [][\A a \in DOMAIN accounts :
                  accounts'[a] # accounts[a] =>
                    /\ accounts[a].made = "admin" /\ accounts[a].state = "live"
                    /\ \E q \in Requests : At(q, "undo") /\ loc[q].acct = a]_vars
<1>1. HeldInv => \A q, r \in Requests :
                   q # r /\ loc[q].pc \in Holding /\ loc[r].pc \in Holding
                   => loc[q].acct # loc[r].acct
  BY DEF HeldInv
<1>2. ASSUME IInv, HeldInv, [Next]_vars
      PROVE  [\A a \in DOMAIN accounts :
                accounts'[a] # accounts[a] =>
                  /\ accounts[a].made = "admin" /\ accounts[a].state = "live"
                  /\ \E q \in Requests : At(q, "undo") /\ loc[q].acct = a]_vars
  <2> SUFFICES ASSUME Next, NEW a \in DOMAIN accounts, accounts'[a] # accounts[a]
               PROVE  /\ accounts[a].made = "admin" /\ accounts[a].state = "live"
                      /\ \E q \in Requests : At(q, "undo") /\ loc[q].acct = a
    BY <1>2
  <2>1. ASSUME NEW e \in Emails, NEW made \in {"admin", "person", "lost"}, NewAccount(e, made)
        PROVE  FALSE
    BY <1>2, <2>1, NewAccountIsHeld
  <2>2. \A e \in Emails : ~SignUp(e)
    BY <2>1 DEF SignUp
  <2>3. PICK q \in Requests : Request(q)
    BY <2>2 DEF Next
  <2>4. Accounting(q)
    BY <1>2, <2>3, RequestSteps
  <2>5. /\ At(q, "undo") /\ loc[q].acct \in DOMAIN accounts
        /\ \E s \in {"deleted", "left"} : accounts' = [accounts EXCEPT ![loc[q].acct].state = s]
    BY <2>1, <2>4 DEF Accounting
  <2>6. loc[q].acct = a
    BY <1>2, <2>5, EndedAccount
  <2>7. QED
    BY <1>2, <2>5, <2>6 DEF HeldInv, At, Holding
<1>3. QED
  BY <1>1, <1>2, SpecIInv, SpecHeldInv, PTL DEF Spec
==============================================================================
