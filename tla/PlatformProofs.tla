--------------------------- MODULE PlatformProofs ---------------------------
(***************************************************************************)
(* Proofs about parts of the platform that share no variable, for any      *)
(* number of accounts, sessions, links, portals, rows, servers, requests,  *)
(* routes and days:                                                        *)
(*                                                                         *)
(*   - Portals: a customer's user reaches that customer's rows only;       *)
(*   - Carriers: an account that is turned off is not used for long;       *)
(*   - SignIn: a link works once, and sessions end when they should;       *)
(*   - Rules: opening hours, and the order routes are placed in.           *)
(*                                                                         *)
(* The invariant behind each is stated at the head of its section.  The    *)
(* last section says that Platform behaves as each of them, so that what   *)
(* is proved of a part holds of the whole.                                 *)
(***************************************************************************)
EXTENDS Platform, SequenceTheorems, TLAPS

-----------------------------------------------------------------------------
(***************************************************************************)
(* Proof that a customer's user reaches that customer's rows only, for any *)
(* customers, domains, rows and requests.                                  *)
(*                                                                         *)
(* Behind it is that a request in its handler works for the portal of its  *)
(* user (the guard let no other pass, and neither is read again), and that *)
(* every operation of tenantDb stays with the rows of that portal.         *)
(***************************************************************************)

\* A request past the guard is its user's.
Own(v) == visit[v].at = "handler" => visit[v].user = visit[v].tenant

PortalsInv ==
  /\ DOMAIN visit = Visit /\ DOMAIN owner = Datum
  /\ \A v \in Visit : Own(v)
  /\ TenantsApart

\* A request that takes a step takes it alone.
LEMMA OthersKeepOwn ==
  ASSUME PortalsInv, NEW v \in Visit, NEW q,
         visit' = [visit EXCEPT ![v] = q],
         q.at = "handler" => q.user = q.tenant
  PROVE  DOMAIN visit' = Visit /\ \A u \in Visit : Own(u)'
BY DEF PortalsInv, Own

LEMMA NoneServedApart == ASSUME served' = NoneServed PROVE TenantsApart'
BY DEF NoneServed, TenantsApart

LEMMA PortalsInitInv == PortalsInit => PortalsInv
<1>. SUFFICES ASSUME PortalsInit PROVE PortalsInv
  OBVIOUS
<1>1. DOMAIN visit = Visit /\ DOMAIN owner = Datum /\ \A v \in Visit : Own(v)
  BY DEF PortalsInit, Own, Away
<1>2. TenantsApart
  BY DEF PortalsInit, NoneServed, TenantsApart
<1>. QED  BY <1>1, <1>2 DEF PortalsInv

LEMMA ComesToInv ==
  ASSUME PortalsInv, NEW v \in Visit, NEW t, NEW suspended, NEW user,
         ComesTo(v, t, suspended, user), served' = NoneServed, owner' = owner
  PROVE  PortalsInv'
<1>1. DOMAIN visit' = Visit /\ \A u \in Visit : Own(u)'
  BY OthersKeepOwn DEF ComesTo
<1>. QED  BY <1>1, NoneServedApart DEF PortalsInv

LEMMA ArriveInv ==
  ASSUME PortalsInv, NEW v \in Visit, NEW host, NEW user, Arrive(v, host, user)
  PROVE  PortalsInv'
BY ComesToInv DEF Arrive

\* The guard lets a user into the portal of that user only.
LEMMA EnterInv ==
  ASSUME PortalsInv, NEW v \in Visit, Enter(v)
  PROVE  PortalsInv'
<1>1. PICK role \in RolesOf(visit[v].user), route \in Route :
        /\ Allowed(visit[v], role, route)
        /\ visit' = [visit EXCEPT ![v] =
             [at |-> "handler", tenant |-> visit[v].tenant, user |-> visit[v].user,
              changes |-> route.changes]]
  BY DEF Enter, PortalsInv
<1>2. visit[v].user = visit[v].tenant
  BY <1>1 DEF Allowed
<1>3. DOMAIN visit' = Visit /\ \A u \in Visit : Own(u)'
  BY <1>1, <1>2, OthersKeepOwn
<1>4. served' = NoneServed /\ owner' = owner
  BY DEF Enter
<1>. QED  BY <1>3, <1>4, NoneServedApart DEF PortalsInv

LEMMA LeaveInv ==
  ASSUME PortalsInv, NEW v \in Visit, Leave(v)
  PROVE  PortalsInv'
<1>1. DOMAIN visit' = Visit /\ \A u \in Visit : Own(u)'
  BY OthersKeepOwn DEF Leave, Away
<1>. QED  BY <1>1, NoneServedApart DEF PortalsInv, Leave

-----------------------------------------------------------------------------
(* tenantDb *)

\* What is found through the filter is the tenant's.
LEMMA ScopedIsOwn ==
  ASSUME NEW t, NEW wanted PROVE {owner[d] : d \in Scoped(t, wanted)} \subseteq {t}
BY DEF Scoped

LEMMA CreatedIsOwn ==
  ASSUME NEW t, NEW new \in SUBSET Datum, NEW whose, Create(t, new, whose)
  PROVE  whose \subseteq {t}
<1>1. \A d \in new : owner'[d] = t
  BY DEF Create
<1>2. whose = {owner'[d] : d \in new}
  BY DEF Create
<1>. QED  BY <1>1, <1>2

LEMMA UpsertedIsOwn ==
  ASSUME NEW t, NEW d \in Datum, NEW whose, DOMAIN owner = Datum, Upsert(t, d, whose)
  PROVE  whose \subseteq {t}
BY DEF Upsert

\* Whatever a query asks for and does, it reads and writes rows of its portal.
LEMMA QueryInv ==
  ASSUME PortalsInv, NEW v \in Visit, Query(v)
  PROVE  PortalsInv'
<1>. DEFINE t == visit[v].tenant
<1>1. PICK whose \in SUBSET Portal :
        /\ \/ \E wanted \in SUBSET Datum :
                \/ Find(t, wanted, whose)
                \/ visit[v].changes /\ (Delete(t, wanted, whose) \/ Create(t, wanted, whose))
           \/ visit[v].changes /\ \E d \in Datum : Upsert(t, d, whose)
        /\ served' = [to |-> visit[v].user, whose |-> whose]
  BY DEF Query
<1>2. whose \subseteq {t} /\ DOMAIN owner' = Datum
  <2>1. CASE \E wanted \in SUBSET Datum : Find(t, wanted, whose)
    BY <2>1, ScopedIsOwn DEF Find, PortalsInv
  <2>2. CASE \E wanted \in SUBSET Datum : Delete(t, wanted, whose)
    BY <2>2, ScopedIsOwn DEF Delete
  <2>3. CASE \E wanted \in SUBSET Datum : Create(t, wanted, whose)
    <3>1. PICK new \in SUBSET Datum : Create(t, new, whose)
      BY <2>3
    <3>2. whose \subseteq {t}
      BY <3>1, CreatedIsOwn
    <3>. QED  BY <3>1, <3>2 DEF Create
  <2>4. CASE \E d \in Datum : Upsert(t, d, whose)
    <3>1. PICK d \in Datum : Upsert(t, d, whose)
      BY <2>4
    <3>2. whose \subseteq {t}
      BY <3>1, UpsertedIsOwn DEF PortalsInv
    <3>. QED  BY <3>1, <3>2 DEF Upsert, PortalsInv
  <2>. QED  BY <1>1, <2>1, <2>2, <2>3, <2>4
<1>3. visit[v].user = t
  BY DEF Query, PortalsInv, Own
<1>4. TenantsApart'
  BY <1>1, <1>2, <1>3 DEF TenantsApart
<1>5. visit' = visit
  BY DEF Query
<1>. QED  BY <1>2, <1>4, <1>5 DEF PortalsInv, Own

-----------------------------------------------------------------------------
(* The administrator touches neither rows nor customers' requests *)

LEMMA AdministersInv ==
  ASSUME PortalsInv, NEW e, NEW at, NEW next, Administers(e, at, next)
  PROVE  PortalsInv'
BY NoneServedApart DEF Administers, PortalsInv, Own

LEMMA ErrandInv ==
  ASSUME PortalsInv, NEW e \in Errand,
         \/ SetDomain(e) \/ VerifyDomain(e)
         \/ \E t \in Portal :
              \/ AskRecords(e, t) \/ RemoveDomain(e, t)
              \/ \E d \in Domain : AskDomain(e, t, d)
              \/ \E status \in {"ACTIVE", "SUSPENDED", "CLOSED"} : SetStatus(e, t, status)
  PROVE  PortalsInv'
BY AdministersInv
DEF SetDomain, VerifyDomain, AskRecords, RemoveDomain, AskDomain, SetStatus

-----------------------------------------------------------------------------
LEMMA PortalsStepInv == PortalsInv /\ [PortalsNext]_portalsVars => PortalsInv'
<1>. SUFFICES ASSUME PortalsInv, [PortalsNext]_portalsVars PROVE PortalsInv'
  OBVIOUS
<1>1. CASE \E v \in Visit, host \in Portal \cup Domain \cup {Main}, user \in Portal \cup {Main} :
             Arrive(v, host, user)
  BY <1>1, ArriveInv
<1>2. CASE \E v \in Visit : Enter(v)
  BY <1>2, EnterInv
<1>3. CASE \E v \in Visit : Query(v)
  BY <1>3, QueryInv
<1>4. CASE \E v \in Visit : Leave(v)
  BY <1>4, LeaveInv
<1>5. CASE \E e \in Errand :
             \/ SetDomain(e) \/ VerifyDomain(e)
             \/ \E t \in Portal :
                  \/ AskRecords(e, t) \/ RemoveDomain(e, t)
                  \/ \E d \in Domain : AskDomain(e, t, d)
                  \/ \E status \in {"ACTIVE", "SUSPENDED", "CLOSED"} : SetStatus(e, t, status)
  BY <1>5, ErrandInv
<1>6. CASE UNCHANGED portalsVars
  BY <1>6 DEF portalsVars, PortalsInv, Own, TenantsApart
<1>. QED  BY <1>1, <1>2, <1>3, <1>4, <1>5, <1>6 DEF PortalsNext

LEMMA PortalsAlways == PortalsSpec => []PortalsInv
<1>. QED  BY PortalsInitInv, PortalsStepInv, PTL DEF PortalsSpec

(* Whatever hosts requests come to, whatever their handlers ask of the      *)
(* database and whatever becomes of portals meanwhile, a customer's user    *)
(* reads and writes that customer's rows only (auth.guard.ts:33, tenantDb). *)
THEOREM TenantsStayApart == PortalsSpec => []TenantsApart
<1>1. PortalsInv => TenantsApart
  BY DEF PortalsInv
<1>. QED  BY <1>1, PortalsAlways, PTL

-----------------------------------------------------------------------------
(***************************************************************************)
(* Proof of TurnedOffIsUnused, for any number of servers and accounts, any *)
(* lifetime of lists and quotes and any duration of queries and searches.  *)
(*                                                                         *)
(* The invariant behind it: an account that a list shows as open has been  *)
(* shut for no longer than the list is old, plus the time its query may    *)
(* have taken; one that a search was given, for no longer than that list   *)
(* could be old and the search has taken; and so on to the quote.          *)
(***************************************************************************)

TableType == [status : [Account -> Status \cup {"gone"}], default : Account]
ListType(n) == {Nothing} \cup [age : 0 .. n, rows : TableType]
ChoiceType(n) == {Nothing} \cup [age : 0 .. n, of : Account]

CarriersTypeOK ==
  /\ table \in TableType
  /\ cache \in [Server -> ListType(CacheTtl - 1)]
  /\ reading \in [Server -> ListType(Slow)]
  /\ search \in ChoiceType(Slow)
  /\ quote \in ChoiceType(QuoteTtl - 1)
  /\ admin = NoRequest \/ admin \in [on : Server \cup {Elsewhere}, makes : SUBSET Account]
  /\ shut \in [Account -> [numbers : Nat, calls : Nat]]

\* An account that is open has not been shut for any time.
OpenIsZero ==
  \A c \in Account : /\ Sells(table, c) => shut[c].numbers = 0
                     /\ TakesCalls(table, c) => shut[c].calls = 0

\* What the list r shows as open was so when the list was read.
Recent(r, slack) ==
  \A c \in Account : /\ Sells(r.rows, c) => shut[c].numbers <= r.age + slack
                     /\ TakesCalls(r.rows, c) => shut[c].calls <= r.age + slack

ListsRecent ==
  \A s \in Server : /\ reading[s] # Nothing => Recent(reading[s], 0)
                    /\ cache[s] # Nothing => Recent(cache[s], Slow)

ChoicesRecent ==
  /\ search # Nothing => shut[search.of].numbers <= search.age + CacheTtl - 1 + Slow
  /\ quote # Nothing => shut[quote.of].numbers <= quote.age + CacheTtl - 1 + 2 * Slow

CarriersInv == CarriersTypeOK /\ OpenIsZero /\ ListsRecent /\ ChoicesRecent

-----------------------------------------------------------------------------
\* The constants are natural numbers.
LEMMA Constants ==
  /\ NAccounts \in Nat \ {0} /\ CacheTtl \in Nat \ {0} /\ QuoteTtl \in Nat \ {0} /\ Slow \in Nat
  /\ Long \in Nat
<1>1. NAccounts \in Nat \ {0} /\ CacheTtl \in Nat \ {0} /\ QuoteTtl \in Nat \ {0} /\ Slow \in Nat
  BY CarriersAssumption
<1>. QED  BY <1>1 DEF Long

\* Watch lets at most n more units pass, and none for an account that is open.
LEMMA WatchBounds ==
  ASSUME NEW t, NEW n \in 0 .. 1, Watch(t, n), shut \in [Account -> [numbers : Nat, calls : Nat]]
  PROVE  /\ shut' \in [Account -> [numbers : Nat, calls : Nat]]
         /\ \A c \in Account : /\ shut'[c].numbers <= shut[c].numbers + n
                               /\ shut'[c].calls <= shut[c].calls + n
                               /\ Sells(t, c) => shut'[c].numbers = 0
                               /\ TakesCalls(t, c) => shut'[c].calls = 0
<1>1. ASSUME NEW was \in Nat, NEW open
      PROVE  /\ Counted(was, open, n) \in Nat
             /\ Counted(was, open, n) <= was + n
             /\ open => Counted(was, open, n) = 0
  <2>1. n \in Nat
    OBVIOUS
  <2>2. CASE open
    <3>1. Counted(was, open, n) = 0
      BY <2>2 DEF Counted
    <3>. QED  BY <2>1, <3>1
  <2>3. CASE ~open
    <3>1. Counted(was, open, n) = IF was + n < Long THEN was + n ELSE Long
      BY <2>3 DEF Counted
    <3>. QED  BY <2>1, <2>3, <3>1, Constants
  <2>. QED  BY <2>2, <2>3
<1>. DEFINE numbers == [c \in Account |-> Counted(shut[c].numbers, Sells(t, c), n)]
             calls == [c \in Account |-> Counted(shut[c].calls, TakesCalls(t, c), n)]
<1>2. \A c \in Account : shut[c].numbers \in Nat /\ shut[c].calls \in Nat
  OBVIOUS
<1>3. ASSUME NEW c \in Account
      PROVE  /\ numbers[c] \in Nat
             /\ numbers[c] <= shut[c].numbers + n
             /\ Sells(t, c) => numbers[c] = 0
  <2>1. numbers[c] = Counted(shut[c].numbers, Sells(t, c), n)
    BY Zenon
  <2>. QED  BY <1>1, <1>2, <2>1, Zenon
<1>4. ASSUME NEW c \in Account
      PROVE  /\ calls[c] \in Nat
             /\ calls[c] <= shut[c].calls + n
             /\ TakesCalls(t, c) => calls[c] = 0
  <2>1. calls[c] = Counted(shut[c].calls, TakesCalls(t, c), n)
    BY Zenon
  <2>. QED  BY <1>1, <1>2, <2>1, Zenon
<1>5. shut' = [c \in Account |-> [numbers |-> numbers[c], calls |-> calls[c]]]
  BY DEF Watch
<1>. HIDE DEF numbers, calls
<1>6. \A c \in Account : shut'[c].numbers = numbers[c] /\ shut'[c].calls = calls[c]
  BY <1>5
<1>7. shut' \in [Account -> [numbers : Nat, calls : Nat]]
  BY <1>3, <1>4, <1>5
<1>. QED  BY <1>3, <1>4, <1>6, <1>7

\* The account forNewNumber chooses was open when the list was read, or is.
LEMMA ChosenIsRecent ==
  ASSUME CarriersInv, NEW s \in Server, Cached(s), NEW pinned \in SUBSET Account,
         NEW c \in ForNewNumber(s, pinned)
  PROVE  c \in Account /\ shut[c].numbers <= CacheTtl - 1 + Slow
<1>1. c \in Account /\ (Sells(cache[s].rows, c) \/ Sells(table, c))
  BY DEF ForNewNumber, ById
<1>2. cache[s] \in [age : 0 .. CacheTtl - 1, rows : TableType]
  BY DEF CarriersInv, CarriersTypeOK, ListType, Cached
<1>3. shut[c].numbers \in Nat
  BY <1>1 DEF CarriersInv, CarriersTypeOK
<1>4. CASE Sells(cache[s].rows, c)
  <2>1. shut[c].numbers <= cache[s].age + Slow
    BY <1>1, <1>4 DEF CarriersInv, ListsRecent, Recent, Cached
  <2>2. cache[s].age \in 0 .. CacheTtl - 1
    BY <1>2
  <2>. QED  BY <1>1, <1>3, <2>1, <2>2, Constants
<1>5. CASE Sells(table, c)
  <2>1. shut[c].numbers = 0
    BY <1>1, <1>5 DEF CarriersInv, OpenIsZero
  <2>. QED  BY <1>1, <2>1, Constants
<1>. QED  BY <1>1, <1>4, <1>5

-----------------------------------------------------------------------------
LEMMA CarriersInitInv == CarriersInit => CarriersInv
<1>. SUFFICES ASSUME CarriersInit PROVE CarriersInv
  OBVIOUS
<1>1. 1 \in Account
  BY Constants DEF Account
<1>2. CarriersTypeOK
  <2>1. table \in TableType
    BY <1>1 DEF CarriersInit, TableType, Status
  <2>2. shut \in [Account -> [numbers : Nat, calls : Nat]]
    BY Constants DEF CarriersInit
  <2>. QED  BY <2>1, <2>2 DEF CarriersInit, CarriersTypeOK, ListType, ChoiceType
<1>3. OpenIsZero
  BY DEF CarriersInit, OpenIsZero, Sells, TakesCalls
<1>4. ListsRecent /\ ChoicesRecent
  BY DEF CarriersInit, ListsRecent, ChoicesRecent
<1>. QED  BY <1>2, <1>3, <1>4 DEF CarriersInv

\* Steps that leave the table alone and let no time pass: what is true of a list stays so.
LEMMA SameTable ==
  ASSUME CarriersInv, UNCHANGED <<table, shut>>, CarriersTypeOK',
         \A s \in Server : reading'[s] # Nothing /\ reading'[s] # reading[s]
                             => reading'[s].rows = table /\ reading'[s].age = 0,
         \A s \in Server : cache'[s] # Nothing /\ cache'[s] # cache[s]
                             => /\ reading[s] # Nothing /\ cache'[s].age = 0
                                /\ cache'[s].rows = reading[s].rows,
         search' # Nothing /\ search' # search
           => \E s \in Server, pinned \in SUBSET Account :
                Cached(s) /\ search'.of \in ForNewNumber(s, pinned) /\ search'.age = 0,
         quote' # Nothing /\ quote' # quote
           => search # Nothing /\ quote'.age = 0 /\ quote'.of = search.of
  PROVE  CarriersInv'
<1>1. OpenIsZero'
  BY DEF CarriersInv, OpenIsZero, Sells, TakesCalls
<1>2. ASSUME NEW s \in Server, reading'[s] # Nothing PROVE Recent(reading[s], 0)'
  <2>1. CASE reading'[s] = reading[s]
    BY <1>2, <2>1 DEF CarriersInv, ListsRecent, Recent, Sells, TakesCalls
  <2>2. CASE reading'[s] # reading[s]
    <3>1. reading'[s].rows = table /\ reading'[s].age = 0
      BY <1>2, <2>2
    <3>. QED  BY <3>1 DEF CarriersInv, OpenIsZero, Recent, Sells, TakesCalls
  <2>. QED  BY <2>1, <2>2
<1>3. ASSUME NEW s \in Server, cache'[s] # Nothing PROVE Recent(cache[s], Slow)'
  <2>1. CASE cache'[s] = cache[s]
    BY <1>3, <2>1 DEF CarriersInv, ListsRecent, Recent, Sells, TakesCalls
  <2>2. CASE cache'[s] # cache[s]
    <3>1. reading[s] # Nothing /\ cache'[s].age = 0 /\ cache'[s].rows = reading[s].rows
      BY <1>3, <2>2
    <3>2. reading[s].age \in 0 .. Slow
      BY <3>1 DEF CarriersInv, CarriersTypeOK, ListType
    <3>3. Recent(reading[s], 0)
      BY <3>1 DEF CarriersInv, ListsRecent
    <3>4. \A c \in Account : shut[c].numbers \in Nat /\ shut[c].calls \in Nat
      BY DEF CarriersInv, CarriersTypeOK
    <3>5. ASSUME NEW c \in Account
          PROVE  /\ Sells(reading[s].rows, c) => shut[c].numbers <= 0 + Slow
                 /\ TakesCalls(reading[s].rows, c) => shut[c].calls <= 0 + Slow
      <4>1. /\ Sells(reading[s].rows, c) => shut[c].numbers <= reading[s].age + 0
            /\ TakesCalls(reading[s].rows, c) => shut[c].calls <= reading[s].age + 0
        BY <3>3 DEF Recent
      <4>. QED  BY <4>1, <3>2, <3>4, Constants
    <3>. QED  BY <3>1, <3>5 DEF Recent, Sells, TakesCalls
  <2>. QED  BY <2>1, <2>2
<1>4. ListsRecent'
  BY <1>2, <1>3 DEF ListsRecent
<1>5. ASSUME search' # Nothing
      PROVE  shut'[search'.of].numbers <= search'.age + CacheTtl - 1 + Slow
  <2>1. CASE search' = search
    BY <1>5, <2>1 DEF CarriersInv, ChoicesRecent
  <2>2. CASE search' # search
    <3>1. PICK s \in Server, pinned \in SUBSET Account :
            Cached(s) /\ search'.of \in ForNewNumber(s, pinned) /\ search'.age = 0
      BY <1>5, <2>2
    <3>2. shut[search'.of].numbers <= CacheTtl - 1 + Slow
      BY <3>1, ChosenIsRecent
    <3>. QED  BY <3>1, <3>2, Constants
  <2>. QED  BY <2>1, <2>2
<1>6. ASSUME quote' # Nothing
      PROVE  shut'[quote'.of].numbers <= quote'.age + CacheTtl - 1 + 2 * Slow
  <2>1. CASE quote' = quote
    BY <1>6, <2>1 DEF CarriersInv, ChoicesRecent
  <2>2. CASE quote' # quote
    <3>1. search # Nothing /\ quote'.age = 0 /\ quote'.of = search.of
      BY <1>6, <2>2
    <3>2. search.age \in 0 .. Slow /\ search.of \in Account
      BY <3>1 DEF CarriersInv, CarriersTypeOK, ChoiceType
    <3>3. shut[search.of].numbers <= search.age + CacheTtl - 1 + Slow
      BY <3>1 DEF CarriersInv, ChoicesRecent
    <3>4. shut[search.of].numbers \in Nat
      BY <3>2 DEF CarriersInv, CarriersTypeOK
    <3>5. shut[search.of].numbers <= 0 + CacheTtl - 1 + 2 * Slow
      BY <3>2, <3>3, <3>4, Constants
    <3>. QED  BY <3>1, <3>5
  <2>. QED  BY <2>1, <2>2
<1>. QED  BY <1>1, <1>4, <1>5, <1>6 DEF CarriersInv, ChoicesRecent

\* Steps that change the table and let no time pass: what is open is so now.
LEMMA OtherTable ==
  ASSUME CarriersInv, UNCHANGED <<reading, search, quote>>, CarriersTypeOK', OpenIsZero',
         \A s \in Server : cache'[s] \in {cache[s], Nothing},
         \A c \in Account : shut'[c].numbers <= shut[c].numbers /\ shut'[c].calls <= shut[c].calls
  PROVE  CarriersInv'
<1>1. \A c \in Account : /\ shut[c].numbers \in Nat /\ shut[c].calls \in Nat
                         /\ shut'[c].numbers \in Nat /\ shut'[c].calls \in Nat
  BY DEF CarriersInv, CarriersTypeOK
<1>2. ASSUME NEW r, NEW slack \in Nat, r.age \in Nat, Recent(r, slack)
      PROVE  \A c \in Account : /\ Sells(r.rows, c) => shut'[c].numbers <= r.age + slack
                                /\ TakesCalls(r.rows, c) => shut'[c].calls <= r.age + slack
  <2>. SUFFICES ASSUME NEW c \in Account
                PROVE  /\ Sells(r.rows, c) => shut'[c].numbers <= r.age + slack
                       /\ TakesCalls(r.rows, c) => shut'[c].calls <= r.age + slack
    OBVIOUS
  <2>1. /\ Sells(r.rows, c) => shut[c].numbers <= r.age + slack
        /\ TakesCalls(r.rows, c) => shut[c].calls <= r.age + slack
    BY <1>2 DEF Recent
  <2>. QED  BY <2>1, <1>1, <1>2
<1>3. ASSUME NEW s \in Server, reading'[s] # Nothing PROVE Recent(reading[s], 0)'
  <2>1. reading[s].age \in Nat /\ Recent(reading[s], 0)
    BY <1>3 DEF CarriersInv, CarriersTypeOK, ListType, ListsRecent
  <2>. QED  BY <1>2, <2>1 DEF Recent, Sells, TakesCalls
<1>4. ASSUME NEW s \in Server, cache'[s] # Nothing PROVE Recent(cache[s], Slow)'
  <2>1. cache'[s] = cache[s]
    BY <1>4
  <2>2. cache[s].age \in Nat /\ Recent(cache[s], Slow)
    BY <1>4, <2>1 DEF CarriersInv, CarriersTypeOK, ListType, ListsRecent
  <2>. QED  BY <1>2, <2>1, <2>2, Constants DEF Recent, Sells, TakesCalls
<1>5. ASSUME search' # Nothing
      PROVE  shut'[search'.of].numbers <= search'.age + CacheTtl - 1 + Slow
  <2>1. search.of \in Account /\ search.age \in Nat
    BY <1>5 DEF CarriersInv, CarriersTypeOK, ChoiceType
  <2>2. shut[search.of].numbers <= search.age + CacheTtl - 1 + Slow
    BY <1>5 DEF CarriersInv, ChoicesRecent
  <2>. QED  BY <1>1, <2>1, <2>2, Constants
<1>6. ASSUME quote' # Nothing
      PROVE  shut'[quote'.of].numbers <= quote'.age + CacheTtl - 1 + 2 * Slow
  <2>1. quote.of \in Account /\ quote.age \in Nat
    BY <1>6 DEF CarriersInv, CarriersTypeOK, ChoiceType
  <2>2. shut[quote.of].numbers <= quote.age + CacheTtl - 1 + 2 * Slow
    BY <1>6 DEF CarriersInv, ChoicesRecent
  <2>. QED  BY <1>1, <2>1, <2>2, Constants
<1>7. ListsRecent'
  BY <1>3, <1>4 DEF ListsRecent
<1>. QED  BY <1>5, <1>6, <1>7 DEF CarriersInv, ChoicesRecent

-----------------------------------------------------------------------------
\* A tick makes lists and choices one unit older, or drops them.
LEMMA OlderList ==
  ASSUME NEW n \in Nat, NEW r \in ListType(n), NEW ttl \in Nat \ {0}
  PROVE  /\ Older(r, ttl) \in ListType(ttl - 1)
         /\ Older(r, ttl) # Nothing
              => r # Nothing /\ Older(r, ttl).age = r.age + 1 /\ Older(r, ttl).rows = r.rows
<1>1. CASE r = Nothing
  BY <1>1 DEF Older, ListType
<1>2. CASE r \in [age : 0 .. n, rows : TableType]
  <2>1. CASE r.age + 1 >= ttl
    BY <2>1 DEF Older, ListType
  <2>2. CASE ~(r.age + 1 >= ttl)
    <3>1. [r EXCEPT !.age = @ + 1] = [age |-> r.age + 1, rows |-> r.rows]
      BY <1>2
    <3>2. r.age + 1 \in 0 .. ttl - 1 /\ r.rows \in TableType
      BY <1>2, <2>2
    <3>3. r # Nothing
      BY <1>2 DEF Nothing
    <3>4. Older(r, ttl) = [age |-> r.age + 1, rows |-> r.rows]
      BY <2>2, <3>1, <3>3 DEF Older
    <3>. QED  BY <3>2, <3>3, <3>4 DEF ListType
  <2>. QED  BY <2>1, <2>2
<1>. QED  BY <1>1, <1>2 DEF ListType

LEMMA OlderChoice ==
  ASSUME NEW n \in Nat, NEW r \in ChoiceType(n), NEW ttl \in Nat \ {0}
  PROVE  /\ Older(r, ttl) \in ChoiceType(ttl - 1)
         /\ Older(r, ttl) # Nothing
              => r # Nothing /\ Older(r, ttl).age = r.age + 1 /\ Older(r, ttl).of = r.of
<1>1. CASE r = Nothing
  BY <1>1 DEF Older, ChoiceType
<1>2. CASE r \in [age : 0 .. n, of : Account]
  <2>1. CASE r.age + 1 >= ttl
    BY <2>1 DEF Older, ChoiceType
  <2>2. CASE ~(r.age + 1 >= ttl)
    <3>1. [r EXCEPT !.age = @ + 1] = [age |-> r.age + 1, of |-> r.of]
      BY <1>2
    <3>2. r.age + 1 \in 0 .. ttl - 1 /\ r.of \in Account
      BY <1>2, <2>2
    <3>3. r # Nothing
      BY <1>2 DEF Nothing
    <3>4. Older(r, ttl) = [age |-> r.age + 1, of |-> r.of]
      BY <2>2, <3>1, <3>3 DEF Older
    <3>. QED  BY <3>2, <3>3, <3>4 DEF ChoiceType
  <2>. QED  BY <2>1, <2>2
<1>. QED  BY <1>1, <1>2 DEF ChoiceType

LEMMA TickInv == ASSUME CarriersInv, CarriersTick PROVE CarriersInv'
<1>1. /\ shut' \in [Account -> [numbers : Nat, calls : Nat]]
      /\ \A c \in Account : /\ shut'[c].numbers <= shut[c].numbers + 1
                            /\ shut'[c].calls <= shut[c].calls + 1
                            /\ Sells(table, c) => shut'[c].numbers = 0
                            /\ TakesCalls(table, c) => shut'[c].calls = 0
  BY WatchBounds DEF CarriersTick, CarriersInv, CarriersTypeOK
<1>2. \A c \in Account : shut[c].numbers \in Nat /\ shut[c].calls \in Nat
  BY DEF CarriersInv, CarriersTypeOK
<1>3. Slow + 1 \in Nat \ {0} /\ (Slow + 1) - 1 = Slow /\ CacheTtl - 1 \in Nat /\ QuoteTtl - 1 \in Nat
  BY Constants
<1>4. ASSUME NEW s \in Server
      PROVE  /\ cache'[s] \in ListType(CacheTtl - 1)
             /\ cache'[s] # Nothing
                  => cache[s] # Nothing /\ cache'[s].age = cache[s].age + 1 /\ cache'[s].rows = cache[s].rows
  <2>1. cache'[s] = Older(cache[s], CacheTtl) /\ cache[s] \in ListType(CacheTtl - 1)
    BY DEF CarriersTick, CarriersInv, CarriersTypeOK
  <2>. QED  BY <1>3, <2>1, OlderList, Constants
<1>5. ASSUME NEW s \in Server
      PROVE  /\ reading'[s] \in ListType(Slow)
             /\ reading'[s] # Nothing
                  => reading[s] # Nothing /\ reading'[s].age = reading[s].age + 1 /\ reading'[s].rows = reading[s].rows
  <2>1. reading'[s] = Older(reading[s], Slow + 1) /\ reading[s] \in ListType(Slow)
    BY DEF CarriersTick, CarriersInv, CarriersTypeOK
  <2>2. /\ Older(reading[s], Slow + 1) \in ListType(Slow + 1 - 1)
        /\ Older(reading[s], Slow + 1) # Nothing
             => /\ reading[s] # Nothing
                /\ Older(reading[s], Slow + 1).age = reading[s].age + 1
                /\ Older(reading[s], Slow + 1).rows = reading[s].rows
    BY <1>3, <2>1, OlderList, Constants
  <2>. QED  BY <1>3, <2>1, <2>2
<1>6. /\ search' \in ChoiceType(Slow)
      /\ search' # Nothing => search # Nothing /\ search'.age = search.age + 1 /\ search'.of = search.of
  <2>1. search' = Older(search, Slow + 1) /\ search \in ChoiceType(Slow)
    BY DEF CarriersTick, CarriersInv, CarriersTypeOK
  <2>2. /\ Older(search, Slow + 1) \in ChoiceType(Slow + 1 - 1)
        /\ Older(search, Slow + 1) # Nothing
             => /\ search # Nothing
                /\ Older(search, Slow + 1).age = search.age + 1
                /\ Older(search, Slow + 1).of = search.of
    BY <1>3, <2>1, OlderChoice, Constants
  <2>. QED  BY <1>3, <2>1, <2>2
<1>7. /\ quote' \in ChoiceType(QuoteTtl - 1)
      /\ quote' # Nothing => quote # Nothing /\ quote'.age = quote.age + 1 /\ quote'.of = quote.of
  <2>1. quote' = Older(quote, QuoteTtl) /\ quote \in ChoiceType(QuoteTtl - 1)
    BY DEF CarriersTick, CarriersInv, CarriersTypeOK
  <2>. QED  BY <1>3, <2>1, OlderChoice, Constants
<1>8. CarriersTypeOK'
  <2>1. cache' \in [Server -> ListType(CacheTtl - 1)]
    BY <1>4 DEF CarriersTick
  <2>2. reading' \in [Server -> ListType(Slow)]
    BY <1>5 DEF CarriersTick
  <2>. QED  BY <1>1, <1>6, <1>7, <2>1, <2>2 DEF CarriersTick, CarriersInv, CarriersTypeOK
<1>9. OpenIsZero'
  BY <1>1 DEF CarriersTick, OpenIsZero, Sells, TakesCalls
<1>10. ASSUME NEW r, NEW q, NEW slack \in Nat, r.age \in Nat, q.age = r.age + 1, q.rows = r.rows,
              Recent(r, slack)
       PROVE  \A c \in Account : /\ Sells(q.rows, c) => shut'[c].numbers <= q.age + slack
                                 /\ TakesCalls(q.rows, c) => shut'[c].calls <= q.age + slack
  <2>. SUFFICES ASSUME NEW c \in Account
                PROVE  /\ Sells(q.rows, c) => shut'[c].numbers <= q.age + slack
                       /\ TakesCalls(q.rows, c) => shut'[c].calls <= q.age + slack
    OBVIOUS
  <2>1. /\ Sells(q.rows, c) => shut[c].numbers <= r.age + slack
        /\ TakesCalls(q.rows, c) => shut[c].calls <= r.age + slack
    BY <1>10 DEF Recent, Sells, TakesCalls
  <2>2. /\ shut[c].numbers \in Nat /\ shut[c].calls \in Nat
        /\ shut'[c].numbers \in Nat /\ shut'[c].calls \in Nat
        /\ shut'[c].numbers <= shut[c].numbers + 1 /\ shut'[c].calls <= shut[c].calls + 1
    BY <1>1, <1>2
  <2>. QED  BY <2>1, <2>2, <1>10
<1>11. ASSUME NEW s \in Server, reading'[s] # Nothing PROVE Recent(reading[s], 0)'
  <2>1. reading[s].age \in Nat /\ Recent(reading[s], 0)
    BY <1>5, <1>11 DEF CarriersInv, CarriersTypeOK, ListType, ListsRecent
  <2>. QED  BY <1>5, <1>10, <1>11, <2>1 DEF Recent, Sells, TakesCalls
<1>12. ASSUME NEW s \in Server, cache'[s] # Nothing PROVE Recent(cache[s], Slow)'
  <2>1. cache[s].age \in Nat /\ Recent(cache[s], Slow)
    BY <1>4, <1>12 DEF CarriersInv, CarriersTypeOK, ListType, ListsRecent
  <2>. QED  BY <1>4, <1>10, <1>12, <2>1, Constants DEF Recent, Sells, TakesCalls
<1>13. ASSUME search' # Nothing
       PROVE  shut'[search'.of].numbers <= search'.age + CacheTtl - 1 + Slow
  <2>1. search.of \in Account /\ search.age \in Nat
    BY <1>6, <1>13 DEF CarriersInv, CarriersTypeOK, ChoiceType
  <2>2. shut[search.of].numbers <= search.age + CacheTtl - 1 + Slow
    BY <1>6, <1>13 DEF CarriersInv, ChoicesRecent
  <2>3. search'.age = search.age + 1 /\ search'.of = search.of
    BY <1>6, <1>13
  <2>4. /\ shut'[search.of].numbers \in Nat /\ shut[search.of].numbers \in Nat
        /\ shut'[search.of].numbers <= shut[search.of].numbers + 1
    BY <1>1, <1>2, <2>1
  <2>. QED  BY <2>1, <2>2, <2>3, <2>4, Constants
<1>14. ASSUME quote' # Nothing
       PROVE  shut'[quote'.of].numbers <= quote'.age + CacheTtl - 1 + 2 * Slow
  <2>1. quote.of \in Account /\ quote.age \in Nat
    BY <1>7, <1>14 DEF CarriersInv, CarriersTypeOK, ChoiceType
  <2>2. shut[quote.of].numbers <= quote.age + CacheTtl - 1 + 2 * Slow
    BY <1>7, <1>14 DEF CarriersInv, ChoicesRecent
  <2>3. quote'.age = quote.age + 1 /\ quote'.of = quote.of
    BY <1>7, <1>14
  <2>4. /\ shut'[quote.of].numbers \in Nat /\ shut[quote.of].numbers \in Nat
        /\ shut'[quote.of].numbers <= shut[quote.of].numbers + 1
    BY <1>1, <1>2, <2>1
  <2>. QED  BY <2>1, <2>2, <2>3, <2>4, Constants
<1>. QED  BY <1>8, <1>9, <1>11, <1>12, <1>13, <1>14 DEF CarriersInv, ListsRecent, ChoicesRecent

-----------------------------------------------------------------------------
\* The steps that leave the table alone.
LEMMA ReadInv == ASSUME CarriersInv, NEW s \in Server, Read(s) PROVE CarriersInv'
<1>1. table \in TableType /\ [age |-> 0, rows |-> table] \in ListType(Slow)
  BY Constants DEF CarriersInv, CarriersTypeOK, ListType
<1>2. CarriersTypeOK'
  BY <1>1 DEF CarriersInv, CarriersTypeOK, Read
<1>3. \A x \in Server : reading'[x] # reading[x] => reading'[x].rows = table /\ reading'[x].age = 0
  BY DEF CarriersInv, CarriersTypeOK, Read
<1>. QED  BY <1>2, <1>3, SameTable DEF Read

LEMMA FillInv == ASSUME CarriersInv, NEW s \in Server, Fill(s) PROVE CarriersInv'
<1>1. reading[s] # Nothing /\ reading[s] \in ListType(Slow)
  BY DEF CarriersInv, CarriersTypeOK, Fill
<1>2. reading[s].rows \in TableType
  BY <1>1 DEF ListType
<1>3. [age |-> 0, rows |-> reading[s].rows] \in ListType(CacheTtl - 1)
  BY <1>2, Constants DEF ListType
<1>4. cache' \in [Server -> ListType(CacheTtl - 1)]
  BY <1>3 DEF CarriersInv, CarriersTypeOK, Fill
<1>5. reading' \in [Server -> ListType(Slow)]
  BY DEF CarriersInv, CarriersTypeOK, ListType, Fill
<1>6. CarriersTypeOK'
  BY <1>4, <1>5 DEF CarriersInv, CarriersTypeOK, Fill
<1>7. \A x \in Server : cache'[x] # cache[x]
        => reading[x] # Nothing /\ cache'[x].age = 0 /\ cache'[x].rows = reading[x].rows
  BY <1>1 DEF CarriersInv, CarriersTypeOK, Fill
<1>8. \A x \in Server : reading'[x] # reading[x] => reading'[x] = Nothing
  BY DEF CarriersInv, CarriersTypeOK, Fill
<1>. QED  BY <1>6, <1>7, <1>8, SameTable DEF Fill

\* Dropping a list leaves every other one as it is.
LEMMA ForgetKeeps ==
  ASSUME CarriersTypeOK, NEW s, Forget(s)
  PROVE  /\ cache' \in [Server -> ListType(CacheTtl - 1)]
         /\ \A x \in Server : cache'[x] \in {cache[x], Nothing}
BY DEF CarriersTypeOK, ListType, Forget

LEMMA MarkErrorInv == ASSUME CarriersInv, NEW s \in Server, MarkError(s) PROVE CarriersInv'
<1>1. /\ cache' \in [Server -> ListType(CacheTtl - 1)]
      /\ \A x \in Server : cache'[x] \in {cache[x], Nothing}
  BY ForgetKeeps DEF CarriersInv, MarkError
<1>2. CarriersTypeOK'
  BY <1>1 DEF CarriersInv, CarriersTypeOK, MarkError
<1>. QED  BY <1>1, <1>2, SameTable DEF MarkError

LEMMA SearchInv ==
  ASSUME CarriersInv, NEW s \in Server, NEW pinned \in SUBSET Account, Search(s, pinned)
  PROVE  CarriersInv'
<1>1. PICK c \in ForNewNumber(s, pinned) : search' = [age |-> 0, of |-> c]
  BY DEF Search
<1>2. Cached(s) /\ c \in Account
  BY ChosenIsRecent DEF Search
<1>3. search' \in ChoiceType(Slow)
  BY <1>1, <1>2, Constants DEF ChoiceType
<1>4. CarriersTypeOK'
  BY <1>3 DEF CarriersInv, CarriersTypeOK, Search
<1>5. search'.of \in ForNewNumber(s, pinned) /\ search'.age = 0
  BY <1>1
<1>. QED  BY <1>2, <1>4, <1>5, SameTable DEF Search

LEMMA QuoteInv == ASSUME CarriersInv, Quote PROVE CarriersInv'
<1>1. search # Nothing /\ search \in ChoiceType(Slow)
  BY DEF CarriersInv, CarriersTypeOK, Quote
<1>2. search.of \in Account
  BY <1>1 DEF ChoiceType
<1>3. [age |-> 0, of |-> search.of] \in ChoiceType(QuoteTtl - 1)
  BY <1>2, Constants DEF ChoiceType
<1>4. quote' \in ChoiceType(QuoteTtl - 1)
  BY <1>3 DEF CarriersInv, CarriersTypeOK, Quote
<1>5. search' \in ChoiceType(Slow)
  BY DEF ChoiceType, Quote
<1>6. CarriersTypeOK'
  BY <1>4, <1>5 DEF CarriersInv, CarriersTypeOK, Quote
<1>7. quote' # quote => quote'.age = 0 /\ quote'.of = search.of
  BY DEF Quote
<1>. QED  BY <1>1, <1>6, <1>7, SameTable DEF Quote

LEMMA PurchaseInv == ASSUME CarriersInv, NEW s \in Server, Purchase(s) PROVE CarriersInv'
<1>1. CarriersTypeOK'
  BY DEF CarriersInv, CarriersTypeOK, ChoiceType, Purchase
<1>. QED  BY <1>1, SameTable DEF Purchase

-----------------------------------------------------------------------------
\* The administrator's steps.
LEMMA SaveAccountInv ==
  ASSUME CarriersInv, NEW s \in Server \cup {Elsewhere}, NEW c \in Account,
         NEW status \in Status, NEW isDefault \in BOOLEAN, SaveAccount(s, c, status, isDefault)
  PROVE  CarriersInv'
<1>1. /\ shut' \in [Account -> [numbers : Nat, calls : Nat]]
      /\ \A x \in Account : /\ shut'[x].numbers <= shut[x].numbers + 0
                            /\ shut'[x].calls <= shut[x].calls + 0
                            /\ Sells(table', x) => shut'[x].numbers = 0
                            /\ TakesCalls(table', x) => shut'[x].calls = 0
  BY WatchBounds DEF SaveAccount, CarriersInv, CarriersTypeOK
<1>2. table' \in TableType
  BY DEF CarriersInv, CarriersTypeOK, TableType, SaveAccount
<1>3. admin' \in [on : Server \cup {Elsewhere}, makes : SUBSET Account]
  BY DEF SaveAccount
<1>4. CarriersTypeOK'
  BY <1>1, <1>2, <1>3 DEF CarriersInv, CarriersTypeOK, SaveAccount
<1>5. OpenIsZero'
  BY <1>1 DEF OpenIsZero, Sells, TakesCalls
<1>6. \A x \in Account : shut'[x].numbers <= shut[x].numbers /\ shut'[x].calls <= shut[x].calls
  BY <1>1 DEF CarriersInv, CarriersTypeOK
<1>. QED  BY <1>4, <1>5, <1>6, OtherTable DEF SaveAccount

LEMMA MakeDefaultInv == ASSUME CarriersInv, MakeDefault PROVE CarriersInv'
<1>1. admin \in [on : Server \cup {Elsewhere}, makes : SUBSET Account]
  BY DEF CarriersInv, CarriersTypeOK, MakeDefault
<1>2. PICK c \in Account :
        IF Sells(table, c)
        THEN table' = [table EXCEPT !.default = c] /\ admin' = [admin EXCEPT !.makes = {}]
        ELSE admin' = NoRequest /\ UNCHANGED table
  BY <1>1 DEF MakeDefault
<1>3. table' \in TableType /\ table'.status = table.status
  BY <1>2 DEF CarriersInv, CarriersTypeOK, TableType
<1>4. admin' = NoRequest \/ admin' \in [on : Server \cup {Elsewhere}, makes : SUBSET Account]
  BY <1>1, <1>2
<1>5. CarriersTypeOK'
  BY <1>3, <1>4 DEF CarriersInv, CarriersTypeOK, MakeDefault
<1>6. OpenIsZero'
  BY <1>3 DEF CarriersInv, OpenIsZero, Sells, TakesCalls, MakeDefault
<1>7. \A x \in Account : shut'[x].numbers <= shut[x].numbers /\ shut'[x].calls <= shut[x].calls
  BY DEF CarriersInv, CarriersTypeOK, MakeDefault
<1>. QED  BY <1>5, <1>6, <1>7, OtherTable DEF MakeDefault

LEMMA RemoveAccountInv ==
  ASSUME CarriersInv, NEW s \in Server \cup {Elsewhere}, NEW c \in Account, RemoveAccount(s, c)
  PROVE  CarriersInv'
<1>1. /\ table' \in TableType
      /\ \A x \in Account : table'.status[x] = IF x = c THEN "gone" ELSE table.status[x]
  BY DEF CarriersInv, CarriersTypeOK, TableType, RemoveAccount
<1>2. admin' \in [on : Server \cup {Elsewhere}, makes : SUBSET Account]
  BY DEF RemoveAccount
<1>3. CarriersTypeOK'
  BY <1>1, <1>2 DEF CarriersInv, CarriersTypeOK, RemoveAccount
<1>4. OpenIsZero'
  BY <1>1 DEF CarriersInv, OpenIsZero, Sells, TakesCalls, RemoveAccount
<1>5. \A x \in Account : shut'[x].numbers <= shut[x].numbers /\ shut'[x].calls <= shut[x].calls
  BY DEF CarriersInv, CarriersTypeOK, RemoveAccount
<1>. QED  BY <1>3, <1>4, <1>5, OtherTable DEF RemoveAccount

LEMMA InvalidateInv == ASSUME CarriersInv, Invalidate PROVE CarriersInv'
<1>1. /\ cache' \in [Server -> ListType(CacheTtl - 1)]
      /\ \A x \in Server : cache'[x] \in {cache[x], Nothing}
  BY ForgetKeeps DEF CarriersInv, Invalidate
<1>2. CarriersTypeOK'
  BY <1>1 DEF CarriersInv, CarriersTypeOK, Invalidate
<1>. QED  BY <1>1, <1>2, SameTable DEF Invalidate

-----------------------------------------------------------------------------
LEMMA CarriersNextInv == CarriersInv /\ [CarriersNext]_carriersVars => CarriersInv'
<1>. SUFFICES ASSUME CarriersInv, [CarriersNext]_carriersVars PROVE CarriersInv'
  OBVIOUS
<1>1. ASSUME NEW s \in Server, Read(s) \/ Fill(s) \/ MarkError(s) \/ Purchase(s)
      PROVE  CarriersInv'
  BY <1>1, ReadInv, FillInv, MarkErrorInv, PurchaseInv
<1>2. ASSUME NEW s \in Server, NEW c \in Account, Search(s, {}) \/ Search(s, {c})
      PROVE  CarriersInv'
  <2>1. {} \in SUBSET Account /\ {c} \in SUBSET Account
    OBVIOUS
  <2>. QED  BY <1>2, <2>1, SearchInv
<1>3. ASSUME NEW s \in Server \cup {Elsewhere}, NEW c \in Account,
             \/ \E status \in Status, isDefault \in BOOLEAN : SaveAccount(s, c, status, isDefault)
             \/ RemoveAccount(s, c)
      PROVE  CarriersInv'
  BY <1>3, SaveAccountInv, RemoveAccountInv
<1>4. CASE Quote
  BY <1>4, QuoteInv
<1>5. CASE MakeDefault
  BY <1>5, MakeDefaultInv
<1>6. CASE Invalidate
  BY <1>6, InvalidateInv
<1>7. CASE CarriersTick
  BY <1>7, TickInv
<1>8. CASE UNCHANGED carriersVars
  BY <1>8, SameTable DEF carriersVars, CarriersInv, CarriersTypeOK
<1>. QED  BY <1>1, <1>2, <1>3, <1>4, <1>5, <1>6, <1>7, <1>8 DEF CarriersNext

\* In every state of the invariant an account that is turned off is out of use in time.
LEMMA InvUnused == CarriersInv => TurnedOffIsUnused
<1>. SUFFICES ASSUME CarriersInv PROVE TurnedOffIsUnused
  OBVIOUS
<1>1. \A c \in Account : shut[c].numbers \in Nat /\ shut[c].calls \in Nat
  BY DEF CarriersInv, CarriersTypeOK
<1>2. ASSUME NEW s \in Server, NEW c \in Account, Answers(s, c), ~TakesCalls(table, c)
      PROVE  shut[c].calls < CacheTtl + Slow
  <2>1. cache[s] # Nothing /\ TakesCalls(cache[s].rows, c)
    BY <1>2 DEF Answers, Cached, ById
  <2>2. cache[s].age \in 0 .. CacheTtl - 1
    BY <2>1 DEF CarriersInv, CarriersTypeOK, ListType
  <2>3. shut[c].calls <= cache[s].age + Slow
    BY <2>1 DEF CarriersInv, ListsRecent, Recent
  <2>. QED  BY <1>1, <2>2, <2>3, Constants
<1>3. ASSUME NEW s \in Server, Cached(s), quote # Nothing, NEW c \in Seller(s),
             Exists(table, c), ~Sells(table, c)
      PROVE  shut[c].numbers < CacheTtl + QuoteTtl + 2 * Slow - 1
  <2>1. CASE c = quote.of
    <3>1. quote.of \in Account /\ quote.age \in 0 .. QuoteTtl - 1
      BY <1>3 DEF CarriersInv, CarriersTypeOK, ChoiceType
    <3>2. shut[quote.of].numbers <= quote.age + CacheTtl - 1 + 2 * Slow
      BY <1>3 DEF CarriersInv, ChoicesRecent
    <3>. QED  BY <1>1, <2>1, <3>1, <3>2, Constants
  <2>2. CASE c \in ForNewNumber(s, {})
    <3>1. c \in Account /\ shut[c].numbers <= CacheTtl - 1 + Slow
      BY <1>3, <2>2, ChosenIsRecent
    <3>. QED  BY <1>1, <3>1, Constants
  <2>. QED  BY <1>3, <2>1, <2>2 DEF Seller
<1>. QED  BY <1>2, <1>3 DEF TurnedOffIsUnused

\* Whatever administrators, servers and customers do, and in whatever order, an account that
\* is turned off sells no number and takes no call once the lists and quotes made before that
\* have run out (providers.service.ts:96, numbers.service.ts:85).
THEOREM TurnedOff == CarriersSpec => []TurnedOffIsUnused
<1>. QED  BY CarriersInitInv, CarriersNextInv, InvUnused, PTL DEF CarriersSpec

-----------------------------------------------------------------------------
(***************************************************************************)
(* Proofs about SignIn, for any number of requests, links and sessions:    *)
(* what an emailed link stands for happens at most once, and an event that *)
(* ends all sessions ends those too that are signed after it.              *)
(*                                                                         *)
(* Behind the first is that a request about to carry out a link has marked *)
(* it as used before, alone; behind the second that every token, also one  *)
(* that is still to be signed, carries the version its row had after the   *)
(* last of these events before it was read.                                *)
(***************************************************************************)

AccountType == [joined : BOOLEAN, ver : Nat, disabled : BOOLEAN, twofa : BOOLEAN]
LinkType == [type : Types, state : {"unsent", "open", "void", "used"}]
SessionType == [ver : Nat, support : BOOLEAN, cut : Nat]
ReqType ==
  [at : {"idle", "change"}]
    \cup [at : {"void"}, type : Types]
    \cup [at : {"create"}, type : Types, old : SUBSET Link]
    \cup [at : {"click", "apply"}, link : Link]
    \cup [at : {"sign"}, ver : Nat, support : BOOLEAN, cut : Nat]

SignInTypeOK ==
  /\ account \in AccountType
  /\ links \in [Link -> LinkType]
  /\ uses \in [Link -> Nat]
  /\ sessions \subseteq SessionType
  /\ challenge \in BOOLEAN
  /\ reqs \in [Request -> ReqType]
  /\ cut \in Nat

Applies(r, l) == reqs[r].at = "apply" /\ reqs[r].link = l

\* A link is used before it is carried out, by one request, once.
Once ==
  \A l \in Link :
    /\ links[l].state # "used" => uses[l] = 0
    /\ uses[l] <= 1
    /\ \A r \in Request : Applies(r, l) => links[l].state = "used" /\ uses[l] = 0
    /\ \A r, q \in Request : Applies(r, l) /\ Applies(q, l) => r = q

\* Versions count the events that end all sessions.
Versions ==
  /\ account.ver = cut
  /\ \A s \in sessions : s.ver = s.cut
  /\ \A r \in Request : reqs[r].at = "sign" => reqs[r].ver = reqs[r].cut

SignInInv == SignInTypeOK /\ Once /\ Versions

USE SignInAssumption DEF Link, Request

LEMMA SignInInitInv == SignInInit => SignInInv
<1>. SUFFICES ASSUME SignInInit PROVE SignInInv
  OBVIOUS
<1>1. SignInTypeOK
  BY DEF SignInInit, SignInTypeOK, AccountType, LinkType, ReqType, SessionType, Idle, Types
<1>2. Once
  BY DEF SignInInit, Once, Applies, Idle
<1>3. Versions
  BY DEF SignInInit, Versions, Idle
<1>. QED  BY <1>1, <1>2, <1>3 DEF SignInInv

\* What the database and the requests may hold, one fact per kind of write.
LEMMA AccountWrites ==
  ASSUME NEW acc \in AccountType
  PROVE  /\ [acc EXCEPT !.ver = @ + 1] \in AccountType
         /\ [acc EXCEPT !.joined = TRUE] \in AccountType
         /\ [acc EXCEPT !.joined = TRUE, !.ver = @ + 1] \in AccountType
         /\ [acc EXCEPT !.disabled = TRUE] \in AccountType
         /\ [acc EXCEPT !.twofa = FALSE] \in AccountType
<1>1. [acc EXCEPT !.ver = @ + 1] \in AccountType
  BY DEF AccountType
<1>2. [acc EXCEPT !.joined = TRUE] \in AccountType
  BY DEF AccountType
<1>3. [acc EXCEPT !.joined = TRUE, !.ver = @ + 1] \in AccountType
  <2>1. acc.ver + 1 \in Nat
    BY DEF AccountType
  <2>. DEFINE b == [acc EXCEPT !.joined = TRUE]
  <2>2. b \in AccountType
    BY <1>2
  <2>3. \A v \in Nat : [b EXCEPT !.ver = v] \in AccountType
    <3>. HIDE DEF b
    <3>. QED  BY <2>2 DEF AccountType
  <2>. QED  BY <2>1, <2>3
<1>4. [acc EXCEPT !.disabled = TRUE] \in AccountType
  BY DEF AccountType
<1>5. [acc EXCEPT !.twofa = FALSE] \in AccountType
  BY DEF AccountType
<1>. QED  BY <1>1, <1>2, <1>3, <1>4, <1>5

LEMMA RequestKinds ==
  /\ Idle \in ReqType
  /\ \A l \in Link : [at |-> "apply", link |-> l] \in ReqType
  /\ \A v, c \in Nat, b \in BOOLEAN : [at |-> "sign", ver |-> v, support |-> b, cut |-> c] \in ReqType
BY DEF ReqType, Idle

\* What a request in progress is about.
LEMMA RequestLink ==
  ASSUME SignInInv, NEW r \in Request
  PROVE  /\ reqs[r].at = "click" => reqs[r].link \in Link
         /\ reqs[r].at = "apply" => reqs[r].link \in Link
         /\ reqs[r].at = "create" => reqs[r].type \in Types
<1>1. reqs[r] \in ReqType
  BY DEF SignInInv, SignInTypeOK
<1>2. \A q \in ReqType : /\ q.at = "click" => q.link \in Link
                         /\ q.at = "apply" => q.link \in Link
                         /\ q.at = "create" => q.type \in Types
  BY DEF ReqType
<1>. QED  BY <1>1, <1>2

LEMMA MarkWrites ==
  ASSUME links \in [Link -> LinkType], NEW ls, NEW state \in {"unsent", "open", "void", "used"}
  PROVE  /\ Mark(ls, state) \in [Link -> LinkType]
         /\ \A l \in Link : Mark(ls, state)[l].state = IF l \in ls THEN state ELSE links[l].state
BY DEF Mark, LinkType

\* A link stays used once at most while requests only stop applying links.
LEMMA OnceKept ==
  ASSUME SignInInv, UNCHANGED uses,
         \A l \in Link : links'[l].state = "used" <=> links[l].state = "used",
         \A q \in Request, l \in Link : Applies(q, l)' => Applies(q, l)
  PROVE  Once'
BY DEF SignInInv, Once

LEMMA AskLinkInv ==
  ASSUME SignInInv, NEW r \in Request, NEW type \in Types, AskLink(r, type) PROVE SignInInv'
<1>1. SignInTypeOK'
  BY DEF SignInInv, SignInTypeOK, AccountType, LinkType, ReqType, SessionType, Types, AskLink, Starts, Becomes, Idle
<1>2. Once'
  BY DEF SignInInv, SignInTypeOK, AccountType, LinkType, ReqType, SessionType, Types, Once, Applies, AskLink, Starts, Becomes, Idle
<1>3. Versions'
  BY DEF SignInInv, SignInTypeOK, AccountType, LinkType, ReqType, SessionType, Types, Versions, AskLink, Starts, Becomes, Idle
<1>. QED  BY <1>1, <1>2, <1>3 DEF SignInInv

LEMMA IssueVoidInv ==
  ASSUME SignInInv, NEW r \in Request, IssueVoid(r) PROVE SignInInv'
<1>1. SignInTypeOK'
  BY DEF SignInInv, SignInTypeOK, AccountType, LinkType, ReqType, SessionType, Types, IssueVoid, Becomes, Open
<1>2. Once'
  BY DEF SignInInv, SignInTypeOK, AccountType, LinkType, ReqType, SessionType, Types, Once, Applies, IssueVoid, Becomes, Open
<1>3. Versions'
  BY DEF SignInInv, SignInTypeOK, AccountType, LinkType, ReqType, SessionType, Types, Versions, IssueVoid, Becomes, Open
<1>. QED  BY <1>1, <1>2, <1>3 DEF SignInInv

LEMMA IssueCreateInv ==
  ASSUME SignInInv, NEW r \in Request, NEW l \in Link, IssueCreate(r, l) PROVE SignInInv'
<1>1. SignInTypeOK'
  <2>1. reqs[r].at = "create"
    BY DEF IssueCreate
  <2>2. reqs[r].type \in Types
    BY <2>1, RequestLink
  <2>3. Mark({o \in reqs[r].old : links[o].state = "open"}, "void") \in [Link -> LinkType]
    BY MarkWrites DEF SignInInv, SignInTypeOK
  <2>4. [type |-> reqs[r].type, state |-> "open"] \in LinkType
    BY <2>2 DEF LinkType
  <2>5. links' \in [Link -> LinkType]
    BY <2>3, <2>4 DEF IssueCreate
  <2>6. reqs' \in [Request -> ReqType]
    BY RequestKinds DEF SignInInv, SignInTypeOK, IssueCreate, Becomes
  <2>. QED  BY <2>5, <2>6 DEF SignInInv, SignInTypeOK, IssueCreate
<1>2. Once'
  <2>1. \A q \in Request, k \in Link : Applies(q, k)' => Applies(q, k)
    BY DEF SignInInv, SignInTypeOK, Applies, IssueCreate, Becomes, Idle
  <2>2. \A k \in Link : links'[k].state = "used" <=> links[k].state = "used"
    <3>. DEFINE marked == Mark({o \in reqs[r].old : links[o].state = "open"}, "void")
    <3>1. \A k \in Link : marked[k].state = "used" <=> links[k].state = "used"
      BY DEF SignInInv, SignInTypeOK, LinkType, Mark
    <3>2. marked \in [Link -> LinkType]
      BY MarkWrites DEF SignInInv, SignInTypeOK
    <3>3. links' = [marked EXCEPT ![l] = [type |-> reqs[r].type, state |-> "open"]]
      BY DEF IssueCreate
    <3>4. links[l].state = "unsent"
      BY DEF IssueCreate
    <3>. HIDE DEF marked
    <3>. QED  BY <3>1, <3>2, <3>3, <3>4
  <2>. QED  BY <2>1, <2>2, OnceKept DEF IssueCreate
<1>3. Versions'
  BY DEF SignInInv, SignInTypeOK, AccountType, LinkType, ReqType, SessionType, Types, Versions, IssueCreate, Becomes, Idle, Mark
<1>. QED  BY <1>1, <1>2, <1>3 DEF SignInInv

LEMMA ClickInv ==
  ASSUME SignInInv, NEW r \in Request, NEW l \in Link, Click(r, l) PROVE SignInInv'
<1>1. SignInTypeOK'
  BY DEF SignInInv, SignInTypeOK, AccountType, LinkType, ReqType, SessionType, Types, Click, Starts, Becomes, Idle
<1>2. Once'
  BY DEF SignInInv, SignInTypeOK, AccountType, LinkType, ReqType, SessionType, Types, Once, Applies, Click, Starts, Becomes, Idle
<1>3. Versions'
  BY DEF SignInInv, SignInTypeOK, AccountType, LinkType, ReqType, SessionType, Types, Versions, Click, Starts, Becomes, Idle
<1>. QED  BY <1>1, <1>2, <1>3 DEF SignInInv

LEMMA ConsumeInv ==
  ASSUME SignInInv, NEW r \in Request, Consume(r) PROVE SignInInv'
<1>. DEFINE l == reqs[r].link
<1>t. reqs[r].at = "click"
  BY DEF Consume
<1>a. l \in Link
  BY <1>t, RequestLink
<1>b. CASE links[l].state # "open"
  <2>1. Becomes(r, Idle) /\ UNCHANGED <<account, links, uses, sessions, challenge, cut>>
    BY <1>b DEF Consume
  <2>2. reqs' \in [Request -> ReqType]
    BY <2>1, RequestKinds DEF SignInInv, SignInTypeOK, Becomes
  <2>3. SignInTypeOK'
    BY <2>1, <2>2 DEF SignInInv, SignInTypeOK
  <2>4. Once'
    BY <2>1 DEF SignInInv, SignInTypeOK, Once, Applies, Becomes, Idle
  <2>5. Versions'
    BY <2>1 DEF SignInInv, SignInTypeOK, Versions, Becomes, Idle
  <2>. QED  BY <2>3, <2>4, <2>5 DEF SignInInv
<1>c. CASE links[l].state = "open"
  <2>1. /\ links' = Mark({l}, "used")
        /\ Becomes(r, [at |-> "apply", link |-> l])
        /\ UNCHANGED <<account, uses, sessions, challenge, cut>>
    BY <1>c DEF Consume
  <2>2. /\ links' \in [Link -> LinkType]
        /\ \A k \in Link : links'[k].state = IF k = l THEN "used" ELSE links[k].state
    <3>1. links \in [Link -> LinkType]
      BY DEF SignInInv, SignInTypeOK
    <3>2. /\ Mark({l}, "used") \in [Link -> LinkType]
          /\ \A k \in Link : Mark({l}, "used")[k].state = IF k \in {l} THEN "used" ELSE links[k].state
      BY <3>1, MarkWrites
    <3>. QED  BY <2>1, <3>2
  <2>3. reqs' \in [Request -> ReqType]
    BY <1>a, <2>1, RequestKinds DEF SignInInv, SignInTypeOK, Becomes
  <2>4. SignInTypeOK'
    BY <2>1, <2>2, <2>3 DEF SignInInv, SignInTypeOK
  <2>5. uses[l] = 0 /\ \A q \in Request : ~Applies(q, l)
    BY <1>a, <1>c DEF SignInInv, Once
  <2>6. /\ \A k \in Link : Applies(r, k)' => k = l
        /\ \A q \in Request \ {r}, k \in Link : Applies(q, k)' <=> Applies(q, k)
    BY <2>1 DEF SignInInv, SignInTypeOK, Applies, Becomes
  <2>7. Once'
    <3>. SUFFICES ASSUME NEW k \in Link
                  PROVE  /\ links'[k].state # "used" => uses'[k] = 0
                         /\ uses'[k] <= 1
                         /\ \A q \in Request : Applies(q, k)' => links'[k].state = "used" /\ uses'[k] = 0
                         /\ \A p, q \in Request : Applies(p, k)' /\ Applies(q, k)' => p = q
      BY DEF Once, Applies
    <3>1. CASE k = l
      <4>1. links'[k].state = "used" /\ uses'[k] = 0
        BY <1>a, <2>1, <2>2, <2>5, <3>1
      <4>2. \A q \in Request : Applies(q, k)' => q = r
        BY <2>5, <2>6, <3>1
      <4>. QED  BY <4>1, <4>2
    <3>2. CASE k # l
      BY <2>1, <2>2, <2>6, <3>2 DEF SignInInv, Once
    <3>. QED  BY <3>1, <3>2
  <2>8. Versions'
    BY <2>1 DEF SignInInv, SignInTypeOK, Versions, Becomes
  <2>. QED  BY <2>4, <2>7, <2>8 DEF SignInInv
<1>. QED  BY <1>b, <1>c

LEMMA ResetPasswordInv ==
  ASSUME SignInInv, NEW r \in Request, ResetPassword(r) PROVE SignInInv'
<1>1. SignInTypeOK'
  <2>a. account \in AccountType /\ account' = [account EXCEPT !.joined = TRUE, !.ver = @ + 1]
    BY DEF SignInInv, SignInTypeOK, ResetPassword
  <2>1. account' \in AccountType
    BY <2>a, AccountWrites
  <2>b. reqs[r].at = "apply"
    BY DEF ResetPassword
  <2>c. reqs[r].link \in Link
    BY <2>b, RequestLink
  <2>2. uses' \in [Link -> Nat] /\ cut' \in Nat
    BY <2>c DEF SignInInv, SignInTypeOK, ResetPassword
  <2>3. reqs' \in [Request -> ReqType]
    BY RequestKinds DEF SignInInv, SignInTypeOK, ResetPassword, Becomes
  <2>. QED  BY <2>1, <2>2, <2>3 DEF SignInInv, SignInTypeOK, ResetPassword
<1>2. Once'
  BY DEF SignInInv, SignInTypeOK, AccountType, LinkType, ReqType, SessionType, Types, Once, Applies, ResetPassword, Becomes, Idle
<1>3. Versions'
  BY DEF SignInInv, SignInTypeOK, AccountType, LinkType, ReqType, SessionType, Types, Versions, ResetPassword, Becomes, Idle
<1>. QED  BY <1>1, <1>2, <1>3 DEF SignInInv

LEMMA AcceptInviteInv ==
  ASSUME SignInInv, NEW r \in Request, AcceptInvite(r) PROVE SignInInv'
<1>1. SignInTypeOK'
  <2>a. account \in AccountType /\ account' = [account EXCEPT !.joined = TRUE]
    BY DEF SignInInv, SignInTypeOK, AcceptInvite
  <2>1. account' \in AccountType
    BY <2>a, AccountWrites
  <2>b. reqs[r].at = "apply"
    BY DEF AcceptInvite
  <2>c. reqs[r].link \in Link
    BY <2>b, RequestLink
  <2>2. uses' \in [Link -> Nat]
    BY <2>c DEF SignInInv, SignInTypeOK, AcceptInvite
  <2>3. Signing(FALSE) \in ReqType
    BY RequestKinds DEF SignInInv, SignInTypeOK, AccountType, Signing
  <2>4. reqs' \in [Request -> ReqType]
    BY <2>3 DEF SignInInv, SignInTypeOK, AcceptInvite, Becomes
  <2>. QED  BY <2>1, <2>2, <2>4 DEF SignInInv, SignInTypeOK, AcceptInvite
<1>2. Once'
  BY DEF SignInInv, SignInTypeOK, AccountType, LinkType, ReqType, SessionType, Types, Once, Applies, AcceptInvite, Becomes, Signing
<1>3. Versions'
  BY DEF SignInInv, SignInTypeOK, AccountType, LinkType, ReqType, SessionType, Types, Versions, AcceptInvite, Becomes, Signing
<1>. QED  BY <1>1, <1>2, <1>3 DEF SignInInv

LEMMA LoginInv ==
  ASSUME SignInInv, NEW r \in Request, Login(r) PROVE SignInInv'
<1>1. SignInTypeOK'
  <2>1. challenge' \in BOOLEAN
    BY DEF SignInInv, SignInTypeOK, AccountType, Login, CompleteLogin
  <2>2. Signing(FALSE) \in ReqType
    BY RequestKinds DEF SignInInv, SignInTypeOK, AccountType, Signing
  <2>3. reqs' \in [Request -> ReqType]
    BY <2>2 DEF SignInInv, SignInTypeOK, Login, CompleteLogin, Becomes
  <2>. QED  BY <2>1, <2>3 DEF SignInInv, SignInTypeOK, Login
<1>2. Once'
  <2>1. \A q \in Request, k \in Link : Applies(q, k)' => Applies(q, k)
    <3>1. reqs' = reqs \/ reqs' = [reqs EXCEPT ![r] = Signing(FALSE)]
      BY DEF Login, CompleteLogin, Becomes
    <3>2. Signing(FALSE).at = "sign" /\ reqs \in [Request -> ReqType]
      BY DEF SignInInv, SignInTypeOK, Signing
    <3>. QED  BY <3>1, <3>2 DEF Applies
  <2>. QED  BY <2>1, OnceKept DEF Login
<1>3. Versions'
  BY DEF SignInInv, SignInTypeOK, AccountType, LinkType, ReqType, SessionType, Types, Versions, Login, CompleteLogin, Starts, Becomes, Signing, Idle
<1>. QED  BY <1>1, <1>2, <1>3 DEF SignInInv

LEMMA ImpersonateInv ==
  ASSUME SignInInv, NEW r \in Request, Impersonate(r) PROVE SignInInv'
<1>1. SignInTypeOK'
  BY DEF SignInInv, SignInTypeOK, AccountType, LinkType, ReqType, SessionType, Types, Impersonate, Starts, Becomes, Signing, Idle
<1>2. Once'
  BY DEF SignInInv, SignInTypeOK, AccountType, LinkType, ReqType, SessionType, Types, Once, Applies, Impersonate, Starts, Becomes, Signing, Idle
<1>3. Versions'
  BY DEF SignInInv, SignInTypeOK, AccountType, LinkType, ReqType, SessionType, Types, Versions, Impersonate, Starts, Becomes, Signing, Idle
<1>. QED  BY <1>1, <1>2, <1>3 DEF SignInInv

LEMMA VerifyTwofaLoginInv ==
  ASSUME SignInInv, NEW r \in Request, VerifyTwofaLogin(r) PROVE SignInInv'
<1>1. SignInTypeOK'
  BY DEF SignInInv, SignInTypeOK, AccountType, LinkType, ReqType, SessionType, Types, VerifyTwofaLogin, Starts, Becomes, Signing, Idle
<1>2. Once'
  BY DEF SignInInv, SignInTypeOK, AccountType, LinkType, ReqType, SessionType, Types, Once, Applies, VerifyTwofaLogin, Starts, Becomes, Signing, Idle
<1>3. Versions'
  BY DEF SignInInv, SignInTypeOK, AccountType, LinkType, ReqType, SessionType, Types, Versions, VerifyTwofaLogin, Starts, Becomes, Signing, Idle
<1>. QED  BY <1>1, <1>2, <1>3 DEF SignInInv

LEMMA ChallengeExpiresInv ==
  ASSUME SignInInv, ChallengeExpires PROVE SignInInv'
<1>1. SignInTypeOK'
  BY DEF SignInInv, SignInTypeOK, AccountType, LinkType, ReqType, SessionType, Types, ChallengeExpires
<1>2. Once'
  BY DEF SignInInv, SignInTypeOK, AccountType, LinkType, ReqType, SessionType, Types, Once, Applies, ChallengeExpires
<1>3. Versions'
  BY DEF SignInInv, SignInTypeOK, AccountType, LinkType, ReqType, SessionType, Types, Versions, ChallengeExpires
<1>. QED  BY <1>1, <1>2, <1>3 DEF SignInInv

LEMMA SignInv ==
  ASSUME SignInInv, NEW r \in Request, Sign(r) PROVE SignInInv'
<1>1. SignInTypeOK'
  <2>1. reqs[r] \in ReqType /\ reqs[r].at = "sign"
    BY DEF SignInInv, SignInTypeOK, Sign
  <2>2. [ver |-> reqs[r].ver, support |-> reqs[r].support, cut |-> reqs[r].cut] \in SessionType
    BY <2>1 DEF ReqType, SessionType
  <2>3. reqs' \in [Request -> ReqType]
    BY RequestKinds DEF SignInInv, SignInTypeOK, Sign, Becomes
  <2>. QED  BY <2>2, <2>3 DEF SignInInv, SignInTypeOK, Sign
<1>2. Once'
  BY DEF SignInInv, SignInTypeOK, AccountType, LinkType, ReqType, SessionType, Types, Once, Applies, Sign, Becomes, Idle
<1>3. Versions'
  BY DEF SignInInv, SignInTypeOK, AccountType, LinkType, ReqType, SessionType, Types, Versions, Sign, Becomes, Idle
<1>. QED  BY <1>1, <1>2, <1>3 DEF SignInInv

LEMMA SignOutInv ==
  ASSUME SignInInv, SignOut PROVE SignInInv'
<1>1. SignInTypeOK'
  BY DEF SignInInv, SignInTypeOK, AccountType, LinkType, ReqType, SessionType, Types, SignOut
<1>2. Once'
  BY DEF SignInInv, SignInTypeOK, AccountType, LinkType, ReqType, SessionType, Types, Once, Applies, SignOut
<1>3. Versions'
  BY DEF SignInInv, SignInTypeOK, AccountType, LinkType, ReqType, SessionType, Types, Versions, SignOut
<1>. QED  BY <1>1, <1>2, <1>3 DEF SignInInv

LEMMA ChangeReadInv ==
  ASSUME SignInInv, NEW r \in Request, ChangeRead(r) PROVE SignInInv'
<1>1. SignInTypeOK'
  BY DEF SignInInv, SignInTypeOK, AccountType, LinkType, ReqType, SessionType, Types, ChangeRead, Starts, Becomes, Idle
<1>2. Once'
  BY DEF SignInInv, SignInTypeOK, AccountType, LinkType, ReqType, SessionType, Types, Once, Applies, ChangeRead, Starts, Becomes, Idle
<1>3. Versions'
  BY DEF SignInInv, SignInTypeOK, AccountType, LinkType, ReqType, SessionType, Types, Versions, ChangeRead, Starts, Becomes, Idle
<1>. QED  BY <1>1, <1>2, <1>3 DEF SignInInv

LEMMA ChangeWriteInv ==
  ASSUME SignInInv, NEW r \in Request, ChangeWrite(r) PROVE SignInInv'
<1>1. SignInTypeOK'
  <2>a. account \in AccountType /\ account' = [account EXCEPT !.joined = TRUE, !.ver = @ + 1]
    BY DEF SignInInv, SignInTypeOK, ChangeWrite
  <2>1. account' \in AccountType
    BY <2>a, AccountWrites
  <2>2. cut' \in Nat
    BY DEF SignInInv, SignInTypeOK, ChangeWrite
  <2>3. account'.ver \in Nat
    BY <2>1 DEF AccountType
  <2>4. [at |-> "sign", ver |-> account'.ver, support |-> FALSE, cut |-> cut'] \in ReqType
    BY <2>2, <2>3, RequestKinds
  <2>5. reqs' \in [Request -> ReqType]
    BY <2>4 DEF SignInInv, SignInTypeOK, ChangeWrite, Becomes
  <2>. QED  BY <2>1, <2>2, <2>5 DEF SignInInv, SignInTypeOK, ChangeWrite
<1>2. Once'
  BY DEF SignInInv, SignInTypeOK, AccountType, LinkType, ReqType, SessionType, Types, Once, Applies, ChangeWrite, Becomes
<1>3. Versions'
  BY DEF SignInInv, SignInTypeOK, AccountType, LinkType, ReqType, SessionType, Types, Versions, ChangeWrite, Becomes
<1>. QED  BY <1>1, <1>2, <1>3 DEF SignInInv

LEMMA ToggleTwofaInv ==
  ASSUME SignInInv, ToggleTwofa PROVE SignInInv'
<1>1. SignInTypeOK'
  BY DEF SignInInv, SignInTypeOK, AccountType, LinkType, ReqType, SessionType, Types, ToggleTwofa
<1>2. Once'
  BY DEF SignInInv, SignInTypeOK, AccountType, LinkType, ReqType, SessionType, Types, Once, Applies, ToggleTwofa
<1>3. Versions'
  BY DEF SignInInv, SignInTypeOK, AccountType, LinkType, ReqType, SessionType, Types, Versions, ToggleTwofa
<1>. QED  BY <1>1, <1>2, <1>3 DEF SignInInv

LEMMA LogoutUserInv ==
  ASSUME SignInInv, LogoutUser PROVE SignInInv'
<1>1. SignInTypeOK'
  <2>1. account' \in AccountType
    BY AccountWrites DEF SignInInv, SignInTypeOK, LogoutUser, Bump
  <2>2. cut' \in Nat
    BY DEF SignInInv, SignInTypeOK, LogoutUser, Bump
  <2>. QED  BY <2>1, <2>2 DEF SignInInv, SignInTypeOK, LogoutUser, Bump
<1>2. Once'
  BY DEF SignInInv, SignInTypeOK, AccountType, LinkType, ReqType, SessionType, Types, Once, Applies, LogoutUser, Bump
<1>3. Versions'
  BY DEF SignInInv, SignInTypeOK, AccountType, LinkType, ReqType, SessionType, Types, Versions, LogoutUser, Bump
<1>. QED  BY <1>1, <1>2, <1>3 DEF SignInInv

LEMMA DisableUserInv ==
  ASSUME SignInInv, DisableUser PROVE SignInInv'
<1>1. SignInTypeOK'
  <2>1. account' \in AccountType
    BY AccountWrites DEF SignInInv, SignInTypeOK, DisableUser, Bump
  <2>2. cut' \in Nat
    BY DEF SignInInv, SignInTypeOK, DisableUser, Bump
  <2>. QED  BY <2>1, <2>2 DEF SignInInv, SignInTypeOK, DisableUser, Bump
<1>2. Once'
  BY DEF SignInInv, SignInTypeOK, AccountType, LinkType, ReqType, SessionType, Types, Once, Applies, DisableUser, Bump
<1>3. Versions'
  BY DEF SignInInv, SignInTypeOK, AccountType, LinkType, ReqType, SessionType, Types, Versions, DisableUser, Bump
<1>. QED  BY <1>1, <1>2, <1>3 DEF SignInInv

LEMMA DisableTwofaInv ==
  ASSUME SignInInv, DisableTwofa PROVE SignInInv'
<1>1. SignInTypeOK'
  <2>1. account' \in AccountType
    BY AccountWrites DEF SignInInv, SignInTypeOK, DisableTwofa, Bump
  <2>2. cut' \in Nat
    BY DEF SignInInv, SignInTypeOK, DisableTwofa, Bump
  <2>. QED  BY <2>1, <2>2 DEF SignInInv, SignInTypeOK, DisableTwofa, Bump
<1>2. Once'
  BY DEF SignInInv, SignInTypeOK, AccountType, LinkType, ReqType, SessionType, Types, Once, Applies, DisableTwofa, Bump
<1>3. Versions'
  BY DEF SignInInv, SignInTypeOK, AccountType, LinkType, ReqType, SessionType, Types, Versions, DisableTwofa, Bump
<1>. QED  BY <1>1, <1>2, <1>3 DEF SignInInv

LEMMA EnableUserInv ==
  ASSUME SignInInv, EnableUser PROVE SignInInv'
<1>1. SignInTypeOK'
  BY DEF SignInInv, SignInTypeOK, AccountType, LinkType, ReqType, SessionType, Types, EnableUser
<1>2. Once'
  BY DEF SignInInv, SignInTypeOK, AccountType, LinkType, ReqType, SessionType, Types, Once, Applies, EnableUser
<1>3. Versions'
  BY DEF SignInInv, SignInTypeOK, AccountType, LinkType, ReqType, SessionType, Types, Versions, EnableUser
<1>. QED  BY <1>1, <1>2, <1>3 DEF SignInInv

LEMMA SignInStepInv == SignInInv /\ [SignInNext]_signInVars => SignInInv'
<1>. SUFFICES ASSUME SignInInv, [SignInNext]_signInVars PROVE SignInInv'
  OBVIOUS
<1>1. CASE UNCHANGED signInVars
  BY <1>1 DEF SignInInv, SignInTypeOK, Once, Applies, Versions, signInVars
<1>2. CASE SignInNext
  BY <1>2, AskLinkInv, IssueVoidInv, IssueCreateInv, ClickInv, ConsumeInv, ResetPasswordInv, AcceptInviteInv, LoginInv, ImpersonateInv, VerifyTwofaLoginInv, ChallengeExpiresInv, SignInv, SignOutInv, ChangeReadInv, ChangeWriteInv, ToggleTwofaInv, LogoutUserInv, DisableUserInv, DisableTwofaInv, EnableUserInv
     DEF SignInNext
<1>. QED  BY <1>1, <1>2

LEMMA SignInAlways == SignInSpec => []SignInInv
BY SignInInitInv, SignInStepInv, PTL DEF SignInSpec

(* What a link stands for happens at most once, and only if the link was    *)
(* not voided, for any number of clicks, links and requests (consume's      *)
(* conditional update).                                                     *)
THEOREM LinksOnce == SignInSpec => []LinksWorkOnce
<1>1. SignInInv => LinksWorkOnce
  BY DEF SignInInv, SignInTypeOK, Once, LinksWorkOnce
<1>. QED  BY <1>1, SignInAlways, PTL

(* A session is refused after any event that ends all sessions, also one    *)
(* that a login signs later from the row it had read before (tokenVersion). *)
THEOREM SessionsEndAlways == SignInSpec => []SessionsEnd
<1>1. SignInInv => SessionsEnd
  BY DEF SignInInv, Versions, SessionsEnd, Valid
<1>. QED  BY <1>1, SignInAlways, PTL

-----------------------------------------------------------------------------
(***************************************************************************)
(* isOpen looks at the ranges of two days; the reference, Covered, takes   *)
(* the week as a circle.  They agree for weeks and days of any length,     *)
(* also where a range crosses midnight or the end of the week.             *)
(*                                                                         *)
(* Routes are placed one by one: the routes that are not placed yet may    *)
(* all come after those that are (InOrder), as the next one is of the      *)
(* lowest priority number left, and of weight 0 only when no other is. The *)
(* repeat caller's choice then moves routes that it prefers past others.   *)
(***************************************************************************)
\* A remainder of a number in range, and of one just below it.
LEMMA ModSame == ASSUME NEW m \in Nat \ {0}, NEW x \in 0 .. m - 1 PROVE x % m = x
OBVIOUS

LEMMA ModBelow == ASSUME NEW m \in Nat \ {0}, NEW x \in Int, -m <= x, x < 0 PROVE x % m = x + m
OBVIOUS

LEMMA Mono == ASSUME NEW a \in Nat, NEW b \in Nat, NEW c \in Nat, a <= b PROVE a * c <= b * c
OBVIOUS

\* How many days ago, in the circle of the week.
Ago(e, d) == IF e <= d THEN d - e ELSE d - e + NDays

LEMMA DaysAgo ==
  ASSUME NEW d \in Day, NEW e \in Day
  PROVE  /\ Ago(e, d) \in 0 .. NDays - 1
         /\ Ago(e, d) = 0 <=> e = d
         /\ e = (d + NDays - 1) % NDays <=> Ago(e, d) = 1 % NDays
<1>1. NDays \in Nat \ {0} /\ d \in 0 .. NDays - 1 /\ e \in 0 .. NDays - 1
  BY WeekAssumption DEF Day
<1>2. Ago(e, d) \in 0 .. NDays - 1 /\ (Ago(e, d) = 0 <=> e = d)
  BY <1>1 DEF Ago
<1>3. (d + NDays - 1) % NDays = IF d = 0 THEN NDays - 1 ELSE d - 1
  <2>1. CASE d = 0
    BY <1>1, <2>1, ModSame
  <2>2. CASE d # 0
    <3>1. (d - 1) % NDays = d - 1
      BY <1>1, <2>2, ModSame
    <3>2. (d + NDays - 1) % NDays = d - 1
      BY <1>1, <2>2
    <3> QED
      BY <2>2, <3>2
  <2> QED
    BY <2>1, <2>2
<1>4. 1 % NDays = IF NDays = 1 THEN 0 ELSE 1
  BY <1>1, ModSame
<1> QED
  BY <1>1, <1>2, <1>3, <1>4 DEF Ago

\* How long ago a range of day e opened at time t of day d.
LEMMA TimeAgo ==
  ASSUME NEW d \in Day, NEW e \in Day, NEW s \in Time, NEW t \in Time
  PROVE  ((d - e) * NTimes + t - s) % (NDays * NTimes)
           = IF Ago(e, d) = 0 /\ t < s THEN NDays * NTimes + t - s ELSE Ago(e, d) * NTimes + t - s
<1>1. /\ NDays \in Nat \ {0} /\ d \in 0 .. NDays - 1 /\ e \in 0 .. NDays - 1
      /\ NTimes \in Nat \ {0} /\ s \in 0 .. NTimes - 1 /\ t \in 0 .. NTimes - 1
  BY WeekAssumption DEF Day, Time
<1> DEFINE week == NDays * NTimes
           x == (d - e) * NTimes + t - s
<1>2. week \in Nat \ {0} /\ NTimes <= week
  BY <1>1, Mono
<1>3. Ago(e, d) \in 0 .. NDays - 1 /\ (Ago(e, d) = 0 <=> e = d)
  BY DaysAgo
<1>4. Ago(e, d) * NTimes \in Nat /\ Ago(e, d) * NTimes <= week - NTimes
  <2>1. Ago(e, d) * NTimes <= (NDays - 1) * NTimes
    BY <1>1, <1>3, Mono
  <2>2. (NDays - 1) * NTimes = week - NTimes
    BY <1>1
  <2> QED
    BY <1>1, <1>3, <2>1, <2>2
<1>5. Ago(e, d) # 0 => NTimes <= Ago(e, d) * NTimes
  BY <1>1, <1>3, Mono
<1>6. (d - e) * NTimes = IF e <= d THEN Ago(e, d) * NTimes ELSE Ago(e, d) * NTimes - week
  BY <1>1 DEF Ago
<1>7. Ago(e, d) * NTimes \in Int /\ x \in Int
  BY <1>1, <1>4
<1>8. CASE e > d
  <2>1. x = Ago(e, d) * NTimes + t - s - week
    BY <1>1, <1>2, <1>6, <1>7, <1>8
  <2>2. Ago(e, d) # 0
    BY <1>1, <1>3, <1>8
  <2> DEFINE y == Ago(e, d) * NTimes
  <2>3. y \in Nat /\ NTimes <= y /\ y <= week - NTimes /\ x = y + t - s - week
    BY <1>4, <1>5, <2>1, <2>2
  <2> HIDE DEF x, y, week
  <2>4. -week <= x /\ x < 0
    BY <1>1, <1>2, <2>3
  <2>5. x % week = x + week
    BY <1>2, <1>7, <2>4, ModBelow
  <2>6. x % week = y + t - s
    BY <1>1, <1>2, <2>3, <2>5
  <2> QED
    BY <2>2, <2>6 DEF x, y, week
<1>9. CASE e <= d /\ (e # d \/ s <= t)
  <2> DEFINE y == Ago(e, d) * NTimes
  <2>1. y \in Nat /\ y <= week - NTimes /\ x = y + t - s /\ (y >= NTimes \/ s <= t)
    BY <1>1, <1>3, <1>4, <1>5, <1>6, <1>9
  <2>2. ~(Ago(e, d) = 0 /\ t < s)
    BY <1>1, <1>3, <1>9
  <2> HIDE DEF x, y, week
  <2>3. x \in 0 .. week - 1
    BY <1>1, <1>2, <2>1
  <2>4. x % week = x
    BY <1>2, <2>3, ModSame
  <2> QED
    BY <2>1, <2>2, <2>4 DEF x, y, week
<1>10. CASE e = d /\ t < s
  <2>1. x = t - s /\ Ago(e, d) = 0
    BY <1>1, <1>3, <1>6, <1>10
  <2> HIDE DEF x, week
  <2>2. -week <= x /\ x < 0
    BY <1>1, <1>2, <1>10, <2>1
  <2>3. x % week = x + week
    BY <1>2, <1>7, <2>2, ModBelow
  <2> QED
    BY <1>1, <1>2, <1>10, <2>1, <2>3 DEF x, week
<1> QED
  BY <1>1, <1>8, <1>9, <1>10

\* A range covers a time of the week when it is one of today's, or the rest of one of
\* yesterday's.
LEMMA RangeCovers ==
  ASSUME NEW d \in Day, NEW e \in Day, NEW t \in Time, NEW r \in Opening
  PROVE  ((d - e) * NTimes + t - r[1]) % (NDays * NTimes) < (r[2] - r[1]) % NTimes
         <=> \/ e = d /\ r[1] <= t /\ (r[1] < r[2] => t < r[2])
             \/ e = (d + NDays - 1) % NDays /\ r[1] > r[2] /\ t < r[2]
<1>1. PICK s \in Time, u \in Time : r = <<s, u>> /\ s # u /\ r[1] = s /\ r[2] = u
  BY DEF Opening
<1>2. /\ NDays \in Nat \ {0} /\ NTimes \in Nat \ {0}
      /\ s \in 0 .. NTimes - 1 /\ t \in 0 .. NTimes - 1 /\ u \in 0 .. NTimes - 1
  BY WeekAssumption DEF Time
<1>3. (u - s) % NTimes = IF s < u THEN u - s ELSE u - s + NTimes
  <2>1. CASE s < u
    <3>1. u - s \in 0 .. NTimes - 1
      BY <1>2, <2>1
    <3> QED
      BY <1>2, <2>1, <3>1, ModSame
  <2>2. CASE u < s
    <3> DEFINE x == u - s
    <3>1. x \in Int /\ -NTimes <= x /\ x < 0 /\ x + NTimes = u - s + NTimes
      BY <1>2, <2>2
    <3> HIDE DEF x
    <3>2. x % NTimes = x + NTimes
      BY <1>2, <3>1, ModBelow
    <3>3. x % NTimes = u - s + NTimes
      BY <3>1, <3>2
    <3> QED
      BY <1>2, <2>2, <3>3 DEF x
  <2> QED
    BY <1>1, <1>2, <2>1, <2>2
<1> DEFINE week == NDays * NTimes
           ago == Ago(e, d)
           y == ago * NTimes
           after == ((d - e) * NTimes + t - s) % week
           length == (u - s) % NTimes
<1>4. after = IF ago = 0 /\ t < s THEN week + t - s ELSE y + t - s
  BY <1>1, TimeAgo
<1>5. /\ ago \in 0 .. NDays - 1 /\ (ago = 0 <=> e = d)
      /\ e = (d + NDays - 1) % NDays <=> ago = 1 % NDays
  BY DaysAgo
<1>6. /\ 1 % NDays = IF NDays = 1 THEN 0 ELSE 1
  BY <1>2, ModSame
<1>7. /\ week \in Nat /\ (NDays = 1 => week = NTimes) /\ (NDays # 1 => week >= 2 * NTimes)
  BY <1>2, Mono
<1>8. /\ y \in Nat /\ (ago = 0 => y = 0) /\ (ago = 1 => y = NTimes)
      /\ (ago # 0 /\ ago # 1 => y >= 2 * NTimes)
  BY <1>2, <1>5, Mono
<1> HIDE DEF week, ago, y, after, length
<1>9. length = IF s < u THEN u - s ELSE u - s + NTimes
  BY <1>3 DEF length
<1>10. after < length <=> \/ ago = 0 /\ s <= t /\ (s < u => t < u)
                          \/ ago = 1 % NDays /\ s > u /\ t < u
  <2>1. CASE ago = 0 /\ t < s
    BY <1>1, <1>2, <1>4, <1>6, <1>7, <1>9, <2>1
  <2>2. CASE ago = 0 /\ s <= t
    BY <1>1, <1>2, <1>4, <1>6, <1>8, <1>9, <2>2
  <2>3. CASE ago = 1
    BY <1>1, <1>2, <1>4, <1>5, <1>6, <1>8, <1>9, <2>3
  <2>4. CASE ago # 0 /\ ago # 1
    BY <1>1, <1>2, <1>4, <1>5, <1>6, <1>8, <1>9, <2>4
  <2> QED
    BY <1>2, <2>1, <2>2, <2>3, <2>4
<1> QED
  BY <1>1, <1>5, <1>10 DEF after, length, week

(* A route is open exactly when a range of its schedule covers the time,    *)
(* counted from when the range starts (isOpen, routing/schedule).           *)
THEOREM OpenAsScheduled ==
  ASSUME NEW schedule, Weekly(schedule), NEW d \in Day, NEW t \in Time
  PROVE  isOpen(schedule, d, t) <=> DOMAIN schedule = {} \/ Covered(schedule, d, t)
<1> DEFINE y == (d + NDays - 1) % NDays
<1>1. \A e \in DOMAIN schedule : e \in Day /\ \A r \in schedule[e] : r \in Opening
  BY DEF Weekly
<1>2. Covered(schedule, d, t) <=>
        \E e \in DOMAIN schedule : \E r \in schedule[e] :
          \/ e = d /\ r[1] <= t /\ (r[1] < r[2] => t < r[2])
          \/ e = y /\ r[1] > r[2] /\ t < r[2]
  BY <1>1, RangeCovers DEF Covered
<1> HIDE DEF y
<1>3. OpenToday(schedule, d, t) <=>
        d \in DOMAIN schedule /\ \E r \in schedule[d] : r[1] <= t /\ (r[1] < r[2] => t < r[2])
  BY DEF OpenToday, Hours
<1>4. OpenSinceYesterday(schedule, d, t) <=>
        y \in DOMAIN schedule /\ \E r \in schedule[y] : r[1] > r[2] /\ t < r[2]
  BY DEF OpenSinceYesterday, Hours, y
<1> QED
  BY <1>2, <1>3, <1>4 DEF isOpen
\* A caller whose state nobody knows is taken by the routes without a filter.
LEMMA TakesIsFilter ==
  ASSUME call \in Calls, NEW r \in call.routes
  PROVE  Takes(r) <=> /\ r.active
                      /\ isOpen(r.hours, call.day, call.time)
                      /\ geoAllows(r.states, call.from)
                      /\ r.agent # "away"
<1>1. /\ call.day \in Day /\ call.time \in Time
      /\ Weekly(r.hours) /\ Unknown \notin r.states
  BY CallsAssumption
<1>2. isOpen(r.hours, call.day, call.time)
        <=> DOMAIN r.hours = {} \/ Covered(r.hours, call.day, call.time)
  BY <1>1, OpenAsScheduled
<1>3. geoAllows(r.states, call.from) <=> r.states = {} \/ (call.from # Unknown /\ call.from \in r.states)
  BY <1>1 DEF geoAllows
<1> QED
  BY <1>2, <1>3 DEF Takes

\* May a be offered the call before b?
Before(a, b) ==
  /\ a.priority <= b.priority
  /\ a.priority = b.priority => (a.weight = 0 => b.weight = 0)

Takers == {r \in call.routes : Takes(r)}
Places == 1 .. Len(list)

(* While orderByPriorityAndWeight places the routes, those it has placed    *)
(* and those it has not are the ones that take the call, and no route is    *)
(* placed behind one that should come after it.                             *)
InOrder ==
  progress = "order" =>
    /\ pool \cup {list[i] : i \in Places} = Takers
    /\ \A i \in Places : list[i] \notin pool /\ \A q \in pool : Before(list[i], q)
    /\ \A i, j \in Places : i < j => list[i] # list[j] /\ Before(list[i], list[j])

RulesInv ==
  /\ call \in Calls
  /\ progress # "ready" => list \in Seq(call.routes)
  /\ pool \subseteq call.routes
  /\ progress = "gather" => list = <<>>
  /\ InOrder
  /\ RoutesAsConfigured

LEMMA PickInOrder == ASSUME RulesInv, Pick PROVE RulesInv'
<1>1. PICK r \in Pickable : pool' = pool \ {r} /\ list' = Append(list, r)
  BY DEF Pick
<1>2. /\ r \in pool /\ r \in call.routes /\ progress = "order" /\ progress' = "order" /\ call' = call
      /\ pool \subseteq call.routes
  BY <1>1 DEF Pick, Pickable, InTurn, RulesInv
<1>3. /\ list \in Seq(call.routes) /\ Len(list) \in Nat
  BY <1>2 DEF RulesInv
<1>4. /\ list' \in Seq(call.routes) /\ Len(list') = Len(list) + 1 /\ list'[Len(list) + 1] = r
      /\ \A i \in Places : list'[i] = list[i]
      /\ Places' = Places \cup {Len(list) + 1} /\ Len(list) + 1 \notin Places
  BY <1>1, <1>2, <1>3, AppendProperties DEF Places
<1>5. ASSUME NEW q \in pool PROVE Before(r, q)
  <2>1. /\ r.priority <= q.priority /\ \A p \in pool : r.priority <= p.priority
        /\ r.weight > 0 \/ \A p \in InTurn : p.weight = 0
    BY <1>1, <1>5 DEF Pickable, InTurn
  <2>2. /\ r.priority \in Int /\ q.priority \in Int /\ r.weight \in Nat
    BY <1>2, <1>5, CallsAssumption DEF RulesInv
  <2>3. ASSUME q.priority = r.priority PROVE q \in InTurn
    BY <2>1, <2>3, <1>5 DEF InTurn
  <2> QED
    BY <2>1, <2>2, <2>3 DEF Before
<1>6. /\ pool \cup {list[i] : i \in Places} = Takers
      /\ \A i \in Places : list[i] \notin pool /\ \A q \in pool : Before(list[i], q)
      /\ \A i, j \in Places : i < j => list[i] # list[j] /\ Before(list[i], list[j])
  BY <1>2 DEF RulesInv, InOrder
<1>7. Takers' = Takers
  BY <1>2 DEF Takers, Takes, Covered
<1>8. pool' \cup {list'[i] : i \in Places'} = Takers'
  <2>1. {list'[i] : i \in Places'} = {list[i] : i \in Places} \cup {r}
    BY <1>4
  <2> QED
    BY <1>1, <1>2, <1>6, <1>7, <2>1
<1>9. \A i \in Places' : list'[i] \notin pool' /\ \A q \in pool' : Before(list'[i], q)
  BY <1>1, <1>4, <1>5, <1>6
<1>10. \A i, j \in Places' : i < j => list'[i] # list'[j] /\ Before(list'[i], list'[j])
  <2> SUFFICES ASSUME NEW i \in Places', NEW j \in Places', i < j
               PROVE  list'[i] # list'[j] /\ Before(list'[i], list'[j])
    OBVIOUS
  <2>1. i \in Places
    BY <1>3, <1>4 DEF Places
  <2>2. CASE j \in Places
    BY <1>4, <1>6, <2>1, <2>2
  <2>3. CASE j = Len(list) + 1
    BY <1>2, <1>4, <1>6, <2>1, <2>3
  <2> QED
    BY <1>4, <2>2, <2>3
<1>11. InOrder'
  BY <1>8, <1>9, <1>10 DEF InOrder, Before
<1> QED
  BY <1>1, <1>2, <1>4, <1>11 DEF RulesInv, RoutesAsConfigured

\* What a repeat caller is offered first are the routes of rank 0.
LEMMA PreferredRank ==
  ASSUME RulesInv, NEW r
  PROVE  Rank(r) = IF Preferred(r.owner) THEN 0 ELSE 1
<1>1. call.mode \in {"NORMAL", "SAME", "DIFFERENT"}
  BY CallsAssumption DEF RulesInv
<1>2. CASE call.mode = "NORMAL"
  BY <1>2 DEF Preferred, Rank
<1>3. CASE call.mode = "SAME"
  BY <1>3 DEF Preferred, Rank
<1>4. CASE call.mode = "DIFFERENT"
  <2>1. call.seen = <<>> => DOMAIN call.seen = {}
    OBVIOUS
  <2> QED
    BY <1>4, <2>1 DEF Preferred, Rank
<1> QED
  BY <1>1, <1>2, <1>3, <1>4

LEMMA RepeatInOrder == ASSUME RulesInv, OrderForRepeat PROVE RulesInv'
<1>1. PICK old \in [DOMAIN list -> DOMAIN list] :
        /\ \A k \in DOMAIN list : \E i \in DOMAIN list : old[i] = k
        /\ \A i, j \in DOMAIN list : i < j => Goes(old[i], old[j])
        /\ list' = [i \in DOMAIN list |-> list[old[i]]]
  BY DEF OrderForRepeat
<1>2. /\ progress = "order" /\ pool = {} /\ progress' = "ready" /\ call' = call /\ pool' = pool
      /\ list \in Seq(call.routes)
  BY DEF OrderForRepeat, RulesInv
<1>3. DOMAIN list = Places /\ Places \subseteq Nat /\ DOMAIN list' = Places
  BY <1>1, <1>2 DEF Places
<1>4. /\ {list[i] : i \in Places} = Takers
      /\ \A i, j \in Places : i < j => list[i] # list[j] /\ Before(list[i], list[j])
  BY <1>2 DEF RulesInv, InOrder
<1>5. \A i \in Places : old[i] \in Places /\ list'[i] = list[old[i]]
  BY <1>1, <1>3
<1>6. {list'[i] : i \in Places} = Takers
  <2>1. ASSUME NEW k \in Places
        PROVE  \E i \in Places : list'[i] = list[k]
    <3>1. PICK i \in Places : old[i] = k
      BY <1>1, <1>3
    <3> QED
      BY <1>5, <3>1
  <2>2. {list'[i] : i \in Places} = {list[k] : k \in Places}
    BY <1>5, <2>1
  <2> QED
    BY <1>4, <2>2
<1>7. ASSUME NEW i \in Places, NEW j \in Places, i < j
      PROVE  LET a == list[old[i]]  b == list[old[j]]
             IN  /\ a # b
                 /\ Rank(a) <= Rank(b)
                 /\ Rank(a) = Rank(b) => Before(a, b)
  <2> DEFINE a == list[old[i]]
             b == list[old[j]]
  <2>1. /\ Rank(a) = IF Preferred(a.owner) THEN 0 ELSE 1
        /\ Rank(b) = IF Preferred(b.owner) THEN 0 ELSE 1
    BY PreferredRank
  <2>2. Goes(old[i], old[j])
    BY <1>1, <1>3, <1>7
  <2>3. CASE Preferred(a.owner) <=> Preferred(b.owner)
    <3>1. old[i] < old[j]
      BY <2>2, <2>3 DEF Goes
    <3>2. a # b /\ Before(a, b)
      BY <1>4, <1>5, <1>7, <3>1
    <3> QED
      BY <2>1, <2>3, <3>2
  <2>4. CASE ~(Preferred(a.owner) <=> Preferred(b.owner))
    <3>1. Preferred(a.owner) /\ ~Preferred(b.owner)
      BY <2>2, <2>4 DEF Goes
    <3> QED
      BY <2>1, <3>1
  <2> QED
    BY <2>3, <2>4
<1>8. Takers' = Takers /\ \A r : Rank(r)' = Rank(r)
  BY <1>2 DEF Takers, Takes, Covered, Rank
<1>9. RoutesAsConfigured'
  BY <1>2, <1>3, <1>5, <1>6, <1>7, <1>8 DEF RoutesAsConfigured, Takers, Before
<1> QED
  BY <1>2, <1>9 DEF RulesInv, InOrder

LEMMA RulesStep == RulesInv /\ [RulesNext]_rulesVars => RulesInv'
<1> SUFFICES ASSUME RulesInv, [RulesNext]_rulesVars PROVE RulesInv'
  OBVIOUS
<1>1. CASE Gather
  <2>1. /\ call' = call /\ call \in Calls /\ list' = <<>> /\ progress' = "order" /\ Places' = {}
    BY <1>1 DEF Gather, RulesInv, Places
  <2>2. pool' = Takers
    BY <1>1, <2>1, TakesIsFilter DEF Gather, Takers
  <2>3. Takers' = Takers
    BY <2>1 DEF Takers, Takes, Covered
  <2> QED
    BY <2>1, <2>2, <2>3 DEF RulesInv, InOrder, RoutesAsConfigured, Takers
<1>2. CASE Pick
  BY <1>2, PickInOrder
<1>3. CASE OrderForRepeat
  BY <1>3, RepeatInOrder
<1>4. CASE UNCHANGED rulesVars
  <2>1. InOrder'
    BY <1>4 DEF rulesVars, RulesInv, InOrder, Before, Places, Takers, Takes, Covered
  <2>2. RoutesAsConfigured'
    <3>1. progress' = progress /\ list' = list /\ call' = call
      BY <1>4 DEF rulesVars
    <3>2. \A r : (Takes(r)' <=> Takes(r)) /\ Rank(r)' = Rank(r)
      BY <3>1 DEF Takes, Covered, Rank
    <3>3. RoutesAsConfigured
      BY DEF RulesInv
    <3> QED
      BY <3>1, <3>2, <3>3 DEF RoutesAsConfigured
  <2> QED
    BY <1>4, <2>1, <2>2 DEF rulesVars, RulesInv
<1> QED
  BY <1>1, <1>2, <1>3, <1>4 DEF RulesNext

LEMMA RulesAlways == RulesSpec => []RulesInv
<1>1. RulesInit => RulesInv
  BY EmptySeq DEF RulesInit, NothingChosen, RulesInv, InOrder, RoutesAsConfigured
<1> QED
  BY <1>1, RulesStep, PTL DEF RulesSpec

(* A call is offered to exactly the routes that take it at this time of the *)
(* week from this state, each once, in the order of repeatRouting's choice, *)
(* the priorities and the weights, for any call, campaign and week.         *)
THEOREM RoutesAreAsConfigured == RulesSpec => []RoutesAsConfigured
<1>1. RulesInv => RoutesAsConfigured
  BY DEF RulesInv
<1> QED
  BY <1>1, RulesAlways, PTL

-----------------------------------------------------------------------------
(* The parts and the whole *)

(* A behaviour of Platform is one of each of its parts, which rests while   *)
(* another moves; what is proved of the parts holds of it. (Elsewhere than  *)
(* in the scene of Rules the call is one that never goes on.)               *)
THEOREM PlatformIsItsParts ==
  PlatformSpec => /\ Spec /\ CarriersSpec /\ SignInSpec /\ PortalsSpec
                  /\ scene = "rules" => RulesSpec
<1>0. PlatformInit /\ scene = "rules" => RulesInit
  BY DEF PlatformInit, RulesInit
<1>1. PlatformInit => Init /\ CarriersInit /\ SignInInit /\ PortalsInit
  BY DEF PlatformInit
<1>2. [PlatformNext]_platformVars => [Next]_vars
  BY DEF PlatformNext, platformVars, InNumbers, InCarriers, InSignIn, InRules, InPortals
<1>3. [PlatformNext]_platformVars => [CarriersNext]_carriersVars
  BY DEF PlatformNext, platformVars, InNumbers, InCarriers, InSignIn, InRules, InPortals
<1>4. [PlatformNext]_platformVars => [SignInNext]_signInVars
  BY DEF PlatformNext, platformVars, InNumbers, InCarriers, InSignIn, InRules, InPortals
<1>5. [PlatformNext]_platformVars => [PortalsNext]_portalsVars
  BY DEF PlatformNext, platformVars, InNumbers, InCarriers, InSignIn, InRules, InPortals
<1>6. [PlatformNext]_platformVars => [RulesNext]_rulesVars
  BY DEF PlatformNext, platformVars, InNumbers, InCarriers, InSignIn, InRules, InPortals
<1> QED
  BY <1>0, <1>1, <1>2, <1>3, <1>4, <1>5, <1>6, PTL
     DEF PlatformSpec, Spec, CarriersSpec, SignInSpec, PortalsSpec, RulesSpec
=============================================================================
