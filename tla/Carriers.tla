------------------------------ MODULE Carriers ------------------------------
(***************************************************************************)
(* The platform's carrier accounts: telephony/providers.service.ts (the    *)
(* list each server keeps for CACHE_MS, forNewNumber),                     *)
(* admin/providers.controller.ts (create, update, remove, makeDefault),    *)
(* and the search and purchase of numbers/numbers.service.ts, where a      *)
(* quote remembers the account it came from.                               *)
(*                                                                         *)
(* Accounts are numbered in the order of createdAt.  One administrator     *)
(* works at a time, on any server; the others hear nothing of it.  Only    *)
(* the start with an empty table (seedFromEnv) is left out.                *)
(***************************************************************************)
EXTENDS Integers, FiniteSets

CONSTANTS
  Server,
  NAccounts,
  CacheTtl,   \* CACHE_MS
  QuoteTtl,   \* SEARCH_TTL_SEC
  Slow        \* the longest a query, or a search at a carrier, takes

ASSUME CarriersAssumption ==
  {NAccounts, CacheTtl, QuoteTtl} \subseteq Nat \ {0} /\ Slow \in Nat

VARIABLES
  table,    \* status of each account, "gone" without a row, and the default
  cache,    \* the list a server keeps, Nothing when it has none
  reading,  \* the list a server's query has read but not yet returned
  search,   \* a customer's search at the carrier that was chosen for it
  quote,    \* the quote of that customer
  admin,    \* what the administrator's request has still to do
  shut      \* units since an account last took new numbers, and since it took calls

carriersVars == <<table, cache, reading, search, quote, admin, shut>>

Account == 1 .. NAccounts
Status == {"ACTIVE", "DRAINING", "DISABLED"}
Nothing == [age |-> -1]
NoRequest == [on |-> "nobody"]
Elsewhere == "another server"

\* Units after which the time an account is shut makes no more difference.
Long == CacheTtl + QuoteTtl + 2 * Slow

Exists(t, c) == t.status[c] # "gone"
Sells(t, c) == t.status[c] = "ACTIVE"
TakesCalls(t, c) == t.status[c] \in {"ACTIVE", "DRAINING"}

CarriersInit ==
  /\ table = [status |-> [c \in Account |-> IF c = 1 THEN "ACTIVE" ELSE "gone"], default |-> 1]
  /\ cache = [s \in Server |-> Nothing]
  /\ reading = [s \in Server |-> Nothing]
  /\ search = Nothing
  /\ quote = Nothing
  /\ admin = NoRequest
  /\ shut = [c \in Account |-> IF c = 1 THEN [numbers |-> 0, calls |-> 0]
                                        ELSE [numbers |-> Long, calls |-> Long]]

\* How long each account is shut when the table is t and n more units have passed.
Counted(was, open, n) == IF open THEN 0 ELSE IF was + n < Long THEN was + n ELSE Long
Watch(t, n) ==
  shut' = [c \in Account |-> [numbers |-> Counted(shut[c].numbers, Sells(t, c), n),
                              calls |-> Counted(shut[c].calls, TakesCalls(t, c), n)]]

-----------------------------------------------------------------------------
(* The list *)

\* all: the list is younger than CACHE_MS; CarriersTick drops it at that age.
Cached(s) == cache[s] # Nothing

\* all: the query reads ...
Read(s) ==
  /\ ~Cached(s)
  /\ reading[s] = Nothing
  /\ reading' = [reading EXCEPT ![s] = [age |-> 0, rows |-> table]]
  /\ UNCHANGED <<table, cache, search, quote, admin, shut>>

\* ... and its answer is kept from now on, also when invalidate came in between.
Fill(s) ==
  /\ reading[s] # Nothing
  /\ cache' = [cache EXCEPT ![s] = [age |-> 0, rows |-> reading[s].rows]]
  /\ reading' = [reading EXCEPT ![s] = Nothing]
  /\ UNCHANGED <<table, search, quote, admin, shut>>

Forget(s) == cache' = [x \in Server |-> IF x = s THEN Nothing ELSE cache[x]]

\* markError invalidates too: a failed order, search, webhook or test.
MarkError(s) ==
  /\ cache[s] # Nothing
  /\ Forget(s)
  /\ UNCHANGED <<table, reading, search, quote, admin, shut>>

\* byId: in the list, else in the table.
ById(s, c) == IF Exists(cache[s].rows, c) THEN cache[s].rows ELSE table

-----------------------------------------------------------------------------
(* Numbers and calls *)

\* (mutant) the customer's own account is used whatever its status
ForNewNumberOwn(s, pinned) ==
  IF pinned # {} THEN {c \in pinned : Exists(ById(s, c), c)}
  ELSE {c \in Account : Sells(cache[s].rows, c)}

\* forNewNumber: the customer's own account, else the default, else the first active.
ForNewNumber(s, pinned) ==
  LET rows == cache[s].rows
      own == {c \in pinned : Sells(ById(s, c), c)}
      default == {c \in Account : Sells(rows, c) /\ rows.default = c}
      active == {c \in Account : Sells(rows, c)}
  IN  IF own # {} THEN own
      ELSE IF default # {} THEN default
      ELSE {c \in active : \A d \in active : c <= d}

\* search: an account is chosen and asked ...
Search(s, pinned) ==
  /\ Cached(s)
  /\ search = Nothing
  /\ \E c \in ForNewNumber(s, pinned) : search' = [age |-> 0, of |-> c]
  /\ UNCHANGED <<table, cache, reading, quote, admin, shut>>

\* ... and what it offers is quoted, in place of an earlier quote, or it has nothing.
Quote ==
  /\ search # Nothing
  /\ quote' \in {quote, [age |-> 0, of |-> search.of]}
  /\ search' = Nothing
  /\ UNCHANGED <<table, cache, reading, admin, shut>>

\* purchase: the account of the quote, whatever its status, if it still exists.
Seller(s) == IF Exists(ById(s, quote.of), quote.of) THEN {quote.of} ELSE ForNewNumber(s, {})

\* The row of the number refers to the table's; no row, no order.
Purchase(s) ==
  /\ Cached(s)
  /\ quote # Nothing
  /\ \E c \in Seller(s) : Exists(table, c)
  /\ quote' = Nothing
  /\ UNCHANGED <<table, cache, reading, search, admin, shut>>

\* onInbound: calls to an account's numbers are refused once it is DISABLED.
Answers(s, c) == Cached(s) /\ Exists(table, c) /\ TakesCalls(ById(s, c), c)

-----------------------------------------------------------------------------
(* The administrator.  A request writes the row, then makes it the default, *)
(* then drops the list of its server; an error ends it before that.         *)

\* create and update; the default is not turned off.
SaveAccount(s, c, status, isDefault) ==
  /\ admin = NoRequest
  /\ table.default = c => status = "ACTIVE"
  /\ table' = [table EXCEPT !.status[c] = status]
  /\ admin' = [on |-> s, makes |-> IF isDefault THEN {c} ELSE {}]
  /\ Watch(table', 0)
  /\ UNCHANGED <<cache, reading, search, quote>>

\* makeDefault refuses an account that is not active.
MakeDefault ==
  /\ admin # NoRequest
  /\ \E c \in admin.makes :
       IF Sells(table, c)
       THEN table' = [table EXCEPT !.default = c] /\ admin' = [admin EXCEPT !.makes = {}]
       ELSE admin' = NoRequest /\ UNCHANGED table
  /\ UNCHANGED <<cache, reading, search, quote, shut>>

\* remove; whether numbers are live on the account is not followed here.
RemoveAccount(s, c) ==
  /\ admin = NoRequest
  /\ Exists(table, c)
  /\ table.default # c
  /\ table' = [table EXCEPT !.status[c] = "gone"]
  /\ admin' = [on |-> s, makes |-> {}]
  /\ UNCHANGED <<cache, reading, search, quote, shut>>

Invalidate ==
  /\ admin # NoRequest
  /\ admin.makes = {}
  /\ Forget(admin.on)
  /\ admin' = NoRequest
  /\ UNCHANGED <<table, reading, search, quote, shut>>

-----------------------------------------------------------------------------
Older(r, ttl) == IF r = Nothing \/ r.age + 1 >= ttl THEN Nothing ELSE [r EXCEPT !.age = @ + 1]

CarriersTick ==
  /\ \A s \in Server : reading[s].age < Slow
  /\ search.age < Slow
  /\ cache' = [s \in Server |-> Older(cache[s], CacheTtl)]
  /\ reading' = [s \in Server |-> Older(reading[s], Slow + 1)]
  /\ search' = Older(search, Slow + 1)
  /\ quote' = Older(quote, QuoteTtl)
  /\ Watch(table, 1)
  /\ UNCHANGED <<table, admin>>

CarriersNext ==
  \/ \E s \in Server : Read(s) \/ Fill(s) \/ MarkError(s) \/ Purchase(s)
  \/ \E s \in Server, c \in Account : Search(s, {}) \/ Search(s, {c})
  \/ \E s \in Server \cup {Elsewhere}, c \in Account :
       \/ \E status \in Status, isDefault \in BOOLEAN : SaveAccount(s, c, status, isDefault)
       \/ RemoveAccount(s, c)
  \/ Quote \/ MakeDefault \/ Invalidate \/ CarriersTick

CarriersSpec == CarriersInit /\ [][CarriersNext]_carriersVars

-----------------------------------------------------------------------------
(* An account that is turned off gets no new number, and none of its calls  *)
(* is taken, once the lists and quotes made before that have run out: the   *)
(* cache of providers.service.ts:96, the invalidate of :106 that a query in *)
(* flight outlives, and the quote of numbers.service.ts:85 that purchase    *)
(* follows whatever the status is by then.                                  *)
TurnedOffIsUnused ==
  /\ \A s \in Server, c \in Account :
       Answers(s, c) /\ ~TakesCalls(table, c) => shut[c].calls < CacheTtl + Slow
  /\ \A s \in Server : Cached(s) /\ quote # Nothing =>
       \A c \in Seller(s) : Exists(table, c) /\ ~Sells(table, c) =>
         shut[c].numbers < CacheTtl + QuoteTtl + 2 * Slow - 1
=============================================================================
