------------------------------ MODULE Numbers ------------------------------
(***************************************************************************)
(* Buying, activating and releasing phone numbers: numbers.service.ts with *)
(* the wallet, the unique index on live numbers, and the two operations of *)
(* customers.controller.ts on numbers.                                     *)
(*                                                                         *)
(* A request is a process: it stops at each await others can tell apart.   *)
(* req[q].step is where it stands, the other fields are what it remembers, *)
(* in particular the row as it was when the request read it.  The quote a  *)
(* purchase starts from lives for 15 minutes; it is an input here.         *)
(***************************************************************************)
EXTENDS Wallet, Sequences, FiniteSets

CONSTANTS
  Numbers,        \* telephone numbers the carrier sells
  Requests,       \* requests the servers handle at a time
  Price,          \* monthly price of a number
  Start,          \* what every wallet holds at first
  Allowance,      \* includedNumbers: so many numbers are free
  MaxNumbers,     \* Tenant.maxNumbers, 0 = no limit
  MaxRows,        \* bound: rows ever created
  MaxCrashes      \* bound: requests whose server stops

ASSUME NumbersAssumption ==
  /\ Threshold \in Int
  /\ Price \in Nat /\ Start \in Nat
  /\ Allowance \in Nat /\ MaxNumbers \in Nat /\ MaxRows \in Nat /\ MaxCrashes \in Nat

VARIABLES
  rows,           \* table PhoneNumber, in the order of creation
  req,            \* the requests
  order,          \* carrier: what became of the order for each row
  lost,           \* rows whose order was placed although the carrier's answer was lost
  crashes

vars == <<rows, req, order, lost, crashes, wallet>>

Live == {"PENDING", "ACTIVE"}
RowIds == 1..MaxRows
RowType == [owner : Tenants, number : Numbers, status : Live \cup {"FAILED", "RELEASED"},
            price : {0, Price},
            ordered : BOOLEAN,      \* providerOrderId is set
            refunds : Nat]          \* refunds of its first month
Results == {"PENDING", "ACTIVE", "FAILED"}

RequestType ==
  [step : {"idle"}]
    \cup [step : {"claim"}, tenant : Tenants, number : Numbers, price : {0, Price}]
    \cup [step : {"order", "check"}, row : RowIds, tenant : Tenants, price : {0, Price}]
    \cup [step : {"save"}, row : RowIds, tenant : Tenants, price : {0, Price}, result : Results]
    \cup [step : {"release", "drop"}, row : RowIds, tenant : Tenants]

Ids == DOMAIN rows
Owned(t) == {r \in Ids : rows[r].owner = t /\ rows[r].status \in Live}

\* (mutant) an index on active numbers only
TakenByActive(n, r) == \E s \in Ids \ {r} : rows[s].number = n /\ rows[s].status = "ACTIVE"

\* PhoneNumber_e164_live_key refuses to make row r of number n live.
Taken(n, r) == \E s \in Ids \ {r} : rows[s].number = n /\ rows[s].status \in Live

\* The carrier sells a number nobody has or has ordered.
Sellable(n) == \A r \in Ids : rows[r].number = n => order[r] \notin {"pending", "active"}

At(q, step) == req[q].step = step
Go(q, state) == req' = [req EXCEPT ![q] = state]
Done(q) == Go(q, [step |-> "idle"])

Init ==
  /\ rows = <<>>
  /\ req = [q \in Requests |-> [step |-> "idle"]]
  /\ order = [r \in RowIds |-> "none"]
  /\ lost = {}
  /\ crashes = 0
  /\ balance = [t \in Tenants |-> Start]
  /\ notified = [t \in Tenants |-> FALSE]

-----------------------------------------------------------------------------
(* purchase *)

\* purchase up to the transaction: any number an earlier search may have quoted, below the
\* account's limit, free or at its price.
Buy(q, t, n) ==
  /\ At(q, "idle")
  /\ MaxNumbers = 0 \/ Cardinality(Owned(t)) < MaxNumbers
  /\ Go(q, [step |-> "claim", tenant |-> t, number |-> n,
            price |-> IF Cardinality(Owned(t)) < Allowance THEN 0 ELSE Price])
  /\ UNCHANGED <<rows, order, lost, crashes, wallet>>

\* The transaction: the first month is charged and the number claimed ...
Claim(q) ==
  /\ At(q, "claim")
  /\ LET t == req[q].tenant  n == req[q].number  p == req[q].price IN
     /\ ~Taken(n, 0) /\ Len(rows) < MaxRows
     /\ Debit(t, p)
     /\ rows' = Append(rows, [owner |-> t, number |-> n, status |-> "PENDING", price |-> p,
                              ordered |-> FALSE, refunds |-> 0])
     /\ Go(q, [step |-> "order", row |-> Len(rows) + 1, tenant |-> t, price |-> p])
  /\ UNCHANGED <<order, lost, crashes>>

\* ... or neither: not enough funds, or somebody was faster.
ClaimFails(q) ==
  /\ At(q, "claim")
  /\ ~Funded(req[q].tenant, req[q].price) \/ Taken(req[q].number, 0)
  /\ Done(q)
  /\ UNCHANGED <<rows, order, lost, crashes, wallet>>

Answered(q, result) == Go(q, [step |-> "save", row |-> req[q].row, tenant |-> req[q].tenant,
                              price |-> req[q].price, result |-> result])

\* purchaseNumber: the carrier takes the order, at once or to be activated later.
Order(q) ==
  /\ At(q, "order") /\ Sellable(rows[req[q].row].number)
  /\ \/ Answered(q, "ACTIVE") /\ order' = [order EXCEPT ![req[q].row] = "active"]
     \/ Answered(q, "PENDING") /\ order' = [order EXCEPT ![req[q].row] = "pending"]
  /\ UNCHANGED <<rows, lost, crashes, wallet>>

\* It refuses, or the call throws: an order is a failed one, placed or not.
OrderRefused(q) ==
  /\ At(q, "order")
  /\ Answered(q, "FAILED")
  /\ UNCHANGED <<rows, order, lost, crashes, wallet>>

OrderAnswerLost(q) ==
  /\ At(q, "order") /\ Sellable(rows[req[q].row].number)
  /\ Answered(q, "FAILED")
  /\ \E state \in {"pending", "active"} : order' = [order EXCEPT ![req[q].row] = state]
  /\ lost' = lost \cup {req[q].row}
  /\ UNCHANGED <<rows, crashes, wallet>>

OrderSettles(r) ==
  /\ order[r] = "pending"
  /\ \E state \in {"active", "failed"} : order' = [order EXCEPT ![r] = state]
  /\ UNCHANGED <<rows, req, lost, crashes, wallet>>

-----------------------------------------------------------------------------
(* list, refreshPending and applyResult *)

\* (mutant) no look at providerOrderId
RefreshableEarly(r) == rows[r].status = "PENDING"

Refreshable(r) == rows[r].status = "PENDING" /\ rows[r].ordered

\* Whoever lists the numbers takes up each order that was pending.
List(q, r) ==
  /\ At(q, "idle")
  /\ r \in Ids /\ Refreshable(r)
  /\ Go(q, [step |-> "check", row |-> r, tenant |-> rows[r].owner, price |-> rows[r].price])
  /\ UNCHANGED <<rows, order, lost, crashes, wallet>>

\* checkOrder: an order that succeeded is reported so even when the number has been
\* released since.
OrderStatus(r) == CASE order[r] = "failed" -> "FAILED"
                    [] order[r] \in {"active", "released"} -> "ACTIVE"
                    [] order[r] \in {"none", "pending"} -> "PENDING"

\* (mutant) only good news are applied
FinalWhenActive(result) == result = "ACTIVE"

Final(result) == result # "PENDING"

Check(q) ==
  /\ At(q, "check")
  /\ LET result == OrderStatus(req[q].row)
     IN IF Final(result) THEN Answered(q, result) ELSE Done(q)
  /\ UNCHANGED <<rows, order, lost, crashes, wallet>>

\* The carrier cannot be reached; the next list tries again.
CheckFails(q) ==
  /\ At(q, "check")
  /\ Done(q)
  /\ UNCHANGED <<rows, order, lost, crashes, wallet>>

\* applyResult of a failed order: refund and status in one transaction, whatever the row
\* says by now.
SaveFailed(q) ==
  /\ At(q, "save") /\ req[q].result = "FAILED"
  /\ Credit(req[q].tenant, req[q].price)
  /\ rows' = [rows EXCEPT ![req[q].row].status = "FAILED", ![req[q].row].refunds = @ + 1]
  /\ Done(q)
  /\ UNCHANGED <<order, lost, crashes>>

\* applyResult of any other; the index may refuse to bring a dead row back.
Save(q) ==
  /\ At(q, "save") /\ req[q].result # "FAILED"
  /\ IF Taken(rows[req[q].row].number, req[q].row)
     THEN rows' = rows
     ELSE rows' = [rows EXCEPT ![req[q].row].status = req[q].result, ![req[q].row].ordered = TRUE]
  /\ Done(q)
  /\ UNCHANGED <<order, lost, crashes, wallet>>

-----------------------------------------------------------------------------
(* release, and the administrator's operations *)

\* The customer, the administrator, or the closing of the account.
Release(q, r) ==
  /\ At(q, "idle")
  /\ r \in Ids /\ rows[r].status = "ACTIVE"
  /\ Go(q, [step |-> "release", row |-> r, tenant |-> rows[r].owner])
  /\ UNCHANGED <<rows, order, lost, crashes, wallet>>

GoDrop(q) == Go(q, [step |-> "drop", row |-> req[q].row, tenant |-> req[q].tenant])

\* First the carrier ...
CarrierReleases(q) ==
  /\ At(q, "release")
  /\ order' = [order EXCEPT ![req[q].row] = IF @ = "active" THEN "released" ELSE @]
  /\ GoDrop(q)
  /\ UNCHANGED <<rows, lost, crashes, wallet>>

\* (mutant) its error is not looked at
RefusalIgnored(q) == GoDrop(q)

\* ... whose error ends the request ...
Refusal(q) == Done(q)

ReleaseFails(q) ==
  /\ At(q, "release")
  /\ Refusal(q)
  /\ UNCHANGED <<rows, order, lost, crashes, wallet>>

\* ... then the row, as one of the customer's rows ...
Drop(q) ==
  /\ At(q, "drop") /\ rows[req[q].row].owner = req[q].tenant
  /\ rows' = [rows EXCEPT ![req[q].row].status = "RELEASED"]
  /\ Done(q)
  /\ UNCHANGED <<order, lost, crashes, wallet>>

\* ... which it no longer is when it has been moved: the update finds nothing and throws,
\* and the customer it was moved to keeps a number that the carrier has taken back.
DropFails(q) ==
  /\ At(q, "drop") /\ rows[req[q].row].owner # req[q].tenant
  /\ Done(q)
  /\ UNCHANGED <<rows, order, lost, crashes, wallet>>

\* moveNumber; a pending number may be moved too.
Move(r, t) ==
  /\ r \in Ids /\ rows[r].status \in Live /\ rows[r].owner # t
  /\ rows' = [rows EXCEPT ![r].owner = t]
  /\ UNCHANGED <<req, order, lost, crashes, wallet>>

\* addExistingNumber: one the platform has already; nothing is ordered or charged.
AddExisting(t, n) ==
  /\ ~Taken(n, 0) /\ Sellable(n) /\ Len(rows) < MaxRows
  /\ rows' = Append(rows, [owner |-> t, number |-> n, status |-> "ACTIVE", price |-> Price,
                           ordered |-> FALSE, refunds |-> 0])
  /\ order' = [order EXCEPT ![Len(rows) + 1] = "active"]
  /\ UNCHANGED <<req, lost, crashes, wallet>>

\* The server stops, or the request fails, between two steps.
Crash(q) ==
  /\ ~At(q, "idle") /\ crashes < MaxCrashes
  /\ crashes' = crashes + 1
  /\ Done(q)
  /\ UNCHANGED <<rows, order, lost, wallet>>

-----------------------------------------------------------------------------
(* The specification *)

Running(q) == \/ Claim(q) \/ ClaimFails(q)
              \/ Order(q) \/ OrderRefused(q) \/ OrderAnswerLost(q)
              \/ Check(q) \/ CheckFails(q) \/ SaveFailed(q) \/ Save(q)
              \/ CarrierReleases(q) \/ ReleaseFails(q) \/ Drop(q) \/ DropFails(q)

Next ==
  \/ \E t \in Tenants, n \in Numbers : AddExisting(t, n)
  \/ \E q \in Requests : \/ \E t \in Tenants, n \in Numbers : Buy(q, t, n)
                         \/ \E r \in RowIds : List(q, r) \/ Release(q, r)
                         \/ Running(q) \/ Crash(q)
  \/ \E r \in RowIds : OrderSettles(r) \/ \E t \in Tenants : Move(r, t)

Spec == Init /\ [][Next]_vars

\* Requests go on, the carrier settles its orders, somebody keeps looking at the list of
\* numbers, and the carrier's answer does not get lost every time.
Fairness == /\ \A q \in Requests : WF_vars(Running(q)) /\ SF_vars(Check(q))
            /\ \A r \in RowIds : /\ WF_vars(OrderSettles(r))
                                 /\ SF_vars(\E q \in Requests : List(q, r))

FairSpec == Spec /\ Fairness

-----------------------------------------------------------------------------
(* Properties *)

\* Every variable stays in its type; in particular no purchase, however many run at once,
\* takes a wallet below zero (debit).
TypeOK ==
  /\ rows \in Seq(RowType) /\ Len(rows) <= MaxRows
  /\ req \in [Requests -> RequestType]
  /\ order \in [RowIds -> {"none", "pending", "active", "failed", "released"}]
  /\ lost \subseteq RowIds
  /\ crashes \in 0..MaxCrashes
  /\ balance \in [Tenants -> Nat]
  /\ notified \in [Tenants -> BOOLEAN]

\* A number belongs to one customer at a time, although late answers may bring rows back
\* to life (applyResult has no look at the row's status).
OneOwner == \A r, s \in Ids : rows[r].number = rows[s].number
                                /\ rows[r].status \in Live /\ rows[s].status \in Live => r = s

\* A customer whose number failed has the first month back, and nobody has it back who
\* has, or later gets, the number (purchase and refreshPending both apply results).
FailedIffRefunded == \A r \in Ids : rows[r].status = "FAILED" <=> rows[r].refunds > 0

\* The platform pays the carrier for no number without a customer, unless the carrier's
\* answer to the order was lost (release: first the carrier, then the row).
HeldIsLive == \A r \in Ids : order[r] = "active" /\ r \notin lost => rows[r].status \in Live

\* "Pending carrier orders are completed", once the row has the order's id.
PendingSettles == \A r \in RowIds : r \in Ids /\ Refreshable(r)
                                      ~> r \in Ids /\ rows[r].status # "PENDING"

\* The first month of a failed order is refunded once.
RefundedOnce == \A r \in Ids : rows[r].refunds <= 1
=============================================================================
