--------------------------- MODULE NumbersProofs ---------------------------
(***************************************************************************)
(* A telephone number has one owner at a time; a failed order is refunded, *)
(* and what the carrier is paid for belongs to somebody.  For any number   *)
(* of customers, numbers, requests, rows and crashes.                      *)
(***************************************************************************)
EXTENDS Numbers, SequenceTheorems, TLAPS

\* A request that remembers a row remembers one that exists.
RowsExist == \A q \in Requests : req[q].step \notin {"idle", "claim"} => req[q].row \in Ids

Inv == TypeOK /\ RowsExist /\ OneOwner

\* Rows as a function, which is how the steps change them.
LEMMA RowsTyped ==
  ASSUME rows \in Seq(RowType)
  PROVE  /\ Ids = 1..Len(rows) /\ Len(rows) \in Nat
         /\ \A r \in Ids : rows[r] \in RowType
  BY DEF Ids

\* A changed row is still one of a sequence of rows.
LEMMA ChangedRows ==
  ASSUME rows \in Seq(RowType), NEW r \in Ids, NEW row \in RowType
  PROVE  /\ [rows EXCEPT ![r] = row] \in Seq(RowType)
         /\ Len([rows EXCEPT ![r] = row]) = Len(rows)
         /\ DOMAIN [rows EXCEPT ![r] = row] = Ids
  BY ExceptSeq DEF Ids

\* What one request does to the requests.
LEMMA GoTypes ==
  ASSUME TypeOK, NEW q \in Requests, NEW s \in RequestType, Go(q, s)
  PROVE  /\ req' \in [Requests -> RequestType]
         /\ req'[q] = s
         /\ \A p \in Requests \ {q} : req'[p] = req[p]
  BY DEF TypeOK, Go

\* What a request remembers, by where it stands.
LEMMA Remembers ==
  ASSUME TypeOK, RowsExist, NEW q \in Requests
  PROVE  /\ At(q, "claim") => /\ req[q].tenant \in Tenants /\ req[q].number \in Numbers
                              /\ req[q].price \in {0, Price}
         /\ req[q].step \in {"order", "check", "save"} =>
              req[q].tenant \in Tenants /\ req[q].price \in {0, Price}
         /\ req[q].step \in {"release", "drop"} => req[q].tenant \in Tenants
         /\ At(q, "save") => req[q].result \in Results
         /\ ~At(q, "idle") /\ ~At(q, "claim") => req[q].row \in Ids /\ req[q].row \in RowIds
  BY DEF TypeOK, RowsExist, At, RequestType, Ids

LEMMA InitInv == Init => Inv
  BY NumbersAssumption, EmptySeq
  DEF Init, Inv, TypeOK, RowsExist, OneOwner, Ids, RequestType, RowType, RowIds

\* What a step has to show when it leaves the wallets to Debit and Credit.
Kept == /\ rows' \in Seq(RowType) /\ Len(rows') <= MaxRows
        /\ Ids \subseteq Ids'
        /\ OneOwner'

LEMMA SameRows ==
  ASSUME Inv, UNCHANGED rows
  PROVE  Kept
  BY DEF Inv, TypeOK, Kept, Ids, OneOwner

\* A row for a number that is not taken.
LEMMA NewRow ==
  ASSUME Inv, NEW row \in RowType, ~Taken(row.number, 0), Len(rows) < MaxRows,
         rows' = Append(rows, row)
  PROVE  Kept /\ Len(rows) + 1 \in Ids'
<1>1. /\ rows \in Seq(RowType) /\ Len(rows) \in Nat /\ Ids = 1..Len(rows)
  BY RowsTyped DEF Inv, TypeOK
<1>2. /\ rows' \in Seq(RowType) /\ Len(rows') = Len(rows) + 1 /\ Ids' = 1..(Len(rows) + 1)
      /\ \A r \in Ids : rows'[r] = rows[r]
      /\ rows'[Len(rows) + 1] = row
  BY <1>1, AppendProperties DEF Ids
<1>3. \A r \in Ids : ~(rows[r].number = row.number /\ rows[r].status \in Live)
  BY <1>1 DEF Taken
<1>4. OneOwner'
  <2> SUFFICES ASSUME NEW r \in Ids', NEW s \in Ids', rows'[r].number = rows'[s].number,
                      rows'[r].status \in Live, rows'[s].status \in Live
               PROVE  r = s
    BY DEF OneOwner
  <2>1. CASE r \in Ids /\ s \in Ids
    BY <2>1, <1>2 DEF Inv, OneOwner
  <2>2. CASE r \notin Ids /\ s \notin Ids
    BY <2>2, <1>1, <1>2
  <2>3. CASE r \in Ids /\ s \notin Ids
    BY <2>3, <1>1, <1>2, <1>3
  <2>4. CASE r \notin Ids /\ s \in Ids
    BY <2>4, <1>1, <1>2, <1>3
  <2> QED
    BY <2>1, <2>2, <2>3, <2>4
<1> QED
  BY <1>1, <1>2, <1>4, NumbersAssumption DEF Kept

\* A row that stays dead or live, or comes to life while nobody has its number.
LEMMA ChangedRow ==
  ASSUME Inv, NEW r \in Ids, NEW row \in RowType, row.number = rows[r].number,
         row.status \in Live => rows[r].status \in Live \/ ~Taken(row.number, r),
         rows' = [rows EXCEPT ![r] = row]
  PROVE  Kept
<1>1. /\ rows \in Seq(RowType) /\ Ids = 1..Len(rows)
  BY RowsTyped DEF Inv, TypeOK
<1>2. /\ rows' \in Seq(RowType) /\ Len(rows') = Len(rows) /\ Ids' = Ids
      /\ \A s \in Ids : rows'[s] = IF s = r THEN row ELSE rows[s]
  BY <1>1, ExceptSeq DEF Ids
<1>3. OneOwner'
  <2> SUFFICES ASSUME NEW s \in Ids, s # r, rows[s].number = row.number,
                      rows[s].status \in Live, row.status \in Live
               PROVE  FALSE
    BY <1>2 DEF OneOwner, Inv
  <2> QED
    BY DEF Inv, OneOwner, Taken
<1> QED
  BY <1>2, <1>3 DEF Kept, Inv, TypeOK

-----------------------------------------------------------------------------
(* The wallet *)

LEMMA DebitTypes ==
  ASSUME TypeOK, NEW t \in Tenants, NEW amount \in {0, Price}, Debit(t, amount)
  PROVE  balance' \in [Tenants -> Nat] /\ notified' \in [Tenants -> BOOLEAN]
  BY NumbersAssumption DEF TypeOK, Debit, Funded

LEMMA CreditTypes ==
  ASSUME TypeOK, NEW t \in Tenants, NEW amount \in {0, Price}, Credit(t, amount)
  PROVE  balance' \in [Tenants -> Nat] /\ notified' \in [Tenants -> BOOLEAN]
  BY NumbersAssumption DEF TypeOK, Credit

-----------------------------------------------------------------------------
(* The steps *)

\* The parts of Inv a step leaves to be shown, when request q goes on to state s.
LEMMA Goes ==
  ASSUME Inv, NEW q \in Requests, NEW s \in RequestType, Go(q, s), Kept,
         s.step \notin {"idle", "claim"} => s.row \in Ids',
         order' \in [RowIds -> {"none", "pending", "active", "failed", "released"}],
         lost' \subseteq RowIds, crashes' \in 0..MaxCrashes,
         balance' \in [Tenants -> Nat], notified' \in [Tenants -> BOOLEAN]
  PROVE  Inv'
<1>1. /\ req' \in [Requests -> RequestType]
      /\ req'[q] = s
      /\ \A p \in Requests \ {q} : req'[p] = req[p]
  BY GoTypes DEF Inv
<1>2. RowsExist'
  BY <1>1 DEF RowsExist, Inv, Kept
<1> QED
  BY <1>1, <1>2 DEF Inv, TypeOK, Kept

LEMMA BuyInv == ASSUME Inv, NEW q \in Requests, NEW t \in Tenants, NEW n \in Numbers, Buy(q, t, n)
                PROVE  Inv'
<1>1. [step |-> "claim", tenant |-> t, number |-> n,
       price |-> IF Cardinality(Owned(t)) < Allowance THEN 0 ELSE Price] \in RequestType
  BY DEF RequestType
<1> QED
  BY <1>1, SameRows, Goes DEF Buy, Inv, TypeOK, wallet

LEMMA ClaimInv == ASSUME Inv, NEW q \in Requests, Claim(q) PROVE Inv'
<1> DEFINE t == req[q].tenant  n == req[q].number  p == req[q].price
           row == [owner |-> t, number |-> n, status |-> "PENDING", price |-> p,
                   ordered |-> FALSE, refunds |-> 0]
           s == [step |-> "order", row |-> Len(rows) + 1, tenant |-> t, price |-> p]
<1>1. t \in Tenants /\ n \in Numbers /\ p \in {0, Price}
  BY Remembers DEF Claim, Inv
<1>2. row \in RowType /\ row.number = n
  BY <1>1 DEF RowType, Live
<1>3. Kept /\ Len(rows) + 1 \in Ids'
  BY <1>2, NewRow DEF Claim
<1>4. Len(rows) + 1 \in RowIds
  BY RowsTyped, NumbersAssumption DEF Claim, RowIds, Inv, TypeOK
<1>5. s \in RequestType
  BY <1>1, <1>4 DEF RequestType
<1>6. balance' \in [Tenants -> Nat] /\ notified' \in [Tenants -> BOOLEAN]
  BY <1>1, DebitTypes DEF Claim, Inv
<1> QED
  BY <1>3, <1>5, <1>6, Goes DEF Claim, Inv, TypeOK

\* The steps that end a request and do nothing else.
LEMMA DoneInv ==
  ASSUME Inv, NEW q \in Requests, Done(q), UNCHANGED <<rows, order, lost, wallet>>,
         crashes' \in 0..MaxCrashes
  PROVE  Inv'
<1>1. [step |-> "idle"] \in RequestType
  BY DEF RequestType
<1> QED
  BY <1>1, SameRows, Goes DEF Done, Inv, TypeOK, wallet

LEMMA EndsInv ==
  ASSUME Inv, NEW q \in Requests, ClaimFails(q) \/ CheckFails(q) \/ ReleaseFails(q) \/ DropFails(q)
                                       \/ Crash(q)
  PROVE  Inv'
  BY DoneInv, NumbersAssumption DEF ClaimFails, CheckFails, ReleaseFails, Refusal, DropFails, Crash, Inv, TypeOK

\* The answer of the carrier to an order or a question about it.
LEMMA AnsweredType ==
  ASSUME Inv, NEW q \in Requests, req[q].step \in {"order", "check"}, NEW result \in Results
  PROVE  LET s == [step |-> "save", row |-> req[q].row, tenant |-> req[q].tenant,
                   price |-> req[q].price, result |-> result]
         IN  s \in RequestType /\ s.row \in Ids
  BY Remembers DEF Inv, At, RequestType

LEMMA AnsweredInv ==
  ASSUME Inv, NEW q \in Requests, req[q].step \in {"order", "check"}, NEW result \in Results,
         Answered(q, result), UNCHANGED <<rows, crashes, wallet>>,
         order' \in [RowIds -> {"none", "pending", "active", "failed", "released"}],
         lost' \subseteq RowIds
  PROVE  Inv'
<1> DEFINE s == [step |-> "save", row |-> req[q].row, tenant |-> req[q].tenant,
                 price |-> req[q].price, result |-> result]
<1>1. s \in RequestType /\ s.row \in Ids
  BY AnsweredType
<1>2. Kept
  BY SameRows
<1>3. s.row \in Ids'
  BY <1>1, <1>2 DEF Kept
<1> QED
  BY <1>1, <1>2, <1>3, Goes DEF Answered, Inv, TypeOK, wallet

LEMMA OrderInv ==
  ASSUME Inv, NEW q \in Requests, Order(q) \/ OrderRefused(q) \/ OrderAnswerLost(q)
  PROVE  Inv'
<1>1. At(q, "order") /\ req[q].row \in RowIds
  BY Remembers DEF Order, OrderRefused, OrderAnswerLost, At, Inv
<1>2. CASE Order(q)
  <2>1. PICK result \in Results, state \in {"active", "pending"} :
          Answered(q, result) /\ order' = [order EXCEPT ![req[q].row] = state]
    BY <1>2 DEF Order, Results
  <2>2. order' \in [RowIds -> {"none", "pending", "active", "failed", "released"}]
    BY <1>1, <2>1 DEF Inv, TypeOK
  <2> QED
    BY <1>1, <1>2, <2>1, <2>2, AnsweredInv DEF Order, At, Inv, TypeOK
<1>3. CASE OrderRefused(q)
  BY <1>1, <1>3, AnsweredInv DEF OrderRefused, At, Inv, TypeOK, Results
<1>4. CASE OrderAnswerLost(q)
  BY <1>1, <1>4, AnsweredInv DEF OrderAnswerLost, At, Inv, TypeOK, Results
<1> QED
  BY <1>2, <1>3, <1>4

LEMMA ListInv ==
  ASSUME Inv, NEW q \in Requests, NEW r \in RowIds, List(q, r) \/ Release(q, r)
  PROVE  Inv'
<1> DEFINE s == [step |-> "check", row |-> r, tenant |-> rows[r].owner, price |-> rows[r].price]
           d == [step |-> "release", row |-> r, tenant |-> rows[r].owner]
<1>1. r \in Ids /\ rows[r] \in RowType
  BY RowsTyped DEF List, Release, Inv, TypeOK
<1>2. s \in RequestType /\ d \in RequestType
  BY <1>1 DEF RequestType, RowType
<1>3. Kept /\ r \in Ids'
  BY <1>1, SameRows DEF List, Release, Kept
<1>4. CASE List(q, r)
  BY <1>2, <1>3, <1>4, Goes DEF List, Inv, TypeOK, wallet
<1>5. CASE Release(q, r)
  BY <1>2, <1>3, <1>5, Goes DEF Release, Inv, TypeOK, wallet
<1> QED
  BY <1>4, <1>5

LEMMA CheckInv == ASSUME Inv, NEW q \in Requests, Check(q) PROVE Inv'
<1>1. PICK result : /\ result = OrderStatus(req[q].row)
                    /\ IF Final(result) THEN Answered(q, result) ELSE Done(q)
  BY DEF Check
<1>2. result \in Results
  <2>1. order[req[q].row] \in {"none", "pending", "active", "failed", "released"}
    BY Remembers DEF Check, At, Inv, TypeOK
  <2> QED
    BY <1>1, <2>1 DEF OrderStatus, Results
<1>3. CASE Answered(q, result)
  BY <1>2, <1>3, AnsweredInv DEF Check, At, Inv, TypeOK
<1>4. CASE Done(q)
  BY <1>4, DoneInv DEF Check, Inv, TypeOK
<1> QED
  BY <1>1, <1>3, <1>4

LEMMA SaveInv == ASSUME Inv, NEW q \in Requests, SaveFailed(q) \/ Save(q) \/ Drop(q) PROVE Inv'
<1> DEFINE r == req[q].row
<1>1. r \in Ids /\ rows[r] \in RowType /\ Done(q)
  BY Remembers, RowsTyped DEF SaveFailed, Save, Drop, At, Inv, TypeOK
<1>2. [step |-> "idle"] \in RequestType
  BY DEF RequestType
<1>3. CASE SaveFailed(q)
  <2> DEFINE row == [rows[r] EXCEPT !.status = "FAILED", !.refunds = @ + 1]
  <2>1. row \in RowType /\ row.number = rows[r].number /\ row.status \notin Live
    <3>1. rows[r].refunds + 1 \in Nat
      BY <1>1 DEF RowType
    <3>2. [rows[r] EXCEPT !.status = "FAILED"] \in RowType
      BY <1>1 DEF RowType
    <3>3. row = [[rows[r] EXCEPT !.status = "FAILED"] EXCEPT !.refunds = rows[r].refunds + 1]
      BY <1>1 DEF RowType
    <3> QED
      BY <1>1, <3>1, <3>2, <3>3 DEF RowType, Live
  <2>2. rows' = [rows EXCEPT ![r] = row]
    BY <1>3, <1>1, RowsTyped DEF SaveFailed, Inv, TypeOK
  <2>3. Kept
    BY <1>1, <2>1, <2>2, ChangedRow
  <2>4. balance' \in [Tenants -> Nat] /\ notified' \in [Tenants -> BOOLEAN]
    BY <1>3, Remembers, CreditTypes DEF SaveFailed, At, Inv
  <2> QED
    BY <1>1, <1>2, <1>3, <2>3, <2>4, Goes DEF SaveFailed, Done, Inv, TypeOK
<1>4. CASE Save(q)
  <2> DEFINE row == [rows[r] EXCEPT !.status = req[q].result, !.ordered = TRUE]
  <2>1. req[q].result \in Live
    BY <1>4, Remembers DEF Save, At, Inv, Results, Live
  <2>2. row \in RowType /\ row.number = rows[r].number
    BY <1>1, <2>1 DEF RowType, Live
  <2>3. ASSUME Taken(rows[r].number, r) PROVE Kept
    BY <1>4, <2>3, SameRows DEF Save
  <2>4. ASSUME ~Taken(rows[r].number, r) PROVE Kept
    <3>1. rows' = [rows EXCEPT ![r].status = req[q].result, ![r].ordered = TRUE]
      BY <1>4, <2>4 DEF Save
    <3>2. [rows EXCEPT ![r].status = req[q].result, ![r].ordered = TRUE] = [rows EXCEPT ![r] = row]
      BY <1>1, RowsTyped DEF Inv, TypeOK
    <3>3. ~Taken(row.number, r)
      BY <2>2, <2>4
    <3> QED
      BY <1>1, <2>2, <3>1, <3>2, <3>3, ChangedRow
  <2>5. Kept
    BY <2>3, <2>4
  <2> QED
    BY <1>1, <1>2, <1>4, <2>5, Goes DEF Save, Done, Inv, TypeOK, wallet
<1>5. CASE Drop(q)
  <2> DEFINE row == [rows[r] EXCEPT !.status = "RELEASED"]
  <2>1. row \in RowType /\ row.number = rows[r].number /\ row.status \notin Live
    BY <1>1 DEF RowType, Live
  <2>2. rows' = [rows EXCEPT ![r] = row]
    BY <1>5, <1>1, RowsTyped DEF Drop, Inv, TypeOK
  <2>3. Kept
    BY <1>1, <2>1, <2>2, ChangedRow
  <2> QED
    BY <1>1, <1>2, <1>5, <2>3, Goes DEF Drop, Done, Inv, TypeOK, wallet
<1> QED
  BY <1>3, <1>4, <1>5

LEMMA CarrierReleasesInv == ASSUME Inv, NEW q \in Requests, CarrierReleases(q) PROVE Inv'
<1> DEFINE s == [step |-> "drop", row |-> req[q].row, tenant |-> req[q].tenant]
<1>1. req[q].row \in Ids /\ req[q].row \in RowIds
  BY Remembers DEF CarrierReleases, At, Inv
<1>2. s \in RequestType
  BY <1>1, Remembers DEF RequestType, CarrierReleases, At, Inv
<1>3. Kept /\ s.row \in Ids'
  BY <1>1, SameRows DEF CarrierReleases, Kept
<1> QED
  BY <1>2, <1>3, Goes DEF CarrierReleases, GoDrop, Inv, TypeOK, wallet

\* The steps that leave the requests alone.
LEMMA OthersInv ==
  ASSUME Inv, UNCHANGED <<req, lost, crashes, wallet>>, Kept,
         order' \in [RowIds -> {"none", "pending", "active", "failed", "released"}]
  PROVE  Inv'
  BY DEF Inv, TypeOK, RowsExist, Kept, wallet

LEMMA MoveInv == ASSUME Inv, NEW r \in RowIds, NEW t \in Tenants, Move(r, t) PROVE Inv'
<1> DEFINE row == [rows[r] EXCEPT !.owner = t]
<1>1. r \in Ids /\ rows[r] \in RowType
  BY RowsTyped DEF Move, Inv, TypeOK
<1>2. row \in RowType /\ row.number = rows[r].number /\ rows[r].status \in Live
  BY <1>1 DEF RowType, Move
<1>3. rows' = [rows EXCEPT ![r] = row]
  BY <1>1, RowsTyped DEF Move, Inv, TypeOK
<1>4. Kept
  BY <1>1, <1>2, <1>3, ChangedRow
<1> QED
  BY <1>4, OthersInv DEF Move, Inv, TypeOK

LEMMA AddExistingInv ==
  ASSUME Inv, NEW t \in Tenants, NEW n \in Numbers, AddExisting(t, n) PROVE Inv'
<1> DEFINE row == [owner |-> t, number |-> n, status |-> "ACTIVE", price |-> Price,
                   ordered |-> FALSE, refunds |-> 0]
<1>1. row \in RowType /\ row.number = n
  BY DEF RowType, Live
<1>2. Kept
  BY <1>1, NewRow DEF AddExisting
<1>3. order' \in [RowIds -> {"none", "pending", "active", "failed", "released"}]
  BY DEF AddExisting, Inv, TypeOK
<1> QED
  BY <1>2, <1>3, OthersInv DEF AddExisting

LEMMA StepInv == Inv /\ [Next]_vars => Inv'
<1> SUFFICES ASSUME Inv, [Next]_vars PROVE Inv'
  OBVIOUS
<1>1. CASE \E t \in Tenants, n \in Numbers : AddExisting(t, n)
  BY <1>1, AddExistingInv
<1>2. ASSUME NEW q \in Requests,
             \/ \E t \in Tenants, n \in Numbers : Buy(q, t, n)
             \/ \E r \in RowIds : List(q, r) \/ Release(q, r)
             \/ Running(q) \/ Crash(q)
      PROVE  Inv'
  BY <1>2, BuyInv, ListInv, ClaimInv, EndsInv, OrderInv, CheckInv, SaveInv, CarrierReleasesInv
  DEF Running
<1>3. ASSUME NEW r \in RowIds, OrderSettles(r) PROVE Inv'
  BY <1>3, SameRows, OthersInv DEF OrderSettles, Inv, TypeOK
<1>4. ASSUME NEW r \in RowIds, NEW t \in Tenants, Move(r, t) PROVE Inv'
  BY <1>4, MoveInv
<1>5. CASE UNCHANGED vars
  BY <1>5, SameRows, OthersInv DEF vars, Inv, TypeOK
<1> QED
  BY <1>1, <1>2, <1>3, <1>4, <1>5 DEF Next

LEMMA Invariant == Spec => []Inv
<1> QED
  BY InitInv, StepInv, PTL DEF Spec

\* Every variable of Numbers stays in its type; no purchase takes a wallet below zero.
THEOREM NumbersTyped == Spec => []TypeOK
<1>1. Inv => TypeOK
  BY DEF Inv
<1> QED
  BY <1>1, Invariant, PTL

\* A number belongs to one customer at a time.
THEOREM NumberHasOneOwner == Spec => []OneOwner
<1>1. Inv => OneOwner
  BY DEF Inv
<1> QED
  BY <1>1, Invariant, PTL
-----------------------------------------------------------------------------
(***************************************************************************)
(* What becomes of a failed order, and what the carrier is paid for.       *)
(*                                                                         *)
(* The invariant behind FailedIffRefunded and HeldIsLive says what each    *)
(* status of a row means for its order, and what each request may rely on  *)
(* for as long as it runs.  A purchase has its row to itself until it has  *)
(* saved the carrier's answer (First): the row is pending and has no order *)
(* id, so nobody checks, releases or fails it.  From then on a row has an  *)
(* order id that stays, and answers of the carrier that stay true, however *)
(* old they are when they are applied: an order that failed never          *)
(* succeeds, and one that succeeded is at most released.                   *)
(***************************************************************************)
Holding(q) == req[q].step \notin {"idle", "claim"}

Bought == {"ACTIVE", "RELEASED"}
Placed == {"active", "released"}

First(q) ==
  /\ rows[req[q].row].status = "PENDING" /\ ~rows[req[q].row].ordered
  /\ \A p \in Requests \ {q} : Holding(p) => req[p].row # req[q].row

RowRight(r) ==
  /\ rows[r].status = "FAILED" <=> rows[r].refunds > 0
  /\ rows[r].status = "FAILED" =>
       IF rows[r].ordered THEN order[r] = "failed" ELSE order[r] = "none" \/ r \in lost
  /\ rows[r].status = "ACTIVE" => order[r] \in Placed
  /\ rows[r].status = "RELEASED" => order[r] = "released"
  /\ rows[r].ordered => order[r] # "none"
  /\ r \in lost => ~rows[r].ordered /\ rows[r].status \in {"PENDING", "FAILED"}

\* An answer about a row that is not First's comes from a check of its order.
Learnt(q) ==
  LET r == req[q].row IN
  \/ req[q].result = "PENDING" /\ First(q) /\ order[r] # "none" /\ r \notin lost
  \/ /\ req[q].result = "ACTIVE" /\ order[r] \in Placed /\ r \notin lost
     /\ rows[r].ordered \/ First(q)
  \/ /\ req[q].result = "FAILED"
     /\ \/ rows[r].ordered /\ order[r] = "failed"
        \/ First(q) /\ (order[r] = "none" \/ r \in lost)

Right(q) ==
  LET r == req[q].row IN
  /\ At(q, "order") => First(q) /\ order[r] = "none" /\ r \notin lost
  /\ At(q, "check") => rows[r].ordered
  /\ At(q, "save") => Learnt(q)
  /\ At(q, "release") => rows[r].status \in Bought
  /\ At(q, "drop") => rows[r].status \in Bought /\ order[r] = "released"

RowsRight == \A r \in Ids : RowRight(r)
NothingYet == \A r \in RowIds \ Ids : order[r] = "none" /\ r \notin lost
RequestsRight == \A q \in Requests : Holding(q) => Right(q)

Fine == RowsRight /\ NothingYet /\ RequestsRight

LEMMA InitFine == Init => Fine
BY DEF Init, Fine, RowsRight, NothingYet, RequestsRight, Holding, Ids

\* A row goes on: what is known of its order stays true, and it is not pending again.
Onward(r) ==
  /\ rows[r].ordered => rows'[r].ordered /\ (r \in lost' => r \in lost)
  /\ order[r] \in Placed => order'[r] \in Placed
  /\ order[r] \in {"failed", "released"} => order'[r] = order[r]
  /\ rows[r].status \in Bought => rows'[r].status \in Bought

\* A request that shares its row can go on relying on what it relied on.
LEMMA SharedStays ==
  ASSUME NEW p \in Requests, req'[p] = req[p], Right(p), ~First(p), Onward(req[p].row)
  PROVE  Right(p)'
<1>1. CASE At(p, "save")
  <2>1. Learnt(p)'
    BY <1>1 DEF Right, Learnt, Onward
  <2> QED
    BY <1>1, <2>1 DEF Right, At
<1>2. CASE ~At(p, "save")
  BY <1>2 DEF Right, At, Onward
<1> QED
  BY <1>1, <1>2

\* Of two requests that hold a row, neither is a purchase that has it to itself.
LEMMA NotFirst ==
  ASSUME NEW q \in Requests, Holding(q), NEW p \in Requests \ {q}, req[p].row = req[q].row
  PROVE  ~First(p)
BY DEF First

\* What a step of a request leaves to be shown: its row r, and that it left others their rows.
LEMMA GoesFine ==
  ASSUME Inv, Fine, NEW q \in Requests, NEW s \in RequestType, Go(q, s),
         NEW r \in RowIds, Ids' = Ids \cup {r},
         \A x \in Ids \ {r} : rows'[x] = rows[x],
         \A x \in RowIds \ {r} : order'[x] = order[x] /\ (x \in lost' <=> x \in lost),
         RowRight(r)',
         s.step \in {"idle", "claim"} \/ (s.row = r /\ Right(q)'),
         r \in Ids => Onward(r),
         \A p \in Requests \ {q} : Holding(p) /\ req[p].row = r => ~First(p)
  PROVE  Fine'
<1>1. /\ req'[q] = s
      /\ \A p \in Requests \ {q} : req'[p] = req[p]
  BY GoTypes DEF Inv
<1>2. RowsRight'
  <2> SUFFICES ASSUME NEW x \in Ids', x # r PROVE RowRight(x)'
    BY DEF RowsRight
  <2>1. x \in Ids /\ x \in RowIds
    BY NumbersAssumption, RowsTyped DEF Inv, TypeOK, RowIds
  <2>2. RowRight(x)
    BY <2>1 DEF Fine, RowsRight
  <2> QED
    BY <2>1, <2>2 DEF RowRight
<1>3. NothingYet'
  <2> SUFFICES ASSUME NEW x \in RowIds \ Ids' PROVE order'[x] = "none" /\ x \notin lost'
    BY DEF NothingYet, RowIds
  <2>1. x # r /\ x \notin Ids
    OBVIOUS
  <2> QED
    BY <2>1 DEF Fine, NothingYet
<1>4. ASSUME NEW p \in Requests \ {q}, Holding(p)' PROVE Right(p)'
  <2>1. req'[p] = req[p] /\ Holding(p)
    BY <1>1, <1>4 DEF Holding
  <2>2. Right(p) /\ req[p].row \in Ids /\ req[p].row \in RowIds
    BY <2>1, Remembers DEF Fine, RequestsRight, Inv, Holding, At
  <2>3. CASE req[p].row = r
    BY <2>1, <2>2, <2>3, SharedStays
  <2>4. CASE req[p].row # r
    <3> DEFINE x == req[p].row
    <3>1. rows'[x] = rows[x] /\ order'[x] = order[x] /\ (x \in lost' <=> x \in lost)
      BY <2>2, <2>4
    <3>2. First(p) => First(p)'
      BY <1>1, <2>1, <2>4, <3>1 DEF First, Holding
    <3> QED
      BY <2>1, <2>2, <3>1, <3>2 DEF Right, Learnt, At
  <2> QED
    BY <2>3, <2>4
<1>5. Holding(q)' => Right(q)'
  BY <1>1 DEF Holding
<1> QED
  BY <1>2, <1>3, <1>4, <1>5 DEF Fine, RequestsRight

\* A request that starts to buy, or ends without a change, leaves everybody what they rely on.
LEMMA QuietFine ==
  ASSUME Inv, Fine, NEW q \in Requests, NEW s \in RequestType, Go(q, s),
         s.step \in {"idle", "claim"}, UNCHANGED <<rows, order, lost>>
  PROVE  Fine'
<1>1. /\ req'[q] = s
      /\ \A p \in Requests \ {q} : req'[p] = req[p]
  BY GoTypes DEF Inv
<1>2. RowsRight' /\ NothingYet'
  BY DEF Fine, RowsRight, NothingYet, RowRight, Ids
<1>3. ASSUME NEW p \in Requests, Holding(p)' PROVE Right(p)'
  <2>1. p # q /\ req'[p] = req[p] /\ Holding(p)
    BY <1>1, <1>3 DEF Holding
  <2>2. Right(p)
    BY <2>1 DEF Fine, RequestsRight
  <2>3. First(p) => First(p)'
    BY <1>1, <2>1 DEF First, Holding
  <2> QED
    BY <2>1, <2>2, <2>3 DEF Right, Learnt, At
<1> QED
  BY <1>2, <1>3 DEF Fine, RequestsRight

LEMMA IdleType == [step |-> "idle"] \in RequestType
BY DEF RequestType

LEMMA BuyFine ==
  ASSUME Inv, Fine, NEW q \in Requests, NEW t \in Tenants, NEW n \in Numbers, Buy(q, t, n)
  PROVE  Fine'
<1> DEFINE s == [step |-> "claim", tenant |-> t, number |-> n,
                 price |-> IF Cardinality(Owned(t)) < Allowance THEN 0 ELSE Price]
<1>1. s \in RequestType /\ s.step = "claim"
  BY DEF RequestType
<1> QED
  BY <1>1, QuietFine DEF Buy

LEMMA DoneFine ==
  ASSUME Inv, Fine, NEW q \in Requests, Done(q), UNCHANGED <<rows, order, lost>>
  PROVE  Fine'
BY IdleType, QuietFine DEF Done

LEMMA EndsFine ==
  ASSUME Inv, Fine, NEW q \in Requests, ClaimFails(q) \/ CheckFails(q) \/ ReleaseFails(q) \/ DropFails(q)
                                             \/ Crash(q)
  PROVE  Fine'
BY DoneFine DEF ClaimFails, CheckFails, ReleaseFails, Refusal, DropFails, Crash

\* A purchase starts with a row of its own that nobody has seen, and nothing ordered for it.
LEMMA ClaimFine == ASSUME Inv, Fine, NEW q \in Requests, Claim(q) PROVE Fine'
<1>0. PICK r : r = Len(rows) + 1
  OBVIOUS
<1> DEFINE t == req[q].tenant  n == req[q].number  p == req[q].price
           row == [owner |-> t, number |-> n, status |-> "PENDING", price |-> p,
                   ordered |-> FALSE, refunds |-> 0]
           s == [step |-> "order", row |-> r, tenant |-> t, price |-> p]
<1>1. /\ rows \in Seq(RowType) /\ Len(rows) \in Nat /\ Ids = 1..Len(rows)
      /\ t \in Tenants /\ n \in Numbers /\ p \in {0, Price}
  BY RowsTyped, Remembers DEF Claim, Inv, TypeOK
<1>2. r \in RowIds /\ r \notin Ids
  BY <1>0, <1>1, NumbersAssumption DEF Claim, RowIds
<1>3. row \in RowType /\ s \in RequestType
  BY <1>1, <1>2 DEF RowType, Live, RequestType
<1>4. /\ Ids' = Ids \cup {r} /\ rows'[r] = row
      /\ \A x \in Ids \ {r} : rows'[x] = rows[x]
  BY <1>0, <1>1, <1>3, AppendProperties DEF Claim, Ids
<1>5. order[r] = "none" /\ r \notin lost /\ order' = order /\ lost' = lost
  BY <1>2 DEF Claim, Fine, NothingYet
<1>6. \A x \in Requests : Holding(x) => req[x].row # r
  BY <1>2 DEF Inv, RowsExist, Holding
<1>7. /\ req'[q] = s
      /\ \A x \in Requests \ {q} : req'[x] = req[x]
  BY <1>0, <1>3, GoTypes DEF Claim, Inv
<1>8. RowRight(r)'
  BY <1>4, <1>5 DEF RowRight
<1>9. Right(q)'
  BY <1>4, <1>5, <1>6, <1>7 DEF Right, At, First, Holding
<1> QED
  <2>1. Go(q, s)
    BY <1>0 DEF Claim
  <2>2. s.row = r
    OBVIOUS
  <2> HIDE DEF s, row
  <2> QED
    BY <1>2, <1>3, <1>4, <1>5, <1>6, <1>8, <1>9, <2>1, <2>2, GoesFine

\* The carrier's answer to an order: the purchase still has its row to itself.
LEMMA OrderFine ==
  ASSUME Inv, Fine, NEW q \in Requests, Order(q) \/ OrderRefused(q) \/ OrderAnswerLost(q)
  PROVE  Fine'
<1>0. PICK r : r = req[q].row
  OBVIOUS
<1>1. /\ At(q, "order") /\ r \in RowIds /\ r \in Ids /\ rows' = rows /\ Ids' = Ids
      /\ order \in [RowIds -> {"none", "pending", "active", "failed", "released"}]
  BY <1>0, Remembers DEF Order, OrderRefused, OrderAnswerLost, At, Inv, TypeOK, Ids
<1>2. /\ First(q) /\ order[r] = "none" /\ r \notin lost /\ RowRight(r) /\ Holding(q)
  BY <1>0, <1>1 DEF Fine, RequestsRight, RowsRight, Right, Holding, At
<1>3. PICK result \in Results, state \in {"none", "pending", "active"}, gone \in SUBSET {r} :
        /\ Answered(q, result) /\ order' = [order EXCEPT ![r] = state] /\ lost' = lost \cup gone
        /\ result = "PENDING" => state = "pending" /\ gone = {}
        /\ result = "ACTIVE" => state = "active" /\ gone = {}
        /\ result = "FAILED" => state = "none" \/ r \in gone
        /\ state = "none" => gone = {}
  <2>1. CASE Order(q)
    <3>1. lost' = lost \cup {}
      BY <2>1 DEF Order
    <3>2. CASE Answered(q, "ACTIVE") /\ order' = [order EXCEPT ![r] = "active"]
      BY <3>1, <3>2 DEF Results
    <3>3. CASE Answered(q, "PENDING") /\ order' = [order EXCEPT ![r] = "pending"]
      BY <3>1, <3>3 DEF Results
    <3> QED
      BY <1>0, <2>1, <3>2, <3>3 DEF Order
  <2>2. CASE OrderRefused(q)
    <3>1. order' = [order EXCEPT ![r] = "none"] /\ lost' = lost \cup {}
      BY <1>1, <1>2, <2>2 DEF OrderRefused
    <3> QED
      BY <2>2, <3>1 DEF OrderRefused, Results
  <2>3. CASE OrderAnswerLost(q)
    BY <1>0, <2>3 DEF OrderAnswerLost, Results
  <2> QED
    BY <2>1, <2>2, <2>3
<1> DEFINE s == [step |-> "save", row |-> r, tenant |-> req[q].tenant,
                 price |-> req[q].price, result |-> result]
<1>4. s \in RequestType
  BY <1>0, <1>1, AnsweredType DEF At
<1>5. /\ req'[q] = s
      /\ \A p \in Requests \ {q} : req'[p] = req[p]
  BY <1>0, <1>3, <1>4, GoTypes DEF Answered, Inv
<1>6. /\ order'[r] = state /\ (r \in lost' <=> r \in gone)
      /\ \A x \in RowIds \ {r} : order'[x] = order[x] /\ (x \in lost' <=> x \in lost)
  BY <1>1, <1>2, <1>3
<1>7. First(q)'
  BY <1>0, <1>1, <1>2, <1>5 DEF First, Holding
<1>8. Right(q)'
  <2>1. req'[q].row = r /\ req'[q].result = result /\ req'[q].step = "save"
    BY <1>5
  <2>2. Learnt(q)'
    BY <1>3, <1>6, <1>7, <2>1 DEF Learnt, Placed, Results
  <2> QED
    BY <2>1, <2>2 DEF Right, At
<1>9. RowRight(r)'
  BY <1>0, <1>1, <1>2, <1>3, <1>6 DEF RowRight, First
<1>10. Onward(r)
  BY <1>0, <1>1, <1>2 DEF Onward, First, Placed, Bought
<1>11. \A p \in Requests \ {q} : Holding(p) /\ req[p].row = r => ~First(p)
  BY <1>0, <1>2, NotFirst
<1>12. Go(q, s) /\ s.row = r
  BY <1>0, <1>3 DEF Answered
<1> HIDE DEF s
<1> QED
  BY <1>1, <1>4, <1>6, <1>8, <1>9, <1>10, <1>11, <1>12, GoesFine

\* An order that settles tells nobody anything that an earlier answer denied.
LEMMA SettlesFine == ASSUME Inv, Fine, NEW r \in RowIds, OrderSettles(r) PROVE Fine'
<1>1. PICK state \in {"active", "failed"} : order' = [order EXCEPT ![r] = state]
  BY DEF OrderSettles
<1>2. /\ order \in [RowIds -> {"none", "pending", "active", "failed", "released"}]
      /\ order[r] = "pending" /\ rows' = rows /\ req' = req /\ lost' = lost /\ Ids' = Ids
  BY DEF OrderSettles, Inv, TypeOK, Ids
<1>3. order'[r] = state /\ \A x \in RowIds \ {r} : order'[x] = order[x]
  BY <1>1, <1>2
<1>4. RowsRight'
  <2> SUFFICES ASSUME NEW x \in Ids PROVE RowRight(x)'
    BY <1>2 DEF RowsRight
  <2>1. x \in RowIds /\ RowRight(x)
    BY NumbersAssumption, RowsTyped DEF Inv, TypeOK, RowIds, Fine, RowsRight
  <2>2. CASE x = r
    BY <1>2, <1>3, <2>1, <2>2 DEF RowRight, Placed
  <2>3. CASE x # r
    BY <1>2, <1>3, <2>1, <2>3 DEF RowRight
  <2> QED
    BY <2>2, <2>3
<1>5. NothingYet'
  BY <1>2, <1>3 DEF Fine, NothingYet
<1>6. ASSUME NEW p \in Requests, Holding(p) PROVE Right(p)'
  <2>1. Right(p) /\ req[p].row \in RowIds
    BY <1>6, Remembers DEF Fine, RequestsRight, Inv, Holding, At
  <2>2. First(p) <=> First(p)'
    BY <1>2 DEF First, Holding
  <2>3. CASE req[p].row = r
    BY <1>2, <1>3, <2>1, <2>2, <2>3 DEF Right, Learnt, At, Placed
  <2>4. CASE req[p].row # r
    BY <1>2, <1>3, <2>1, <2>2, <2>4 DEF Right, Learnt, At
  <2> QED
    BY <2>3, <2>4
<1> QED
  BY <1>2, <1>4, <1>5, <1>6 DEF Fine, RequestsRight, Holding

\* Who takes up a row to check or to release it takes one that no purchase has to itself.
LEMMA ListFine ==
  ASSUME Inv, Fine, NEW q \in Requests, NEW r \in RowIds, List(q, r) \/ Release(q, r)
  PROVE  Fine'
<1>1. /\ r \in Ids /\ rows[r] \in RowType /\ rows' = rows /\ Ids' = Ids /\ order' = order /\ lost' = lost
      /\ rows[r].ordered \/ rows[r].status = "ACTIVE"
  BY RowsTyped DEF List, Release, Refreshable, Inv, TypeOK, Ids
<1>2. PICK s \in RequestType :
        /\ Go(q, s) /\ s.row = r
        /\ \/ s.step = "check" /\ rows[r].ordered
           \/ s.step = "release" /\ rows[r].status = "ACTIVE"
  <2>1. CASE List(q, r)
    <3> DEFINE s == [step |-> "check", row |-> r, tenant |-> rows[r].owner, price |-> rows[r].price]
    <3>1. s \in RequestType /\ s.row = r /\ s.step = "check"
      BY <1>1 DEF RequestType, RowType
    <3>2. Go(q, s) /\ rows[r].ordered
      BY <2>1 DEF List, Refreshable
    <3> HIDE DEF s
    <3> QED
      BY <3>1, <3>2
  <2>2. CASE Release(q, r)
    <3> DEFINE s == [step |-> "release", row |-> r, tenant |-> rows[r].owner]
    <3>1. s \in RequestType
      BY <1>1 DEF RequestType, RowType
    <3> QED
      BY <2>2, <3>1 DEF Release
  <2> QED
    BY <2>1, <2>2
<1>3. req'[q] = s
  BY <1>2, GoTypes DEF Inv
<1>4. RowRight(r) /\ RowRight(r)'
  BY <1>1 DEF Fine, RowsRight, RowRight
<1>5. Right(q)'
  BY <1>1, <1>2, <1>3 DEF Right, At, Bought
<1>6. Onward(r)
  BY <1>1 DEF Onward
<1>7. \A p \in Requests \ {q} : Holding(p) /\ req[p].row = r => ~First(p)
  BY <1>1 DEF First
<1> QED
  BY <1>1, <1>2, <1>4, <1>5, <1>6, <1>7, GoesFine

\* What every step of a request that holds a row starts from.
LEMMA Holds ==
  ASSUME Inv, Fine, NEW q \in Requests, Holding(q), NEW r, r = req[q].row
  PROVE  /\ r \in RowIds /\ r \in Ids /\ Ids = Ids \cup {r} /\ rows[r] \in RowType
         /\ RowRight(r) /\ Right(q)
         /\ order \in [RowIds -> {"none", "pending", "active", "failed", "released"}]
         /\ \A p \in Requests \ {q} : Holding(p) /\ req[p].row = r => ~First(p)
<1>1. r \in RowIds /\ r \in Ids /\ rows[r] \in RowType
  BY Remembers, RowsTyped DEF Inv, Holding, At, TypeOK
<1>2. RowRight(r) /\ Right(q)
  BY <1>1 DEF Fine, RowsRight, RequestsRight
<1> QED
  BY <1>1, <1>2, NotFirst DEF Inv, TypeOK

LEMMA CheckFine == ASSUME Inv, Fine, NEW q \in Requests, Check(q) PROVE Fine'
<1>0. PICK r : r = req[q].row
  OBVIOUS
<1>1. Holding(q) /\ At(q, "check") /\ rows' = rows /\ Ids' = Ids /\ order' = order /\ lost' = lost
  BY DEF Check, Holding, At, Ids
<1>2. /\ r \in RowIds /\ r \in Ids /\ Ids' = Ids \cup {r} /\ RowRight(r) /\ Right(q)
      /\ order \in [RowIds -> {"none", "pending", "active", "failed", "released"}]
      /\ \A p \in Requests \ {q} : Holding(p) /\ req[p].row = r => ~First(p)
  BY <1>0, <1>1, Holds
<1>3. PICK result : /\ result = OrderStatus(r)
                    /\ IF Final(result) THEN Answered(q, result) ELSE Done(q)
  BY <1>0 DEF Check
<1>4. CASE Done(q)
  BY <1>1, <1>4, DoneFine
<1>5. CASE ~Done(q)
  <2>1. rows[r].ordered /\ r \notin lost /\ Answered(q, result)
    BY <1>0, <1>1, <1>2, <1>3, <1>5 DEF Right, RowRight
  <2>2. \/ result = "FAILED" /\ order[r] = "failed"
        \/ result = "ACTIVE" /\ order[r] \in Placed
    BY <1>2, <1>3, <1>5 DEF OrderStatus, Final, Placed
  <2> DEFINE s == [step |-> "save", row |-> r, tenant |-> req[q].tenant,
                   price |-> req[q].price, result |-> result]
  <2>3. s \in RequestType
    BY <1>0, <1>1, <2>2, AnsweredType DEF At, Results
  <2>4. Go(q, s) /\ s.row = r
    BY <1>0, <2>1 DEF Answered
  <2>5. req'[q] = s
    BY <2>3, <2>4, GoTypes DEF Inv
  <2>6. Right(q)'
    <3>1. req'[q].row = r /\ req'[q].result = result /\ req'[q].step = "save"
      BY <2>5
    <3>2. Learnt(q)'
      BY <1>1, <2>1, <2>2, <3>1 DEF Learnt
    <3> QED
      BY <3>1, <3>2 DEF Right, At
  <2>7. RowRight(r)' /\ Onward(r)
    BY <1>1, <1>2 DEF RowRight, Onward
  <2> HIDE DEF s
  <2> QED
    BY <1>1, <1>2, <2>3, <2>4, <2>6, <2>7, GoesFine
<1> QED
  BY <1>4, <1>5

\* The requests that write their row and end.
LEMMA WrittenFine ==
  ASSUME Inv, Fine, NEW q \in Requests, Holding(q), Done(q), NEW r, r = req[q].row,
         NEW row \in RowType, rows' = [rows EXCEPT ![r] = row],
         UNCHANGED <<order, lost>>, RowRight(r)', Onward(r)
  PROVE  Fine'
<1>1. /\ r \in RowIds /\ r \in Ids
      /\ \A p \in Requests \ {q} : Holding(p) /\ req[p].row = r => ~First(p)
  BY Holds
<1>2. Ids' = Ids \cup {r}
  BY <1>1, ChangedRows DEF Ids, Inv, TypeOK
<1>3. \A x \in Ids \ {r} : rows'[x] = rows[x]
  BY <1>1, RowsTyped DEF Inv, TypeOK
<1> QED
  BY <1>1, <1>2, <1>3, IdleType, GoesFine DEF Done

\* A failed order is one the carrier refused or lost track of, or one it says has failed.
LEMMA SaveFailedFine == ASSUME Inv, Fine, NEW q \in Requests, SaveFailed(q) PROVE Fine'
<1>0. PICK r : r = req[q].row
  OBVIOUS
<1>1. Holding(q) /\ At(q, "save") /\ req[q].result = "FAILED" /\ order' = order /\ lost' = lost /\ Done(q)
  BY DEF SaveFailed, Holding, At
<1>2. r \in Ids /\ rows[r] \in RowType /\ RowRight(r) /\ Right(q)
  BY <1>0, <1>1, Holds
<1> DEFINE row == [rows[r] EXCEPT !.status = "FAILED", !.refunds = @ + 1]
<1>3. /\ row \in RowType /\ row.status = "FAILED" /\ row.refunds > 0 /\ row.ordered = rows[r].ordered
  <2>1. rows[r].refunds \in Nat /\ rows[r].refunds + 1 \in Nat
    BY <1>2 DEF RowType
  <2>2. [rows[r] EXCEPT !.status = "FAILED"] \in RowType
    BY <1>2 DEF RowType
  <2>3. row = [[rows[r] EXCEPT !.status = "FAILED"] EXCEPT !.refunds = rows[r].refunds + 1]
    BY <1>2 DEF RowType
  <2>4. /\ row.status = "FAILED" /\ row.refunds = rows[r].refunds + 1
        /\ row.ordered = rows[r].ordered /\ row \in RowType
    BY <1>2, <2>1, <2>2, <2>3 DEF RowType
  <2> QED
    BY <2>1, <2>4
<1>4. rows' = [rows EXCEPT ![r] = row]
  BY <1>0, <1>2, RowsTyped DEF SaveFailed, Inv, TypeOK
<1> HIDE DEF row
<1>5. rows'[r] = row
  BY <1>2, <1>4, RowsTyped DEF Inv, TypeOK
<1>6. \/ rows[r].ordered /\ order[r] = "failed"
      \/ First(q) /\ (order[r] = "none" \/ r \in lost)
  BY <1>0, <1>1, <1>2 DEF Right, Learnt
<1>7. RowRight(r)'
  BY <1>0, <1>1, <1>2, <1>3, <1>5, <1>6 DEF RowRight, First
<1>8. Onward(r)
  BY <1>0, <1>1, <1>2, <1>3, <1>5, <1>6 DEF Onward, RowRight, First, Placed, Bought
<1> QED
  BY <1>0, <1>1, <1>3, <1>4, <1>7, <1>8, WrittenFine

\* An order that was placed is known from now on, also of a row that was released.
LEMMA SaveFine == ASSUME Inv, Fine, NEW q \in Requests, Save(q) PROVE Fine'
<1>0. PICK r : r = req[q].row
  OBVIOUS
<1>1. Holding(q) /\ At(q, "save") /\ req[q].result # "FAILED" /\ order' = order /\ lost' = lost /\ Done(q)
  BY DEF Save, Holding, At
<1>2. r \in Ids /\ rows[r] \in RowType /\ RowRight(r) /\ Right(q)
  BY <1>0, <1>1, Holds
<1>3. CASE Taken(rows[r].number, r)
  BY <1>0, <1>1, <1>3, DoneFine DEF Save
<1>4. CASE ~Taken(rows[r].number, r)
  <2> DEFINE row == [rows[r] EXCEPT !.status = req[q].result, !.ordered = TRUE]
  <2>1. req[q].result \in Live
    BY <1>1, Remembers DEF Inv, Results, Live
  <2>2. /\ row \in RowType /\ row.status = req[q].result /\ row.refunds = rows[r].refunds /\ row.ordered = TRUE
    BY <1>2, <2>1 DEF RowType, Live
  <2>3. rows' = [rows EXCEPT ![r].status = req[q].result, ![r].ordered = TRUE]
    BY <1>0, <1>4 DEF Save
  <2>4. [rows EXCEPT ![r].status = req[q].result, ![r].ordered = TRUE] = [rows EXCEPT ![r] = row]
    BY <1>2, RowsTyped DEF Inv, TypeOK
  <2>5. rows' = [rows EXCEPT ![r] = row] /\ rows'[r] = row
    <3>1. rows' = [rows EXCEPT ![r] = row]
      BY <2>3, <2>4
    <3> HIDE DEF row
    <3> QED
      BY <1>2, <3>1, RowsTyped DEF Inv, TypeOK
  <2> HIDE DEF row
  <2>6. /\ r \notin lost
        /\ \/ req[q].result = "PENDING" /\ First(q) /\ order[r] # "none"
           \/ req[q].result = "ACTIVE" /\ order[r] \in Placed
    BY <1>0, <1>1, <1>2 DEF Right, Learnt
  <2>7. rows[r].status # "FAILED"
    BY <1>0, <1>2, <2>6 DEF RowRight, First, Placed
  <2>8. RowRight(r)'
    BY <1>1, <1>2, <2>2, <2>5, <2>6, <2>7 DEF RowRight, Placed
  <2>9. Onward(r)
    BY <1>0, <1>1, <2>2, <2>5, <2>6 DEF Onward, First, Bought
  <2> QED
    BY <1>0, <1>1, <2>2, <2>5, <2>8, <2>9, WrittenFine
<1> QED
  BY <1>3, <1>4

\* The row of a number is dropped when the carrier has it back.
LEMMA DropFine == ASSUME Inv, Fine, NEW q \in Requests, Drop(q) PROVE Fine'
<1>0. PICK r : r = req[q].row
  OBVIOUS
<1>1. Holding(q) /\ At(q, "drop") /\ order' = order /\ lost' = lost /\ Done(q)
  BY DEF Drop, Holding, At
<1>2. r \in Ids /\ rows[r] \in RowType /\ RowRight(r) /\ Right(q)
  BY <1>0, <1>1, Holds
<1> DEFINE row == [rows[r] EXCEPT !.status = "RELEASED"]
<1>3. /\ row \in RowType /\ row.status = "RELEASED" /\ row.refunds = rows[r].refunds
      /\ row.ordered = rows[r].ordered
  BY <1>2 DEF RowType
<1>4. rows' = [rows EXCEPT ![r] = row]
  BY <1>0, <1>2, RowsTyped DEF Drop, Inv, TypeOK
<1> HIDE DEF row
<1>5. rows'[r] = row
  BY <1>2, <1>4, RowsTyped DEF Inv, TypeOK
<1>6. rows[r].status \in Bought /\ order[r] = "released"
  BY <1>0, <1>1, <1>2 DEF Right
<1>7. RowRight(r)'
  BY <1>1, <1>2, <1>3, <1>5, <1>6 DEF RowRight, Bought
<1>8. Onward(r)
  BY <1>1, <1>3, <1>5, <1>6 DEF Onward, Bought
<1> QED
  BY <1>0, <1>1, <1>3, <1>4, <1>7, <1>8, WrittenFine

\* What the carrier takes back it never sells to this row again.
LEMMA CarrierReleasesFine == ASSUME Inv, Fine, NEW q \in Requests, CarrierReleases(q) PROVE Fine'
<1>0. PICK r : r = req[q].row
  OBVIOUS
<1>1. Holding(q) /\ At(q, "release") /\ rows' = rows /\ Ids' = Ids /\ lost' = lost
  BY DEF CarrierReleases, Holding, At, Ids
<1>2. /\ r \in RowIds /\ r \in Ids /\ Ids' = Ids \cup {r} /\ RowRight(r) /\ Right(q)
      /\ order \in [RowIds -> {"none", "pending", "active", "failed", "released"}]
      /\ \A p \in Requests \ {q} : Holding(p) /\ req[p].row = r => ~First(p)
  BY <1>0, <1>1, Holds
<1>3. rows[r].status \in Bought /\ order[r] \in Placed
  BY <1>0, <1>1, <1>2 DEF Right, RowRight, Bought, Placed
<1>4. order' = [order EXCEPT ![r] = "released"]
  BY <1>0, <1>2, <1>3 DEF CarrierReleases, Placed
<1>5. order'[r] = "released" /\ \A x \in RowIds \ {r} : order'[x] = order[x]
  BY <1>2, <1>4
<1> DEFINE s == [step |-> "drop", row |-> r, tenant |-> req[q].tenant]
<1>6. s \in RequestType /\ Go(q, s) /\ s.row = r
  BY <1>0, <1>1, <1>2, Remembers DEF RequestType, CarrierReleases, GoDrop, At, Inv
<1>7. req'[q] = s
  BY <1>6, GoTypes DEF Inv
<1>8. Right(q)'
  BY <1>1, <1>3, <1>5, <1>7 DEF Right, At
<1>9. RowRight(r)' /\ Onward(r)
  BY <1>1, <1>2, <1>3, <1>5 DEF RowRight, Onward, Placed, Bought
<1> HIDE DEF s
<1> QED
  BY <1>1, <1>2, <1>5, <1>6, <1>8, <1>9, GoesFine

\* Who owns a row says nothing about its order.
LEMMA MoveFine == ASSUME Inv, Fine, NEW r \in RowIds, NEW t \in Tenants, Move(r, t) PROVE Fine'
<1>1. r \in Ids /\ rows[r] \in RowType /\ req' = req /\ order' = order /\ lost' = lost
  BY RowsTyped DEF Move, Inv, TypeOK
<1> DEFINE row == [rows[r] EXCEPT !.owner = t]
<1>2. /\ row \in RowType /\ row.status = rows[r].status /\ row.refunds = rows[r].refunds
      /\ row.ordered = rows[r].ordered
  BY <1>1 DEF RowType
<1>3. rows' = [rows EXCEPT ![r] = row]
  BY <1>1, RowsTyped DEF Move, Inv, TypeOK
<1> HIDE DEF row
<1>4. Ids' = Ids
  BY <1>1, <1>2, <1>3, ChangedRows DEF Ids, Inv, TypeOK
<1>5. \A x \in Ids : /\ rows'[x].status = rows[x].status /\ rows'[x].refunds = rows[x].refunds
                     /\ rows'[x].ordered = rows[x].ordered
  BY <1>1, <1>2, <1>3, RowsTyped DEF Inv, TypeOK
<1>6. RowsRight'
  BY <1>1, <1>4, <1>5 DEF Fine, RowsRight, RowRight
<1>7. NothingYet'
  BY <1>1, <1>4 DEF Fine, NothingYet
<1>8. ASSUME NEW p \in Requests, Holding(p) PROVE Right(p)'
  <2>1. Right(p) /\ req[p].row \in Ids
    BY <1>8 DEF Fine, RequestsRight, Inv, RowsExist, Holding
  <2>2. First(p) => First(p)'
    BY <1>1, <1>5, <2>1 DEF First, Holding
  <2> QED
    BY <1>1, <1>5, <2>1, <2>2 DEF Right, Learnt, At
<1> QED
  BY <1>1, <1>6, <1>7, <1>8 DEF Fine, RequestsRight, Holding

\* A number the platform had before is a row that nobody holds.
LEMMA AddExistingFine ==
  ASSUME Inv, Fine, NEW t \in Tenants, NEW n \in Numbers, AddExisting(t, n) PROVE Fine'
<1>0. PICK r : r = Len(rows) + 1
  OBVIOUS
<1> DEFINE row == [owner |-> t, number |-> n, status |-> "ACTIVE", price |-> Price,
                   ordered |-> FALSE, refunds |-> 0]
<1>1. /\ rows \in Seq(RowType) /\ Len(rows) \in Nat /\ Ids = 1..Len(rows)
      /\ order \in [RowIds -> {"none", "pending", "active", "failed", "released"}]
  BY RowsTyped DEF Inv, TypeOK
<1>2. r \in RowIds /\ r \notin Ids
  BY <1>0, <1>1, NumbersAssumption DEF AddExisting, RowIds
<1>3. row \in RowType
  BY DEF RowType, Live
<1>4. /\ Ids' = Ids \cup {r} /\ rows'[r] = row
      /\ \A x \in Ids : rows'[x] = rows[x]
  BY <1>0, <1>1, <1>2, <1>3, AppendProperties DEF AddExisting, Ids
<1>5. /\ order'[r] = "active" /\ r \notin lost /\ lost' = lost /\ req' = req
      /\ \A x \in RowIds \ {r} : order'[x] = order[x]
  BY <1>0, <1>1, <1>2 DEF AddExisting, Fine, NothingYet
<1>6. RowsRight'
  <2>1. RowRight(r)'
    BY <1>4, <1>5 DEF RowRight, Placed
  <2>2. ASSUME NEW x \in Ids PROVE RowRight(x)'
    <3>1. x # r /\ x \in RowIds /\ RowRight(x)
      BY <1>1, <1>2, NumbersAssumption DEF Inv, TypeOK, RowIds, Fine, RowsRight
    <3> QED
      BY <1>4, <1>5, <3>1 DEF RowRight
  <2> QED
    BY <1>4, <2>1, <2>2 DEF RowsRight
<1>7. NothingYet'
  BY <1>4, <1>5 DEF Fine, NothingYet
<1>8. ASSUME NEW p \in Requests, Holding(p) PROVE Right(p)'
  <2>1. Right(p) /\ req[p].row \in Ids /\ req[p].row \in RowIds
    BY <1>8, Remembers DEF Fine, RequestsRight, Inv, Holding, At
  <2>2. req[p].row # r
    BY <1>2, <2>1
  <2>3. First(p) => First(p)'
    BY <1>4, <1>5, <2>1 DEF First, Holding
  <2> QED
    BY <1>4, <1>5, <2>1, <2>2, <2>3 DEF Right, Learnt, At
<1> QED
  BY <1>5, <1>6, <1>7, <1>8 DEF Fine, RequestsRight, Holding

LEMMA StepFine == Inv /\ Fine /\ [Next]_vars => Fine'
<1> SUFFICES ASSUME Inv, Fine, [Next]_vars PROVE Fine'
  OBVIOUS
<1>1. CASE \E t \in Tenants, n \in Numbers : AddExisting(t, n)
  BY <1>1, AddExistingFine
<1>2. ASSUME NEW q \in Requests,
             \/ \E t \in Tenants, n \in Numbers : Buy(q, t, n)
             \/ \E r \in RowIds : List(q, r) \/ Release(q, r)
             \/ Running(q) \/ Crash(q)
      PROVE  Fine'
  BY <1>2, BuyFine, ListFine, ClaimFine, EndsFine, OrderFine, CheckFine, SaveFailedFine, SaveFine,
     DropFine, CarrierReleasesFine
  DEF Running
<1>3. ASSUME NEW r \in RowIds, OrderSettles(r) PROVE Fine'
  BY <1>3, SettlesFine
<1>4. ASSUME NEW r \in RowIds, NEW t \in Tenants, Move(r, t) PROVE Fine'
  BY <1>4, MoveFine
<1>5. CASE UNCHANGED vars
  BY <1>5 DEF vars, Fine, RowsRight, RowRight, NothingYet, RequestsRight, Holding, Right, Learnt,
              First, At, Ids
<1> QED
  BY <1>1, <1>2, <1>3, <1>4, <1>5 DEF Next

LEMMA FineAlways == Spec => []Fine
<1> QED
  BY Invariant, InitFine, StepFine, PTL DEF Spec

\* A customer whose number failed has the first month back, and only then, for any number
\* of requests that check, save and release at once.
THEOREM FailedIsRefunded == Spec => []FailedIffRefunded
<1>1. Fine => FailedIffRefunded
  BY DEF Fine, RowsRight, RowRight, FailedIffRefunded
<1> QED
  BY <1>1, FineAlways, PTL

\* What the carrier is paid for belongs to a customer, unless its answer was lost.
THEOREM PaidIsHeld == Spec => []HeldIsLive
<1>1. Inv /\ Fine => HeldIsLive
  <2> SUFFICES ASSUME Inv, Fine, NEW r \in Ids, order[r] = "active", r \notin lost
               PROVE  rows[r].status \in Live
    BY DEF HeldIsLive
  <2>1. rows[r].status \in Live \cup {"FAILED", "RELEASED"} /\ RowRight(r)
    BY RowsTyped DEF Inv, TypeOK, RowType, Fine, RowsRight
  <2> QED
    BY <2>1 DEF RowRight
<1> QED
  BY <1>1, Invariant, FineAlways, PTL
=============================================================================
