------------------------------ MODULE CallRows ------------------------------
(***************************************************************************)
(* The rows of an account's calls and who is shown what of them:           *)
(* calls/calls.controller.ts (scope, filterWhere, present, CDR_COLUMNS).   *)
(*                                                                         *)
(* A row keeps what decides who sees it, and the money.  Rows change under *)
(* those who look as the router goes on with its calls; what a call earns  *)
(* is one of a few results.                                                *)
(***************************************************************************)
EXTENDS Integers, FiniteSets

CONSTANTS
  Cdr,  \* the calls
  Now   \* when calls come in

ASSUME RowsAssumption == IsFiniteSet(Cdr) /\ Now \in Nat

VARIABLE cdrs

Staff == {"TENANT_ADMIN", "MANAGER"}
User ==
  [role : Staff, partner : {"none"}] \cup [role : {"PUBLISHER"}, partner : {"p1", "p2"}]
    \cup [role : {"BUYER"}, partner : {"b1", "b2"}] \cup [role : {"AGENT"}, partner : {"a1", "a2"}]

\* A sale, a sale of a caller whom the publisher was paid for before, and no sale.
Outcome ==
  {[converted |-> TRUE, revenue |-> 5, payout |-> 2, cost |-> 1],
   [converted |-> TRUE, revenue |-> 5, payout |-> 0, cost |-> 1],
   [converted |-> FALSE, revenue |-> 0, payout |-> 0, cost |-> 1]}
Unfinished == [converted |-> FALSE, revenue |-> 0, payout |-> 0, cost |-> 0]

\* Whom a call may be put down to: a buyer's line, an agent, an agent who works for a buyer.
Line == [buyer : {"b1", "b2"}, target : {"none", "a1"}] \cup {[buyer |-> "none", target |-> "a2"]}
Nobody == [buyer |-> "none", target |-> "none"]

Fresh(p) ==
  [status |-> "RINGING", publisher |-> p, line |-> Nobody, at |-> Now, result |-> Unfinished]
Absent == [Fresh("p1") EXCEPT !.status = "none"]

CallRow ==
  [status : {"none", "RINGING", "IN_PROGRESS", "COMPLETED"}, publisher : {"p1", "p2"},
   line : Line \cup {Nobody}, at : Nat,
   result : [converted : BOOLEAN, revenue : Nat, payout : Nat, cost : Nat]]

Written(c) == cdrs[c].status # "none"

-----------------------------------------------------------------------------
(* The router *)

ComesIn(c) == ~Written(c) /\ \E p \in {"p1", "p2"} : cdrs' = [cdrs EXCEPT ![c] = Fresh(p)]

Rings(c) ==
  /\ cdrs[c].status = "RINGING"
  /\ \E l \in Line : cdrs' = [cdrs EXCEPT ![c].line = l]

Connects(c) ==
  /\ cdrs[c].status = "RINGING" /\ cdrs[c].line # Nobody
  /\ cdrs' = [cdrs EXCEPT ![c].status = "IN_PROGRESS"]

\* Only a call that was connected earns money.
Finishes(c) ==
  /\ cdrs[c].status \in {"RINGING", "IN_PROGRESS"}
  /\ \E r \in Outcome :
       /\ cdrs[c].status = "RINGING" => ~r.converted
       /\ cdrs' = [cdrs EXCEPT ![c].status = "COMPLETED", ![c].result = r]

RowsChange == \E c \in Cdr : ComesIn(c) \/ Rings(c) \/ Connects(c) \/ Finishes(c)

-----------------------------------------------------------------------------
(* Who is shown which rows, and what of them *)

Scoped(user, r) ==
  CASE user.role \in Staff -> TRUE
    [] user.role = "PUBLISHER" -> r.publisher = user.partner
    [] user.role = "BUYER" -> r.line.buyer = user.partner
    [] user.role = "AGENT" -> r.line.target = user.partner

\* A filter: "any", or the value that is wanted.
Filter == [publisher : {"any", "p1"}, buyer : {"any", "b1"}, target : {"any", "a1"},
           converted : {"any", "true", "false"}]
AnyCall == [publisher |-> "any", buyer |-> "any", target |-> "any", converted |-> "any"]

Wanted(f, v) == f = "any" \/ v = f

\* The filters of a partner's own column are left out, but an agent's takes the scope's place.
FilterWhere(user, f, r) ==
  /\ (user.role = "AGENT" /\ f.target # "any") \/ Scoped(user, r)
  /\ user.role = "PUBLISHER" \/ Wanted(f.publisher, r.publisher)
  /\ user.role = "BUYER" \/ Wanted(f.buyer, r.line.buyer)
  /\ user.role = "PUBLISHER" \/ Wanted(f.target, r.line.target)
  /\ Wanted(f.converted, IF r.result.converted THEN "true" ELSE "false")

Listed(user, f, from, to) ==
  {c \in Cdr : Written(c) /\ from <= cdrs[c].at /\ cdrs[c].at <= to /\ FilterWhere(user, f, cdrs[c])}

Money(r, k) ==
  IF k = "profit" THEN r.result.revenue - r.result.payout - r.result.cost ELSE r.result[k]

\* present: the money of a row in a list.
Presented(role) ==
  CASE role = "PUBLISHER" -> {"payout"}
    [] role = "BUYER" -> {"revenue"}
    [] role = "AGENT" -> {}
    [] role \in Staff -> {"revenue", "payout", "cost", "profit"}

\* CDR_COLUMNS: the money of an export.
Columns(role) ==
  (IF role \in Staff \cup {"BUYER"} THEN {"revenue"} ELSE {})
    \cup (IF role \in Staff \cup {"PUBLISHER"} THEN {"payout"} ELSE {})
    \cup (IF role \in Staff THEN {"cost", "profit"} ELSE {})

Present(user, r) ==
  [status |-> r.status, at |-> r.at,
   publisher |-> IF user.role \in {"BUYER", "AGENT"} THEN "none" ELSE r.publisher,
   line |-> IF user.role = "PUBLISHER" THEN Nobody ELSE r.line,
   money |-> [k \in Presented(user.role) |-> Money(r, k)]]
=============================================================================
