------------------------------ MODULE Partners ------------------------------
(***************************************************************************)
(* Who a call is for, and who sees it: buyers, targets and the routes of a *)
(* campaign (campaigns/partners.controller.ts, campaigns.controller.ts),   *)
(* agents (routing/agents.controller.ts), the rows of calls as dialNext of *)
(* routing/call-engine.service.ts writes them, and what the logins of      *)
(* buyers and agents are shown of them (calls/calls.controller.ts).        *)
(*                                                                         *)
(* Requests of the staff take several statements each and run at once.  A  *)
(* lookup before a write whose foreign keys ask for the same rows is part  *)
(* of the write.  All buyers and targets exist at first, ids are never     *)
(* used again, and every buyer may have a login, also after it is deleted: *)
(* nothing stops an invitation that has looked it up before.               *)
(***************************************************************************)
EXTENDS Integers, FiniteSets

CONSTANTS
  Buyer,
  Target,
  Agent,      \* the targets that are an agent's softphone
  NRoutes,    \* at most so many routes are ever added to the campaign
  NEditors,   \* bound on the requests of the staff at once
  PhoneCall

ASSUME PartnersAssumption == Agent \subseteq Target /\ {NRoutes, NEditors} \subseteq Nat

VARIABLES
  buyers,   \* the buyers that have a row
  owner,    \* the buyer of each target; Gone without a row
  routes,   \* each route's buyer and target
  edits,    \* what requests have still to do
  ring,     \* each call's progress, the candidates it has left and the one it rings
  rows,     \* what the row of each call names
  sent      \* everyone each call was sent to

partnersVars == <<buyers, owner, routes, edits, ring, rows, sent>>
catalogue == <<buyers, owner, routes>>
calls == <<ring, rows, sent>>

NoBuyer == "no buyer"
NoTarget == "no target"
Gone == "gone"
NoRoute == [buyer |-> Gone, target |-> Gone]        \* not added yet
OldRoute == [buyer |-> Gone, target |-> NoTarget]   \* removed
NoCandidate == [route |-> 0, buyer |-> NoBuyer, target |-> NoTarget]
NoLine == [buyer |-> NoBuyer, target |-> NoTarget]

\* Ids are unique, and no id is one of these words.
ASSUME IdsAssumption ==
  Buyer \cap Target = {} /\ {NoBuyer, NoTarget, Gone} \cap (Buyer \cup Target) = {}

Route == 1 .. NRoutes
Stands(r) == routes[r].buyer # Gone
\* What a foreign key accepts.
Known(b) == b \in buyers \cup {NoBuyer}
There(t) == t = NoTarget \/ owner[t] # Gone

PartnersInit ==
  /\ buyers = Buyer
  /\ owner = [t \in Target |-> NoBuyer]
  /\ routes = [r \in Route |-> NoRoute]
  /\ edits = {}
  /\ ring = [k \in PhoneCall |-> [at |-> "new", left |-> {}, line |-> NoCandidate]]
  /\ rows = [k \in PhoneCall |-> NoLine]
  /\ sent = [k \in PhoneCall |-> {}]

\* A request that has something to do after its first statement; two that have the same
\* to do are one.
Begins(e) == Cardinality(edits) < NEditors /\ edits' = edits \cup {e}
Ends(e) == edits' = edits \ {e}

-----------------------------------------------------------------------------
(* Targets, routes and buyers *)

\* updateTarget writes the target ...
MoveTarget(t, b) ==
  /\ There(t) /\ Known(b)
  /\ owner' = [owner EXCEPT ![t] = b]
  /\ Begins([does |-> "follow", target |-> t, buyer |-> b])
  /\ UNCHANGED <<buyers, routes, calls>>

\* ... and then its routes, unless that buyer is gone by now.
MoveRoutes(e) ==
  /\ e.does = "follow"
  /\ routes' = [r \in Route |->
       IF Stands(r) /\ routes[r].target = e.target /\ Known(e.buyer)
       THEN [routes[r] EXCEPT !.buyer = e.buyer] ELSE routes[r]]
  /\ Ends(e)
  /\ UNCHANGED <<buyers, owner, calls>>

\* The first id that no route has had yet.
NewRoute(b, t) ==
  \E r \in Route : /\ routes[r] = NoRoute /\ \A q \in 1 .. r - 1 : routes[q] # NoRoute
                   /\ routes' = [routes EXCEPT ![r] = [buyer |-> b, target |-> t]]

\* addRoute to a buyer's main line, once.
AddMainLine(b) ==
  /\ b \in buyers
  /\ \A r \in Route : routes[r] # [buyer |-> b, target |-> NoTarget]
  /\ NewRoute(b, NoTarget)
  /\ UNCHANGED <<buyers, owner, edits, calls>>

\* addRoute to a target, once: the target's buyer is read ...
AskRoute(t) ==
  /\ There(t)
  /\ \A r \in Route : routes[r].target # t
  /\ Begins([does |-> "add", target |-> t, buyer |-> owner[t]])
  /\ UNCHANGED <<catalogue, calls>>

\* ... and the route is created with it, unless one of them is gone by now.
CreateRoute(e) ==
  /\ e.does = "add"
  /\ IF There(e.target) /\ Known(e.buyer) THEN NewRoute(e.buyer, e.target) ELSE UNCHANGED routes
  /\ Ends(e)
  /\ UNCHANGED <<buyers, owner, calls>>

RemoveRoute(r) ==
  /\ Stands(r)
  /\ routes' = [routes EXCEPT ![r] = OldRoute]
  /\ UNCHANGED <<buyers, owner, edits, calls>>

\* What the database does when buyers bs and targets ts go: their routes go, calls forget them.
Cascade(bs, ts) ==
  /\ owner' = [t \in Target |-> IF t \in ts THEN Gone ELSE owner[t]]
  /\ routes' = [r \in Route |->
       IF Stands(r) /\ (routes[r].buyer \in bs \/ routes[r].target \in ts) THEN OldRoute ELSE routes[r]]
  /\ rows' = [k \in PhoneCall |->
       [buyer |-> IF rows[k].buyer \in bs THEN NoBuyer ELSE rows[k].buyer,
        target |-> IF rows[k].target \in ts THEN NoTarget ELSE rows[k].target]]

\* deleteTarget, and the remove of agents.
DeleteTarget(t) ==
  /\ There(t)
  /\ Cascade({}, {t})
  /\ UNCHANGED <<buyers, edits, ring, sent>>

\* deleteBuyer; the targets of the buyer go too.
DeleteBuyer(b) ==
  /\ b \in buyers
  /\ buyers' = buyers \ {b}
  /\ Cascade({b}, {t \in Target : owner[t] = b})
  /\ UNCHANGED <<edits, ring, sent>>

-----------------------------------------------------------------------------
(* Calls *)

\* onInbound: a candidate per route, for the target's buyer as it is now.
CandidateOf(r) ==
  [route |-> r, target |-> routes[r].target,
   buyer |-> IF routes[r].target = NoTarget THEN routes[r].buyer ELSE owner[routes[r].target]]

CallArrives(k) ==
  /\ ring[k].at = "new"
  /\ ring' = [ring EXCEPT ![k].at = "ringing", ![k].left = {CandidateOf(r) : r \in {q \in Route : Stands(q)}}]
  /\ UNCHANGED <<catalogue, edits, rows, sent>>

\* The row names a candidate's route, buyer and target while all of them exist.
Nameable(c) == Stands(c.route) /\ Known(c.buyer)

\* (mutant) the row is only written for the first candidate
NamesFirst(k, c) == IF Nameable(c) /\ rows[k] = NoLine THEN [buyer |-> c.buyer, target |-> c.target] ELSE rows[k]

\* dialNext writes it when the line rings already; a write that fails leaves the last one's names.
Names(k, c) == IF Nameable(c) THEN [buyer |-> c.buyer, target |-> c.target] ELSE rows[k]

DialLine(k, c) ==
  /\ ring[k].at = "ringing"
  /\ ring' = [ring EXCEPT ![k].left = @ \ {c}, ![k].line = c]
  /\ sent' = [sent EXCEPT ![k] = @ \cup ({c.buyer, c.target} \ {NoBuyer, NoTarget})]
  /\ rows' = [rows EXCEPT ![k] = Names(k, c)]
  /\ UNCHANGED <<catalogue, edits>>

\* The fallback number belongs to nobody.
DialFallback(k) ==
  /\ ring[k].at = "ringing" /\ ring[k].left = {}
  /\ ring' = [ring EXCEPT ![k].at = "fallback", ![k].line = NoCandidate]
  /\ rows' = [rows EXCEPT ![k] = NoLine]
  /\ UNCHANGED <<catalogue, edits, sent>>

\* The candidates that are left are not asked any more.
LineAnswers(k) ==
  /\ ring[k].at = "ringing" /\ ring[k].line # NoCandidate
  /\ ring' = [ring EXCEPT ![k].at = "talking", ![k].left = {}]
  /\ UNCHANGED <<catalogue, edits, rows, sent>>

-----------------------------------------------------------------------------
\* The calls the login u is shown, of a buyer or of an agent (named by its target); an agent
\* whose target is gone is given an id that no row has.
Scope(u) ==
  {k \in PhoneCall : /\ ring[k].at # "new"
                     /\ IF u \in Buyer THEN rows[k].buyer = u ELSE There(u) /\ rows[k].target = u}

PartnersNext ==
  \/ \E t \in Target : AskRoute(t) \/ \E b \in Buyer \cup {NoBuyer} : MoveTarget(t, b)
  \/ \E e \in edits : MoveRoutes(e) \/ CreateRoute(e)
  \/ \E r \in Route : RemoveRoute(r)
  \/ \E t \in Target : DeleteTarget(t)
  \/ \E b \in Buyer : AddMainLine(b) \/ DeleteBuyer(b)
  \/ \E k \in PhoneCall :
       \/ CallArrives(k) \/ DialFallback(k) \/ LineAnswers(k)
       \/ \E c \in ring[k].left : DialLine(k, c)

PartnersSpec == PartnersInit /\ [][PartnersNext]_partnersVars

-----------------------------------------------------------------------------
(* Partners only ever see calls that were sent to them (calls.controller.ts *)
(* :86), while targets change hands and buyers, targets and routes go; and  *)
(* the one who talks with a caller sees the call, unless its route or buyer *)
(* has been removed since the call came in (call-engine.service.ts:558).   *)
PartnersSeeTheirs ==
  \A u \in Buyer \cup Agent :
    /\ \A k \in Scope(u) : u \in sent[k]
    /\ \A k \in PhoneCall :
         LET c == ring[k].line
         IN  ring[k].at = "talking" /\ u \in {c.buyer, c.target} /\ Nameable(c) => k \in Scope(u)
=============================================================================
