------------------------------ MODULE Platform ------------------------------
(***************************************************************************)
(* What the platform does for its customers beside a call in progress:     *)
(* numbers are bought and released, carrier accounts opened and closed,    *)
(* users signed in and let into their portals, and buyers chosen as their  *)
(* routes are configured.  The parts share no variable and are explored    *)
(* side by side: `scene` says which of them moves, the others rest in      *)
(* their initial states.                                                   *)
(***************************************************************************)
EXTENDS Numbers, Carriers, SignIn, Rules, Portals

VARIABLE scene

platformVars == <<scene, vars, carriersVars, signInVars, rulesVars, portalsVars>>

-----------------------------------------------------------------------------
(* The routes and calls for Rules. *)

Always == [d \in {} |-> {}]
Basic == [id |-> 1, owner |-> "b1", active |-> TRUE, agent |-> "no", hours |-> Always,
          states |-> {}, priority |-> 1, weight |-> 1]
Plain == [routes |-> {Basic}, mode |-> "NORMAL", day |-> 0, time |-> 0, from |-> Unknown,
          seen |-> <<>>]

\* One route with any hours of at most one range a day, at any time of the week.
HoursCalls ==
  {[Plain EXCEPT !.routes = {[Basic EXCEPT !.hours = h]}, !.day = d, !.time = t] :
     h \in [Day -> {{}} \cup {{r} : r \in Opening}], d \in Day, t \in Time}

\* One route with any of the other filters.
FilterCalls ==
  {[Plain EXCEPT !.routes = {[Basic EXCEPT !.states = s, !.active = a, !.agent = g]}, !.from = f] :
     s \in SUBSET {"CA", "NY"}, a \in BOOLEAN, g \in {"no", "reachable", "away"},
     f \in {"CA", Unknown}}

\* Three routes of any owners, priorities and weights, for a repeat caller.
Attributes == [owner : {"b1", "b2", "t3"}, priority : {1, 2}, weight : {0, 1}]
Made(i, k) ==
  [Basic EXCEPT !.id = i, !.owner = k.owner, !.priority = k.priority, !.weight = k.weight]
OrderCalls ==
  {[Plain EXCEPT !.routes = {Made(i, k[i]) : i \in 1 .. 3}, !.mode = m, !.seen = <<"b2", "b1">>] :
     k \in [1 .. 3 -> Attributes], m \in {"NORMAL", "SAME", "DIFFERENT"}}

SampleCalls == HoursCalls \cup FilterCalls \cup OrderCalls

-----------------------------------------------------------------------------
PlatformInit ==
  /\ scene \in {"numbers", "carriers", "signin", "rules", "portals"}
  /\ call \in IF scene = "rules" THEN Calls ELSE {Plain}
  /\ Init /\ CarriersInit /\ SignInInit /\ NothingChosen /\ PortalsInit

InNumbers ==
  /\ scene = "numbers" /\ Next
  /\ UNCHANGED <<scene, carriersVars, signInVars, rulesVars, portalsVars>>
InCarriers ==
  /\ scene = "carriers" /\ CarriersNext
  /\ UNCHANGED <<scene, vars, signInVars, rulesVars, portalsVars>>
InSignIn ==
  /\ scene = "signin" /\ SignInNext
  /\ UNCHANGED <<scene, vars, carriersVars, rulesVars, portalsVars>>
InRules ==
  /\ scene = "rules" /\ RulesNext
  /\ UNCHANGED <<scene, vars, carriersVars, signInVars, portalsVars>>
InPortals ==
  /\ scene = "portals" /\ PortalsNext
  /\ UNCHANGED <<scene, vars, carriersVars, signInVars, rulesVars>>

PlatformNext == InNumbers \/ InCarriers \/ InSignIn \/ InRules \/ InPortals

\* The fairness of Numbers where it moves; the other parts need none.
PlatformFairness ==
  /\ \A q \in Requests :
       WF_vars(scene = "numbers" /\ Running(q)) /\ SF_vars(scene = "numbers" /\ Check(q))
  /\ \A r \in RowIds :
       /\ WF_vars(scene = "numbers" /\ OrderSettles(r))
       /\ SF_vars(scene = "numbers" /\ \E q \in Requests : List(q, r))

PlatformSpec == PlatformInit /\ [][PlatformNext]_platformVars /\ PlatformFairness
=============================================================================
