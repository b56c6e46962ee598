------------------------------ MODULE Charges ------------------------------
(***************************************************************************)
(* What is paid for and what is shown of it: the plan and the numbers of   *)
(* an account (Billing), the calls of one caller (Callers), whom a call is *)
(* put down to (Partners), the calls in progress (LiveBoard) and those of  *)
(* a report (Reports), and what publishers are told (Postbacks).  The      *)
(* parts are explored side by side: `scene` says which of them moves, the  *)
(* others rest in their initial states.                                    *)
(***************************************************************************)
EXTENDS Billing, Callers, Partners, LiveBoard, Reports, Postbacks

VARIABLE scene

-----------------------------------------------------------------------------
(* The calls and requests for Reports. *)

Past(p, l, t, r) == [status |-> "COMPLETED", publisher |-> p, line |-> l, at |-> t, result |-> r]
Sale == [converted |-> TRUE, revenue |-> 5, payout |-> 2, cost |-> 1]
Bought == [buyer |-> "b1", target |-> "none"]
ByAgent == [buyer |-> "b2", target |-> "a1"]

Manager == [role |-> "MANAGER", partner |-> "none"]
Readers == {Manager, [role |-> "PUBLISHER", partner |-> "p1"], [role |-> "BUYER", partner |-> "b1"]}
Filters ==
  {AnyCall} \cup {[AnyCall EXCEPT !.converted = v] : v \in {"true", "false"}}
    \cup {[AnyCall EXCEPT !.publisher = "p1"], [AnyCall EXCEPT !.buyer = "b1"],
          [AnyCall EXCEPT !.target = "a1"]}
Asks(U, F, S, E, B) == [user : U, filter : F, from : S, to : E, by : B]

\* The first call is any of S, the others are of T.
FirstOf(S, T) == cdrs \in {[c \in Cdr |-> IF c = CHOOSE r \in Cdr : TRUE THEN s ELSE t] :
                           s \in S, t \in T}

\* Calls at the edges of days, and ranges that start and end within days.
CallsAt(T) == {Past("p1", Bought, t, Sale) : t \in T}
TimesAsked ==
  /\ FirstOf(CallsAt({0, 2, 7, 8, 13, 14, 15, 23, 24}), CallsAt({0, 7, 13}))
  /\ request \in Asks({Manager}, {AnyCall}, {0, 1, 5, 8, 14}, {6, 15, 20, 25}, {"publisher"})

\* Calls of any partners and with any money, for any reader and filter.
MoneyAsked ==
  /\ FirstOf({Past(p, l, 3, r) : p \in {"p1", "p2"}, l \in {Bought, ByAgent, Nobody}, r \in Outcome},
             {Past("p1", Bought, 3, Sale), Past("p2", ByAgent, 3, Sale)})
  /\ request \in Asks(Readers, Filters, {0}, {9}, {"publisher", "buyer"})

\* Calls that come in, go on and end meanwhile; and in a long range an old call that rings buyers
\* after the first call was asked for.
BusyAsked ==
  /\ cdrs \in [Cdr -> {Absent, Past("p1", Bought, 2, Sale), Fresh("p1"),
                       [Fresh("p2") EXCEPT !.line = Bought, !.status = "IN_PROGRESS"]}]
  /\ request \in Asks(Readers, {AnyCall}, {0}, {9}, {"publisher", "buyer"})
LateAsked ==
  /\ FirstOf({[Fresh("p1") EXCEPT !.at = 2]}, {Absent, Past("p1", Bought, 8, Sale)})
  /\ request \in Asks(Readers, {AnyCall}, {0}, {20}, {"buyer"})

SomethingAsked ==
  /\ TimesAsked \/ MoneyAsked \/ BusyAsked \/ LateAsked
  /\ request.from <= request.to /\ Allowed(request.user, request.by)

NothingAsked ==
  /\ cdrs = [c \in Cdr |-> Absent]
  /\ request \in Asks({Manager}, {AnyCall}, {0}, {0}, {"publisher"})

\* Days of eight, of seven and of nine units.
SampleDays == <<0, 8, 15, 24>>

-----------------------------------------------------------------------------
\* Where billing rests, so does an account on trial.
ChargesInit ==
  /\ scene \in {"billing", "callers", "partners", "live", "report", "postbacks"}
  /\ Init /\ CallersInit /\ PartnersInit /\ LiveInit /\ ReportInit /\ PostbacksInit
  /\ scene = "billing" \/ \A t \in Tenants : acc[t].status = "TRIAL"
  /\ scene = "live" \/ viewer = [p \in Page |-> Manager]
  /\ IF scene = "report" THEN SomethingAsked ELSE NothingAsked

boardVars == <<cdrs, liveVars, reportVars>>

InBilling ==
  /\ scene = "billing" /\ Next
  /\ UNCHANGED <<scene, callersVars, partnersVars, boardVars, postbackVars>>
InCallers ==
  /\ scene = "callers" /\ CallersNext
  /\ UNCHANGED <<scene, vars, partnersVars, boardVars, postbackVars>>
InPartners ==
  /\ scene = "partners" /\ PartnersNext
  /\ UNCHANGED <<scene, vars, callersVars, boardVars, postbackVars>>
InLive ==
  /\ scene = "live" /\ LiveNext
  /\ UNCHANGED <<scene, vars, callersVars, partnersVars, cdrs, reportVars, postbackVars>>
InReport ==
  /\ scene = "report" /\ ReportNext
  /\ UNCHANGED <<scene, vars, callersVars, partnersVars, liveVars, postbackVars>>
InPostbacks ==
  /\ scene = "postbacks" /\ PostbacksNext
  /\ UNCHANGED <<scene, vars, callersVars, partnersVars, boardVars>>

ChargesNext == InBilling \/ InCallers \/ InPartners \/ InLive \/ InReport \/ InPostbacks

\* The fairness of Billing and of Postbacks, where they move; the others need none.
ChargesFairness ==
  /\ \A p \in Servers \cup Clients : WF_vars(scene = "billing" /\ Running(p))
  /\ WF_vars(scene = "billing" /\ \E s \in Servers : RunRenewals(s))
  /\ WF_vars(scene = "billing" /\ LockExpires)
  /\ \A d \in Deliverer : WF_postbackVars(scene = "postbacks" /\ Delivers(d))

ChargesSpec ==
  /\ ChargesInit
  /\ [][ChargesNext]_<<scene, vars, callersVars, partnersVars, boardVars, postbackVars>>
  /\ ChargesFairness
=============================================================================
