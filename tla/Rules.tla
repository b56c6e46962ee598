------------------------------- MODULE Rules -------------------------------
(***************************************************************************)
(* Which buyers a call is offered to, and in which order: the eligible     *)
(* routes of onInbound, isOpen, geoAllows and orderByPriorityAndWeight of  *)
(* routing/rules.ts, and orderForRepeat of routing/call-engine.service.ts. *)
(*                                                                         *)
(* Time of day is counted in units; days of the week are numbers that      *)
(* wrap around.  Random choices and the order in which the database        *)
(* returns rows are free choices.                                          *)
(***************************************************************************)
EXTENDS Integers, FiniteSets, Sequences

CONSTANTS
  NDays,   \* days in a week
  NTimes,  \* units in a day
  Calls    \* the calls that come in (records, see below)

ASSUME WeekAssumption == NDays \in Nat \ {0} /\ NTimes \in Nat \ {0}

Day == 0 .. NDays - 1
Time == 0 .. NTimes - 1

\* An opening range; validateSchedule refuses one whose ends are the same.
Opening == {r \in Time \X Time : r[1] # r[2]}

(* A route is a record of its id, owner (ownerKey), priority and weight;    *)
(* `active`: its target and its buyer are; `agent`: "no", or whether the    *)
(* softphone it rings is "reachable" or "away"; `hours`: a function from    *)
(* some days to sets of openings, without any days for always; `states`:    *)
(* the callers it takes, {} for all.                                        *)

Unknown == "unknown"  \* stateForNumber of a number that is toll-free or from abroad

(* A call is a record of the campaign's routes and mode (repeatRouting:     *)
(* "NORMAL", "SAME" or "DIFFERENT"), the tenant's local day and time, the   *)
(* caller's state (from), and the owners that had this caller (seen, the    *)
(* newest first).                                                           *)

\* What validateSchedule and validateGeoRules let be saved, at a time localTime returns.
Weekly(schedule) ==
  DOMAIN schedule \subseteq Day /\ \A d \in DOMAIN schedule : schedule[d] \subseteq Opening
ASSUME CallsAssumption ==
  \A c \in Calls :
    /\ c.day \in Day /\ c.time \in Time /\ c.mode \in {"NORMAL", "SAME", "DIFFERENT"}
    /\ \A r \in c.routes : /\ Weekly(r.hours) /\ Unknown \notin r.states
                           /\ r.priority \in Int /\ r.weight \in Nat

VARIABLES
  call,      \* the call
  progress,   \* "gather", "order" or "ready"
  pool,      \* routes orderByPriorityAndWeight has not placed yet
  list       \* the candidates so far

rulesVars == <<call, progress, pool, list>>

NothingChosen ==
  /\ progress = "gather"
  /\ pool = {}
  /\ list = <<>>

RulesInit == call \in Calls /\ NothingChosen

-----------------------------------------------------------------------------
Hours(schedule, d) == IF d \in DOMAIN schedule THEN schedule[d] ELSE {}

\* A range of today, to its end or to midnight, or the rest of one of yesterday.
OpenToday(schedule, d, t) ==
  \E r \in Hours(schedule, d) : r[1] <= t /\ (r[1] < r[2] => t < r[2])
OpenSinceMidnight(schedule, d, t) ==  \* (mutant) looks at today's ranges
  \E r \in Hours(schedule, d) : r[1] > r[2] /\ t < r[2]
OpenSinceYesterday(schedule, d, t) ==
  \E r \in Hours(schedule, (d + NDays - 1) % NDays) : r[1] > r[2] /\ t < r[2]

isOpen(schedule, d, t) ==
  \/ DOMAIN schedule = {}
  \/ OpenToday(schedule, d, t)
  \/ OpenSinceYesterday(schedule, d, t)

geoAllows(states, state) == states = {} \/ state \in states

\* The filters of onInbound; an unknown state is in no list.
Gather ==
  /\ progress = "gather"
  /\ pool' = {r \in call.routes : /\ r.active
                                  /\ isOpen(r.hours, call.day, call.time)
                                  /\ geoAllows(r.states, call.from)
                                  /\ r.agent # "away"}
  /\ progress' = "order"
  /\ UNCHANGED <<call, list>>

\* What may come next: the lowest priority number left; in it a draw by weight, which
\* takes no route of weight 0 while others are left; routes of weight 0 as they come.
InTurn == {r \in pool : \A q \in pool : r.priority <= q.priority}
Pickable == {r \in InTurn : r.weight > 0 \/ \A q \in InTurn : q.weight = 0}

Pick ==
  /\ progress = "order"
  /\ \E r \in Pickable : pool' = pool \ {r} /\ list' = Append(list, r)
  /\ UNCHANGED <<call, progress>>

\* The owners that go to the front for a repeat caller.
Preferred(owner) ==
  \/ call.seen = <<>> \/ call.mode = "NORMAL"
  \/ call.mode = "SAME" /\ owner = call.seen[1]
  \/ call.mode = "DIFFERENT" /\ \A i \in DOMAIN call.seen : owner # call.seen[i]

\* orderForRepeat: two filters, one behind the other, each of which keeps the order.
Goes(i, j) ==
  LET front(k) == Preferred(list[k].owner)
  IN  IF front(i) <=> front(j) THEN i < j ELSE front(i)

OrderForRepeat ==
  /\ progress = "order"
  /\ pool = {}
  /\ \E old \in [DOMAIN list -> DOMAIN list] :
       /\ \A k \in DOMAIN list : \E i \in DOMAIN list : old[i] = k
       /\ \A i, j \in DOMAIN list : i < j => Goes(old[i], old[j])
       /\ list' = [i \in DOMAIN list |-> list[old[i]]]
  /\ progress' = "ready"
  /\ UNCHANGED <<call, pool>>

RulesNext == Gather \/ Pick \/ OrderForRepeat

RulesSpec == RulesInit /\ [][RulesNext]_rulesVars

-----------------------------------------------------------------------------
\* The reference for isOpen: the week is a circle, and a range that ends before it
\* starts goes on into the next day.
Covered(schedule, d, t) ==
  \E e \in DOMAIN schedule : \E r \in schedule[e] :
    LET length == (r[2] - r[1]) % NTimes
        after  == ((d - e) * NTimes + t - r[1]) % (NDays * NTimes)
    IN  after < length

Takes(r) ==
  /\ r.active /\ r.agent # "away"
  /\ DOMAIN r.hours = {} \/ Covered(r.hours, call.day, call.time)
  /\ r.states = {} \/ (call.from # Unknown /\ call.from \in r.states)

\* 0 for the routes a repeat caller is offered first, 1 for the others.
Rank(r) ==
  CASE call.mode = "SAME" -> IF call.seen # <<>> /\ r.owner # call.seen[1] THEN 1 ELSE 0
    [] call.mode = "DIFFERENT" -> IF \E i \in DOMAIN call.seen : call.seen[i] = r.owner THEN 1 ELSE 0
    [] call.mode = "NORMAL" -> 0

(* The call is offered to exactly the routes that take it at this time of   *)
(* the week from this state, each once; for a repeat caller those of        *)
(* repeatRouting's choice come first, inside of that the lower priority     *)
(* number, and a route of weight 0 only after the others of its priority    *)
(* ("lower priority number first; inside a priority, weighted random",      *)
(* "the others stay as a last resort").                                     *)
RoutesAsConfigured ==
  progress = "ready" =>
    /\ {list[i] : i \in DOMAIN list} = {r \in call.routes : Takes(r)}
    /\ \A i, j \in DOMAIN list :
         LET a == list[i]  b == list[j]
         IN  i < j =>
               /\ a # b
               /\ Rank(a) <= Rank(b)
               /\ Rank(a) = Rank(b) => a.priority <= b.priority
               /\ Rank(a) = Rank(b) /\ a.priority = b.priority => (a.weight = 0 => b.weight = 0)
=============================================================================
