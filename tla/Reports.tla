------------------------------ MODULE Reports ------------------------------
(***************************************************************************)
(* A report: build of calls/reports.controller.ts.                         *)
(*                                                                         *)
(* It is put together from queries that run one after another or at once,  *)
(* while calls go on: totals, what converted, the ids of the calls, the    *)
(* first one; then the charts by day and by hour, of those ids; then the   *)
(* breakdown.  Time goes in units of three hours.  A local day has eight,  *)
(* and seven or nine when the clocks change.                               *)
(***************************************************************************)
EXTENDS CallRows, Sequences
Sets == INSTANCE FiniteSetsExt

CONSTANTS
  DayStarts,  \* when the local days start, a sequence that begins with 0; the last one ends never
  Stride,     \* the chart goes over its range in strides (6 h)
  MaxSpan,    \* MAX_DAYS
  ShortSpan,  \* thirty days, the chart of a long range without calls
  MaxMoves    \* bound on the changes of rows while a report is built

\* Even the day on which the clocks go forward is longer than a stride.
ASSUME ReportsAssumption ==
  /\ DayStarts \in Seq(Nat) /\ DayStarts # <<>> /\ DayStarts[1] = 0
  /\ {Stride, MaxSpan, ShortSpan} \subseteq Nat \ {0} /\ MaxMoves \in Nat
  /\ \A d, e \in DOMAIN DayStarts : d < e => DayStarts[d] + Stride <= DayStarts[e]

VARIABLES
  request,  \* who asks, with which filter, for which range, broken down by what
  got,      \* the answers of the queries made so far
  moves     \* how often a row has changed since the first query

reportVars == <<request, got, moves>>

-----------------------------------------------------------------------------
DayOf(t) == CHOOSE d \in DOMAIN DayStarts :
  DayStarts[d] <= t /\ \A e \in DOMAIN DayStarts : DayStarts[e] <= t => e <= d

\* The hour that a change of the clocks repeats is one hour of the report.
HourOf(t) == LET h == t - DayStarts[DayOf(t)] IN IF h > 7 THEN 7 ELSE h

Earlier(t, u) == IF t < u THEN t ELSE u

\* A sum of amounts in the smallest coin, which are gains or losses: the coins of each are counted.
Coins(f) == UNION {{x} \X (1 .. f[x]) : x \in DOMAIN f}
Sum(f) == Cardinality(Coins(f)) - Cardinality(Coins([x \in DOMAIN f |-> -f[x]]))
SumOf(S, k) == Sum([c \in S |-> Money(cdrs[c], k)])

\* What is counted of a set of calls, and what a role is shown of it (byRole, hide).
Bucket(S) ==
  [k \in {"calls", "converted", "revenue", "payout", "cost"} |->
     CASE k = "calls" -> Cardinality(S)
       [] k = "converted" -> Cardinality({c \in S : cdrs[c].result.converted})
       [] OTHER -> SumOf(S, k)]

Hide(role, bucket) ==
  [k \in {"calls", "converted"} \cup
         (CASE role = "PUBLISHER" -> {"payout"}
            [] role = "BUYER" -> {"revenue"}
            [] OTHER -> {"revenue", "payout", "cost", "profit"}) |->
     IF k = "profit" THEN bucket.revenue - bucket.payout - bucket.cost ELSE bucket[k]]

Found == Listed(request.user, request.filter, request.from, request.to)

\* What is counted as converted: the filter that asks for the others is overwritten.
FoundConverted ==
  Listed(request.user, [request.filter EXCEPT !.converted = "true"], request.from, request.to)

GroupOf(c) == IF request.by = "publisher" THEN cdrs[c].publisher ELSE cdrs[c].line.buyer

-----------------------------------------------------------------------------
(* The queries *)

Together == {"totals", "converted", "ids", "first"}
Charts == {"daily", "hourly"}

Answer(q) ==
  CASE q = "totals" -> Bucket(Found)
    [] q = "converted" -> Cardinality(FoundConverted)
    [] q = "ids" -> Found
    [] q = "first" -> {cdrs[c].at : c \in Found}

\* Very long ranges are drawn from the first call, not from their start.
ChartFrom ==
  LET first == IF got["first"] = {} THEN request.to - ShortSpan ELSE Sets!Min(got["first"])
  IN  CASE request.to - request.from <= MaxSpan -> request.from
        [] request.to - request.from > MaxSpan /\ request.to - first > MaxSpan -> request.to - MaxSpan
        [] OTHER -> first

\* (mutant) strides of a day: a day that the clocks make shorter may be stepped over
DaysByDay ==
  {DayOf(t) : t \in {u \in ChartFrom .. request.to : (u - ChartFrom) % 8 = 0}}

\* The days that are drawn, those without calls too.
Days ==
  {DayOf(Earlier(t, request.to)) :
     t \in {u \in ChartFrom .. request.to + Stride : (u - ChartFrom) % Stride = 0}}

Chart(q) ==
  IF q = "daily" THEN [d \in Days |-> Bucket({c \in got["ids"] : DayOf(cdrs[c].at) = d})]
  ELSE [h \in 0 .. 7 |-> Bucket({c \in got["ids"] : HourOf(cdrs[c].at) = h})]

Got(q, a) == got' = [r \in DOMAIN got \cup {q} |-> IF r = q THEN a ELSE got[r]]
Asked(Q) == Q \subseteq DOMAIN got

Ask(q) ==
  /\ q \notin DOMAIN got
  /\ Got(q, Answer(q))
  /\ UNCHANGED <<cdrs, request, moves>>

Draw(q) ==
  /\ Asked(Together) /\ q \notin DOMAIN got
  /\ Got(q, Chart(q))
  /\ UNCHANGED <<cdrs, request, moves>>

Group ==
  /\ Asked(Charts) /\ ~Asked({"groups"})
  /\ Got("groups", [g \in {GroupOf(c) : c \in Found} |-> Bucket({c \in Found : GroupOf(c) = g})])
  /\ UNCHANGED <<cdrs, request, moves>>

GroupConverted ==
  /\ Asked({"groups"}) /\ ~Asked({"groupsConverted"})
  /\ Got("groupsConverted",
         [g \in {GroupOf(c) : c \in FoundConverted} |->
            Cardinality({c \in FoundConverted : GroupOf(c) = g})])
  /\ UNCHANGED <<cdrs, request, moves>>

\* Calls go on while a report is built.
Meanwhile ==
  /\ DOMAIN got # {} /\ ~Asked({"groupsConverted"})
  /\ moves < MaxMoves /\ moves' = moves + 1
  /\ RowsChange
  /\ UNCHANGED <<request, got>>

ReportNext ==
  \/ \E q \in Together : Ask(q)
  \/ \E q \in Charts : Draw(q)
  \/ Group \/ GroupConverted \/ Meanwhile

\* Partners do not break down by the other side of the deal.
Allowed(user, by) ==
  /\ user.role \in Staff \cup {"PUBLISHER", "BUYER"}
  /\ ~(user.role = "PUBLISHER" /\ by = "buyer")
  /\ ~(user.role = "BUYER" /\ by = "publisher")

\* The module that extends this one picks the rows and the request.
ReportInit == got = <<>> /\ moves = 0

Request ==
  {r \in [user : User, filter : Filter, from : Nat, to : Nat, by : {"publisher", "buyer"}] :
     r.from <= r.to /\ Allowed(r.user, r.by)}

\* A report of any calls, for any request.
ReportsSpec ==
  /\ cdrs \in [Cdr -> CallRow] /\ request \in Request /\ ReportInit
  /\ [][ReportNext]_<<cdrs, reportVars>>

-----------------------------------------------------------------------------
(* The report that is sent *)

Role == request.user.role
Totals == [Hide(Role, got["totals"]) EXCEPT !["converted"] = got["converted"]]
Drawn(q) == [d \in DOMAIN got[q] |-> Hide(Role, got[q][d])]
ConvertedIn(g) == IF g \in DOMAIN got["groupsConverted"] THEN got["groupsConverted"][g] ELSE 0
Breakdown ==
  [g \in DOMAIN got["groups"] |->
     [Hide(Role, got["groups"][g]) EXCEPT !["converted"] = ConvertedIn(g)]]

Total(part, k) == Sum([d \in DOMAIN part |-> part[d][k]])
AddsUp(part) == \A k \in DOMAIN Totals : Total(part, k) = Totals[k]

\* A long range is not drawn from where it starts: calls are left out that are too long ago, or
\* before the first one, of which the filter was true only after the first one was asked for.
CutOff ==
  /\ request.to - request.from > MaxSpan
  /\ \/ \E t \in got["first"] : request.to - t > MaxSpan
     \/ \E c \in got["ids"] : \A t \in got["first"] : cdrs[c].at < t

(* What a report says adds up (reports.controller.ts:41).  The charts by    *)
(* day and by hour count the same calls, whatever happens while they are    *)
(* drawn, days of any length, unless the days of a long range leave the     *)
(* oldest calls out.  And when no call changes meanwhile, the totals are of *)
(* the days, of the hours, of the breakdown, and of the calls in the list   *)
(* and the export of the same user with the same filter, and in all of them *)
(* the same money is shown.  Excepted is a filter for calls that did not    *)
(* convert, which the count of the converted ones forgets.                  *)
ReportsAddUp ==
  Asked({"groupsConverted"}) =>
    /\ ~CutOff => Total(got["daily"], "calls") = Total(got["hourly"], "calls")
    /\ moves = 0 /\ request.filter.converted # "false" =>
         /\ ~CutOff => AddsUp(Drawn("daily"))
         /\ AddsUp(Drawn("hourly")) /\ AddsUp(Breakdown)
         /\ Totals["calls"] = Cardinality(Found)
         /\ DOMAIN Totals \ {"calls", "converted"} = Presented(Role)
         /\ Presented(Role) = Columns(Role)
         /\ \A k \in Presented(Role) :
              Totals[k] = Sum([c \in Found |-> Present(request.user, cdrs[c]).money[k]])
=============================================================================
