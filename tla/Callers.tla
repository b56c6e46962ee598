------------------------------- MODULE Callers -------------------------------
(***************************************************************************)
(* The calls of one caller to one campaign: what onInbound, connect and    *)
(* finalize of routing/call-engine.service.ts and screen and afterCall of  *)
(* routing/spam.service.ts make of the caller's other calls.               *)
(*                                                                         *)
(* These calls share no lock and no script, only the rows of the table     *)
(* Call: each call writes its row, reads the rows of the others, and       *)
(* decides whether it is screened out, whether it is a repeat, which       *)
(* buyers come first, and at its end who pays.  A step is one query or one *)
(* transaction.  Caps, legs and the wallet are modelled in CallEngine.     *)
(***************************************************************************)
EXTENDS Integers, FiniteSets

CONSTANTS
  NCalls,      \* inbound calls of the caller
  NOwners,     \* how many can buy a call: buyers, or targets without one (ownerKey)
  DupWindow,   \* duplicateWindowSec, 0 = off
  RateLimit,   \* callerRateLimit, 0 = off
  RateWindow,  \* callerRateWindowMin
  ShortMax,    \* autoBlockShortCalls, 0 = off
  MaxTime      \* bound on the clock (well below the 24 h in which short calls count)

ASSUME CallersAssumption ==
  {NCalls, NOwners, DupWindow, RateLimit, RateWindow, ShortMax, MaxTime} \subseteq Nat

\* Calls are numbered in the order in which their first events are handled.
Call == 1 .. NCalls
\* Owners are alike; they are numbered in the order in which they answer.
Owner == 1 .. NOwners

VARIABLES
  today,    \* the carriers' clock
  row,      \* the Call rows
  step,     \* where each call stands
  seen,     \* CallState.seen: owners that had this caller (their order is used in Rules)
  barred,   \* a BlockedNumber row for the caller exists
  before    \* for each call that may be sold, the calls that were over and sold
            \* when it came in

callersVars == <<today, row, step, seen, barred, before>>

None == 0
\* The defaults of the table: durationSec is 0, which is short.
NoRow == [made |-> FALSE, at |-> 0, rejected |-> FALSE, duplicate |-> FALSE,
          owner |-> None, short |-> TRUE, converted |-> FALSE, paid |-> FALSE]

CallersInit ==
  /\ today = 0
  /\ row = [c \in Call |-> NoRow]
  /\ step = [c \in Call |-> "new"]
  /\ seen = [c \in Call |-> {}]
  /\ barred = FALSE
  /\ before = [c \in Call |-> {}]

Goto(c, s) == step' = [step EXCEPT ![c] = s]

\* (mutant) gt for gte
RowsAfter(c, since) == {d \in Call \ {c} : row[d].made /\ row[d].at > since}

\* Rows of the caller's other calls that started at or after `since`.
RowsSince(c, since) == {d \in Call \ {c} : row[d].made /\ row[d].at >= since}

-----------------------------------------------------------------------------
CallersTick ==
  /\ today < MaxTime
  /\ today' = today + 1
  /\ UNCHANGED <<row, step, seen, barred, before>>

(* onInbound: the row is written first, with the carrier's time; the event  *)
(* may have been on its way for a while.                                    *)
Inbound(c) ==
  /\ step[c] = "new"
  /\ \A d \in 1 .. c - 1 : step[d] # "new"
  /\ \E at \in {today, today - 1} \cap Nat :
       row' = [row EXCEPT ![c].made = TRUE, ![c].at = at]
  /\ Goto(c, "blocklist")
  /\ before' = [before EXCEPT ![c] = {d \in Call : row[d].converted}]
  /\ UNCHANGED <<today, seen, barred>>

\* A rejection for any reason: account, balance, campaign, blocklist, the screen, the
\* account's lines.
Reject(c) ==
  /\ step[c] \in {"blocklist", "screen", "history"}
  /\ row' = [row EXCEPT ![c].rejected = TRUE]
  /\ Goto(c, "rejected")
  /\ before' = [before EXCEPT ![c] = {}]
  /\ UNCHANGED <<today, seen, barred>>

\* The tenant's blocklist is asked first.
PassBlocklist(c) ==
  /\ step[c] = "blocklist"
  /\ ~barred
  /\ Goto(c, "screen")
  /\ UNCHANGED <<today, row, seen, barred, before>>

\* (mutant) off by one
TooManyBesides(c) ==
  RateLimit > 0 /\ Cardinality(RowsSince(c, row[c].at - RateWindow)) > RateLimit

\* screen: calls of this caller in the window that ends now, this one not counted.
TooMany(c) ==
  RateLimit > 0 /\ Cardinality(RowsSince(c, row[c].at - RateWindow)) >= RateLimit
Screen(c) ==
  /\ step[c] = "screen"
  /\ ~TooMany(c)
  /\ Goto(c, "history")
  /\ UNCHANGED <<today, row, seen, barred, before>>

\* Repeat caller: every earlier call counts, also one that was rejected; whoever
\* answered one of them is not to pay again.
History(c) ==
  /\ step[c] = "history"
  /\ LET past == IF DupWindow > 0 THEN RowsSince(c, row[c].at - DupWindow) ELSE {}
     IN  /\ seen' = [seen EXCEPT ![c] = {row[d].owner : d \in past} \ {None}]
         /\ row' = [row EXCEPT ![c].duplicate = past # {}]
  /\ Goto(c, "dialing")
  /\ UNCHANGED <<today, barred, before>>

(* dialNext and connect: the buyers are rung one after the other until one  *)
(* answers, which may be any of them (others have no room or do not answer; *)
(* their order is modelled in Rules).  The row's buyer counts for the other *)
(* calls from the moment answeredAt is written.                             *)
Connect(c, o) ==
  /\ step[c] = "dialing"
  /\ \A p \in 1 .. o - 1 : \E d \in Call : row[d].owner = p
  /\ row' = [row EXCEPT ![c].owner = o]
  /\ Goto(c, "talking")
  /\ UNCHANGED <<today, seen, barred, before>>

\* afterCall looks at short calls only, and only when nothing was sold.
Afterwards(brief, sold) == IF ShortMax > 0 /\ brief /\ ~sold THEN "counting" ELSE "over"

\* (mutant) what the buyer had before is not looked at
FinalizeAnyBuyer(c, brief, enough) ==
  /\ step[c] \in {"dialing", "talking"}
  /\ enough => step[c] = "talking"
  /\ row' = [row EXCEPT ![c].short = brief, ![c].converted = enough,
                        ![c].paid = enough /\ ~row[c].duplicate]
  /\ Goto(c, Afterwards(brief, enough))
  /\ seen' = [seen EXCEPT ![c] = {}]
  /\ UNCHANGED <<today, barred, before>>

(* finalize: the result of the call in one transaction.  How long the call  *)
(* and the conversation took is left open: `brief` is durationSec below     *)
(* shortCallSec, `enough` is connectedSec of at least convertAfterSeconds.  *)
(* The CallState is not read again and is dropped from the model.           *)
Finalize(c, brief, enough) ==
  /\ step[c] \in {"dialing", "talking"}
  /\ enough => step[c] = "talking"
  /\ LET sold == enough /\ row[c].owner \notin seen[c]
     IN  row' = [row EXCEPT ![c].short = brief, ![c].converted = sold,
                            ![c].paid = sold /\ ~row[c].duplicate]
         /\ before' = [before EXCEPT ![c] = IF sold THEN @ ELSE {}]
         /\ Goto(c, Afterwards(brief, sold))
  /\ seen' = [seen EXCEPT ![c] = {}]
  /\ UNCHANGED <<today, barred>>

\* afterCall counts the caller's short calls: rows below shortCallSec that were
\* not rejected, calls in progress among them.  The caller is looked up and then
\* created; of two creations one fails on the unique key and is logged.
ShortRows == {d \in Call : row[d].made /\ row[d].short /\ ~row[d].rejected}
BlocksLater ==  \* (mutant) one short call more
  Cardinality(ShortRows) > ShortMax
Blocks == Cardinality(ShortRows) >= ShortMax
AfterCall(c) ==
  /\ step[c] = "counting"
  /\ barred' = (barred \/ Blocks)
  /\ Goto(c, "over")
  /\ UNCHANGED <<today, row, seen, before>>

CallStep(c) ==
  \/ Inbound(c) \/ Reject(c) \/ PassBlocklist(c) \/ Screen(c) \/ History(c)
  \/ \E o \in Owner : Connect(c, o)
  \/ \E brief, enough \in BOOLEAN : Finalize(c, brief, enough)
  \/ AfterCall(c)

CallersNext == CallersTick \/ \E c \in Call : CallStep(c)

CallersSpec == CallersInit /\ [][CallersNext]_callersVars

-----------------------------------------------------------------------------
Through(c) == step[c] \notin {"new", "blocklist", "screen", "rejected"}
Near(c, d, window) == row[c].at - row[d].at \in -window .. window

(* However the caller's calls come in at once or late, no more than         *)
(* callerRateLimit of them pass the screen in any window: each call writes  *)
(* its row before it counts the others (lines 159 and 190).                 *)
WithinCallerRate ==
  RateLimit > 0 => \A t \in 0 .. MaxTime :
    Cardinality({c \in Call : Through(c) /\ row[c].at \in t - RateWindow .. t}) <= RateLimit

(* "The publisher is paid once per caller, whoever takes the repeat call"   *)
(* (line 623): of calls that start within one duplicate window at most one  *)
(* is paid for, also when they overlap.                                     *)
PublisherPaidOnce ==
  \A c, d \in Call :
    c # d /\ row[c].paid /\ row[d].paid /\ DupWindow > 0 => ~Near(c, d, DupWindow)

(* A buyer pays once per caller when the calls follow one another: a call   *)
(* that came in after another was over is never sold to the same buyer      *)
(* again within the window.                                                 *)
SequentialCallsSellOnce ==
  DupWindow > 0 => \A d \in Call : \A c \in before[d] :
    /\ row[d].converted
    /\ row[c].owner = row[d].owner
    => row[c].at < row[d].at - DupWindow

(* "A buyer only pays once per caller" (line 215), for calls that overlap   *)
(* as well: it does not hold, because `seen` is read when a call comes in   *)
(* and used when it ends.                                                   *)
BuyerPaysOnce ==
  \A c, d \in Call :
    /\ c # d /\ row[c].converted /\ row[d].converted
    /\ row[c].owner = row[d].owner
    => ~Near(c, d, DupWindow)

(* Once the calls are over, a caller with autoBlockShortCalls short calls   *)
(* that sold nothing is on the blocklist, however the ends of the calls and *)
(* their counts interleaved.                                                *)
ShortCallersBlocked ==
  /\ ShortMax > 0
  /\ \A c \in Call : step[c] \in {"new", "rejected", "over"}
  /\ Cardinality({c \in Call : step[c] = "over" /\ row[c].short /\ ~row[c].converted}) >= ShortMax
  => barred
=============================================================================
