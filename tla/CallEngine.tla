----------------------------- MODULE CallEngine -----------------------------
(***************************************************************************)
(* The call router of apps/api/src/routing/call-engine.service.ts and the  *)
(* cap counters of caps.service.ts that calls share.                       *)
(*                                                                         *)
(* Every carrier event of a call is handled under the call's lock.  A      *)
(* handler is split at the awaits other calls can tell apart: one step for *)
(* each script run on a counter, for each carrier command whose outcome    *)
(* matters, for each save of the call state.  pc[c] is where the handler   *)
(* that holds c's lock stands ("idle": nobody holds it); handlers of       *)
(* different calls interleave, and c's events wait while pc[c] is a locked *)
(* position, or give up: no event waits longer than withLock's ten seconds.*)
(*                                                                         *)
(*   db[c]   the CallState saved in Redis (phase "none": nothing saved)    *)
(*   mem[c]  the running handler's own copy of it                          *)
(*                                                                         *)
(* Answering, dialing and bridging may fail; speak and gather report back  *)
(* unless their leg has gone.  Failures of Redis, of the database or of    *)
(* the process are in CallEngineFaults.                                    *)
(***************************************************************************)
EXTENDS Integers, Sequences, FiniteSets

CONSTANTS
  Calls,        \* inbound calls
  Scopes,       \* cap scopes: route ids, "t:<target>", "b:<buyer>", and Account
  Account,      \* the scope "acct:<tenant>" of the account-wide limit
  Agents,       \* in-house agents, targets that ring a softphone
  NoAgent,      \* agentTargetId undefined
  Cap,          \* concurrency cap of each scope, 0 = none
  PeriodCap,    \* cap of each scope per period, 0 = none
  LastPeriod,   \* bound: the clock crosses LastPeriod - 1 period boundaries
  MaxCands,     \* bound: length of the longest candidate list
  Plans,        \* what onInbound may read from the campaign, see PlanType
  Redelivery,   \* bound: calls whose webhooks may come more than once
  Impatient     \* bound: calls whose events may wait too long for the lock

Periods == 1..LastPeriod
Fallback == MaxCands + 1              \* the leg that rings the fallback number
Legs == 0..Fallback                   \* 0 the caller's leg, i the i-th candidate's
EventTypes == {"answered", "hangup", "speak", "gather"}

\* A campaign as one call sees it: the eligible candidates in ringing order, each
\* with the scopes it is counted in, and which of the optional stages it has.
CandidateType == [scopes : Seq(Scopes \ {Account}), agent : Agents \cup {NoAgent}]
PlanType == [cands : Seq(CandidateType), notice : BOOLEAN, ivr : BOOLEAN,
             whisper : BOOLEAN, fallback : BOOLEAN]

ASSUME ConstantsAssumption ==
  /\ IsFiniteSet(Calls)
  /\ Account \in Scopes
  /\ NoAgent \notin Agents
  /\ Cap \in [Scopes -> Nat]
  /\ PeriodCap \in [Scopes -> Nat]
  /\ LastPeriod \in Nat \ {0}
  /\ MaxCands \in Nat
  /\ Plans \subseteq PlanType
  /\ \A p \in Plans : Len(p.cands) <= MaxCands
  /\ Redelivery \subseteq Calls
  /\ Impatient \subseteq Calls

VARIABLES
  plan,       \* each call's campaign and candidate list
  pc,         \* position of the handler that holds the call's lock
  db,         \* CallState in Redis
  mem,        \* the handler's copy
  taken,      \* scopes counted by the handler's loop and not yet given back
  now,        \* the period of dialNext's `now`
  line,       \* accountLine: the call was counted in Account
  live,       \* cap:<scope>:live
  used,       \* cap:<scope>:<period>, one kind of period
  period,     \* the clock
  leg,        \* carrier: state of each leg
  known,      \* legs with a leg:<id> key in Redis
  events,     \* carrier events on their way to the webhook
  softphone,  \* agent:legs:<target>, as triples <<agent, call, leg>>
  row,        \* Call.status in the database
  bills,      \* how often the final transaction charged the call
  lost        \* calls whose caller's hangup was given up while the lock was held

counters == <<taken, now, line, live, used, period>>
carrier  == <<leg, known, events>>
records  == <<softphone, row, bills, lost>>
vars == <<plan, pc, db, mem, counters, carrier, records>>

-----------------------------------------------------------------------------
(* State and types *)

Phases == {"none", "greeting", "ivr", "dialing", "whisper", "connected", "closing", "ended"}
Positions == {"new", "rejected", "setup", "idle", "next", "reserve", "rollback",
              "dialed", "retry", "end", "save", "account", "leave", "free"}
LegStates == {"none", "ringing", "up", "down"}
Rows == {"none", "RINGING", "REJECTED", "IN_PROGRESS", "COMPLETED", "NO_ANSWER"}

\* out = 0: outboundId undefined.  route = 0: currentRouteId undefined.
StateType == [phase : Phases, next : 0..MaxCands, open : SUBSET Nat, fb : BOOLEAN, out : Legs,
              route : 0..MaxCands, at : Periods, agent : Agents \cup {NoAgent},
              bridged : BOOLEAN]

NoState == [phase |-> "none", next |-> 0, open |-> {}, fb |-> FALSE, out |-> 0,
            route |-> 0, at |-> 1, agent |-> NoAgent, bridged |-> FALSE]

Cands(c) == plan[c].cands

\* What onInbound puts into a new CallState; open holds the candidates an IVR
\* route action leaves (all of them at first).
FreshState(c) == [NoState EXCEPT !.phase = "greeting", !.open = 1..Len(Cands(c))]

ScopeSeq(c, i) == IF i \in 1..Len(Cands(c)) THEN Cands(c)[i].scopes ELSE <<>>
ScopesAt(c, i) == {ScopeSeq(c, i)[k] : k \in DOMAIN ScopeSeq(c, i)}
AgentAt(c, i) == IF i \in 1..Len(Cands(c)) THEN Cands(c)[i].agent ELSE NoAgent

\* (mutant) the loop runs one past the end of the list
RemainingPastEnd(c) == {i \in 1..(Len(Cands(c)) + 1) : i > mem[c].next}

\* The candidates dialNext has not come to yet.
Remaining(c) == {i \in 1..Len(Cands(c)) : i > mem[c].next /\ i \in mem[c].open}

\* k is the first position of the sequence q whose scope is (not) in taken[c].
FirstOutside(c, q, k) == k \in DOMAIN q /\ q[k] \notin taken[c]
                           /\ \A j \in 1..(k - 1) : q[j] \in taken[c]
FirstInside(c, q, k) == k \in DOMAIN q /\ q[k] \in taken[c]
                          /\ \A j \in 1..(k - 1) : q[j] \notin taken[c]

Init ==
  /\ plan \in [Calls -> Plans]
  /\ pc = [c \in Calls |-> "new"]
  /\ db = [c \in Calls |-> NoState]
  /\ mem = [c \in Calls |-> NoState]
  /\ taken = [c \in Calls |-> {}]
  /\ now = [c \in Calls |-> 1]
  /\ line = [c \in Calls |-> FALSE]
  /\ live = [s \in Scopes |-> 0]
  /\ used = [s \in Scopes |-> [p \in Periods |-> 0]]
  /\ period = 1
  /\ leg = [c \in Calls |-> [i \in Legs |-> "none"]]
  /\ known = {}
  /\ events = {}
  /\ softphone = {}
  /\ row = [c \in Calls |-> "none"]
  /\ bills = [c \in Calls |-> 0]
  /\ lost = {}

-----------------------------------------------------------------------------
(* CapsService *)

\* (mutants) the limit itself still passes; the period limits are not looked at
RoomOffByOne(s, p) == /\ Cap[s] = 0 \/ live[s] <= Cap[s]
                      /\ PeriodCap[s] = 0 \/ used[s][p] < PeriodCap[s]
RoomLiveOnly(s, p) == Cap[s] = 0 \/ live[s] < Cap[s]

\* RESERVE: every limit is checked before anything is counted.
Room(s, p) == /\ Cap[s] = 0 \/ live[s] < Cap[s]
              /\ PeriodCap[s] = 0 \/ used[s][p] < PeriodCap[s]

\* (mutant) the live key is not incremented
CountPeriodOnly(s, p) == used' = [used EXCEPT ![s][p] = @ + 1] /\ UNCHANGED live

CountIn(s, p) == /\ live' = [live EXCEPT ![s] = @ + 1]
                 /\ used' = [used EXCEPT ![s][p] = @ + 1]

Less(n) == IF n > 0 THEN n - 1 ELSE n

\* (mutant) the keys of today instead of those of the reservation
GiveBackToday(s, p) == /\ live' = [live EXCEPT ![s] = Less(@)]
                       /\ used' = [used EXCEPT ![s][period] = Less(@)]

\* RELEASE on the four keys of the time of the reservation (releaseAll) ...
GiveBack(s, p) == /\ live' = [live EXCEPT ![s] = Less(@)]
                  /\ used' = [used EXCEPT ![s][p] = Less(@)]

\* ... or on the live key only (releaseConcurrency).
FreeLine(s) == live' = [live EXCEPT ![s] = Less(@)] /\ UNCHANGED used

-----------------------------------------------------------------------------
(* The carrier: external, as the engine uses it *)

Live == {"ringing", "up"}

\* (mutant) the caller's leg instead of the one asked for
HangUpCaller(c, i) == leg' = [leg EXCEPT ![c][0] = IF @ \in Live THEN "down" ELSE @]

\* The hangup command (the engine ignores its errors): the leg ends and reports it.
HangUp(c, i) == leg' = [leg EXCEPT ![c][i] = IF @ \in Live THEN "down" ELSE @]
HangupOf(c, i) == IF leg[c][i] \in Live THEN {<<c, i, "hangup">>} ELSE {}

\* speak and gather report back unless the leg is gone.
Report(c, i, type) == IF leg[c][i] = "up" THEN {<<c, i, type>>} ELSE {}

\* A leg ends by itself: the caller or the buyer hangs up, declines or never answers.
LegEnds(c, i) ==
  /\ leg[c][i] \in Live
  /\ leg' = [leg EXCEPT ![c][i] = "down"]
  /\ events' = events \cup {<<c, i, "hangup">>}
  /\ UNCHANGED <<plan, pc, db, mem, counters, known, records>>

BuyerAnswers(c, i) ==
  /\ i # 0 /\ leg[c][i] = "ringing"
  /\ leg' = [leg EXCEPT ![c][i] = "up"]
  /\ events' = events \cup {<<c, i, "answered">>}
  /\ UNCHANGED <<plan, pc, db, mem, counters, known, records>>

\* An hour, a day or a month of the tenant's clock begins.
Tick ==
  /\ period < LastPeriod
  /\ period' = period + 1
  /\ UNCHANGED <<plan, pc, db, mem, taken, now, line, live, used, carrier, records>>

-----------------------------------------------------------------------------
(* onInbound: up to the lock it runs beside any other event of the call *)

NewCall(c) == /\ pc[c] = "new"
              /\ known' = known \cup {<<c, 0>>}

\* A hard rejection, the spam screen, or a full account.
Reject(c) ==
  /\ NewCall(c)
  /\ pc' = [pc EXCEPT ![c] = "rejected"]
  /\ row' = [row EXCEPT ![c] = "REJECTED"]
  /\ leg' = [leg EXCEPT ![c][0] = "down"]
  /\ events' = events \cup {<<c, 0, "hangup">>}
  /\ UNCHANGED <<plan, db, mem, counters, softphone, bills, lost>>

\* The call passes every check and, if the account has a limit, is counted in it.
Admit(c) ==
  /\ NewCall(c)
  /\ pc' = [pc EXCEPT ![c] = "setup"]
  /\ row' = [row EXCEPT ![c] = "RINGING"]
  /\ leg' = [leg EXCEPT ![c][0] = "ringing"]
  /\ IF Cap[Account] = 0
     THEN UNCHANGED <<line, live, used>>
     ELSE /\ Room(Account, period)
          /\ CountIn(Account, period)
          /\ line' = [line EXCEPT ![c] = TRUE]
  /\ UNCHANGED <<plan, db, mem, taken, now, period, events, softphone, bills, lost>>

\* Answering the caller fails, or the recording notice after it: nothing was saved yet, and
\* nothing will be.  (A menu is saved before its first prompt.)
AnswerFails(c) ==
  /\ pc[c] = "setup"
  /\ pc' = [pc EXCEPT ![c] = "idle"]
  /\ UNCHANGED <<plan, db, mem, counters, carrier, records>>

\* The caller is answered: recording notice, else phone menu, else straight to the
\* buyers.  An announcement to a caller who has gone is never reported as spoken.
Answer(c) ==
  /\ pc[c] = "setup"
  /\ leg' = [leg EXCEPT ![c][0] = IF @ = "ringing" THEN "up" ELSE @]
  /\ LET first == IF plan[c].notice THEN "greeting" ELSE IF plan[c].ivr THEN "ivr" ELSE "dialing"
         s == [FreshState(c) EXCEPT !.phase = first]
         type == IF first = "greeting" THEN "speak" ELSE "gather"
     IN /\ mem' = [mem EXCEPT ![c] = s]
        /\ IF first = "dialing"
           THEN /\ pc' = [pc EXCEPT ![c] = "next"]
                /\ UNCHANGED <<db, events>>
           ELSE /\ pc' = [pc EXCEPT ![c] = "idle"]
                /\ db' = [db EXCEPT ![c] = s]
                /\ events' = events \cup IF leg[c][0] \in Live THEN {<<c, 0, type>>} ELSE {}
  /\ UNCHANGED <<plan, counters, known, records>>

-----------------------------------------------------------------------------
(* dialNext *)

\* The next candidate; `now` is read once for all its scopes.
NextCandidate(c) ==
  /\ pc[c] = "next"
  /\ \E i \in Remaining(c) :
       /\ \A j \in Remaining(c) : i <= j
       /\ mem' = [mem EXCEPT ![c].next = i]
  /\ now' = [now EXCEPT ![c] = period]
  /\ pc' = [pc EXCEPT ![c] = "reserve"]
  /\ UNCHANGED <<plan, db, taken, line, live, used, period, carrier, records>>

\* caps.reserve of the candidate's next scope: counted, or full.
Reserve(c) ==
  /\ pc[c] = "reserve"
  /\ \E k \in DOMAIN ScopeSeq(c, mem[c].next) :
       LET s == ScopeSeq(c, mem[c].next)[k] IN
       /\ FirstOutside(c, ScopeSeq(c, mem[c].next), k)
       /\ IF Room(s, now[c])
          THEN /\ CountIn(s, now[c])
               /\ taken' = [taken EXCEPT ![c] = @ \cup {s}]
               /\ pc' = pc
          ELSE /\ pc' = [pc EXCEPT ![c] = "rollback"]
               /\ UNCHANGED <<taken, live, used>>
  /\ UNCHANGED <<plan, db, mem, now, line, period, carrier, records>>

\* releaseAll of what this candidate had taken, then the loop goes on.
Rollback(c) ==
  /\ pc[c] = "rollback"
  /\ IF taken[c] = {}
     THEN pc' = [pc EXCEPT ![c] = "next"] /\ UNCHANGED <<taken, live, used>>
     ELSE /\ \E k \in DOMAIN ScopeSeq(c, mem[c].next) :
               LET s == ScopeSeq(c, mem[c].next)[k] IN
               /\ FirstInside(c, ScopeSeq(c, mem[c].next), k)
               /\ GiveBack(s, now[c])
               /\ taken' = [taken EXCEPT ![c] = @ \ {s}]
          /\ pc' = pc
  /\ UNCHANGED <<plan, db, mem, now, line, period, carrier, records>>

\* Every scope is counted: the carrier dials the buyer ...
Dial(c) ==
  /\ pc[c] = "reserve" /\ taken[c] = ScopesAt(c, mem[c].next)
  /\ pc' = [pc EXCEPT ![c] = "dialed"]
  /\ mem' = [mem EXCEPT ![c].out = mem[c].next, ![c].route = mem[c].next,
                        ![c].agent = AgentAt(c, mem[c].next), ![c].at = now[c]]
  /\ leg' = [leg EXCEPT ![c][mem[c].next] = "ringing"]
  /\ UNCHANGED <<plan, db, counters, known, events, records>>

\* ... or refuses to.
DialFails(c) ==
  /\ pc[c] = "reserve" /\ taken[c] = ScopesAt(c, mem[c].next)
  /\ pc' = [pc EXCEPT ![c] = "rollback"]
  /\ UNCHANGED <<plan, db, mem, counters, carrier, records>>

\* Last resort: the fallback number, once and without caps.
NoneLeft(c) == pc[c] = "next" /\ Remaining(c) = {}
TryFallback(c) == plan[c].fallback /\ ~mem[c].fb

DialFallback(c) ==
  /\ NoneLeft(c) /\ TryFallback(c)
  /\ pc' = [pc EXCEPT ![c] = "dialed"]
  /\ mem' = [mem EXCEPT ![c].fb = TRUE, ![c].route = 0, ![c].out = Fallback]
  /\ leg' = [leg EXCEPT ![c][Fallback] = "ringing"]
  /\ UNCHANGED <<plan, db, counters, known, events, records>>

\* Until here the new leg has no leg:<id> key and its events find no call.
SaveDial(c) ==
  /\ pc[c] = "dialed"
  /\ pc' = [pc EXCEPT ![c] = "idle"]
  /\ taken' = [taken EXCEPT ![c] = {}]
  /\ known' = known \cup {<<c, mem[c].out>>}
  /\ db' = [db EXCEPT ![c] = mem[c]]
  /\ softphone' = IF mem[c].agent = NoAgent \/ mem[c].fb THEN softphone
                  ELSE softphone \cup {<<mem[c].agent, c, mem[c].out>>}
  /\ UNCHANGED <<plan, mem, now, line, live, used, period, leg, events, row, bills, lost>>

\* Nobody can take the call: the caller is told so.
NobodyTakesIt(c) ==
  /\ NoneLeft(c)
  /\ LET s == [mem[c] EXCEPT !.phase = "closing", !.out = 0]
     IN /\ \/ ~TryFallback(c) /\ mem' = [mem EXCEPT ![c] = s]
           \/ /\ TryFallback(c)            \* the dial to it was refused
              /\ mem' = [mem EXCEPT ![c] = [s EXCEPT !.fb = TRUE, !.route = 0]]
        /\ db' = [db EXCEPT ![c] = mem'[c]]
  /\ pc' = [pc EXCEPT ![c] = "idle"]
  /\ events' = events \cup Report(c, 0, "speak")
  /\ UNCHANGED <<plan, counters, leg, known, records>>

-----------------------------------------------------------------------------
(* Events handled under the lock (withState) *)

\* A free lock, a known leg and a saved state: the handler of an event can run.
Ready(c, i, type) == /\ <<c, i, type>> \in events
                     /\ <<c, i>> \in known
                     /\ pc[c] = "idle"
                     /\ db[c].phase # "none"

\* The event is consumed (or comes again); the commands of the handler raise new ones.
Consume(c, i, type, new) ==
  \/ events' = (events \ {<<c, i, type>>}) \cup new
  \/ c \in Redelivery /\ events' = events \cup new

\* (mutants) no check that the call has ended; nothing to do without a buyer's leg
HangupAlways(c, i) == i \in {0, db[c].out}
HangupIfDialed(c, i) == db[c].phase # "ended" /\ db[c].out # 0 /\ i \in {0, db[c].out}

\* legId = state.outboundId, which may be undefined.
IsOutbound(c, i) == i # 0 /\ i = db[c].out

\* The guards the handlers open with.
SpeakMatters(c, i) == \/ db[c].phase \in {"greeting", "closing"}
                      \/ db[c].phase = "ivr" /\ i = 0
                      \/ db[c].phase = "whisper" /\ IsOutbound(c, i)
GatherMatters(c, i) == db[c].phase = "ivr" /\ i = 0
AnswerMatters(c, i) == /\ IsOutbound(c, i)
                       /\ ~db[c].bridged
                       /\ db[c].phase \notin {"ended", "whisper"}
HangupMatters(c, i) == db[c].phase # "ended" /\ i \in {0, db[c].out}

Matters(c, i, type) == CASE type = "speak" -> SpeakMatters(c, i)
                         [] type = "gather" -> GatherMatters(c, i)
                         [] type = "answered" -> AnswerMatters(c, i)
                         [] type = "hangup" -> HangupMatters(c, i)

\* An event whose leg or call state Redis does not have is dropped, and so is one
\* its handler has no use for: a stale one, or one the menu's node does not take.
Ignore(c, i, type) ==
  /\ <<c, i, type>> \in events
  /\ \/ <<c, i>> \notin known
     \/ pc[c] \in {"setup", "rejected"}
     \/ /\ pc[c] = "idle"
        /\ \/ db[c].phase = "none"
           \/ ~Matters(c, i, type)
           \/ db[c].phase = "ivr" /\ type # "hangup"
  /\ Consume(c, i, type, {})
  /\ UNCHANGED <<plan, pc, db, mem, counters, leg, known, records>>

\* The positions of a handler that holds the lock of the call.
Locked == Positions \ {"new", "rejected", "setup", "idle"}

\* withLock gives up after ten seconds; its error is logged and the webhook answered all
\* the same, so that the event is gone.  `lost` remembers the caller's hangup.
LockTimesOut(c, i, type) ==
  /\ c \in Impatient
  /\ <<c, i, type>> \in events /\ <<c, i>> \in known
  /\ pc[c] \in Locked
  /\ Consume(c, i, type, {})
  /\ lost' = IF i = 0 /\ type = "hangup" THEN lost \cup {c} ELSE lost
  /\ UNCHANGED <<plan, pc, db, mem, counters, leg, known, softphone, row, bills>>

\* The recording notice was spoken: menu or buyers.
GreetingSpoken(c, i) ==
  /\ Ready(c, i, "speak") /\ db[c].phase = "greeting"
  /\ IF plan[c].ivr
     THEN /\ mem' = [mem EXCEPT ![c].phase = "ivr"]
          /\ db' = [db EXCEPT ![c].phase = "ivr"]
          /\ Consume(c, i, "speak", Report(c, 0, "gather"))
          /\ pc' = pc
     ELSE /\ mem' = [mem EXCEPT ![c].phase = "dialing"]
          /\ pc' = [pc EXCEPT ![c] = "next"]
          /\ Consume(c, i, "speak", {})
          /\ db' = db
  /\ UNCHANGED <<plan, counters, leg, known, records>>

\* ivrAction: another node of the menu, the buyers (perhaps only some), or goodbye.
IvrEvent(c, type) == type \in {"speak", "gather"} /\ Ready(c, 0, type) /\ db[c].phase = "ivr"

IvrGoto(c, type) ==
  /\ IvrEvent(c, type)
  /\ Consume(c, 0, type, Report(c, 0, "gather"))
  /\ UNCHANGED <<plan, pc, db, mem, counters, leg, known, records>>

IvrRoute(c, type) ==
  /\ IvrEvent(c, type)
  /\ \E some \in SUBSET db[c].open :
       mem' = [mem EXCEPT ![c].phase = "dialing", ![c].open = some]
  /\ pc' = [pc EXCEPT ![c] = "next"]
  /\ Consume(c, 0, type, {})
  /\ UNCHANGED <<plan, db, counters, leg, known, records>>

IvrHangup(c, type) ==
  /\ IvrEvent(c, type)
  /\ mem' = [mem EXCEPT ![c].phase = "closing"]
  /\ db' = [db EXCEPT ![c].phase = "closing"]
  /\ \/ Consume(c, 0, type, Report(c, 0, "speak")) /\ UNCHANGED leg      \* a goodbye message
     \/ Consume(c, 0, type, HangupOf(c, 0)) /\ HangUp(c, 0)
  /\ UNCHANGED <<plan, pc, counters, known, records>>

\* The closing message was spoken (any leg's report counts): hang up.
ClosingSpoken(c, i) ==
  /\ Ready(c, i, "speak") /\ db[c].phase = "closing"
  /\ Consume(c, i, "speak", HangupOf(c, 0)) /\ HangUp(c, 0)
  /\ UNCHANGED <<plan, pc, db, mem, counters, known, records>>

\* connect: the bridge, then everything that records it.
Connect(c) ==
  /\ mem' = [mem EXCEPT ![c].phase = "connected", ![c].bridged = TRUE]
  /\ db' = [db EXCEPT ![c] = mem'[c]]
  /\ row' = [row EXCEPT ![c] = "IN_PROGRESS"]

\* The carrier refuses the bridge (the buyer has gone): the handler ends there.
BridgeFails == UNCHANGED <<mem, db, row>>

Whispers(c) == plan[c].whisper /\ ~db[c].fb

Answered(c, i) ==
  /\ Ready(c, i, "answered") /\ AnswerMatters(c, i)
  /\ IF Whispers(c)
     THEN /\ mem' = [mem EXCEPT ![c].phase = "whisper"]
          /\ db' = [db EXCEPT ![c].phase = "whisper"]
          /\ Consume(c, i, "answered", Report(c, i, "speak"))
          /\ row' = row
     ELSE Consume(c, i, "answered", {}) /\ (Connect(c) \/ BridgeFails)
  /\ UNCHANGED <<plan, pc, counters, leg, known, softphone, bills, lost>>

WhisperSpoken(c, i) ==
  /\ Ready(c, i, "speak") /\ db[c].phase = "whisper" /\ IsOutbound(c, i)
  /\ Consume(c, i, "speak", {})
  /\ Connect(c) \/ BridgeFails
  /\ UNCHANGED <<plan, pc, counters, leg, known, softphone, bills, lost>>

-----------------------------------------------------------------------------
(* onHangup and finalize *)

\* The scopes a dial was counted in; nothing once the fallback is used.
ScopesOf(c, s) == IF s.route # 0 /\ ~s.fb THEN ScopesAt(c, s.route) ELSE {}

\* (mutants) a connected call's reservation is released too; the softphone keeps the leg
ReservationAlways(c) == IF db[c].out # 0 THEN ScopesOf(c, db[c]) ELSE {}
KeepLeg(c) == UNCHANGED softphone

\* releaseReservation: what an unanswered dial gives back.
Reservation(c) == IF db[c].out # 0 /\ ~db[c].bridged THEN ScopesOf(c, db[c]) ELSE {}
DropLeg(c) == softphone' = softphone \ {<<db[c].agent, c, db[c].out>>}

\* The buyer hung up after talking: the caller's leg ends too.
BuyerLeaves(c, i) ==
  /\ Ready(c, i, "hangup") /\ HangupMatters(c, i) /\ i # 0
  /\ db[c].bridged
  /\ HangUp(c, 0)
  /\ Consume(c, i, "hangup", HangupOf(c, 0))
  /\ UNCHANGED <<plan, pc, db, mem, counters, known, records>>

\* No answer, busy or declined: release the reservation, then try the next one.
BuyerUnavailable(c, i) ==
  /\ Ready(c, i, "hangup") /\ HangupMatters(c, i) /\ i # 0
  /\ ~db[c].bridged
  /\ pc' = [pc EXCEPT ![c] = "retry"]
  /\ taken' = [taken EXCEPT ![c] = Reservation(c)]
  /\ DropLeg(c)
  /\ Consume(c, i, "hangup", {})
  /\ UNCHANGED <<plan, db, mem, now, line, live, used, period, leg, known, row, bills, lost>>

CallerLeaves(c) ==
  /\ Ready(c, 0, "hangup") /\ HangupMatters(c, 0)
  /\ pc' = [pc EXCEPT ![c] = "end"]
  /\ taken' = [taken EXCEPT ![c] = Reservation(c)]
  /\ IF db[c].out # 0 /\ ~db[c].bridged THEN DropLeg(c) ELSE UNCHANGED softphone
  /\ Consume(c, 0, "hangup", {})
  /\ UNCHANGED <<plan, db, mem, now, line, live, used, period, leg, known, row, bills, lost>>

\* One step of releaseReservation's loop, in the order the scopes were taken.
ReleaseAll(c) ==
  /\ pc[c] \in {"retry", "end"}
  /\ \E k \in DOMAIN ScopeSeq(c, mem[c].route) :
       LET s == ScopeSeq(c, mem[c].route)[k] IN
       /\ FirstInside(c, ScopeSeq(c, mem[c].route), k)
       /\ GiveBack(s, mem[c].at)
       /\ taken' = [taken EXCEPT ![c] = @ \ {s}]
  /\ UNCHANGED <<plan, pc, db, mem, now, line, period, carrier, records>>

Retry(c) ==
  /\ pc[c] = "retry" /\ taken[c] = {}
  /\ pc' = [pc EXCEPT ![c] = "next"]
  /\ mem' = [mem EXCEPT ![c].out = 0, ![c].phase = "dialing"]
  /\ UNCHANGED <<plan, db, counters, carrier, records>>

\* (mutant) frees the lines of a call nobody answered
LinesOfAnyCall(c) == ScopesOf(c, mem[c])

\* The lines of a call that was connected to a buyer are freed at the end.
LinesToFree(c) == IF mem[c].bridged THEN ScopesOf(c, mem[c]) ELSE {}

\* The buyer's leg is hung up, if there is one.
HangUpBuyer(c) ==
  /\ pc[c] = "end" /\ taken[c] = {}
  /\ pc' = [pc EXCEPT ![c] = "save"]
  /\ IF mem[c].out # 0
     THEN HangUp(c, mem[c].out) /\ events' = events \cup HangupOf(c, mem[c].out)
     ELSE UNCHANGED <<leg, events>>
  /\ UNCHANGED <<plan, db, mem, counters, known, records>>

\* finalize saves the end of the call first of all ...
SaveEnd(c) ==
  /\ pc[c] = "save"
  /\ pc' = [pc EXCEPT ![c] = "account"]
  /\ mem' = [mem EXCEPT ![c].phase = "ended"]
  /\ db' = [db EXCEPT ![c] = mem'[c]]
  /\ UNCHANGED <<plan, counters, carrier, records>>

\* ... gives back the account's line ...
FreeAccount(c) ==
  /\ pc[c] = "account"
  /\ pc' = [pc EXCEPT ![c] = "leave"]
  /\ IF line[c] THEN FreeLine(Account) ELSE UNCHANGED <<live, used>>
  /\ UNCHANGED <<plan, db, mem, taken, now, line, period, carrier, records>>

\* ... takes the call off the softphone, and frees its buyer's lines one by one.
LeaveSoftphone(c) ==
  /\ pc[c] = "leave"
  /\ pc' = [pc EXCEPT ![c] = "free"]
  /\ IF mem[c].out # 0 THEN DropLeg(c) ELSE UNCHANGED softphone
  /\ taken' = [taken EXCEPT ![c] = LinesToFree(c)]
  /\ UNCHANGED <<plan, db, mem, now, line, live, used, period, carrier, row, bills, lost>>

Free(c) ==
  /\ pc[c] = "free"
  /\ \E k \in DOMAIN ScopeSeq(c, mem[c].route) :
       LET s == ScopeSeq(c, mem[c].route)[k] IN
       /\ FirstInside(c, ScopeSeq(c, mem[c].route), k)
       /\ FreeLine(s)
       /\ taken' = [taken EXCEPT ![c] = @ \ {s}]
  /\ UNCHANGED <<plan, pc, db, mem, now, line, period, carrier, records>>

\* One transaction: the call's result and its usage charge.
Bill(c) ==
  /\ pc[c] = "free" /\ taken[c] = {}
  /\ pc' = [pc EXCEPT ![c] = "idle"]
  /\ row' = [row EXCEPT ![c] = IF mem[c].bridged THEN "COMPLETED" ELSE "NO_ANSWER"]
  /\ bills' = [bills EXCEPT ![c] = @ + 1]
  /\ UNCHANGED <<plan, db, mem, counters, carrier, softphone, lost>>

-----------------------------------------------------------------------------
(* The specification *)

Setup(c) == Reject(c) \/ Admit(c) \/ AnswerFails(c) \/ Answer(c)

\* The steps of a handler that holds the lock.
Handler(c) ==
  \/ NextCandidate(c) \/ Reserve(c) \/ Rollback(c) \/ Dial(c) \/ DialFails(c)
  \/ DialFallback(c) \/ SaveDial(c) \/ NobodyTakesIt(c)
  \/ ReleaseAll(c) \/ Retry(c)
  \/ HangUpBuyer(c) \/ SaveEnd(c) \/ FreeAccount(c) \/ LeaveSoftphone(c) \/ Free(c) \/ Bill(c)

\* The start of a handler.
Event(c) ==
  \/ \E i \in Legs : \/ GreetingSpoken(c, i) \/ ClosingSpoken(c, i) \/ WhisperSpoken(c, i)
                     \/ Answered(c, i) \/ BuyerLeaves(c, i) \/ BuyerUnavailable(c, i)
                     \/ \E type \in EventTypes : Ignore(c, i, type) \/ LockTimesOut(c, i, type)
  \/ \E type \in {"speak", "gather"} : IvrGoto(c, type) \/ IvrRoute(c, type) \/ IvrHangup(c, type)
  \/ CallerLeaves(c)

Phone(c) == \E i \in Legs : LegEnds(c, i) \/ BuyerAnswers(c, i)

Next == Tick \/ \E c \in Calls : Setup(c) \/ Handler(c) \/ Event(c) \/ Phone(c)

Spec == Init /\ [][Next]_vars

\* A running handler goes on (every carrier command times out, so none blocks for
\* ever), and a hangup event that still waits for the lock when it is free gets it; that
\* it waits so long is not assumed (LockTimesOut).
Fairness == \A c \in Calls : /\ WF_vars(Handler(c))
                             /\ WF_vars(CallerLeaves(c))

FairSpec == Spec /\ Fairness

-----------------------------------------------------------------------------
(* Who is counted where, read off the state of each call *)

\* accountLine is given back when the end of the call is saved.
HoldsLine(c) == line[c] /\ (mem[c].phase # "ended" \/ pc[c] = "account")

\* The scopes c is counted in: what the running loop has taken, or else what the
\* call's state says was taken for it.
InDial(c) == pc[c] \in {"next", "reserve", "rollback", "dialed"}
Unwinding(c) == pc[c] \in {"retry", "end"} /\ ~mem[c].bridged
Ringing(c) == pc[c] = "idle" /\ mem[c].phase # "ended" /\ mem[c].out # 0 /\ ~mem[c].bridged
Connected(c) == /\ mem[c].bridged
                /\ \/ pc[c] \in {"end", "save", "account", "leave"}
                   \/ pc[c] = "idle" /\ mem[c].phase # "ended"

Counted(c) ==
  (IF InDial(c) \/ Unwinding(c) \/ pc[c] = "free" THEN taken[c]
   ELSE IF Ringing(c) \/ Connected(c) THEN ScopesOf(c, mem[c]) ELSE {})
  \cup (IF HoldsLine(c) THEN {Account} ELSE {})
Holders(s) == {c \in Calls : s \in Counted(c)}

\* The scopes whose period counter c uses up, and the period: a connected call keeps
\* them for good.
Spent(c) == IF InDial(c) \/ Unwinding(c) THEN taken[c]
            ELSE IF Ringing(c) \/ mem[c].bridged THEN ScopesOf(c, mem[c]) ELSE {}
SpentIn(c) == IF InDial(c) THEN now[c] ELSE mem[c].at
Users(s, p) == {c \in Calls : s \in Spent(c) /\ SpentIn(c) = p}

\* The call is bridged to a buyer who is still on the phone.
Talking(c) == db[c].bridged /\ leg[c][db[c].out] = "up"
TalkingOn(s) == {c \in Calls : Talking(c) /\ s \in ScopesOf(c, db[c])}

InProgress(c) == db[c].phase \notin {"none", "ended"}

-----------------------------------------------------------------------------
(* Properties *)

\* Every variable stays in its type; in particular the loop of dialNext never runs past
\* the end of the candidate list.
TypeOK ==
  /\ plan \in [Calls -> Plans]
  /\ pc \in [Calls -> Positions]
  /\ db \in [Calls -> StateType]
  /\ mem \in [Calls -> StateType]
  /\ taken \in [Calls -> SUBSET Scopes]
  /\ now \in [Calls -> Periods]
  /\ line \in [Calls -> BOOLEAN]
  /\ live \in [Scopes -> Nat]
  /\ used \in [Scopes -> [Periods -> Nat]]
  /\ period \in Periods
  /\ leg \in [Calls -> [Legs -> LegStates]]
  /\ known \subseteq Calls \X Legs
  /\ events \subseteq Calls \X Legs \X EventTypes
  /\ softphone \subseteq Agents \X Calls \X Legs
  /\ row \in [Calls -> Rows]
  /\ bills \in [Calls -> Nat]
  /\ lost \subseteq Calls

\* What a handler relies on when it takes up a call where another one left it: its copy
\* is what Redis has, a dial is counted in the scopes its state names, nothing is
\* counted between handlers that the state does not tell, the fallback number comes
\* after the last candidate, and a call that has ended holds no buyer's leg.
Consistent(c) ==
  LET m == mem[c] IN
  /\ pc[c] \in {"new", "rejected", "setup"} => m = NoState /\ db[c] = NoState /\ taken[c] = {}
  /\ pc[c] \in {"new", "rejected"} => ~line[c]
  /\ pc[c] \notin {"new", "rejected"} /\ Cap[Account] # 0 => line[c]
  /\ pc[c] \in {"idle", "retry", "end", "save", "account", "leave", "free"} => m = db[c]
  /\ pc[c] \in {"idle", "next", "save", "account", "leave"} => taken[c] = {}
  /\ InDial(c) => /\ m.phase = "dialing" /\ ~m.bridged
                  /\ db[c].phase # "ended" /\ ~db[c].bridged
                  /\ m.out # 0 <=> pc[c] = "dialed"
  /\ pc[c] \in {"reserve", "rollback"} => m.next # 0 /\ ~m.fb
  /\ pc[c] = "dialed" => taken[c] = ScopesOf(c, m)
  /\ pc[c] = "retry" => m.out # 0 /\ ~m.bridged
  /\ pc[c] \in {"end", "save"} => m.phase # "none" /\ (m.bridged => taken[c] = {})
  /\ m.phase = "ended" <=> pc[c] \in {"account", "leave", "free"}
                             \/ (pc[c] = "idle" /\ db[c].phase = "ended")
  /\ m.phase \in {"none", "greeting", "ivr"} => ~m.fb
  /\ m.phase \in {"none", "greeting", "ivr", "closing"} => m.out = 0
  /\ m.bridged => m.out # 0 /\ m.phase \in {"connected", "ended"}
  /\ m.fb => Remaining(c) = {}
  /\ (m.phase = "ended" \/ pc[c] = "save") /\ m.out # 0 => leg[c][m.out] \notin Live

HandlersConsistent == \A c \in Calls : Consistent(c)

\* The live counter of every scope is the number of calls that count in it, however
\* the handlers' reservations, rollbacks and releases interleave: nothing is released
\* twice, nothing is forgotten (caps.service.ts: reserve, releaseAll, releaseConcurrency).
CountersExact == \A s \in Scopes : live[s] = Cardinality(Holders(s))

\* A period's counter is what that period's dials used, and a dial gives back to the
\* period it was counted in even when the clock has moved on (releaseAll, reservedAt).
PeriodsExact == \A s \in Scopes \ {Account}, p \in Periods : used[s][p] = Cardinality(Users(s, p))

\* Never more buyers on the phone under a route, target or buyer than its concurrency
\* cap allows.
TalkingWithinCap ==
  \A s \in Scopes \ {Account} : Cap[s] # 0 => Cardinality(TalkingOn(s)) <= Cap[s]

\* Never more calls in progress than the account's limit.
AccountWithinLimit ==
  Cap[Account] # 0 => Cardinality({c \in Calls : InProgress(c)}) <= Cap[Account]

\* Never more calls connected under a scope in a period than its period cap allows.
SoldWithinPeriodCap ==
  \A s \in Scopes \ {Account}, p \in Periods : PeriodCap[s] # 0 =>
    Cardinality({c \in Calls : db[c].bridged /\ db[c].at = p /\ s \in ScopesOf(c, db[c])})
      <= PeriodCap[s]

\* Period caps: the counters are exact, and so no more is sold than a cap allows.
PeriodCapsKept == PeriodsExact /\ SoldWithinPeriodCap

\* A call never has two buyers' phones busy, and never one it does not remember: what
\* rings is the leg the state names, and after the end of the call nothing rings.
NoStrayBuyerLeg ==
  \A c \in Calls : \A i \in Legs \ {0} :
    leg[c][i] \in Live => i = mem[c].out /\ mem[c].phase # "ended"

\* Between handlers an agent's softphone shows exactly the calls that ring or talk
\* there (trackLeg and dropLeg on every path out of a dial).
SoftphoneExact ==
  \A c \in Calls : pc[c] = "idle" =>
    \A a \in Agents, i \in Legs :
      <<a, c, i>> \in softphone <=>
        /\ db[c].phase # "ended" /\ i = db[c].out /\ a = AgentAt(c, i)

\* A call whose handler saved its end is charged exactly once, however many hangup
\* events of its legs are delivered or repeated (finalize).
BilledOnce ==
  \A c \in Calls : bills[c] = IF db[c].phase = "ended" /\ pc[c] = "idle" THEN 1 ELSE 0

\* Once the state of a call is saved, the caller's hangup event leads to the end of the
\* call and to its charge, whatever else its handlers are doing, unless it is given up
\* while it waits for the lock (withLock, onHangup, finalize).
CallerGoneIsBilled ==
  \A c \in Calls : <<c, 0, "hangup">> \in events /\ db[c].phase # "none"
                    ~> c \in lost \/ (db[c].phase = "ended" /\ bills[c] = 1)

\* How the call looks to Switchboard.
Stage(c) == CASE row[c] = "none" -> "none"
              [] row[c] = "REJECTED" -> "refused"
              [] row[c] \in {"COMPLETED", "NO_ANSWER"} -> "charged"
              [] row[c] \in {"RINGING", "IN_PROGRESS"} /\ db[c].phase = "ended" -> "over"
              [] row[c] = "RINGING" /\ db[c].phase # "ended" -> "waiting"
              [] row[c] = "IN_PROGRESS" /\ db[c].phase # "ended" -> "talking"

Board == INSTANCE Switchboard WITH
  stage <- [c \in Calls |-> Stage(c)],
  on <- [c \in Calls |-> IF Stage(c) = "talking" THEN ScopesOf(c, db[c]) ELSE {}],
  charges <- bills

\* The engine, with its lock, its counters and its events, is a Switchboard.
ImplementsSwitchboard == Board!BoardSpec

\* A call that is over for the carrier (its caller has gone and every event was
\* delivered) is not counted against the account's limit.
DeadCallHoldsNoLine ==
  \A c \in Calls :
    leg[c][0] = "down" /\ pc[c] = "idle" /\ (\A e \in events : e[1] # c) => ~HoldsLine(c)

\* "no answer? next buyer": a caller is never left with a buyer's leg that has ended,
\* unless the event that says so is still on its way.
NoDeadAir ==
  \A c \in Calls :
    pc[c] = "idle" /\ db[c].phase = "dialing" /\ leg[c][0] = "up" /\ leg[c][db[c].out] = "down"
      => <<c, db[c].out, "hangup">> \in events

=============================================================================
