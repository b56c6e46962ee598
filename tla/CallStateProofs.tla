--------------------------- MODULE CallStateProofs ---------------------------
(***************************************************************************)
(* The state of a call tells the truth: the buyer's leg it names is the    *)
(* one that rings or talks, an agent's softphone shows the calls that ring *)
(* or talk there, and the period counters hold what the calls have used.   *)
(***************************************************************************)
EXTENDS CallEngineProofs

\* Which dial the state of a call is about: that of the candidate on its route, or that
\* of the fallback number; a dial is dated with the time its scopes were counted in.
Named(c) ==
  LET m == mem[c] IN
  /\ m.out # 0 => IF m.fb THEN m.out = Fallback
                  ELSE m.out = m.route /\ m.agent = AgentAt(c, m.out)
  /\ pc[c] = "dialed" /\ ~m.fb => m.at = now[c]

\* The legs a call has had: none of a candidate it has not come to, none of the fallback
\* before it is tried, none that its carrier has reported as hung up, and of the others
\* only the one its state names.
LegsTold(c) ==
  /\ pc[c] = "new" => leg[c][0] = "none"
  /\ \A i \in 1..MaxCands : i > mem[c].next => leg[c][i] = "none"
  /\ pc[c] = "reserve" => leg[c][mem[c].next] = "none"
  /\ ~mem[c].fb => leg[c][Fallback] = "none"
  /\ pc[c] = "retry" => leg[c][mem[c].out] \notin Live
  /\ \A i \in Legs : <<c, i, "hangup">> \in events => leg[c][i] = "down"
  /\ \A i \in Legs \ {0} : leg[c][i] \in Live => i = mem[c].out /\ mem[c].phase # "ended"

\* The buyer's leg of the call belongs on the softphone of its agent.
Shows(c) == /\ mem[c].out # 0
            /\ \/ pc[c] = "idle" /\ mem[c].phase # "ended"
               \/ pc[c] \in {"end", "save", "account", "leave"} /\ mem[c].bridged

PhoneTold(c) ==
  \A a \in Agents, i \in Legs :
    <<a, c, i>> \in softphone <=> Shows(c) /\ i = mem[c].out /\ a = AgentAt(c, i)

Told(c) == Named(c) /\ LegsTold(c) /\ PhoneTold(c)

-----------------------------------------------------------------------------
(* Steps that leave the dial of a call as it is *)

\* Legs only end (or a ringing one is answered), and only an ended leg reports a hangup.
Sinks(c) ==
  \A i \in Legs :
    /\ leg'[c][i] # leg[c][i] => leg[c][i] \in Live /\ leg'[c][i] \in {"up", "down"}
    /\ <<c, i, "hangup">> \in events' => <<c, i, "hangup">> \in events \/ leg'[c][i] = "down"

SameDial(c) ==
  /\ plan' = plan /\ now' = now
  /\ mem'[c].next = mem[c].next /\ mem'[c].fb = mem[c].fb /\ mem'[c].out = mem[c].out
  /\ mem'[c].route = mem[c].route /\ mem'[c].at = mem[c].at /\ mem'[c].agent = mem[c].agent

Calm(c) ==
  /\ Sinks(c) /\ SameDial(c)
  /\ pc'[c] \in {"new", "reserve", "retry", "dialed"} => pc'[c] = pc[c]
  /\ mem'[c].phase = "ended" <=> mem[c].phase = "ended"
  /\ softphone' = softphone
  /\ Shows(c)' <=> Shows(c)

LEMMA SinksIf ==
  ASSUME TypeOK, NEW c \in Calls, NEW j \in Legs,
         \/ leg' = leg /\ (\A i \in Legs : <<c, i, "hangup">> \in events' => <<c, i, "hangup">> \in events)
         \/ HangUp(c, j) /\ \A i \in Legs : <<c, i, "hangup">> \in events'
                                => <<c, i, "hangup">> \in events \cup HangupOf(c, j)
  PROVE  Sinks(c)
BY DEF TypeOK, Sinks, HangUp, HangupOf, Live

\* The same state of the call, under the same lock.
LEMMA SameState ==
  ASSUME NEW c \in Calls, Sinks(c), plan' = plan, now' = now, mem'[c] = mem[c], softphone' = softphone,
         \/ pc'[c] = pc[c]
         \/ pc[c] \in {"setup", "reserve", "rollback", "free"} /\ mem[c].out = 0 /\ pc'[c] \in {"idle", "next", "rollback"}
         \/ pc[c] = "free" /\ pc'[c] = "idle" /\ mem[c].phase = "ended"
         \/ pc[c] \in {"end", "account"} /\ pc'[c] \in {"save", "leave"}
  PROVE  Calm(c)
BY DEF Calm, SameDial, Shows

LEMMA SetupCalm ==
  ASSUME TypeOK, NEW c \in Calls, Consistent(c), Setup(c)
  PROVE  Calm(c) \/ Reject(c) \/ Admit(c)
<1> USE DEF counters, carrier, records
<1>0. /\ pc \in [Calls -> Positions] /\ mem \in [Calls -> StateType]
      /\ leg \in [Calls -> [Legs -> LegStates]] /\ 0 \in Legs
  BY LegsTyped DEF TypeOK
<1>1. CASE AnswerFails(c)
  <2>1. /\ pc[c] = "setup" /\ pc'[c] = "idle" /\ mem' = mem /\ plan' = plan /\ now' = now
        /\ softphone' = softphone /\ leg' = leg /\ events' = events
    BY <1>0, <1>1 DEF AnswerFails
  <2>2. mem[c].out = 0
    BY <2>1 DEF Consistent, NoState
  <2> QED
    BY <1>0, <2>1, <2>2, SinksIf, SameState
<1>2. CASE Answer(c)
  <2>1. pc[c] = "setup" /\ plan' = plan /\ now' = now /\ softphone' = softphone
    BY <1>2 DEF Answer
  <2>2. PICK ph \in {"greeting", "ivr", "dialing"} :
           mem'[c] = [FreshState(c) EXCEPT !.phase = ph] /\ pc'[c] \in {"next", "idle"}
    BY <1>0, <1>2 DEF Answer
  <2>3. mem[c] = NoState
    BY <2>1 DEF Consistent
  <2>4. SameDial(c) /\ mem'[c].phase # "ended" /\ mem[c].phase # "ended" /\ mem[c].out = 0
    BY <2>1, <2>2, <2>3 DEF FreshState, NoState, SameDial
  <2>5. Sinks(c)
    <3>1. \A i \in Legs : leg'[c][i] # leg[c][i] => leg[c][i] \in Live /\ leg'[c][i] = "up"
      BY <1>0, <1>2 DEF Answer, Live
    <3>2. \A i \in Legs : <<c, i, "hangup">> \in events' => <<c, i, "hangup">> \in events
      BY <1>2 DEF Answer
    <3> QED
      BY <3>1, <3>2 DEF Sinks
  <2> QED
    BY <2>1, <2>2, <2>4, <2>5 DEF Calm, Shows, SameDial
<1> QED
  BY <1>1, <1>2 DEF Setup

LEMMA HandlerCalm ==
  ASSUME TypeOK, NEW c \in Calls, Consistent(c), Handler(c)
  PROVE  \/ Calm(c) \/ NextCandidate(c) \/ Dial(c) \/ DialFallback(c) \/ SaveDial(c)
         \/ NobodyTakesIt(c) \/ Retry(c) \/ SaveEnd(c) \/ LeaveSoftphone(c)
<1> USE DEF counters, carrier, records
<1>0. pc \in [Calls -> Positions] /\ 0 \in Legs
  BY LegsTyped DEF TypeOK
<1>1. CASE \/ Reserve(c) \/ Rollback(c) \/ DialFails(c) \/ ReleaseAll(c)
           \/ FreeAccount(c) \/ Free(c) \/ Bill(c)
  <2>1. /\ mem' = mem /\ plan' = plan /\ now' = now /\ softphone' = softphone /\ leg' = leg
        /\ events' = events
    BY <1>1 DEF Reserve, Rollback, DialFails, ReleaseAll, FreeAccount, Free, Bill
  <2>2. \/ pc[c] = "reserve" /\ pc'[c] \in {"reserve", "rollback"}
        \/ pc[c] = "rollback" /\ pc'[c] \in {"rollback", "next"}
        \/ pc[c] = "free" /\ pc'[c] = "idle"
        \/ pc[c] = "account" /\ pc'[c] = "leave"
        \/ pc'[c] = pc[c]
    BY <1>0, <1>1 DEF Reserve, Rollback, DialFails, ReleaseAll, FreeAccount, Free, Bill
  <2>3. pc[c] \in {"reserve", "rollback"} => mem[c].out = 0
    BY DEF Consistent, InDial
  <2>4. pc[c] = "free" => mem[c].phase = "ended"
    BY DEF Consistent
  <2> QED
    BY <1>0, <2>1, <2>2, <2>3, <2>4, SinksIf, SameState
<1>2. CASE HangUpBuyer(c)
  <2>1. /\ mem' = mem /\ plan' = plan /\ now' = now /\ softphone' = softphone
        /\ pc[c] = "end" /\ pc'[c] = "save"
    BY <1>0, <1>2 DEF HangUpBuyer
  <2>2. mem[c].out \in Legs
    BY DEF TypeOK, StateType
  <2>3. Sinks(c)
    BY <1>0, <1>2, <2>2, SinksIf DEF HangUpBuyer
  <2> QED
    BY <2>1, <2>3, SameState
<1> QED
  BY <1>1, <1>2 DEF Handler

LEMMA EventCalm ==
  ASSUME TypeOK, NEW c \in Calls, Consistent(c), Event(c) \/ Phone(c)
  PROVE  Calm(c) \/ CallerLeaves(c) \/ (\E i \in Legs : BuyerUnavailable(c, i))
<1> USE DEF counters, carrier, records
<1>0. /\ pc \in [Calls -> Positions] /\ mem \in [Calls -> StateType] /\ 0 \in Legs
      /\ leg \in [Calls -> [Legs -> LegStates]] /\ mem[c] \in StateType
  BY LegsTyped DEF TypeOK
\* A command to a leg, or none: an event is consumed, and the command may raise another.
<1>a. ASSUME NEW i \in Legs, NEW type \in EventTypes, NEW j \in Legs, NEW more,
             \A k \in Legs : <<c, k, "hangup">> \notin more, Consume(c, i, type, more), leg' = leg
      PROVE  Sinks(c)
  <2>1. \A k \in Legs : <<c, k, "hangup">> \in events' => <<c, k, "hangup">> \in events
    BY <1>a DEF Consume
  <2> QED
    BY <1>0, <1>a, <2>1, SinksIf
<1>b. ASSUME NEW i \in Legs, NEW type \in EventTypes, NEW j \in Legs,
             Consume(c, i, type, HangupOf(c, j)), HangUp(c, j)
      PROVE  Sinks(c)
  <2>1. \A k \in Legs : <<c, k, "hangup">> \in events'
                          => <<c, k, "hangup">> \in events \cup HangupOf(c, j)
    BY <1>b DEF Consume
  <2> QED
    BY <1>b, <2>1, SinksIf
\* Nothing raised, or a report of a phrase spoken or of digits gathered.
<1>c. \A j \in Legs : \A k \in Legs : /\ <<c, k, "hangup">> \notin {}
                                     /\ <<c, k, "hangup">> \notin Report(c, j, "speak")
                                     /\ <<c, k, "hangup">> \notin Report(c, j, "gather")
  BY DEF Report
\* A change of phase alone.
<1>d. ASSUME Sinks(c), plan' = plan, now' = now, softphone' = softphone, pc[c] = "idle",
             mem[c].phase # "ended", NEW ph \in Phases \ {"ended"}, mem' = [mem EXCEPT ![c].phase = ph],
             pc'[c] = "idle" \/ (pc'[c] = "next" /\ mem[c].out = 0)
      PROVE  Calm(c)
  <2>1. mem'[c] = [mem[c] EXCEPT !.phase = ph]
    BY <1>0, <1>d
  <2>2. SameDial(c) /\ mem'[c].phase = ph /\ mem'[c].bridged = mem[c].bridged
    BY <1>0, <1>d, <2>1 DEF StateType, SameDial
  <2> QED
    BY <1>d, <2>2 DEF Calm, Shows, SameDial
<1>1. CASE Phone(c)
  <2>1. /\ mem' = mem /\ plan' = plan /\ now' = now /\ softphone' = softphone /\ pc' = pc
    BY <1>1 DEF Phone, LegEnds, BuyerAnswers
  <2>2. Sinks(c)
    BY <1>0, <1>1 DEF Phone, LegEnds, BuyerAnswers, Sinks, Live
  <2> QED
    BY <2>1, <2>2, SameState
<1>2. ASSUME NEW i \in Legs, NEW type \in EventTypes, Ignore(c, i, type) \/ LockTimesOut(c, i, type)
      PROVE  Calm(c)
  <2>1. /\ mem' = mem /\ plan' = plan /\ now' = now /\ softphone' = softphone /\ pc' = pc /\ leg' = leg
        /\ Consume(c, i, type, {})
    BY <1>2 DEF Ignore, LockTimesOut
  <2>2. Sinks(c)
    BY <1>0, <1>a, <1>c, <2>1
  <2> QED
    BY <2>1, <2>2, SameState
<1>3. ASSUME NEW i \in Legs, GreetingSpoken(c, i)
      PROVE  Calm(c)
  <2>1. /\ pc[c] = "idle" /\ db[c].phase = "greeting" /\ plan' = plan /\ now' = now
        /\ softphone' = softphone /\ leg' = leg
        /\ Consume(c, i, "speak", {}) \/ Consume(c, i, "speak", Report(c, 0, "gather"))
        /\ \/ mem' = [mem EXCEPT ![c].phase = "ivr"] /\ pc' = pc
           \/ mem' = [mem EXCEPT ![c].phase = "dialing"] /\ pc'[c] = "next"
    BY <1>0, <1>3 DEF GreetingSpoken, Ready
  <2>2. mem[c].phase = "greeting" /\ mem[c].out = 0
    BY <2>1 DEF Consistent
  <2>3. Sinks(c)
    BY <1>0, <1>a, <1>c, <2>1 DEF EventTypes
  <2> QED
    BY <1>d, <2>1, <2>2, <2>3 DEF Phases
<1>4. ASSUME NEW i \in Legs, ClosingSpoken(c, i) \/ BuyerLeaves(c, i)
      PROVE  Calm(c)
  <2>1. /\ mem' = mem /\ plan' = plan /\ now' = now /\ softphone' = softphone /\ pc' = pc
        /\ HangUp(c, 0)
        /\ \E type \in {"speak", "hangup"} : Consume(c, i, type, HangupOf(c, 0))
    BY <1>4 DEF ClosingSpoken, BuyerLeaves
  <2>2. Sinks(c)
    BY <1>0, <1>b, <2>1 DEF EventTypes
  <2> QED
    BY <2>1, <2>2, SameState
<1>5. ASSUME NEW i \in Legs, WhisperSpoken(c, i) \/ (Answered(c, i) /\ ~Whispers(c))
      PROVE  Calm(c)
  <2>1. /\ pc[c] = "idle" /\ db[c].phase # "ended" /\ pc' = pc /\ plan' = plan /\ now' = now
        /\ softphone' = softphone /\ leg' = leg
        /\ \E type \in {"speak", "answered"} : Consume(c, i, type, {})
        /\ Connect(c) \/ mem' = mem
    BY <1>5 DEF WhisperSpoken, Answered, AnswerMatters, Ready, BridgeFails
  <2>2. Sinks(c)
    BY <1>0, <1>a, <1>c, <2>1 DEF EventTypes
  <2>3. CASE mem' = mem
    BY <2>1, <2>2, <2>3, SameState
  <2>4. CASE Connect(c)
    <3>1. mem'[c] = [mem[c] EXCEPT !.phase = "connected", !.bridged = TRUE]
      BY <1>0, <2>4 DEF Connect
    <3>2. SameDial(c) /\ mem'[c].phase = "connected"
      BY <1>0, <2>1, <3>1 DEF StateType, SameDial
    <3>3. mem[c].phase # "ended"
      BY <2>1 DEF Consistent
    <3> QED
      BY <2>1, <2>2, <3>2, <3>3 DEF Calm, Shows, SameDial
  <2> QED
    BY <2>1, <2>3, <2>4
<1>6. ASSUME NEW i \in Legs, Answered(c, i), Whispers(c)
      PROVE  Calm(c)
  <2>1. /\ pc[c] = "idle" /\ db[c].phase # "ended" /\ pc' = pc /\ plan' = plan /\ now' = now
        /\ softphone' = softphone /\ leg' = leg /\ Consume(c, i, "answered", Report(c, i, "speak"))
        /\ mem' = [mem EXCEPT ![c].phase = "whisper"]
    BY <1>6 DEF Answered, AnswerMatters, Ready
  <2>2. Sinks(c)
    BY <1>0, <1>a, <1>c, <2>1 DEF EventTypes
  <2>3. mem[c].phase # "ended"
    BY <2>1 DEF Consistent
  <2> QED
    BY <1>d, <2>1, <2>2, <2>3 DEF Phases
<1>7. ASSUME NEW type \in {"speak", "gather"}, IvrGoto(c, type)
      PROVE  Calm(c)
  <2>1. /\ mem' = mem /\ plan' = plan /\ now' = now /\ softphone' = softphone /\ pc' = pc /\ leg' = leg
        /\ Consume(c, 0, type, Report(c, 0, "gather"))
    BY <1>7 DEF IvrGoto
  <2>2. Sinks(c)
    BY <1>0, <1>a, <1>c, <2>1 DEF EventTypes
  <2> QED
    BY <2>1, <2>2, SameState
<1>8. ASSUME NEW type \in {"speak", "gather"}, IvrRoute(c, type)
      PROVE  Calm(c)
  <2>1. /\ pc[c] = "idle" /\ db[c].phase = "ivr" /\ plan' = plan /\ now' = now
        /\ softphone' = softphone /\ leg' = leg /\ pc'[c] = "next" /\ Consume(c, 0, type, {})
    BY <1>0, <1>8 DEF IvrRoute, IvrEvent, Ready
  <2>2. mem[c].phase = "ivr" /\ mem[c].out = 0
    BY <2>1 DEF Consistent
  <2>3. Sinks(c)
    BY <1>0, <1>a, <1>c, <2>1 DEF EventTypes
  <2>4. PICK some \in SUBSET db[c].open : mem' = [mem EXCEPT ![c].phase = "dialing", ![c].open = some]
    BY <1>8 DEF IvrRoute
  <2>5. mem'[c] = [mem[c] EXCEPT !.phase = "dialing", !.open = some]
    BY <1>0, <2>4
  <2>6. SameDial(c) /\ mem'[c].phase = "dialing"
    BY <1>0, <2>1, <2>5 DEF StateType, SameDial
  <2> QED
    BY <2>1, <2>2, <2>3, <2>6 DEF Calm, Shows, SameDial
<1>9. ASSUME NEW type \in {"speak", "gather"}, IvrHangup(c, type)
      PROVE  Calm(c)
  <2>1. /\ pc[c] = "idle" /\ db[c].phase = "ivr" /\ plan' = plan /\ now' = now
        /\ softphone' = softphone /\ pc' = pc /\ mem' = [mem EXCEPT ![c].phase = "closing"]
        /\ \/ Consume(c, 0, type, Report(c, 0, "speak")) /\ leg' = leg
           \/ Consume(c, 0, type, HangupOf(c, 0)) /\ HangUp(c, 0)
    BY <1>9 DEF IvrHangup, IvrEvent, Ready
  <2>2. mem[c].phase = "ivr"
    BY <2>1 DEF Consistent
  <2>3. Sinks(c)
    BY <1>0, <1>a, <1>b, <1>c, <2>1 DEF EventTypes
  <2> QED
    BY <1>d, <2>1, <2>2, <2>3 DEF Phases
<1> QED
  BY <1>1, <1>2, <1>3, <1>4, <1>5, <1>6, <1>7, <1>8, <1>9 DEF Event

LEMMA StepCalm ==
  ASSUME TypeOK, HandlersConsistent, NEW c \in Calls, Step(c)
  PROVE  \/ Calm(c) \/ Reject(c) \/ Admit(c) \/ NextCandidate(c) \/ Dial(c) \/ DialFallback(c)
         \/ SaveDial(c) \/ NobodyTakesIt(c) \/ Retry(c) \/ SaveEnd(c) \/ LeaveSoftphone(c)
         \/ CallerLeaves(c)
         \/ \E i \in Legs : BuyerUnavailable(c, i)
BY SetupCalm, HandlerCalm, EventCalm DEF Step, HandlersConsistent

LEMMA CalmTold ==
  ASSUME TypeOK, NEW c \in Calls, Told(c), Calm(c)
  PROVE  Told(c)'
<1>1. /\ SameDial(c) /\ Sinks(c) /\ mem[c].out \in Legs /\ mem[c].next \in 0..MaxCands
      /\ pc'[c] \in {"new", "reserve", "retry", "dialed"} => pc'[c] = pc[c]
      /\ mem'[c].phase = "ended" <=> mem[c].phase = "ended"
  BY DEF Calm, TypeOK, StateType
<1>2. \A i \in Legs : AgentAt(c, i)' = AgentAt(c, i)
  BY <1>1 DEF SameDial, AgentAt, Cands
<1>3. Named(c)'
  BY <1>1, <1>2 DEF Named, Told, SameDial
<1>4. PhoneTold(c)'
  BY <1>1, <1>2 DEF PhoneTold, Told, Calm, SameDial
<1>5. 0 \in Legs /\ Fallback \in Legs /\ 1..MaxCands \subseteq Legs /\ 0..MaxCands \subseteq Legs
  BY LegsTyped, ConstantsAssumption DEF Legs, Fallback
<1>6. LegsTold(c)'
  <2>0. /\ \A i \in Legs : leg[c][i] \notin Live => leg'[c][i] = leg[c][i]
        /\ "none" \notin Live
    BY <1>1 DEF Sinks, Live
  <2>1. /\ pc'[c] = "new" => leg'[c][0] = "none"
        /\ ~mem'[c].fb => leg'[c][Fallback] = "none"
    BY <1>1, <1>5, <2>0 DEF LegsTold, Told, SameDial
  <2>2. /\ pc'[c] = "reserve" => leg'[c][mem'[c].next] = "none"
        /\ pc'[c] = "retry" => leg'[c][mem'[c].out] \notin Live
    BY <1>1, <1>5, <2>0 DEF LegsTold, Told, SameDial
  <2>5. \A i \in 1..MaxCands : i > mem'[c].next => leg'[c][i] = "none"
    BY <1>1, <1>5, <2>0 DEF LegsTold, Told, SameDial
  <2>3. \A i \in Legs : <<c, i, "hangup">> \in events' => leg'[c][i] = "down"
    BY <1>1 DEF LegsTold, Told, Sinks, Live
  <2>4. \A i \in Legs \ {0} : leg'[c][i] \in Live => i = mem'[c].out /\ mem'[c].phase # "ended"
    BY <1>1 DEF LegsTold, Told, SameDial, Sinks
  <2> QED
    BY <2>1, <2>2, <2>3, <2>4, <2>5 DEF LegsTold
<1> QED
  BY <1>3, <1>4, <1>6 DEF Told

-----------------------------------------------------------------------------
(* The steps that begin, change or end a dial *)

LEMMA AdmissionTold ==
  ASSUME TypeOK, NEW c \in Calls, Consistent(c), Told(c), Reject(c) \/ Admit(c)
  PROVE  Told(c)'
<1> USE DEF counters, carrier, records
<1>0. /\ pc \in [Calls -> Positions] /\ leg \in [Calls -> [Legs -> LegStates]]
      /\ 0 \in Legs /\ Fallback \in Legs /\ Fallback # 0
  <2>1. Fallback # 0
    BY ConstantsAssumption DEF Fallback
  <2> QED
    BY <2>1, LegsTyped DEF TypeOK
<1>1. /\ pc[c] = "new" /\ mem' = mem /\ plan' = plan /\ now' = now /\ softphone' = softphone
      /\ pc'[c] \in {"rejected", "setup"}
  BY <1>0 DEF Reject, Admit, NewCall
<1>2. mem[c].out = 0 /\ ~mem[c].fb /\ mem[c].next = 0
  BY <1>1 DEF Consistent, NoState
<1>3. Named(c)'
  BY <1>1, <1>2 DEF Named
<1>4. PhoneTold(c)'
  BY <1>1, <1>2 DEF PhoneTold, Told, Shows
<1>5. /\ \A i \in Legs \ {0} : leg'[c][i] = leg[c][i]
      /\ \/ /\ leg'[c][0] = "down"
            /\ \A i \in Legs \ {0} : <<c, i, "hangup">> \in events' => <<c, i, "hangup">> \in events
         \/ events' = events
  <2>1. CASE Reject(c)
    <3>1. leg' = [leg EXCEPT ![c][0] = "down"] /\ events' = events \cup {<<c, 0, "hangup">>}
      BY <2>1 DEF Reject
    <3> QED
      BY <1>0, <3>1
  <2>2. CASE Admit(c)
    <3>1. leg' = [leg EXCEPT ![c][0] = "ringing"] /\ events' = events
      BY <2>2 DEF Admit
    <3> QED
      BY <1>0, <3>1
  <2> QED
    BY <2>1, <2>2
<1>6. LegsTold(c)'
  <2>1. /\ leg[c][0] = "none" /\ leg[c][Fallback] = "none"
        /\ \A i \in 1..MaxCands : i \in Legs \ {0} /\ leg[c][i] = "none"
        /\ \A i \in Legs : <<c, i, "hangup">> \in events => leg[c][i] = "down"
        /\ \A i \in Legs \ {0} : leg[c][i] \notin Live
    BY <1>1, <1>2, LegsTyped DEF Told, LegsTold, Legs
  <2>2. \A i \in Legs : <<c, i, "hangup">> \in events' => leg'[c][i] = "down"
    BY <1>0, <1>5, <2>1
  <2> QED
    BY <1>0, <1>1, <1>2, <1>5, <2>1, <2>2 DEF LegsTold
<1> QED
  BY <1>3, <1>4, <1>6 DEF Told

LEMMA DialTold ==
  ASSUME TypeOK, NEW c \in Calls, Consistent(c), Told(c),
         \/ NextCandidate(c) \/ Dial(c) \/ DialFallback(c) \/ SaveDial(c) \/ NobodyTakesIt(c)
  PROVE  Told(c)'
<1> USE DEF counters, carrier, records
<1>0. /\ pc \in [Calls -> Positions] /\ leg \in [Calls -> [Legs -> LegStates]]
      /\ mem \in [Calls -> StateType] /\ now \in [Calls -> Periods]
      /\ mem[c] \in StateType
      /\ 0 \in Legs /\ Fallback \in Legs /\ Fallback # 0 /\ 1..MaxCands \subseteq Legs \ {0}
      /\ Fallback \notin 1..MaxCands /\ 0..MaxCands \subseteq Legs
  BY LegsTyped, ConstantsAssumption DEF TypeOK, Fallback, Legs
<1>1. plan' = plan /\ \A i : AgentAt(c, i)' = AgentAt(c, i)
  BY DEF NextCandidate, Dial, DialFallback, SaveDial, NobodyTakesIt, AgentAt, Cands
\* Before the dial no buyer's leg is busy and no softphone shows the call.
<1>2. ASSUME mem[c].out = 0
      PROVE  /\ \A i \in Legs \ {0} : leg[c][i] \notin Live
             /\ \A a \in Agents, i \in Legs : <<a, c, i>> \notin softphone
  BY <1>2 DEF Told, LegsTold, PhoneTold, Shows
<1>3. CASE NextCandidate(c)
  <2>1. PICK i \in Remaining(c) : mem'[c] = [mem[c] EXCEPT !.next = i]
    BY <1>0, <1>3 DEF NextCandidate
  <2>2. /\ mem'[c].next = i /\ mem'[c].out = mem[c].out /\ mem'[c].fb = mem[c].fb
        /\ mem'[c].bridged = mem[c].bridged /\ mem'[c].phase = mem[c].phase
    BY <1>0, <2>1 DEF StateType
  <2>3. /\ pc[c] = "next" /\ pc'[c] = "reserve" /\ leg' = leg /\ events' = events /\ softphone' = softphone
    BY <1>0, <1>3 DEF NextCandidate
  <2>4. mem[c].out = 0 /\ i \in 1..MaxCands /\ i > mem[c].next /\ mem[c].next \in Nat
    BY <1>0, <2>3, RemainingTyped DEF Consistent, InDial, Remaining, StateType
  <2>5. LegsTold(c)'
    <3>1. \A j \in 1..MaxCands : j > i => leg[c][j] = "none"
      BY <2>4 DEF Told, LegsTold
    <3>2. leg[c][i] = "none"
      BY <2>4 DEF Told, LegsTold
    <3> QED
      BY <1>2, <2>2, <2>3, <2>4, <3>1, <3>2 DEF Told, LegsTold
  <2>6. Named(c)' /\ PhoneTold(c)'
    BY <1>2, <2>2, <2>3, <2>4 DEF Named, PhoneTold, Shows
  <2> QED
    BY <2>5, <2>6 DEF Told
<1>4. CASE Dial(c)
  <2>1. mem'[c] = [mem[c] EXCEPT !.out = mem[c].next, !.route = mem[c].next,
                                 !.agent = AgentAt(c, mem[c].next), !.at = now[c]]
    BY <1>0, <1>4 DEF Dial
  <2>2. /\ mem'[c].out = mem[c].next /\ mem'[c].route = mem[c].next /\ mem'[c].next = mem[c].next
        /\ mem'[c].agent = AgentAt(c, mem[c].next) /\ mem'[c].at = now[c] /\ mem'[c].fb = mem[c].fb
        /\ mem'[c].bridged = mem[c].bridged /\ mem'[c].phase = mem[c].phase
    BY <1>0, <2>1 DEF StateType
  <2>3. /\ pc[c] = "reserve" /\ pc'[c] = "dialed" /\ events' = events /\ softphone' = softphone
        /\ leg' = [leg EXCEPT ![c][mem[c].next] = "ringing"] /\ now' = now
    BY <1>0, <1>4 DEF Dial
  <2>4. /\ mem[c].out = 0 /\ mem[c].next \in 1..MaxCands /\ ~mem[c].fb /\ mem[c].phase = "dialing"
        /\ ~mem[c].bridged
    BY <1>0, <2>3 DEF Consistent, InDial, StateType
  <2>5. /\ leg'[c][mem[c].next] = "ringing" /\ leg[c][mem[c].next] = "none"
        /\ \A i \in Legs : i # mem[c].next => leg'[c][i] = leg[c][i]
    BY <1>0, <2>3, <2>4 DEF Told, LegsTold
  <2>6. LegsTold(c)'
    <3>1. \A i \in Legs : <<c, i, "hangup">> \in events => i # mem[c].next /\ leg[c][i] = "down"
      BY <2>5 DEF Told, LegsTold
    <3>2. \A i \in 1..MaxCands : i > mem[c].next => leg'[c][i] = "none"
      BY <1>0, <2>4, <2>5 DEF Told, LegsTold
    <3>3. leg'[c][Fallback] = "none"
      BY <1>0, <2>4, <2>5 DEF Told, LegsTold
    <3>4. \A i \in Legs \ {0} : leg'[c][i] \in Live => i = mem[c].next
      BY <1>2, <2>4, <2>5
    <3> QED
      BY <2>2, <2>3, <2>4, <2>5, <3>1, <3>2, <3>3, <3>4 DEF LegsTold
  <2>7. Named(c)'
    BY <1>1, <2>2, <2>3, <2>4 DEF Named
  <2>8. PhoneTold(c)'
    BY <1>2, <2>3, <2>4 DEF PhoneTold, Shows
  <2> QED
    BY <2>6, <2>7, <2>8 DEF Told
<1>5. CASE DialFallback(c)
  <2>1. mem'[c] = [mem[c] EXCEPT !.fb = TRUE, !.route = 0, !.out = Fallback]
    BY <1>0, <1>5 DEF DialFallback
  <2>2. /\ mem'[c].out = Fallback /\ mem'[c].fb = TRUE /\ mem'[c].next = mem[c].next
        /\ mem'[c].bridged = mem[c].bridged /\ mem'[c].phase = mem[c].phase
    BY <1>0, <2>1 DEF StateType
  <2>3. /\ pc[c] = "next" /\ pc'[c] = "dialed" /\ events' = events /\ softphone' = softphone
        /\ leg' = [leg EXCEPT ![c][Fallback] = "ringing"] /\ ~mem[c].fb
    BY <1>0, <1>5 DEF DialFallback, NoneLeft, TryFallback
  <2>4. mem[c].out = 0 /\ mem[c].phase = "dialing"
    BY <2>3 DEF Consistent, InDial
  <2>5. /\ leg'[c][Fallback] = "ringing" /\ leg[c][Fallback] = "none"
        /\ \A i \in Legs : i # Fallback => leg'[c][i] = leg[c][i]
    BY <1>0, <2>3 DEF Told, LegsTold
  <2>6. LegsTold(c)'
    <3>1. \A i \in Legs : <<c, i, "hangup">> \in events => i # Fallback /\ leg[c][i] = "down"
      BY <2>5 DEF Told, LegsTold
    <3>2. \A i \in 1..MaxCands : i > mem[c].next => leg'[c][i] = "none"
      BY <1>0, <2>5 DEF Told, LegsTold
    <3>3. \A i \in Legs \ {0} : leg'[c][i] \in Live => i = Fallback
      BY <1>2, <2>4, <2>5
    <3> QED
      BY <2>2, <2>3, <2>4, <2>5, <3>1, <3>2, <3>3 DEF LegsTold
  <2>7. Named(c)' /\ PhoneTold(c)'
    BY <1>2, <2>2, <2>3, <2>4 DEF Named, PhoneTold, Shows
  <2> QED
    BY <2>6, <2>7 DEF Told
<1>6. CASE SaveDial(c)
  <2>1. /\ pc[c] = "dialed" /\ pc'[c] = "idle" /\ mem' = mem /\ leg' = leg /\ events' = events
        /\ softphone' = IF mem[c].agent = NoAgent \/ mem[c].fb THEN softphone
                        ELSE softphone \cup {<<mem[c].agent, c, mem[c].out>>}
    BY <1>0, <1>6 DEF SaveDial
  <2>2. mem[c].out # 0 /\ ~mem[c].bridged /\ mem[c].phase = "dialing" /\ mem[c].out \in Legs
    BY <1>0, <2>1 DEF Consistent, InDial, StateType
  <2>3. LegsTold(c)' /\ Named(c)'
    BY <1>1, <2>1 DEF Told, LegsTold, Named
  <2>4. \A a \in Agents, i \in Legs : <<a, c, i>> \notin softphone
    BY <2>1 DEF Told, PhoneTold, Shows
  <2>5. Shows(c)'
    BY <2>1, <2>2 DEF Shows
  <2>6. AgentAt(c, mem[c].out) = IF mem[c].fb THEN NoAgent ELSE mem[c].agent
    <3>1. CASE mem[c].fb
      <4>1. mem[c].out = Fallback
        BY <2>2, <3>1 DEF Told, Named
      <4>2. Fallback \notin 1..Len(Cands(c))
        BY PlanTyped, ConstantsAssumption DEF Fallback
      <4> QED
        BY <3>1, <4>1, <4>2 DEF AgentAt
    <3>2. CASE ~mem[c].fb
      BY <2>2, <3>2 DEF Told, Named
    <3> QED
      BY <3>1, <3>2
  <2>7. PhoneTold(c)'
    BY <1>1, <2>1, <2>4, <2>5, <2>6, ConstantsAssumption DEF PhoneTold
  <2> QED
    BY <2>3, <2>7 DEF Told
<1>7. CASE NobodyTakesIt(c)
  <2>1. \/ mem'[c] = [mem[c] EXCEPT !.phase = "closing", !.out = 0]
        \/ mem'[c] = [[mem[c] EXCEPT !.phase = "closing", !.out = 0] EXCEPT !.fb = TRUE, !.route = 0]
    BY <1>0, <1>7 DEF NobodyTakesIt
  <2>2. mem'[c].out = 0 /\ mem'[c].next = mem[c].next /\ (mem[c].fb => mem'[c].fb)
    BY <1>0, <2>1 DEF StateType
  <2>3. /\ pc[c] = "next" /\ pc'[c] = "idle" /\ leg' = leg /\ softphone' = softphone
        /\ \A i \in Legs : <<c, i, "hangup">> \in events' => <<c, i, "hangup">> \in events
    BY <1>0, <1>7 DEF NobodyTakesIt, NoneLeft, Report
  <2>4. mem[c].out = 0
    BY <2>3 DEF Consistent, InDial
  <2>5. LegsTold(c)'
    BY <1>2, <2>2, <2>3, <2>4 DEF Told, LegsTold
  <2>6. Named(c)' /\ PhoneTold(c)'
    BY <1>2, <2>2, <2>3, <2>4 DEF Named, PhoneTold, Shows
  <2> QED
    BY <2>5, <2>6 DEF Told
<1> QED
  BY <1>3, <1>4, <1>5, <1>6, <1>7

LEMMA ReleaseTold ==
  ASSUME TypeOK, NEW c \in Calls, Consistent(c), Told(c),
         \/ Retry(c) \/ SaveEnd(c) \/ LeaveSoftphone(c) \/ CallerLeaves(c)
         \/ \E i \in Legs : BuyerUnavailable(c, i)
  PROVE  Told(c)'
<1> USE DEF counters, carrier, records
<1>0. /\ pc \in [Calls -> Positions] /\ leg \in [Calls -> [Legs -> LegStates]]
      /\ mem \in [Calls -> StateType] /\ mem[c] \in StateType /\ mem[c].out \in Legs
      /\ 0 \in Legs /\ Fallback \in Legs
  BY LegsTyped DEF TypeOK
<1>1. plan' = plan /\ (\A i : AgentAt(c, i)' = AgentAt(c, i)) /\ now' = now
  BY DEF Retry, SaveEnd, LeaveSoftphone, CallerLeaves, BuyerUnavailable, AgentAt, Cands
\* dropLeg takes off the softphone what is shown there of the call.
<1>2. ASSUME mem[c] = db[c], mem[c].out # 0, DropLeg(c)
      PROVE  \A a \in Agents, i \in Legs : <<a, c, i>> \notin softphone'
  <2>1. ASSUME NEW a \in Agents, NEW i \in Legs, <<a, c, i>> \in softphone
        PROVE  a = db[c].agent /\ i = db[c].out
    <3>1. i = mem[c].out /\ a = AgentAt(c, i)
      BY <2>1 DEF Told, PhoneTold
    <3>2. ~mem[c].fb
      <4>1. ASSUME mem[c].fb
            PROVE  FALSE
        <5>1. i = Fallback
          BY <1>2, <3>1, <4>1 DEF Told, Named
        <5>2. Fallback \notin 1..Len(Cands(c))
          BY PlanTyped, ConstantsAssumption DEF Fallback
        <5> QED
          BY <3>1, <5>1, <5>2, ConstantsAssumption DEF AgentAt
      <4> QED
        BY <4>1
    <3> QED
      BY <1>2, <3>1, <3>2 DEF Told, Named
  <2> QED
    BY <1>2, <2>1 DEF DropLeg
<1>3. CASE Retry(c)
  <2>1. mem'[c] = [mem[c] EXCEPT !.out = 0, !.phase = "dialing"]
    BY <1>0, <1>3 DEF Retry
  <2>2. mem'[c].out = 0 /\ mem'[c].next = mem[c].next /\ mem'[c].fb = mem[c].fb
    BY <1>0, <2>1 DEF StateType
  <2>3. /\ pc[c] = "retry" /\ pc'[c] = "next" /\ leg' = leg /\ events' = events /\ softphone' = softphone
    BY <1>0, <1>3 DEF Retry
  <2>4. \A i \in Legs \ {0} : leg[c][i] \notin Live
    BY <2>3 DEF Told, LegsTold
  <2>5. LegsTold(c)'
    BY <2>2, <2>3, <2>4 DEF Told, LegsTold
  <2>6. Named(c)' /\ PhoneTold(c)'
    BY <2>2, <2>3 DEF Named, Told, PhoneTold, Shows
  <2> QED
    BY <2>5, <2>6 DEF Told
<1>4. CASE SaveEnd(c)
  <2>1. mem'[c] = [mem[c] EXCEPT !.phase = "ended"]
    BY <1>0, <1>4 DEF SaveEnd
  <2>2. /\ mem'[c].out = mem[c].out /\ mem'[c].next = mem[c].next /\ mem'[c].fb = mem[c].fb
        /\ mem'[c].route = mem[c].route /\ mem'[c].agent = mem[c].agent /\ mem'[c].phase = "ended"
        /\ mem'[c].bridged = mem[c].bridged
    BY <1>0, <2>1 DEF StateType
  <2>3. /\ pc[c] = "save" /\ pc'[c] = "account" /\ leg' = leg /\ events' = events
        /\ softphone' = softphone
    BY <1>0, <1>4 DEF SaveEnd
  <2>4. \A i \in Legs \ {0} : leg[c][i] \notin Live
    BY <2>3 DEF Told, LegsTold, Consistent
  <2>5. LegsTold(c)'
    BY <2>2, <2>3, <2>4 DEF Told, LegsTold
  <2>6. Named(c)'
    BY <1>1, <2>2, <2>3 DEF Told, Named
  <2>7. PhoneTold(c)'
    BY <1>1, <2>2, <2>3 DEF Told, PhoneTold, Shows
  <2> QED
    BY <2>5, <2>6, <2>7 DEF Told
<1>8. CASE LeaveSoftphone(c)
  <2>1. /\ pc[c] = "leave" /\ pc'[c] = "free" /\ mem' = mem /\ leg' = leg /\ events' = events
        /\ IF mem[c].out # 0 THEN DropLeg(c) ELSE softphone' = softphone
    BY <1>0, <1>8 DEF LeaveSoftphone
  <2>2. mem[c] = db[c]
    BY <2>1 DEF Consistent
  <2>3. LegsTold(c)' /\ Named(c)'
    BY <1>1, <2>1 DEF Told, LegsTold, Named
  <2>4. \A a \in Agents, i \in Legs : <<a, c, i>> \notin softphone'
    BY <1>2, <2>1, <2>2 DEF Told, PhoneTold, Shows
  <2>5. PhoneTold(c)'
    BY <2>1, <2>4 DEF PhoneTold, Shows
  <2> QED
    BY <2>3, <2>5 DEF Told
\* A handler that gives a dial up takes it off the softphone; the state stays as it was.
<1>5. ASSUME pc[c] = "idle", pc'[c] \in {"retry", "end"}, mem' = mem, leg' = leg,
             \A i \in Legs : <<c, i, "hangup">> \in events' => <<c, i, "hangup">> \in events,
             pc'[c] = "retry" => leg[c][mem[c].out] \notin Live
      PROVE  LegsTold(c)' /\ Named(c)'
  BY <1>1, <1>5 DEF Told, LegsTold, Named
<1>6. ASSUME NEW i \in Legs, BuyerUnavailable(c, i)
      PROVE  Told(c)'
  <2>1. /\ pc[c] = "idle" /\ pc'[c] = "retry" /\ mem' = mem /\ leg' = leg
        /\ <<c, i, "hangup">> \in events /\ i # 0 /\ i = db[c].out /\ DropLeg(c)
    BY <1>0, <1>6 DEF BuyerUnavailable, HangupMatters, Ready
  <2>2. mem[c] = db[c]
    BY <2>1 DEF Consistent
  <2>3. leg[c][mem[c].out] \notin Live
    BY <2>1, <2>2 DEF Told, LegsTold, Live
  <2>4. \A k \in Legs : <<c, k, "hangup">> \in events' => <<c, k, "hangup">> \in events
    BY <1>6 DEF BuyerUnavailable, Consume
  <2>5. PhoneTold(c)'
    BY <1>2, <2>1, <2>2 DEF PhoneTold, Shows, BuyerUnavailable
  <2> QED
    BY <1>5, <2>1, <2>3, <2>4, <2>5 DEF Told
<1>7. CASE CallerLeaves(c)
  <2>1. /\ pc[c] = "idle" /\ pc'[c] = "end" /\ mem' = mem /\ leg' = leg /\ db[c].phase # "ended"
        /\ IF db[c].out # 0 /\ ~db[c].bridged THEN DropLeg(c) ELSE UNCHANGED softphone
    BY <1>0, <1>7 DEF CallerLeaves, HangupMatters, Ready
  <2>2. mem[c] = db[c]
    BY <2>1 DEF Consistent
  <2>3. \A k \in Legs : <<c, k, "hangup">> \in events' => <<c, k, "hangup">> \in events
    BY <1>7 DEF CallerLeaves, Consume
  <2>4. CASE db[c].out # 0 /\ ~db[c].bridged
    <3>1. PhoneTold(c)'
      BY <1>2, <2>1, <2>2, <2>4 DEF PhoneTold, Shows
    <3> QED
      BY <1>5, <2>1, <2>3, <3>1 DEF Told
  <2>5. CASE ~(db[c].out # 0 /\ ~db[c].bridged)
    <3>1. Shows(c)' <=> Shows(c)
      BY <2>1, <2>2, <2>5 DEF Shows
    <3>2. PhoneTold(c)'
      BY <1>1, <2>1, <2>5, <3>1 DEF Told, PhoneTold
    <3> QED
      BY <1>5, <2>1, <2>3, <3>2 DEF Told
  <2> QED
    BY <2>4, <2>5
<1> QED
  BY <1>3, <1>4, <1>6, <1>7, <1>8

-----------------------------------------------------------------------------
(* The other calls, and the invariant *)

LEMMA OthersTold ==
  ASSUME TypeOK, NEW c \in Calls, Step(c), NEW d \in Calls \ {c}, Told(d)
  PROVE  Told(d)'
<1> USE DEF counters, carrier, records
<1>1. Untouched(d)
  BY StepIsLocal
<1>2. \A i \in Legs : <<d, i, "hangup">> \in events' <=> <<d, i, "hangup">> \in events
  <2>1. CASE Setup(c)
    BY <2>1 DEF Setup, Reject, Admit, AnswerFails, Answer
  <2>2. CASE Handler(c)
    BY <2>2 DEF Handler, NextCandidate, Reserve, Rollback, Dial, DialFails, DialFallback, SaveDial,
       NobodyTakesIt, ReleaseAll, Retry, HangUpBuyer, SaveEnd, FreeAccount, LeaveSoftphone, Free,
       Bill, Report, HangupOf
  <2>3. ASSUME NEW i \in Legs, NEW type \in EventTypes, NEW more,
               \A k \in Legs : <<d, k, "hangup">> \notin more, Consume(c, i, type, more)
        PROVE  \A k \in Legs : <<d, k, "hangup">> \in events' <=> <<d, k, "hangup">> \in events
    BY <2>3 DEF Consume
  <2>4. \A j \in Legs : \A k \in Legs : /\ <<d, k, "hangup">> \notin {}
                                       /\ <<d, k, "hangup">> \notin Report(c, j, "speak")
                                       /\ <<d, k, "hangup">> \notin Report(c, j, "gather")
                                       /\ <<d, k, "hangup">> \notin HangupOf(c, j)
    BY DEF Report, HangupOf
  <2>5. CASE Event(c)
    <3>1. \E more : \E i \in Legs, type \in EventTypes :
             /\ \A k \in Legs : <<d, k, "hangup">> \notin more
             /\ Consume(c, i, type, more)
      <4>0. 0 \in Legs
        BY LegsTyped
      <4>1. ASSUME NEW i \in Legs, NEW type \in EventTypes,
                   Ignore(c, i, type) \/ LockTimesOut(c, i, type)
            PROVE  Consume(c, i, type, {})
        BY <4>1 DEF Ignore, LockTimesOut
      <4>2. ASSUME NEW i \in Legs, \/ GreetingSpoken(c, i) \/ ClosingSpoken(c, i) \/ WhisperSpoken(c, i)
                                   \/ Answered(c, i) \/ BuyerLeaves(c, i) \/ BuyerUnavailable(c, i)
            PROVE  \E type \in EventTypes, more \in {{}, Report(c, 0, "gather"), Report(c, i, "speak"), HangupOf(c, 0)} :
                      Consume(c, i, type, more)
        BY <4>2 DEF GreetingSpoken, ClosingSpoken, WhisperSpoken, Answered, BuyerLeaves, BuyerUnavailable,
           EventTypes
      <4>3. ASSUME NEW type \in {"speak", "gather"}, IvrGoto(c, type) \/ IvrRoute(c, type) \/ IvrHangup(c, type)
            PROVE  \E more \in {{}, Report(c, 0, "gather"), Report(c, 0, "speak"), HangupOf(c, 0)} :
                      Consume(c, 0, type, more)
        BY <4>3 DEF IvrGoto, IvrRoute, IvrHangup
      <4>4. CASE CallerLeaves(c)
        <5>1. Consume(c, 0, "hangup", {})
          BY <4>4 DEF CallerLeaves
        <5> QED
          BY <4>0, <5>1 DEF EventTypes
      <4>5. {"speak", "gather"} \subseteq EventTypes
        BY DEF EventTypes
      <4> QED
        BY <2>4, <2>5, <4>0, <4>1, <4>2, <4>3, <4>4, <4>5 DEF Event
    <3> QED
      BY <2>3, <3>1
  <2>6. CASE Phone(c)
    BY <2>6 DEF Phone, LegEnds, BuyerAnswers
  <2> QED
    BY <2>1, <2>2, <2>5, <2>6 DEF Step
<1>3. \A a \in Agents, i \in Legs : <<a, d, i>> \in softphone' <=> <<a, d, i>> \in softphone
  <2>1. CASE Setup(c)
    BY <2>1 DEF Setup, Reject, Admit, AnswerFails, Answer
  <2>2. CASE Handler(c)
    BY <2>2 DEF Handler, NextCandidate, Reserve, Rollback, Dial, DialFails, DialFallback, SaveDial,
       NobodyTakesIt, ReleaseAll, Retry, HangUpBuyer, SaveEnd, FreeAccount, LeaveSoftphone, Free,
       Bill, DropLeg
  <2>3. CASE Event(c) \/ Phone(c)
    BY <2>3 DEF Event, Phone, LegEnds, BuyerAnswers, Ignore, LockTimesOut, GreetingSpoken, ClosingSpoken,
       WhisperSpoken, Answered, BuyerLeaves, BuyerUnavailable, CallerLeaves, IvrGoto, IvrRoute,
       IvrHangup, DropLeg
  <2> QED
    BY <2>1, <2>2, <2>3 DEF Step
<1>4. \A i : AgentAt(d, i)' = AgentAt(d, i)
  BY <1>1 DEF Untouched, AgentAt, Cands
<1>5. Named(d)' /\ LegsTold(d)'
  BY <1>1, <1>2, <1>4 DEF Told, Named, LegsTold, Untouched
<1>6. PhoneTold(d)'
  BY <1>1, <1>3, <1>4 DEF Told, PhoneTold, Shows, Untouched
<1> QED
  BY <1>5, <1>6 DEF Told

AllTold == \A c \in Calls : Told(c)

LEMMA InitTold == Init => AllTold
<1> SUFFICES ASSUME Init, NEW c \in Calls
             PROVE  Told(c)
  BY DEF AllTold
<1>1. /\ mem[c] = NoState /\ pc[c] = "new" /\ events = {} /\ softphone = {}
      /\ \A i \in Legs : leg[c][i] = "none"
  BY DEF Init
<1>2. 0 \in Legs /\ Fallback \in Legs /\ 1..MaxCands \subseteq Legs
  BY ConstantsAssumption DEF Legs, Fallback
<1>3. LegsTold(c)
  BY <1>1, <1>2 DEF LegsTold, Live
<1> QED
  BY <1>1, <1>3 DEF Told, Named, PhoneTold, Shows, NoState

LEMMA NextTold ==
  ASSUME TypeOK, HandlersConsistent, AllTold, [Next]_vars
  PROVE  AllTold'
<1>1. CASE Tick \/ UNCHANGED vars
  BY <1>1 DEF Tick, vars, counters, carrier, records, AllTold, Told, Named, LegsTold, PhoneTold, Shows,
     AgentAt, Cands
<1>2. ASSUME NEW c \in Calls, Step(c), NEW d \in Calls
      PROVE  Told(d)'
  <2>1. Told(d) /\ Told(c) /\ Consistent(c)
    BY DEF AllTold, HandlersConsistent
  <2>2. CASE d # c
    BY <1>2, <2>1, <2>2, OthersTold
  <2>3. CASE d = c
    BY <1>2, <2>1, <2>3, StepCalm, CalmTold, AdmissionTold, DialTold, ReleaseTold
  <2> QED
    BY <2>2, <2>3
<1> QED
  BY <1>1, <1>2 DEF Next, Step, AllTold

LEMMA StateTold == Spec => [](TypeOK /\ HandlersConsistent /\ AllTold)
<1>1. Init => TypeOK /\ HandlersConsistent /\ AllTold
  BY InitTypeOK, InitConsistent, InitTold
<1>2. TypeOK /\ HandlersConsistent /\ AllTold /\ [Next]_vars => TypeOK' /\ HandlersConsistent' /\ AllTold'
  BY NextTypeOK, NextConsistent, NextTold
<1> QED
  BY <1>1, <1>2, PTL DEF Spec

\* Of a call's buyers never more than one has a busy phone, and it is the one the call
\* remembers: on a retry, at the fallback and at the end of the call no leg is left ringing.
THEOREM OneBuyerLeg == Spec => []NoStrayBuyerLeg
<1>1. AllTold => NoStrayBuyerLeg
  BY DEF AllTold, Told, LegsTold, NoStrayBuyerLeg
<1> QED
  BY <1>1, StateTold, PTL

\* Whenever nobody holds a call's lock, its agent's softphone shows it exactly while it
\* rings or talks there, whatever path the dial took (trackLeg, dropLeg).
THEOREM SoftphonesRight == Spec => []SoftphoneExact
<1>1. TypeOK /\ HandlersConsistent /\ AllTold => SoftphoneExact
  <2> SUFFICES ASSUME TypeOK, HandlersConsistent, AllTold, NEW c \in Calls, pc[c] = "idle",
                      NEW a \in Agents, NEW i \in Legs
               PROVE  <<a, c, i>> \in softphone <=>
                        db[c].phase # "ended" /\ i = db[c].out /\ a = AgentAt(c, i)
    BY DEF SoftphoneExact
  <2>1. mem[c] = db[c] /\ PhoneTold(c)
    BY DEF HandlersConsistent, Consistent, AllTold, Told
  <2>2. AgentAt(c, 0) # a
    BY ConstantsAssumption DEF AgentAt
  <2> QED
    BY <2>1, <2>2 DEF PhoneTold, Shows
<1> QED
  BY <1>1, StateTold, PTL

-----------------------------------------------------------------------------
(* PeriodsExact: what each step of a call does to a period's counter it    *)
(* does to the set of calls that use the period up.                        *)

Buyers == Scopes \ {Account}

UseStays(c) == /\ \A s \in Buyers : used'[s] = used[s]
               /\ Spent(c)' = Spent(c)
               /\ Spent(c) # {} => SpentIn(c)' = SpentIn(c)

UseGrows(c) == \E s \in Buyers \ Spent(c) :
                 /\ used' = [used EXCEPT ![s][SpentIn(c)] = @ + 1]
                 /\ Spent(c)' = Spent(c) \cup {s} /\ SpentIn(c)' = SpentIn(c)

UseShrinks(c) == \E s \in Spent(c) :
                   /\ used' = [used EXCEPT ![s][SpentIn(c)] = Less(@)]
                   /\ Spent(c)' = Spent(c) \ {s} /\ SpentIn(c)' = SpentIn(c)

LEMMA SetupUses ==
  ASSUME TypeOK, NEW c \in Calls, Consistent(c), Setup(c)
  PROVE  UseStays(c)
<1> USE DEF counters, carrier, records
<1>0. pc \in [Calls -> Positions] /\ mem \in [Calls -> StateType] /\ used \in [Scopes -> [Periods -> Nat]]
  BY DEF TypeOK
<1>1. /\ mem[c].out = 0 /\ mem[c].bridged = FALSE /\ taken[c] = {} /\ pc[c] \in {"new", "setup"}
  BY DEF Setup, Reject, Admit, NewCall, AnswerFails, Answer, Consistent, NoState
<1>2. Spent(c) = {}
  BY <1>1 DEF Spent, InDial, Unwinding, Ringing
<1>3. /\ pc'[c] \in {"rejected", "setup", "idle", "next"} /\ taken' = taken
      /\ mem'[c].out = 0 /\ mem'[c].bridged = FALSE
  <2>1. CASE Reject(c) \/ Admit(c) \/ AnswerFails(c)
    BY <1>0, <1>1, <2>1 DEF Reject, Admit, AnswerFails
  <2>2. CASE Answer(c)
    <3>1. PICK ph \in {"greeting", "ivr", "dialing"} :
             mem'[c] = [FreshState(c) EXCEPT !.phase = ph] /\ pc'[c] \in {"next", "idle"}
      BY <1>0, <2>2 DEF Answer
    <3>2. taken' = taken
      BY <2>2 DEF Answer
    <3> QED
      BY <3>1, <3>2 DEF FreshState, NoState
  <2> QED
    BY <2>1, <2>2 DEF Setup
<1>4. Spent(c)' = {}
  BY <1>1, <1>3 DEF Spent, InDial, Unwinding, Ringing
<1>5. \A s \in Buyers : used'[s] = used[s]
  BY <1>0 DEF Setup, Reject, Admit, AnswerFails, Answer, CountIn, Buyers
<1> QED
  BY <1>2, <1>4, <1>5 DEF UseStays

LEMMA HandlerUses ==
  ASSUME TypeOK, NEW c \in Calls, Consistent(c), Named(c), Handler(c)
  PROVE  UseStays(c) \/ UseGrows(c) \/ UseShrinks(c)
<1> USE DEF counters, carrier, records
<1>0. /\ pc \in [Calls -> Positions] /\ mem \in [Calls -> StateType] /\ db \in [Calls -> StateType]
      /\ taken \in [Calls -> SUBSET Scopes] /\ now \in [Calls -> Periods]
      /\ used \in [Scopes -> [Periods -> Nat]] /\ mem[c] \in StateType
  BY DEF TypeOK
\* In the loop of a dial, and in the loop that unwinds one.
<1>a. InDial(c) => Spent(c) = taken[c] /\ SpentIn(c) = now[c]
  BY DEF Spent, SpentIn
<1>b. InDial(c)' => Spent(c)' = taken'[c] /\ SpentIn(c)' = now'[c]
  BY DEF Spent, SpentIn
<1>c. Unwinding(c) => Spent(c) = taken[c] /\ SpentIn(c) = mem[c].at
  BY DEF Spent, SpentIn, Unwinding, InDial
<1>1. CASE NextCandidate(c)
  <2>1. pc[c] = "next" /\ pc'[c] = "reserve" /\ taken' = taken /\ used' = used
    BY <1>0, <1>1 DEF NextCandidate
  <2>2. taken[c] = {}
    BY <2>1 DEF Consistent
  <2> QED
    BY <1>a, <1>b, <2>1, <2>2 DEF UseStays, InDial
<1>2. CASE Reserve(c)
  <2>1. pc[c] = "reserve" /\ pc'[c] \in {"reserve", "rollback"} /\ now' = now
    BY <1>0, <1>2 DEF Reserve
  <2>2. /\ Spent(c) = taken[c] /\ Spent(c)' = taken'[c] /\ SpentIn(c) = now[c] /\ SpentIn(c)' = now[c]
    BY <1>a, <1>b, <2>1 DEF InDial
  <2>3. PICK k \in DOMAIN ScopeSeq(c, mem[c].next) :
           LET s == ScopeSeq(c, mem[c].next)[k] IN
           /\ s \notin taken[c]
           /\ IF Room(s, now[c])
              THEN CountIn(s, now[c]) /\ taken' = [taken EXCEPT ![c] = @ \cup {s}]
              ELSE UNCHANGED <<taken, used>>
    BY <1>2 DEF Reserve, FirstOutside
  <2>4. ScopeSeq(c, mem[c].next)[k] \in Buyers
    BY ScopeTyped DEF Buyers
  <2>5. CASE Room(ScopeSeq(c, mem[c].next)[k], now[c])
    BY <1>0, <2>2, <2>3, <2>4, <2>5 DEF CountIn, UseGrows
  <2>6. CASE ~Room(ScopeSeq(c, mem[c].next)[k], now[c])
    BY <2>2, <2>3, <2>6 DEF UseStays
  <2> QED
    BY <2>5, <2>6
<1>3. CASE Rollback(c)
  <2>1. pc[c] = "rollback" /\ pc'[c] \in {"next", "rollback"} /\ now' = now
    BY <1>0, <1>3 DEF Rollback
  <2>2. /\ Spent(c) = taken[c] /\ Spent(c)' = taken'[c] /\ SpentIn(c) = now[c] /\ SpentIn(c)' = now[c]
    BY <1>a, <1>b, <2>1 DEF InDial
  <2>3. CASE taken[c] = {}
    BY <1>3, <2>2, <2>3 DEF Rollback, UseStays
  <2>4. CASE taken[c] # {}
    <3>1. PICK k \in DOMAIN ScopeSeq(c, mem[c].next) :
             LET s == ScopeSeq(c, mem[c].next)[k] IN
             s \in taken[c] /\ GiveBack(s, now[c]) /\ taken' = [taken EXCEPT ![c] = @ \ {s}]
      BY <1>3, <2>4 DEF Rollback, FirstInside
    <3> QED
      BY <1>0, <2>2, <3>1 DEF GiveBack, UseShrinks
  <2> QED
    BY <2>3, <2>4
<1>4. CASE Dial(c) \/ DialFails(c) \/ DialFallback(c)
  <2>1. InDial(c) /\ InDial(c)' /\ taken' = taken /\ now' = now /\ used' = used
    BY <1>0, <1>4 DEF Dial, DialFails, DialFallback, NoneLeft, InDial
  <2> QED
    BY <1>a, <1>b, <2>1 DEF UseStays
<1>5. CASE SaveDial(c)
  <2>1. /\ pc[c] = "dialed" /\ pc'[c] = "idle" /\ mem' = mem /\ plan' = plan /\ used' = used
        /\ taken'[c] = {}
    BY <1>0, <1>5 DEF SaveDial
  <2>2. /\ taken[c] = ScopesOf(c, mem[c]) /\ mem[c].out # 0 /\ ~mem[c].bridged /\ mem[c].phase = "dialing"
    BY <2>1 DEF Consistent, InDial
  <2>3. ScopesOf(c, mem[c])' = ScopesOf(c, mem[c])
    BY <2>1 DEF ScopesOf, ScopesAt, ScopeSeq, Cands
  <2>4. Spent(c) = ScopesOf(c, mem[c]) /\ SpentIn(c) = now[c]
    BY <1>a, <2>1, <2>2 DEF InDial
  <2>5. Spent(c)' = ScopesOf(c, mem[c]) /\ SpentIn(c)' = mem[c].at
    BY <2>1, <2>2, <2>3 DEF Spent, SpentIn, InDial, Unwinding, Ringing
  <2>6. Spent(c) # {} => mem[c].at = now[c]
    BY <2>1, <2>4 DEF Named, ScopesOf
  <2> QED
    BY <2>1, <2>4, <2>5, <2>6 DEF UseStays
<1>6. CASE NobodyTakesIt(c)
  <2>1. pc[c] = "next" /\ pc'[c] = "idle" /\ taken' = taken /\ used' = used
    BY <1>0, <1>6 DEF NobodyTakesIt, NoneLeft
  <2>2. \/ mem'[c] = [mem[c] EXCEPT !.phase = "closing", !.out = 0]
        \/ mem'[c] = [[mem[c] EXCEPT !.phase = "closing", !.out = 0] EXCEPT !.fb = TRUE, !.route = 0]
    BY <1>0, <1>6 DEF NobodyTakesIt
  <2>3. mem'[c].out = 0 /\ mem'[c].bridged = mem[c].bridged
    BY <1>0, <2>2 DEF StateType
  <2>4. taken[c] = {} /\ ~mem[c].bridged
    BY <2>1 DEF Consistent, InDial
  <2>5. Spent(c) = {} /\ Spent(c)' = {}
    BY <1>a, <2>1, <2>3, <2>4 DEF Spent, InDial, Unwinding, Ringing
  <2> QED
    BY <2>1, <2>5 DEF UseStays
<1>7. CASE ReleaseAll(c)
  <2>1. PICK k \in DOMAIN ScopeSeq(c, mem[c].route) :
           LET s == ScopeSeq(c, mem[c].route)[k] IN
           s \in taken[c] /\ GiveBack(s, mem[c].at) /\ taken' = [taken EXCEPT ![c] = @ \ {s}]
    BY <1>7 DEF ReleaseAll, FirstInside
  <2>2. pc[c] \in {"retry", "end"} /\ pc' = pc /\ mem' = mem
    BY <1>7 DEF ReleaseAll
  <2>3. Unwinding(c) /\ Unwinding(c)' /\ ~InDial(c)'
    BY <2>1, <2>2 DEF Consistent, Unwinding, InDial
  <2>4. Spent(c) = taken[c] /\ SpentIn(c) = mem[c].at /\ Spent(c)' = taken'[c] /\ SpentIn(c)' = mem[c].at
    BY <1>c, <2>2, <2>3 DEF Spent, SpentIn
  <2> QED
    BY <1>0, <2>1, <2>4 DEF GiveBack, UseShrinks
<1>8. CASE Retry(c)
  <2>1. pc[c] = "retry" /\ pc'[c] = "next" /\ taken[c] = {} /\ taken' = taken /\ used' = used
    BY <1>0, <1>8 DEF Retry
  <2>2. Unwinding(c) /\ InDial(c)'
    BY <2>1 DEF Unwinding, InDial, Consistent
  <2> QED
    BY <1>b, <1>c, <2>1, <2>2 DEF UseStays
\* From the end on, a connected call keeps what it used, and no other has anything left.
<1>9. CASE \/ HangUpBuyer(c) \/ SaveEnd(c) \/ FreeAccount(c) \/ LeaveSoftphone(c)
           \/ Free(c) \/ Bill(c)
  <2>1. /\ \/ pc[c] = "end" /\ taken[c] = {} /\ pc'[c] = "save"
           \/ pc[c] = "save" /\ pc'[c] = "account"
           \/ pc[c] = "account" /\ pc'[c] = "leave"
           \/ pc[c] = "leave" /\ pc'[c] = "free"
           \/ pc[c] = "free" /\ pc'[c] \in {"free", "idle"}
        /\ plan' = plan /\ used' = used
    BY <1>0, <1>9 DEF HangUpBuyer, SaveEnd, FreeAccount, LeaveSoftphone, Free, Bill, FreeLine
  <2>2. mem'[c] = mem[c] \/ mem'[c] = [mem[c] EXCEPT !.phase = "ended"]
    BY <1>0, <1>9 DEF HangUpBuyer, SaveEnd, FreeAccount, LeaveSoftphone, Free, Bill
  <2>3. /\ mem'[c].out = mem[c].out /\ mem'[c].bridged = mem[c].bridged /\ mem'[c].route = mem[c].route
        /\ mem'[c].fb = mem[c].fb /\ mem'[c].at = mem[c].at
    BY <1>0, <2>2 DEF StateType
  <2>4. pc'[c] = "idle" => mem'[c].phase = "ended"
    <3>1. pc'[c] = "idle" => pc[c] = "free"
      BY <2>1
    <3>2. pc[c] = "free" => mem[c].phase = "ended"
      BY DEF Consistent
    <3> QED
      BY <1>0, <2>2, <3>1, <3>2 DEF StateType
  <2>5. ScopesOf(c, mem[c])' = ScopesOf(c, mem[c])
    BY <2>1, <2>3 DEF ScopesOf, ScopesAt, ScopeSeq, Cands
  <2>6. Spent(c) = IF mem[c].bridged THEN ScopesOf(c, mem[c]) ELSE {}
    BY <2>1 DEF Spent, InDial, Unwinding, Ringing
  <2>7. Spent(c)' = IF mem[c].bridged THEN ScopesOf(c, mem[c]) ELSE {}
    BY <2>1, <2>3, <2>4, <2>5 DEF Spent, InDial, Unwinding, Ringing
  <2>8. SpentIn(c)' = SpentIn(c)
    BY <2>1, <2>3 DEF SpentIn, InDial
  <2> QED
    BY <2>1, <2>6, <2>7, <2>8 DEF UseStays
<1> QED
  BY <1>1, <1>2, <1>3, <1>4, <1>5, <1>6, <1>7, <1>8, <1>9 DEF Handler

LEMMA EventUses ==
  ASSUME TypeOK, NEW c \in Calls, Consistent(c), Consistent(c)', Event(c) \/ Phone(c)
  PROVE  UseStays(c)
<1> USE DEF counters, carrier, records
<1>0. /\ pc \in [Calls -> Positions] /\ mem \in [Calls -> StateType] /\ mem[c] \in StateType
      /\ taken \in [Calls -> SUBSET Scopes]
  BY DEF TypeOK
<1>1. used' = used /\ plan' = plan /\ now' = now
  BY DEF Event, Phone, LegEnds, BuyerAnswers, Ignore, LockTimesOut, GreetingSpoken, ClosingSpoken,
     WhisperSpoken, Answered, BuyerLeaves, BuyerUnavailable, CallerLeaves, IvrGoto, IvrRoute, IvrHangup
\* A dial that is not over is used up whether its call is connected or not.
<1>2. ASSUME pc[c] = "idle", mem[c].phase # "ended", Consistent(c)
      PROVE  Spent(c) = IF mem[c].out # 0 THEN ScopesOf(c, mem[c]) ELSE {}
  BY <1>2 DEF Spent, InDial, Unwinding, Ringing, Consistent
<1>3. ASSUME pc'[c] = "idle", mem'[c].phase # "ended", Consistent(c)'
      PROVE  Spent(c)' = IF mem'[c].out # 0 THEN ScopesOf(c, mem[c])' ELSE {}
  BY <1>3 DEF Spent, InDial, Unwinding, Ringing, Consistent
<1>4. ASSUME SameDial(c)
      PROVE  ScopesOf(c, mem[c])' = ScopesOf(c, mem[c])
  BY <1>4 DEF SameDial, ScopesOf, ScopesAt, ScopeSeq, Cands
\* The state changes between two events, or the menu leads on to the buyers.
<1>5. ASSUME pc[c] = "idle", mem[c].phase # "ended", mem'[c].phase # "ended", SameDial(c), taken' = taken,
             pc'[c] = "idle" \/ (pc'[c] = "next" /\ mem[c].out = 0)
      PROVE  UseStays(c)
  <2>1. pc'[c] = "next" => Spent(c)' = {}
    BY <1>5 DEF Spent, InDial, Consistent
  <2>2. Spent(c)' = Spent(c)
    BY <1>2, <1>3, <1>4, <1>5, <2>1 DEF SameDial
  <2>3. Spent(c) # {} => SpentIn(c)' = SpentIn(c)
    BY <1>2, <1>5 DEF SpentIn, InDial, SameDial
  <2> QED
    BY <1>1, <2>2, <2>3 DEF UseStays
<1>6. ASSUME pc' = pc, mem' = mem, taken' = taken
      PROVE  UseStays(c)
  BY <1>1, <1>6 DEF UseStays, Spent, SpentIn, InDial, Unwinding, Ringing, ScopesOf, ScopesAt, ScopeSeq,
     Cands
\* A handler that gives the dial up begins with what was used for it.
<1>7. ASSUME pc[c] = "idle", mem[c].phase # "ended", mem[c] = db[c], mem' = mem,
             pc'[c] = "end" \/ (pc'[c] = "retry" /\ ~mem[c].bridged), taken'[c] = Reservation(c)
      PROVE  UseStays(c)
  <2>1. ScopesOf(c, mem[c])' = ScopesOf(c, mem[c])
    BY <1>1, <1>7 DEF ScopesOf, ScopesAt, ScopeSeq, Cands
  <2>2. Spent(c)' = IF mem[c].out # 0 THEN ScopesOf(c, mem[c]) ELSE {}
    BY <1>7, <2>1 DEF Spent, InDial, Unwinding, Ringing, Reservation, Consistent
  <2>3. Spent(c)' = Spent(c) /\ SpentIn(c)' = SpentIn(c)
    BY <1>2, <1>7, <2>2 DEF SpentIn, InDial
  <2> QED
    BY <1>1, <2>3 DEF UseStays
<1>8. ASSUME NEW ph \in Phases, mem' = [mem EXCEPT ![c].phase = ph]
      PROVE  SameDial(c) /\ mem'[c].phase = ph
  <2>1. mem'[c] = [mem[c] EXCEPT !.phase = ph]
    BY <1>0, <1>8
  <2> QED
    BY <1>0, <1>1, <2>1 DEF StateType, SameDial
<1>9. CASE Phone(c)
  BY <1>6, <1>9 DEF Phone, LegEnds, BuyerAnswers
<1>10. ASSUME NEW i \in Legs, \/ ClosingSpoken(c, i) \/ BuyerLeaves(c, i)
                              \/ \E type \in EventTypes : Ignore(c, i, type) \/ LockTimesOut(c, i, type)
       PROVE  UseStays(c)
  BY <1>6, <1>10 DEF ClosingSpoken, BuyerLeaves, Ignore, LockTimesOut
<1>11. ASSUME NEW i \in Legs, GreetingSpoken(c, i)
       PROVE  UseStays(c)
  <2>1. /\ pc[c] = "idle" /\ db[c].phase = "greeting" /\ taken' = taken /\ pc'[c] \in {"idle", "next"}
    BY <1>0, <1>11 DEF GreetingSpoken, Ready
  <2>2. mem[c].phase = "greeting" /\ mem[c].out = 0
    BY <2>1 DEF Consistent
  <2>3. PICK ph \in {"ivr", "dialing"} : mem' = [mem EXCEPT ![c].phase = ph]
    BY <1>11 DEF GreetingSpoken
  <2> QED
    BY <1>5, <1>8, <2>1, <2>2, <2>3 DEF Phases
<1>12. ASSUME NEW i \in Legs, WhisperSpoken(c, i) \/ Answered(c, i)
       PROVE  UseStays(c)
  <2>1. /\ pc[c] = "idle" /\ db[c].phase # "ended" /\ pc' = pc /\ taken' = taken
        /\ \/ Connect(c) \/ mem' = mem
           \/ mem' = [mem EXCEPT ![c].phase = "whisper"]
    BY <1>12 DEF WhisperSpoken, Answered, AnswerMatters, Ready, BridgeFails
  <2>2. mem[c].phase # "ended"
    BY <2>1 DEF Consistent
  <2>3. CASE Connect(c)
    <3>1. mem'[c] = [mem[c] EXCEPT !.phase = "connected", !.bridged = TRUE]
      BY <1>0, <2>3 DEF Connect
    <3>2. SameDial(c) /\ mem'[c].phase = "connected"
      BY <1>0, <1>1, <3>1 DEF StateType, SameDial
    <3> QED
      BY <1>5, <2>1, <2>2, <3>2
  <2>4. CASE mem' = [mem EXCEPT ![c].phase = "whisper"]
    BY <1>5, <1>8, <2>1, <2>2, <2>4 DEF Phases
  <2> QED
    BY <1>6, <2>1, <2>3, <2>4
<1>13. ASSUME NEW i \in Legs, BuyerUnavailable(c, i)
       PROVE  UseStays(c)
  <2>1. /\ pc[c] = "idle" /\ db[c].phase # "ended" /\ ~db[c].bridged /\ pc'[c] = "retry"
        /\ taken'[c] = Reservation(c) /\ mem' = mem
    BY <1>0, <1>13 DEF BuyerUnavailable, Ready, HangupMatters
  <2> QED
    BY <1>7, <2>1 DEF Consistent
<1>14. CASE CallerLeaves(c)
  <2>1. /\ pc[c] = "idle" /\ db[c].phase # "ended" /\ pc'[c] = "end"
        /\ taken'[c] = Reservation(c) /\ mem' = mem
    BY <1>0, <1>14 DEF CallerLeaves, Ready, HangupMatters
  <2> QED
    BY <1>7, <2>1 DEF Consistent
<1>15. ASSUME NEW type \in {"speak", "gather"},
              IvrGoto(c, type) \/ IvrRoute(c, type) \/ IvrHangup(c, type)
       PROVE  UseStays(c)
  <2>1. pc[c] = "idle" /\ db[c].phase = "ivr" /\ taken' = taken /\ pc'[c] \in {"idle", "next"}
    BY <1>0, <1>15 DEF IvrGoto, IvrRoute, IvrHangup, IvrEvent, Ready
  <2>2. mem[c].phase = "ivr" /\ mem[c].out = 0
    BY <2>1 DEF Consistent
  <2>3. CASE IvrGoto(c, type)
    BY <1>6, <2>3 DEF IvrGoto
  <2>4. CASE IvrRoute(c, type)
    <3>1. PICK some \in SUBSET db[c].open : mem' = [mem EXCEPT ![c].phase = "dialing", ![c].open = some]
      BY <2>4 DEF IvrRoute
    <3>2. mem'[c] = [mem[c] EXCEPT !.phase = "dialing", !.open = some]
      BY <1>0, <3>1
    <3>3. SameDial(c) /\ mem'[c].phase = "dialing"
      BY <1>0, <1>1, <3>2 DEF StateType, SameDial
    <3> QED
      BY <1>5, <2>1, <2>2, <3>3
  <2>5. CASE IvrHangup(c, type)
    <3>1. mem' = [mem EXCEPT ![c].phase = "closing"]
      BY <2>5 DEF IvrHangup
    <3> QED
      BY <1>5, <1>8, <2>1, <2>2, <3>1 DEF Phases
  <2> QED
    BY <1>15, <2>3, <2>4, <2>5
<1> QED
  BY <1>9, <1>10, <1>11, <1>12, <1>13, <1>14, <1>15 DEF Event

LEMMA StepUses ==
  ASSUME TypeOK, HandlersConsistent, HandlersConsistent', AllTold, NEW c \in Calls, Step(c)
  PROVE  UseStays(c) \/ UseGrows(c) \/ UseShrinks(c)
BY SetupUses, HandlerUses, EventUses DEF Step, HandlersConsistent, AllTold, Told

LEMMA SpentTyped ==
  ASSUME TypeOK, NEW c \in Calls
  PROVE  Spent(c) \subseteq Scopes /\ SpentIn(c) \in Periods
BY ScopesOfTyped, ConstantsAssumption DEF Spent, SpentIn, TypeOK, StateType

LEMMA UsersFinite ==
  ASSUME NEW s, NEW p
  PROVE  IsFiniteSet(Users(s, p)) /\ Cardinality(Users(s, p)) \in Nat
<1>1. Users(s, p) \in SUBSET Calls
  BY DEF Users
<1> QED
  BY <1>1, ConstantsAssumption, FS_Subset, FS_CardinalityType

LEMMA UntouchedSpent ==
  ASSUME NEW d \in Calls, Untouched(d)
  PROVE  Spent(d)' = Spent(d) /\ SpentIn(d)' = SpentIn(d)
BY DEF Untouched, Spent, SpentIn, InDial, Unwinding, Ringing, ScopesOf, ScopesAt, ScopeSeq, Cands

LEMMA NextPeriodsExact ==
  ASSUME TypeOK, HandlersConsistent, HandlersConsistent', AllTold, PeriodsExact, [Next]_vars
  PROVE  PeriodsExact'
<1> USE DEF counters, carrier, records
<1>1. ASSUME \A s \in Buyers : used'[s] = used[s],
             \A s \in Buyers, p \in Periods : Users(s, p)' = Users(s, p)
      PROVE  PeriodsExact'
  BY <1>1 DEF PeriodsExact, Buyers
<1>2. CASE Tick \/ UNCHANGED vars
  <2>1. used' = used /\ \A d \in Calls : Untouched(d)
    BY <1>2 DEF Tick, vars, Untouched
  <2>2. \A s \in Buyers, p \in Periods : Users(s, p)' = Users(s, p)
    BY <2>1, UntouchedSpent DEF Users
  <2> QED
    BY <1>1, <2>1, <2>2
<1>3. ASSUME NEW c \in Calls, Step(c)
      PROVE  PeriodsExact'
  <2>0. /\ used \in [Scopes -> [Periods -> Nat]] /\ Spent(c) \subseteq Scopes /\ SpentIn(c) \in Periods
    BY SpentTyped DEF TypeOK
  <2>1. \A d \in Calls \ {c} : Spent(d)' = Spent(d) /\ SpentIn(d)' = SpentIn(d)
    BY <1>3, StepIsLocal, UntouchedSpent
  <2>2. CASE UseStays(c)
    <3>1. \A s \in Buyers, p \in Periods : Users(s, p)' = Users(s, p)
      BY <2>1, <2>2 DEF Users, UseStays
    <3> QED
      BY <1>1, <2>2, <3>1 DEF UseStays
  <2>3. CASE UseGrows(c)
    <3>1. PICK s \in Buyers \ Spent(c) :
             /\ used' = [used EXCEPT ![s][SpentIn(c)] = @ + 1]
             /\ Spent(c)' = Spent(c) \cup {s} /\ SpentIn(c)' = SpentIn(c)
      BY <2>3 DEF UseGrows
    <3>2. Users(s, SpentIn(c))' = Users(s, SpentIn(c)) \cup {c} /\ c \notin Users(s, SpentIn(c))
      BY <2>1, <3>1 DEF Users
    <3>3. \A t \in Buyers, p \in Periods : t # s \/ p # SpentIn(c) => Users(t, p)' = Users(t, p)
      BY <2>1, <3>1 DEF Users
    <3>4. Cardinality(Users(s, SpentIn(c)) \cup {c}) = Cardinality(Users(s, SpentIn(c))) + 1
      BY <3>2, UsersFinite, FS_AddElement
    <3>5. /\ used'[s][SpentIn(c)] = used[s][SpentIn(c)] + 1
          /\ \A t \in Buyers, p \in Periods : t # s \/ p # SpentIn(c) => used'[t][p] = used[t][p]
      BY <2>0, <3>1 DEF Buyers
    <3>6. ASSUME NEW t \in Buyers, NEW p \in Periods
          PROVE  used'[t][p] = Cardinality(Users(t, p)')
      <4>1. used[t][p] = Cardinality(Users(t, p))
        BY DEF PeriodsExact, Buyers
      <4>2. CASE t = s /\ p = SpentIn(c)
        <5>1. Users(t, p)' = Users(t, p) \cup {c}
          BY <2>1, <3>1, <4>2 DEF Users
        <5> QED
          BY <3>4, <3>5, <4>1, <4>2, <5>1
      <4>3. CASE t # s \/ p # SpentIn(c)
        BY <3>3, <3>5, <4>1, <4>3
      <4> QED
        BY <4>2, <4>3
    <3> QED
      BY <3>6 DEF PeriodsExact, Buyers
  <2>4. CASE UseShrinks(c)
    <3>1. PICK s \in Spent(c) :
             /\ used' = [used EXCEPT ![s][SpentIn(c)] = Less(@)]
             /\ Spent(c)' = Spent(c) \ {s} /\ SpentIn(c)' = SpentIn(c)
      BY <2>4 DEF UseShrinks
    <3>2. Users(s, SpentIn(c))' = Users(s, SpentIn(c)) \ {c} /\ c \in Users(s, SpentIn(c))
      BY <2>1, <3>1 DEF Users
    <3>3. \A t \in Buyers, p \in Periods : t # s \/ p # SpentIn(c) => Users(t, p)' = Users(t, p)
      BY <2>1, <3>1 DEF Users
    <3>4. Cardinality(Users(s, SpentIn(c)) \ {c}) = Cardinality(Users(s, SpentIn(c))) - 1
      BY <3>2, UsersFinite, FS_RemoveElement
    <3>5. \A t \in Buyers, p \in Periods : t # s \/ p # SpentIn(c) => used'[t][p] = used[t][p]
      BY <2>0, <3>1 DEF Buyers
    <3>6. ASSUME s \in Buyers
          PROVE  used'[s][SpentIn(c)] = used[s][SpentIn(c)] - 1
      <4>1. used[s][SpentIn(c)] > 0
        BY <2>0, <3>2, <3>6, UsersFinite, FS_EmptySet DEF PeriodsExact, Buyers
      <4> QED
        BY <2>0, <3>1, <4>1 DEF Less
    <3>7. ASSUME NEW t \in Buyers, NEW p \in Periods
          PROVE  used'[t][p] = Cardinality(Users(t, p)')
      <4>1. used[t][p] = Cardinality(Users(t, p))
        BY DEF PeriodsExact, Buyers
      <4>2. CASE t = s /\ p = SpentIn(c)
        <5>1. Users(t, p)' = Users(t, p) \ {c}
          BY <2>1, <3>1, <4>2 DEF Users
        <5> QED
          BY <3>4, <3>6, <4>1, <4>2, <5>1
      <4>3. CASE t # s \/ p # SpentIn(c)
        BY <3>3, <3>5, <4>1, <4>3
      <4> QED
        BY <4>2, <4>3
    <3> QED
      BY <3>7 DEF PeriodsExact, Buyers
  <2> QED
    BY <1>3, <2>2, <2>3, <2>4, StepUses
<1> QED
  BY <1>2, <1>3 DEF Next, Step

-----------------------------------------------------------------------------
(* The period's limit *)

WithinPeriodCap == \A s \in Scopes, p \in Periods : PeriodCap[s] # 0 => used[s][p] <= PeriodCap[s]

LEMMA StepWithinPeriodCap ==
  ASSUME TypeOK, WithinPeriodCap, NEW c \in Calls, Step(c)
  PROVE  WithinPeriodCap'
<1> USE DEF counters, carrier, records
<1>0. used \in [Scopes -> [Periods -> Nat]] /\ PeriodCap \in [Scopes -> Nat] /\ Account \in Scopes
  BY ConstantsAssumption DEF TypeOK
<1>1. ASSUME used' = used
      PROVE  WithinPeriodCap'
  BY <1>1 DEF WithinPeriodCap
<1>2. ASSUME NEW s \in Scopes, NEW p, used' = [used EXCEPT ![s][p] = Less(@)]
      PROVE  WithinPeriodCap'
  BY <1>0, <1>2 DEF WithinPeriodCap, Less
<1>3. ASSUME NEW s \in Scopes, NEW p, Room(s, p), CountIn(s, p)
      PROVE  WithinPeriodCap'
  BY <1>0, <1>3 DEF WithinPeriodCap, Room, CountIn
<1>4. CASE Setup(c)
  <2>1. used' = used \/ (Room(Account, period) /\ CountIn(Account, period))
    BY <1>4 DEF Setup, Reject, Admit, AnswerFails, Answer
  <2> QED
    BY <1>0, <1>1, <1>3, <2>1
<1>5. CASE Reserve(c)
  <2>1. PICK k \in DOMAIN ScopeSeq(c, mem[c].next) :
           LET s == ScopeSeq(c, mem[c].next)[k] IN
           used' = used \/ (Room(s, now[c]) /\ CountIn(s, now[c]))
    BY <1>5 DEF Reserve
  <2>2. ScopeSeq(c, mem[c].next)[k] \in Scopes
    BY ScopeTyped
  <2> QED
    BY <1>1, <1>3, <2>1, <2>2
<1>6. CASE Rollback(c)
  <2>1. \/ used' = used
        \/ \E k \in DOMAIN ScopeSeq(c, mem[c].next) : GiveBack(ScopeSeq(c, mem[c].next)[k], now[c])
    BY <1>6 DEF Rollback
  <2> QED
    BY <1>1, <1>2, <2>1, ScopeTyped DEF GiveBack
<1>7. CASE ReleaseAll(c)
  <2>1. \E k \in DOMAIN ScopeSeq(c, mem[c].route) : GiveBack(ScopeSeq(c, mem[c].route)[k], mem[c].at)
    BY <1>7 DEF ReleaseAll
  <2> QED
    BY <1>2, <2>1, ScopeTyped DEF GiveBack
<1>8. CASE Free(c) \/ FreeAccount(c)
  BY <1>1, <1>8 DEF Free, FreeAccount, FreeLine
<1>9. CASE NextCandidate(c) \/ Dial(c) \/ DialFails(c) \/ DialFallback(c) \/ SaveDial(c)
            \/ NobodyTakesIt(c) \/ Retry(c) \/ HangUpBuyer(c) \/ SaveEnd(c) \/ LeaveSoftphone(c)
            \/ Bill(c)
  BY <1>1, <1>9 DEF NextCandidate, Dial, DialFails, DialFallback, SaveDial, NobodyTakesIt, Retry,
     HangUpBuyer, SaveEnd, LeaveSoftphone, Bill
<1>10. CASE Event(c) \/ Phone(c)
  <2>1. used' = used
    BY <1>10 DEF Event, Phone, LegEnds, BuyerAnswers, Ignore, LockTimesOut, GreetingSpoken, ClosingSpoken,
       WhisperSpoken, Answered, BuyerLeaves, BuyerUnavailable, CallerLeaves, IvrGoto, IvrRoute, IvrHangup
  <2> QED
    BY <1>1, <2>1
<1> QED
  BY <1>4, <1>5, <1>6, <1>7, <1>8, <1>9, <1>10 DEF Step, Handler

\* Every call sold in a period under a scope is one of the period's users.
LEMMA SoldUse ==
  ASSUME TypeOK, HandlersConsistent, NEW s, NEW p
  PROVE  {c \in Calls : db[c].bridged /\ db[c].at = p /\ s \in ScopesOf(c, db[c])} \subseteq Users(s, p)
<1> SUFFICES ASSUME NEW c \in Calls, db[c].bridged
             PROVE  Spent(c) = ScopesOf(c, db[c]) /\ SpentIn(c) = db[c].at
  BY DEF Users
<1>1. Consistent(c) /\ pc[c] \in Positions
  BY DEF HandlersConsistent, TypeOK
<1>2. pc[c] \in {"idle", "end", "save", "account", "leave", "free"} /\ mem[c] = db[c]
  BY <1>1 DEF Consistent, InDial, NoState, Positions
<1> QED
  BY <1>2 DEF Spent, SpentIn, InDial, Unwinding

PeriodInv == TypeOK /\ HandlersConsistent /\ AllTold /\ PeriodsExact /\ WithinPeriodCap

LEMMA PeriodInvariance == Spec => []PeriodInv
<1>1. Init => PeriodInv
  <2> SUFFICES ASSUME Init
               PROVE  PeriodsExact /\ WithinPeriodCap
    BY InitTypeOK, InitConsistent, InitTold DEF PeriodInv
  <2>1. \A c \in Calls : Spent(c) = {}
    BY DEF Init, NoState, Spent, InDial, Unwinding, Ringing
  <2>2. \A s, p : Users(s, p) = {}
    BY <2>1 DEF Users
  <2>3. PeriodsExact
    BY <2>2, FS_EmptySet DEF Init, PeriodsExact
  <2>4. WithinPeriodCap
    BY ConstantsAssumption DEF Init, WithinPeriodCap
  <2> QED
    BY <2>3, <2>4
<1>2. PeriodInv /\ [Next]_vars => PeriodInv'
  <2> SUFFICES ASSUME PeriodInv, [Next]_vars
               PROVE  PeriodInv'
    OBVIOUS
  <2>1. TypeOK' /\ HandlersConsistent' /\ AllTold'
    BY NextTypeOK, NextConsistent, NextTold DEF PeriodInv
  <2>2. PeriodsExact'
    BY <2>1, NextPeriodsExact DEF PeriodInv
  <2>3. WithinPeriodCap'
    <3>1. ASSUME NEW c \in Calls, Step(c)
          PROVE  WithinPeriodCap'
      BY <3>1, StepWithinPeriodCap DEF PeriodInv
    <3>2. CASE Tick \/ UNCHANGED vars
      BY <3>2 DEF PeriodInv, WithinPeriodCap, Tick, vars, counters
    <3> QED
      BY <3>1, <3>2 DEF Next, Step
  <2> QED
    BY <2>1, <2>2, <2>3 DEF PeriodInv
<1> QED
  BY <1>1, <1>2, PTL DEF Spec

\* What a period's counter says is what the period's dials used, across midnight and
\* whatever is given back late; so never more is sold in a period than its cap allows.
THEOREM PeriodCapsRespected == Spec => []PeriodCapsKept
<1>1. PeriodInv => SoldWithinPeriodCap
  <2> SUFFICES ASSUME PeriodInv, NEW s \in Buyers, NEW p \in Periods, PeriodCap[s] # 0
               PROVE  Cardinality({c \in Calls : db[c].bridged /\ db[c].at = p /\ s \in ScopesOf(c, db[c])})
                        <= PeriodCap[s]
    BY DEF SoldWithinPeriodCap, Buyers
  <2> DEFINE sold == {c \in Calls : db[c].bridged /\ db[c].at = p /\ s \in ScopesOf(c, db[c])}
  <2>1. sold \subseteq Users(s, p)
    BY SoldUse DEF PeriodInv
  <2>2. Cardinality(sold) <= Cardinality(Users(s, p)) /\ Cardinality(sold) \in Nat
    BY <2>1, UsersFinite, FS_Subset, FS_CardinalityType
  <2>3. Cardinality(Users(s, p)) = used[s][p] /\ used[s][p] <= PeriodCap[s]
    BY DEF PeriodInv, PeriodsExact, WithinPeriodCap, Buyers
  <2>4. used[s][p] \in Nat /\ PeriodCap[s] \in Nat
    BY ConstantsAssumption DEF PeriodInv, TypeOK, Buyers
  <2> QED
    BY <2>2, <2>3, <2>4
<1>2. PeriodInv => PeriodCapsKept
  BY <1>1 DEF PeriodInv, PeriodCapsKept
<1> QED
  BY <1>2, PeriodInvariance, PTL
=============================================================================
