-------------------------- MODULE CallEngineProofs --------------------------
(***************************************************************************)
(* The counters of CallEngine are exact and its caps are respected, for    *)
(* every number of calls, scopes and caps.                                 *)
(***************************************************************************)
EXTENDS CallEngineTypes, FiniteSetTheorems

\* What a step of one call leaves alone: everything another call's state is read from.
Untouched(d) == /\ plan' = plan
                /\ pc'[d] = pc[d] /\ db'[d] = db[d] /\ mem'[d] = mem[d]
                /\ taken'[d] = taken[d] /\ now'[d] = now[d] /\ line'[d] = line[d]
                /\ leg'[d] = leg[d]

Step(c) == Setup(c) \/ Handler(c) \/ Event(c) \/ Phone(c)

LEMMA StepIsLocal ==
  ASSUME TypeOK, NEW c \in Calls, Step(c), NEW d \in Calls \ {c}
  PROVE  Untouched(d)
<1> USE DEF counters, carrier, records
<1>0. /\ pc \in [Calls -> Positions] /\ db \in [Calls -> StateType] /\ mem \in [Calls -> StateType]
      /\ taken \in [Calls -> SUBSET Scopes] /\ now \in [Calls -> Periods]
      /\ line \in [Calls -> BOOLEAN] /\ leg \in [Calls -> [Legs -> LegStates]]
  BY DEF TypeOK
<1>1. CASE Setup(c)
  BY <1>0, <1>1 DEF Setup, Reject, Admit, AnswerFails, Answer, NewCall, Untouched
<1>2. CASE Handler(c)
  <2>1. CASE NextCandidate(c) \/ Reserve(c) \/ Rollback(c)
    BY <1>0, <2>1 DEF NextCandidate, Reserve, Rollback, Untouched
  <2>2. CASE Dial(c) \/ DialFails(c) \/ DialFallback(c) \/ SaveDial(c) \/ NobodyTakesIt(c)
    BY <1>0, <2>2 DEF Dial, DialFails, DialFallback, SaveDial, NobodyTakesIt, Untouched
  <2>3. CASE ReleaseAll(c) \/ Retry(c) \/ Free(c) \/ Bill(c)
    BY <1>0, <2>3 DEF ReleaseAll, Retry, Free, Bill, Untouched
  <2>4. CASE HangUpBuyer(c) \/ SaveEnd(c) \/ FreeAccount(c) \/ LeaveSoftphone(c)
    BY <1>0, <2>4 DEF HangUpBuyer, SaveEnd, FreeAccount, LeaveSoftphone, HangUp, Untouched
  <2> QED
    BY <1>2, <2>1, <2>2, <2>3, <2>4 DEF Handler
<1>3. CASE Event(c)
  <2>1. ASSUME NEW i \in Legs,
               \/ GreetingSpoken(c, i) \/ ClosingSpoken(c, i)
               \/ \E type \in EventTypes : Ignore(c, i, type) \/ LockTimesOut(c, i, type)
        PROVE  Untouched(d)
    BY <1>0, <2>1 DEF GreetingSpoken, ClosingSpoken, Ignore, LockTimesOut, HangUp, Untouched
  <2>2. ASSUME NEW i \in Legs, WhisperSpoken(c, i) \/ Answered(c, i)
        PROVE  Untouched(d)
    BY <1>0, <2>2 DEF WhisperSpoken, Answered, Connect, BridgeFails, Untouched
  <2>3. ASSUME NEW i \in Legs, BuyerLeaves(c, i) \/ BuyerUnavailable(c, i)
        PROVE  Untouched(d)
    BY <1>0, <2>3 DEF BuyerLeaves, BuyerUnavailable, HangUp, Untouched
  <2>4. ASSUME NEW type \in {"speak", "gather"},
               IvrGoto(c, type) \/ IvrRoute(c, type) \/ IvrHangup(c, type)
        PROVE  Untouched(d)
    BY <1>0, <2>4 DEF IvrGoto, IvrRoute, IvrHangup, HangUp, Untouched
  <2>5. CASE CallerLeaves(c)
    BY <1>0, <2>5 DEF CallerLeaves, Untouched
  <2> QED
    BY <1>3, <2>1, <2>2, <2>3, <2>4, <2>5 DEF Event
<1>4. CASE Phone(c)
  BY <1>0, <1>4 DEF Phone, LegEnds, BuyerAnswers, Untouched
<1> QED
  BY <1>1, <1>2, <1>3, <1>4 DEF Step

-----------------------------------------------------------------------------
(* HandlersConsistent *)

LEMMA InitConsistent == Init => HandlersConsistent
BY DEF Init, HandlersConsistent, Consistent, NoState, InDial

LEMMA UntouchedConsistent ==
  ASSUME NEW d \in Calls, Consistent(d), Untouched(d)
  PROVE  Consistent(d)'
<1>1. Remaining(d)' = Remaining(d)
  BY DEF Untouched, Remaining, Cands
<1>2. ScopesOf(d, mem[d])' = ScopesOf(d, mem[d])
  BY DEF Untouched, ScopesOf, ScopesAt, ScopeSeq, Cands
<1>3. InDial(d)' <=> InDial(d)
  BY DEF Untouched, InDial
<1> QED
  BY <1>1, <1>2, <1>3, SMTT(30) DEF Consistent, Untouched

LEMMA SetupConsistent ==
  ASSUME TypeOK, NEW c \in Calls, Consistent(c), Setup(c)
  PROVE  Consistent(c)'
<1> USE DEF counters, carrier, records
<1>0. /\ pc \in [Calls -> Positions] /\ db \in [Calls -> StateType] /\ mem \in [Calls -> StateType]
      /\ taken \in [Calls -> SUBSET Scopes] /\ line \in [Calls -> BOOLEAN]
  BY DEF TypeOK
<1>1. CASE Reject(c)
  BY <1>0, <1>1 DEF Reject, NewCall, Consistent, NoState, InDial
<1>2. CASE Admit(c)
  BY <1>0, <1>2 DEF Admit, NewCall, Consistent, NoState, InDial
<1>3. CASE AnswerFails(c)
  <2>1. /\ pc[c] = "setup" /\ pc'[c] = "idle" /\ db'[c] = db[c] /\ mem'[c] = mem[c]
        /\ taken'[c] = taken[c] /\ line'[c] = line[c]
    BY <1>0, <1>3 DEF AnswerFails
  <2>2. mem[c] = NoState /\ db[c] = NoState /\ taken[c] = {} /\ (Cap[Account] # 0 => line[c])
    BY <2>1 DEF Consistent
  <2> QED
    BY <2>1, <2>2 DEF Consistent, NoState, InDial
<1>4. CASE Answer(c)
  <2>1. mem[c] = NoState /\ db[c] = NoState /\ taken[c] = {} /\ (Cap[Account] # 0 => line[c])
    BY <1>4 DEF Answer, Consistent
  <2>2. PICK ph \in {"greeting", "ivr", "dialing"} :
           /\ mem'[c] = [FreshState(c) EXCEPT !.phase = ph]
           /\ IF ph = "dialing" THEN pc'[c] = "next" /\ db'[c] = db[c]
              ELSE pc'[c] = "idle" /\ db'[c] = mem'[c]
    BY <1>0, <1>4 DEF Answer
  <2>3. /\ mem'[c].phase = ph /\ mem'[c].out = 0 /\ mem'[c].fb = FALSE /\ mem'[c].bridged = FALSE
        /\ db[c].phase = "none" /\ db[c].bridged = FALSE
    BY <2>1, <2>2 DEF FreshState, NoState
  <2>4. taken'[c] = taken[c] /\ line'[c] = line[c]
    BY <1>4 DEF Answer
  <2> QED
    BY <2>1, <2>2, <2>3, <2>4 DEF Consistent, InDial
<1> QED
  BY <1>1, <1>2, <1>3, <1>4 DEF Setup

LEMMA HandlerConsistent ==
  ASSUME TypeOK, NEW c \in Calls, Consistent(c), Handler(c)
  PROVE  Consistent(c)'
<1> USE DEF counters, carrier, records
<1>0. /\ pc \in [Calls -> Positions] /\ db \in [Calls -> StateType] /\ mem \in [Calls -> StateType]
      /\ taken \in [Calls -> SUBSET Scopes] /\ line \in [Calls -> BOOLEAN]
      /\ leg \in [Calls -> [Legs -> LegStates]]
  BY DEF TypeOK
<1>a. mem[c] \in StateType /\ db[c] \in StateType
  BY <1>0
<1>1. CASE NextCandidate(c)
  <2>1. PICK i \in Remaining(c) : mem' = [mem EXCEPT ![c].next = i]
    BY <1>1 DEF NextCandidate
  <2>2. i # 0 /\ mem'[c] = [mem[c] EXCEPT !.next = i]
    BY <1>0, <2>1, RemainingTyped
  <2>3. /\ mem'[c].next = i /\ mem'[c].phase = mem[c].phase /\ mem'[c].out = mem[c].out
        /\ mem'[c].fb = mem[c].fb /\ mem'[c].bridged = mem[c].bridged
    BY <1>a, <2>2 DEF StateType
  <2>4. /\ pc[c] = "next" /\ pc'[c] = "reserve" /\ db'[c] = db[c] /\ taken'[c] = taken[c]
        /\ line'[c] = line[c]
    BY <1>0, <1>1 DEF NextCandidate
  <2> QED
    BY <2>1, <2>2, <2>3, <2>4 DEF Consistent, InDial
<1>2. CASE Reserve(c)
  <2>1. /\ pc[c] = "reserve" /\ pc'[c] \in {"reserve", "rollback"} /\ mem' = mem /\ db' = db
        /\ line' = line /\ leg' = leg /\ plan' = plan
    BY <1>0, <1>2 DEF Reserve
  <2>2. Remaining(c)' = Remaining(c)
    BY <2>1 DEF Remaining, Cands
  <2> QED
    BY <2>1, <2>2 DEF Consistent, InDial
<1>3. CASE Rollback(c)
  <2>1. /\ pc[c] = "rollback" /\ mem' = mem /\ db' = db /\ line' = line /\ leg' = leg /\ plan' = plan
        /\ pc'[c] = "rollback" \/ (pc'[c] = "next" /\ taken[c] = {} /\ taken' = taken)
    BY <1>0, <1>3 DEF Rollback
  <2>2. Remaining(c)' = Remaining(c)
    BY <2>1 DEF Remaining, Cands
  <2> QED
    BY <2>1, <2>2 DEF Consistent, InDial
<1>4. CASE Dial(c)
  <2>1. mem'[c] = [mem[c] EXCEPT !.out = mem[c].next, !.route = mem[c].next,
                                 !.agent = AgentAt(c, mem[c].next), !.at = now[c]]
    BY <1>0, <1>4 DEF Dial
  <2>2. /\ mem'[c].out = mem[c].next /\ mem'[c].route = mem[c].next
        /\ mem'[c].phase = mem[c].phase /\ mem'[c].fb = mem[c].fb /\ mem'[c].bridged = mem[c].bridged
    BY <1>a, <2>1 DEF StateType
  <2>3. /\ pc[c] = "reserve" /\ pc'[c] = "dialed" /\ db' = db /\ line' = line /\ plan' = plan
        /\ taken' = taken /\ taken[c] = ScopesAt(c, mem[c].next)
    BY <1>0, <1>4 DEF Dial
  <2>4. mem[c].next # 0 /\ ~mem[c].fb
    BY <2>3 DEF Consistent
  <2>5. taken'[c] = ScopesOf(c, mem[c])'
    BY <2>2, <2>3, <2>4 DEF ScopesOf, ScopesAt, ScopeSeq, Cands
  <2> QED
    BY <2>2, <2>3, <2>4, <2>5 DEF Consistent, InDial
<1>5. CASE DialFails(c)
  <2>1. /\ pc[c] = "reserve" /\ pc'[c] = "rollback" /\ db' = db /\ mem' = mem /\ line' = line
    BY <1>0, <1>5 DEF DialFails
  <2> QED
    BY <2>1 DEF Consistent, InDial
<1>6. CASE DialFallback(c)
  <2>1. mem'[c] = [mem[c] EXCEPT !.fb = TRUE, !.route = 0, !.out = Fallback]
    BY <1>0, <1>6 DEF DialFallback
  <2>2. /\ mem'[c].out = Fallback /\ mem'[c].route = 0 /\ mem'[c].fb = TRUE
        /\ mem'[c].phase = mem[c].phase /\ mem'[c].bridged = mem[c].bridged
        /\ mem'[c].next = mem[c].next /\ mem'[c].open = mem[c].open
    BY <1>a, <2>1 DEF StateType
  <2>3. /\ pc[c] = "next" /\ pc'[c] = "dialed" /\ db' = db /\ line' = line /\ plan' = plan
        /\ taken' = taken /\ Remaining(c) = {}
    BY <1>0, <1>6 DEF DialFallback, NoneLeft
  <2>4. Remaining(c)' = {}
    BY <2>2, <2>3 DEF Remaining, Cands
  <2>5. Fallback # 0
    BY ConstantsAssumption DEF Fallback
  <2>6. ScopesOf(c, mem[c])' = {}
    BY <2>2 DEF ScopesOf
  <2> QED
    BY <2>2, <2>3, <2>4, <2>5, <2>6 DEF Consistent, InDial
<1>7. CASE SaveDial(c)
  <2>1. /\ pc[c] = "dialed" /\ pc'[c] = "idle" /\ db'[c] = mem[c] /\ mem' = mem /\ line' = line
        /\ plan' = plan /\ taken'[c] = {}
    BY <1>0, <1>7 DEF SaveDial
  <2>2. Remaining(c)' = Remaining(c)
    BY <2>1 DEF Remaining, Cands
  <2> QED
    BY <2>1, <2>2 DEF Consistent, InDial
<1>8. CASE NobodyTakesIt(c)
  <2>1. \/ ~TryFallback(c) /\ mem'[c] = [mem[c] EXCEPT !.phase = "closing", !.out = 0]
        \/ mem'[c] = [[mem[c] EXCEPT !.phase = "closing", !.out = 0] EXCEPT !.fb = TRUE, !.route = 0]
    BY <1>0, <1>8 DEF NobodyTakesIt
  <2>2. /\ mem'[c].out = 0 /\ mem'[c].phase = "closing" /\ mem'[c].bridged = mem[c].bridged
        /\ mem'[c].next = mem[c].next /\ mem'[c].open = mem[c].open
    BY <1>a, <2>1 DEF StateType
  <2>3. /\ pc[c] = "next" /\ pc'[c] = "idle" /\ db'[c] = mem'[c] /\ line' = line /\ plan' = plan
        /\ taken' = taken /\ Remaining(c) = {}
    BY <1>0, <1>8 DEF NobodyTakesIt, NoneLeft
  <2>4. Remaining(c)' = {}
    BY <2>2, <2>3 DEF Remaining, Cands
  <2> QED
    BY <2>2, <2>3, <2>4 DEF Consistent, InDial
<1>9. CASE ReleaseAll(c)
  <2>1. /\ pc[c] \in {"retry", "end"} /\ pc' = pc /\ mem' = mem /\ db' = db /\ line' = line
        /\ leg' = leg /\ plan' = plan /\ taken[c] # {}
    BY <1>0, <1>9 DEF ReleaseAll, FirstInside
  <2>2. Remaining(c)' = Remaining(c)
    BY <2>1 DEF Remaining, Cands
  <2> QED
    BY <2>1, <2>2 DEF Consistent, InDial
<1>10. CASE Retry(c)
  <2>1. mem'[c] = [mem[c] EXCEPT !.out = 0, !.phase = "dialing"]
    BY <1>0, <1>10 DEF Retry
  <2>2. /\ mem'[c].out = 0 /\ mem'[c].phase = "dialing" /\ mem'[c].bridged = mem[c].bridged
        /\ mem'[c].fb = mem[c].fb /\ mem'[c].next = mem[c].next /\ mem'[c].open = mem[c].open
    BY <1>a, <2>1 DEF StateType
  <2>3. /\ pc[c] = "retry" /\ pc'[c] = "next" /\ db' = db /\ line' = line /\ plan' = plan
        /\ taken' = taken /\ taken[c] = {}
    BY <1>0, <1>10 DEF Retry
  <2>4. Remaining(c)' = Remaining(c)
    BY <2>2, <2>3 DEF Remaining, Cands
  <2>5. ~mem[c].bridged /\ db[c] = mem[c] /\ db[c].phase # "ended"
    BY <2>3 DEF Consistent
  <2> QED
    BY <2>2, <2>3, <2>4, <2>5 DEF Consistent, InDial
<1>11. CASE SaveEnd(c)
  <2>1. mem'[c] = [mem[c] EXCEPT !.phase = "ended"]
    BY <1>0, <1>11 DEF SaveEnd
  <2>2. /\ mem'[c].phase = "ended" /\ mem'[c].bridged = mem[c].bridged /\ mem'[c].out = mem[c].out
        /\ mem'[c].fb = mem[c].fb /\ mem'[c].next = mem[c].next /\ mem'[c].open = mem[c].open
    BY <1>a, <2>1 DEF StateType
  <2>3. /\ pc[c] = "save" /\ pc'[c] = "account" /\ db'[c] = mem'[c] /\ line' = line /\ plan' = plan
        /\ taken' = taken /\ leg' = leg
    BY <1>0, <1>11 DEF SaveEnd
  <2>4. Remaining(c)' = Remaining(c)
    BY <2>2, <2>3 DEF Remaining, Cands
  <2> QED
    BY <2>2, <2>3, <2>4 DEF Consistent, InDial
<1>12. CASE Free(c)
  <2>1. /\ pc[c] = "free" /\ pc' = pc /\ mem' = mem /\ db' = db /\ line' = line
        /\ leg' = leg /\ plan' = plan
    BY <1>0, <1>12 DEF Free
  <2>2. Remaining(c)' = Remaining(c)
    BY <2>1 DEF Remaining, Cands
  <2> QED
    BY <2>1, <2>2 DEF Consistent, InDial
<1>13. CASE Bill(c)
  <2>1. /\ pc[c] = "free" /\ pc'[c] = "idle" /\ mem' = mem /\ db' = db /\ line' = line
        /\ leg' = leg /\ plan' = plan /\ taken' = taken /\ taken[c] = {}
    BY <1>0, <1>13 DEF Bill
  <2>2. Remaining(c)' = Remaining(c)
    BY <2>1 DEF Remaining, Cands
  <2> QED
    BY <2>1, <2>2 DEF Consistent, InDial
<1>14. CASE HangUpBuyer(c)
  <2>1. /\ pc[c] = "end" /\ pc'[c] = "save" /\ mem' = mem /\ db' = db /\ line' = line
        /\ plan' = plan /\ taken' = taken /\ taken[c] = {}
    BY <1>0, <1>14 DEF HangUpBuyer
  <2>2. Remaining(c)' = Remaining(c)
    BY <2>1 DEF Remaining, Cands
  <2>3. mem[c].out # 0 => leg'[c][mem[c].out] \notin Live
    BY <1>0, <1>a, <1>14 DEF HangUpBuyer, HangUp, Live, StateType
  <2> QED
    BY <2>1, <2>2, <2>3 DEF Consistent, InDial
<1>15. CASE FreeAccount(c)
  <2>1. /\ pc[c] = "account" /\ pc'[c] = "leave" /\ mem' = mem /\ db' = db /\ line' = line
        /\ leg' = leg /\ plan' = plan /\ taken' = taken
    BY <1>0, <1>15 DEF FreeAccount
  <2>2. Remaining(c)' = Remaining(c)
    BY <2>1 DEF Remaining, Cands
  <2> QED
    BY <2>1, <2>2 DEF Consistent, InDial
<1>16. CASE LeaveSoftphone(c)
  <2>1. /\ pc[c] = "leave" /\ pc'[c] = "free" /\ mem' = mem /\ db' = db /\ line' = line
        /\ leg' = leg /\ plan' = plan
    BY <1>0, <1>16 DEF LeaveSoftphone
  <2>2. Remaining(c)' = Remaining(c)
    BY <2>1 DEF Remaining, Cands
  <2> QED
    BY <2>1, <2>2 DEF Consistent, InDial
<1> QED
  BY <1>1, <1>2, <1>3, <1>4, <1>5, <1>6, <1>7, <1>8, <1>9, <1>10, <1>11, <1>12, <1>13, <1>14,
     <1>15, <1>16 DEF Handler

LEMMA EventConsistent ==
  ASSUME TypeOK, NEW c \in Calls, Consistent(c), Event(c)
  PROVE  Consistent(c)'
<1> USE DEF counters, carrier, records
<1>0. /\ pc \in [Calls -> Positions] /\ db \in [Calls -> StateType] /\ mem \in [Calls -> StateType]
      /\ taken \in [Calls -> SUBSET Scopes] /\ line \in [Calls -> BOOLEAN]
      /\ leg \in [Calls -> [Legs -> LegStates]]
  BY DEF TypeOK
<1>a. mem[c] \in StateType /\ db[c] \in StateType
  BY <1>0
\* A change of phase alone.
<1>b. ASSUME NEW ph \in Phases, mem' = [mem EXCEPT ![c].phase = ph]
      PROVE  /\ mem'[c] = [mem[c] EXCEPT !.phase = ph]
             /\ mem'[c].phase = ph /\ mem'[c].out = mem[c].out /\ mem'[c].bridged = mem[c].bridged
             /\ mem'[c].fb = mem[c].fb /\ mem'[c].next = mem[c].next /\ mem'[c].open = mem[c].open
  <2>1. mem'[c] = [mem[c] EXCEPT !.phase = ph]
    BY <1>0, <1>b
  <2> QED
    BY <1>a, <2>1 DEF StateType
\* What an action keeps that leaves the call's state alone.
<1>c. ASSUME pc' = pc, mem' = mem, db' = db, taken' = taken, line' = line, plan' = plan,
             \A i \in Legs : leg[c][i] \notin Live => leg'[c][i] \notin Live
      PROVE  Consistent(c)'
  <2>1. Remaining(c)' = Remaining(c) /\ ScopesOf(c, mem[c])' = ScopesOf(c, mem[c])
    BY <1>c DEF Remaining, Cands, ScopesOf, ScopesAt, ScopeSeq
  <2>2. mem[c].out \in Legs
    BY <1>a DEF StateType
  <2> QED
    BY <1>c, <2>1, <2>2 DEF Consistent, InDial
\* A hangup command raises no leg.
<1>d. ASSUME NEW j \in Legs, HangUp(c, j) \/ leg' = leg
      PROVE  \A i \in Legs : leg[c][i] \notin Live => leg'[c][i] \notin Live
  BY <1>0, <1>d DEF HangUp, Live
<1>e. 0 \in Legs
  BY LegsTyped
<1>1. ASSUME NEW i \in Legs, NEW type \in EventTypes, Ignore(c, i, type) \/ LockTimesOut(c, i, type)
      PROVE  Consistent(c)'
  BY <1>1, <1>c DEF Ignore, LockTimesOut
<1>2. ASSUME NEW i \in Legs, GreetingSpoken(c, i)
      PROVE  Consistent(c)'
  <2>1. /\ pc[c] = "idle" /\ db[c].phase = "greeting" /\ plan' = plan /\ taken' = taken /\ line' = line
    BY <1>2 DEF GreetingSpoken, Ready
  <2>2. /\ mem[c] = db[c] /\ taken[c] = {} /\ mem[c].phase = "greeting" /\ ~mem[c].fb
        /\ mem[c].out = 0 /\ ~mem[c].bridged /\ (Cap[Account] # 0 => line[c])
    BY <2>1 DEF Consistent
  <2>3. PICK ph \in {"ivr", "dialing"} :
           /\ mem' = [mem EXCEPT ![c].phase = ph]
           /\ \/ ph = "ivr" /\ db' = [db EXCEPT ![c].phase = ph] /\ pc' = pc
              \/ ph = "dialing" /\ db' = db /\ pc' = [pc EXCEPT ![c] = "next"]
    BY <1>2 DEF GreetingSpoken
  <2>4. ph \in Phases
    BY DEF Phases
  <2>5. db'[c] \in {db[c], mem'[c]} /\ (ph = "ivr" => pc'[c] = "idle" /\ db'[c] = mem'[c])
        /\ (ph = "dialing" => pc'[c] = "next" /\ db'[c] = db[c])
    BY <1>0, <1>b, <2>1, <2>2, <2>3, <2>4
  <2> QED
    BY <1>b, <2>1, <2>2, <2>3, <2>4, <2>5 DEF Consistent, InDial
<1>3. ASSUME NEW i \in Legs, ClosingSpoken(c, i)
      PROVE  Consistent(c)'
  BY <1>3, <1>c, <1>d, <1>e DEF ClosingSpoken
\* The bridge: only a call with a buyer's leg gets there.
<1>f. ASSUME pc[c] = "idle", db[c].out # 0, db[c].phase # "ended", Connect(c) \/ BridgeFails,
             pc' = pc, taken' = taken, line' = line, leg' = leg, plan' = plan
      PROVE  Consistent(c)'
  <2>1. CASE BridgeFails
    BY <1>c, <1>f, <2>1 DEF BridgeFails
  <2>2. CASE Connect(c)
    <3>1. mem'[c] = [mem[c] EXCEPT !.phase = "connected", !.bridged = TRUE] /\ db'[c] = mem'[c]
      BY <1>0, <2>2 DEF Connect
    <3>2. /\ mem'[c].phase = "connected" /\ mem'[c].bridged = TRUE /\ mem'[c].out = mem[c].out
          /\ mem'[c].fb = mem[c].fb /\ mem'[c].next = mem[c].next /\ mem'[c].open = mem[c].open
      BY <1>a, <3>1 DEF StateType
    <3>3. Remaining(c)' = Remaining(c)
      BY <1>f, <3>2 DEF Remaining, Cands
    <3> QED
      BY <1>f, <3>1, <3>2, <3>3 DEF Consistent, InDial
  <2> QED
    BY <1>f, <2>1, <2>2
<1>4. ASSUME NEW i \in Legs, WhisperSpoken(c, i)
      PROVE  Consistent(c)'
  BY <1>4, <1>f DEF WhisperSpoken, Ready, IsOutbound
<1>5. ASSUME NEW i \in Legs, Answered(c, i)
      PROVE  Consistent(c)'
  <2>1. /\ pc[c] = "idle" /\ db[c].out # 0 /\ ~db[c].bridged /\ db[c].phase # "ended"
        /\ pc' = pc /\ plan' = plan /\ taken' = taken /\ line' = line /\ leg' = leg
    BY <1>5 DEF Answered, AnswerMatters, IsOutbound, Ready
  <2>2. CASE Whispers(c)
    <3>1. mem' = [mem EXCEPT ![c].phase = "whisper"] /\ db' = [db EXCEPT ![c].phase = "whisper"]
      BY <1>5, <2>2 DEF Answered
    <3>2. mem[c] = db[c]
      BY <2>1 DEF Consistent
    <3>3. db'[c] = mem'[c]
      BY <1>0, <3>1, <3>2
    <3>4. /\ mem'[c].phase = "whisper" /\ mem'[c].out = mem[c].out /\ mem'[c].bridged = mem[c].bridged
          /\ mem'[c].fb = mem[c].fb /\ mem'[c].next = mem[c].next /\ mem'[c].open = mem[c].open
      BY <1>b, <3>1 DEF Phases
    <3>5. Remaining(c)' = Remaining(c)
      BY <2>1, <3>4 DEF Remaining, Cands
    <3> QED
      BY <2>1, <3>2, <3>3, <3>4, <3>5 DEF Consistent, InDial
  <2>3. CASE ~Whispers(c)
    BY <1>5, <1>f, <2>1, <2>3 DEF Answered
  <2> QED
    BY <2>2, <2>3
<1>6. ASSUME NEW i \in Legs, BuyerLeaves(c, i)
      PROVE  Consistent(c)'
  BY <1>6, <1>c, <1>d, <1>e DEF BuyerLeaves
\* A handler takes over what the call's state says.
<1>g. ASSUME pc[c] = "idle", db[c].phase \notin {"none", "ended"}, mem' = mem, db' = db,
             line' = line, leg' = leg, plan' = plan, taken'[c] = Reservation(c),
             \/ pc'[c] = "end"
             \/ pc'[c] = "retry" /\ db[c].out # 0 /\ ~db[c].bridged
      PROVE  Consistent(c)'
  <2>1. Remaining(c)' = Remaining(c)
    BY <1>g DEF Remaining, Cands
  <2>2. mem[c] = db[c] /\ (db[c].bridged => taken'[c] = {})
    BY <1>g DEF Consistent, Reservation
  <2> QED
    BY <1>g, <2>1, <2>2 DEF Consistent, InDial
<1>7. ASSUME NEW i \in Legs, BuyerUnavailable(c, i)
      PROVE  Consistent(c)'
  <2>1. pc'[c] = "retry" /\ taken'[c] = Reservation(c)
    BY <1>0, <1>7 DEF BuyerUnavailable
  <2> QED
    BY <1>7, <1>g, <2>1 DEF BuyerUnavailable, Ready, HangupMatters
<1>8. CASE CallerLeaves(c)
  <2>1. pc'[c] = "end" /\ taken'[c] = Reservation(c)
    BY <1>0, <1>8 DEF CallerLeaves
  <2> QED
    BY <1>8, <1>g, <2>1 DEF CallerLeaves, Ready, HangupMatters
<1>9. ASSUME NEW type \in {"speak", "gather"}, IvrGoto(c, type)
      PROVE  Consistent(c)'
  BY <1>9, <1>c DEF IvrGoto
<1>10. ASSUME NEW type \in {"speak", "gather"}, IvrRoute(c, type)
       PROVE  Consistent(c)'
  <2>1. /\ pc[c] = "idle" /\ db[c].phase = "ivr" /\ plan' = plan /\ taken' = taken /\ line' = line
        /\ db' = db /\ pc'[c] = "next"
    BY <1>0, <1>10 DEF IvrRoute, IvrEvent, Ready
  <2>2. /\ mem[c] = db[c] /\ taken[c] = {} /\ ~mem[c].fb /\ mem[c].out = 0 /\ ~mem[c].bridged
        /\ (Cap[Account] # 0 => line[c])
    BY <2>1 DEF Consistent
  <2>3. PICK some \in SUBSET db[c].open : mem' = [mem EXCEPT ![c].phase = "dialing", ![c].open = some]
    BY <1>10 DEF IvrRoute
  <2>4. mem'[c] = [mem[c] EXCEPT !.phase = "dialing", !.open = some]
    BY <1>0, <2>3
  <2>5. /\ mem'[c].phase = "dialing" /\ mem'[c].out = mem[c].out /\ mem'[c].bridged = mem[c].bridged
        /\ mem'[c].fb = mem[c].fb
    BY <1>a, <2>4 DEF StateType
  <2> QED
    BY <2>1, <2>2, <2>5 DEF Consistent, InDial
<1>11. ASSUME NEW type \in {"speak", "gather"}, IvrHangup(c, type)
       PROVE  Consistent(c)'
  <2>1. /\ pc[c] = "idle" /\ db[c].phase = "ivr" /\ plan' = plan /\ taken' = taken /\ line' = line
        /\ pc' = pc
    BY <1>11 DEF IvrHangup, IvrEvent, Ready
  <2>2. /\ mem[c] = db[c] /\ taken[c] = {} /\ ~mem[c].fb /\ mem[c].out = 0 /\ ~mem[c].bridged
        /\ (Cap[Account] # 0 => line[c])
    BY <2>1 DEF Consistent
  <2>3. mem' = [mem EXCEPT ![c].phase = "closing"] /\ db' = [db EXCEPT ![c].phase = "closing"]
    BY <1>11 DEF IvrHangup
  <2>4. db'[c] = mem'[c]
    BY <1>0, <2>2, <2>3
  <2> QED
    BY <1>b, <2>1, <2>2, <2>3, <2>4 DEF Consistent, InDial, Phases
<1> QED
  BY <1>1, <1>2, <1>3, <1>4, <1>5, <1>6, <1>7, <1>8, <1>9, <1>10, <1>11 DEF Event

LEMMA PhoneConsistent ==
  ASSUME TypeOK, NEW c \in Calls, Consistent(c), Phone(c)
  PROVE  Consistent(c)'
<1> USE DEF counters, carrier, records
<1>1. /\ pc' = pc /\ mem' = mem /\ db' = db /\ taken' = taken /\ line' = line /\ plan' = plan
  BY DEF Phone, LegEnds, BuyerAnswers
<1>2. \A i \in Legs : leg[c][i] \notin Live => leg'[c][i] \notin Live
  BY DEF Phone, LegEnds, BuyerAnswers, TypeOK, Live
<1>3. Remaining(c)' = Remaining(c) /\ ScopesOf(c, mem[c])' = ScopesOf(c, mem[c])
  BY <1>1 DEF Remaining, Cands, ScopesOf, ScopesAt, ScopeSeq
<1>4. mem[c].out \in Legs
  BY DEF TypeOK, StateType
<1> QED
  BY <1>1, <1>2, <1>3, <1>4 DEF Consistent, InDial

LEMMA NextConsistent ==
  ASSUME TypeOK, HandlersConsistent, [Next]_vars
  PROVE  HandlersConsistent'
<1>1. ASSUME NEW d \in Calls, UNCHANGED <<plan, pc, db, mem, taken, now, line, leg>>
      PROVE  Consistent(d)'
  BY <1>1, UntouchedConsistent DEF Untouched, HandlersConsistent
<1>2. CASE Tick \/ UNCHANGED vars
  BY <1>1, <1>2 DEF Tick, vars, counters, carrier, records, HandlersConsistent
<1>3. ASSUME NEW c \in Calls, Step(c), NEW d \in Calls
      PROVE  Consistent(d)'
  <2>1. CASE d = c
    BY <1>3, <2>1, SetupConsistent, HandlerConsistent, EventConsistent, PhoneConsistent
       DEF Step, HandlersConsistent
  <2>2. CASE d # c
    BY <1>3, <2>2, StepIsLocal, UntouchedConsistent DEF HandlersConsistent
  <2> QED
    BY <2>1, <2>2
<1> QED
  BY <1>2, <1>3 DEF Next, Step, HandlersConsistent

\* What a handler finds when it takes up a call is what the last one left.
THEOREM Handlers == Spec => []HandlersConsistent
<1>1. Init => TypeOK /\ HandlersConsistent
  BY InitTypeOK, InitConsistent
<1>2. TypeOK /\ HandlersConsistent /\ [Next]_vars => TypeOK' /\ HandlersConsistent'
  BY NextTypeOK, NextConsistent
<1> QED
  BY <1>1, <1>2, PTL DEF Spec

-----------------------------------------------------------------------------
(* CountersExact: what each step of a call does to a counter it does to    *)
(* the set of calls counted there.                                         *)

Keeps(c) == live' = live /\ Counted(c)' = Counted(c)

Takes(c) == \E s \in Scopes \ Counted(c) : /\ live' = [live EXCEPT ![s] = @ + 1]
                                           /\ Counted(c)' = Counted(c) \cup {s}

Gives(c) == \E s \in Counted(c) : /\ live' = [live EXCEPT ![s] = Less(@)]
                                  /\ Counted(c)' = Counted(c) \ {s}

LEMMA SetupCounts ==
  ASSUME TypeOK, NEW c \in Calls, Consistent(c), Setup(c)
  PROVE  Keeps(c) \/ Takes(c) \/ Gives(c)
<1> USE DEF counters, carrier, records
<1>0. /\ pc \in [Calls -> Positions] /\ mem \in [Calls -> StateType]
      /\ taken \in [Calls -> SUBSET Scopes] /\ line \in [Calls -> BOOLEAN]
  BY DEF TypeOK
<1>1. /\ mem[c].phase = "none" /\ mem[c].out = 0 /\ mem[c].bridged = FALSE /\ taken[c] = {}
      /\ pc[c] \in {"new", "setup"}
  BY DEF Setup, Reject, Admit, NewCall, AnswerFails, Answer, Consistent, NoState
<1>2. Counted(c) = IF line[c] THEN {Account} ELSE {}
  BY <1>1 DEF Counted, InDial, Unwinding, Ringing, Connected, HoldsLine
<1>3. ASSUME pc'[c] \in {"rejected", "setup", "idle", "next"}, taken' = taken,
             mem'[c].out = 0, mem'[c].bridged = FALSE, mem'[c].phase # "ended"
      PROVE  Counted(c)' = IF line'[c] THEN {Account} ELSE {}
  BY <1>1, <1>3 DEF Counted, InDial, Unwinding, Ringing, Connected, HoldsLine
<1>4. CASE Reject(c)
  <2>1. pc'[c] = "rejected" /\ mem' = mem /\ taken' = taken /\ line' = line /\ live' = live
    BY <1>0, <1>4 DEF Reject
  <2> QED
    BY <1>1, <1>2, <1>3, <2>1 DEF Keeps
<1>5. CASE Admit(c)
  <2>1. pc'[c] = "setup" /\ mem' = mem /\ taken' = taken /\ ~line[c]
    BY <1>0, <1>5 DEF Admit, NewCall, Consistent
  <2>2. Counted(c)' = IF line'[c] THEN {Account} ELSE {}
    BY <1>1, <1>3, <2>1
  <2>3. CASE Cap[Account] = 0
    BY <1>2, <1>5, <2>1, <2>2, <2>3 DEF Admit, Keeps
  <2>4. CASE Cap[Account] # 0
    <3>1. line'[c] = TRUE /\ live' = [live EXCEPT ![Account] = @ + 1]
      BY <1>0, <1>5, <2>4 DEF Admit, CountIn
    <3> QED
      BY <1>2, <2>1, <2>2, <3>1, ConstantsAssumption DEF Takes
  <2> QED
    BY <2>3, <2>4
<1>6. CASE AnswerFails(c)
  <2>1. pc'[c] = "idle" /\ mem' = mem /\ taken' = taken /\ line' = line /\ live' = live
    BY <1>0, <1>6 DEF AnswerFails
  <2> QED
    BY <1>1, <1>2, <1>3, <2>1 DEF Keeps
<1>7. CASE Answer(c)
  <2>1. taken' = taken /\ line' = line /\ live' = live
    BY <1>7 DEF Answer
  <2>2. PICK ph \in {"greeting", "ivr", "dialing"} :
           mem'[c] = [FreshState(c) EXCEPT !.phase = ph] /\ pc'[c] \in {"next", "idle"}
    BY <1>0, <1>7 DEF Answer
  <2>3. mem'[c].phase = ph /\ mem'[c].out = 0 /\ mem'[c].bridged = FALSE
    BY <2>2 DEF FreshState, NoState
  <2> QED
    BY <1>2, <1>3, <2>1, <2>2, <2>3 DEF Keeps
<1> QED
  BY <1>4, <1>5, <1>6, <1>7 DEF Setup

LEMMA HandlerCounts ==
  ASSUME TypeOK, NEW c \in Calls, Consistent(c), Handler(c)
  PROVE  Keeps(c) \/ Takes(c) \/ Gives(c)
<1> USE DEF counters, carrier, records
<1>0. /\ pc \in [Calls -> Positions] /\ mem \in [Calls -> StateType] /\ db \in [Calls -> StateType]
      /\ taken \in [Calls -> SUBSET Scopes] /\ line \in [Calls -> BOOLEAN]
  BY DEF TypeOK
<1>a. mem[c] \in StateType
  BY <1>0
<1> DEFINE Line == IF line[c] THEN {Account} ELSE {}
\* In a loop, the counted scopes are those in taken and the account's.
<1>b. InDial(c) \/ Unwinding(c) => Counted(c) = taken[c] \cup Line
  BY DEF Counted, InDial, Unwinding, HoldsLine, Consistent
<1>c. (InDial(c) \/ Unwinding(c))' /\ line' = line /\ mem'[c].phase # "ended"
        => Counted(c)' = taken'[c] \cup Line
  BY DEF Counted, HoldsLine
\* One scope more, or one less, in the loop.
<1>d. ASSUME NEW s \in Scopes \ {Account}, s \notin taken[c], taken'[c] = taken[c] \cup {s},
             live' = [live EXCEPT ![s] = @ + 1],
             Counted(c) = taken[c] \cup Line, Counted(c)' = taken'[c] \cup Line
      PROVE  Takes(c)
  BY <1>d DEF Takes
<1>e. ASSUME NEW s \in Scopes \ {Account}, s \in taken[c], taken'[c] = taken[c] \ {s},
             live' = [live EXCEPT ![s] = Less(@)],
             Counted(c) = taken[c] \cup Line, Counted(c)' = taken'[c] \cup Line
      PROVE  Gives(c)
  BY <1>e DEF Gives
<1>1. CASE NextCandidate(c)
  <2>1. PICK i \in Remaining(c) : mem'[c] = [mem[c] EXCEPT !.next = i]
    BY <1>0, <1>1 DEF NextCandidate
  <2>2. mem'[c].phase = mem[c].phase
    BY <1>a, <2>1 DEF StateType
  <2>3. pc[c] = "next" /\ pc'[c] = "reserve" /\ taken' = taken /\ line' = line /\ live' = live
    BY <1>0, <1>1 DEF NextCandidate
  <2> QED
    BY <1>b, <1>c, <2>2, <2>3 DEF Keeps, InDial, Consistent
<1>2. CASE Reserve(c)
  <2>1. pc[c] = "reserve" /\ pc'[c] \in {"reserve", "rollback"} /\ mem' = mem /\ line' = line
    BY <1>0, <1>2 DEF Reserve
  <2>2. Counted(c) = taken[c] \cup Line /\ Counted(c)' = taken'[c] \cup Line
    BY <1>b, <1>c, <2>1 DEF InDial, Consistent
  <2>3. PICK k \in DOMAIN ScopeSeq(c, mem[c].next) :
           LET s == ScopeSeq(c, mem[c].next)[k] IN
           /\ s \notin taken[c]
           /\ IF Room(s, now[c])
              THEN CountIn(s, now[c]) /\ taken' = [taken EXCEPT ![c] = @ \cup {s}]
              ELSE UNCHANGED <<taken, live>>
    BY <1>2 DEF Reserve, FirstOutside
  <2>4. ScopeSeq(c, mem[c].next)[k] \in Scopes \ {Account}
    BY ScopeTyped
  <2>5. CASE Room(ScopeSeq(c, mem[c].next)[k], now[c])
    BY <1>0, <1>d, <2>2, <2>3, <2>4, <2>5 DEF CountIn
  <2>6. CASE ~Room(ScopeSeq(c, mem[c].next)[k], now[c])
    BY <2>2, <2>3, <2>6 DEF Keeps
  <2> QED
    BY <2>5, <2>6
<1>3. CASE Rollback(c)
  <2>1. pc[c] = "rollback" /\ pc'[c] \in {"next", "rollback"} /\ mem' = mem /\ line' = line
    BY <1>0, <1>3 DEF Rollback
  <2>2. Counted(c) = taken[c] \cup Line /\ Counted(c)' = taken'[c] \cup Line
    BY <1>b, <1>c, <2>1 DEF InDial, Consistent
  <2>3. CASE taken[c] = {}
    BY <1>3, <2>2, <2>3 DEF Rollback, Keeps
  <2>4. CASE taken[c] # {}
    <3>1. PICK k \in DOMAIN ScopeSeq(c, mem[c].next) :
             LET s == ScopeSeq(c, mem[c].next)[k] IN
             s \in taken[c] /\ GiveBack(s, now[c]) /\ taken' = [taken EXCEPT ![c] = @ \ {s}]
      BY <1>3, <2>4 DEF Rollback, FirstInside
    <3>2. ScopeSeq(c, mem[c].next)[k] \in Scopes \ {Account}
      BY ScopeTyped
    <3> QED
      BY <1>0, <1>e, <2>2, <3>1, <3>2 DEF GiveBack
  <2> QED
    BY <2>3, <2>4
<1>4. CASE Dial(c) \/ DialFails(c) \/ DialFallback(c)
  <2>1. /\ InDial(c) /\ pc'[c] \in {"dialed", "rollback"}
        /\ taken' = taken /\ line' = line /\ live' = live
    BY <1>0, <1>4 DEF Dial, DialFails, DialFallback, NoneLeft, InDial
  <2>2. \/ mem'[c] = mem[c]
        \/ mem'[c] = [mem[c] EXCEPT !.out = mem[c].next, !.route = mem[c].next,
                                    !.agent = AgentAt(c, mem[c].next), !.at = now[c]]
        \/ mem'[c] = [mem[c] EXCEPT !.fb = TRUE, !.route = 0, !.out = Fallback]
    BY <1>0, <1>4 DEF Dial, DialFails, DialFallback
  <2>3. mem'[c].phase = mem[c].phase
    BY <1>a, <2>2 DEF StateType
  <2> QED
    BY <1>b, <1>c, <2>1, <2>3 DEF Keeps, InDial, Consistent
<1>5. CASE SaveDial(c)
  <2>1. /\ pc[c] = "dialed" /\ pc'[c] = "idle" /\ mem' = mem /\ line' = line /\ live' = live
        /\ plan' = plan
    BY <1>0, <1>5 DEF SaveDial
  <2>2. taken[c] = ScopesOf(c, mem[c]) /\ mem[c].out # 0 /\ ~mem[c].bridged /\ mem[c].phase = "dialing"
    BY <2>1 DEF Consistent, InDial
  <2>3. Counted(c) = ScopesOf(c, mem[c]) \cup Line
    BY <1>b, <2>1, <2>2 DEF InDial
  <2>4. Counted(c)' = ScopesOf(c, mem[c])' \cup Line
    BY <2>1, <2>2 DEF Counted, InDial, Unwinding, Ringing, HoldsLine
  <2>5. ScopesOf(c, mem[c])' = ScopesOf(c, mem[c])
    BY <2>1 DEF ScopesOf, ScopesAt, ScopeSeq, Cands
  <2> QED
    BY <2>1, <2>3, <2>4, <2>5 DEF Keeps
<1>6. CASE NobodyTakesIt(c)
  <2>1. /\ pc[c] = "next" /\ pc'[c] = "idle" /\ taken' = taken /\ line' = line /\ live' = live
    BY <1>0, <1>6 DEF NobodyTakesIt, NoneLeft
  <2>2. \/ mem'[c] = [mem[c] EXCEPT !.phase = "closing", !.out = 0]
        \/ mem'[c] = [[mem[c] EXCEPT !.phase = "closing", !.out = 0] EXCEPT !.fb = TRUE, !.route = 0]
    BY <1>0, <1>6 DEF NobodyTakesIt
  <2>3. mem'[c].out = 0 /\ mem'[c].bridged = mem[c].bridged /\ mem'[c].phase = "closing"
    BY <1>a, <2>2 DEF StateType
  <2>4. taken[c] = {} /\ ~mem[c].bridged
    BY <2>1 DEF Consistent, InDial
  <2>5. Counted(c) = Line
    BY <1>b, <2>1, <2>4 DEF InDial
  <2>6. Counted(c)' = Line
    BY <2>1, <2>3, <2>4 DEF Counted, InDial, Unwinding, Ringing, Connected, HoldsLine
  <2> QED
    BY <2>1, <2>5, <2>6 DEF Keeps
<1>7. CASE ReleaseAll(c)
  <2>1. PICK k \in DOMAIN ScopeSeq(c, mem[c].route) :
           LET s == ScopeSeq(c, mem[c].route)[k] IN
           s \in taken[c] /\ GiveBack(s, mem[c].at) /\ taken' = [taken EXCEPT ![c] = @ \ {s}]
    BY <1>7 DEF ReleaseAll, FirstInside
  <2>2. ScopeSeq(c, mem[c].route)[k] \in Scopes \ {Account}
    BY ScopeTyped
  <2>3. pc[c] \in {"retry", "end"} /\ pc' = pc /\ mem' = mem /\ line' = line
    BY <1>7 DEF ReleaseAll
  <2>4. ~mem[c].bridged /\ mem[c].phase # "ended"
    BY <2>1, <2>3 DEF Consistent
  <2>5. Counted(c) = taken[c] \cup Line /\ Counted(c)' = taken'[c] \cup Line
    BY <1>b, <1>c, <2>3, <2>4 DEF Unwinding
  <2> QED
    BY <1>0, <1>e, <2>1, <2>2, <2>5 DEF GiveBack
<1>8. CASE Retry(c)
  <2>1. mem'[c] = [mem[c] EXCEPT !.out = 0, !.phase = "dialing"]
    BY <1>0, <1>8 DEF Retry
  <2>2. mem'[c].phase = "dialing"
    BY <1>a, <2>1 DEF StateType
  <2>3. pc[c] = "retry" /\ pc'[c] = "next" /\ taken' = taken /\ line' = line /\ live' = live
    BY <1>0, <1>8 DEF Retry
  <2>4. Unwinding(c) /\ InDial(c)'
    BY <2>3 DEF Unwinding, InDial, Consistent
  <2> QED
    BY <1>b, <1>c, <2>2, <2>3, <2>4 DEF Keeps
\* Until they are freed one by one, the lines of a connected call stay counted.
<1>f. ASSUME pc[c] \in {"end", "save", "account", "leave"}, taken[c] = {}
      PROVE  Counted(c) = LinesToFree(c) \cup (IF HoldsLine(c) THEN {Account} ELSE {})
  BY <1>f DEF Counted, InDial, Unwinding, Ringing, Connected, LinesToFree, Consistent
<1>9. CASE HangUpBuyer(c)
  <2>1. /\ pc[c] = "end" /\ pc'[c] = "save" /\ taken[c] = {} /\ taken' = taken /\ mem' = mem
        /\ line' = line /\ plan' = plan /\ live' = live
    BY <1>0, <1>9 DEF HangUpBuyer
  <2>2. ScopesOf(c, mem[c])' = ScopesOf(c, mem[c])
    BY <2>1 DEF ScopesOf, ScopesAt, ScopeSeq, Cands
  <2>3. mem[c].phase # "ended" /\ (mem[c].bridged => mem[c].out # 0)
    BY <2>1 DEF Consistent
  <2>4. Counted(c) = LinesToFree(c) \cup Line
    BY <1>f, <2>1, <2>3 DEF HoldsLine
  <2>5. Counted(c)' = LinesToFree(c) \cup Line
    BY <2>1, <2>2, <2>3 DEF Counted, InDial, Unwinding, Ringing, Connected, HoldsLine, LinesToFree
  <2> QED
    BY <2>1, <2>4, <2>5 DEF Keeps
<1>12. CASE SaveEnd(c)
  <2>1. mem'[c] = [mem[c] EXCEPT !.phase = "ended"]
    BY <1>0, <1>12 DEF SaveEnd
  <2>2. /\ mem'[c].phase = "ended" /\ mem'[c].out = mem[c].out /\ mem'[c].route = mem[c].route
        /\ mem'[c].fb = mem[c].fb /\ mem'[c].bridged = mem[c].bridged
    BY <1>a, <2>1 DEF StateType
  <2>3. /\ pc[c] = "save" /\ pc'[c] = "account" /\ taken' = taken
        /\ line' = line /\ plan' = plan /\ live' = live
    BY <1>0, <1>12 DEF SaveEnd
  <2>4. ScopesOf(c, mem[c])' = ScopesOf(c, mem[c])
    BY <2>2, <2>3 DEF ScopesOf, ScopesAt, ScopeSeq, Cands
  <2>5. taken[c] = {} /\ mem[c].phase # "ended" /\ (mem[c].bridged => mem[c].out # 0)
    BY <2>3 DEF Consistent
  <2>6. Counted(c) = LinesToFree(c) \cup Line
    BY <1>f, <2>3, <2>5 DEF HoldsLine
  <2>7. Counted(c)' = LinesToFree(c) \cup Line
    BY <2>2, <2>3, <2>4, <2>5 DEF Counted, InDial, Unwinding, Ringing, Connected, HoldsLine, LinesToFree
  <2> QED
    BY <2>3, <2>6, <2>7 DEF Keeps
<1>13. CASE FreeAccount(c)
  <2>1. /\ pc[c] = "account" /\ pc'[c] = "leave" /\ taken' = taken /\ mem' = mem
        /\ line' = line /\ plan' = plan
        /\ IF line[c] THEN live' = [live EXCEPT ![Account] = Less(@)] ELSE live' = live
    BY <1>0, <1>13 DEF FreeAccount, FreeLine
  <2>2. ScopesOf(c, mem[c])' = ScopesOf(c, mem[c])
    BY <2>1 DEF ScopesOf, ScopesAt, ScopeSeq, Cands
  <2>3. taken[c] = {} /\ mem[c].phase = "ended" /\ (mem[c].bridged => mem[c].out # 0)
    BY <2>1 DEF Consistent
  <2>4. Counted(c) = LinesToFree(c) \cup Line
    BY <1>f, <2>1, <2>3 DEF HoldsLine
  <2>5. Counted(c)' = LinesToFree(c)
    BY <2>1, <2>2, <2>3 DEF Counted, InDial, Unwinding, Ringing, Connected, HoldsLine, LinesToFree
  <2>6. Account \notin LinesToFree(c)
    BY ScopesOfTyped DEF LinesToFree
  <2> QED
    BY <2>1, <2>4, <2>5, <2>6 DEF Keeps, Gives
<1>14. CASE LeaveSoftphone(c)
  <2>1. /\ pc[c] = "leave" /\ pc'[c] = "free" /\ taken'[c] = LinesToFree(c) /\ mem' = mem
        /\ line' = line /\ live' = live
    BY <1>0, <1>14 DEF LeaveSoftphone
  <2>2. taken[c] = {} /\ mem[c].phase = "ended"
    BY <2>1 DEF Consistent
  <2>3. Counted(c) = LinesToFree(c)
    BY <1>f, <2>1, <2>2 DEF HoldsLine
  <2>4. Counted(c)' = LinesToFree(c)
    BY <2>1, <2>2 DEF Counted, HoldsLine
  <2> QED
    BY <2>1, <2>3, <2>4 DEF Keeps
<1>10. CASE Free(c)
  <2>1. PICK k \in DOMAIN ScopeSeq(c, mem[c].route) :
           LET s == ScopeSeq(c, mem[c].route)[k] IN
           s \in taken[c] /\ FreeLine(s) /\ taken' = [taken EXCEPT ![c] = @ \ {s}]
    BY <1>10 DEF Free, FirstInside
  <2>2. pc[c] = "free" /\ pc' = pc /\ mem' = mem
    BY <1>10 DEF Free
  <2>3. mem[c].phase = "ended"
    BY <2>2 DEF Consistent
  <2>4. Counted(c) = taken[c] /\ Counted(c)' = taken'[c]
    BY <2>2, <2>3 DEF Counted, HoldsLine
  <2> QED
    BY <1>0, <2>1, <2>4 DEF Gives, FreeLine
<1>11. CASE Bill(c)
  <2>1. /\ pc[c] = "free" /\ pc'[c] = "idle" /\ taken[c] = {} /\ taken' = taken /\ mem' = mem
        /\ live' = live
    BY <1>0, <1>11 DEF Bill
  <2>2. mem[c].phase = "ended"
    BY <2>1 DEF Consistent
  <2>3. Counted(c) = {} /\ Counted(c)' = {}
    BY <2>1, <2>2 DEF Counted, InDial, Unwinding, Ringing, Connected, HoldsLine
  <2> QED
    BY <2>1, <2>3 DEF Keeps
<1> QED
  BY <1>1, <1>2, <1>3, <1>4, <1>5, <1>6, <1>7, <1>8, <1>9, <1>10, <1>11, <1>12, <1>13, <1>14
     DEF Handler

LEMMA EventCounts ==
  ASSUME TypeOK, NEW c \in Calls, Consistent(c), Event(c) \/ Phone(c)
  PROVE  Keeps(c)
<1> USE DEF counters, carrier, records
<1>0. /\ pc \in [Calls -> Positions] /\ mem \in [Calls -> StateType] /\ db \in [Calls -> StateType]
      /\ taken \in [Calls -> SUBSET Scopes] /\ line \in [Calls -> BOOLEAN]
  BY DEF TypeOK
<1>a. mem[c] \in StateType
  BY <1>0
<1> DEFINE Line == IF line[c] THEN {Account} ELSE {}
<1>1. ASSUME pc' = pc, mem' = mem, taken' = taken, line' = line, live' = live, plan' = plan
      PROVE  Keeps(c)
  BY <1>1 DEF Keeps, Counted, InDial, Unwinding, Ringing, Connected, HoldsLine, ScopesOf, ScopesAt,
     ScopeSeq, Cands
\* Between events, a call without a buyer's leg is counted in the account's scope only.
<1>2. ASSUME pc[c] = "idle", mem[c].phase \in {"greeting", "ivr"}, mem[c].out = 0, ~mem[c].bridged,
             taken[c] = {}, taken' = taken, line' = line, live' = live,
             mem'[c].phase # "ended", mem'[c].out = mem[c].out, mem'[c].bridged = mem[c].bridged,
             pc'[c] \in {"idle", "next"}
      PROVE  Keeps(c)
  <2>1. Counted(c) = Line
    BY <1>2 DEF Counted, InDial, Unwinding, Ringing, Connected, HoldsLine
  <2>2. Counted(c)' = Line
    BY <1>2 DEF Counted, InDial, Unwinding, Ringing, Connected, HoldsLine
  <2> QED
    BY <1>2, <2>1, <2>2 DEF Keeps
\* A dialed call is counted in the same scopes when it is answered.
<1>3. ASSUME pc[c] = "idle", mem[c].phase # "ended", mem[c].out # 0,
             pc' = pc, taken' = taken, line' = line, live' = live, plan' = plan,
             mem'[c].phase # "ended", mem'[c].out = mem[c].out, mem'[c].route = mem[c].route,
             mem'[c].fb = mem[c].fb
      PROVE  Keeps(c)
  <2>1. Counted(c) = ScopesOf(c, mem[c]) \cup Line
    BY <1>3 DEF Counted, InDial, Unwinding, Ringing, Connected, HoldsLine
  <2>2. Counted(c)' = ScopesOf(c, mem[c])' \cup Line
    BY <1>0, <1>a, <1>3 DEF Counted, InDial, Unwinding, Ringing, Connected, HoldsLine
  <2>3. ScopesOf(c, mem[c])' = ScopesOf(c, mem[c])
    BY <1>3 DEF ScopesOf, ScopesAt, ScopeSeq, Cands
  <2> QED
    BY <1>3, <2>1, <2>2, <2>3 DEF Keeps
\* A handler that releases a dial begins with the scopes of that dial.
<1>4. ASSUME pc[c] = "idle", mem[c] = db[c], mem[c].phase # "ended", taken'[c] = Reservation(c),
             mem' = mem, line' = line, live' = live, plan' = plan,
             pc'[c] = "end" \/ (pc'[c] = "retry" /\ ~mem[c].bridged),
             mem[c].bridged => mem[c].out # 0
      PROVE  Keeps(c)
  <2>1. ScopesOf(c, mem[c])' = ScopesOf(c, mem[c])
    BY <1>4 DEF ScopesOf, ScopesAt, ScopeSeq, Cands
  <2>2. Counted(c) = (IF mem[c].out # 0 THEN ScopesOf(c, mem[c]) ELSE {}) \cup Line
    BY <1>4 DEF Counted, InDial, Unwinding, Ringing, Connected, HoldsLine
  <2>3. Counted(c)' = (IF mem[c].out # 0 THEN ScopesOf(c, mem[c]) ELSE {}) \cup Line
    BY <1>4, <2>1 DEF Counted, InDial, Unwinding, Ringing, Connected, HoldsLine, Reservation
  <2> QED
    BY <1>4, <2>2, <2>3 DEF Keeps
\* Changes of the state's phase.
<1>5. ASSUME NEW ph \in {"ivr", "dialing", "whisper", "closing"}, mem' = [mem EXCEPT ![c].phase = ph]
      PROVE  /\ mem'[c].phase = ph /\ mem'[c].out = mem[c].out /\ mem'[c].route = mem[c].route
             /\ mem'[c].fb = mem[c].fb /\ mem'[c].bridged = mem[c].bridged
  <2>1. mem'[c] = [mem[c] EXCEPT !.phase = ph]
    BY <1>0, <1>5
  <2> QED
    BY <1>a, <2>1 DEF StateType
<1>6. Connect(c) =>
        /\ mem'[c].phase = "connected" /\ mem'[c].out = mem[c].out /\ mem'[c].route = mem[c].route
        /\ mem'[c].fb = mem[c].fb
  <2>1. Connect(c) => mem'[c] = [mem[c] EXCEPT !.phase = "connected", !.bridged = TRUE]
    BY <1>0 DEF Connect
  <2> QED
    BY <1>a, <2>1 DEF StateType
<1>7. CASE Phone(c)
  BY <1>1, <1>7 DEF Phone, LegEnds, BuyerAnswers
<1>8. ASSUME NEW i \in Legs,
             \/ ClosingSpoken(c, i) \/ BuyerLeaves(c, i)
             \/ \E type \in EventTypes : Ignore(c, i, type) \/ LockTimesOut(c, i, type)
      PROVE  Keeps(c)
  BY <1>1, <1>8 DEF ClosingSpoken, BuyerLeaves, Ignore, LockTimesOut
<1>9. ASSUME NEW i \in Legs, GreetingSpoken(c, i)
      PROVE  Keeps(c)
  <2>1. /\ pc[c] = "idle" /\ db[c].phase = "greeting" /\ taken' = taken /\ line' = line /\ live' = live
        /\ pc'[c] \in {"idle", "next"}
    BY <1>0, <1>9 DEF GreetingSpoken, Ready
  <2>2. mem[c].phase = "greeting" /\ mem[c].out = 0 /\ ~mem[c].bridged /\ taken[c] = {}
    BY <2>1 DEF Consistent
  <2>3. PICK ph \in {"ivr", "dialing"} : mem' = [mem EXCEPT ![c].phase = ph]
    BY <1>9 DEF GreetingSpoken
  <2> QED
    BY <1>2, <1>5, <2>1, <2>2, <2>3
<1>10. ASSUME NEW i \in Legs, WhisperSpoken(c, i) \/ (Answered(c, i) /\ ~Whispers(c))
       PROVE  Keeps(c)
  <2>1. /\ pc[c] = "idle" /\ db[c].out # 0 /\ db[c].phase # "ended"
        /\ pc' = pc /\ taken' = taken /\ line' = line /\ live' = live /\ plan' = plan
        /\ Connect(c) \/ mem' = mem
    BY <1>10 DEF WhisperSpoken, Answered, AnswerMatters, IsOutbound, Ready, BridgeFails
  <2>2. mem[c] = db[c]
    BY <2>1 DEF Consistent
  <2>3. CASE Connect(c)
    BY <1>3, <1>6, <2>1, <2>2, <2>3
  <2> QED
    BY <1>1, <2>1, <2>3
<1>11. ASSUME NEW i \in Legs, Answered(c, i), Whispers(c)
       PROVE  Keeps(c)
  <2>1. /\ pc[c] = "idle" /\ db[c].out # 0 /\ db[c].phase # "ended"
        /\ pc' = pc /\ taken' = taken /\ line' = line /\ live' = live /\ plan' = plan
        /\ mem' = [mem EXCEPT ![c].phase = "whisper"]
    BY <1>11 DEF Answered, AnswerMatters, IsOutbound, Ready
  <2>2. mem[c] = db[c]
    BY <2>1 DEF Consistent
  <2> QED
    BY <1>3, <1>5, <2>1, <2>2
<1>12. ASSUME NEW i \in Legs, BuyerUnavailable(c, i)
       PROVE  Keeps(c)
  <2>1. /\ pc[c] = "idle" /\ db[c].phase # "ended" /\ ~db[c].bridged /\ pc'[c] = "retry"
        /\ taken'[c] = Reservation(c) /\ mem' = mem /\ line' = line /\ live' = live /\ plan' = plan
    BY <1>0, <1>12 DEF BuyerUnavailable, Ready, HangupMatters
  <2> QED
    BY <1>4, <2>1 DEF Consistent
<1>13. CASE CallerLeaves(c)
  <2>1. /\ pc[c] = "idle" /\ db[c].phase # "ended" /\ pc'[c] = "end"
        /\ taken'[c] = Reservation(c) /\ mem' = mem /\ line' = line /\ live' = live /\ plan' = plan
    BY <1>0, <1>13 DEF CallerLeaves, Ready, HangupMatters
  <2> QED
    BY <1>4, <2>1 DEF Consistent
<1>14. ASSUME NEW type \in {"speak", "gather"}, IvrGoto(c, type)
       PROVE  Keeps(c)
  BY <1>1, <1>14 DEF IvrGoto
<1>15. ASSUME NEW type \in {"speak", "gather"}, IvrRoute(c, type) \/ IvrHangup(c, type)
       PROVE  Keeps(c)
  <2>1. /\ pc[c] = "idle" /\ db[c].phase = "ivr" /\ taken' = taken /\ line' = line /\ live' = live
        /\ pc'[c] \in {"idle", "next"}
    BY <1>0, <1>15 DEF IvrRoute, IvrHangup, IvrEvent, Ready
  <2>2. mem[c].phase = "ivr" /\ mem[c].out = 0 /\ ~mem[c].bridged /\ taken[c] = {}
    BY <2>1 DEF Consistent
  <2>3. CASE IvrRoute(c, type)
    <3>1. PICK some \in SUBSET db[c].open : mem' = [mem EXCEPT ![c].phase = "dialing", ![c].open = some]
      BY <2>3 DEF IvrRoute
    <3>2. mem'[c] = [mem[c] EXCEPT !.phase = "dialing", !.open = some]
      BY <1>0, <3>1
    <3>3. mem'[c].phase = "dialing" /\ mem'[c].out = mem[c].out /\ mem'[c].bridged = mem[c].bridged
      BY <1>a, <3>2 DEF StateType
    <3> QED
      BY <1>2, <2>1, <2>2, <3>3
  <2>4. CASE IvrHangup(c, type)
    <3>1. mem' = [mem EXCEPT ![c].phase = "closing"]
      BY <2>4 DEF IvrHangup
    <3> QED
      BY <1>2, <1>5, <2>1, <2>2, <3>1
  <2> QED
    BY <1>15, <2>3, <2>4
<1>16. CASE Event(c)
  BY <1>8, <1>9, <1>10, <1>11, <1>12, <1>13, <1>14, <1>15, <1>16 DEF Event
<1> QED
  BY <1>7, <1>16

LEMMA StepCounts ==
  ASSUME TypeOK, HandlersConsistent, NEW c \in Calls, Step(c)
  PROVE  Keeps(c) \/ Takes(c) \/ Gives(c)
BY SetupCounts, HandlerCounts, EventCounts DEF Step, HandlersConsistent

LEMMA CountedTyped ==
  ASSUME TypeOK, NEW c \in Calls
  PROVE  Counted(c) \subseteq Scopes
BY ScopesOfTyped, ConstantsAssumption DEF Counted, TypeOK

LEMMA HoldersFinite ==
  ASSUME NEW s
  PROVE  IsFiniteSet(Holders(s)) /\ Cardinality(Holders(s)) \in Nat
<1>1. Holders(s) \in SUBSET Calls
  BY DEF Holders
<1> QED
  BY <1>1, ConstantsAssumption, FS_Subset, FS_CardinalityType

LEMMA UntouchedCounted ==
  ASSUME NEW d \in Calls, Untouched(d)
  PROVE  Counted(d)' = Counted(d)
BY DEF Untouched, Counted, InDial, Unwinding, Ringing, Connected, HoldsLine, ScopesOf, ScopesAt,
   ScopeSeq, Cands

LEMMA InitExact == Init => CountersExact
<1> SUFFICES ASSUME Init, NEW s \in Scopes
             PROVE  live[s] = Cardinality(Holders(s))
  BY DEF CountersExact
<1>1. \A c \in Calls : Counted(c) = {}
  BY DEF Init, NoState, Counted, InDial, Unwinding, Ringing, Connected, HoldsLine
<1>2. Holders(s) = {}
  BY <1>1 DEF Holders
<1> QED
  BY <1>2, FS_EmptySet DEF Init

LEMMA NextExact ==
  ASSUME TypeOK, HandlersConsistent, CountersExact, [Next]_vars
  PROVE  CountersExact'
<1> USE DEF counters, carrier, records
<1>1. ASSUME live' = live, \A d \in Calls : Counted(d)' = Counted(d)
      PROVE  CountersExact'
  <2>1. \A s \in Scopes : Holders(s)' = Holders(s)
    BY <1>1 DEF Holders
  <2> QED
    BY <1>1, <2>1 DEF CountersExact
<1>2. CASE Tick \/ UNCHANGED vars
  <2>1. live' = live /\ \A d \in Calls : Untouched(d)
    BY <1>2 DEF Tick, vars, Untouched
  <2> QED
    BY <1>1, <2>1, UntouchedCounted
<1>3. ASSUME NEW c \in Calls, Step(c)
      PROVE  CountersExact'
  <2>1. \A d \in Calls \ {c} : Counted(d)' = Counted(d)
    BY <1>3, StepIsLocal, UntouchedCounted
  <2>2. CASE Keeps(c)
    BY <1>1, <2>1, <2>2 DEF Keeps
  <2>3. CASE Takes(c)
    <3>1. PICK s \in Scopes \ Counted(c) :
             live' = [live EXCEPT ![s] = @ + 1] /\ Counted(c)' = Counted(c) \cup {s}
      BY <2>3 DEF Takes
    <3>2. Holders(s)' = Holders(s) \cup {c} /\ c \notin Holders(s)
      BY <2>1, <3>1 DEF Holders
    <3>3. \A t \in Scopes \ {s} : Holders(t)' = Holders(t)
      BY <2>1, <3>1 DEF Holders
    <3>4. Cardinality(Holders(s) \cup {c}) = Cardinality(Holders(s)) + 1
      BY <3>2, HoldersFinite, FS_AddElement
    <3>5. live'[s] = live[s] + 1 /\ \A t \in Scopes \ {s} : live'[t] = live[t]
      BY <3>1 DEF TypeOK
    <3> QED
      BY <3>2, <3>3, <3>4, <3>5 DEF CountersExact
  <2>4. CASE Gives(c)
    <3>1. PICK s \in Counted(c) :
             live' = [live EXCEPT ![s] = Less(@)] /\ Counted(c)' = Counted(c) \ {s}
      BY <2>4 DEF Gives
    <3>2. s \in Scopes
      BY CountedTyped
    <3>3. Holders(s)' = Holders(s) \ {c} /\ c \in Holders(s)
      BY <2>1, <3>1 DEF Holders
    <3>4. \A t \in Scopes \ {s} : Holders(t)' = Holders(t)
      BY <2>1, <3>1 DEF Holders
    <3>5. Cardinality(Holders(s) \ {c}) = Cardinality(Holders(s)) - 1
      BY <3>3, HoldersFinite, FS_RemoveElement
    <3>6. live[s] > 0
      BY <3>2, <3>3, HoldersFinite, FS_EmptySet DEF CountersExact
    <3>7. live'[s] = live[s] - 1 /\ \A t \in Scopes \ {s} : live'[t] = live[t]
      BY <3>1, <3>2, <3>6 DEF TypeOK, Less
    <3> QED
      BY <3>2, <3>3, <3>4, <3>5, <3>7 DEF CountersExact
  <2> QED
    BY <1>3, <2>2, <2>3, <2>4, StepCounts
<1> QED
  BY <1>2, <1>3 DEF Next, Step

\* The live counters are exact in every reachable state: no interleaving of handlers,
\* rollbacks, releases and repeated events makes caps.service.ts count a call twice, lose
\* a release or release twice.
THEOREM LiveCountersExact == Spec => []CountersExact
<1>1. Init => TypeOK /\ HandlersConsistent /\ CountersExact
  BY InitTypeOK, InitConsistent, InitExact
<1>2. TypeOK /\ HandlersConsistent /\ CountersExact /\ [Next]_vars
        => TypeOK' /\ HandlersConsistent' /\ CountersExact'
  BY NextTypeOK, NextConsistent, NextExact
<1> QED
  BY <1>1, <1>2, PTL DEF Spec

-----------------------------------------------------------------------------
(* The limits *)

WithinCap == \A s \in Scopes : Cap[s] # 0 => live[s] <= Cap[s]

\* Only CountIn raises a counter, and only after Room.
LEMMA StepWithinCap ==
  ASSUME TypeOK, WithinCap, NEW c \in Calls, Step(c)
  PROVE  WithinCap'
<1> USE DEF counters, carrier, records
<1>0. live \in [Scopes -> Nat] /\ Cap \in [Scopes -> Nat] /\ Account \in Scopes
  BY ConstantsAssumption DEF TypeOK
<1>1. ASSUME live' = live
      PROVE  WithinCap'
  BY <1>1 DEF WithinCap
<1>2. ASSUME NEW s \in Scopes, live' = [live EXCEPT ![s] = Less(@)]
      PROVE  WithinCap'
  BY <1>0, <1>2 DEF WithinCap, Less
<1>3. ASSUME NEW s \in Scopes, NEW p, Room(s, p), CountIn(s, p)
      PROVE  WithinCap'
  BY <1>0, <1>3 DEF WithinCap, Room, CountIn
<1>4. CASE Setup(c)
  <2>1. live' = live \/ (Room(Account, period) /\ CountIn(Account, period))
    BY <1>4 DEF Setup, Reject, Admit, AnswerFails, Answer
  <2> QED
    BY <1>0, <1>1, <1>3, <2>1
<1>5. CASE Reserve(c)
  <2>1. PICK k \in DOMAIN ScopeSeq(c, mem[c].next) :
           LET s == ScopeSeq(c, mem[c].next)[k] IN
           live' = live \/ (Room(s, now[c]) /\ CountIn(s, now[c]))
    BY <1>5 DEF Reserve
  <2>2. ScopeSeq(c, mem[c].next)[k] \in Scopes
    BY ScopeTyped
  <2> QED
    BY <1>1, <1>3, <2>1, <2>2
<1>6. CASE Rollback(c)
  <2>1. \/ live' = live
        \/ \E k \in DOMAIN ScopeSeq(c, mem[c].next) : GiveBack(ScopeSeq(c, mem[c].next)[k], now[c])
    BY <1>6 DEF Rollback
  <2> QED
    BY <1>1, <1>2, <2>1, ScopeTyped DEF GiveBack
<1>7. CASE ReleaseAll(c)
  <2>1. \E k \in DOMAIN ScopeSeq(c, mem[c].route) : GiveBack(ScopeSeq(c, mem[c].route)[k], mem[c].at)
    BY <1>7 DEF ReleaseAll
  <2> QED
    BY <1>2, <2>1, ScopeTyped DEF GiveBack
<1>8. CASE Free(c)
  <2>1. \E k \in DOMAIN ScopeSeq(c, mem[c].route) : FreeLine(ScopeSeq(c, mem[c].route)[k])
    BY <1>8 DEF Free
  <2> QED
    BY <1>2, <2>1, ScopeTyped DEF FreeLine
<1>9. CASE FreeAccount(c)
  BY <1>0, <1>1, <1>2, <1>9 DEF FreeAccount, FreeLine
<1>10. CASE NextCandidate(c) \/ Dial(c) \/ DialFails(c) \/ DialFallback(c) \/ SaveDial(c)
            \/ NobodyTakesIt(c) \/ Retry(c) \/ HangUpBuyer(c) \/ SaveEnd(c) \/ LeaveSoftphone(c)
            \/ Bill(c)
  BY <1>1, <1>10 DEF NextCandidate, Dial, DialFails, DialFallback, SaveDial, NobodyTakesIt, Retry,
     HangUpBuyer, SaveEnd, LeaveSoftphone, Bill
<1>11. CASE Event(c) \/ Phone(c)
  <2>1. live' = live
    BY <1>11 DEF Event, Phone, LegEnds, BuyerAnswers, Ignore, LockTimesOut, GreetingSpoken, ClosingSpoken,
       WhisperSpoken, Answered, BuyerLeaves, BuyerUnavailable, CallerLeaves, IvrGoto, IvrRoute, IvrHangup
  <2> QED
    BY <1>1, <2>1
<1> QED
  BY <1>4, <1>5, <1>6, <1>7, <1>8, <1>9, <1>10, <1>11 DEF Step, Handler

Inv == TypeOK /\ HandlersConsistent /\ CountersExact /\ WithinCap

LEMMA Invariance == Spec => []Inv
<1>1. Init => Inv
  <2>1. Init => WithinCap
    BY ConstantsAssumption DEF Init, WithinCap
  <2> QED
    BY <2>1, InitTypeOK, InitConsistent, InitExact DEF Inv
<1>2. Inv /\ [Next]_vars => Inv'
  <2> SUFFICES ASSUME Inv, [Next]_vars
               PROVE  Inv'
    OBVIOUS
  <2>1. WithinCap'
    <3>1. ASSUME NEW c \in Calls, Step(c)
          PROVE  WithinCap'
      BY <3>1, StepWithinCap DEF Inv
    <3>2. CASE Tick \/ UNCHANGED vars
      BY <3>2 DEF Inv, WithinCap, Tick, vars, counters, carrier, records
    <3> QED
      BY <3>1, <3>2 DEF Next, Step
  <2> QED
    BY <2>1, NextTypeOK, NextConsistent, NextExact DEF Inv
<1> QED
  BY <1>1, <1>2, PTL DEF Spec

\* Every call whose parties talk is counted in the scopes of its route.
LEMMA TalkersHold ==
  ASSUME Inv, NEW s \in Scopes \ {Account}
  PROVE  TalkingOn(s) \subseteq Holders(s)
<1> SUFFICES ASSUME NEW c \in Calls, Talking(c), s \in ScopesOf(c, db[c])
             PROVE  s \in Counted(c)
  BY DEF TalkingOn, Holders
<1>1. Consistent(c) /\ db[c].bridged /\ leg[c][db[c].out] = "up" /\ pc[c] \in Positions
  BY DEF Inv, HandlersConsistent, Talking, TypeOK
<1>2. pc[c] \in {"idle", "end", "save", "account", "leave", "free"} /\ mem[c] = db[c]
  BY <1>1 DEF Consistent, InDial, NoState, Positions
<1>3. mem[c].phase # "ended" /\ mem[c].out # 0
  BY <1>1, <1>2 DEF Consistent, Live
<1>4. Connected(c)
  BY <1>1, <1>2, <1>3 DEF Connected, Consistent
<1> QED
  BY <1>1, <1>2, <1>4 DEF Counted, InDial, Unwinding, Connected

LEMMA InProgressHold ==
  ASSUME Inv, Cap[Account] # 0
  PROVE  {c \in Calls : InProgress(c)} \subseteq Holders(Account)
<1> SUFFICES ASSUME NEW c \in Calls, InProgress(c)
             PROVE  HoldsLine(c)
  BY DEF Holders, Counted
<1>1. Consistent(c) /\ db[c].phase \notin {"none", "ended"}
  BY DEF Inv, HandlersConsistent, InProgress
<1>2. pc[c] \notin {"new", "rejected", "setup"}
  BY <1>1 DEF Consistent, NoState
<1> QED
  BY <1>1, <1>2 DEF Consistent, HoldsLine

LEMMA HeldWithinCap ==
  ASSUME Inv, NEW s \in Scopes, Cap[s] # 0, NEW T, T \subseteq Holders(s)
  PROVE  Cardinality(T) <= Cap[s]
<1>1. Cardinality(T) <= Cardinality(Holders(s)) /\ Cardinality(T) \in Nat
  BY HoldersFinite, FS_Subset, FS_CardinalityType
<1>2. Cardinality(Holders(s)) = live[s] /\ live[s] <= Cap[s] /\ live[s] \in Nat
  BY DEF Inv, CountersExact, WithinCap, TypeOK
<1>3. Cap[s] \in Nat
  BY ConstantsAssumption
<1> QED
  BY <1>1, <1>2, <1>3

\* A concurrency cap is never exceeded by conversations, whatever the number of calls
\* that race for its last line and however often a handler rolls back.
THEOREM CapsRespected == Spec => []TalkingWithinCap
<1>1. Inv => TalkingWithinCap
  BY TalkersHold, HeldWithinCap DEF TalkingWithinCap
<1> QED
  BY <1>1, Invariance, PTL

\* An account never has more calls in progress than its limit allows.
THEOREM AccountLimitRespected == Spec => []AccountWithinLimit
<1>1. Inv => AccountWithinLimit
  BY InProgressHold, HeldWithinCap, ConstantsAssumption DEF AccountWithinLimit
<1> QED
  BY <1>1, Invariance, PTL
=============================================================================
