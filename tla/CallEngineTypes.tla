--------------------------- MODULE CallEngineTypes ---------------------------
(***************************************************************************)
(* CallEngine is type correct, for every number of calls, scopes and caps. *)
(***************************************************************************)
EXTENDS CallEngine, TLAPS

-----------------------------------------------------------------------------
(* The operators *)

LEMMA PlanTyped ==
  ASSUME TypeOK, NEW c \in Calls
  PROVE  /\ Cands(c) \in Seq(CandidateType)
         /\ Len(Cands(c)) \in 0..MaxCands
BY ConstantsAssumption DEF TypeOK, Cands, PlanType

\* No candidate is counted in the account's own scope.
LEMMA ScopesTyped ==
  ASSUME TypeOK, NEW c \in Calls, NEW i
  PROVE  /\ ScopesAt(c, i) \subseteq Scopes \ {Account}
         /\ ScopeSeq(c, i) \in Seq(Scopes \ {Account})
         /\ AgentAt(c, i) \in Agents \cup {NoAgent}
<1>1. Cands(c) \in Seq(CandidateType)
  BY PlanTyped
<1>2. CASE i \in 1..Len(Cands(c))
  <2>1. Cands(c)[i] \in CandidateType
    BY <1>1, <1>2
  <2> QED
    BY <1>2, <2>1 DEF ScopesAt, ScopeSeq, AgentAt, CandidateType
<1>3. CASE i \notin 1..Len(Cands(c))
  BY <1>3 DEF ScopesAt, ScopeSeq, AgentAt
<1> QED
  BY <1>2, <1>3

LEMMA ScopesOfTyped ==
  ASSUME TypeOK, NEW c \in Calls, NEW s
  PROVE  ScopesOf(c, s) \subseteq Scopes \ {Account}
BY ScopesTyped DEF ScopesOf

LEMMA RemainingTyped ==
  ASSUME TypeOK, NEW c \in Calls, NEW i \in Remaining(c)
  PROVE  i \in 1..MaxCands /\ i \in 1..Len(Cands(c))
BY PlanTyped, ConstantsAssumption DEF Remaining

LEMMA ScopeTyped ==
  ASSUME TypeOK, NEW c \in Calls, NEW i, NEW k \in DOMAIN ScopeSeq(c, i)
  PROVE  ScopeSeq(c, i)[k] \in Scopes \ {Account} /\ ScopeSeq(c, i)[k] \in ScopesAt(c, i)
BY ScopesTyped DEF ScopesAt

-----------------------------------------------------------------------------
(* Types *)

LEMMA InitTypeOK == Init => TypeOK
BY ConstantsAssumption DEF Init, TypeOK, NoState, StateType, Phases, Positions, Legs, Periods,
   LegStates, Rows, Fallback

\* An update of one entry of an array of arrays.
LEMMA UpdateTyped ==
  ASSUME NEW S, NEW T, NEW V, NEW f \in [S -> [T -> V]], NEW s \in S, NEW t \in T, NEW v \in V
  PROVE  [f EXCEPT ![s][t] = v] \in [S -> [T -> V]]
OBVIOUS

LEMMA LegTyped ==
  ASSUME TypeOK, NEW c \in Calls, NEW i \in Legs, NEW x \in LegStates,
         leg' \in {leg, [leg EXCEPT ![c][i] = x]}
  PROVE  leg' \in [Calls -> [Legs -> LegStates]]
<1>1. leg \in [Calls -> [Legs -> LegStates]]
  BY DEF TypeOK
<1>2. [leg EXCEPT ![c][i] = x] \in [Calls -> [Legs -> LegStates]]
  BY <1>1, UpdateTyped
<1> QED
  BY <1>1, <1>2

LEMMA FreshTyped ==
  ASSUME TypeOK, NEW c \in Calls, NEW ph \in Phases
  PROVE  [FreshState(c) EXCEPT !.phase = ph] \in StateType
<1>1. NoState \in StateType
  BY ConstantsAssumption DEF NoState, StateType, Phases, Periods, Legs, Fallback
<1>2. 1..Len(Cands(c)) \in SUBSET Nat
  BY PlanTyped
<1>3. FreshState(c) \in StateType
  BY <1>1, <1>2 DEF FreshState, StateType, Phases
<1> QED
  BY <1>3 DEF StateType

LEMMA CountersTyped ==
  ASSUME TypeOK, NEW s \in Scopes, NEW p \in Periods,
         CountIn(s, p) \/ GiveBack(s, p) \/ FreeLine(s) \/ UNCHANGED <<live, used>>
  PROVE  live' \in [Scopes -> Nat] /\ used' \in [Scopes -> [Periods -> Nat]]
<1>1. /\ live \in [Scopes -> Nat] /\ used \in [Scopes -> [Periods -> Nat]]
      /\ live[s] \in Nat /\ used[s] \in [Periods -> Nat] /\ used[s][p] \in Nat
  BY DEF TypeOK
<1>2. /\ live[s] + 1 \in Nat /\ Less(live[s]) \in Nat
      /\ used[s][p] + 1 \in Nat /\ Less(used[s][p]) \in Nat
  BY <1>1 DEF Less
<1>3. live' \in [Scopes -> Nat]
  BY <1>1, <1>2 DEF CountIn, GiveBack, FreeLine
<1>4. \A n \in Nat : [used EXCEPT ![s][p] = n] \in [Scopes -> [Periods -> Nat]]
  BY <1>1, UpdateTyped
<1>5. used' \in {used, [used EXCEPT ![s][p] = used[s][p] + 1], [used EXCEPT ![s][p] = Less(used[s][p])]}
  BY DEF CountIn, GiveBack, FreeLine
<1> QED
  BY <1>1, <1>2, <1>3, <1>4, <1>5

LEMMA CarrierTyped ==
  ASSUME TypeOK, NEW c \in Calls, NEW i \in Legs
  PROVE  /\ HangUp(c, i) => leg' \in [Calls -> [Legs -> LegStates]]
         /\ HangupOf(c, i) \subseteq Calls \X Legs \X EventTypes
         /\ \A type \in EventTypes : Report(c, i, type) \subseteq Calls \X Legs \X EventTypes
<1>1. (IF leg[c][i] \in Live THEN "down" ELSE leg[c][i]) \in LegStates
  BY DEF TypeOK, LegStates
<1>2. HangUp(c, i) => leg' \in [Calls -> [Legs -> LegStates]]
  BY <1>1, LegTyped DEF HangUp
<1> QED
  BY <1>2 DEF HangupOf, Report, EventTypes

LEMMA ConsumeTyped ==
  ASSUME TypeOK, NEW c, NEW i, NEW type, NEW new \in SUBSET (Calls \X Legs \X EventTypes),
         Consume(c, i, type, new)
  PROVE  events' \subseteq Calls \X Legs \X EventTypes
BY DEF Consume, TypeOK

LEMMA LegsTyped ==
  ASSUME TypeOK, NEW c \in Calls
  PROVE  0 \in 0..MaxCands /\ 0 \in Legs /\ Fallback \in Legs /\ 1..MaxCands \subseteq Legs
         /\ mem[c] \in StateType /\ mem[c].out \in Legs /\ mem[c].next \in 0..MaxCands
         /\ db[c] \in StateType /\ db[c].out \in Legs
<1>1. 0 \in 0..MaxCands /\ 0 \in Legs /\ Fallback \in Legs /\ 1..MaxCands \subseteq Legs
  BY ConstantsAssumption DEF Legs, Fallback
<1>2. mem[c] \in StateType /\ db[c] \in StateType
  BY DEF TypeOK
<1>3. mem[c].out \in Legs /\ mem[c].next \in 0..MaxCands /\ db[c].out \in Legs
  BY <1>2 DEF StateType
<1> QED
  BY <1>1, <1>2, <1>3

LEMMA SetupTypeOK ==
  ASSUME TypeOK, NEW c \in Calls, Setup(c)
  PROVE  TypeOK'
<1> USE DEF counters, carrier, records
<1>0. 0 \in Legs /\ leg[c][0] \in LegStates
  BY ConstantsAssumption DEF TypeOK, Legs, Fallback
<1>1. CASE Reject(c)
  <2>1. leg' \in [Calls -> [Legs -> LegStates]]
    BY <1>0, <1>1, LegTyped DEF Reject, LegStates
  <2> QED
    BY <1>0, <1>1, <2>1 DEF Reject, NewCall, TypeOK, Positions, Rows, EventTypes
<1>2. CASE Admit(c)
  <2>1. live' \in [Scopes -> Nat] /\ used' \in [Scopes -> [Periods -> Nat]]
    BY <1>2, CountersTyped, ConstantsAssumption DEF Admit, TypeOK
  <2>2. line' \in [Calls -> BOOLEAN]
    BY <1>2 DEF Admit, TypeOK
  <2>3. leg' \in [Calls -> [Legs -> LegStates]]
    BY <1>0, <1>2, LegTyped DEF Admit, LegStates
  <2> QED
    BY <1>0, <1>2, <2>1, <2>2, <2>3 DEF Admit, NewCall, TypeOK, Positions, Rows
<1>3. CASE AnswerFails(c)
  BY <1>3 DEF AnswerFails, TypeOK, Positions
<1>4. CASE Answer(c)
  <2>0. \A ph \in Phases : [FreshState(c) EXCEPT !.phase = ph] \in StateType
    BY FreshTyped
  <2>1. PICK s \in StateType :
           /\ mem' = [mem EXCEPT ![c] = s]
           /\ db' \in {db, [db EXCEPT ![c] = s]}
           /\ pc' \in {[pc EXCEPT ![c] = "next"], [pc EXCEPT ![c] = "idle"]}
           /\ events' \in {events, events \cup {<<c, 0, "speak">>}, events \cup {<<c, 0, "gather">>}}
    BY <1>4, <2>0 DEF Answer, Phases
  <2>2. events' \subseteq Calls \X Legs \X EventTypes
    BY <1>0, <2>1 DEF TypeOK, EventTypes
  <2>3. leg' \in [Calls -> [Legs -> LegStates]]
    <3>1. (IF leg[c][0] = "ringing" THEN "up" ELSE leg[c][0]) \in LegStates
      BY <1>0 DEF LegStates
    <3> QED
      BY <1>0, <1>4, <3>1, LegTyped DEF Answer
  <2>4. mem' \in [Calls -> StateType] /\ db' \in [Calls -> StateType]
    BY <2>1 DEF TypeOK
  <2>6. pc' \in [Calls -> Positions]
    BY <2>1 DEF TypeOK, Positions
  <2>5. UNCHANGED <<plan, taken, now, line, live, used, period, known, softphone, row, bills, lost>>
    BY <1>4 DEF Answer
  <2> QED
    BY <2>2, <2>3, <2>4, <2>5, <2>6 DEF TypeOK
<1> QED
  BY <1>1, <1>2, <1>3, <1>4 DEF Setup

LEMMA HandlerTypeOK ==
  ASSUME TypeOK, NEW c \in Calls, Handler(c)
  PROVE  TypeOK'
<1> USE DEF counters, carrier, records
<1>0. /\ 0 \in 0..MaxCands /\ 0 \in Legs /\ Fallback \in Legs /\ 1..MaxCands \subseteq Legs
      /\ mem[c] \in StateType /\ mem[c].out \in Legs /\ mem[c].next \in 0..MaxCands
      /\ db[c] \in StateType
  BY LegsTyped
<1>1. CASE NextCandidate(c)
  <2>1. PICK i \in Remaining(c) : mem' = [mem EXCEPT ![c].next = i]
    BY <1>1 DEF NextCandidate
  <2>2. [mem[c] EXCEPT !.next = i] \in StateType
    BY <1>0, RemainingTyped DEF StateType
  <2> QED
    BY <1>1, <2>1, <2>2 DEF NextCandidate, TypeOK, Positions
<1>2. CASE Reserve(c)
  <2>1. PICK k \in DOMAIN ScopeSeq(c, mem[c].next) :
           LET s == ScopeSeq(c, mem[c].next)[k] IN
           IF Room(s, now[c])
           THEN /\ CountIn(s, now[c])
                /\ taken' = [taken EXCEPT ![c] = @ \cup {s}]
                /\ pc' = pc
           ELSE /\ pc' = [pc EXCEPT ![c] = "rollback"]
                /\ UNCHANGED <<taken, live, used>>
    BY <1>2 DEF Reserve
  <2>2. ScopeSeq(c, mem[c].next)[k] \in Scopes
    BY ScopeTyped
  <2>3. now[c] \in Periods
    BY DEF TypeOK
  <2>4. live' \in [Scopes -> Nat] /\ used' \in [Scopes -> [Periods -> Nat]]
    BY <2>1, <2>2, <2>3, CountersTyped
  <2>5. pc' \in [Calls -> Positions]
    BY <2>1 DEF TypeOK, Positions
  <2>6. taken' \in [Calls -> SUBSET Scopes]
    <3>1. taken[c] \cup {ScopeSeq(c, mem[c].next)[k]} \in SUBSET Scopes
      BY <2>2 DEF TypeOK
    <3>2. taken' \in {taken, [taken EXCEPT ![c] = taken[c] \cup {ScopeSeq(c, mem[c].next)[k]}]}
      BY <2>1
    <3> QED
      BY <3>1, <3>2 DEF TypeOK
  <2> QED
    BY <1>2, <2>4, <2>5, <2>6 DEF Reserve, TypeOK
<1>3. CASE Rollback(c)
  <2>1. CASE taken[c] = {}
    BY <1>3, <2>1 DEF Rollback, TypeOK, Positions
  <2>2. CASE taken[c] # {}
    <3>1. PICK k \in DOMAIN ScopeSeq(c, mem[c].next) :
             LET s == ScopeSeq(c, mem[c].next)[k] IN
             GiveBack(s, now[c]) /\ taken' = [taken EXCEPT ![c] = @ \ {s}]
      BY <1>3, <2>2 DEF Rollback
    <3>2. ScopeSeq(c, mem[c].next)[k] \in Scopes
      BY ScopeTyped
    <3>3. now[c] \in Periods
      BY DEF TypeOK
    <3>4. live' \in [Scopes -> Nat] /\ used' \in [Scopes -> [Periods -> Nat]]
      BY <3>1, <3>2, <3>3, CountersTyped
    <3> QED
      BY <1>3, <2>2, <3>1, <3>4 DEF Rollback, TypeOK
  <2> QED
    BY <2>1, <2>2
<1>4. CASE Dial(c)
  <2>1. mem[c].next \in Legs /\ AgentAt(c, mem[c].next) \in Agents \cup {NoAgent} /\ now[c] \in Periods
    <3>1. mem[c].next \in Legs
      BY <1>0, ConstantsAssumption DEF Legs, Fallback
    <3>2. now[c] \in Periods
      BY DEF TypeOK
    <3> QED
      BY <3>1, <3>2, ScopesTyped
  <2>2. leg' \in [Calls -> [Legs -> LegStates]]
    BY <1>4, <2>1, LegTyped DEF Dial, LegStates
  <2>3. [mem[c] EXCEPT !.out = mem[c].next, !.route = mem[c].next,
                       !.agent = AgentAt(c, mem[c].next), !.at = now[c]] \in StateType
    BY <1>0, <2>1 DEF StateType
  <2>4. mem' \in [Calls -> StateType]
    BY <1>4, <2>3 DEF Dial, TypeOK
  <2> QED
    BY <1>4, <2>2, <2>4 DEF Dial, TypeOK, Positions
<1>5. CASE DialFails(c)
  BY <1>5 DEF DialFails, TypeOK, Positions
<1>6. CASE DialFallback(c)
  <2>1. [mem[c] EXCEPT !.fb = TRUE, !.route = 0, !.out = Fallback] \in StateType
    BY <1>0 DEF StateType
  <2>2. leg' \in [Calls -> [Legs -> LegStates]]
    BY <1>0, <1>6, LegTyped DEF DialFallback, LegStates
  <2>3. mem' \in [Calls -> StateType]
    BY <1>6, <2>1 DEF DialFallback, TypeOK
  <2> QED
    BY <1>6, <2>2, <2>3 DEF DialFallback, TypeOK, Positions
<1>7. CASE SaveDial(c)
  <2>1. softphone' \subseteq Agents \X Calls \X Legs
    BY <1>0, <1>7 DEF SaveDial, TypeOK, StateType
  <2>2. known' \subseteq Calls \X Legs
    BY <1>0, <1>7 DEF SaveDial, TypeOK
  <2> QED
    BY <1>0, <1>7, <2>1, <2>2 DEF SaveDial, TypeOK, Positions
<1>8. CASE NobodyTakesIt(c)
  <2>1. /\ [mem[c] EXCEPT !.phase = "closing", !.out = 0] \in StateType
        /\ [[mem[c] EXCEPT !.phase = "closing", !.out = 0] EXCEPT !.fb = TRUE, !.route = 0] \in StateType
    BY <1>0 DEF StateType, Phases
  <2>2. PICK s \in StateType : mem' = [mem EXCEPT ![c] = s] /\ db' = [db EXCEPT ![c] = mem'[c]]
    BY <1>8, <2>1 DEF NobodyTakesIt
  <2>3. mem' \in [Calls -> StateType] /\ db' \in [Calls -> StateType]
    BY <2>2 DEF TypeOK
  <2>4. events' \subseteq Calls \X Legs \X EventTypes
    BY <1>0, <1>8, CarrierTyped DEF NobodyTakesIt, TypeOK, EventTypes
  <2> QED
    BY <1>8, <2>3, <2>4 DEF NobodyTakesIt, TypeOK, Positions
<1>9. CASE ReleaseAll(c)
  <2>1. PICK k \in DOMAIN ScopeSeq(c, mem[c].route) :
           LET s == ScopeSeq(c, mem[c].route)[k] IN
           GiveBack(s, mem[c].at) /\ taken' = [taken EXCEPT ![c] = @ \ {s}]
    BY <1>9 DEF ReleaseAll
  <2>2. ScopeSeq(c, mem[c].route)[k] \in Scopes /\ mem[c].at \in Periods
    BY <1>0, ScopeTyped DEF StateType
  <2>3. live' \in [Scopes -> Nat] /\ used' \in [Scopes -> [Periods -> Nat]]
    BY <2>1, <2>2, CountersTyped
  <2> QED
    BY <1>9, <2>1, <2>3 DEF ReleaseAll, TypeOK
<1>10. CASE Retry(c)
  <2>1. [mem[c] EXCEPT !.out = 0, !.phase = "dialing"] \in StateType
    BY <1>0 DEF StateType, Phases
  <2> QED
    BY <1>10, <2>1 DEF Retry, TypeOK, Positions
<1>11. CASE HangUpBuyer(c)
  <2>1. leg' \in [Calls -> [Legs -> LegStates]] /\ events' \subseteq Calls \X Legs \X EventTypes
    BY <1>0, <1>11, CarrierTyped DEF HangUpBuyer, TypeOK
  <2> QED
    BY <1>11, <2>1 DEF HangUpBuyer, TypeOK, Positions
<1>14. CASE SaveEnd(c)
  <2>1. [mem[c] EXCEPT !.phase = "ended"] \in StateType
    BY <1>0 DEF StateType, Phases
  <2>2. mem' \in [Calls -> StateType] /\ db' \in [Calls -> StateType]
    BY <1>14, <2>1 DEF SaveEnd, TypeOK
  <2> QED
    BY <1>14, <2>2 DEF SaveEnd, TypeOK, Positions
<1>15. CASE FreeAccount(c)
  <2>1. live' \in [Scopes -> Nat] /\ used' \in [Scopes -> [Periods -> Nat]]
    BY <1>15, CountersTyped, ConstantsAssumption DEF FreeAccount, TypeOK
  <2> QED
    BY <1>15, <2>1 DEF FreeAccount, TypeOK, Positions
<1>16. CASE LeaveSoftphone(c)
  <2>1. softphone' \subseteq Agents \X Calls \X Legs
    BY <1>16 DEF LeaveSoftphone, DropLeg, TypeOK
  <2>2. LinesToFree(c) \in SUBSET Scopes
    BY ScopesOfTyped DEF LinesToFree
  <2> QED
    BY <1>16, <2>1, <2>2 DEF LeaveSoftphone, TypeOK, Positions
<1>12. CASE Free(c)
  <2>1. PICK k \in DOMAIN ScopeSeq(c, mem[c].route) :
           LET s == ScopeSeq(c, mem[c].route)[k] IN
           FreeLine(s) /\ taken' = [taken EXCEPT ![c] = @ \ {s}]
    BY <1>12 DEF Free
  <2>2. ScopeSeq(c, mem[c].route)[k] \in Scopes /\ 1 \in Periods
    BY ScopeTyped, ConstantsAssumption DEF Periods
  <2>3. live' \in [Scopes -> Nat] /\ used' \in [Scopes -> [Periods -> Nat]]
    BY <2>1, <2>2, CountersTyped
  <2> QED
    BY <1>12, <2>1, <2>3 DEF Free, TypeOK
<1>13. CASE Bill(c)
  BY <1>13 DEF Bill, TypeOK, Positions, Rows
<1> QED
  BY <1>1, <1>2, <1>3, <1>4, <1>5, <1>6, <1>7, <1>8, <1>9, <1>10, <1>11, <1>12, <1>13, <1>14, <1>15, <1>16 DEF Handler

LEMMA EventTypeOK ==
  ASSUME TypeOK, NEW c \in Calls, Event(c)
  PROVE  TypeOK'
<1> USE DEF counters, carrier, records
<1>0. 0 \in Legs /\ db[c].out \in Legs /\ db[c] \in StateType /\ mem[c] \in StateType
  BY LegsTyped
<1> DEFINE All == SUBSET (Calls \X Legs \X EventTypes)
<1>a. /\ {} \in All /\ HangupOf(c, 0) \in All
      /\ \A i \in Legs, type \in EventTypes : Report(c, i, type) \in All
  BY <1>0, CarrierTyped
<1>b. "speak" \in EventTypes /\ "gather" \in EventTypes
  BY DEF EventTypes
\* The state after a change of phase, alone or with what comes with it.
<1>c. \A ph \in {"ivr", "dialing", "closing", "whisper"} :
         /\ [mem EXCEPT ![c].phase = ph] \in [Calls -> StateType]
         /\ [db EXCEPT ![c].phase = ph] \in [Calls -> StateType]
  <2> SUFFICES ASSUME NEW ph \in {"ivr", "dialing", "closing", "whisper"}
               PROVE  /\ [mem EXCEPT ![c].phase = ph] \in [Calls -> StateType]
                      /\ [db EXCEPT ![c].phase = ph] \in [Calls -> StateType]
    OBVIOUS
  <2>1. [mem[c] EXCEPT !.phase = ph] \in StateType /\ [db[c] EXCEPT !.phase = ph] \in StateType
    BY <1>0 DEF StateType, Phases
  <2> QED
    BY <2>1 DEF TypeOK
<1>d. Connect(c) \/ BridgeFails => /\ mem' \in [Calls -> StateType]
                                  /\ db' \in [Calls -> StateType]
                                  /\ row' \in [Calls -> Rows]
  <2>1. [mem[c] EXCEPT !.phase = "connected", !.bridged = TRUE] \in StateType
    BY <1>0 DEF StateType, Phases
  <2>2. Connect(c) => mem' \in [Calls -> StateType] /\ db' \in [Calls -> StateType]
    BY <2>1 DEF Connect, TypeOK
  <2> QED
    BY <2>2 DEF Connect, BridgeFails, TypeOK, Rows
<1>1. ASSUME NEW i \in Legs, NEW type \in EventTypes, Ignore(c, i, type)
      PROVE  TypeOK'
  <2>1. events' \subseteq Calls \X Legs \X EventTypes
    BY <1>a, <1>1, ConsumeTyped DEF Ignore
  <2> QED
    BY <1>1, <2>1 DEF Ignore, TypeOK
<1>12. ASSUME NEW i \in Legs, NEW type \in EventTypes, LockTimesOut(c, i, type)
       PROVE  TypeOK'
  <2>1. events' \subseteq Calls \X Legs \X EventTypes
    BY <1>a, <1>12, ConsumeTyped DEF LockTimesOut
  <2> QED
    BY <1>12, <2>1 DEF LockTimesOut, TypeOK
<1>2. ASSUME NEW i \in Legs, GreetingSpoken(c, i)
      PROVE  TypeOK'
  <2>1. events' \subseteq Calls \X Legs \X EventTypes
    BY <1>0, <1>a, <1>b, <1>2, ConsumeTyped DEF GreetingSpoken
  <2>2. /\ mem' \in [Calls -> StateType] /\ db' \in [Calls -> StateType] /\ pc' \in [Calls -> Positions]
    <3>1. mem' \in {[mem EXCEPT ![c].phase = "ivr"], [mem EXCEPT ![c].phase = "dialing"]}
      BY <1>2 DEF GreetingSpoken
    <3>2. db' \in {[db EXCEPT ![c].phase = "ivr"], db}
      BY <1>2 DEF GreetingSpoken
    <3>3. pc' \in {[pc EXCEPT ![c] = "next"], pc}
      BY <1>2 DEF GreetingSpoken
    <3>4. pc' \in [Calls -> Positions]
      BY <3>3 DEF TypeOK, Positions
    <3> QED
      BY <1>c, <3>1, <3>2, <3>4 DEF TypeOK
  <2> QED
    BY <1>2, <2>1, <2>2 DEF GreetingSpoken, TypeOK
<1>3. ASSUME NEW i \in Legs, ClosingSpoken(c, i)
      PROVE  TypeOK'
  <2>1. events' \subseteq Calls \X Legs \X EventTypes
    BY <1>a, <1>3, ConsumeTyped DEF ClosingSpoken
  <2>2. leg' \in [Calls -> [Legs -> LegStates]]
    BY <1>0, <1>3, CarrierTyped DEF ClosingSpoken
  <2> QED
    BY <1>3, <2>1, <2>2 DEF ClosingSpoken, TypeOK
<1>4. ASSUME NEW i \in Legs, WhisperSpoken(c, i)
      PROVE  TypeOK'
  <2>1. events' \subseteq Calls \X Legs \X EventTypes
    BY <1>a, <1>4, ConsumeTyped DEF WhisperSpoken
  <2> QED
    BY <1>d, <1>4, <2>1 DEF WhisperSpoken, TypeOK
<1>5. ASSUME NEW i \in Legs, Answered(c, i)
      PROVE  TypeOK'
  <2>1. events' \subseteq Calls \X Legs \X EventTypes
    BY <1>a, <1>b, <1>5, ConsumeTyped DEF Answered
  <2>2. /\ mem' \in [Calls -> StateType] /\ db' \in [Calls -> StateType] /\ row' \in [Calls -> Rows]
    BY <1>c, <1>d, <1>5 DEF Answered, TypeOK
  <2> QED
    BY <1>5, <2>1, <2>2 DEF Answered, TypeOK
<1>6. ASSUME NEW i \in Legs, BuyerLeaves(c, i)
      PROVE  TypeOK'
  <2>1. events' \subseteq Calls \X Legs \X EventTypes
    BY <1>a, <1>6, ConsumeTyped DEF BuyerLeaves
  <2>2. leg' \in [Calls -> [Legs -> LegStates]]
    BY <1>0, <1>6, CarrierTyped DEF BuyerLeaves
  <2> QED
    BY <1>6, <2>1, <2>2 DEF BuyerLeaves, TypeOK
<1>e. Reservation(c) \in SUBSET Scopes
  BY ScopesOfTyped DEF Reservation
<1>7. ASSUME NEW i \in Legs, BuyerUnavailable(c, i)
      PROVE  TypeOK'
  <2>1. events' \subseteq Calls \X Legs \X EventTypes
    BY <1>a, <1>7, ConsumeTyped DEF BuyerUnavailable
  <2>2. softphone' \subseteq Agents \X Calls \X Legs /\ taken' \in [Calls -> SUBSET Scopes]
    BY <1>e, <1>7 DEF BuyerUnavailable, DropLeg, TypeOK
  <2> QED
    BY <1>7, <2>1, <2>2 DEF BuyerUnavailable, TypeOK, Positions
<1>8. CASE CallerLeaves(c)
  <2>1. events' \subseteq Calls \X Legs \X EventTypes
    BY <1>a, <1>8, ConsumeTyped DEF CallerLeaves
  <2>2. softphone' \subseteq Agents \X Calls \X Legs /\ taken' \in [Calls -> SUBSET Scopes]
    BY <1>e, <1>8 DEF CallerLeaves, DropLeg, TypeOK
  <2> QED
    BY <1>8, <2>1, <2>2 DEF CallerLeaves, TypeOK, Positions
<1>9. ASSUME NEW type \in {"speak", "gather"}, IvrGoto(c, type)
      PROVE  TypeOK'
  <2>1. events' \subseteq Calls \X Legs \X EventTypes
    BY <1>0, <1>a, <1>b, <1>9, ConsumeTyped DEF IvrGoto
  <2> QED
    BY <1>9, <2>1 DEF IvrGoto, TypeOK
<1>10. ASSUME NEW type \in {"speak", "gather"}, IvrRoute(c, type)
       PROVE  TypeOK'
  <2>1. events' \subseteq Calls \X Legs \X EventTypes
    BY <1>a, <1>10, ConsumeTyped DEF IvrRoute
  <2>2. PICK some \in SUBSET db[c].open : mem' = [mem EXCEPT ![c].phase = "dialing", ![c].open = some]
    BY <1>10 DEF IvrRoute
  <2>3. [mem[c] EXCEPT !.phase = "dialing", !.open = some] \in StateType
    BY <1>0 DEF StateType, Phases
  <2>4. mem' \in [Calls -> StateType]
    BY <2>2, <2>3 DEF TypeOK
  <2> QED
    BY <1>10, <2>1, <2>4 DEF IvrRoute, TypeOK, Positions
<1>11. ASSUME NEW type \in {"speak", "gather"}, IvrHangup(c, type)
       PROVE  TypeOK'
  <2>1. events' \subseteq Calls \X Legs \X EventTypes
    BY <1>0, <1>a, <1>b, <1>11, ConsumeTyped DEF IvrHangup
  <2>2. leg' \in [Calls -> [Legs -> LegStates]]
    BY <1>0, <1>11, CarrierTyped DEF IvrHangup, TypeOK
  <2>3. mem' \in [Calls -> StateType] /\ db' \in [Calls -> StateType]
    BY <1>c, <1>11 DEF IvrHangup
  <2> QED
    BY <1>11, <2>1, <2>2, <2>3 DEF IvrHangup, TypeOK
<1> QED
  BY <1>1, <1>2, <1>3, <1>4, <1>5, <1>6, <1>7, <1>8, <1>9, <1>10, <1>11, <1>12 DEF Event

LEMMA NextTypeOK ==
  ASSUME TypeOK, [Next]_vars
  PROVE  TypeOK'
<1> USE DEF counters, carrier, records
<1>1. CASE Tick
  <2>1. period' \in Periods
    BY <1>1, ConstantsAssumption DEF Tick, TypeOK, Periods
  <2> QED
    BY <1>1, <2>1 DEF Tick, TypeOK
<1>2. ASSUME NEW c \in Calls, NEW i \in Legs, LegEnds(c, i)
      PROVE  TypeOK'
  <2>1. leg' \in [Calls -> [Legs -> LegStates]]
    BY <1>2, LegTyped DEF LegEnds, LegStates
  <2> QED
    BY <1>2, <2>1 DEF LegEnds, TypeOK, EventTypes
<1>3. ASSUME NEW c \in Calls, NEW i \in Legs, BuyerAnswers(c, i)
      PROVE  TypeOK'
  <2>1. leg' \in [Calls -> [Legs -> LegStates]]
    BY <1>3, LegTyped DEF BuyerAnswers, LegStates
  <2> QED
    BY <1>3, <2>1 DEF BuyerAnswers, TypeOK, EventTypes
<1>4. CASE UNCHANGED vars
  BY <1>4 DEF vars, TypeOK
<1>5. ASSUME NEW c \in Calls, Setup(c) \/ Handler(c) \/ Event(c) \/ Phone(c)
      PROVE  TypeOK'
  <2>1. CASE Phone(c)
    BY <1>2, <1>3, <2>1 DEF Phone
  <2> QED
    BY <1>5, <2>1, SetupTypeOK, HandlerTypeOK, EventTypeOK
<1> QED
  BY <1>1, <1>4, <1>5 DEF Next

\* Every reachable state is well typed: the loop of dialNext stays within the candidate
\* list, and no counter of CapsService goes below zero.
THEOREM TypeCorrect == Spec => []TypeOK
<1>1. Init => TypeOK
  BY InitTypeOK
<1>2. TypeOK /\ [Next]_vars => TypeOK'
  BY NextTypeOK
<1> QED
  BY <1>1, <1>2, PTL DEF Spec
=============================================================================
