-------------------------- MODULE SwitchboardProofs --------------------------
(***************************************************************************)
(* What a call of CallEngine looks like from outside: what the database    *)
(* shows of it can be read off its saved state, it is charged once, and    *)
(* the whole engine is a Switchboard.                                      *)
(***************************************************************************)
EXTENDS CallEngineProofs

\* The last step of the call was done: saved as ended, and nobody holds its lock.
Closed(c) == pc[c] = "idle" /\ db[c].phase = "ended"

\* What the database shows of a call is read off its saved state.
RowExact(c) ==
  row[c] = IF pc[c] = "new" THEN "none"
           ELSE IF pc[c] = "rejected" THEN "REJECTED"
           ELSE IF Closed(c) THEN (IF db[c].bridged THEN "COMPLETED" ELSE "NO_ANSWER")
           ELSE IF db[c].bridged THEN "IN_PROGRESS" ELSE "RINGING"

Billed(c) == bills[c] = IF Closed(c) THEN 1 ELSE 0

Books == \A c \in Calls : RowExact(c) /\ Billed(c)

-----------------------------------------------------------------------------
(* The steps that show, and those that do not *)

\* A step behind the scenes: the books stay, and a call that talks keeps its state.
Behind(c) ==
  /\ {pc[c], pc'[c]} \cap {"new", "rejected"} = {}
  /\ row' = row /\ bills' = bills /\ plan' = plan
  /\ db'[c].bridged = db[c].bridged
  /\ db'[c].phase = "ended" <=> db[c].phase = "ended"
  /\ db[c].bridged => db'[c] = db[c]
  /\ Closed(c)' <=> Closed(c)

\* The bridge of a call whose buyer's leg is up.
Connects(c) ==
  /\ pc[c] = "idle" /\ db[c].out # 0 /\ ~db[c].bridged /\ db[c].phase \notin {"none", "ended"}
  /\ Connect(c)
  /\ pc' = pc /\ bills' = bills /\ plan' = plan

\* A step that only the carrier and its events see.
Still == UNCHANGED <<plan, pc, db, row, bills>>

\* A step that leaves the saved state alone, as most do.
LEMMA SavedKept ==
  ASSUME NEW c \in Calls, db'[c] = db[c], row' = row, bills' = bills, plan' = plan,
         {pc[c], pc'[c]} \cap {"new", "rejected"} = {},
         pc'[c] = pc[c] \/ db[c].phase # "ended" \/ {pc[c], pc'[c]} \cap {"idle"} = {}
  PROVE  Behind(c)
BY DEF Behind, Closed

LEMMA SetupFaces ==
  ASSUME TypeOK, NEW c \in Calls, Consistent(c), Setup(c)
  PROVE  Behind(c) \/ Reject(c) \/ Admit(c)
<1> USE DEF counters, carrier, records
<1>0. /\ pc \in [Calls -> Positions] /\ db \in [Calls -> StateType] /\ mem \in [Calls -> StateType]
  BY DEF TypeOK
<1>1. CASE AnswerFails(c)
  <2>1. /\ pc[c] = "setup" /\ pc'[c] = "idle" /\ db' = db /\ row' = row /\ bills' = bills
        /\ plan' = plan
    BY <1>0, <1>1 DEF AnswerFails
  <2>2. db[c].phase = "none"
    BY <2>1 DEF Consistent, NoState
  <2> QED
    BY <2>1, <2>2, SavedKept
<1>2. CASE Answer(c)
  <2>1. pc[c] = "setup" /\ row' = row /\ bills' = bills /\ plan' = plan
    BY <1>2 DEF Answer
  <2>2. PICK ph \in {"greeting", "ivr", "dialing"} :
           IF ph = "dialing" THEN pc'[c] = "next" /\ db'[c] = db[c]
           ELSE pc'[c] = "idle" /\ db'[c] = [FreshState(c) EXCEPT !.phase = ph]
    BY <1>0, <1>2 DEF Answer
  <2>3. db[c].phase = "none" /\ db[c].bridged = FALSE
    BY <2>1 DEF Consistent, NoState
  <2>4. db'[c].phase # "ended" /\ db'[c].bridged = FALSE
    BY <2>2, <2>3 DEF FreshState, NoState
  <2> QED
    BY <2>1, <2>2, <2>3, <2>4 DEF Behind, Closed
<1> QED
  BY <1>1, <1>2 DEF Setup

LEMMA HandlerFaces ==
  ASSUME TypeOK, NEW c \in Calls, Consistent(c), Handler(c)
  PROVE  Behind(c) \/ SaveEnd(c) \/ Bill(c)
<1> USE DEF counters, carrier, records
<1>0. /\ pc \in [Calls -> Positions] /\ db \in [Calls -> StateType] /\ mem \in [Calls -> StateType]
  BY DEF TypeOK
<1>1. CASE NextCandidate(c) \/ Reserve(c) \/ Rollback(c) \/ Dial(c) \/ DialFails(c) \/ DialFallback(c)
  <2>1. /\ pc[c] \in {"next", "reserve", "rollback"}
        /\ pc'[c] \in {"next", "reserve", "rollback", "dialed"}
        /\ db' = db /\ row' = row /\ bills' = bills /\ plan' = plan
    BY <1>0, <1>1 DEF NextCandidate, Reserve, Rollback, Dial, DialFails, DialFallback, NoneLeft
  <2> QED
    BY <2>1, SavedKept
<1>2. CASE SaveDial(c)
  <2>1. /\ pc[c] = "dialed" /\ pc'[c] = "idle" /\ db'[c] = mem[c] /\ row' = row /\ bills' = bills
        /\ plan' = plan
    BY <1>0, <1>2 DEF SaveDial
  <2>2. /\ mem[c].phase = "dialing" /\ ~mem[c].bridged /\ db[c].phase # "ended" /\ ~db[c].bridged
    BY <2>1 DEF Consistent, InDial
  <2>3. mem[c].bridged = FALSE /\ db[c].bridged = FALSE
    BY <1>0, <2>2 DEF StateType
  <2> QED
    BY <2>1, <2>2, <2>3 DEF Behind, Closed
<1>3. CASE NobodyTakesIt(c)
  <2>1. /\ pc[c] = "next" /\ pc'[c] = "idle" /\ db'[c] = mem'[c] /\ row' = row /\ bills' = bills
        /\ plan' = plan
    BY <1>0, <1>3 DEF NobodyTakesIt, NoneLeft
  <2>2. \/ mem'[c] = [mem[c] EXCEPT !.phase = "closing", !.out = 0]
        \/ mem'[c] = [[mem[c] EXCEPT !.phase = "closing", !.out = 0] EXCEPT !.fb = TRUE, !.route = 0]
    BY <1>0, <1>3 DEF NobodyTakesIt
  <2>3. mem'[c].phase = "closing" /\ mem'[c].bridged = mem[c].bridged
    BY <1>0, <2>2 DEF StateType
  <2>4. ~mem[c].bridged /\ db[c].phase # "ended" /\ ~db[c].bridged
    BY <2>1 DEF Consistent, InDial
  <2>5. mem[c].bridged = FALSE /\ db[c].bridged = FALSE
    BY <1>0, <2>4 DEF StateType
  <2> QED
    BY <2>1, <2>3, <2>4, <2>5 DEF Behind, Closed
<1>4. CASE \/ ReleaseAll(c) \/ Retry(c)
           \/ HangUpBuyer(c) \/ FreeAccount(c) \/ LeaveSoftphone(c) \/ Free(c)
  <2>1. /\ pc[c] \in {"retry", "end", "account", "leave", "free"}
        /\ pc'[c] \in {pc[c], "next", "save", "leave", "free"}
        /\ db' = db /\ row' = row /\ bills' = bills /\ plan' = plan
    BY <1>0, <1>4 DEF ReleaseAll, Retry, HangUpBuyer, FreeAccount, LeaveSoftphone, Free
  <2> QED
    BY <2>1, SavedKept
<1> QED
  BY <1>1, <1>2, <1>3, <1>4 DEF Handler

LEMMA EventFaces ==
  ASSUME TypeOK, NEW c \in Calls, Consistent(c), Event(c)
  PROVE  Behind(c) \/ Connects(c) \/ Still
<1> USE DEF counters, carrier, records
<1>0. /\ pc \in [Calls -> Positions] /\ db \in [Calls -> StateType] /\ mem \in [Calls -> StateType]
  BY DEF TypeOK
\* A change of phase alone, from one that is not the last.
<1>a. ASSUME pc[c] = "idle", db[c].phase # "ended", ~db[c].bridged, NEW ph \in Phases \ {"ended"},
             db' = [db EXCEPT ![c].phase = ph], pc' = pc, row' = row, bills' = bills, plan' = plan
      PROVE  Behind(c)
  <2>1. db'[c] = [db[c] EXCEPT !.phase = ph]
    BY <1>0, <1>a
  <2>2. db'[c].phase = ph /\ db'[c].bridged = db[c].bridged
    BY <1>0, <2>1 DEF StateType
  <2> QED
    BY <1>a, <2>2 DEF Behind, Closed
<1>1. ASSUME NEW i \in Legs, GreetingSpoken(c, i)
      PROVE  Behind(c)
  <2>1. /\ pc[c] = "idle" /\ db[c].phase = "greeting" /\ row' = row /\ bills' = bills /\ plan' = plan
        /\ \/ db' = [db EXCEPT ![c].phase = "ivr"] /\ pc' = pc
           \/ db' = db /\ pc' = [pc EXCEPT ![c] = "next"]
    BY <1>1 DEF GreetingSpoken, Ready
  <2>2. ~db[c].bridged
    BY <2>1 DEF Consistent
  <2>3. CASE db' = db /\ pc' = [pc EXCEPT ![c] = "next"]
    <3>1. pc'[c] = "next"
      BY <1>0, <2>3
    <3> QED
      BY <2>1, <2>3, <3>1, SavedKept
  <2> QED
    BY <1>a, <2>1, <2>2, <2>3 DEF Phases
<1>2. ASSUME NEW i \in Legs, ClosingSpoken(c, i) \/ BuyerLeaves(c, i)
      PROVE  Behind(c)
  <2>1. pc[c] = "idle" /\ pc' = pc /\ db' = db /\ row' = row /\ bills' = bills /\ plan' = plan
    BY <1>2 DEF ClosingSpoken, BuyerLeaves, Ready
  <2> QED
    BY <2>1, SavedKept
<1>3. ASSUME NEW i \in Legs, WhisperSpoken(c, i) \/ (Answered(c, i) /\ ~Whispers(c))
      PROVE  Behind(c) \/ Connects(c)
  <2>1. /\ pc[c] = "idle" /\ db[c].out # 0 /\ db[c].phase \notin {"none", "ended"} /\ pc' = pc
        /\ bills' = bills /\ plan' = plan /\ (Connect(c) \/ BridgeFails)
        /\ (db[c].phase = "whisper" \/ ~db[c].bridged)
    BY <1>3 DEF WhisperSpoken, Answered, AnswerMatters, IsOutbound, Ready
  <2>2. ~db[c].bridged
    BY <2>1 DEF Consistent
  <2>3. CASE BridgeFails
    <3>1. db' = db /\ row' = row
      BY <2>3 DEF BridgeFails
    <3> QED
      BY <2>1, <3>1, SavedKept
  <2> QED
    BY <2>1, <2>2, <2>3 DEF Connects
<1>4. ASSUME NEW i \in Legs, Answered(c, i), Whispers(c)
      PROVE  Behind(c)
  <2>1. /\ pc[c] = "idle" /\ ~db[c].bridged /\ db[c].phase # "ended" /\ pc' = pc /\ row' = row
        /\ bills' = bills /\ plan' = plan /\ db' = [db EXCEPT ![c].phase = "whisper"]
    BY <1>4 DEF Answered, AnswerMatters, Ready
  <2> QED
    BY <1>a, <2>1 DEF Phases
<1>5. ASSUME NEW i \in Legs, BuyerUnavailable(c, i)
      PROVE  Behind(c)
  <2>1. /\ pc[c] = "idle" /\ db[c].phase # "ended" /\ pc'[c] = "retry" /\ db' = db /\ row' = row
        /\ bills' = bills /\ plan' = plan
    BY <1>0, <1>5 DEF BuyerUnavailable, HangupMatters, Ready
  <2> QED
    BY <2>1, SavedKept
<1>6. CASE CallerLeaves(c)
  <2>1. /\ pc[c] = "idle" /\ db[c].phase # "ended" /\ pc'[c] = "end" /\ db' = db /\ row' = row
        /\ bills' = bills /\ plan' = plan
    BY <1>0, <1>6 DEF CallerLeaves, HangupMatters, Ready
  <2> QED
    BY <2>1, SavedKept
<1>7. ASSUME NEW type \in {"speak", "gather"},
             IvrGoto(c, type) \/ IvrRoute(c, type) \/ IvrHangup(c, type)
      PROVE  Behind(c)
  <2>1. /\ pc[c] = "idle" /\ db[c].phase = "ivr" /\ row' = row /\ bills' = bills /\ plan' = plan
        /\ \/ db' = db /\ pc'[c] \in {"idle", "next"}
           \/ db' = [db EXCEPT ![c].phase = "closing"] /\ pc' = pc
    BY <1>0, <1>7 DEF IvrGoto, IvrRoute, IvrHangup, IvrEvent, Ready
  <2>2. ~db[c].bridged
    BY <2>1 DEF Consistent
  <2>3. CASE db' = db /\ pc'[c] \in {"idle", "next"}
    BY <2>1, <2>3, SavedKept
  <2> QED
    BY <1>a, <2>1, <2>2, <2>3 DEF Phases
<1>8. ASSUME NEW i \in Legs, NEW type \in EventTypes, Ignore(c, i, type) \/ LockTimesOut(c, i, type)
      PROVE  Still
  BY <1>8 DEF Ignore, LockTimesOut, Still
<1> QED
  BY <1>1, <1>2, <1>3, <1>4, <1>5, <1>6, <1>7, <1>8 DEF Event

LEMMA StepFaces ==
  ASSUME TypeOK, HandlersConsistent, NEW c \in Calls, Step(c)
  PROVE  Behind(c) \/ Still \/ Reject(c) \/ Admit(c) \/ Connects(c) \/ SaveEnd(c) \/ Bill(c)
<1>1. CASE Phone(c)
  BY <1>1 DEF Phone, LegEnds, BuyerAnswers, Still, records
<1> QED
  BY <1>1, SetupFaces, HandlerFaces, EventFaces DEF Step, HandlersConsistent

\* One step of a call keeps the books of every call.
LEMMA StepBooks ==
  ASSUME TypeOK, HandlersConsistent, Books, NEW c \in Calls, Step(c), NEW d \in Calls
  PROVE  RowExact(d)' /\ Billed(d)'
<1> USE DEF counters, carrier, records
<1>0. /\ pc \in [Calls -> Positions] /\ db \in [Calls -> StateType] /\ mem \in [Calls -> StateType]
      /\ row \in [Calls -> Rows] /\ bills \in [Calls -> Nat]
  BY DEF TypeOK
<1>1. RowExact(c) /\ Billed(c) /\ Consistent(c) /\ RowExact(d) /\ Billed(d)
  BY DEF Books, HandlersConsistent
<1>a. mem[c] \in StateType
  BY <1>0
\* The books of the other calls.
<1>2. CASE d # c
  <2>1. pc'[d] = pc[d] /\ db'[d] = db[d]
    BY <1>2, StepIsLocal DEF Untouched
  <2>2. CASE Behind(c) \/ Still
    BY <1>1, <2>1, <2>2 DEF Behind, Still, RowExact, Billed, Closed
  <2>3. CASE Reject(c) \/ Admit(c) \/ SaveEnd(c) \/ Bill(c)
    <3>1. row'[d] = row[d] /\ bills'[d] = bills[d]
      BY <1>0, <1>2, <2>3 DEF Reject, Admit, SaveEnd, Bill
    <3> QED
      BY <1>1, <2>1, <3>1 DEF RowExact, Billed, Closed
  <2>4. CASE Connects(c)
    <3>1. row'[d] = row[d] /\ bills'[d] = bills[d]
      BY <1>0, <1>2, <2>4 DEF Connects, Connect
    <3> QED
      BY <1>1, <2>1, <3>1 DEF RowExact, Billed, Closed
  <2> QED
    BY <2>2, <2>3, <2>4, StepFaces
<1>3. CASE d = c /\ Still
  BY <1>1, <1>3 DEF Still, RowExact, Billed, Closed
<1>4. CASE d = c /\ Behind(c)
  BY <1>1, <1>4 DEF Behind, RowExact, Billed
<1>5. CASE d = c /\ (Reject(c) \/ Admit(c))
  <2>1. /\ pc[c] = "new" /\ db'[c] = db[c] /\ bills' = bills
        /\ \/ pc'[c] = "rejected" /\ row'[c] = "REJECTED"
           \/ pc'[c] = "setup" /\ row'[c] = "RINGING"
    BY <1>0, <1>5 DEF Reject, Admit, NewCall
  <2>2. ~db[c].bridged
    BY <1>1, <2>1 DEF Consistent, NoState
  <2> QED
    BY <1>1, <1>5, <2>1, <2>2 DEF RowExact, Billed, Closed
<1>6. CASE d = c /\ Connects(c)
  <2>1. mem'[c] = [mem[c] EXCEPT !.phase = "connected", !.bridged = TRUE] /\ db'[c] = mem'[c]
    BY <1>0, <1>6 DEF Connects, Connect
  <2>2. db'[c].phase = "connected" /\ db'[c].bridged = TRUE
    BY <1>a, <2>1 DEF StateType
  <2>3. row'[c] = "IN_PROGRESS" /\ bills' = bills /\ pc' = pc /\ pc[c] = "idle" /\ db[c].phase # "ended"
    BY <1>0, <1>6 DEF Connects, Connect
  <2> QED
    BY <1>1, <1>6, <2>2, <2>3 DEF RowExact, Billed, Closed
<1>7. CASE d = c /\ SaveEnd(c)
  <2>1. /\ pc[c] = "save" /\ pc'[c] = "account" /\ row' = row /\ bills' = bills
        /\ mem'[c] = [mem[c] EXCEPT !.phase = "ended"] /\ db'[c] = mem'[c] /\ mem[c] = db[c]
    BY <1>0, <1>1, <1>7 DEF SaveEnd, Consistent
  <2>2. db'[c].bridged = db[c].bridged
    BY <1>a, <2>1 DEF StateType
  <2> QED
    BY <1>1, <1>7, <2>1, <2>2 DEF RowExact, Billed, Closed
<1>8. CASE d = c /\ Bill(c)
  <2>1. /\ pc[c] = "free" /\ pc'[c] = "idle" /\ db' = db /\ bills'[c] = bills[c] + 1
        /\ row'[c] = IF mem[c].bridged THEN "COMPLETED" ELSE "NO_ANSWER"
    BY <1>0, <1>8 DEF Bill
  <2>2. mem[c] = db[c] /\ db[c].phase = "ended"
    BY <1>1, <2>1 DEF Consistent
  <2>3. bills[c] = 0
    BY <1>1, <2>1 DEF Billed, Closed
  <2> QED
    BY <1>8, <2>1, <2>2, <2>3 DEF RowExact, Billed, Closed
<1> QED
  BY <1>2, <1>3, <1>4, <1>5, <1>6, <1>7, <1>8, StepFaces

LEMMA NextBooks ==
  ASSUME TypeOK, HandlersConsistent, Books, [Next]_vars
  PROVE  Books'
<1>1. CASE Tick \/ UNCHANGED vars
  BY <1>1 DEF Tick, vars, records, Books, RowExact, Billed, Closed
<1>2. ASSUME NEW c \in Calls, Step(c)
      PROVE  Books'
  BY <1>2, StepBooks DEF Books
<1> QED
  BY <1>1, <1>2 DEF Next, Step

LEMMA BooksKept == Spec => [](Inv /\ Books)
<1>1. Init => Books
  BY DEF Init, Books, RowExact, Billed, Closed, NoState
<1>2. Inv /\ Books /\ [Next]_vars => Books'
  BY NextBooks DEF Inv
<1> QED
  BY <1>1, <1>2, Invariance, PTL DEF Spec

\* A call is charged once, by the handler that saved its end, whatever events of its legs
\* are delivered, repeated or late, and never while it is still going on (finalize).
THEOREM ChargedOnce == Spec => []BilledOnce
<1>1. Books => BilledOnce
  BY DEF Books, Billed, BilledOnce, Closed
<1> QED
  BY <1>1, BooksKept, PTL

-----------------------------------------------------------------------------
(* The engine is a Switchboard *)

\* The stage of a call and the scopes it is connected under, read off pc and db alone.
Look(c) == IF pc[c] = "new" THEN "none"
           ELSE IF pc[c] = "rejected" THEN "refused"
           ELSE IF Closed(c) THEN "charged"
           ELSE IF db[c].phase = "ended" THEN "over"
           ELSE IF db[c].bridged THEN "talking" ELSE "waiting"
On(c) == IF Look(c) = "talking" THEN ScopesOf(c, db[c]) ELSE {}

\* The books tell the same.
LEMMA StageRead ==
  ASSUME NEW c \in Calls
  PROVE  /\ RowExact(c) => Stage(c) = Look(c)
         /\ RowExact(c)' => Stage(c)' = Look(c)'
<1>1. RowExact(c) => Stage(c) = Look(c)
  BY DEF RowExact, Stage, Look, Closed
<1>2. RowExact(c)' => Stage(c)' = Look(c)'
  BY DEF RowExact, Stage, Look, Closed
<1> QED
  BY <1>1, <1>2

\* Who counts against a limit in the Switchboard is counted in the engine.
LEMMA LetInHold ==
  ASSUME HandlersConsistent, Cap[Account] # 0
  PROVE  {c \in Calls : Look(c) \in {"waiting", "talking"}} \subseteq Holders(Account)
<1> SUFFICES ASSUME NEW c \in Calls, Look(c) \in {"waiting", "talking"}
             PROVE  HoldsLine(c)
  BY DEF Holders, Counted
<1>1. pc[c] \notin {"new", "rejected"} /\ db[c].phase # "ended"
  BY DEF Look
<1> QED
  BY <1>1 DEF HandlersConsistent, Consistent, HoldsLine

LEMMA OnHold ==
  ASSUME TypeOK, HandlersConsistent, NEW c \in Calls
  PROVE  On(c) \subseteq Counted(c)
<1> SUFFICES ASSUME Look(c) = "talking"
             PROVE  ScopesOf(c, db[c]) \subseteq Counted(c)
  BY DEF On
<1>1. db[c].bridged /\ db[c].phase # "ended" /\ Consistent(c) /\ pc[c] \in Positions
  BY DEF Look, HandlersConsistent, TypeOK
<1>2. pc[c] \in {"idle", "end", "save"} /\ mem[c] = db[c]
  BY <1>1 DEF Consistent, InDial, NoState, Positions
<1>3. Connected(c)
  BY <1>1, <1>2 DEF Connected
<1> QED
  BY <1>1, <1>2, <1>3 DEF Counted, InDial, Unwinding

LEMMA RoomFor ==
  ASSUME Inv, NEW s \in Scopes, NEW T, T \subseteq Holders(s), Cap[s] # 0 => live[s] < Cap[s]
  PROVE  Cap[s] = 0 \/ Cardinality(T) < Cap[s]
<1>1. Cardinality(T) <= Cardinality(Holders(s)) /\ Cardinality(T) \in Nat
  BY HoldersFinite, FS_Subset, FS_CardinalityType
<1>2. Cardinality(Holders(s)) = live[s] /\ live[s] \in Nat /\ Cap[s] \in Nat
  BY ConstantsAssumption DEF Inv, CountersExact, TypeOK
<1> QED
  BY <1>1, <1>2

\* The call itself holds a line that those who talk already do not.
LEMMA RoomBeside ==
  ASSUME Inv, NEW s \in Scopes, NEW c \in Holders(s), NEW T, T \subseteq Holders(s) \ {c}
  PROVE  Cap[s] = 0 \/ Cardinality(T) < Cap[s]
<1>1. IsFiniteSet(Holders(s) \ {c}) /\ Cardinality(Holders(s) \ {c}) = Cardinality(Holders(s)) - 1
  BY HoldersFinite, FS_RemoveElement
<1>2. Cardinality(T) <= Cardinality(Holders(s) \ {c}) /\ Cardinality(T) \in Nat
  BY <1>1, FS_Subset, FS_CardinalityType
<1>3. Cap[s] # 0 => Cardinality(Holders(s)) <= Cap[s]
  BY HeldWithinCap
<1>4. Cardinality(Holders(s)) \in Nat /\ Cap[s] \in Nat
  BY HoldersFinite, ConstantsAssumption
<1> QED
  BY <1>1, <1>2, <1>3, <1>4

\* What each kind of step does to the look of its call.
LEMMA LookSteps ==
  ASSUME TypeOK, NEW c \in Calls, Consistent(c)
  PROVE  /\ Behind(c) \/ Still => Look(c)' = Look(c) /\ On(c)' = On(c)
         /\ Reject(c) => Look(c) = "none" /\ Look(c)' = "refused"
         /\ Admit(c) => Look(c) = "none" /\ Look(c)' = "waiting"
         /\ Connects(c) => /\ Look(c) = "waiting" /\ Look(c)' = "talking"
                           /\ ScopesOf(c, db[c])' = ScopesOf(c, mem[c])
         /\ SaveEnd(c) => Look(c) \in {"waiting", "talking"} /\ Look(c)' = "over"
         /\ Bill(c) => Look(c) = "over" /\ Look(c)' = "charged"
<1> USE DEF counters, carrier, records
<1>0. /\ pc \in [Calls -> Positions] /\ db \in [Calls -> StateType] /\ mem \in [Calls -> StateType]
      /\ mem[c] \in StateType
  BY DEF TypeOK
<1>1. Behind(c) => Look(c)' = Look(c) /\ On(c)' = On(c)
  <2> SUFFICES ASSUME Behind(c)
               PROVE  Look(c)' = Look(c) /\ On(c)' = On(c)
    OBVIOUS
  <2>1. Look(c)' = Look(c)
    BY DEF Behind, Look
  <2>2. Look(c) = "talking" => db'[c] = db[c]
    BY DEF Behind, Look
  <2> QED
    BY <2>1, <2>2 DEF On, ScopesOf, ScopesAt, ScopeSeq, Cands, Behind
<1>2. Still => Look(c)' = Look(c) /\ On(c)' = On(c)
  BY DEF Still, Look, On, Closed, ScopesOf, ScopesAt, ScopeSeq, Cands
<1>3. Reject(c) \/ Admit(c) =>
        /\ Look(c) = "none"
        /\ Reject(c) => Look(c)' = "refused"
        /\ Admit(c) => Look(c)' = "waiting"
  <2> SUFFICES ASSUME Reject(c) \/ Admit(c)
               PROVE  /\ Look(c) = "none"
                      /\ Reject(c) => Look(c)' = "refused"
                      /\ Admit(c) => Look(c)' = "waiting"
    OBVIOUS
  <2>1. pc[c] = "new" /\ db' = db
    BY DEF Reject, Admit, NewCall
  <2>2. db[c].phase = "none" /\ ~db[c].bridged
    BY <2>1 DEF Consistent, NoState
  <2>3. (Reject(c) => pc'[c] = "rejected") /\ (Admit(c) => pc'[c] = "setup")
    BY <1>0 DEF Reject, Admit
  <2> QED
    BY <2>1, <2>2, <2>3 DEF Look, Closed
<1>4. Connects(c) => /\ Look(c) = "waiting" /\ Look(c)' = "talking"
                     /\ ScopesOf(c, db[c])' = ScopesOf(c, mem[c])
  <2> SUFFICES ASSUME Connects(c)
               PROVE  /\ Look(c) = "waiting" /\ Look(c)' = "talking"
                      /\ ScopesOf(c, db[c])' = ScopesOf(c, mem[c])
    OBVIOUS
  <2>1. /\ mem'[c] = [mem[c] EXCEPT !.phase = "connected", !.bridged = TRUE] /\ db'[c] = mem'[c]
        /\ pc' = pc /\ plan' = plan
    BY <1>0 DEF Connects, Connect
  <2>2. /\ db'[c].phase = "connected" /\ db'[c].bridged = TRUE /\ db'[c].route = mem[c].route
        /\ db'[c].fb = mem[c].fb
    BY <1>0, <2>1 DEF StateType
  <2>3. ScopesOf(c, db[c])' = ScopesOf(c, mem[c])
    BY <2>1, <2>2 DEF ScopesOf, ScopesAt, ScopeSeq, Cands
  <2> QED
    BY <2>1, <2>2, <2>3 DEF Look, Closed, Connects
<1>5. SaveEnd(c) => Look(c) \in {"waiting", "talking"} /\ Look(c)' = "over"
  <2> SUFFICES ASSUME SaveEnd(c)
               PROVE  Look(c) \in {"waiting", "talking"} /\ Look(c)' = "over"
    OBVIOUS
  <2>1. /\ pc[c] = "save" /\ pc'[c] = "account"
        /\ mem'[c] = [mem[c] EXCEPT !.phase = "ended"] /\ db'[c] = mem'[c]
    BY <1>0 DEF SaveEnd
  <2>2. db'[c].phase = "ended"
    BY <1>0, <2>1 DEF StateType
  <2>3. db[c].phase # "ended"
    BY <2>1 DEF Consistent
  <2> QED
    BY <2>1, <2>2, <2>3 DEF Look, Closed
<1>6. Bill(c) => Look(c) = "over" /\ Look(c)' = "charged"
  <2> SUFFICES ASSUME Bill(c)
               PROVE  Look(c) = "over" /\ Look(c)' = "charged"
    OBVIOUS
  <2>1. pc[c] = "free" /\ pc'[c] = "idle" /\ db' = db
    BY <1>0 DEF Bill
  <2>2. db[c].phase = "ended"
    BY <2>1 DEF Consistent
  <2> QED
    BY <2>1, <2>2 DEF Look, Closed
<1> QED
  BY <1>1, <1>2, <1>3, <1>4, <1>5, <1>6

LEMMA UntouchedLook ==
  ASSUME NEW d \in Calls, Untouched(d)
  PROVE  Look(d)' = Look(d) /\ On(d)' = On(d)
BY DEF Untouched, Look, On, Closed, ScopesOf, ScopesAt, ScopeSeq, Cands

\* The variables of the Switchboard.
stageOf == [c \in Calls |-> Look(c)]
onOf == [c \in Calls |-> On(c)]

LEMMA BoardRead ==
  /\ Books => /\ [c \in Calls |-> Stage(c)] = stageOf
              /\ [c \in Calls |-> IF Stage(c) = "talking" THEN ScopesOf(c, db[c]) ELSE {}] = onOf
  /\ Books' => /\ [c \in Calls |-> Stage(c)]' = stageOf'
               /\ [c \in Calls |-> IF Stage(c) = "talking" THEN ScopesOf(c, db[c]) ELSE {}]' = onOf'
<1>1. Books => \A c \in Calls : Stage(c) = Look(c)
  BY StageRead DEF Books
<1>2. Books' => \A c \in Calls : Stage(c)' = Look(c)'
  BY StageRead DEF Books
<1> QED
  BY <1>1, <1>2 DEF stageOf, onOf, On

LEMMA BoardStarts == Init => Board!BoardInit
<1> SUFFICES ASSUME Init
             PROVE  Board!BoardInit
  OBVIOUS
<1>1. \A c \in Calls : Stage(c) = "none"
  BY DEF Init, Stage
<1> QED
  BY <1>1 DEF Init, Board!BoardInit

\* The Switchboard counts as FiniteSets does.
LEMMA BoardCardinality ==
  ASSUME NEW S
  PROVE  Board!Cardinality(S) = Cardinality(S)
BY Zenon DEF Board!Cardinality, Cardinality

LEMMA BoardSteps ==
  ASSUME Inv, Books, Books', NEW c \in Calls, Step(c)
  PROVE  Board!BoardNext \/ UNCHANGED Board!bvars
<1> USE DEF counters, carrier, records
<1>0. /\ TypeOK /\ HandlersConsistent /\ Consistent(c)
      /\ bills \in [Calls -> Nat]
  BY DEF Inv, HandlersConsistent, TypeOK
<1>1. \A d \in Calls \ {c} : Look(d)' = Look(d) /\ On(d)' = On(d)
  BY <1>0, StepIsLocal, UntouchedLook
<1>2. stageOf' = [stageOf EXCEPT ![c] = Look(c)'] /\ onOf' = [onOf EXCEPT ![c] = On(c)']
  BY <1>1 DEF stageOf, onOf
<1>3. stageOf[c] = Look(c) /\ onOf[c] = On(c)
  BY DEF stageOf, onOf
<1>4. CASE Behind(c) \/ Still
  <2>1. Look(c)' = Look(c) /\ On(c)' = On(c) /\ bills' = bills
    BY <1>0, <1>4, LookSteps DEF Behind, Still
  <2>2. stageOf' = stageOf /\ onOf' = onOf
    BY <1>1, <2>1 DEF stageOf, onOf
  <2> QED
    BY <2>1, <2>2, BoardRead DEF Board!bvars
<1>5. CASE Reject(c)
  <2>1. Look(c) = "none" /\ Look(c)' = "refused" /\ bills' = bills
    BY <1>0, <1>5, LookSteps DEF Reject
  <2>2. On(c)' = On(c)
    BY <2>1 DEF On
  <2>3. stageOf[c] = "none" /\ stageOf' = [stageOf EXCEPT ![c] = "refused"] /\ onOf' = onOf
    BY <1>1, <1>2, <1>3, <2>1, <2>2 DEF onOf
  <2>4. Board!Refuse(c)
    BY <2>1, <2>3, BoardRead DEF Board!Refuse
  <2> QED
    BY <2>4 DEF Board!BoardNext
<1>6. CASE Admit(c)
  <2>1. Look(c) = "none" /\ Look(c)' = "waiting" /\ bills' = bills
    BY <1>0, <1>6, LookSteps DEF Admit
  <2>2. On(c)' = On(c)
    BY <2>1 DEF On
  <2>3. stageOf[c] = "none" /\ stageOf' = [stageOf EXCEPT ![c] = "waiting"] /\ onOf' = onOf
    BY <1>1, <1>2, <1>3, <2>1, <2>2 DEF onOf
  <2>4. Cap[Account] # 0 => live[Account] < Cap[Account]
    BY <1>6 DEF Admit, Room
  <2>5. Cap[Account] = 0 \/ Cardinality({d \in Calls : Look(d) \in {"waiting", "talking"}}) < Cap[Account]
    BY <1>0, <2>4, LetInHold, RoomFor, ConstantsAssumption
  <2>6. {d \in Calls : stageOf[d] \in {"waiting", "talking"}}
          = {d \in Calls : Look(d) \in {"waiting", "talking"}}
    BY DEF stageOf
  <2>7. Board!LetIn = {d \in Calls : Look(d) \in {"waiting", "talking"}}
    BY <2>6, BoardRead DEF Board!LetIn
  <2>8. Board!Accept(c)
    BY <2>1, <2>3, <2>5, <2>7, BoardRead, BoardCardinality DEF Board!Accept, Board!Fits
  <2> QED
    BY <2>8 DEF Board!BoardNext
<1>7. CASE Connects(c)
  <2>1. Look(c) = "waiting" /\ Look(c)' = "talking" /\ bills' = bills
    BY <1>0, <1>7, LookSteps DEF Connects
  <2>2. On(c)' = ScopesOf(c, mem[c])
    BY <1>0, <1>7, <2>1, LookSteps DEF On
  <2> DEFINE buyer == ScopesOf(c, mem[c])
  <2>3. buyer \in SUBSET (Scopes \ {Account})
    BY <1>0, ScopesOfTyped
  <2>4. c \notin {d \in Calls : Look(d) = "talking"} /\ buyer \subseteq Counted(c)
    <3>1. mem[c] = db[c] /\ Ringing(c)
      BY <1>0, <1>7 DEF Connects, Consistent, Ringing
    <3> QED
      BY <2>1, <3>1 DEF Counted, InDial, Unwinding, Ringing
  <2>5. ASSUME NEW s \in buyer
        PROVE  Cap[s] = 0 \/ Cardinality({d \in Calls : s \in onOf[d]}) < Cap[s]
    <3>1. c \in Holders(s) /\ s \in Scopes
      BY <2>3, <2>4 DEF Holders
    <3>2. On(c) = {}
      BY <2>1 DEF On
    <3>3. {d \in Calls : s \in onOf[d]} \subseteq Holders(s) \ {c}
      BY <1>0, <3>2, OnHold DEF onOf, Holders
    <3> QED
      BY <3>1, <3>3, RoomBeside
  <2>6. /\ stageOf[c] = "waiting" /\ stageOf' = [stageOf EXCEPT ![c] = "talking"]
        /\ onOf' = [onOf EXCEPT ![c] = buyer]
    BY <1>2, <1>3, <2>1, <2>2
  <2> HIDE DEF buyer
  <2>7. \A s \in buyer : Board!Fits(Cap[s], {d \in Calls : s \in onOf[d]})
    BY <2>5, BoardCardinality DEF Board!Fits
  <2> DEFINE talk == [d \in Calls |-> IF Stage(d) = "talking" THEN ScopesOf(d, db[d]) ELSE {}]
  <2> DEFINE shown == [d \in Calls |-> Stage(d)]
  <2>8. talk = onOf /\ talk' = onOf' /\ shown = stageOf /\ shown' = stageOf'
    BY BoardRead
  <2>9. /\ shown[c] = "waiting" /\ shown' = [shown EXCEPT ![c] = "talking"]
        /\ \A s \in buyer : Board!Fits(Cap[s], {d \in Calls : s \in talk[d]})
        /\ talk' = [talk EXCEPT ![c] = buyer]
        /\ bills' = bills
    <3> HIDE DEF talk, shown
    <3> QED
      BY <2>1, <2>6, <2>7, <2>8
  <2>10. Board!Connect(c)
    BY <2>3, <2>9 DEF Board!Connect
  <2> QED
    BY <2>10 DEF Board!BoardNext
<1>8. CASE SaveEnd(c)
  <2>1. Look(c) \in {"waiting", "talking"} /\ Look(c)' = "over" /\ bills' = bills
    BY <1>0, <1>8, LookSteps DEF SaveEnd
  <2>2. On(c)' = {}
    BY <2>1 DEF On
  <2>3. /\ stageOf[c] \in {"waiting", "talking"} /\ stageOf' = [stageOf EXCEPT ![c] = "over"]
        /\ onOf' = [onOf EXCEPT ![c] = {}]
    BY <1>2, <1>3, <2>1, <2>2
  <2>4. Board!Finish(c)
    BY <2>1, <2>3, BoardRead DEF Board!Finish
  <2> QED
    BY <2>4 DEF Board!BoardNext
<1>9. CASE Bill(c)
  <2>1. Look(c) = "over" /\ Look(c)' = "charged" /\ bills' = [bills EXCEPT ![c] = @ + 1]
    BY <1>0, <1>9, LookSteps DEF Bill
  <2>2. On(c)' = On(c)
    BY <2>1 DEF On
  <2>3. stageOf[c] = "over" /\ stageOf' = [stageOf EXCEPT ![c] = "charged"] /\ onOf' = onOf
    BY <1>1, <1>2, <1>3, <2>1, <2>2 DEF onOf
  <2>4. Board!Charge(c)
    BY <2>1, <2>3, BoardRead DEF Board!Charge
  <2> QED
    BY <2>4 DEF Board!BoardNext
<1> QED
  BY <1>0, <1>4, <1>5, <1>6, <1>7, <1>8, <1>9, StepFaces

\* The engine with its lock, its counters and its events does to a call only what the
\* Switchboard allows: nobody is let in or connected beyond a cap, and every call that was
\* let in ends once and is charged once.
THEOREM Refinement == Spec => ImplementsSwitchboard
<1>1. Init => Board!BoardInit
  BY BoardStarts
<1>2. Inv /\ Books /\ Books' /\ [Next]_vars => [Board!BoardNext]_(Board!bvars)
  <2> SUFFICES ASSUME Inv, Books, Books', [Next]_vars
               PROVE  Board!BoardNext \/ UNCHANGED Board!bvars
    OBVIOUS
  <2>1. CASE Tick \/ UNCHANGED vars
    <3>1. /\ \A c \in Calls : Stage(c)' = Stage(c) /\ ScopesOf(c, db[c])' = ScopesOf(c, db[c])
          /\ bills' = bills
      BY <2>1 DEF Tick, vars, records, Stage, ScopesOf, ScopesAt, ScopeSeq, Cands
    <3> QED
      BY <3>1 DEF Board!bvars
  <2>2. ASSUME NEW c \in Calls, Step(c)
        PROVE  Board!BoardNext \/ UNCHANGED Board!bvars
    BY <2>2, BoardSteps
  <2> QED
    BY <2>1, <2>2 DEF Next, Step
<1> QED
  BY <1>1, <1>2, BooksKept, PTL DEF Spec, ImplementsSwitchboard, Board!BoardSpec
=============================================================================
