-------------------------- MODULE CallEngineFaults --------------------------
(***************************************************************************)
(* CallEngine with handlers that fail half-way: Redis or the database is   *)
(* unreachable for a moment, or the process stops.  withLock catches the   *)
(* exception (or the lock expires), the event counts as handled, what was  *)
(* written stays and the handler's copy of the state is lost.              *)
(***************************************************************************)
EXTENDS CallEngine

CONSTANT MaxFailures          \* bound: handlers that fail

VARIABLE failures

HandlerFails(c) ==
  /\ pc[c] \notin {"new", "rejected", "idle"}
  /\ failures < MaxFailures
  /\ failures' = failures + 1
  /\ pc' = [pc EXCEPT ![c] = "idle"]
  /\ mem' = [mem EXCEPT ![c] = db[c]]
  /\ taken' = [taken EXCEPT ![c] = {}]
  /\ UNCHANGED <<plan, db, now, line, live, used, period, carrier, records>>

FaultSpec == /\ Init /\ failures = 0
             /\ [][(Next /\ UNCHANGED failures) \/ \E c \in Calls : HandlerFails(c)]_<<vars, failures>>
-----------------------------------------------------------------------------
\* "2+ simultaneous calls to a cap-1 buyer: cap never exceeded", for conversations with
\* both parties on the phone.
ConversationsWithinCap ==
  \A s \in Scopes \ {Account} : Cap[s] # 0 =>
    Cardinality({c \in TalkingOn(s) : leg[c][0] = "up"}) <= Cap[s]
=============================================================================
