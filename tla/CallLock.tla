------------------------------ MODULE CallLock ------------------------------
(***************************************************************************)
(* The lock that serialises the handlers of one call: withLock and         *)
(* withState of routing/call-engine.service.ts.                            *)
(*                                                                         *)
(* A carrier event starts a handler; handlers of one call share the Redis  *)
(* key lock:call:<id>, written with NX and an expiry (PX).  The model      *)
(* counts time in units: LockTtl units are the 15 s of the expiry,         *)
(* LockWait units the 10 s a handler waits before it gives up.  A handler  *)
(* may take longer than either (a carrier's dial is awaited under the      *)
(* lock), may throw (logged, then the lock is released as well), or may    *)
(* stop with the process that runs it.                                     *)
(***************************************************************************)
EXTENDS Integers, FiniteSets

CONSTANTS
  Handler,    \* events delivered for the call, one handler each
  LockTtl,    \* PX 15_000, in units of time
  LockWait    \* 10_000 ms until a waiter gives up, in the same units

ASSUME LockAssumption == IsFiniteSet(Handler) /\ LockTtl \in Nat \ {0} /\ LockWait \in Nat

Nobody == "nobody"
ASSUME NobodyAssumption == Nobody \notin Handler

VARIABLES
  owner,    \* whose token lock:call:<id> holds, Nobody when the key is absent
  ttl,      \* units until the key expires
  stage,    \* where each handler stands
  left,     \* units a waiting handler has before its deadline is over
  held,     \* units since a handler took the lock; stops counting at LockTtl
  raced     \* a key has expired between the get and the del of its owner

lockVars == <<owner, ttl, stage, left, held, raced>>

Stages == {"new", "waiting", "running", "comparing", "deleting", "done", "lost", "stopped"}
\* The handler's function, or the finally block behind it, is executing.
Inside == {"running", "comparing", "deleting"}

LockTypeOK ==
  /\ owner \in Handler \cup {Nobody}
  /\ ttl \in 0 .. LockTtl
  /\ stage \in [Handler -> Stages]
  /\ left \in [Handler -> 0 .. LockWait + 1]
  /\ held \in [Handler -> 0 .. LockTtl]
  /\ raced \in BOOLEAN

LockInit ==
  /\ owner = Nobody
  /\ ttl = 0
  /\ stage = [h \in Handler |-> "new"]
  /\ left = [h \in Handler |-> 0]
  /\ held = [h \in Handler |-> 0]
  /\ raced = FALSE

-----------------------------------------------------------------------------
(* The event arrives: the handler draws a token and sets its deadline. *)
Deliver(h) ==
  /\ stage[h] = "new"
  /\ stage' = [stage EXCEPT ![h] = "waiting"]
  /\ left' = [left EXCEPT ![h] = LockWait + 1]
  /\ UNCHANGED <<owner, ttl, held, raced>>

\* SET NX PX succeeds only when the key is absent.
Take(h) ==
  /\ stage[h] = "waiting"
  /\ owner = Nobody
  /\ owner' = h
  /\ ttl' = LockTtl
  /\ stage' = [stage EXCEPT ![h] = "running"]
  /\ UNCHANGED <<left, held, raced>>

\* (mutant) the first try is the last
GiveUpAtOnce(h) ==
  /\ stage[h] = "waiting"
  /\ owner # Nobody
  /\ stage' = [stage EXCEPT ![h] = "lost"]
  /\ UNCHANGED <<owner, ttl, left, held, raced>>

\* The lock is taken and the deadline is over: the event is dropped.
GiveUp(h) ==
  /\ stage[h] = "waiting"
  /\ owner # Nobody
  /\ left[h] = 0
  /\ stage' = [stage EXCEPT ![h] = "lost"]
  /\ UNCHANGED <<owner, ttl, left, held, raced>>

\* The handler's function returns or throws; an exception is only logged.
Return(h) ==
  /\ stage[h] = "running"
  /\ stage' = [stage EXCEPT ![h] = "comparing"]
  /\ UNCHANGED <<owner, ttl, left, held, raced>>

\* (mutant) the key is deleted whoever's token it holds
CompareNothing(h) ==
  /\ stage[h] = "comparing"
  /\ stage' = [stage EXCEPT ![h] = "deleting"]
  /\ UNCHANGED <<owner, ttl, left, held, raced>>

\* GET: only the handler whose token is still there goes on to delete the key.
Compare(h) ==
  /\ stage[h] = "comparing"
  /\ stage' = [stage EXCEPT ![h] = IF owner = h THEN "deleting" ELSE "done"]
  /\ UNCHANGED <<owner, ttl, left, held, raced>>

\* DEL, a command of its own: it deletes the key whoever holds it by now.
Delete(h) ==
  /\ stage[h] = "deleting"
  /\ owner' = Nobody
  /\ ttl' = 0
  /\ stage' = [stage EXCEPT ![h] = "done"]
  /\ UNCHANGED <<left, held, raced>>

\* The process stops with the handler inside; the key stays until it expires.
Stop(h) ==
  /\ stage[h] \in Inside
  /\ stage' = [stage EXCEPT ![h] = "stopped"]
  /\ UNCHANGED <<owner, ttl, left, held, raced>>

\* (mutant) SET NX without PX
LockTickNoExpiry ==
  /\ owner = Nobody => \A h \in Handler : stage[h] # "waiting"
  /\ left' = [h \in Handler |-> IF left[h] = 0 THEN 0 ELSE left[h] - 1]
  /\ held' = [h \in Handler |-> IF stage[h] \in Inside /\ held[h] < LockTtl
                                THEN held[h] + 1 ELSE held[h]]
  /\ UNCHANGED <<owner, ttl, stage, raced>>

\* A unit of time: the key comes closer to its expiry, waiters to their deadline.
\* A unit is far longer than the 20 ms between two tries, so none passes while
\* a handler waits for a lock that is free.
LockTick ==
  /\ owner = Nobody => \A h \in Handler : stage[h] # "waiting"
  /\ ttl' = IF ttl = 0 THEN 0 ELSE ttl - 1
  /\ owner' = IF ttl' = 0 THEN Nobody ELSE owner
  /\ raced' = (raced \/ \E h \in Handler : owner = h /\ ttl = 1 /\ stage[h] = "deleting")
  /\ left' = [h \in Handler |-> IF left[h] = 0 THEN 0 ELSE left[h] - 1]
  /\ held' = [h \in Handler |-> IF stage[h] \in Inside /\ held[h] < LockTtl
                                THEN held[h] + 1 ELSE held[h]]
  /\ UNCHANGED stage

HandlerStep(h) ==
  \/ Deliver(h) \/ Take(h) \/ GiveUp(h) \/ Return(h)
  \/ Compare(h) \/ Delete(h) \/ Stop(h)

LockNext == LockTick \/ \E h \in Handler : HandlerStep(h)

LockSpec == LockInit /\ [][LockNext]_lockVars
-----------------------------------------------------------------------------
(* Of two handlers of a call that are inside at the same time, one was     *)
(* inside for the 15 s the lock lasts: a handler that is quicker is never  *)
(* disturbed by another quick one, though slow ones lose the lock and come *)
(* back to release it.  For this withLock compares its token before it     *)
(* deletes the key; as these are two commands, it holds only as long as no *)
(* key expires between them.                                               *)
Overstayed(h) == held[h] = LockTtl
LockExclusive ==
  ~raced => \A g, h \in Handler :
    stage[g] \in Inside /\ stage[h] \in Inside /\ g # h => Overstayed(g) \/ Overstayed(h)

\* The units in which handlers other than h were inside.
BusyUnits(h) == {unit \in (Handler \ {h}) \X (1 .. LockTtl) : unit[2] <= held[unit[1]]}

(* An event is dropped (the throw of line 730) only when the other         *)
(* handlers of the call kept the lock for the 10 s of the wait, or a       *)
(* process stopped and left the key behind: handlers that are quick enough *)
(* in sum lose no event.                                                   *)
LostOnlyWhenBusy ==
  \A h \in Handler : stage[h] = "lost" =>
    \/ \E g \in Handler : stage[g] = "stopped"
    \/ Cardinality(BusyUnits(h)) >= LockWait

(* Whatever happens to its holder, the lock is free again, and every       *)
(* handler that waits for it gets it or gives up: a handler that hangs or  *)
(* dies holds up a call for the 15 s of the expiry, not for good.          *)
LockComesBack == []<>(owner = Nobody /\ \A h \in Handler : stage[h] # "waiting")
=============================================================================
