------------------------------ MODULE Postbacks ------------------------------
(***************************************************************************)
(* A publisher is told about a call: routing/postback.service.ts.          *)
(*                                                                         *)
(* One row and the jobs for it: the one of the call, tried several times,  *)
(* and those of staff who press "retry", tried once.  A deliverer is one   *)
(* of the places of the queue's workers, on any server.  A job whose       *)
(* server stops is taken up by another one (BullMQ: a stalled job), unless *)
(* it has stalled too often.                                               *)
(***************************************************************************)
EXTENDS Integers, FiniteSets

CONSTANTS
  Deliverer,
  MaxTries,    \* attempts: 6
  MaxStalled,  \* maxStalledCount, as the worker leaves it: 1
  MaxRetries,  \* bound on the retries by hand
  MaxStops     \* bound on the servers that stop

ASSUME PostbacksAssumption ==
  IsFiniteSet(Deliverer) /\ MaxTries \in Nat \ {0} /\ {MaxStalled, MaxRetries, MaxStops} \subseteq Nat

\* Job 0 is the call's, the others are staff's.
Job == 0 .. MaxRetries

VARIABLES
  postback,  \* the row: whether it is there, its attempts and whether one succeeded
  job,       \* Redis: a job's state, the tries it has left and how often it has stalled
  carries,   \* what a deliverer does: its job, and what came of the call
  stops      \* servers stopped so far

postbackVars == <<postback, job, carries, stops>>

NoJob == [state |-> "none", left |-> 0, stalled |-> 0]
Unladen == [at |-> "idle", job |-> 0, ok |-> FALSE]

PostbacksInit ==
  /\ postback = [there |-> FALSE, attempts |-> 0, succeeded |-> FALSE]
  /\ job = [j \in Job |-> NoJob]
  /\ carries = [d \in Deliverer |-> Unladen]
  /\ stops = 0

-----------------------------------------------------------------------------
\* send: the row, and then its job, unless the server stops in between.
CreateRow ==
  /\ ~postback.there
  /\ postback' = [postback EXCEPT !.there = TRUE]
  /\ UNCHANGED <<job, carries, stops>>

AddJob ==
  /\ postback.there /\ job[0] = NoJob
  /\ job' = [job EXCEPT ![0] = [state |-> "waiting", left |-> MaxTries, stalled |-> 0]]
  /\ UNCHANGED <<postback, carries, stops>>

\* retry
RetryByHand(j) ==
  /\ j # 0 /\ postback.there /\ job[j] = NoJob
  /\ job' = [job EXCEPT ![j] = [state |-> "waiting", left |-> 1, stalled |-> 0]]
  /\ UNCHANGED <<postback, carries, stops>>

\* deliver: the row is read; nothing is left to do when an attempt has succeeded ...
TakeJob(d, j) ==
  /\ carries[d] = Unladen /\ job[j].state = "waiting"
  /\ IF postback.succeeded
     THEN /\ job' = [job EXCEPT ![j].state = "completed"]
          /\ UNCHANGED carries
     ELSE /\ job' = [job EXCEPT ![j].state = "active"]
          /\ carries' = [carries EXCEPT ![d] = [at |-> "fetch", job |-> j, ok |-> FALSE]]
  /\ UNCHANGED <<postback, stops>>

\* ... the publisher's server answers, refuses, or does not answer in time ...
CallPublisher(d) ==
  /\ carries[d].at = "fetch"
  /\ \E ok \in BOOLEAN :
       carries' = [carries EXCEPT ![d] = [at |-> "update", job |-> @.job, ok |-> ok]]
  /\ UNCHANGED <<postback, job, stops>>

Recorded(ok) == postback' = [postback EXCEPT !.attempts = @ + 1, !.succeeded = ok]

\* (mutant) the error is recorded and not thrown
UpdateOnly(d) ==
  /\ carries[d].at = "update"
  /\ Recorded(carries[d].ok)
  /\ job' = [job EXCEPT ![carries[d].job].state = "completed"]
  /\ carries' = [carries EXCEPT ![d] = Unladen]
  /\ UNCHANGED stops

\* ... and the row is updated, with what it was read with or not; an error is thrown
\* for the queue to try again, later, while tries are left.
Update(d) ==
  LET j == carries[d].job
  IN  /\ carries[d].at = "update"
      /\ Recorded(carries[d].ok)
      /\ job' = [job EXCEPT ![j] =
                   [state |-> CASE carries[d].ok -> "completed"
                                [] ~carries[d].ok /\ @.left > 1 -> "waiting"
                                [] OTHER -> "failed",
                    left |-> @.left - 1, stalled |-> @.stalled]]
      /\ carries' = [carries EXCEPT ![d] = Unladen]
      /\ UNCHANGED stops

\* A server stops; its job stalls and waits again, or fails with tries left when it has
\* stalled too often.
DelivererStops(d) ==
  /\ carries[d] # Unladen
  /\ stops < MaxStops /\ stops' = stops + 1
  /\ job' = [job EXCEPT ![carries[d].job] =
               [state |-> IF @.stalled < MaxStalled THEN "waiting" ELSE "failed",
                left |-> @.left, stalled |-> @.stalled + 1]]
  /\ carries' = [carries EXCEPT ![d] = Unladen]
  /\ UNCHANGED postback

\* The queue hands out what waits, and a call is answered or times out.
Delivers(d) == (\E j \in Job : TakeJob(d, j)) \/ CallPublisher(d) \/ Update(d)

PostbacksNext ==
  \/ CreateRow \/ AddJob
  \/ \E j \in Job : RetryByHand(j)
  \/ \E d \in Deliverer : Delivers(d) \/ DelivererStops(d)

PostbacksSpec == PostbacksInit /\ [][PostbacksNext]_postbackVars

-----------------------------------------------------------------------------
\* The servers of the call's job have stopped more often than the queue puts up with.
StalledOut == job[0].stalled > MaxStalled

\* No two deliverers have the same job.  The call's job is given up only after as many
\* attempts as there are tries, or when its servers have stopped more than MaxStalled times,
\* and is done with only when the row says that the publisher has heard (deliver, and the
\* queue's attempts).
NotGivenUpEarly ==
  /\ [](\A d, e \in Deliverer :
          carries[d] # Unladen /\ carries[e] # Unladen /\ carries[d].job = carries[e].job => d = e)
  /\ [](job[0].state = "failed" => postback.attempts >= MaxTries \/ StalledOut)
  /\ [][job[0].state # "completed" /\ job'[0].state = "completed" => postback'.succeeded]_postbackVars

(* "Retried 6 times" (postback.service.ts:28): the publisher of a call that *)
(* was queued hears of it, or has been tried as often as that, even when    *)
(* staff retry at the same time and servers stop in between: but at most    *)
(* MaxStalled of its own, for when another one stops the queue fails the    *)
(* job with tries left, and nothing tells the publisher but a retry by hand. *)
PublisherIsTold ==
  /\ NotGivenUpEarly
  /\ job[0].state = "waiting" ~> postback.succeeded \/ postback.attempts >= MaxTries \/ StalledOut
=============================================================================
