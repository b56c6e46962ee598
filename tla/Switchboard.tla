----------------------------- MODULE Switchboard -----------------------------
(***************************************************************************)
(* What the call router promises, without legs, events, locks or counters: *)
(* a call is refused or waits, a waiting call may be connected to a buyer  *)
(* whose caps have room, every call that was let in ends once and is then  *)
(* charged once.  CallEngine implements it.                                *)
(***************************************************************************)
EXTENDS Integers, FiniteSets

CONSTANTS Calls, Scopes, Account, Cap

VARIABLES
  stage,     \* "none", "refused", "waiting", "talking", "over", "charged"
  on,        \* the scopes the call is connected under
  charges    \* how often the call was charged

bvars == <<stage, on, charges>>

\* Room for one more call among those that use up the limit.
Fits(limit, calls) == limit = 0 \/ Cardinality(calls) < limit

LetIn == {c \in Calls : stage[c] \in {"waiting", "talking"}}

BoardInit == /\ stage = [c \in Calls |-> "none"]
             /\ on = [c \in Calls |-> {}]
             /\ charges = [c \in Calls |-> 0]

Refuse(c) == /\ stage[c] = "none"
             /\ stage' = [stage EXCEPT ![c] = "refused"]
             /\ UNCHANGED <<on, charges>>

Accept(c) == /\ stage[c] = "none"
             /\ Fits(Cap[Account], LetIn)
             /\ stage' = [stage EXCEPT ![c] = "waiting"]
             /\ UNCHANGED <<on, charges>>

Connect(c) == /\ stage[c] = "waiting"
              /\ stage' = [stage EXCEPT ![c] = "talking"]
              /\ \E buyer \in SUBSET (Scopes \ {Account}) :
                   /\ \A s \in buyer : Fits(Cap[s], {d \in Calls : s \in on[d]})
                   /\ on' = [on EXCEPT ![c] = buyer]
              /\ UNCHANGED charges

Finish(c) == /\ stage[c] \in {"waiting", "talking"}
             /\ stage' = [stage EXCEPT ![c] = "over"]
             /\ on' = [on EXCEPT ![c] = {}]
             /\ UNCHANGED charges

Charge(c) == /\ stage[c] = "over"
             /\ stage' = [stage EXCEPT ![c] = "charged"]
             /\ charges' = [charges EXCEPT ![c] = @ + 1]
             /\ UNCHANGED on

BoardNext == \E c \in Calls : Refuse(c) \/ Accept(c) \/ Connect(c) \/ Finish(c) \/ Charge(c)

BoardSpec == BoardInit /\ [][BoardNext]_bvars
=============================================================================
