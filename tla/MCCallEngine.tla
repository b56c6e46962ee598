---------------------------- MODULE MCCallEngine ----------------------------
(***************************************************************************)
(* CallEngine on small instances.                                          *)
(*                                                                         *)
(* Two calls of different campaigns (MCCallEngine.cfg): the first tries a  *)
(* buyer's route r1 and then the buyer's agent on r2; the second has every *)
(* optional stage and wants the same agent.  Buyer and agent take one call *)
(* at a time, r1 one per period.                                           *)
(***************************************************************************)
EXTENDS CallEngine, TLC

CONSTANTS c1, c2, r1, r2, b, a1

First  == [scopes |-> <<r1, b>>, agent |-> NoAgent]
Second == [scopes |-> <<r2, b>>, agent |-> a1]

Direct == [cands |-> <<First, Second>>, notice |-> FALSE, ivr |-> FALSE,
           whisper |-> FALSE, fallback |-> FALSE]
Staged == [cands |-> <<Second>>, notice |-> TRUE, ivr |-> TRUE,
           whisper |-> TRUE, fallback |-> TRUE]

McCalls == {c1, c2}
McPlans == {Direct, Staged}
McScopes == {r1, r2, b, Account}
McCap == (r1 :> 0) @@ (r2 :> 1) @@ (b :> 1) @@ (Account :> 2)
McPeriodCap == (r1 :> 1) @@ (r2 :> 0) @@ (b :> 0) @@ (Account :> 0)

McInit == Init /\ plan = (c1 :> Direct) @@ (c2 :> Staged)
McSpec == McInit /\ [][Next]_vars
=============================================================================
