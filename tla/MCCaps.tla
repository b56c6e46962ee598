------------------------------- MODULE MCCaps -------------------------------
(***************************************************************************)
(* CallEngine with two calls of one campaign of an account that may have   *)
(* one call at a time, for a buyer who takes one call at a time and one in *)
(* each period.                                                            *)
(***************************************************************************)
EXTENDS CallEngine, TLC

CONSTANTS r1, b

Only == [scopes |-> <<r1, b>>, agent |-> NoAgent]

McPlans == {[cands |-> <<Only>>, notice |-> FALSE, ivr |-> FALSE, whisper |-> FALSE,
             fallback |-> FALSE]}
McScopes == {r1, b, Account}
McCap == (r1 :> 0) @@ (b :> 1) @@ (Account :> 1)
McPeriodCap == (r1 :> 0) @@ (b :> 1) @@ (Account :> 0)
=============================================================================
