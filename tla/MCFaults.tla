------------------------------ MODULE MCFaults ------------------------------
(* CallEngineFaults: three calls that want a buyer who takes one at a time. *)
EXTENDS CallEngineFaults, TLC

CONSTANTS b

McPlans == {[cands |-> <<[scopes |-> <<b>>, agent |-> NoAgent]>>, notice |-> FALSE,
             ivr |-> FALSE, whisper |-> FALSE, fallback |-> FALSE]}
McScopes == {b, Account}
McCap == (b :> 1) @@ (Account :> 0)
McPeriodCap == (b :> 0) @@ (Account :> 0)
Symmetry == Permutations(Calls)
=============================================================================
