------------------------------ MODULE LiveBoard ------------------------------
(***************************************************************************)
(* The board of calls in progress: live of calls/calls.controller.ts.      *)
(*                                                                         *)
(* Every open page asks every two seconds.  The answer is kept in Redis,   *)
(* for all who see the same calls, for LIVE_CACHE_MS from when it is put   *)
(* there, which is a while after the rows were read.  An answer is kept as *)
(* who asked for it and how long ago its rows were read.                   *)
(***************************************************************************)
EXTENDS CallRows

CONSTANTS
  Viewers,   \* those who look, a subset of User
  Page,      \* the open pages
  LiveTtl,   \* LIVE_CACHE_MS, in ticks
  LiveSlow   \* bound on the time from the query to its answer

ASSUME LiveAssumption ==
  Viewers \subseteq User /\ LiveTtl \in Nat \ {0} /\ LiveSlow \in Nat

VARIABLES
  viewer,  \* who looks at a page
  kept,   \* Redis: for each key an answer with the ticks it has left, or NoAnswer
  asking,  \* a page's request: "idle", "miss", or "put" with the age of what it read
  shown    \* what the last request got: on which page, read by whom, how long ago

liveVars == <<viewer, kept, asking, shown>>

NoAnswer == [by |-> [role |-> "none", partner |-> "none"], age |-> 0, left |-> 0]
NotShown == [page |-> {}, by |-> NoAnswer.by, age |-> 0]
NotAsking == [at |-> "idle", age |-> 0]

\* (mutant) the partner is forgotten
LiveKeyOfRole(u) == <<u.role>>

LiveKey(u) == <<u.role, u.partner>>

-----------------------------------------------------------------------------
LiveInit ==
  /\ viewer \in [Page -> Viewers]
  /\ kept = [k \in {LiveKey(u) : u \in Viewers} |-> NoAnswer]
  /\ asking = [p \in Page |-> NotAsking]
  /\ shown = NotShown

\* redis.get
Hit(p) ==
  LET entry == kept[LiveKey(viewer[p])]
  IN  /\ asking[p] = NotAsking /\ entry # NoAnswer
      /\ shown' = [page |-> {p}, by |-> entry.by, age |-> entry.age]
      /\ UNCHANGED <<viewer, kept, asking>>

Miss(p) ==
  /\ asking[p] = NotAsking /\ kept[LiveKey(viewer[p])] = NoAnswer
  /\ asking' = [asking EXCEPT ![p].at = "miss"]
  /\ UNCHANGED <<viewer, kept, shown>>

\* findMany
Query(p) ==
  /\ asking[p].at = "miss"
  /\ asking' = [asking EXCEPT ![p] = [at |-> "put", age |-> 0]]
  /\ UNCHANGED <<viewer, kept, shown>>

\* redis.set; another page may have put its answer there meanwhile.
Keep(p) ==
  /\ asking[p].at = "put"
  /\ kept' = [kept EXCEPT ![LiveKey(viewer[p])] =
                 [by |-> viewer[p], age |-> asking[p].age, left |-> LiveTtl]]
  /\ shown' = [page |-> {p}, by |-> viewer[p], age |-> asking[p].age]
  /\ asking' = [asking EXCEPT ![p] = NotAsking]
  /\ UNCHANGED viewer

Ages(entry) ==
  IF entry.left <= 1 THEN NoAnswer
  ELSE [entry EXCEPT !.age = @ + 1, !.left = @ - 1]

LiveTick ==
  /\ \A p \in Page : asking[p].at = "put" => asking[p].age < LiveSlow
  /\ kept' = [k \in DOMAIN kept |-> Ages(kept[k])]
  /\ asking' = [p \in Page |-> IF asking[p].at = "put" THEN [asking[p] EXCEPT !.age = @ + 1]
                               ELSE asking[p]]
  /\ shown' = NotShown
  /\ UNCHANGED viewer

LiveNext == LiveTick \/ \E p \in Page : Hit(p) \/ Miss(p) \/ Query(p) \/ Keep(p)

LiveSpec == LiveInit /\ [][LiveNext]_liveVars

-----------------------------------------------------------------------------
\* Two who see the same rows, and the same of them, whatever the rows are.
SeeTheSame(u, v) ==
  \A r \in {[Fresh(p) EXCEPT !.line = l] : p \in {"p1", "p2"}, l \in Line \cup {Nobody}} :
    /\ Scoped(u, r) <=> Scoped(v, r)
    /\ Scoped(u, r) => Present(u, r) = Present(v, r)

(* The shared answer of the board (calls.controller.ts:279): nobody is      *)
(* shown the calls or the money of another partner, or of the staff, and    *)
(* what is shown was read no longer ago than an answer is kept and a query  *)
(* takes, however the requests of pages overlap.                            *)
LiveIsTheirs ==
  \A p \in shown.page :
    SeeTheSame(viewer[p], shown.by) /\ shown.age < LiveTtl + LiveSlow
=============================================================================
