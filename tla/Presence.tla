------------------------------ MODULE Presence ------------------------------
(***************************************************************************)
(* Whether an agent is Available: the presence key of                      *)
(* routing/agents.service.ts, its endpoints in agents.controller.ts and    *)
(* the softphone in the agent's browser tabs                               *)
(* (src/apps/web/src/components/softphone.tsx).                            *)
(*                                                                         *)
(* Time is counted in units of 5 seconds: the key lives PresenceTtl units  *)
(* (45 s), a tab that shows the agent as Available sends a heartbeat every *)
(* BeatEvery units (20 s).  A tab learns the state by polling; an answer   *)
(* may be old when it arrives.  Heartbeats may fail and are not repeated.  *)
(***************************************************************************)
EXTENDS Integers

CONSTANTS
  Tab,          \* browser tabs of the agent
  PresenceTtl,  \* PRESENCE_TTL
  BeatEvery     \* HEARTBEAT_MS

ASSUME PresenceAssumption ==
  PresenceTtl \in Nat /\ BeatEvery \in Nat \ {0} /\ PresenceTtl > 2 * BeatEvery

VARIABLES
  presence,  \* units until the presence key expires, 0 when it is absent
  open,      \* the tabs that are open
  shows,     \* tabs whose last answer said Available: me.available
  answer,    \* answer on its way to a tab: "none", "on" or "off"
  timer,     \* units until the next heartbeat of a tab that shows Available
  missed     \* heartbeats failed in a row, 3 for a tab that has sent none yet

presenceVars == <<presence, open, shows, answer, timer, missed>>

Fresh == 3

PresenceInit ==
  /\ presence = 0
  /\ open = {}
  /\ shows = {}
  /\ answer = [t \in Tab |-> "none"]
  /\ timer = [t \in Tab |-> 0]
  /\ missed = [t \in Tab |-> Fresh]

-----------------------------------------------------------------------------
OpenTab(t) ==
  /\ t \notin open
  /\ open' = open \cup {t}
  /\ UNCHANGED <<presence, shows, answer, timer, missed>>

\* Closing the tab, losing power, falling asleep: nothing is sent.
CloseTab(t) ==
  /\ t \in open
  /\ open' = open \ {t}
  /\ shows' = shows \ {t}
  /\ answer' = [answer EXCEPT ![t] = "none"]
  /\ timer' = [timer EXCEPT ![t] = 0]
  /\ missed' = [missed EXCEPT ![t] = Fresh]
  /\ UNCHANGED presence

\* refresh: GET agent/me reads the key ...
Poll(t) ==
  /\ t \in open
  /\ answer[t] = "none"
  /\ answer' = [answer EXCEPT ![t] = IF presence > 0 THEN "on" ELSE "off"]
  /\ UNCHANGED <<presence, open, shows, timer, missed>>

\* ... and the tab shows what it was told.  The effect that beats starts its timer
\* when `available` turns true and stops it when it turns false.
Show(t) ==
  /\ answer[t] # "none"
  /\ answer' = [answer EXCEPT ![t] = "none"]
  /\ shows' = IF answer[t] = "on" THEN shows \cup {t} ELSE shows \ {t}
  /\ IF (t \in shows) = (t \in shows')
     THEN UNCHANGED <<timer, missed>>
     ELSE /\ timer' = [timer EXCEPT ![t] = IF t \in shows' THEN BeatEvery ELSE 0]
          /\ missed' = [missed EXCEPT ![t] = Fresh]
  /\ UNCHANGED <<presence, open>>

\* PUT agent/me/status: set with an expiry, or del; the tab polls afterwards.
SetStatus(t, available) ==
  /\ t \in open
  /\ presence' = IF available THEN PresenceTtl ELSE 0
  /\ UNCHANGED <<open, shows, answer, timer, missed>>

\* (mutant) the heartbeat sets the key
SetAlways == presence' = PresenceTtl

\* POST agent/me/heartbeat: expire prolongs a key that exists and creates none.
Extend == presence' = IF presence > 0 THEN PresenceTtl ELSE 0

Beat(t) ==
  /\ t \in shows
  /\ timer[t] = 0
  /\ Extend
  /\ timer' = [timer EXCEPT ![t] = BeatEvery]
  /\ missed' = [missed EXCEPT ![t] = 0]
  /\ UNCHANGED <<open, shows, answer>>

BeatFails(t) ==
  /\ t \in shows
  /\ timer[t] = 0
  /\ timer' = [timer EXCEPT ![t] = BeatEvery]
  /\ missed' = [missed EXCEPT ![t] = IF @ < 2 THEN @ + 1 ELSE @]
  /\ UNCHANGED <<presence, open, shows, answer>>

\* A unit of time; no heartbeat is late by as much.
PresenceTick ==
  /\ \A t \in shows : timer[t] > 0
  /\ presence' = IF presence = 0 THEN 0 ELSE presence - 1
  /\ timer' = [t \in Tab |-> IF t \in shows THEN timer[t] - 1 ELSE 0]
  /\ UNCHANGED <<open, shows, answer, missed>>

TabStep(t) ==
  \/ OpenTab(t) \/ CloseTab(t) \/ Poll(t) \/ Show(t)
  \/ \E available \in BOOLEAN : SetStatus(t, available)
  \/ Beat(t) \/ BeatFails(t)

PresenceNext == PresenceTick \/ \E t \in Tab : TabStep(t)

PresenceSpec == PresenceInit /\ [][PresenceNext]_presenceVars

-----------------------------------------------------------------------------
\* Only the agent's own click turns Available on: no heartbeat, however late or from
\* whichever tab, brings back what was turned off or has expired.
OnlyStatusTurnsOn == presence = 0 /\ presence' > 0 => \E t \in Tab : SetStatus(t, TRUE)

\* The key runs out only on tabs that have not sent a heartbeat since they show
\* Available, or whose last two failed: one lost heartbeat is survived.
LapsesInSilence ==
  presence > 0 /\ presence' = 0 /\ PresenceTick => \A t \in shows : missed[t] >= 2

\* What no step may do to the key.
PresenceIsKept == [][OnlyStatusTurnsOn /\ LapsesInSilence]_presenceVars

(* An agent is Available when a tab keeps saying so, and for no other       *)
(* reason; when the last tab is gone, calls stop ringing there              *)
(* (agents.service.ts:9 and 54, softphone.tsx:115).                         *)
PresenceFollowsTabs ==
  /\ PresenceIsKept
  /\ open = {} ~> presence = 0 \/ open # {}
=============================================================================
