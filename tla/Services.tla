------------------------------ MODULE Services ------------------------------
(***************************************************************************)
(* What serves a call in progress, or comes after it, and must not stop:   *)
(* the lock of a call, a call on a carrier that is driven by documents, a  *)
(* phone menu, an agent's presence, the recordings, and what goes over the *)
(* wire.  The parts share no variable and are explored side by side:       *)
(* `scene` says which of them moves, the others rest in their initial      *)
(* states.                                                                 *)
(***************************************************************************)
EXTENDS CallLock, Rooms, Menu, Presence, Recordings, Wire

VARIABLE scene

vars == <<scene, lockVars, roomsVars, menuVars, presenceVars, recordingsVars, wireVars>>

-----------------------------------------------------------------------------
\* A part that rests has one initial state only.
Resting == [n \in Node |-> [kind |-> "say", next |-> "hangup"]]

ServicesInit ==
  /\ scene \in {"lock", "rooms", "menu", "presence", "recordings", "wire"}
  /\ kind \in IF scene = "rooms" THEN Kind ELSE {"vonage"}
  /\ flow \in IF scene = "menu" THEN [Node -> Kinds] ELSE {Resting}
  /\ task \in IF scene = "wire" THEN Tasks ELSE {Untouched}
  /\ LockInit /\ RoomsInit /\ MenuInit /\ PresenceInit /\ RecordingsInit /\ WireInit

InLock ==
  /\ scene = "lock" /\ LockNext
  /\ UNCHANGED <<scene, roomsVars, menuVars, presenceVars, recordingsVars, wireVars>>
InRooms ==
  /\ scene = "rooms" /\ RoomsNext
  /\ UNCHANGED <<scene, lockVars, menuVars, presenceVars, recordingsVars, wireVars>>
InMenu ==
  /\ scene = "menu" /\ MenuNext
  /\ UNCHANGED <<scene, lockVars, roomsVars, presenceVars, recordingsVars, wireVars>>
InPresence ==
  /\ scene = "presence" /\ PresenceNext
  /\ UNCHANGED <<scene, lockVars, roomsVars, menuVars, recordingsVars, wireVars>>
InRecordings ==
  /\ scene = "recordings" /\ RecordingsNext
  /\ UNCHANGED <<scene, lockVars, roomsVars, menuVars, presenceVars, wireVars>>
InWire ==
  /\ scene = "wire" /\ Translate
  /\ UNCHANGED <<scene, lockVars, roomsVars, menuVars, presenceVars, recordingsVars>>

ServicesNext == InLock \/ InRooms \/ InMenu \/ InPresence \/ InRecordings \/ InWire

(* Time passes; a handler that waits for the lock tries it again and again; *)
(* prompts end and keys are pressed or time out (the carrier reports both); *)
(* servers go on with what they do, start a purge every hour, and Redis     *)
(* drops their lock in the end.  Each while its part moves.                 *)
Fairness ==
  /\ WF_lockVars(scene = "lock" /\ LockTick)
  /\ \A h \in Handler : WF_lockVars(scene = "lock" /\ (Take(h) \/ GiveUp(h)))
  /\ WF_roomsVars(scene = "rooms" /\ Linked)
  /\ \A l \in Legs :
       /\ WF_roomsVars(scene = "rooms" /\ Requested(l))
       /\ WF_roomsVars(scene = "rooms" /\ Answered(l))
  /\ WF_vars(InMenu)
  /\ WF_presenceVars(scene = "presence" /\ PresenceTick)
  /\ \A w \in Worker : WF_recordingsVars(scene = "recordings" /\ WorkerStep(w))
  /\ WF_recordingsVars(scene = "recordings" /\ \E w \in Worker : Purge(w))
  /\ WF_recordingsVars(scene = "recordings" /\ PurgeLockExpires)

ServicesSpec == ServicesInit /\ [][ServicesNext]_vars /\ Fairness
=============================================================================
