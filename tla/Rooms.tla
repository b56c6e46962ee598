-------------------------------- MODULE Rooms --------------------------------
(***************************************************************************)
(* A call on a carrier that is driven by documents instead of commands     *)
(* (Twilio, SignalWire, Plivo, Bandwidth, Vonage):                         *)
(* routing/voice-webhook.controller.ts and                                 *)
(* telephony/markup/markup.call-control.ts, with the handlers of           *)
(* call-engine.service.ts as they see them.                                *)
(*                                                                         *)
(* The carrier asks what a leg should do next and waits.  Commands the     *)
(* router gives that leg meanwhile become the answer; commands for other   *)
(* legs go through the carrier's REST API.  The caller waits in a room     *)
(* named after the caller's leg; a buyer is bridged by joining that room.  *)
(* Requests may be repeated, overtake each other, or find the call's lock  *)
(* taken for too long.  A REST command ends what a leg was doing or        *)
(* waiting for; the carriers of telephony/markup/dialects.ts differ in how *)
(* they carry it.                                                          *)
(***************************************************************************)
EXTENDS Integers

CONSTANTS
  NBuyers,    \* candidates, the fallback number included
  Whispers,   \* candidates that hear a whisper first
  MaxRepeats  \* bound on requests the carrier makes a second time

ASSUME RoomsAssumption ==
  NBuyers \in Nat /\ Whispers \subseteq 1 .. NBuyers /\ MaxRepeats \in Nat

VARIABLES
  kind,     \* the carrier
  router,   \* the saved state of the call: phase, the buyer's leg (out), the next candidate
  dialing,  \* the request whose handler waits for a dial, and the leg the dial has made
  leg,      \* "none", "ringing", "up" or "over"
  at,       \* what an open leg does: the hook whose answer it waits for, or "prompt", "keys",
            \* "room"; "own" is a buyer in a room of its own; "off" for a leg that is over
  stored,   \* the document kept for a leg that was told to fetch it
  answers,  \* the documents on their way to a leg, and the hooks they answer
  asks,     \* requests that have not been handled
  heard,    \* legs that have made a request
  repeats,
  unheard,  \* the router never heard of the caller's hangup
  spared    \* buyers that were to be hung up over REST, which failed

roomsVars == <<kind, router, dialing, leg, at, stored, answers, asks, heard, repeats, unheard, spared>>

Caller == 0
Buyers == 1 .. NBuyers
Legs == {Caller} \cup Buyers

\* Twilio and SignalWire do what Vonage does in a call that is not recorded.
Kind == {"plivo", "bandwidth", "vonage"}

Asks(hook, l) == [hook |-> hook, leg |-> l]
NoDial == [for |-> Asks("none", Caller), out |-> Caller]

\* updateCall: the document itself, or the address of one kept in Redis.
Fetches == kind \in {"plivo", "bandwidth"}

\* startRecording: an own command, or a new document that joins the room again.
Rejoins == kind \in {"bandwidth", "vonage"}

\* hangupCall: a leg that has answered is looked up by an id its first request brings.
Unfound(l) == kind = "plivo" /\ l # Caller /\ leg[l] = "up" /\ l \notin heard

RoomsInit ==
  /\ router = [phase |-> "none", out |-> Caller, next |-> 1]
  /\ dialing = NoDial
  /\ leg = [l \in Legs |-> "none"]
  /\ at = [l \in Legs |-> IF l = Caller THEN "answer" ELSE "join"]
  /\ stored = [l \in Legs |-> "none"]
  /\ answers = {}
  /\ asks = {}
  /\ heard = {}
  /\ repeats = 0
  /\ kind \in Kind
  /\ unheard = FALSE
  /\ spared = {}

-----------------------------------------------------------------------------
(* The answer to a request, and the commands to other legs *)

\* (mutant) whoever has nothing to do waits in a room
DocumentForAll(h, own) == IF own # "none" THEN own ELSE IF h.leg = Caller THEN "room" ELSE "own"

\* The router's command, or else: callers wait in their room, buyers are hung up.  "room"
\* for a buyer is the joinRoom that bridge sets.
Document(h, own) == IF own # "none" THEN own ELSE IF h.leg = Caller THEN "room" ELSE "hangup"

NoCommand == [l \in Legs |-> "none"]
Only(l, command) == [NoCommand EXCEPT ![l] = command]

\* The carrier acts on commands over REST: legs end and are reported, or start something.
\* A hangup that fails is not tried again.
Finish(h, state, own, far) == \E fails \in BOOLEAN :
  LET live == {l \in Legs : leg[l] \in {"ringing", "up"}}
      sent == {l \in live : far[l] = "hangup" /\ ~Unfound(l)}
      hung == IF fails THEN {} ELSE sent
      told == {l \in live : far[l] \notin {"none", "hangup"}}
      fetch == IF Fetches THEN told ELSE {}
      reply == IF h.leg \in live \ hung /\ h.hook # "status"
               THEN {[leg |-> h.leg, hook |-> h.hook, do |-> Document(h, own)]} ELSE {}
  IN  /\ router' = state
      /\ leg' = [l \in Legs |-> IF l \in hung THEN "over" ELSE leg[l]]
      /\ at' = [l \in Legs |-> IF l \in hung THEN "off" ELSE IF l \in fetch THEN "markup"
                              ELSE IF l \in told THEN far[l] ELSE at[l]]
      /\ answers' = {a \in answers \cup reply : a.leg \notin hung}
      /\ heard' = heard \cup {h.leg}
      /\ spared' = spared \cup ((sent \ hung) \cap Buyers)
      /\ \E again \in BOOLEAN :
           /\ asks' = (IF again THEN asks ELSE asks \ {h})
                        \cup {Asks("status", l) : l \in hung} \cup {Asks("markup", l) : l \in fetch}
           /\ repeats' = IF again THEN repeats + 1 ELSE repeats
           /\ repeats' <= MaxRepeats
      /\ stored' = [l \in Legs |-> IF l \in fetch THEN far[l]
                                  ELSE IF Asks("markup", l) \in asks' THEN stored[l] ELSE "none"]

\* A command for the leg l in the handler of h: part of the answer, or over REST.
Command(h, state, l, command) ==
  IF l = h.leg /\ h.hook # "status" THEN Finish(h, state, command, NoCommand)
  ELSE Finish(h, state, "none", Only(l, command))

Ignore(h) == Finish(h, router, "none", NoCommand)

Settled == UNCHANGED <<kind, dialing, unheard>>

-----------------------------------------------------------------------------
(* The router's handlers *)

\* dialNext: candidates that are full or cannot be dialed are passed over.  The dial makes
\* the leg, and the handler goes on in Linked ...
Dial(h) ==
  /\ \E b \in router.next .. NBuyers :
       /\ leg' = [leg EXCEPT ![b] = "ringing"]
       /\ dialing' = [for |-> h, out |-> b]
  /\ UNCHANGED <<kind, router, at, stored, answers, asks, heard, repeats, unheard, spared>>

\* ... where the leg becomes known and the lock is released.
Linked ==
  /\ dialing # NoDial
  /\ Finish(dialing.for,
            [phase |-> "dialing", out |-> dialing.out, next |-> dialing.out + 1], "none", NoCommand)
  /\ dialing' = NoDial
  /\ UNCHANGED <<kind, unheard>>

\* dialNext: nobody can take the call.
NobodyLeft(h) ==
  /\ Command(h, [phase |-> "closing", out |-> Caller, next |-> NBuyers + 1], Caller, "prompt")
  /\ Settled

DialNext(h) == Dial(h) \/ NobodyLeft(h)

\* runIvrNode and ivrAction: another node, the buyers, or the end.
MenuStep(h) ==
  \/ \E node \in {"prompt", "keys"} :
       Command(h, [router EXCEPT !.phase = "ivr"], Caller, node) /\ Settled
  \/ \E goodbye \in {"prompt", "hangup"} :
       Command(h, [router EXCEPT !.phase = "closing"], Caller, goodbye) /\ Settled
  \/ DialNext(h)

\* connect: bridge, which for the leg that asked sets joinRoom, and the recording.
ConnectRoom(h) ==
  /\ \E records \in BOOLEAN :
       Finish(h, [router EXCEPT !.phase = "connected"], "room",
              IF records /\ Rejoins THEN Only(Caller, "room") ELSE NoCommand)
  /\ Settled

\* onInbound: refused, greeted, or at once the menu or the buyers.
OnInbound(h) ==
  IF router.phase # "none" THEN Ignore(h) /\ Settled
  ELSE \/ Command(h, [router EXCEPT !.phase = "refused"], Caller, "hangup") /\ Settled
       \/ Command(h, [router EXCEPT !.phase = "greeting"], Caller, "prompt") /\ Settled
       \/ MenuStep(h)

OnSpeakEnded(h) ==
  CASE router.phase = "greeting" -> MenuStep(h)
    [] router.phase = "ivr" /\ h.leg = Caller -> MenuStep(h)
    [] router.phase = "whisper" /\ h.leg = router.out -> ConnectRoom(h)
    [] router.phase = "closing" -> Command(h, router, Caller, "hangup") /\ Settled
    [] OTHER -> Ignore(h) /\ Settled

OnGathered(h) ==
  IF router.phase = "ivr" /\ h.leg = Caller THEN MenuStep(h) ELSE Ignore(h) /\ Settled

OnAnswered(h) ==
  IF h.leg # router.out \/ router.phase \in {"connected", "ended", "whisper"}
  THEN Ignore(h) /\ Settled
  ELSE IF h.leg \in Whispers
  THEN Command(h, [router EXCEPT !.phase = "whisper"], h.leg, "prompt") /\ Settled
  ELSE ConnectRoom(h)

OnHangup(h) ==
  CASE router.phase = "ended" -> Ignore(h) /\ Settled
    [] router.phase # "ended" /\ h.leg = Caller ->
         /\ Finish(h, [router EXCEPT !.phase = "ended"], "none",
                   IF router.out = Caller THEN NoCommand ELSE Only(router.out, "hangup"))
         /\ Settled
    [] router.phase = "connected" /\ h.leg = router.out ->
         Command(h, router, Caller, "hangup") /\ Settled
    [] router.phase \notin {"connected", "ended"} /\ h.leg \in Buyers /\ h.leg = router.out ->
         DialNext(h)
    [] OTHER -> Ignore(h) /\ Settled

-----------------------------------------------------------------------------
(* The webhook *)

\* withState finds no state and does not wait: a buyer's leg whose key is not set yet,
\* or the caller's before onInbound takes the lock.
NotKnown(h) ==
  IF h.leg # Caller THEN dialing.out = h.leg
  ELSE dialing = NoDial /\ router.phase \in {"none", "refused"} /\ h.hook # "answer"

Lost(h) ==
  /\ Ignore(h)
  /\ unheard' = (unheard \/ h = Asks("status", Caller))
  /\ UNCHANGED <<kind, dialing>>

Fetch(h) ==
  /\ h \in asks
  /\ h.hook = "markup"
  /\ Finish(h, router, stored[h.leg], NoCommand)
  /\ Settled

Handle(h) ==
  /\ h \in asks
  /\ h.hook # "markup"
  /\ IF NotKnown(h) THEN Lost(h)
     ELSE /\ dialing = NoDial
          /\ CASE h.hook = "answer" -> OnInbound(h)
               [] h.hook = "flow" -> OnSpeakEnded(h)
               [] h.hook = "gathered" -> OnGathered(h)
               [] h.hook = "join" -> OnAnswered(h)
               [] h.hook = "status" -> OnHangup(h)

\* withLock gives up: the event is lost, and the leg that asks is hung up.
LockTimeout(h) ==
  /\ h \in asks
  /\ dialing # NoDial
  /\ h # dialing.for
  /\ h.hook # "markup"
  /\ ~NotKnown(h)
  /\ Finish(h, router, "hangup", NoCommand)
  /\ unheard' = (unheard \/ h = Asks("status", Caller))
  /\ UNCHANGED <<kind, dialing>>

-----------------------------------------------------------------------------
(* The carrier and the phones *)

Over(l) ==
  /\ leg' = [leg EXCEPT ![l] = "over"]
  /\ at' = [at EXCEPT ![l] = "off"]
  /\ answers' = {a \in answers : a.leg # l}
  /\ asks' = asks \cup {Asks("status", l)}

CallComes ==
  /\ leg[Caller] = "none"
  /\ leg' = [leg EXCEPT ![Caller] = "up"]
  /\ asks' = {Asks("answer", Caller)}
  /\ UNCHANGED <<kind, router, dialing, at, stored, answers, heard, repeats, unheard, spared>>

BuyerAnswers(b) ==
  /\ leg[b] = "ringing"
  /\ leg' = [leg EXCEPT ![b] = "up"]
  /\ asks' = asks \cup {Asks("join", b)}
  /\ UNCHANGED <<kind, router, dialing, at, stored, answers, heard, repeats, unheard, spared>>

\* The caller or the buyer hangs up, or the buyer does not answer.
HangsUp(l) ==
  /\ leg[l] \in {"ringing", "up"}
  /\ Over(l)
  /\ UNCHANGED <<kind, router, dialing, stored, heard, repeats, unheard, spared>>

\* An answer to another request than the last is dropped.
Receive(a) ==
  /\ a \in answers
  /\ CASE a.hook # at[a.leg] -> answers' = answers \ {a} /\ UNCHANGED <<leg, at, asks>>
       [] a.hook = at[a.leg] /\ a.do = "hangup" -> Over(a.leg)
       [] OTHER -> /\ answers' = answers \ {a}
                   /\ at' = [at EXCEPT ![a.leg] = a.do]
                   /\ UNCHANGED <<leg, asks>>
  /\ UNCHANGED <<kind, router, dialing, stored, heard, repeats, unheard, spared>>

\* The message was spoken, or keys were pressed or not: the carrier asks what is next.
PromptEnds(l) ==
  /\ leg[l] = "up"
  /\ at[l] \in {"prompt", "keys"}
  /\ LET hook == IF at[l] = "prompt" THEN "flow" ELSE "gathered"
     IN  at' = [at EXCEPT ![l] = hook] /\ asks' = asks \cup {Asks(hook, l)}
  /\ UNCHANGED <<kind, router, dialing, leg, stored, answers, heard, repeats, unheard, spared>>

RoomsNext ==
  \/ CallComes \/ Linked
  \/ \E h \in asks : Handle(h) \/ Fetch(h) \/ LockTimeout(h)
  \/ \E b \in Buyers : BuyerAnswers(b)
  \/ \E a \in answers : Receive(a)
  \/ \E l \in Legs : HangsUp(l) \/ PromptEnds(l)

RoomsSpec == RoomsInit /\ [][RoomsNext]_roomsVars

\* Handlers run to their end; each leg's requests are handled, its answers delivered and
\* its prompts played.
Requested(l) == \E h \in asks : h.leg = l /\ (Handle(h) \/ Fetch(h))
Answered(l) == (\E a \in answers : a.leg = l /\ Receive(a)) \/ PromptEnds(l)

-----------------------------------------------------------------------------
\* No two buyers are in the room with a caller, whatever is repeated, overtaken or late:
\* the room is for the buyer the call is connected to, and a call that is connected stays
\* with that buyer (connect and onAnswered of call-engine.service.ts).
OneBuyerInTheRoom ==
  /\ [](\A b, c \in Buyers : at[b] = "room" /\ at[c] = "room" => b = c)
  /\ [][router.phase = "connected" =>
           router'.phase \in {"connected", "ended"} /\ router'.out = router.out]_roomsVars

Alone(b) == leg[b] = "up" /\ ~(at[b] = "room" /\ leg[Caller] = "up" /\ at[Caller] = "room")

(* A buyer who answers is soon in the room with the caller, or hung up: the *)
(* order of the requests, their repetition, an answer to a leg the router   *)
(* does not know (yet), or the other party's hangup leave no buyer talking  *)
(* to nobody (voice-webhook.controller.ts:74-83).  What it takes is that    *)
(* the router hears of the caller's hangup, and that no request to hang the *)
(* buyer up fails, for failures are swallowed (markup.call-control.ts:68).  *)
(* No other buyer is in the room.                                           *)
NobodyLeftAlone ==
  /\ OneBuyerInTheRoom
  /\ (\E b \in Buyers \ spared : Alone(b))
        ~> (\A b \in Buyers \ spared : ~Alone(b)) \/ unheard
=============================================================================
