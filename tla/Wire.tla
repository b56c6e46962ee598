-------------------------------- MODULE Wire --------------------------------
(***************************************************************************)
(* What goes over the wire to a carrier and back: the documents of         *)
(* telephony/markup/dialects.ts, the events of its `parse`, of             *)
(* telnyx-webhook.controller.ts and carrier-webhook.controller.ts, and the *)
(* answers to an order of a number.                                        *)
(*                                                                         *)
(* The router and the number service speak of messages, rooms, keys and    *)
(* orders; each carrier has words of its own for them.  A document is the  *)
(* elements of each of its verbs; an event is a record of the fields that  *)
(* are read.  What the carriers do with an element, and which fields they  *)
(* fill, is external.  A task is one thing to translate.                   *)
(***************************************************************************)
EXTENDS Integers, FiniteSets, Sequences
Seqs == INSTANCE SequencesExt

CONSTANT MaxVerbs  \* bound on the length of a document

ASSUME WireAssumption == MaxVerbs \in Nat

VARIABLES
  task,   \* what is to be translated: a document, something that happened, an order
  result  \* <<what came of it>>, <<>> before

wireVars == <<task, result>>

-----------------------------------------------------------------------------
(* Documents *)

Markup == {"twilio", "signalwire", "plivo", "bandwidth", "vonage"}
Verb == {"say", "speakEnded", "join", "record", "hangup", "reject", "gather"}  \* "record": a join that records

Twiml ==
  [say |-> <<"Say">>, speakEnded |-> <<"Redirect">>, join |-> <<"Conference", "Hangup">>,
   record |-> <<"Conference", "Hangup">>, hangup |-> <<"Hangup">>, reject |-> <<"Reject">>,
   gather |-> <<"Say", "Gather">>]

\* GetDigits goes on with the document when no key is pressed.
PlivoXml ==
  [say |-> <<"Speak">>, speakEnded |-> <<"Redirect">>, join |-> <<"Conference">>,
   record |-> <<"Conference">>, hangup |-> <<"Hangup">>, reject |-> <<"Hangup">>,
   gather |-> <<"Speak", "GetDigits", "RedirectGathered">>]

Bxml ==
  [say |-> <<"SpeakSentence">>, speakEnded |-> <<"Redirect">>, join |-> <<"Conference">>,
   record |-> <<"StartRecording", "Conference">>, hangup |-> <<"Hangup">>,
   reject |-> <<"Hangup">>, gather |-> <<"SpeakSentence", "Gather">>]

\* A document that ends ends the call.
Ncco ==
  [say |-> <<"talk">>, speakEnded |-> <<"notify">>, join |-> <<"conversation">>,
   record |-> <<"StartRecording", "conversation">>, hangup |-> <<>>, reject |-> <<>>,
   gather |-> <<"talk", "input">>]

Elements(table, verbs) == [i \in DOMAIN verbs |-> table[verbs[i]]]

\* The NCCO stops at the first of these.
UpTo(verbs) ==
  {i \in DOMAIN verbs : \A j \in DOMAIN verbs : j < i => verbs[j] \notin {"gather", "hangup", "reject"}}

Render(carrier, verbs) ==
  CASE carrier \in {"twilio", "signalwire"} -> Elements(Twiml, verbs)
    [] carrier = "plivo" -> Elements(PlivoXml, verbs)
    [] carrier = "bandwidth" -> Elements(Bxml, verbs)
    [] carrier = "vonage" -> [i \in DOMAIN verbs |-> IF i \in UpTo(verbs) THEN Ncco[verbs[i]] ELSE <<>>]

\* startRecording: a REST command, or the caller joins the room again.
RestCommand == << <<"StartRecording">> >>
StartRecording(carrier) ==
  IF carrier \in {"bandwidth", "vonage"} THEN Render(carrier, <<"record">>) ELSE RestCommand

\* What a leg does on meeting an element: speak, start to record, and the rest ends the document.
Effect(element, pressed) ==
  CASE element \in {"Say", "Speak", "SpeakSentence", "talk"} -> "speak"
    [] element \in {"Redirect", "notify"} -> "flow"
    [] element \in {"Conference", "conversation"} -> "room"
    [] element \in {"Hangup", "Reject"} -> "over"
    [] element = "StartRecording" -> "record"
    [] element \in {"Gather", "input", "RedirectGathered"} -> "gathered"
    [] element = "GetDigits" -> IF pressed THEN "gathered" ELSE "nothing"

Effects(document, pressed) ==
  [i \in DOMAIN document |-> [j \in DOMAIN document[i] |-> Effect(document[i][j], pressed)]]

\* A leg goes through the elements of verb after verb, up to the first that ends the document.
Ending == {"flow", "room", "over", "gathered"}
Places(document) == UNION {{i} \X DOMAIN document[i] : i \in DOMAIN document}
Before(p, q) == p[1] < q[1] \/ (p[1] = q[1] /\ p[2] < q[2])
At(effects, p) == effects[p[1]][p[2]]
Met(effects) ==
  {p \in Places(effects) : \A q \in Places(effects) : Before(q, p) => At(effects, q) \notin Ending}

\* How often a leg speaks, and where it ends up: with the document at an end, it is over.
Done(effects) ==
  LET last == {p \in Met(effects) : At(effects, p) \in Ending}
  IN  [spoken |-> Cardinality({p \in Met(effects) : At(effects, p) = "speak"}),
       ends |-> IF last = {} THEN "over" ELSE At(effects, CHOOSE p \in last : TRUE)]

Carry(t) == Done(Effects(Render(t.carrier, t.verbs), t.pressed))

-----------------------------------------------------------------------------
(* Events *)

\* The words for the state of a call; other words are of calls that go on.
TERMINAL == {"completed", "busy", "no-answer", "failed", "canceled", "cancelled", "timeout",
             "rejected", "unanswered"}

Ended(carrier, e) ==
  CASE carrier \in {"twilio", "signalwire", "vonage"} -> e.status \in TERMINAL
    [] carrier = "plivo" -> TRUE
    [] carrier = "bandwidth" -> e.status = "disconnect"

\* (mutant) every leg by its own id
OwnId(carrier, e) == e.own

\* Plivo's outbound legs are known by the id of the request that dialed them.
LegId(carrier, e) ==
  IF carrier = "plivo" /\ e.direction = "outbound" THEN e.request ELSE e.own

Attestation(carrier, e) ==
  CASE carrier \in {"twilio", "signalwire"} -> IF e.verified THEN e.grade ELSE "none"
    [] carrier \in {"plivo", "bandwidth"} -> e.grade
    [] carrier = "vonage" -> "none"

Nothing == [handler |-> "none", leg |-> "none", value |-> "none"]
Event(handler, leg, value) == [handler |-> handler, leg |-> leg, value |-> value]

\* parse and the webhook: the handler that is called, for which leg.
Parse(carrier, hook, e) ==
  CASE hook = "answer" -> Event("onInbound", e.own, Attestation(carrier, e))
    [] hook = "flow" -> Event("onSpeakEnded", e.call, "none")
    [] hook = "gathered" -> Event("onGathered", e.call, e.digits)
    [] hook = "join" -> Event("onAnswered", LegId(carrier, e), "none")
    [] hook = "status" ->
         IF Ended(carrier, e) THEN Event("onHangup", LegId(carrier, e), "none") ELSE Nothing
    [] hook = "recording" ->
         IF e.url # "none" THEN Event("onRecordingSaved", e.call, e.url) ELSE Nothing

\* Carriers that send one event for each thing that happens: telnyx, and the carrier API.
ParseTelnyx(e) ==
  CASE e.type = "call.initiated" ->
         IF e.direction = "inbound" THEN Event("onInbound", e.own, e.grade) ELSE Nothing
    [] e.type = "call.answered" -> Event("onAnswered", e.own, "none")
    [] e.type = "call.speak.ended" -> Event("onSpeakEnded", e.own, "none")
    [] e.type = "call.gather.ended" -> Event("onGathered", e.own, e.digits)
    [] e.type = "call.hangup" -> Event("onHangup", e.own, "none")
    [] e.type = "call.recording.saved" -> Event("onRecordingSaved", e.own, e.url)
    [] OTHER -> Nothing

ParseCustom(e) ==
  CASE e.type = "call.inbound" -> Event("onInbound", e.own, e.grade)
    [] e.type = "call.answered" -> Event("onAnswered", e.own, "none")
    [] e.type = "call.speak_ended" -> Event("onSpeakEnded", e.own, "none")
    [] e.type = "call.gathered" -> Event("onGathered", e.own, e.digits)
    [] e.type = "call.hangup" -> Event("onHangup", e.own, "none")
    [] e.type = "call.recording_saved" ->
         IF e.url # "none" THEN Event("onRecordingSaved", e.own, e.url) ELSE Nothing
    [] OTHER -> Nothing

-----------------------------------------------------------------------------
(* What the carriers report of what happens to a leg *)

Happening == {"arrives", "spoken", "keys", "answered", "rings", "over", "recorded"}

\* The hook a carrier calls; where it calls none, the happening is not reported.
Hook(carrier, t) ==
  CASE t.what = "arrives" -> "answer"
    [] t.what = "spoken" -> "flow"
    [] t.what = "keys" -> "gathered"
    [] t.what = "answered" -> IF t.direction = "outbound" THEN "join" ELSE "none"
    [] t.what = "rings" -> IF carrier = "vonage" THEN "status" ELSE "none"
    [] t.what = "over" -> "status"
    [] t.what = "recorded" -> "recording"

Word(carrier, t) ==
  CASE t.what = "rings" -> "ringing"
    [] t.what = "over" /\ carrier = "bandwidth" -> "disconnect"
    [] t.what = "over" /\ carrier # "bandwidth" -> t.cause
    [] OTHER -> "none"

\* The addresses of flow, gathered and recording carry the id the router gave them.
Known(carrier, t) == IF carrier = "plivo" /\ t.direction = "outbound" THEN "request" ELSE "leg"
Fields(carrier, t) ==
  [own |-> "leg", request |-> "request", call |-> Known(carrier, t), direction |-> t.direction,
   status |-> Word(carrier, t), grade |-> t.grade, verified |-> TRUE, digits |-> t.digits,
   url |-> IF t.what = "recorded" THEN "address" ELSE "none"]

TelnyxType(t) ==
  CASE t.what \in {"arrives", "rings"} -> "call.initiated"
    [] t.what = "spoken" -> "call.speak.ended"
    [] t.what = "keys" -> "call.gather.ended"
    [] t.what = "answered" -> "call.answered"
    [] t.what = "over" -> "call.hangup"
    [] t.what = "recorded" -> "call.recording.saved"

CustomType(t) ==
  CASE t.what = "arrives" -> "call.inbound"
    [] t.what = "rings" -> "none"
    [] t.what = "spoken" -> "call.speak_ended"
    [] t.what = "keys" -> "call.gathered"
    [] t.what = "answered" -> "call.answered"
    [] t.what = "over" -> "call.hangup"
    [] t.what = "recorded" -> "call.recording_saved"

Typed(t, type) ==
  [type |-> type, own |-> "leg", direction |-> t.direction, grade |-> t.grade,
   digits |-> t.digits, url |-> IF t.what = "recorded" THEN "address" ELSE "none"]

Hear(t) ==
  CASE t.carrier = "telnyx" -> ParseTelnyx(Typed(t, TelnyxType(t)))
    [] t.carrier = "custom" -> ParseCustom(Typed(t, CustomType(t)))
    [] t.carrier \in Markup ->
         LET hook == Hook(t.carrier, t)
         IN  IF hook = "none" THEN Nothing ELSE Parse(t.carrier, hook, Fields(t.carrier, t))

-----------------------------------------------------------------------------
(* Orders of numbers *)

\* What a carrier makes of an order: it gives the number, it thinks, it refuses, or it has
\* given the number and the second request, that asks for its id (telnyx) or points it at the
\* application (vonage), fails.  Bandwidth's numbers are ordered elsewhere.
Truth(carrier) ==
  {"refused"}
    \cup (IF carrier = "bandwidth" THEN {} ELSE {"given"})
    \cup (IF carrier \in {"telnyx", "custom", "mock", "plivo"} THEN {"pending"} ELSE {})
    \cup (IF carrier \in {"telnyx", "vonage"} THEN {"half"} ELSE {})

Sellers == Markup \cup {"telnyx", "custom", "mock"}

\* The answer is in words the program asks for, or it is a success (2xx) in other words;
\* carriers whose success has no word that is read have only the first.
Words(carrier) == IF carrier \in {"telnyx", "custom", "plivo"} THEN {"known", "other"} ELSE {"known"}

\* purchaseNumber; "throws" is the ProviderError of an answer that is not ok.
PurchaseResult(carrier, truth, words) ==
  CASE truth = "half" -> "throws"
    [] truth # "half" /\ words = "other" -> IF carrier = "custom" THEN "FAILED" ELSE "ACTIVE"
    [] truth = "given" /\ words = "known" -> "ACTIVE"
    [] truth = "pending" /\ words = "known" -> "PENDING"
    [] truth = "refused" /\ words = "known" ->
         IF carrier \in {"telnyx", "custom", "mock"} THEN "FAILED" ELSE "throws"

\* checkOrder: carriers driven by documents, and the test carrier, are not asked.
CheckOrder(carrier, truth, words) ==
  IF carrier \in {"telnyx", "custom"} THEN PurchaseResult(carrier, truth, words) ELSE "ACTIVE"

-----------------------------------------------------------------------------
(* The tasks *)

Documents ==
  [job : {"document"}, carrier : Markup, pressed : BOOLEAN,
   verbs : Seqs!SeqOf(Verb \ {"record"}, MaxVerbs)]

Tapings == [job : {"taping"}, carrier : Markup]

\* Only calls that come in are recorded, and press keys; only buyers are rung.
Directions(what) ==
  CASE what \in {"arrives", "keys", "recorded"} -> {"inbound"}
    [] what \in {"answered", "rings"} -> {"outbound"}
    [] OTHER -> {"inbound", "outbound"}

Events ==
  {t \in [job : {"event"}, carrier : Markup \cup {"telnyx", "custom"}, what : Happening,
          direction : {"inbound", "outbound"}, grade : {"A", "none"}, verified : BOOLEAN,
          digits : {"", "1"}, cause : {"completed", "busy", "no-answer"}] :
     t.direction \in Directions(t.what)}

Purchases ==
  UNION {[job : {"purchase", "check"}, carrier : {c}, truth : Truth(c), words : Words(c)] :
         c \in Sellers}

Tasks == Documents \cup Tapings \cup Events \cup Purchases

Untouched == [job |-> "taping", carrier |-> "twilio"]

\* The module that extends this one picks the task.
WireInit == result = <<>>

Translate ==
  /\ result = <<>>
  /\ result' = <<CASE task.job = "document" -> Carry(task)
                 [] task.job = "taping" -> StartRecording(task.carrier)
                 [] task.job = "event" -> Hear(task)
                 [] task.job = "purchase" -> PurchaseResult(task.carrier, task.truth, task.words)
                 [] task.job = "check" -> CheckOrder(task.carrier, task.truth, task.words)>>
  /\ UNCHANGED task

WireSpec == task \in Tasks /\ WireInit /\ [][Translate]_wireVars

-----------------------------------------------------------------------------
\* What the router means by its verbs.
Meaning ==
  [say |-> <<"speak">>, speakEnded |-> <<"flow">>, join |-> <<"room">>,
   hangup |-> <<"over">>, reject |-> <<"over">>, gather |-> <<"speak", "gathered">>]

\* The handler a happening is for; the leg by the name the router gave it.
Meant(t) ==
  LET leg == Known(t.carrier, t)
  IN  CASE t.what = "arrives" ->
             Event("onInbound", leg, IF t.carrier = "vonage" THEN "none" ELSE t.grade)
        [] t.what = "spoken" -> Event("onSpeakEnded", leg, "none")
        [] t.what = "keys" -> Event("onGathered", leg, t.digits)
        [] t.what = "answered" -> Event("onAnswered", leg, "none")
        [] t.what = "rings" -> Nothing
        [] t.what = "over" -> Event("onHangup", leg, "none")
        [] t.what = "recorded" -> Event("onRecordingSaved", leg, "address")

(* The router does not see which carrier a call is on: a document makes a   *)
(* leg speak as often and end up where the verbs mean, pressed keys or not; *)
(* a recording starts without the caller leaving the room; what happens to  *)
(* a leg calls the same handler for the same leg (call-control.types.ts:1). *)
(* A number is taken for bought, or not, as the carrier sees it, when the   *)
(* carrier says so in a word the program asks for.  Of an answer in other   *)
(* words no more is left than that a number which was given is taken for    *)
(* bought, on all but the custom carrier: so is one that was refused or     *)
(* that waits, on telnyx and plivo (dialects.ts:285), while the custom      *)
(* carrier's is taken for refused.  Excepted besides are a signature that   *)
(* was not verified, of which some carriers report the grade all the same;  *)
(* a number that was given when the second request of the purchase fails,   *)
(* which is taken for failed; and a second look at an order, which the      *)
(* carriers driven by documents do not take.                                *)
CarriersAgree ==
  result # <<>> =>
    LET it == result[1]
    IN  CASE task.job = "document" -> it = Done(Elements(Meaning, task.verbs))
          [] task.job = "taping" ->
               /\ \E p \in Met(Effects(it, FALSE)) : At(Effects(it, FALSE), p) = "record"
               /\ it # RestCommand => Done(Effects(it, FALSE)).ends = "room"
          [] task.job = "event" -> task.verified => it = Meant(task)
          [] task.job = "purchase" ->
               /\ task.truth # "half" /\ task.words = "known" =>
                    /\ (it = "ACTIVE" <=> task.truth = "given")
                    /\ (it = "PENDING" <=> task.truth = "pending")
               /\ task.truth = "given" /\ task.carrier # "custom" => it = "ACTIVE"
          [] task.job = "check" ->
               task.carrier \in {"telnyx", "custom"} /\ task.words = "known" =>
                 (it = "ACTIVE" <=> task.truth = "given")
=============================================================================
