--------------------------- MODULE ServicesProofs ---------------------------
(***************************************************************************)
(* Proofs about what serves a call in progress or comes after it: what     *)
(* goes over the wire, phone menus, an agent's presence, calls driven by   *)
(* documents, the lock of a call and the recordings, for documents of any  *)
(* length, any menu and any number of tabs, buyers, handlers, servers and  *)
(* recordings.  The parts share no variable; the last section says that    *)
(* Services behaves as each of them.                                       *)
(***************************************************************************)
EXTENDS Services, FiniteSetTheorems, TLAPS

-----------------------------------------------------------------------------
(***************************************************************************)
(* The documents, events and orders of all carriers come to the same.      *)
(*                                                                         *)
(* For documents of any length: a leg speaks at the verbs that follow      *)
(* nothing but messages, and ends up where the first other verb says; so   *)
(* does one that goes through the elements of any carrier, for all that    *)
(* the words are others and the NCCO is cut off.  Events and orders go by  *)
(* cases.                                                                  *)
(***************************************************************************)
\* The verbs of a document that speak when a leg comes to them, and those it ends at.
Speaking(verbs) ==
  {i \in DOMAIN verbs : verbs[i] \in {"say", "gather"} /\ \A j \in DOMAIN verbs : j < i => verbs[j] = "say"}
Last(verbs) ==
  {i \in DOMAIN verbs : verbs[i] # "say" /\ \A j \in DOMAIN verbs : j < i => verbs[j] = "say"}
EndOf(verb) ==
  CASE verb = "speakEnded" -> "flow"
    [] verb = "join" -> "room"
    [] verb \in {"hangup", "reject"} -> "over"
    [] verb = "gather" -> "gathered"

Plain == Verb \ {"record"}

\* What the effects of a verb have in common in the words of all carriers.
MeansIt(verb, effects) ==
  /\ DOMAIN effects \subseteq Nat /\ 1 \in DOMAIN effects /\ \A j \in DOMAIN effects : j >= 1
  /\ \A j \in DOMAIN effects : effects[j] = "speak" <=> j = 1 /\ verb \in {"say", "gather"}
  /\ verb = "say" => \A j \in DOMAIN effects : effects[j] \notin Ending
  /\ verb # "say" => \E j \in DOMAIN effects :
       /\ effects[j] = EndOf(verb) /\ effects[j] \in Ending
       /\ \A k \in DOMAIN effects : k < j => effects[k] \notin Ending

\* What those of a document have: every verb means it, up to where a document may be cut off.
Faithful(verbs, effects) ==
  /\ DOMAIN effects = DOMAIN verbs
  /\ \A i \in DOMAIN verbs :
       \/ MeansIt(verbs[i], effects[i]) /\ \A j \in DOMAIN verbs : j < i => MeansIt(verbs[j], effects[j])
       \/ /\ DOMAIN effects[i] = {}
          /\ \/ verbs[i] \in {"hangup", "reject"}
             \/ \E j \in DOMAIN verbs : j < i /\ verbs[j] # "say"

\* What a faithful document comes to: it says of the verbs alone.
Normal(verbs) ==
  [spoken |-> Cardinality({<<i, 1>> : i \in Speaking(verbs)}),
   ends |-> IF Last(verbs) = {} THEN "over" ELSE EndOf(verbs[CHOOSE i \in Last(verbs) : TRUE])]

LEMMA PlaceIs ==
  ASSUME NEW effects, NEW p
  PROVE  p \in Places(effects) <=>
           p = <<p[1], p[2]>> /\ p[1] \in DOMAIN effects /\ p[2] \in DOMAIN effects[p[1]]
BY DEF Places

\* The first place of a document that ends it is the only one met that does.
LEMMA DoneIsNormal ==
  ASSUME NEW m \in Nat, NEW verbs \in [1 .. m -> Plain], NEW effects, Faithful(verbs, effects)
  PROVE  Done(effects) = Normal(verbs)
<1> DEFINE I == DOMAIN verbs
           last == {p \in Met(effects) : At(effects, p) \in Ending}
<1>1. I \subseteq Nat /\ DOMAIN effects = I
  BY DEF Faithful
<1>2. \A p \in Met(effects) : /\ p = <<p[1], p[2]>> /\ p[1] \in I /\ p[2] \in DOMAIN effects[p[1]]
                              /\ MeansIt(verbs[p[1]], effects[p[1]]) /\ p[2] \in Nat /\ p[2] >= 1
  <2> SUFFICES ASSUME NEW p \in Met(effects)
               PROVE  /\ p = <<p[1], p[2]>> /\ p[1] \in I /\ p[2] \in DOMAIN effects[p[1]]
                      /\ MeansIt(verbs[p[1]], effects[p[1]]) /\ p[2] \in Nat /\ p[2] >= 1
    OBVIOUS
  <2>1. p = <<p[1], p[2]>> /\ p[1] \in I /\ p[2] \in DOMAIN effects[p[1]]
    BY <1>1, PlaceIs DEF Met
  <2>2. MeansIt(verbs[p[1]], effects[p[1]])
    BY <2>1 DEF Faithful
  <2> QED
    BY <2>1, <2>2 DEF MeansIt
<1>3. ASSUME NEW p \in Met(effects), NEW j \in I, j < p[1]
      PROVE  verbs[j] = "say"
  <2>1. MeansIt(verbs[j], effects[j])
    <3>1. p[1] \in I /\ DOMAIN effects[p[1]] # {}
      BY <1>2
    <3> QED
      BY <1>3, <3>1 DEF Faithful
  <2>2. ASSUME verbs[j] # "say" PROVE FALSE
    <3>1. PICK k \in DOMAIN effects[j] : effects[j][k] \in Ending
      BY <2>1, <2>2 DEF MeansIt
    <3>2. <<j, k>> \in Places(effects)
      BY <1>1, PlaceIs
    <3>3. Before(<<j, k>>, p)
      BY <1>3 DEF Before
    <3> QED
      BY <3>1, <3>2, <3>3 DEF Met, At
  <2> QED
    BY <2>2
<1>4. ASSUME NEW i \in I, \A j \in I : j < i => verbs[j] = "say", NEW k \in DOMAIN effects[i],
             \A h \in DOMAIN effects[i] : h < k => effects[i][h] \notin Ending
      PROVE  <<i, k>> \in Met(effects)
  <2>1. <<i, k>> \in Places(effects)
    BY <1>1, PlaceIs
  <2>2. ASSUME NEW q \in Places(effects), Before(q, <<i, k>>) PROVE At(effects, q) \notin Ending
    <3>1. q[1] \in I /\ q[2] \in DOMAIN effects[q[1]]
      BY <1>1, PlaceIs
    <3>2. CASE q[1] < i
      <4>1. verbs[q[1]] = "say" /\ DOMAIN effects[q[1]] # {}
        BY <1>4, <3>1, <3>2
      <4>2. MeansIt(verbs[q[1]], effects[q[1]])
        BY <3>1, <4>1 DEF Faithful
      <4> QED
        BY <3>1, <4>1, <4>2 DEF MeansIt, At
    <3>3. CASE q[1] = i /\ q[2] < k
      BY <1>4, <3>1, <3>3 DEF At
    <3> QED
      BY <2>2, <3>2, <3>3 DEF Before
  <2> QED
    BY <2>1, <2>2 DEF Met
<1>5. {p \in Met(effects) : At(effects, p) = "speak"} = {<<i, 1>> : i \in Speaking(verbs)}
  <2>1. ASSUME NEW p \in Met(effects), At(effects, p) = "speak"
        PROVE  p \in {<<i, 1>> : i \in Speaking(verbs)}
    <3>1. p[2] = 1 /\ verbs[p[1]] \in {"say", "gather"}
      BY <1>2, <2>1 DEF MeansIt, At
    <3>2. p[1] \in Speaking(verbs)
      BY <1>2, <1>3, <3>1 DEF Speaking
    <3> QED
      BY <1>2, <3>1, <3>2
  <2>2. ASSUME NEW i \in Speaking(verbs)
        PROVE  <<i, 1>> \in Met(effects) /\ At(effects, <<i, 1>>) = "speak"
    <3>1. /\ i \in I /\ verbs[i] \in {"say", "gather"} /\ \A j \in I : j < i => verbs[j] = "say"
      BY DEF Speaking
    <3>2. MeansIt(verbs[i], effects[i])
      BY <3>1 DEF Faithful
    <3>3. 1 \in DOMAIN effects[i] /\ effects[i][1] = "speak"
      BY <3>1, <3>2 DEF MeansIt
    <3>4. \A h \in DOMAIN effects[i] : ~(h < 1)
      BY <3>2 DEF MeansIt
    <3> QED
      BY <1>4, <3>1, <3>3, <3>4 DEF At
  <2> QED
    BY <2>1, <2>2
<1>6. ASSUME NEW p \in last PROVE p[1] \in Last(verbs) /\ At(effects, p) = EndOf(verbs[p[1]])
  <2>1. /\ p \in Met(effects) /\ At(effects, p) \in Ending
        /\ p[1] \in I /\ p[2] \in DOMAIN effects[p[1]] /\ MeansIt(verbs[p[1]], effects[p[1]])
        /\ p = <<p[1], p[2]>> /\ p[2] \in Nat
    BY <1>2, <1>6
  <2>2. verbs[p[1]] # "say"
    BY <2>1 DEF MeansIt, At
  <2>3. p[1] \in Last(verbs)
    BY <1>3, <2>1, <2>2 DEF Last
  <2>4. PICK k \in DOMAIN effects[p[1]] :
          /\ effects[p[1]][k] = EndOf(verbs[p[1]]) /\ effects[p[1]][k] \in Ending
          /\ \A h \in DOMAIN effects[p[1]] : h < k => effects[p[1]][h] \notin Ending
    BY <2>1, <2>2 DEF MeansIt
  <2>5. k \in Nat
    BY <2>1 DEF MeansIt
  <2>6. ~(p[2] < k)
    BY <2>1, <2>4 DEF At
  <2>7. ~(k < p[2])
    <3>1. ASSUME k < p[2] PROVE FALSE
      <4>1. <<p[1], k>> \in Places(effects)
        BY <1>1, <2>1, PlaceIs
      <4>2. Before(<<p[1], k>>, p)
        BY <3>1 DEF Before
      <4> QED
        BY <2>1, <2>4, <4>1, <4>2 DEF Met, At
    <3> QED
      BY <3>1
  <2>8. k = p[2]
    BY <2>1, <2>5, <2>6, <2>7
  <2> QED
    BY <2>3, <2>4, <2>8 DEF At
<1>7. \A h, i \in Last(verbs) : h = i
  <2> SUFFICES ASSUME NEW h \in Last(verbs), NEW i \in Last(verbs), h # i PROVE FALSE
    OBVIOUS
  <2>1. h < i \/ i < h
    BY <1>1 DEF Last
  <2> QED
    BY <2>1 DEF Last
<1>8. ASSUME NEW i \in Last(verbs) PROVE last # {} \/ EndOf(verbs[i]) = "over"
  <2>1. i \in I /\ verbs[i] # "say" /\ \A j \in I : j < i => verbs[j] = "say"
    BY DEF Last
  <2>2. CASE MeansIt(verbs[i], effects[i])
    <3>1. PICK k \in DOMAIN effects[i] :
            /\ effects[i][k] = EndOf(verbs[i]) /\ effects[i][k] \in Ending
            /\ \A h \in DOMAIN effects[i] : h < k => effects[i][h] \notin Ending
      BY <2>1, <2>2 DEF MeansIt
    <3>2. <<i, k>> \in last
      BY <1>4, <2>1, <3>1 DEF At
    <3> QED
      BY <3>2
  <2>3. CASE ~MeansIt(verbs[i], effects[i])
    <3>1. verbs[i] \in {"hangup", "reject"}
      BY <2>1, <2>3 DEF Faithful
    <3> QED
      BY <3>1 DEF EndOf
  <2> QED
    BY <2>2, <2>3
<1>9. Done(effects).ends = Normal(verbs).ends
  <2>1. Done(effects).ends = IF last = {} THEN "over" ELSE At(effects, CHOOSE p \in last : TRUE)
    BY DEF Done
  <2>2. Normal(verbs).ends = IF Last(verbs) = {} THEN "over" ELSE EndOf(verbs[CHOOSE i \in Last(verbs) : TRUE])
    BY DEF Normal
  <2> DEFINE p == CHOOSE x \in last : TRUE
             i == CHOOSE x \in Last(verbs) : TRUE
  <2>3. CASE last # {}
    <3>1. p \in last
      BY <2>3
    <3> HIDE DEF p, last
    <3>2. p[1] \in Last(verbs) /\ At(effects, p) = EndOf(verbs[p[1]])
      BY <1>6, <3>1
    <3>3. i \in Last(verbs)
      BY <3>2
    <3> HIDE DEF i
    <3>4. i = p[1]
      BY <1>7, <3>2, <3>3
    <3> QED
      BY <2>1, <2>2, <2>3, <3>2, <3>4 DEF p, i
  <2>4. CASE last = {} /\ Last(verbs) # {}
    <3>1. i \in Last(verbs)
      BY <2>4
    <3> HIDE DEF i, last
    <3>2. EndOf(verbs[i]) = "over"
      BY <1>8, <2>4, <3>1
    <3> QED
      BY <2>1, <2>2, <2>4, <3>2 DEF i
  <2>5. CASE last = {} /\ Last(verbs) = {}
    <3> HIDE DEF last
    <3> QED
      BY <2>1, <2>2, <2>5
  <2> QED
    BY <2>3, <2>4, <2>5
<1>10. Done(effects).spoken = Normal(verbs).spoken
  BY <1>5 DEF Done, Normal
<1>11. Done(effects) = [spoken |-> Done(effects).spoken, ends |-> Done(effects).ends]
  BY DEF Done
<1>12. Normal(verbs) = [spoken |-> Normal(verbs).spoken, ends |-> Normal(verbs).ends]
  BY DEF Normal
<1> QED
  BY <1>9, <1>10, <1>11, <1>12

\* The effects of the elements of one verb.
Heard(elements, pressed) == [j \in DOMAIN elements |-> Effect(elements[j], pressed)]

LEMMA EffectsHeard ==
  ASSUME NEW document, NEW pressed
  PROVE  /\ DOMAIN Effects(document, pressed) = DOMAIN document
         /\ \A i \in DOMAIN document : Effects(document, pressed)[i] = Heard(document[i], pressed)
BY DEF Effects, Heard

LEMMA HeardOne ==
  ASSUME NEW a, NEW pressed
  PROVE  Heard(<<a>>, pressed) = <<Effect(a, pressed)>>
<1>1. DOMAIN <<a>> = 1 .. 1
  OBVIOUS
<1> QED
  BY <1>1 DEF Heard

LEMMA HeardTwo ==
  ASSUME NEW a, NEW b, NEW pressed
  PROVE  Heard(<<a, b>>, pressed) = <<Effect(a, pressed), Effect(b, pressed)>>
BY DEF Heard

LEMMA HeardThree ==
  ASSUME NEW a, NEW b, NEW c, NEW pressed
  PROVE  Heard(<<a, b, c>>, pressed) = <<Effect(a, pressed), Effect(b, pressed), Effect(c, pressed)>>
BY DEF Heard

\* Verbs of one effect, a room that a document goes on from, and a prompt that waits for keys.
LEMMA MeansOne ==
  ASSUME NEW verb \in Plain \ {"gather"}, NEW x, x = IF verb = "say" THEN "speak" ELSE EndOf(verb)
  PROVE  MeansIt(verb, <<x>>)
<1>1. EndOf(verb) \in Ending \/ verb = "say"
  BY DEF Plain, Verb, EndOf, Ending
<1>2. \A j \in DOMAIN <<x>> : j = 1
  OBVIOUS
<1>3. 1 \in DOMAIN <<x>> /\ <<x>>[1] = x
  OBVIOUS
<1>4. "speak" \notin Ending
  BY DEF Ending
<1> DEFINE e == <<x>>
<1> HIDE DEF e
<1>5. MeansIt(verb, e)
  BY <1>1, <1>2, <1>3, <1>4 DEF MeansIt, e
<1> QED
  BY <1>5 DEF e

LEMMA MeansJoin == MeansIt("join", <<"room", "over">>)
<1> DEFINE e == <<"room", "over">>
<1>1. \A j \in DOMAIN e : j = 1 \/ j = 2
  OBVIOUS
<1>2. 1 \in DOMAIN e /\ e[1] = "room" /\ e[2] = "over"
  OBVIOUS
<1>3. EndOf("join") = "room" /\ "room" \in Ending
  BY DEF EndOf, Ending
<1> HIDE DEF e
<1>4. MeansIt("join", e)
  BY <1>1, <1>2, <1>3 DEF MeansIt
<1> QED
  BY <1>4 DEF e

LEMMA MeansGather ==
  ASSUME NEW e, \A j \in DOMAIN e : j \in 1 .. 3, 1 \in DOMAIN e, 2 \in DOMAIN e,
         e[1] = "speak",
         \/ e[2] = "gathered" /\ (3 \in DOMAIN e => e[3] = "gathered")
         \/ e[2] = "nothing" /\ 3 \in DOMAIN e /\ e[3] = "gathered"
  PROVE  MeansIt("gather", e)
<1>1. /\ EndOf("gather") = "gathered" /\ "gathered" \in Ending
      /\ "speak" \notin Ending /\ "nothing" \notin Ending
  BY DEF EndOf, Ending
<1>2. \E j \in DOMAIN e : /\ e[j] = "gathered"
                          /\ \A k \in DOMAIN e : k < j => e[k] \notin Ending
  <2>1. CASE e[2] = "gathered"
    <3>1. \A k \in 1 .. 3 : k < 2 => k = 1
      OBVIOUS
    <3> QED
      BY <1>1, <2>1, <3>1
  <2>2. CASE e[2] = "nothing"
    <3>1. \A k \in 1 .. 3 : k < 3 => k = 1 \/ k = 2
      OBVIOUS
    <3> QED
      BY <1>1, <2>2, <3>1
  <2> QED
    BY <2>1, <2>2
<1>3. \A j \in DOMAIN e : e[j] = "speak" <=> j = 1
  OBVIOUS
<1>4. DOMAIN e \subseteq Nat /\ \A j \in DOMAIN e : j >= 1
  <2>1. \A j \in 1 .. 3 : j \in Nat /\ j >= 1
    OBVIOUS
  <2> QED
    BY <2>1
<1> QED
  BY <1>1, <1>2, <1>3, <1>4 DEF MeansIt

LEMMA GatherTwo == MeansIt("gather", <<"speak", "gathered">>)
<1> DEFINE e == <<"speak", "gathered">>
<1>1. /\ \A j \in DOMAIN e : j \in 1 .. 3
      /\ 1 \in DOMAIN e /\ 2 \in DOMAIN e /\ 3 \notin DOMAIN e /\ e[1] = "speak" /\ e[2] = "gathered"
  OBVIOUS
<1> HIDE DEF e
<1>2. MeansIt("gather", e)
  BY <1>1, MeansGather
<1> QED
  BY <1>2 DEF e

LEMMA GatherThree ==
  ASSUME NEW x \in {"nothing", "gathered"}
  PROVE  MeansIt("gather", <<"speak", x, "gathered">>)
<1> DEFINE e == <<"speak", x, "gathered">>
<1>1. /\ \A j \in DOMAIN e : j \in 1 .. 3
      /\ 1 \in DOMAIN e /\ 2 \in DOMAIN e /\ 3 \in DOMAIN e
      /\ e[1] = "speak" /\ e[2] \in {"nothing", "gathered"} /\ e[3] = "gathered"
  <2>1. DOMAIN e = 1 .. 3
    OBVIOUS
  <2>2. 1 \in 1 .. 3 /\ 2 \in 1 .. 3 /\ 3 \in 1 .. 3
    OBVIOUS
  <2>3. e[1] = "speak" /\ e[2] = x /\ e[3] = "gathered"
    OBVIOUS
  <2> HIDE DEF e
  <2> QED
    BY <2>1, <2>2, <2>3
<1> HIDE DEF e
<1>2. MeansIt("gather", e)
  BY <1>1, MeansGather
<1> QED
  BY <1>2 DEF e

\* The words of each carrier.
LEMMA EndWords ==
  /\ EndOf("speakEnded") = "flow" /\ EndOf("join") = "room" /\ EndOf("hangup") = "over"
  /\ EndOf("reject") = "over" /\ EndOf("gather") = "gathered"
BY DEF EndOf

LEMMA EffectWords ==
  ASSUME NEW pressed \in BOOLEAN
  PROVE  /\ Effect("Say", pressed) = "speak" /\ Effect("Speak", pressed) = "speak"
         /\ Effect("SpeakSentence", pressed) = "speak" /\ Effect("talk", pressed) = "speak"
         /\ Effect("Redirect", pressed) = "flow" /\ Effect("notify", pressed) = "flow"
         /\ Effect("Conference", pressed) = "room" /\ Effect("conversation", pressed) = "room"
         /\ Effect("Hangup", pressed) = "over" /\ Effect("Reject", pressed) = "over"
         /\ Effect("StartRecording", pressed) = "record"
         /\ Effect("Gather", pressed) = "gathered" /\ Effect("input", pressed) = "gathered"
         /\ Effect("RedirectGathered", pressed) = "gathered"
         /\ Effect("GetDigits", pressed) \in {"nothing", "gathered"}
BY DEF Effect

LEMMA Verbs == \A verb : verb \in Plain <=> verb \in {"say", "speakEnded", "join", "hangup", "reject", "gather"}
BY DEF Plain, Verb

LEMMA TwimlWords ==
  /\ Twiml["say"] = <<"Say">>
  /\ Twiml["speakEnded"] = <<"Redirect">>
  /\ Twiml["join"] = <<"Conference", "Hangup">>
  /\ Twiml["hangup"] = <<"Hangup">>
  /\ Twiml["reject"] = <<"Reject">>
  /\ Twiml["gather"] = <<"Say", "Gather">>
BY DEF Twiml

LEMMA PlivoXmlWords ==
  /\ PlivoXml["say"] = <<"Speak">>
  /\ PlivoXml["speakEnded"] = <<"Redirect">>
  /\ PlivoXml["join"] = <<"Conference">>
  /\ PlivoXml["hangup"] = <<"Hangup">>
  /\ PlivoXml["reject"] = <<"Hangup">>
  /\ PlivoXml["gather"] = <<"Speak", "GetDigits", "RedirectGathered">>
BY DEF PlivoXml

LEMMA BxmlWords ==
  /\ Bxml["say"] = <<"SpeakSentence">>
  /\ Bxml["speakEnded"] = <<"Redirect">>
  /\ Bxml["join"] = <<"Conference">>
  /\ Bxml["hangup"] = <<"Hangup">>
  /\ Bxml["reject"] = <<"Hangup">>
  /\ Bxml["gather"] = <<"SpeakSentence", "Gather">>
BY DEF Bxml

LEMMA NccoWords ==
  /\ Ncco["say"] = <<"talk">>
  /\ Ncco["speakEnded"] = <<"notify">>
  /\ Ncco["join"] = <<"conversation">>
  /\ Ncco["hangup"] = <<>>
  /\ Ncco["reject"] = <<>>
  /\ Ncco["gather"] = <<"talk", "input">>
BY DEF Ncco

LEMMA MeaningWords ==
  /\ Meaning["say"] = <<"speak">> /\ Meaning["speakEnded"] = <<"flow">> /\ Meaning["join"] = <<"room">>
  /\ Meaning["hangup"] = <<"over">> /\ Meaning["reject"] = <<"over">>
  /\ Meaning["gather"] = <<"speak", "gathered">>
BY DEF Meaning

LEMMA TwimlMeansIt ==
  ASSUME NEW verb \in Plain, NEW pressed \in BOOLEAN
  PROVE  MeansIt(verb, Heard(Twiml[verb], pressed))
<1>1. CASE verb = "gather"
  <2>1. Heard(Twiml[verb], pressed) = <<"speak", "gathered">>
    <3>1. Twiml[verb] = <<"Say", "Gather">>
      BY <1>1, TwimlWords
    <3> QED
      BY <3>1, HeardTwo, EffectWords
  <2> QED
    BY <1>1, <2>1, GatherTwo
<1>2. CASE verb = "join"
  <2>1. Heard(Twiml[verb], pressed) = <<"room", "over">>
    <3>1. Twiml[verb] = <<"Conference", "Hangup">>
      BY <1>2, TwimlWords
    <3> QED
      BY <3>1, HeardTwo, EffectWords
  <2> QED
    BY <1>2, <2>1, MeansJoin
<1>3. CASE verb \notin {"gather", "join"}
  <2>1. \E a : Twiml[verb] = <<a>> /\ Effect(a, pressed) = IF verb = "say" THEN "speak" ELSE EndOf(verb)
    <3>1. \/ verb = "say" /\ Twiml[verb] = <<"Say">>
          \/ verb = "speakEnded" /\ Twiml[verb] = <<"Redirect">>
          \/ verb = "hangup" /\ Twiml[verb] = <<"Hangup">>
          \/ verb = "reject" /\ Twiml[verb] = <<"Reject">>
      BY <1>3, Verbs, TwimlWords
    <3> QED
      BY <3>1, EffectWords, EndWords
  <2> QED
    BY <1>3, <2>1, HeardOne, MeansOne
<1> QED
  BY <1>1, <1>2, <1>3

LEMMA PlivoXmlMeansIt ==
  ASSUME NEW verb \in Plain, NEW pressed \in BOOLEAN
  PROVE  MeansIt(verb, Heard(PlivoXml[verb], pressed))
<1>1. CASE verb = "gather"
  <2>1. Heard(PlivoXml[verb], pressed) = <<"speak", Effect("GetDigits", pressed), "gathered">>
    <3>1. PlivoXml[verb] = <<"Speak", "GetDigits", "RedirectGathered">>
      BY <1>1, PlivoXmlWords
    <3> QED
      BY <3>1, HeardThree, EffectWords
  <2> QED
    BY <1>1, <2>1, GatherThree, EffectWords
<1>2. CASE verb # "gather"
  <2>1. \E a : PlivoXml[verb] = <<a>> /\ Effect(a, pressed) = IF verb = "say" THEN "speak" ELSE EndOf(verb)
    <3>1. \/ verb = "say" /\ PlivoXml[verb] = <<"Speak">>
          \/ verb = "speakEnded" /\ PlivoXml[verb] = <<"Redirect">>
          \/ verb = "join" /\ PlivoXml[verb] = <<"Conference">>
          \/ verb = "hangup" /\ PlivoXml[verb] = <<"Hangup">>
          \/ verb = "reject" /\ PlivoXml[verb] = <<"Hangup">>
      BY <1>2, Verbs, PlivoXmlWords
    <3> QED
      BY <3>1, EffectWords, EndWords
  <2> QED
    BY <1>2, <2>1, HeardOne, MeansOne
<1> QED
  BY <1>1, <1>2

LEMMA BxmlMeansIt ==
  ASSUME NEW verb \in Plain, NEW pressed \in BOOLEAN
  PROVE  MeansIt(verb, Heard(Bxml[verb], pressed))
<1>1. CASE verb = "gather"
  <2>1. Heard(Bxml[verb], pressed) = <<"speak", "gathered">>
    <3>1. Bxml[verb] = <<"SpeakSentence", "Gather">>
      BY <1>1, BxmlWords
    <3> QED
      BY <3>1, HeardTwo, EffectWords
  <2> QED
    BY <1>1, <2>1, GatherTwo
<1>2. CASE verb # "gather"
  <2>1. \E a : Bxml[verb] = <<a>> /\ Effect(a, pressed) = IF verb = "say" THEN "speak" ELSE EndOf(verb)
    <3>1. \/ verb = "say" /\ Bxml[verb] = <<"SpeakSentence">>
          \/ verb = "speakEnded" /\ Bxml[verb] = <<"Redirect">>
          \/ verb = "join" /\ Bxml[verb] = <<"Conference">>
          \/ verb = "hangup" /\ Bxml[verb] = <<"Hangup">>
          \/ verb = "reject" /\ Bxml[verb] = <<"Hangup">>
      BY <1>2, Verbs, BxmlWords
    <3> QED
      BY <3>1, EffectWords, EndWords
  <2> QED
    BY <1>2, <2>1, HeardOne, MeansOne
<1> QED
  BY <1>1, <1>2

\* The NCCO has nothing for a call that ends.
LEMMA NccoMeansIt ==
  ASSUME NEW verb \in Plain \ {"hangup", "reject"}, NEW pressed \in BOOLEAN
  PROVE  MeansIt(verb, Heard(Ncco[verb], pressed))
<1>1. CASE verb = "gather"
  <2>1. Heard(Ncco[verb], pressed) = <<"speak", "gathered">>
    <3>1. Ncco[verb] = <<"talk", "input">>
      BY <1>1, NccoWords
    <3> QED
      BY <3>1, HeardTwo, EffectWords
  <2> QED
    BY <1>1, <2>1, GatherTwo
<1>2. CASE verb # "gather"
  <2>1. \E a : Ncco[verb] = <<a>> /\ Effect(a, pressed) = IF verb = "say" THEN "speak" ELSE EndOf(verb)
    <3>1. \/ verb = "say" /\ Ncco[verb] = <<"talk">>
          \/ verb = "speakEnded" /\ Ncco[verb] = <<"notify">>
          \/ verb = "join" /\ Ncco[verb] = <<"conversation">>
      BY <1>2, Verbs, NccoWords
    <3> QED
      BY <3>1, EffectWords, EndWords
  <2> QED
    BY <1>2, <2>1, HeardOne, MeansOne
<1> QED
  BY <1>1, <1>2

LEMMA MeaningMeansIt ==
  ASSUME NEW verb \in Plain
  PROVE  MeansIt(verb, Meaning[verb])
<1>1. CASE verb = "gather"
  BY <1>1, GatherTwo, MeaningWords
<1>2. CASE verb # "gather"
  <2>1. \E x : Meaning[verb] = <<x>> /\ x = IF verb = "say" THEN "speak" ELSE EndOf(verb)
    BY <1>2, Verbs, MeaningWords, EndWords
  <2> QED
    BY <1>2, <2>1, MeansOne
<1> QED
  BY <1>1, <1>2

\* A document of any carrier is faithful to its verbs, and so is what they mean.
LEMMA RenderFaithful ==
  ASSUME NEW m \in Nat, NEW verbs \in [1 .. m -> Plain], NEW carrier \in Markup, NEW pressed \in BOOLEAN
  PROVE  Faithful(verbs, Effects(Render(carrier, verbs), pressed))
<1> DEFINE e == Effects(Render(carrier, verbs), pressed)
<1>1. ASSUME NEW table, Render(carrier, verbs) = Elements(table, verbs),
             \A verb \in Plain : MeansIt(verb, Heard(table[verb], pressed))
      PROVE  Faithful(verbs, e)
  <2>1. DOMAIN e = DOMAIN verbs /\ \A i \in DOMAIN verbs : e[i] = Heard(table[verbs[i]], pressed)
    BY <1>1 DEF Elements, Effects, Heard
  <2> HIDE DEF e
  <2> QED
    BY <1>1, <2>1 DEF Faithful
<1>2. CASE carrier \in {"twilio", "signalwire"}
  <2>1. Render(carrier, verbs) = Elements(Twiml, verbs)
    BY <1>2 DEF Render
  <2> QED
    BY <1>1, <2>1, TwimlMeansIt
<1>3. CASE carrier = "plivo"
  <2>1. Render(carrier, verbs) = Elements(PlivoXml, verbs)
    BY <1>3 DEF Render
  <2> QED
    BY <1>1, <2>1, PlivoXmlMeansIt
<1>4. CASE carrier = "bandwidth"
  <2>1. Render(carrier, verbs) = Elements(Bxml, verbs)
    BY <1>4 DEF Render
  <2> QED
    BY <1>1, <2>1, BxmlMeansIt
<1>5. CASE carrier = "vonage"
  <2>1. Render(carrier, verbs) = [i \in DOMAIN verbs |-> IF i \in UpTo(verbs) THEN Ncco[verbs[i]] ELSE <<>>]
    BY <1>5 DEF Render
  <2>2. DOMAIN e = DOMAIN verbs
    BY <2>1 DEF Effects
  <2>3. ASSUME NEW i \in DOMAIN verbs
        PROVE  e[i] = Heard(IF i \in UpTo(verbs) THEN Ncco[verbs[i]] ELSE <<>>, pressed)
    BY <2>1 DEF Effects, Heard
  <2> HIDE DEF e
  <2>4. DOMAIN Heard(<<>>, pressed) = {}
    BY DEF Heard
  <2>5. Ncco["hangup"] = <<>> /\ Ncco["reject"] = <<>>
    BY NccoWords
  <2>6. ASSUME NEW i \in DOMAIN verbs, i \in UpTo(verbs), verbs[i] \notin {"hangup", "reject"}
        PROVE  MeansIt(verbs[i], e[i])
    BY <2>3, <2>6, NccoMeansIt
  <2>7. ASSUME NEW i \in DOMAIN verbs
        PROVE  \/ MeansIt(verbs[i], e[i]) /\ \A j \in DOMAIN verbs : j < i => MeansIt(verbs[j], e[j])
               \/ /\ DOMAIN e[i] = {}
                  /\ \/ verbs[i] \in {"hangup", "reject"}
                     \/ \E j \in DOMAIN verbs : j < i /\ verbs[j] # "say"
    <3>1. CASE i \notin UpTo(verbs)
      <4>1. \E j \in DOMAIN verbs : j < i /\ verbs[j] # "say"
        BY <3>1 DEF UpTo
      <4> QED
        BY <2>3, <2>4, <3>1, <4>1
    <3>2. CASE i \in UpTo(verbs) /\ verbs[i] \in {"hangup", "reject"}
      BY <2>3, <2>4, <2>5, <3>2
    <3>3. CASE i \in UpTo(verbs) /\ verbs[i] \notin {"hangup", "reject"}
      <4>1. ASSUME NEW j \in DOMAIN verbs, j < i PROVE MeansIt(verbs[j], e[j])
        <5>1. verbs[j] \notin {"hangup", "reject"}
          BY <3>3, <4>1 DEF UpTo
        <5>2. \A k \in DOMAIN verbs : k < j => k < i
          BY <4>1
        <5>3. j \in UpTo(verbs)
          BY <3>3, <5>2 DEF UpTo
        <5> QED
          BY <2>6, <5>1, <5>3
      <4> QED
        BY <2>6, <3>3, <4>1
    <3> QED
      BY <3>1, <3>2, <3>3
  <2>8. Faithful(verbs, e)
    BY <2>2, <2>7 DEF Faithful
  <2> QED
    BY <2>8 DEF e
<1> QED
  BY <1>2, <1>3, <1>4, <1>5 DEF Markup

LEMMA MeaningFaithful ==
  ASSUME NEW m \in Nat, NEW verbs \in [1 .. m -> Plain]
  PROVE  Faithful(verbs, Elements(Meaning, verbs))
BY MeaningMeansIt DEF Faithful, Elements

\* A recording is started before the leg meets anything that ends the document.
LEMMA TapingAgrees ==
  ASSUME NEW carrier \in Markup, NEW pressed \in BOOLEAN
  PROVE  LET doc == Effects(StartRecording(carrier), pressed)
         IN  /\ \E p \in Met(doc) : At(doc, p) = "record"
             /\ StartRecording(carrier) # RestCommand => Done(doc).ends = "room"
<1> DEFINE doc == Effects(StartRecording(carrier), pressed)
<1>1. ASSUME NEW e, DOMAIN e = 1 .. 1, e[1] = <<"record">>
      PROVE  \E p \in Met(e) : At(e, p) = "record"
  <2>1. \A p : p \in Places(e) => p[1] = 1 /\ p[2] = 1
    BY <1>1, PlaceIs
  <2>2. <<1, 1>> \in Places(e)
    BY <1>1, PlaceIs
  <2>3. <<1, 1>> \in Met(e)
    BY <2>1, <2>2 DEF Met, Before
  <2> QED
    BY <1>1, <2>3 DEF At
<1>2. ASSUME NEW e, DOMAIN e = 1 .. 1, e[1] = <<"record", "room">>
      PROVE  (\E p \in Met(e) : At(e, p) = "record") /\ Done(e).ends = "room"
  <2>1. \A p : p \in Places(e) => p = <<1, 1>> \/ p = <<1, 2>>
    BY <1>2, PlaceIs
  <2>2. <<1, 1>> \in Places(e) /\ <<1, 2>> \in Places(e)
    BY <1>2, PlaceIs
  <2>3. At(e, <<1, 1>>) = "record" /\ At(e, <<1, 2>>) = "room"
    BY <1>2 DEF At
  <2>4. "record" \notin Ending /\ "room" \in Ending
    BY DEF Ending
  <2>5. ~Before(<<1, 1>>, <<1, 1>>) /\ ~Before(<<1, 2>>, <<1, 1>>) /\ ~Before(<<1, 2>>, <<1, 2>>)
    BY DEF Before
  <2>6. <<1, 1>> \in Met(e) /\ <<1, 2>> \in Met(e)
    BY <2>1, <2>2, <2>3, <2>4, <2>5 DEF Met
  <2>7. {p \in Met(e) : At(e, p) \in Ending} = {<<1, 2>>}
    BY <2>1, <2>3, <2>4, <2>6 DEF Met
  <2>8. (CHOOSE p \in {<<1, 2>>} : TRUE) = <<1, 2>>
    OBVIOUS
  <2>9. Done(e).ends = "room"
    BY <2>3, <2>7, <2>8 DEF Done
  <2> QED
    BY <2>3, <2>6, <2>9
<1>3. CASE carrier \notin {"bandwidth", "vonage"}
  <2>1. StartRecording(carrier) = RestCommand
    BY <1>3 DEF StartRecording
  <2>2. DOMAIN RestCommand = 1 .. 1 /\ RestCommand[1] = <<"StartRecording">>
    BY DEF RestCommand
  <2>3. DOMAIN doc = 1 .. 1 /\ doc[1] = Heard(<<"StartRecording">>, pressed)
    <3>1. 1 \in 1 .. 1
      OBVIOUS
    <3> QED
      BY <2>1, <2>2, <3>1, EffectsHeard
  <2>4. doc[1] = <<"record">>
    BY <2>3, HeardOne, EffectWords
  <2> HIDE DEF doc
  <2>5. \E p \in Met(doc) : At(doc, p) = "record"
    BY <1>1, <2>3, <2>4
  <2> QED
    BY <2>1, <2>5 DEF doc
<1>4. CASE carrier \in {"bandwidth", "vonage"}
  <2>1. StartRecording(carrier) = Render(carrier, <<"record">>)
    BY <1>4 DEF StartRecording
  <2> DEFINE r == Render(carrier, <<"record">>)
  <2>2. DOMAIN <<"record">> = 1 .. 1 /\ <<"record">>[1] = "record"
    OBVIOUS
  <2>3. DOMAIN r = 1 .. 1 /\ r[1] \in {<<"StartRecording", "Conference">>, <<"StartRecording", "conversation">>}
    <3>1. CASE carrier = "bandwidth"
      <4>1. Bxml["record"] = <<"StartRecording", "Conference">>
        BY DEF Bxml
      <4>2. r = Elements(Bxml, <<"record">>)
        BY <3>1 DEF Render
      <4> QED
        BY <2>2, <4>1, <4>2 DEF Elements
    <3>2. CASE carrier = "vonage"
      <4>1. Ncco["record"] = <<"StartRecording", "conversation">>
        BY DEF Ncco
      <4>2. UpTo(<<"record">>) = 1 .. 1
        BY <2>2 DEF UpTo
      <4>3. r = [i \in 1 .. 1 |-> Ncco["record"]]
        BY <2>2, <3>2, <4>2 DEF Render
      <4> QED
        BY <4>1, <4>3
    <3> QED
      BY <1>4, <3>1, <3>2
  <2>4. DOMAIN doc = 1 .. 1 /\ doc[1] = Heard(r[1], pressed)
    <3>1. 1 \in 1 .. 1
      OBVIOUS
    <3> QED
      BY <2>1, <2>3, <3>1, EffectsHeard
  <2> HIDE DEF r
  <2>5. Heard(r[1], pressed) = <<"record", "room">>
    <3>1. CASE r[1] = <<"StartRecording", "Conference">>
      BY <3>1, HeardTwo, EffectWords
    <3>2. CASE r[1] = <<"StartRecording", "conversation">>
      BY <3>2, HeardTwo, EffectWords
    <3> QED
      BY <2>3, <3>1, <3>2
  <2> HIDE DEF doc
  <2>6. (\E p \in Met(doc) : At(doc, p) = "record") /\ Done(doc).ends = "room"
    BY <1>2, <2>4, <2>5
  <2> QED
    BY <2>6 DEF doc
<1> QED
  BY <1>3, <1>4

\* What happens to a leg, in the words of each carrier.
LEMMA EventsAgree ==
  ASSUME NEW t \in Events, t.verified
  PROVE  Hear(t) = Meant(t)
<1>1. /\ t.carrier \in Markup \cup {"telnyx", "custom"} /\ t.what \in Happening
      /\ t.direction \in {"inbound", "outbound"} /\ t.cause \in {"completed", "busy", "no-answer"}
      /\ t.direction \in Directions(t.what)
  BY DEF Events
<1>2. /\ t.what \in {"arrives", "keys", "recorded"} => t.direction = "inbound"
      /\ t.what \in {"answered", "rings"} => t.direction = "outbound"
  BY <1>1 DEF Directions
<1>3. CASE t.carrier = "telnyx"
  <2>1. Known(t.carrier, t) = "leg"
    BY <1>3 DEF Known
  <2> DEFINE e == Typed(t, TelnyxType(t))
  <2>2. Hear(t) = ParseTelnyx(e)
    BY <1>3 DEF Hear, Markup
  <2>3. /\ e.type = TelnyxType(t) /\ e.own = "leg" /\ e.direction = t.direction /\ e.grade = t.grade
        /\ e.digits = t.digits /\ e.url = IF t.what = "recorded" THEN "address" ELSE "none"
    BY DEF Typed
  <2> HIDE DEF e
  <2>4. CASE t.what = "arrives"
    BY <1>3, <1>2, <2>1, <2>2, <2>3, <2>4 DEF ParseTelnyx, TelnyxType, Meant
  <2>5. CASE t.what \in {"spoken", "keys", "answered"}
    BY <1>3, <2>1, <2>2, <2>3, <2>5 DEF ParseTelnyx, TelnyxType, Meant
  <2>6. CASE t.what \in {"rings", "over", "recorded"}
    BY <1>3, <1>2, <2>1, <2>2, <2>3, <2>6 DEF ParseTelnyx, TelnyxType, Meant
  <2> QED
    BY <1>1, <2>4, <2>5, <2>6 DEF Happening
<1>4. CASE t.carrier = "custom"
  <2>1. Known(t.carrier, t) = "leg"
    BY <1>4 DEF Known
  <2> DEFINE e == Typed(t, CustomType(t))
  <2>2. Hear(t) = ParseCustom(e)
    BY <1>4 DEF Hear, Markup
  <2>3. /\ e.type = CustomType(t) /\ e.own = "leg" /\ e.direction = t.direction /\ e.grade = t.grade
        /\ e.digits = t.digits /\ e.url = IF t.what = "recorded" THEN "address" ELSE "none"
    BY DEF Typed
  <2> HIDE DEF e
  <2>4. CASE t.what = "arrives"
    BY <1>4, <1>2, <2>1, <2>2, <2>3, <2>4 DEF ParseCustom, CustomType, Meant
  <2>5. CASE t.what \in {"spoken", "keys", "answered"}
    BY <1>4, <2>1, <2>2, <2>3, <2>5 DEF ParseCustom, CustomType, Meant
  <2>6. CASE t.what \in {"rings", "over", "recorded"}
    BY <1>4, <1>2, <2>1, <2>2, <2>3, <2>6 DEF ParseCustom, CustomType, Meant
  <2> QED
    BY <1>1, <2>4, <2>5, <2>6 DEF Happening
<1>5. CASE t.carrier \in Markup
  <2> DEFINE f == Fields(t.carrier, t)
             named == Known(t.carrier, t)
  <2>1. Hear(t) = IF Hook(t.carrier, t) = "none" THEN Nothing ELSE Parse(t.carrier, Hook(t.carrier, t), f)
    BY <1>5 DEF Hear, Markup
  <2>2. /\ f.own = "leg" /\ f.request = "request" /\ f.call = named /\ f.direction = t.direction
        /\ f.status = Word(t.carrier, t) /\ f.grade = t.grade /\ f.verified = TRUE /\ f.digits = t.digits
        /\ f.url = IF t.what = "recorded" THEN "address" ELSE "none"
    BY DEF Fields
  <2> HIDE DEF f
  <2>3. LegId(t.carrier, f) = named
    BY <2>2 DEF LegId, Known
  <2>4. CASE t.what = "arrives"
    <3>1. named = "leg"
      BY <1>2, <2>4 DEF Known
    <3>2. Attestation(t.carrier, f) = IF t.carrier = "vonage" THEN "none" ELSE t.grade
      BY <1>5, <2>2 DEF Attestation, Markup
    <3> QED
      BY <2>1, <2>2, <2>4, <3>1, <3>2 DEF Hook, Parse, Meant
  <2>5. CASE t.what \in {"spoken", "keys"}
    BY <2>1, <2>2, <2>5 DEF Hook, Parse, Meant
  <2>6. CASE t.what = "answered"
    BY <1>2, <2>1, <2>3, <2>6 DEF Hook, Parse, Meant
  <2>7. CASE t.what = "rings"
    <3>1. t.carrier = "vonage" => ~Ended(t.carrier, f)
      BY <2>2, <2>7 DEF Ended, Word, TERMINAL
    <3> QED
      BY <2>1, <2>7, <3>1 DEF Hook, Parse, Meant
  <2>8. CASE t.what = "over"
    <3>1. Ended(t.carrier, f)
      BY <1>1, <1>5, <2>2, <2>8 DEF Ended, Word, TERMINAL, Markup
    <3> QED
      BY <2>1, <2>3, <2>8, <3>1 DEF Hook, Parse, Meant
  <2>9. CASE t.what = "recorded"
    BY <2>1, <2>2, <2>9 DEF Hook, Parse, Meant
  <2> QED
    BY <1>1, <2>4, <2>5, <2>6, <2>7, <2>8, <2>9 DEF Happening
<1> QED
  BY <1>1, <1>3, <1>4, <1>5

\* One task of each kind.
LEMMA DocumentsAgree ==
  ASSUME NEW t \in Documents
  PROVE  Carry(t) = Done(Elements(Meaning, t.verbs))
<1>1. /\ t.carrier \in Markup /\ t.pressed \in BOOLEAN /\ t.verbs \in Seqs!SeqOf(Plain, MaxVerbs)
  BY DEF Documents, Plain
<1>2. PICK m \in 0 .. MaxVerbs : t.verbs \in [1 .. m -> Plain]
  BY <1>1 DEF Seqs!SeqOf
<1>3. m \in Nat
  BY WireAssumption
<1> DEFINE e == Effects(Render(t.carrier, t.verbs), t.pressed)
           f == Elements(Meaning, t.verbs)
<1>4. Faithful(t.verbs, e)
  BY <1>1, <1>2, <1>3, RenderFaithful
<1>5. Faithful(t.verbs, f)
  BY <1>2, <1>3, MeaningFaithful
<1>6. Carry(t) = Done(e)
  BY DEF Carry
<1> HIDE DEF e, f
<1>7. Done(e) = Normal(t.verbs) /\ Done(f) = Normal(t.verbs)
  BY <1>2, <1>3, <1>4, <1>5, DoneIsNormal
<1> QED
  BY <1>6, <1>7 DEF f

LEMMA PurchasesAgree ==
  ASSUME NEW t \in Purchases
  PROVE  /\ t.truth # "half" /\ t.words = "known" =>
              /\ PurchaseResult(t.carrier, t.truth, t.words) = "ACTIVE" <=> t.truth = "given"
              /\ PurchaseResult(t.carrier, t.truth, t.words) = "PENDING" <=> t.truth = "pending"
         /\ t.truth = "given" /\ t.carrier # "custom" =>
              PurchaseResult(t.carrier, t.truth, t.words) = "ACTIVE"
         /\ t.carrier \in {"telnyx", "custom"} /\ t.words = "known" =>
              (CheckOrder(t.carrier, t.truth, t.words) = "ACTIVE" <=> t.truth = "given")
<1>1. t.truth \in Truth(t.carrier) /\ t.words \in Words(t.carrier)
  BY DEF Purchases
<1>2. t.truth \in {"refused", "given", "pending", "half"} /\ t.words \in {"known", "other"}
  BY <1>1 DEF Truth, Words
<1> DEFINE it == PurchaseResult(t.carrier, t.truth, t.words)
<1>3. /\ t.truth = "given" /\ t.words = "known" => it = "ACTIVE"
      /\ t.truth = "pending" /\ t.words = "known" => it = "PENDING"
      /\ t.truth = "half" => it = "throws"
      /\ t.truth = "refused" /\ t.words = "known" => it \in {"FAILED", "throws"}
      /\ t.truth = "given" /\ t.words = "other" /\ t.carrier # "custom" => it = "ACTIVE"
  BY DEF PurchaseResult
<1>4. t.carrier \in {"telnyx", "custom"} => CheckOrder(t.carrier, t.truth, t.words) = it
  BY DEF CheckOrder
<1> HIDE DEF it
<1>5. it = PurchaseResult(t.carrier, t.truth, t.words)
  BY DEF it
<1> QED
  BY <1>2, <1>3, <1>4, <1>5

LEMMA JobIs ==
  ASSUME NEW t \in Tasks
  PROVE  \/ t.job = "document" /\ t \in Documents
         \/ t.job = "taping" /\ t.carrier \in Markup
         \/ t.job = "event" /\ t \in Events
         \/ t.job \in {"purchase", "check"} /\ t \in Purchases
<1>1. CASE t \in Documents
  BY <1>1 DEF Documents
<1>2. CASE t \in Tapings
  BY <1>2 DEF Tapings
<1>3. CASE t \in Events
  BY <1>3 DEF Events
<1>4. CASE t \in Purchases
  BY <1>4 DEF Purchases
<1> QED
  BY <1>1, <1>2, <1>3, <1>4 DEF Tasks

LEMMA TranslateAgrees ==
  ASSUME task \in Tasks, Translate
  PROVE  CarriersAgree'
<1>1. UNCHANGED task
  BY DEF Translate
<1>2. CASE task.job = "document" /\ task \in Documents
  <2>1. result' = <<Carry(task)>>
    BY <1>2 DEF Translate
  <2>2. result'[1] = Done(Elements(Meaning, task.verbs))
    BY <1>2, <2>1, DocumentsAgree
  <2> QED
    BY <1>1, <1>2, <2>2 DEF CarriersAgree
<1>3. CASE task.job = "taping" /\ task.carrier \in Markup
  <2>1. result' = <<StartRecording(task.carrier)>>
    BY <1>3 DEF Translate
  <2>2. \A pressed \in BOOLEAN :
          /\ \E p \in Met(Effects(result'[1], pressed)) : At(Effects(result'[1], pressed), p) = "record"
          /\ result'[1] # RestCommand => Done(Effects(result'[1], pressed)).ends = "room"
    BY <1>3, <2>1, TapingAgrees
  <2>3. /\ \E p \in Met(Effects(result'[1], FALSE)) : At(Effects(result'[1], FALSE), p) = "record"
        /\ result'[1] # RestCommand => Done(Effects(result'[1], FALSE)).ends = "room"
    BY <2>2
  <2> QED
    BY <1>1, <1>3, <2>3 DEF CarriersAgree
<1>4. CASE task.job = "event" /\ task \in Events
  <2>1. result' = <<Hear(task)>>
    BY <1>4 DEF Translate
  <2>2. task.verified => result'[1] = Meant(task)
    BY <1>4, <2>1, EventsAgree
  <2> QED
    BY <1>1, <1>4, <2>2 DEF CarriersAgree
<1>5. CASE task.job = "purchase" /\ task \in Purchases
  <2>1. result' = <<PurchaseResult(task.carrier, task.truth, task.words)>>
    BY <1>5 DEF Translate
  <2>2. /\ task.truth # "half" /\ task.words = "known" =>
             /\ result'[1] = "ACTIVE" <=> task.truth = "given"
             /\ result'[1] = "PENDING" <=> task.truth = "pending"
        /\ task.truth = "given" /\ task.carrier # "custom" => result'[1] = "ACTIVE"
    BY <1>5, <2>1, PurchasesAgree
  <2> QED
    BY <1>1, <1>5, <2>2 DEF CarriersAgree
<1>6. CASE task.job = "check" /\ task \in Purchases
  <2>1. result' = <<CheckOrder(task.carrier, task.truth, task.words)>>
    BY <1>6 DEF Translate
  <2>2. task.carrier \in {"telnyx", "custom"} /\ task.words = "known" =>
          (result'[1] = "ACTIVE" <=> task.truth = "given")
    BY <1>6, <2>1, PurchasesAgree
  <2> QED
    BY <1>1, <1>6, <2>2 DEF CarriersAgree
<1> QED
  BY <1>2, <1>3, <1>4, <1>5, <1>6, JobIs

(* The router does not see which carrier a call is on                       *)
(* (call-control.types.ts:1), for documents of any length; orders it sees   *)
(* as the carrier does when the answer is in words the program asks for.    *)
THEOREM CarriersSpeakAlike == WireSpec => []CarriersAgree
<1>1. WireInit => CarriersAgree
  BY DEF WireInit, CarriersAgree
<1>2. task \in Tasks /\ [Translate]_wireVars => (task \in Tasks)'
  BY DEF Translate, wireVars
<1>3. task \in Tasks /\ CarriersAgree /\ [Translate]_wireVars => CarriersAgree'
  <2>1. CASE Translate
    BY <2>1, TranslateAgrees
  <2>2. CASE UNCHANGED wireVars
    BY <2>2 DEF wireVars, CarriersAgree
  <2> QED
    BY <2>1, <2>2
<1> QED
  BY <1>1, <1>2, <1>3, PTL DEF WireSpec

-----------------------------------------------------------------------------
(***************************************************************************)
(* A phone menu lets go of the caller.                                     *)
(*                                                                         *)
(* Every prompt is counted before it is played, so a menu that waits has   *)
(* counted at least one and no more than the limit, whatever the flow.     *)
(***************************************************************************)
\* A menu that waits for the caller has counted the prompt, and one that has not begun none.
MenuInv ==
  /\ flow \in [Node -> Kinds]
  /\ node \in Node
  /\ steps \in 0 .. IVR_MAX_STEPS + 1
  /\ phase = "greeting" => steps = 0
  /\ phase = "ivr" => steps \in 1 .. IVR_MAX_STEPS

\* What a step may do to the count.
PromptsCounted == phase = "ivr" => phase' # "ivr" \/ steps' = steps + 1

\* So a menu begins.
LEMMA MenuStarts == MenuInit => MenuInv
  BY MenuAssumption DEF MenuInit, MenuInv

\* A prompt that is played has been counted.
LEMMA PromptIsCounted ==
  ASSUME MenuInv, NEW n \in Node, NEW again, RunIvrNode(n, again), UNCHANGED flow,
         phase \in {"greeting", "ivr"}
  PROVE  MenuInv' /\ PromptsCounted
<1>1. steps + 1 \in 1 .. IVR_MAX_STEPS + 1
  BY MenuAssumption DEF MenuInv
<1> QED
  BY <1>1, MenuAssumption DEF RunIvrNode, Hangup, MenuInv, PromptsCounted

\* So has the one an action leads to.
LEMMA ActionIsCounted ==
  ASSUME MenuInv, NEW a \in Action, NEW again, IvrAction(a, again), UNCHANGED flow, phase = "ivr"
  PROVE  MenuInv' /\ PromptsCounted
<1>1. CASE a \in Node
  BY <1>1, PromptIsCounted, MenuAssumption DEF IvrAction
<1>2. CASE a \notin Node /\ a = "route"
  BY <1>2 DEF IvrAction, MenuInv, PromptsCounted
<1>3. CASE a \notin Node /\ a = "hangup"
  BY <1>3 DEF IvrAction, Hangup, MenuInv, PromptsCounted
<1> QED
  BY <1>1, <1>2, <1>3 DEF Action

\* No step of a menu is left out.
LEMMA MenuStepIsCounted ==
  ASSUME MenuInv, [MenuNext]_menuVars
  PROVE  MenuInv' /\ (PromptsCounted \/ UNCHANGED menuVars)
<1>1. CASE AfterGreeting
  BY <1>1, PromptIsCounted DEF AfterGreeting, MenuInv
<1>2. CASE Said
  <2>1. flow[node].next \in Action
    BY <1>2 DEF MenuInv, Kinds, Said
  <2> QED
    BY <1>2, <2>1, ActionIsCounted DEF Said
<1>3. CASE GoodKey
  <2>1. flow[node].next \in Action
    BY <1>3 DEF MenuInv, Kinds, GoodKey
  <2> QED
    BY <1>3, <2>1, ActionIsCounted DEF GoodKey
<1>4. CASE WrongKey
  <2>1. flow[node].fallback \in Action
    BY <1>4 DEF MenuInv, Kinds, WrongKey
  <2>2. node \in Node
    BY DEF MenuInv
  <2> QED
    BY <1>4, <2>1, <2>2, PromptIsCounted, ActionIsCounted DEF WrongKey
<1>5. CASE UNCHANGED menuVars
  BY <1>5 DEF menuVars, MenuInv
<1> QED
  BY <1>1, <1>2, <1>3, <1>4, <1>5 DEF MenuNext

\* Whatever flow a customer draws, however long, and whatever keys the caller presses, no
\* more prompts are played than the limit: runIvrNode counts each before it asks for it.
THEOREM MenuHoldsNobody == MenuSpec => MenuIsBounded
<1>1. MenuInv => (phase = "ivr" => steps \in 1 .. IVR_MAX_STEPS)
  BY DEF MenuInv
<1>2. ASSUME MenuInv, [MenuNext]_menuVars
      PROVE  [phase = "ivr" => phase' # "ivr" \/ steps' = steps + 1]_menuVars
  BY <1>2, MenuStepIsCounted DEF PromptsCounted
<1>3. MenuInv /\ [MenuNext]_menuVars => MenuInv'
  BY MenuStepIsCounted
<1> QED
  BY <1>1, <1>2, <1>3, MenuStarts, PTL DEF MenuSpec, MenuIsBounded

-----------------------------------------------------------------------------
(***************************************************************************)
(* Presence is kept by a tab that beats, and set by a click alone.         *)
(*                                                                         *)
(* A tab whose last heartbeat went through leaves the key as much time as  *)
(* is left to its next one and the time of another one on top; a tab that  *)
(* missed one, still the time to the next.                                 *)
(***************************************************************************)
\* What a tab leaves the key.
Kept(t) ==
  /\ missed[t] = 0 => presence >= PresenceTtl - BeatEvery + timer[t]
  /\ missed[t] = 1 => presence >= PresenceTtl - 2 * BeatEvery + timer[t]

\* Every tab that shows Available does.
PresenceInv ==
  /\ presence \in 0 .. PresenceTtl
  /\ shows \subseteq Tab
  /\ answer \in [Tab -> {"none", "on", "off"}]
  /\ timer \in [Tab -> 0 .. BeatEvery]
  /\ missed \in [Tab -> 0 .. 3]
  /\ presence > 0 => \A t \in shows : Kept(t)

\* At first no tab is open.
LEMMA PresenceStarts == PresenceInit => PresenceInv
  BY PresenceAssumption DEF PresenceInit, PresenceInv, Fresh

\* The key with all its time is enough for any tab.
LEMMA FullKeyKeeps ==
  ASSUME PresenceInv, NEW t \in Tab, presence' = PresenceTtl,
         timer'[t] \in 0 .. BeatEvery
  PROVE  Kept(t)'
<1>1. PresenceTtl >= PresenceTtl - BeatEvery + timer'[t]
  BY PresenceAssumption
<1>2. PresenceTtl >= PresenceTtl - 2 * BeatEvery + timer'[t]
  BY PresenceAssumption
<1> QED
  BY <1>1, <1>2 DEF Kept

\* No tab that beats is shown in the last unit before the key runs out.
LEMMA LastUnit ==
  ASSUME PresenceInv, NEW t \in shows, presence = 1, timer[t] > 0
  PROVE  missed[t] >= 2
<1>1. Kept(t) /\ timer[t] \in Int /\ missed[t] \in 0 .. 3
  BY DEF PresenceInv
<1>2. missed[t] # 0 /\ missed[t] # 1
  BY <1>1, PresenceAssumption DEF Kept
<1> QED
  BY <1>1, <1>2

\* A step that leaves the key, or one that exists, alone.
LEMMA KeyLeftAlone ==
  ASSUME PresenceInv, presence' = presence
  PROVE  OnlyStatusTurnsOn /\ LapsesInSilence
<1>1. ~(presence = 0 /\ presence' > 0) /\ ~(presence > 0 /\ presence' = 0)
  BY DEF PresenceInv
<1> QED
  BY <1>1, Zenon DEF OnlyStatusTurnsOn, LapsesInSilence

\* A click, an answer, or a heartbeat that goes through or fails.
LEMMA TabStepKeeps ==
  ASSUME PresenceInv, NEW t \in Tab, TabStep(t)
  PROVE  PresenceInv' /\ OnlyStatusTurnsOn /\ LapsesInSilence
<1>1. CASE OpenTab(t)
  BY <1>1, KeyLeftAlone DEF OpenTab, PresenceInv, Kept
<1>2. CASE CloseTab(t)
  BY <1>2, KeyLeftAlone, PresenceAssumption DEF CloseTab, PresenceInv, Kept, Fresh
<1>3. CASE Poll(t)
  BY <1>3, KeyLeftAlone DEF Poll, PresenceInv, Kept
<1>4. CASE Show(t)
  <2>1. answer' \in [Tab -> {"none", "on", "off"}] /\ shows' \subseteq Tab /\ presence' = presence
    BY <1>4 DEF Show, PresenceInv
  <2>2. CASE (t \in shows) = (t \in shows')
    <3>1. shows' = shows /\ timer' = timer /\ missed' = missed
      BY <1>4, <2>2 DEF Show
    <3> QED
      BY <2>1, <3>1, KeyLeftAlone DEF PresenceInv, Kept
  <2>3. CASE (t \in shows) # (t \in shows')
    <3>1. /\ timer' = [timer EXCEPT ![t] = IF t \in shows' THEN BeatEvery ELSE 0]
          /\ missed' = [missed EXCEPT ![t] = 3]
          /\ shows' \subseteq shows \cup {t}
      BY <1>4, <2>3 DEF Show, Fresh
    <3>2. timer' \in [Tab -> 0 .. BeatEvery] /\ missed' \in [Tab -> 0 .. 3]
      BY <3>1, PresenceAssumption DEF PresenceInv
    <3>3. ASSUME presence > 0, NEW u \in shows'  PROVE Kept(u)'
      <4>1. CASE u = t
        BY <3>1, <4>1 DEF Kept, PresenceInv
      <4>2. CASE u # t
        BY <2>1, <3>1, <3>3, <4>2 DEF Kept, PresenceInv
      <4> QED
        BY <4>1, <4>2
    <3> QED
      BY <2>1, <3>2, <3>3, KeyLeftAlone DEF PresenceInv
  <2> QED
    BY <2>2, <2>3
<1>5. ASSUME NEW available \in BOOLEAN, SetStatus(t, available)
      PROVE  PresenceInv' /\ OnlyStatusTurnsOn /\ LapsesInSilence
  <2>1. /\ presence' = IF available THEN PresenceTtl ELSE 0
        /\ UNCHANGED <<open, shows, answer, timer, missed>>
    BY <1>5 DEF SetStatus
  <2>2. CASE available
    <3>1. \A u \in shows : Kept(u)'
      BY <2>1, <2>2, FullKeyKeeps DEF PresenceInv
    <3>2. SetStatus(t, TRUE)
      BY <1>5, <2>2, Zenon
    <3>3. PresenceInv'
      BY <2>1, <2>2, <3>1, PresenceAssumption DEF PresenceInv
    <3>4. presence' # 0
      BY <2>1, <2>2, PresenceAssumption
    <3> QED
      BY <3>2, <3>3, <3>4, Zenon DEF OnlyStatusTurnsOn, LapsesInSilence
  <2>3. CASE ~available
    <3>1. PresenceInv' /\ ~(presence' > 0)
      BY <2>1, <2>3, PresenceAssumption DEF PresenceInv
    <3>2. PresenceTick /\ presence > 0 => \A u \in shows : missed[u] >= 2
      <4>1. PresenceTick => presence' = (IF presence = 0 THEN 0 ELSE presence - 1) /\ \A u \in shows : timer[u] > 0
        BY DEF PresenceTick
      <4>2. ASSUME PresenceTick, presence > 0, NEW u \in shows  PROVE missed[u] >= 2
        <5>1. presence = 1 /\ timer[u] > 0
          BY <2>1, <2>3, <4>1, <4>2 DEF PresenceInv
        <5> QED
          BY <5>1, LastUnit
      <4> QED
        BY <4>2
    <3> QED
      BY <3>1, <3>2, Zenon DEF OnlyStatusTurnsOn, LapsesInSilence
  <2> QED
    BY <2>2, <2>3
<1>6. CASE Beat(t)
  <2>1. /\ presence' = IF presence > 0 THEN PresenceTtl ELSE 0
        /\ timer' = [timer EXCEPT ![t] = BeatEvery]
        /\ missed' = [missed EXCEPT ![t] = 0]
        /\ UNCHANGED <<open, shows, answer>>
    BY <1>6 DEF Beat, Extend
  <2>2. timer' \in [Tab -> 0 .. BeatEvery] /\ missed' \in [Tab -> 0 .. 3]
    BY <2>1, PresenceAssumption DEF PresenceInv
  <2>3. presence > 0 => \A u \in shows : Kept(u)'
    BY <2>1, <2>2, FullKeyKeeps DEF PresenceInv
  <2>4. PresenceInv'
    BY <2>1, <2>2, <2>3, PresenceAssumption DEF PresenceInv
  <2>5. ~(presence = 0 /\ presence' > 0) /\ ~(presence > 0 /\ presence' = 0)
    BY <2>1, PresenceAssumption DEF PresenceInv
  <2> QED
    BY <2>4, <2>5, Zenon DEF OnlyStatusTurnsOn, LapsesInSilence
<1>7. CASE BeatFails(t)
  <2>1. /\ timer[t] = 0
        /\ timer' = [timer EXCEPT ![t] = BeatEvery]
        /\ missed' = [missed EXCEPT ![t] = IF @ < 2 THEN @ + 1 ELSE @]
        /\ UNCHANGED <<presence, open, shows, answer>>
    BY <1>7 DEF BeatFails
  <2>2. timer' \in [Tab -> 0 .. BeatEvery] /\ missed' \in [Tab -> 0 .. 3]
    BY <2>1, PresenceAssumption DEF PresenceInv
  <2>3. ASSUME presence > 0, NEW u \in shows  PROVE Kept(u)'
    <3>1. CASE u = t
      <4>1. /\ timer'[t] = BeatEvery /\ missed'[t] # 0
            /\ missed'[t] = 1 => missed[t] = 0
        BY <2>1 DEF PresenceInv
      <4>2. missed[t] = 0 => presence >= PresenceTtl - BeatEvery
        BY <2>1, <2>3, <3>1, PresenceAssumption DEF PresenceInv, Kept
      <4> QED
        BY <2>1, <3>1, <4>1, <4>2, PresenceAssumption DEF Kept, PresenceInv
    <3>2. CASE u # t
      BY <2>1, <2>3, <3>2 DEF Kept, PresenceInv
    <3> QED
      BY <3>1, <3>2
  <2> QED
    BY <2>1, <2>2, <2>3, KeyLeftAlone DEF PresenceInv
<1> QED
  BY <1>1, <1>2, <1>3, <1>4, <1>5, <1>6, <1>7 DEF TabStep

\* Time takes as much from the key as from the timers.
LEMMA TickKeeps ==
  ASSUME PresenceInv, PresenceTick
  PROVE  PresenceInv' /\ OnlyStatusTurnsOn /\ LapsesInSilence
<1>1. /\ \A t \in shows : timer[t] > 0
      /\ presence' = IF presence = 0 THEN 0 ELSE presence - 1
      /\ timer' = [t \in Tab |-> IF t \in shows THEN timer[t] - 1 ELSE 0]
      /\ UNCHANGED <<open, shows, answer, missed>>
  BY DEF PresenceTick
<1>2. timer' \in [Tab -> 0 .. BeatEvery]
  BY <1>1, PresenceAssumption DEF PresenceInv
<1>3. presence' \in 0 .. PresenceTtl
  BY <1>1, PresenceAssumption DEF PresenceInv
<1>4. ASSUME presence' > 0, NEW t \in shows  PROVE Kept(t)'
  <2>1. timer'[t] = timer[t] - 1 /\ missed'[t] = missed[t] /\ presence' = presence - 1 /\ presence > 0
    BY <1>1, <1>4 DEF PresenceInv
  <2>2. Kept(t) /\ timer[t] \in Int /\ presence \in Int
    BY <2>1 DEF PresenceInv
  <2> QED
    BY <2>1, <2>2, PresenceAssumption DEF Kept
<1>5. ASSUME presence > 0, presence' = 0, NEW t \in shows  PROVE missed[t] >= 2
  <2>1. presence = 1 /\ timer[t] > 0
    BY <1>1, <1>5 DEF PresenceInv
  <2> QED
    BY <2>1, LastUnit
<1>6. PresenceInv'
  BY <1>1, <1>2, <1>3, <1>4 DEF PresenceInv
<1>7. ~(presence = 0 /\ presence' > 0)
  BY <1>1
<1> QED
  BY <1>5, <1>6, <1>7, Zenon DEF OnlyStatusTurnsOn, LapsesInSilence

\* Any step of the tabs and of time.
LEMMA PresenceStepKeeps ==
  ASSUME PresenceInv, [PresenceNext]_presenceVars
  PROVE  PresenceInv' /\ [OnlyStatusTurnsOn /\ LapsesInSilence]_presenceVars
<1>1. CASE UNCHANGED presenceVars
  BY <1>1 DEF presenceVars, PresenceInv, Kept
<1> QED
  BY <1>1, TabStepKeeps, TickKeeps DEF PresenceNext

\* However many tabs an agent has open, whatever they lose and however old the answers
\* are that they show: only a click makes the agent Available, and the key does not run
\* out on a tab whose last or last but one heartbeat went through.
THEOREM PresenceStays == PresenceSpec => PresenceIsKept
<1>1. PresenceInv /\ [PresenceNext]_presenceVars => PresenceInv'
  BY PresenceStepKeeps
<1>2. PresenceInv /\ [PresenceNext]_presenceVars => [OnlyStatusTurnsOn /\ LapsesInSilence]_presenceVars
  BY PresenceStepKeeps
<1> QED
  BY <1>1, <1>2, PresenceStarts, PTL DEF PresenceSpec, PresenceIsKept

-----------------------------------------------------------------------------
(***************************************************************************)
(* One buyer in the room of a call.                                        *)
(*                                                                         *)
(* The room of a caller is named to a buyer, in what the leg does, in a    *)
(* document that is kept for it or in an answer on its way, only when the  *)
(* call has been connected to that buyer; and a call that is connected is  *)
(* not dialed on.                                                          *)
(***************************************************************************)
\* What a carrier asks for.
Hooks == {"answer", "join", "flow", "gathered", "status", "markup"}

\* The phases of a call that has been connected, and of one that is over.
Through == {"connected", "ended"}

\* The room is named to a buyer.
RoomNamed(b) ==
  \/ at[b] = "room"
  \/ stored[b] = "room"
  \/ \E a \in answers : a.leg = b /\ a.do = "room"

\* It is the buyer of the call.
RoomsInv ==
  /\ at = [l \in Legs |-> at[l]]
  /\ router = [phase |-> router.phase, out |-> router.out, next |-> router.next]
  /\ \A h \in asks : h.hook \in Hooks
  /\ dialing # NoDial => router.phase \notin Through
  /\ \A b \in Buyers : RoomNamed(b) => router.phase \in Through /\ router.out = b

\* What a handler may make of a call that has been connected, or is over.
Stays(state) ==
  router.phase \in Through =>
    /\ state.phase \in Through
    /\ state.out = router.out

\* The caller is no buyer.
LEMMA BuyersAreLegs == Buyers \subseteq Legs /\ Caller \in Legs /\ \A b \in Buyers : b # Caller
  BY RoomsAssumption DEF Buyers, Legs, Caller

\* At first nobody is told anything.
LEMMA RoomsStart == RoomsInit => RoomsInv
<1> SUFFICES ASSUME RoomsInit  PROVE RoomsInv
  OBVIOUS
<1>1. \A b \in Buyers : ~RoomNamed(b)
  BY BuyersAreLegs DEF RoomsInit, RoomNamed
<1>2. dialing = NoDial
  BY DEF RoomsInit
<1>3. \A l \in Legs : at[l] = IF l = Caller THEN "answer" ELSE "join"
  BY DEF RoomsInit
<1>4. at = [l \in Legs |-> at[l]]
  BY DEF RoomsInit
<1> QED
  BY <1>1, <1>2, <1>4 DEF RoomsInit, RoomsInv

\* The end of a handler: the room is named to the buyer the call is connected to alone.
LEMMA FinishKeeps ==
  ASSUME RoomsInv, NEW h, NEW state, NEW own, NEW far, Finish(h, state, own, far),
         state = [phase |-> state.phase, out |-> state.out, next |-> state.next],
         Stays(state),
         dialing' # NoDial => state.phase \notin Through,
         \A b \in Buyers : far[b] # "room",
         own = "room" /\ h.leg \in Buyers => state.phase \in Through /\ state.out = h.leg
  PROVE  RoomsInv' /\ router' = state
<1>0. PICK fails \in BOOLEAN : Finish(h, state, own, far)!(fails)
  BY DEF Finish
<1> DEFINE live == {l \in Legs : leg[l] \in {"ringing", "up"}}
           sent == {l \in live : far[l] = "hangup" /\ ~Unfound(l)}
           hung == IF fails THEN {} ELSE sent
           told == {l \in live : far[l] \notin {"none", "hangup"}}
           fetch == IF Fetches THEN told ELSE {}
           reply == IF h.leg \in live \ hung /\ h.hook # "status"
                    THEN {[leg |-> h.leg, hook |-> h.hook, do |-> Document(h, own)]} ELSE {}
<1>1. /\ router' = state
      /\ at' = [l \in Legs |-> IF l \in hung THEN "off" ELSE IF l \in fetch THEN "markup"
                               ELSE IF l \in told THEN far[l] ELSE at[l]]
      /\ answers' = {a \in answers \cup reply : a.leg \notin hung}
      /\ \E again \in BOOLEAN :
           asks' = (IF again THEN asks ELSE asks \ {h})
                     \cup {Asks("status", l) : l \in hung} \cup {Asks("markup", l) : l \in fetch}
      /\ stored' = [l \in Legs |-> IF l \in fetch THEN far[l]
                                   ELSE IF Asks("markup", l) \in asks' THEN stored[l] ELSE "none"]
  BY <1>0
<1>2. \A a \in reply : a.do = "room" /\ a.leg \in Buyers => own = "room" /\ h.leg = a.leg
  BY BuyersAreLegs DEF Document
<1> HIDE DEF live, sent, hung, told, fetch, reply
<1>3. \A a \in asks' : a.hook \in Hooks
  BY <1>1 DEF RoomsInv, Hooks, Asks
<1>4. ASSUME NEW b \in Buyers, RoomNamed(b)'  PROVE state.phase \in Through /\ state.out = b
  <2>1. CASE RoomNamed(b)
    BY <2>1 DEF RoomsInv, Stays
  <2>2. at'[b] = "room" => at[b] = "room"
    BY <1>1, BuyersAreLegs
  <2>3. stored'[b] = "room" => stored[b] = "room"
    BY <1>1, BuyersAreLegs
  <2>4. CASE \E a \in answers' : a.leg = b /\ a.do = "room"
    <3>1. PICK a \in answers \cup reply : a.leg = b /\ a.do = "room"
      BY <1>1, <2>4
    <3>2. CASE a \in answers
      BY <2>1, <3>1, <3>2 DEF RoomNamed
    <3>3. CASE a \in reply
      BY <1>2, <3>1, <3>3
    <3> QED
      BY <3>1, <3>2, <3>3
  <2> QED
    BY <1>4, <2>1, <2>2, <2>3, <2>4 DEF RoomNamed
<1>5. at' = [l \in Legs |-> at'[l]]
  BY <1>1
<1> QED
  BY <1>1, <1>3, <1>4, <1>5 DEF RoomsInv

\* Nothing is said, or something other than the room.
LEMMA CommandKeeps ==
  ASSUME RoomsInv, NEW h, NEW state, NEW l, NEW command, Command(h, state, l, command),
         state = [phase |-> state.phase, out |-> state.out, next |-> state.next],
         Stays(state),
         dialing' # NoDial => state.phase \notin Through,
         command # "room"
  PROVE  RoomsInv' /\ router' = state
<1>1. \A b \in Buyers : NoCommand[b] # "room" /\ Only(l, command)[b] # "room"
  BY BuyersAreLegs DEF NoCommand, Only
<1>2. CASE Finish(h, state, command, NoCommand)
  BY <1>1, <1>2, FinishKeeps
<1>3. CASE Finish(h, state, "none", Only(l, command))
  BY <1>1, <1>3, FinishKeeps
<1> QED
  BY <1>2, <1>3 DEF Command

\* A request that changes nothing.
LEMMA IgnoreKeeps ==
  ASSUME RoomsInv, NEW h, Ignore(h), UNCHANGED dialing
  PROVE  RoomsInv' /\ router' = router
<1>1. \A b \in Buyers : NoCommand[b] # "room"
  BY BuyersAreLegs DEF NoCommand
<1>2. Stays(router) /\ (dialing' # NoDial => router.phase \notin Through)
  BY DEF Stays, RoomsInv
<1>3. router = [phase |-> router.phase, out |-> router.out, next |-> router.next]
  BY DEF RoomsInv
<1> QED
  BY <1>1, <1>2, <1>3, FinishKeeps DEF Ignore

\* The phase of a record of the call.
LEMMA NewPhase ==
  ASSUME RoomsInv, NEW p
  PROVE  LET state == [router EXCEPT !.phase = p]
         IN  /\ state = [phase |-> state.phase, out |-> state.out, next |-> state.next]
             /\ state.phase = p /\ state.out = router.out
  BY DEF RoomsInv

\* The next buyer is rung, or nobody is left.
LEMMA DialNextKeeps ==
  ASSUME RoomsInv, NEW h, DialNext(h), router.phase \notin Through, dialing = NoDial
  PROVE  RoomsInv' /\ Stays(router')
<1>1. CASE Dial(h)
  BY <1>1 DEF Dial, RoomsInv, RoomNamed, Stays
<1>2. CASE NobodyLeft(h)
  <2> DEFINE state == [phase |-> "closing", out |-> Caller, next |-> NBuyers + 1]
  <2>1. Command(h, state, Caller, "prompt") /\ dialing' = NoDial
    BY <1>2 DEF NobodyLeft, Settled
  <2>2. /\ state = [phase |-> state.phase, out |-> state.out, next |-> state.next]
        /\ Stays(state)
    BY DEF Stays
  <2> HIDE DEF state
  <2> QED
    BY <2>1, <2>2, CommandKeeps
<1> QED
  BY <1>1, <1>2 DEF DialNext

\* A command and a phase, before the call is connected.
LEMMA NewPhaseKeeps ==
  ASSUME RoomsInv, NEW h, NEW p, NEW l, NEW command, command # "room",
         Command(h, [router EXCEPT !.phase = p], l, command), router.phase \notin Through,
         dialing' = NoDial
  PROVE  RoomsInv' /\ Stays(router')
<1> DEFINE state == [router EXCEPT !.phase = p]
<1>1. Command(h, state, l, command)
  OBVIOUS
<1>2. state = [phase |-> state.phase, out |-> state.out, next |-> state.next] /\ Stays(state)
  BY NewPhase DEF Stays
<1> HIDE DEF state
<1> QED
  BY <1>1, <1>2, CommandKeeps

\* The menu leads on.
LEMMA MenuStepKeeps ==
  ASSUME RoomsInv, NEW h, MenuStep(h), router.phase \notin Through, dialing = NoDial
  PROVE  RoomsInv' /\ Stays(router')
<1>1. CASE \E said \in {"prompt", "keys"} :
             Command(h, [router EXCEPT !.phase = "ivr"], Caller, said) /\ Settled
  BY <1>1, NewPhaseKeeps DEF Settled
<1>2. CASE \E said \in {"prompt", "hangup"} :
             Command(h, [router EXCEPT !.phase = "closing"], Caller, said) /\ Settled
  BY <1>2, NewPhaseKeeps DEF Settled
<1> QED
  BY <1>1, <1>2, DialNextKeeps DEF MenuStep

\* The room is named to the leg that asked, which is the buyer's.
LEMMA ConnectKeeps ==
  ASSUME RoomsInv, NEW h, ConnectRoom(h), router.phase \notin Through, dialing = NoDial,
         h.leg = router.out
  PROVE  RoomsInv' /\ Stays(router')
<1> DEFINE state == [router EXCEPT !.phase = "connected"]
<1>1. PICK far \in {NoCommand, Only(Caller, "room")} : Finish(h, state, "room", far)
  BY DEF ConnectRoom
<1>2. dialing' = NoDial
  BY DEF ConnectRoom, Settled
<1>3. \A b \in Buyers : far[b] # "room"
  BY BuyersAreLegs DEF NoCommand, Only
<1>4. /\ state = [phase |-> state.phase, out |-> state.out, next |-> state.next]
      /\ state.phase \in Through /\ state.out = h.leg /\ Stays(state)
  BY NewPhase DEF Stays, Through
<1> HIDE DEF state
<1> QED
  BY <1>1, <1>2, <1>3, <1>4, FinishKeeps

\* A call whose record does not change.
LEMMA StaysPut == ASSUME router' = router  PROVE Stays(router')
  BY DEF Stays

\* A handler that knows the call.
LEMMA InboundKeeps ==
  ASSUME RoomsInv, NEW h, OnInbound(h), dialing = NoDial
  PROVE  RoomsInv' /\ Stays(router')
<1>1. CASE router.phase # "none"
  BY <1>1, IgnoreKeeps, StaysPut DEF OnInbound, Settled
<1>2. CASE router.phase = "none"
  BY <1>2, NewPhaseKeeps, MenuStepKeeps DEF OnInbound, Settled, Through
<1> QED
  BY <1>1, <1>2

\* A message was heard.
LEMMA SpeakEndedKeeps ==
  ASSUME RoomsInv, NEW h, OnSpeakEnded(h), dialing = NoDial
  PROVE  RoomsInv' /\ Stays(router')
<1>1. CASE router.phase \in {"greeting", "ivr"} /\ MenuStep(h)
  BY <1>1, MenuStepKeeps DEF Through
<1>2. CASE router.phase = "whisper" /\ h.leg = router.out /\ ConnectRoom(h)
  BY <1>2, ConnectKeeps DEF Through
<1>3. CASE router.phase = "closing" /\ Command(h, router, Caller, "hangup") /\ Settled
  <2>1. Stays(router) /\ router = [phase |-> router.phase, out |-> router.out, next |-> router.next]
    BY DEF Stays, RoomsInv
  <2> QED
    BY <1>3, <2>1, CommandKeeps DEF Settled
<1>4. CASE Ignore(h) /\ Settled
  BY <1>4, IgnoreKeeps, StaysPut DEF Settled
<1> QED
  BY <1>1, <1>2, <1>3, <1>4 DEF OnSpeakEnded

\* A buyer answered.
LEMMA AnsweredKeeps ==
  ASSUME RoomsInv, NEW h, OnAnswered(h), dialing = NoDial
  PROVE  RoomsInv' /\ Stays(router')
<1>1. CASE h.leg # router.out \/ router.phase \in {"connected", "ended", "whisper"}
  BY <1>1, IgnoreKeeps, StaysPut DEF OnAnswered, Settled
<1>2. CASE h.leg = router.out /\ router.phase \notin {"connected", "ended", "whisper"}
  BY <1>2, NewPhaseKeeps, ConnectKeeps DEF OnAnswered, Settled, Through
<1> QED
  BY <1>1, <1>2

\* A leg is over.
LEMMA HangupKeeps ==
  ASSUME RoomsInv, NEW h, OnHangup(h), dialing = NoDial
  PROVE  RoomsInv' /\ Stays(router')
<1>1. CASE Ignore(h) /\ Settled
  BY <1>1, IgnoreKeeps, StaysPut DEF Settled
<1>2. CASE /\ router.phase # "ended" /\ h.leg = Caller /\ Settled
           /\ Finish(h, [router EXCEPT !.phase = "ended"], "none",
                     IF router.out = Caller THEN NoCommand ELSE Only(router.out, "hangup"))
  <2> DEFINE state == [router EXCEPT !.phase = "ended"]
  <2>1. PICK far \in {NoCommand, Only(router.out, "hangup")} : Finish(h, state, "none", far)
    BY <1>2
  <2>2. \A b \in Buyers : far[b] # "room"
    BY BuyersAreLegs DEF NoCommand, Only
  <2>3. /\ state = [phase |-> state.phase, out |-> state.out, next |-> state.next]
        /\ Stays(state)
    BY NewPhase DEF Stays, Through
  <2>4. dialing' = NoDial
    BY <1>2 DEF Settled
  <2> HIDE DEF state
  <2> QED
    BY <2>1, <2>2, <2>3, <2>4, FinishKeeps
<1>3. CASE Command(h, router, Caller, "hangup") /\ Settled
  <2>1. Stays(router) /\ router = [phase |-> router.phase, out |-> router.out, next |-> router.next]
    BY DEF Stays, RoomsInv
  <2>2. RoomsInv' /\ router' = router
    BY <1>3, <2>1, CommandKeeps DEF Settled
  <2> QED
    BY <2>2, StaysPut
<1>4. CASE router.phase \notin Through /\ DialNext(h)
  BY <1>4, DialNextKeeps
<1> QED
  BY <1>1, <1>2, <1>3, <1>4 DEF OnHangup, Through

\* Any request, known or not, in time or not.
LEMMA RequestKeeps ==
  ASSUME RoomsInv, NEW h \in asks, Handle(h) \/ Fetch(h) \/ LockTimeout(h)
  PROVE  RoomsInv' /\ Stays(router')
<1>1. CASE Fetch(h)
  <2>1. Finish(h, router, stored[h.leg], NoCommand) /\ dialing' = dialing
    BY <1>1 DEF Fetch, Settled
  <2>2. \A b \in Buyers : NoCommand[b] # "room"
    BY BuyersAreLegs DEF NoCommand
  <2>3. /\ router = [phase |-> router.phase, out |-> router.out, next |-> router.next]
        /\ Stays(router) /\ (dialing' # NoDial => router.phase \notin Through)
        /\ stored[h.leg] = "room" /\ h.leg \in Buyers => router.phase \in Through /\ router.out = h.leg
    BY <2>1 DEF RoomsInv, Stays, RoomNamed
  <2> QED
    BY <2>1, <2>2, <2>3, FinishKeeps
<1>2. CASE LockTimeout(h)
  <2>1. Finish(h, router, "hangup", NoCommand) /\ dialing' = dialing
    BY <1>2 DEF LockTimeout
  <2>2. \A b \in Buyers : NoCommand[b] # "room"
    BY BuyersAreLegs DEF NoCommand
  <2>3. /\ router = [phase |-> router.phase, out |-> router.out, next |-> router.next]
        /\ Stays(router) /\ (dialing' # NoDial => router.phase \notin Through)
    BY <2>1 DEF RoomsInv, Stays
  <2> QED
    BY <2>1, <2>2, <2>3, FinishKeeps
<1>3. CASE Handle(h) /\ NotKnown(h)
  BY <1>3, IgnoreKeeps, StaysPut DEF Handle, Lost
<1>4. CASE Handle(h) /\ ~NotKnown(h)
  <2>1. dialing = NoDial /\ h.hook \in Hooks \ {"markup"}
    BY <1>4 DEF Handle, RoomsInv
  <2>2. OnInbound(h) \/ OnSpeakEnded(h) \/ (OnGathered(h) /\ h.hook = "gathered") \/ OnAnswered(h) \/ OnHangup(h)
    BY <1>4, <2>1 DEF Handle, Hooks
  <2>3. CASE OnGathered(h)
    <3>1. CASE router.phase = "ivr" /\ MenuStep(h)
      BY <2>1, <3>1, MenuStepKeeps DEF Through
    <3>2. CASE Ignore(h) /\ Settled
      BY <3>2, IgnoreKeeps, StaysPut DEF Settled
    <3> QED
      BY <2>3, <3>1, <3>2 DEF OnGathered
  <2> QED
    BY <2>1, <2>2, <2>3, InboundKeeps, SpeakEndedKeeps, AnsweredKeeps, HangupKeeps
<1> QED
  BY <1>1, <1>2, <1>3, <1>4

\* The carrier and the phones name no room that was not named.
LEMMA CarrierKeeps ==
  ASSUME RoomsInv, UNCHANGED <<router, dialing, stored>>, at' = [l \in Legs |-> at'[l]],
         \A h \in asks' : h.hook \in Hooks, answers' \subseteq answers,
         \A b \in Buyers : at'[b] = "room" => RoomNamed(b)
  PROVE  RoomsInv' /\ Stays(router')
<1>1. \A b \in Buyers : RoomNamed(b)' => RoomNamed(b)
  BY DEF RoomNamed
<1> QED
  BY <1>1 DEF RoomsInv, Stays

\* A leg ends.
LEMMA OverKeeps ==
  ASSUME RoomsInv, NEW l \in Legs, Over(l), UNCHANGED <<router, dialing, stored>>
  PROVE  RoomsInv' /\ Stays(router')
<1>1. at' = [at EXCEPT ![l] = "off"] /\ asks' = asks \cup {Asks("status", l)} /\ answers' \subseteq answers
  BY DEF Over
<1>2. \A h \in asks' : h.hook \in Hooks
  BY <1>1 DEF RoomsInv, Asks, Hooks
<1>3. at' = [k \in Legs |-> at'[k]] /\ \A b \in Buyers : at'[b] = "room" => RoomNamed(b)
  BY <1>1, BuyersAreLegs DEF RoomsInv, RoomNamed
<1> QED
  BY <1>1, <1>2, <1>3, CarrierKeeps

\* Any step.
LEMMA RoomsStepKeeps ==
  ASSUME RoomsInv, [RoomsNext]_roomsVars
  PROVE  RoomsInv' /\ Stays(router')
<1>1. CASE UNCHANGED roomsVars
  BY <1>1 DEF roomsVars, RoomsInv, RoomNamed, Stays
<1>2. CASE CallComes
  <2>1. \A h \in asks' : h.hook \in Hooks
    BY <1>2 DEF CallComes, Asks, Hooks
  <2> QED
    BY <1>2, <2>1, CarrierKeeps DEF CallComes, RoomsInv, RoomNamed
<1>3. CASE Linked
  <2> DEFINE state == [phase |-> "dialing", out |-> dialing.out, next |-> dialing.out + 1]
  <2>1. Finish(dialing.for, state, "none", NoCommand) /\ dialing' = NoDial
    BY <1>3 DEF Linked
  <2>2. router.phase \notin Through
    BY <1>3 DEF Linked, RoomsInv
  <2>3. state = [phase |-> state.phase, out |-> state.out, next |-> state.next] /\ Stays(state)
    BY <2>2 DEF Stays
  <2>4. \A b \in Buyers : NoCommand[b] # "room"
    BY BuyersAreLegs DEF NoCommand
  <2> HIDE DEF state
  <2> QED
    BY <2>1, <2>3, <2>4, FinishKeeps
<1>4. ASSUME NEW b \in Buyers, BuyerAnswers(b)  PROVE RoomsInv' /\ Stays(router')
  <2>1. \A h \in asks' : h.hook \in Hooks
    BY <1>4 DEF BuyerAnswers, RoomsInv, Asks, Hooks
  <2> QED
    BY <1>4, <2>1, CarrierKeeps DEF BuyerAnswers, RoomsInv, RoomNamed
<1>5. ASSUME NEW l \in Legs, HangsUp(l)  PROVE RoomsInv' /\ Stays(router')
  BY <1>5, OverKeeps DEF HangsUp
<1>6. ASSUME NEW l \in Legs, PromptEnds(l)  PROVE RoomsInv' /\ Stays(router')
  <2>1. PICK hook \in {"flow", "gathered"} : at' = [at EXCEPT ![l] = hook] /\ asks' = asks \cup {Asks(hook, l)}
    BY <1>6 DEF PromptEnds
  <2>2. \A h \in asks' : h.hook \in Hooks
    BY <2>1 DEF RoomsInv, Asks, Hooks
  <2>3. at' = [k \in Legs |-> at'[k]] /\ \A b \in Buyers : at'[b] = "room" => RoomNamed(b)
    BY <2>1, BuyersAreLegs DEF RoomsInv, RoomNamed
  <2> QED
    BY <1>6, <2>2, <2>3, CarrierKeeps DEF PromptEnds
<1>7. ASSUME NEW a \in answers, Receive(a)  PROVE RoomsInv' /\ Stays(router')
  <2>1. UNCHANGED <<router, dialing, stored>>
    BY <1>7 DEF Receive
  <2>2. CASE Over(a.leg)
    <3>1. /\ answers' \subseteq answers /\ asks' = asks \cup {Asks("status", a.leg)}
          /\ at' = [at EXCEPT ![a.leg] = "off"]
      BY <2>2 DEF Over
    <3>2. \A h \in asks' : h.hook \in Hooks
      BY <3>1 DEF RoomsInv, Asks, Hooks
    <3>3. at' = [k \in Legs |-> at'[k]] /\ \A b \in Buyers : at'[b] = "room" => RoomNamed(b)
      BY <3>1, BuyersAreLegs DEF RoomsInv, RoomNamed
    <3> QED
      BY <2>1, <3>1, <3>2, <3>3, CarrierKeeps
  <2>3. CASE answers' = answers \ {a} /\ UNCHANGED <<leg, at, asks>>
    BY <2>1, <2>3, CarrierKeeps DEF RoomsInv, RoomNamed
  <2>4. CASE answers' = answers \ {a} /\ at' = [at EXCEPT ![a.leg] = a.do] /\ UNCHANGED <<leg, asks>>
    <3>1. at' = [k \in Legs |-> at'[k]]
      BY <2>4 DEF RoomsInv
    <3>2. \A b \in Buyers : at'[b] = "room" => RoomNamed(b)
      BY <1>7, <2>4, BuyersAreLegs DEF RoomsInv, RoomNamed
    <3> QED
      BY <2>1, <2>4, <3>1, <3>2, CarrierKeeps DEF RoomsInv
  <2> QED
    BY <1>7, <2>2, <2>3, <2>4 DEF Receive
<1> QED
  BY <1>1, <1>2, <1>3, <1>4, <1>5, <1>6, <1>7, RequestKeeps DEF RoomsNext

\* However many buyers there are, whoever answers or hangs up when, and whatever a carrier
\* repeats, overtakes or delivers late: no two buyers are in the room with a caller, and
\* connect and the handlers after it leave a connected call with its buyer.
THEOREM RoomForOneBuyer == RoomsSpec => OneBuyerInTheRoom
<1>1. RoomsInv => \A b, c \in Buyers : at[b] = "room" /\ at[c] = "room" => b = c
  BY DEF RoomsInv, RoomNamed
<1>2. RoomsInv /\ [RoomsNext]_roomsVars => RoomsInv'
  BY RoomsStepKeeps
<1>3. RoomsInv /\ [RoomsNext]_roomsVars
        => [router.phase = "connected" =>
              router'.phase \in {"connected", "ended"} /\ router'.out = router.out]_roomsVars
  BY RoomsStepKeeps DEF Stays, Through
<1> QED
  BY <1>1, <1>2, <1>3, RoomsStart, PTL DEF RoomsSpec, OneBuyerInTheRoom

-----------------------------------------------------------------------------
(***************************************************************************)
(* withLock keeps the handlers of a call apart, for any expiry and any     *)
(* time to wait.                                                           *)
(*                                                                         *)
(* The invariant behind LockExclusive: as long as no key has expired       *)
(* between the get and the del of its owner, a handler that is inside and  *)
(* has not outstayed the expiry is the owner of the key, whose remaining   *)
(* life and the time the handler was inside add up to the expiry; and a    *)
(* handler about to delete the key owns it.                                *)
(***************************************************************************)
Owns(h) == stage[h] \in Inside /\ ~Overstayed(h) => owner = h /\ ttl + held[h] = LockTtl
Deletes(h) == stage[h] = "deleting" => owner = h

\* A handler that has not had the lock yet has spent no time inside.
Starting == \A h \in Handler : stage[h] \in {"new", "waiting"} => held[h] = 0

LockInv ==
  /\ LockTypeOK
  /\ owner = Nobody <=> ttl = 0
  /\ Starting
  /\ ~raced => \A h \in Handler : Owns(h) /\ Deletes(h)

USE LockAssumption, NobodyAssumption

LEMMA LockInitInv == LockInit => LockInv
<1>. SUFFICES ASSUME LockInit PROVE LockInv
  OBVIOUS
<1>1. LockTypeOK
  <2>1. 0 \in 0 .. LockTtl /\ 0 \in 0 .. LockWait + 1
    OBVIOUS
  <2>. QED  BY <2>1 DEF LockInit, LockTypeOK, Stages
<1>2. owner = Nobody <=> ttl = 0
  BY DEF LockInit
<1>3. Starting
  BY DEF LockInit, Starting
<1>4. \A h \in Handler : Owns(h) /\ Deletes(h)
  BY DEF LockInit, Owns, Deletes, Inside
<1>. QED  BY <1>1, <1>2, <1>3, <1>4 DEF LockInv

LEMMA DeliverInv ==
  ASSUME LockInv, NEW h \in Handler, Deliver(h) PROVE LockInv'
BY DEF LockInv, LockTypeOK, Stages, Starting, Owns, Deletes, Overstayed, Inside, Deliver

LEMMA TakeInv ==
  ASSUME LockInv, NEW h \in Handler, Take(h) PROVE LockInv'
BY DEF LockInv, LockTypeOK, Stages, Starting, Owns, Deletes, Overstayed, Inside, Take

LEMMA GiveUpInv ==
  ASSUME LockInv, NEW h \in Handler, GiveUp(h) PROVE LockInv'
BY DEF LockInv, LockTypeOK, Stages, Starting, Owns, Deletes, Overstayed, Inside, GiveUp

LEMMA ReturnInv ==
  ASSUME LockInv, NEW h \in Handler, Return(h) PROVE LockInv'
BY DEF LockInv, LockTypeOK, Stages, Starting, Owns, Deletes, Overstayed, Inside, Return

LEMMA CompareInv ==
  ASSUME LockInv, NEW h \in Handler, Compare(h) PROVE LockInv'
BY DEF LockInv, LockTypeOK, Stages, Starting, Owns, Deletes, Overstayed, Inside, Compare

LEMMA DeleteInv ==
  ASSUME LockInv, NEW h \in Handler, Delete(h) PROVE LockInv'
BY DEF LockInv, LockTypeOK, Stages, Starting, Owns, Deletes, Overstayed, Inside, Delete

LEMMA StopInv ==
  ASSUME LockInv, NEW h \in Handler, Stop(h) PROVE LockInv'
BY DEF LockInv, LockTypeOK, Stages, Starting, Owns, Deletes, Overstayed, Inside, Stop

\* A unit of time either runs the key down to its expiry, or leaves it to its owner.
LEMMA LockTickInv ==
  ASSUME LockInv, LockTick PROVE LockInv'
<1>1. LockTypeOK'
  BY DEF LockInv, LockTypeOK, Stages, LockTick
<1>2. (owner = Nobody <=> ttl = 0)'
  BY DEF LockInv, LockTypeOK, LockTick
<1>3. Starting'
  BY DEF LockInv, LockTypeOK, Starting, Inside, LockTick
<1>4. ASSUME ~raced', NEW h \in Handler PROVE Owns(h)' /\ Deletes(h)'
  <2>1. Owns(h) /\ Deletes(h)
    BY <1>4 DEF LockInv, LockTick
  <2>2. Owns(h)'
    BY <1>4, <2>1 DEF LockInv, LockTypeOK, Owns, Overstayed, Inside, LockTick
  <2>3. Deletes(h)'
    <3>. SUFFICES ASSUME stage[h] = "deleting" PROVE owner' = h
      BY DEF Deletes, LockTick
    <3>1. owner = h /\ ttl # 0
      BY <2>1 DEF Deletes, LockInv
    <3>2. ttl # 1
      BY <1>4, <3>1 DEF LockTick
    <3>. QED  BY <3>1, <3>2 DEF LockInv, LockTypeOK, LockTick
  <2>. QED  BY <2>2, <2>3
<1>. QED  BY <1>1, <1>2, <1>3, <1>4 DEF LockInv

LEMMA LockStepInv == LockInv /\ [LockNext]_lockVars => LockInv'
<1>. SUFFICES ASSUME LockInv, [LockNext]_lockVars PROVE LockInv'
  OBVIOUS
<1>1. CASE LockTick
  BY <1>1, LockTickInv
<1>2. ASSUME NEW h \in Handler, HandlerStep(h) PROVE LockInv'
  BY <1>2, DeliverInv, TakeInv, GiveUpInv, ReturnInv, CompareInv, DeleteInv, StopInv
     DEF HandlerStep
<1>3. CASE UNCHANGED lockVars
  BY <1>3 DEF LockInv, LockTypeOK, Stages, Starting, Owns, Deletes, Overstayed, Inside, lockVars
<1>. QED  BY <1>1, <1>2, <1>3 DEF LockNext

LEMMA LockAlways == LockSpec => []LockInv
BY LockInitInv, LockStepInv, PTL DEF LockSpec

(* Every state of the lock is well typed: no deadline and no expiry counts  *)
(* below zero, and a key that is gone has no owner.                         *)
THEOREM LockTyped == LockSpec => []LockTypeOK
<1>1. LockInv => LockTypeOK
  BY DEF LockInv
<1>. QED  BY <1>1, LockAlways, PTL

(* withLock keeps quick handlers of a call apart, for any number of events, *)
(* however the handlers, their expiries and stops interleave.               *)
THEOREM LockKeepsApart == LockSpec => []LockExclusive
<1>1. LockInv => LockExclusive
  BY DEF LockInv, LockExclusive, Owns
<1>. QED  BY <1>1, LockAlways, PTL

-----------------------------------------------------------------------------
(***************************************************************************)
(* Why an event is lost.  As long as no process stopped, the owner of the  *)
(* key is a handler that is inside, and each unit that a handler waits is  *)
(* one that the owner is inside: BusyUnits(h), the units that handlers     *)
(* other than h were inside, grow as fast as the time h has left shrinks.  *)
(***************************************************************************)
Stopped == \E g \in Handler : stage[g] = "stopped"

OwnerInside ==
  owner # Nobody => stage[owner] = "stopped" \/ (stage[owner] \in Inside /\ ttl + held[owner] = LockTtl)

\* The units that h has waited, one more than the deadline when it is over.
Waited(h) ==
  CASE stage[h] = "waiting" -> LockWait + 1 - left[h]
    [] stage[h] = "lost" -> LockWait
    [] OTHER -> 0

BusyInv ==
  /\ OwnerInside
  /\ ~Stopped => \A h \in Handler : Cardinality(BusyUnits(h)) >= Waited(h)

LEMMA BusyFinite ==
  ASSUME NEW h, NEW S \in SUBSET ((Handler \ {h}) \X (1 .. LockTtl))
  PROVE  IsFiniteSet(S) /\ Cardinality(S) \in Nat
<1>1. IsFiniteSet(Handler \ {h}) /\ IsFiniteSet(1 .. LockTtl)
  BY FS_Subset, FS_Interval
<1>2. IsFiniteSet((Handler \ {h}) \X (1 .. LockTtl))
  BY <1>1, FS_Product
<1> QED
  BY <1>2, FS_Subset, FS_CardinalityType

\* What the others were inside is never less later, and more after a unit in which one was.
LEMMA BusyGrows ==
  ASSUME LockTypeOK, LockTypeOK', NEW h \in Handler, \A f \in Handler : held'[f] >= held[f]
  PROVE  /\ Cardinality(BusyUnits(h)') >= Cardinality(BusyUnits(h))
         /\ (\E g \in Handler \ {h} : held'[g] > held[g])
              => Cardinality(BusyUnits(h)') >= Cardinality(BusyUnits(h)) + 1
<1>1. \A f \in Handler : held[f] \in 0 .. LockTtl /\ held'[f] \in 0 .. LockTtl
  BY DEF LockTypeOK
<1>2. /\ BusyUnits(h) \in SUBSET ((Handler \ {h}) \X (1 .. LockTtl))
      /\ BusyUnits(h)' \in SUBSET ((Handler \ {h}) \X (1 .. LockTtl))
  BY DEF BusyUnits
<1>3. BusyUnits(h) \subseteq BusyUnits(h)'
  BY <1>1 DEF BusyUnits
<1>4. /\ IsFiniteSet(BusyUnits(h)') /\ Cardinality(BusyUnits(h)') \in Nat
      /\ Cardinality(BusyUnits(h)) \in Nat /\ Cardinality(BusyUnits(h)) <= Cardinality(BusyUnits(h)')
  BY <1>2, <1>3, BusyFinite, FS_Subset
<1>5. ASSUME NEW g \in Handler \ {h}, held'[g] > held[g]
      PROVE  Cardinality(BusyUnits(h)') >= Cardinality(BusyUnits(h)) + 1
  <2>1. <<g, held'[g]>> \in BusyUnits(h)' /\ <<g, held'[g]>> \notin BusyUnits(h)
    BY <1>1, <1>5 DEF BusyUnits
  <2>2. Cardinality(BusyUnits(h)) # Cardinality(BusyUnits(h)')
    BY <1>3, <1>4, <2>1, FS_Subset
  <2> QED
    BY <1>4, <2>2
<1> QED
  BY <1>4, <1>5

LEMMA LockTickBusy == ASSUME LockInv, LockInv', BusyInv, LockTick PROVE BusyInv'
<1>1. /\ LockTypeOK /\ LockTypeOK' /\ stage' = stage
      /\ \A g \in Handler : /\ held[g] \in 0 .. LockTtl
                            /\ held'[g] = IF stage[g] \in Inside /\ held[g] < LockTtl
                                          THEN held[g] + 1 ELSE held[g]
  BY DEF LockInv, LockTypeOK, LockTick
<1>2. OwnerInside'
  <2> SUFFICES ASSUME owner' # Nobody, stage[owner] # "stopped"
               PROVE  stage[owner] \in Inside /\ ttl' + held'[owner] = LockTtl /\ owner' = owner
    BY <1>1 DEF OwnerInside, LockTick
  <2>1. owner' = owner /\ owner \in Handler /\ ttl \in Nat /\ ttl' = ttl - 1 /\ ttl # 0
    BY <1>1 DEF LockTick, LockTypeOK, LockInv
  <2>2. stage[owner] \in Inside /\ ttl + held[owner] = LockTtl
    BY <2>1 DEF BusyInv, OwnerInside
  <2> QED
    BY <1>1, <2>1, <2>2
<1>3. ASSUME ~Stopped, NEW h \in Handler
      PROVE  Cardinality(BusyUnits(h)') >= Waited(h)'
  <2>1. Cardinality(BusyUnits(h)) >= Waited(h) /\ Cardinality(BusyUnits(h)) \in Nat
    BY <1>3, BusyFinite DEF BusyInv, BusyUnits
  <2>2. /\ Cardinality(BusyUnits(h)') >= Cardinality(BusyUnits(h))
        /\ (\E g \in Handler \ {h} : held'[g] > held[g])
             => Cardinality(BusyUnits(h)') >= Cardinality(BusyUnits(h)) + 1
    <3>1. \A f \in Handler : held'[f] >= held[f]
      BY <1>1
    <3> QED
      BY <1>1, <3>1, BusyGrows
  <2>3. Cardinality(BusyUnits(h)') \in Nat
    BY BusyFinite DEF BusyUnits
  <2>4. CASE stage[h] = "waiting"
    <3>1. owner # Nobody /\ owner \in Handler /\ ttl \in Nat \ {0}
      BY <1>1, <2>4 DEF LockTick, LockTypeOK, LockInv
    <3>2. stage[owner] \in Inside /\ ttl + held[owner] = LockTtl
      BY <1>3, <3>1 DEF BusyInv, OwnerInside, Stopped
    <3>3. owner # h
      BY <2>4, <3>2 DEF Inside
    <3>4. held'[owner] > held[owner]
      BY <1>1, <3>1, <3>2
    <3>5. /\ left[h] \in 0 .. LockWait + 1
          /\ left'[h] = IF left[h] = 0 THEN 0 ELSE left[h] - 1
      BY <1>1 DEF LockTick, LockTypeOK
    <3>6. Cardinality(BusyUnits(h)') >= Cardinality(BusyUnits(h)) + 1
      BY <2>2, <3>1, <3>3, <3>4
    <3>7. Waited(h) = LockWait + 1 - left[h] /\ Waited(h)' = LockWait + 1 - left'[h]
      BY <1>1, <2>4 DEF Waited
    <3> QED
      BY <2>1, <2>3, <3>5, <3>6, <3>7
  <2>5. CASE stage[h] # "waiting"
    <3>1. Waited(h)' = Waited(h) /\ Waited(h) \in Nat
      BY <1>1, <2>5 DEF Waited
    <3> QED
      BY <2>1, <2>2, <2>3, <3>1
  <2> QED
    BY <2>4, <2>5
<1> QED
  BY <1>1, <1>2, <1>3 DEF BusyInv, Stopped

\* A handler's own steps take no time; who gives up has waited to the deadline.
LEMMA HandlerStepBusy ==
  ASSUME LockInv, BusyInv, NEW h \in Handler, HandlerStep(h) PROVE BusyInv'
<1> USE DEF HandlerStep, Deliver, Take, GiveUp, Return, Compare, Delete, Stop
<1>1. LockTypeOK
  BY DEF LockInv
<1>2. held' = held /\ \A g : BusyUnits(g)' = BusyUnits(g)
  BY DEF BusyUnits
<1>3. OwnerInside'
  <2>1. CASE Take(h)
    BY <1>1, <2>1 DEF OwnerInside, LockInv, Starting, LockTypeOK, Inside
  <2>2. CASE ~Take(h)
    BY <1>1, <2>2 DEF OwnerInside, BusyInv, LockTypeOK, Inside
  <2> QED
    BY <2>1, <2>2
<1>4. ASSUME ~Stopped', NEW g \in Handler
      PROVE  Cardinality(BusyUnits(g)) >= Waited(g)'
  <2>1. ~Stopped
    BY <1>1, <1>4 DEF Stopped, LockTypeOK
  <2>2. Cardinality(BusyUnits(g)) >= Waited(g) /\ Cardinality(BusyUnits(g)) \in Nat
    BY <2>1, BusyFinite DEF BusyInv, BusyUnits
  <2>3. left[g] \in 0 .. LockWait + 1
    BY <1>1 DEF LockTypeOK
  <2>4. Waited(g)' = Waited(g) \/ Waited(g)' = 0 \/ (GiveUp(h) /\ g = h)
    BY <1>1, <2>3 DEF Waited, LockTypeOK
  <2>5. CASE GiveUp(h) /\ g = h
    BY <1>1, <2>2, <2>5 DEF Waited, LockTypeOK
  <2> QED
    BY <2>2, <2>4, <2>5
<1> QED
  BY <1>2, <1>3, <1>4 DEF BusyInv

LEMMA BusyAlways == LockSpec => [](LockInv /\ BusyInv)
<1>1. LockInit => BusyInv
  <2> SUFFICES ASSUME LockInit, NEW h \in Handler
               PROVE  Cardinality(BusyUnits(h)) >= Waited(h)
    BY DEF LockInit, BusyInv, OwnerInside
  <2>1. Waited(h) = 0
    BY DEF LockInit, Waited
  <2> QED
    BY <2>1, BusyFinite DEF BusyUnits
<1>2. LockInv /\ BusyInv /\ [LockNext]_lockVars => LockInv' /\ BusyInv'
  <2> SUFFICES ASSUME LockInv, BusyInv, [LockNext]_lockVars
               PROVE  LockInv' /\ BusyInv'
    OBVIOUS
  <2>1. LockInv'
    BY LockStepInv
  <2>2. CASE LockTick
    BY <2>1, <2>2, LockTickBusy
  <2>3. ASSUME NEW h \in Handler, HandlerStep(h)
        PROVE  BusyInv'
    BY <2>3, HandlerStepBusy
  <2>4. CASE UNCHANGED lockVars
    <3>1. OwnerInside' /\ (Stopped' <=> Stopped)
      BY <2>4 DEF lockVars, BusyInv, OwnerInside, Stopped
    <3>2. \A h : BusyUnits(h)' = BusyUnits(h) /\ Waited(h)' = Waited(h)
      BY <2>4 DEF lockVars, Waited, BusyUnits
    <3> QED
      BY <2>1, <3>1, <3>2 DEF BusyInv
  <2> QED
    BY <2>1, <2>2, <2>3, <2>4 DEF LockNext
<1> QED
  BY <1>1, <1>2, LockInitInv, PTL DEF LockSpec

(* An event is dropped only when the other handlers of its call were inside *)
(* for as long as a handler waits, or a process stopped with the lock: for  *)
(* any number of events, any expiry and any time to wait.                   *)
THEOREM LostForAReason == LockSpec => []LostOnlyWhenBusy
<1>1. BusyInv => LostOnlyWhenBusy
  BY DEF BusyInv, LostOnlyWhenBusy, Stopped, Waited
<1> QED
  BY <1>1, BusyAlways, PTL

-----------------------------------------------------------------------------
(***************************************************************************)
(* What was deleted stays away, whatever requests, purges and failures     *)
(* come between reading the rows, removing the files and writing the rows. *)
(*                                                                         *)
(* The invariant behind DeletedIsGone: only a recording whose event was    *)
(* dealt with is linked, deleted or in the hands of a server, so no event  *)
(* brings its file or its link back; and a server that removes files has   *)
(* removed those of its rows that it no longer has before it.              *)
(***************************************************************************)
Doing == [at : {"free", "find", "files", "unlock"}, of : SUBSET Tape, todo : SUBSET Tape, purge : BOOLEAN]

Handled(t) == arrival[t] = "handled"
OnlyHandled(S) == \A t \in S : Handled(t)

Removed(r) ==
  /\ OnlyHandled(r.of)
  /\ r.at = "files" => (r.of \ r.todo) \cap files = {}

RecordingsInv ==
  /\ linked \in SUBSET Tape /\ deleted \in SUBSET Tape
  /\ arrival \in [Tape -> {"due", "stored", "handled"}]
  /\ work \in [Worker -> Doing]
  /\ OnlyHandled(linked \cup deleted)
  /\ \A w \in Worker : Removed(work[w])
  /\ DeletedIsGone

LEMMA RecordingsInitInv == RecordingsInit => RecordingsInv
BY DEF RecordingsInit, RecordingsInv, Doing, Free, OnlyHandled, Removed, DeletedIsGone

\* Files come and rows are linked only for events that are not dealt with yet.
LEMMA ArrivalInv ==
  ASSUME RecordingsInv, NEW t \in Tape, Store(t) \/ LinkFile(t) \/ NotSaved(t) \/ Expire(t)
  PROVE  RecordingsInv'
<1>1. CASE Store(t)
  BY <1>1 DEF Store, RecordingsInv, Doing, OnlyHandled, Handled, Removed, DeletedIsGone
<1>2. CASE LinkFile(t)
  BY <1>2 DEF LinkFile, RecordingsInv, Doing, OnlyHandled, Handled, Removed, DeletedIsGone
<1>3. CASE NotSaved(t)
  BY <1>3 DEF NotSaved, RecordingsInv, Doing, OnlyHandled, Handled, Removed, DeletedIsGone
<1>4. CASE Expire(t)
  BY <1>4 DEF Expire, RecordingsInv, Doing, OnlyHandled, Handled, Removed, DeletedIsGone
<1> QED
  BY <1>1, <1>2, <1>3, <1>4

\* A server that takes up work, or gives it up, touches neither files nor rows.
LEMMA TurnInv ==
  ASSUME RecordingsInv, NEW w \in Worker, NEW r \in Doing, Turns(w, r), Removed(r),
         UNCHANGED <<files, linked, deleted, arrival>>
  PROVE  RecordingsInv'
<1>1. work' = [work EXCEPT ![w] = r]
  BY DEF Turns
<1>2. \A v \in Worker : Removed(work'[v])
  BY <1>1 DEF RecordingsInv, Removed
<1>3. work' \in [Worker -> Doing]
  BY <1>1 DEF RecordingsInv
<1> QED
  BY <1>2, <1>3 DEF RecordingsInv, OnlyHandled, Handled, Removed, DeletedIsGone

\* A row's file is gone before the row is out of the server's hands.
LEMMA RemoveFileInv ==
  ASSUME RecordingsInv, NEW w \in Worker, NEW t \in Tape, RemoveFile(w, t)
  PROVE  RecordingsInv'
<1> DEFINE r == [work[w] EXCEPT !.todo = @ \ {t}]
<1>1. /\ work' = [work EXCEPT ![w] = r] /\ files' = files \ {t}
      /\ linked' = linked /\ deleted' = deleted /\ arrival' = arrival
  BY DEF RemoveFile, Turns
<1>2. work[w] \in Doing /\ Removed(work[w])
  BY DEF RecordingsInv
<1>3. r \in Doing /\ r.of = work[w].of /\ r.at = work[w].at /\ r.todo = work[w].todo \ {t}
  BY <1>2 DEF Doing
<1> HIDE DEF r
<1>4. ASSUME NEW v \in Worker PROVE Removed(work[v])'
  <2>1. CASE v = w
    <3>1. work'[v] = r
      BY <1>1, <2>1 DEF RecordingsInv
    <3>2. (r.of \ r.todo) \cap files' = {} \/ r.at # "files"
      BY <1>1, <1>2, <1>3 DEF Removed
    <3> QED
      BY <1>1, <1>2, <1>3, <3>1, <3>2 DEF Removed, OnlyHandled, Handled
  <2>2. CASE v # w
    <3>1. work'[v] = work[v] /\ Removed(work[v])
      BY <1>1, <2>2 DEF RecordingsInv
    <3> QED
      BY <1>1, <3>1 DEF Removed, OnlyHandled, Handled
  <2> QED
    BY <2>1, <2>2
<1>5. work' \in [Worker -> Doing]
  BY <1>1, <1>3 DEF RecordingsInv
<1> QED
  BY <1>1, <1>4, <1>5 DEF RecordingsInv, OnlyHandled, Handled, DeletedIsGone

\* What the server does after it has written its rows.
LEMMA AfterIsIdle ==
  ASSUME NEW w \in Worker PROVE After(w) \in Doing /\ Removed(After(w))
<1>1. CASE ~work[w].purge
  <2>1. After(w) = Free
    BY <1>1 DEF After
  <2> QED
    BY <2>1 DEF Free, Doing, Removed, OnlyHandled
<1>2. CASE work[w].purge
  <2>1. \E s \in {"find", "unlock"} : After(w) = [at |-> s, of |-> {}, todo |-> {}, purge |-> TRUE]
    BY <1>2 DEF After, Free
  <2> QED
    BY <2>1 DEF Doing, Removed, OnlyHandled
<1> QED
  BY <1>1, <1>2

\* The rows are written when the files of all of them are gone.
LEMMA ClearInv ==
  ASSUME RecordingsInv, NEW w \in Worker, Clear(w) PROVE RecordingsInv'
<1>1. /\ work' = [work EXCEPT ![w] = After(w)] /\ files' = files /\ arrival' = arrival
      /\ linked' = linked \ work[w].of /\ deleted' = deleted \cup work[w].of
      /\ work[w].at = "files" /\ work[w].todo = {}
  BY DEF Clear, Turns, FilesGone
<1>2. work[w] \in Doing /\ Removed(work[w])
  BY DEF RecordingsInv
<1>3. work[w].of \in SUBSET Tape /\ work[w].of \cap files = {} /\ OnlyHandled(work[w].of)
  BY <1>1, <1>2 DEF Doing, Removed
<1>4. After(w) \in Doing /\ Removed(After(w))
  BY AfterIsIdle
<1>5. work' \in [Worker -> Doing]
  BY <1>1, <1>4 DEF RecordingsInv
<1>6. \A v \in Worker : Removed(work'[v])
  BY <1>1, <1>4 DEF RecordingsInv
<1>7. \A v \in Worker : Removed(work[v])'
  BY <1>1, <1>6 DEF Removed, OnlyHandled, Handled
<1>8. (deleted \cap (files \cup linked) = {})'
  BY <1>1, <1>3 DEF RecordingsInv, DeletedIsGone
<1> QED
  BY <1>1, <1>3, <1>5, <1>7, <1>8 DEF RecordingsInv, OnlyHandled, Handled, DeletedIsGone

\* A purge that looks for rows, or gives the lock back, has none in its hands.
LEMMA PurgeIsIdle ==
  ASSUME NEW s \in {"find", "unlock"}
  PROVE  [Free EXCEPT !.at = s, !.purge = TRUE] \in Doing /\ Removed([Free EXCEPT !.at = s, !.purge = TRUE])
<1> DEFINE r == [Free EXCEPT !.at = s, !.purge = TRUE]
<1>1. Free \in Doing /\ Free.of = {}
  BY DEF Free, Doing
<1>2. r \in Doing /\ r.of = {} /\ r.at = s
  BY <1>1 DEF Doing
<1> HIDE DEF r
<1>3. Removed(r)
  BY <1>2 DEF Removed, OnlyHandled
<1> QED
  BY <1>2, <1>3 DEF r

LEMMA RecordingsStepInv == RecordingsInv /\ [RecordingsNext]_recordingsVars => RecordingsInv'
<1> SUFFICES ASSUME RecordingsInv, [RecordingsNext]_recordingsVars PROVE RecordingsInv'
  OBVIOUS
<1>1. ASSUME NEW t \in Tape, Store(t) \/ LinkFile(t) \/ NotSaved(t) \/ Expire(t) PROVE RecordingsInv'
  BY <1>1, ArrivalInv
<1>2. ASSUME NEW w \in Worker, NEW t \in Tape, Remove(w, t) PROVE RecordingsInv'
  <2> DEFINE r == [at |-> "files", of |-> {t}, todo |-> {t}, purge |-> FALSE]
  <2>1. r \in Doing /\ Removed(r)
    BY <1>2 DEF Doing, Removed, OnlyHandled, RecordingsInv, Remove
  <2> QED
    BY <1>2, <2>1, TurnInv DEF Remove
<1>3. ASSUME NEW w \in Worker, Purge(w) PROVE RecordingsInv'
  <2> DEFINE r == [Free EXCEPT !.at = "find", !.purge = TRUE]
  <2>1. r \in Doing /\ Removed(r)
    BY PurgeIsIdle
  <2>2. Turns(w, r) /\ UNCHANGED <<files, linked, deleted, arrival>>
    BY <1>3 DEF Purge
  <2> QED
    BY <2>1, <2>2, TurnInv
<1>4. ASSUME NEW w \in Worker, Find(w) PROVE RecordingsInv'
  <2>1. PICK old \in SUBSET (expired \cap linked) :
          Turns(w, [work[w] EXCEPT !.at = IF old = {} THEN "unlock" ELSE "files",
                                   !.of = old, !.todo = old])
    BY <1>4 DEF Find
  <2> DEFINE a == IF old = {} THEN "unlock" ELSE "files"
             r == [work[w] EXCEPT !.at = a, !.of = old, !.todo = old]
  <2>2. a \in {"unlock", "files"} /\ work[w] \in Doing /\ old \in SUBSET Tape /\ OnlyHandled(old)
    BY DEF RecordingsInv, OnlyHandled
  <2>3. Turns(w, r) /\ UNCHANGED <<files, linked, deleted, arrival>>
    BY <1>4, <2>1 DEF Find
  <2> HIDE DEF a
  <2>4. r \in Doing /\ r.of = old /\ r.todo = old
    BY <2>2 DEF Doing
  <2> HIDE DEF r
  <2>5. Removed(r)
    BY <2>2, <2>4 DEF Removed
  <2> QED
    BY <2>3, <2>4, <2>5, TurnInv
<1>5. ASSUME NEW w \in Worker, NEW t \in Tape, RemoveFile(w, t) PROVE RecordingsInv'
  BY <1>5, RemoveFileInv
<1>6. ASSUME NEW w \in Worker, Clear(w) PROVE RecordingsInv'
  BY <1>6, ClearInv
<1>7. Free \in Doing /\ Removed(Free)
  BY DEF Free, Doing, Removed, OnlyHandled
<1>8. ASSUME NEW w \in Worker, Unlock(w) \/ StopServer(w) PROVE RecordingsInv'
  <2>1. Turns(w, Free) /\ UNCHANGED <<files, linked, deleted, arrival>>
    BY <1>8 DEF Unlock, StopServer
  <2> QED
    BY <1>7, <2>1, TurnInv
<1>9. ASSUME NEW w \in Worker, StorageFails(w) PROVE RecordingsInv'
  <2> DEFINE u == [Free EXCEPT !.at = "unlock", !.purge = TRUE]
             r == IF work[w].purge THEN u ELSE Free
  <2>1. u \in Doing /\ Removed(u)
    BY PurgeIsIdle
  <2>2. Turns(w, r) /\ UNCHANGED <<files, linked, deleted, arrival>>
    BY <1>9 DEF StorageFails
  <2> HIDE DEF u
  <2>3. r \in Doing /\ Removed(r)
    BY <1>7, <2>1
  <2> HIDE DEF r
  <2> QED
    BY <2>2, <2>3, TurnInv
<1>10. CASE PurgeLockExpires
  BY <1>10 DEF PurgeLockExpires, RecordingsInv, OnlyHandled, Handled, Removed, DeletedIsGone
<1>11. CASE UNCHANGED recordingsVars
  BY <1>11 DEF recordingsVars, RecordingsInv, OnlyHandled, Handled, Removed, DeletedIsGone
<1> QED
  BY <1>1, <1>2, <1>3, <1>4, <1>5, <1>6, <1>8, <1>9, <1>10, <1>11 DEF RecordingsNext, WorkerStep

(* A recording that was deleted has neither a file nor a link, for any      *)
(* number of servers that delete and purge, stop and fail.                  *)
THEOREM DeletedStaysGone == RecordingsSpec => []DeletedIsGone
<1>1. RecordingsInv => DeletedIsGone
  BY DEF RecordingsInv
<1> QED
  BY <1>1, RecordingsInitInv, RecordingsStepInv, PTL DEF RecordingsSpec

-----------------------------------------------------------------------------
(* The parts and the whole *)

(* A behaviour of Services is one of each of its parts, which rests while   *)
(* another moves; what is proved of the parts holds of it.                  *)
THEOREM ServicesAreTheirParts ==
  ServicesSpec => LockSpec /\ RoomsSpec /\ MenuSpec /\ PresenceSpec /\ RecordingsSpec /\ WireSpec
<1>1. ServicesInit => LockInit /\ RoomsInit /\ MenuInit /\ PresenceInit /\ RecordingsInit
  BY DEF ServicesInit
<1>2. ServicesInit => task \in Tasks /\ WireInit
  <2>1. Untouched \in Tasks
    BY DEF Untouched, Tasks, Tapings, Markup
  <2> QED
    BY <2>1 DEF ServicesInit
<1>3. [ServicesNext]_vars => [LockNext]_lockVars
  BY DEF ServicesNext, vars, InLock, InRooms, InMenu, InPresence, InRecordings, InWire
<1>4. [ServicesNext]_vars => [RecordingsNext]_recordingsVars
  BY DEF ServicesNext, vars, InLock, InRooms, InMenu, InPresence, InRecordings, InWire
<1>5. [ServicesNext]_vars => [Translate]_wireVars
  BY DEF ServicesNext, vars, InLock, InRooms, InMenu, InPresence, InRecordings, InWire
<1>6. [ServicesNext]_vars => [RoomsNext]_roomsVars
  BY DEF ServicesNext, vars, InLock, InRooms, InMenu, InPresence, InRecordings, InWire
<1>7. [ServicesNext]_vars => [MenuNext]_menuVars
  BY DEF ServicesNext, vars, InLock, InRooms, InMenu, InPresence, InRecordings, InWire
<1>8. [ServicesNext]_vars => [PresenceNext]_presenceVars
  BY DEF ServicesNext, vars, InLock, InRooms, InMenu, InPresence, InRecordings, InWire
<1> QED
  BY <1>1, <1>2, <1>3, <1>4, <1>5, <1>6, <1>7, <1>8, PTL
  DEF ServicesSpec, LockSpec, RoomsSpec, MenuSpec, PresenceSpec, RecordingsSpec, WireSpec
=============================================================================
