-------------------------------- MODULE Menu --------------------------------
(***************************************************************************)
(* One caller's way through a phone menu: runIvrNode, ivrAction,           *)
(* onSpeakEnded and onGathered of routing/call-engine.service.ts, over any *)
(* flow that validateIvr of routing/ivr.ts lets a campaign save.           *)
(*                                                                         *)
(* A flow is a function from nodes to their kind and their actions; its    *)
(* first node is First.  Prompts, labels and digits are left out: the      *)
(* caller presses a key that has an action, or does not.                   *)
(***************************************************************************)
EXTENDS Integers

CONSTANTS
  Node,         \* the nodes of the flow
  First,        \* flow.start
  Retries,      \* node.retries
  IVR_MAX_STEPS

ASSUME MenuAssumption ==
  /\ First \in Node /\ Node \cap {"route", "hangup"} = {}
  /\ Retries \in Nat /\ IVR_MAX_STEPS \in Nat \ {0}

VARIABLES
  flow,     \* the campaign's menu
  node,     \* s.ivr.node, the prompt the caller hears
  retries,  \* s.ivr.retries
  steps,    \* s.ivr.steps
  phase     \* "greeting", "ivr", "dialing" or "closing"

menuVars == <<flow, node, retries, steps, phase>>

\* An action of the flow: a node to go to, or the end of the menu.
Action == Node \cup {"route", "hangup"}
\* A say node has one action; menus and collected digits have one for a good answer
\* and one for none.
Kinds == [kind : {"say"}, next : Action] \cup [kind : {"menu"}, next : Action, fallback : Action]

MenuInit ==
  /\ flow \in [Node -> Kinds]
  /\ node = First
  /\ retries = 0
  /\ steps = 0
  /\ phase = "greeting"

-----------------------------------------------------------------------------
Hangup == phase' = "closing" /\ UNCHANGED node

\* (mutant) only prompts that wait for a key are counted
RunUncounted(n, again) ==
  /\ steps' = IF flow[n].kind = "say" THEN steps ELSE steps + 1
  /\ retries' = again
  /\ IF steps' > IVR_MAX_STEPS THEN Hangup ELSE node' = n /\ phase' = "ivr"

\* runIvrNode, with the retries it is called with: the limit comes first.
RunIvrNode(n, again) ==
  /\ steps' = steps + 1
  /\ retries' = again
  /\ IF steps' > IVR_MAX_STEPS THEN Hangup ELSE node' = n /\ phase' = "ivr"

\* ivrAction: goto forgets the retries; routing dials the buyers.
IvrAction(a, again) ==
  CASE a \in Node -> RunIvrNode(a, 0)
    [] a = "route" -> phase' = "dialing" /\ retries' = again /\ UNCHANGED <<node, steps>>
    [] a = "hangup" -> Hangup /\ retries' = again /\ UNCHANGED steps

\* afterGreeting: the flow's first node.
AfterGreeting ==
  /\ phase = "greeting"
  /\ RunIvrNode(node, retries)
  /\ UNCHANGED flow

\* onSpeakEnded: the message was played.
Said ==
  /\ phase = "ivr" /\ flow[node].kind = "say"
  /\ IvrAction(flow[node].next, retries)
  /\ UNCHANGED flow

\* onGathered with a key of the menu, or as many digits as asked for.
GoodKey ==
  /\ phase = "ivr" /\ flow[node].kind = "menu"
  /\ IvrAction(flow[node].next, 0)
  /\ UNCHANGED flow

\* onGathered with nothing or a wrong key: the prompt again, then the fallback.
WrongKey ==
  /\ phase = "ivr" /\ flow[node].kind = "menu"
  /\ IF retries < Retries THEN RunIvrNode(node, retries + 1)
                          ELSE IvrAction(flow[node].fallback, 0)
  /\ UNCHANGED flow

MenuNext == AfterGreeting \/ Said \/ GoodKey \/ WrongKey

MenuSpec == MenuInit /\ [][MenuNext]_menuVars

-----------------------------------------------------------------------------
\* No caller hears more prompts than the limit, and a menu never waits for a key or the
\* end of a prompt without having counted it: the caller is held for so many steps and
\* no more (runIvrNode; MAX_STEPS of ivr.ts:63).
MenuIsBounded ==
  /\ [](phase = "ivr" => steps \in 1 .. IVR_MAX_STEPS)
  /\ [][phase = "ivr" => phase' # "ivr" \/ steps' = steps + 1]_menuVars

(* Whatever a customer draws, also nodes that go round, and whatever the    *)
(* caller presses: as long as prompts end, the menu lets go of the caller   *)
(* ("guards against message loops", ivr.ts:63), within the limit.           *)
MenuEnds ==
  /\ MenuIsBounded
  /\ phase = "ivr" ~> phase \in {"dialing", "closing"}
=============================================================================
