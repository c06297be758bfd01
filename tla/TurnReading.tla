------------------------------ MODULE TurnReading ------------------------------
(* What the content script reads off a conversation and what the server makes   *)
(* of it, as functions of the page: content/turnSnapshots.js reads the latest    *)
(* assistant turn, observation/tabObservationCore.js turns the snapshot into an  *)
(* observation, bridge/observation/turnEvidence.js decides whether it ends.      *)
(*                                                                              *)
(* The turns of a conversation are numbered; turn t is the prompt t with its     *)
(* answer.  A page is                                                           *)
(*   asked  the last prompt,     mode  what ChatGPT does about its answer,       *)
(*   text   how far the text of that answer has grown (0: no answer node),       *)
(*   final  the finished text of every answer (0: not finished).                 *)
EXTENDS Naturals

CONSTANTS MaxTurns, MaxText

Turns == 1..MaxTurns
Texts == 0..MaxText
NoTurn == 0

Modes ==
  {"sent",       \* the prompt is shown, its answer is not yet
   "thinking", "tool", "writing",
   "pause",      \* nothing on the page shows that ChatGPT goes on
   "blocked",    \* a confirmation, a Continue button or an error is shown
   "done"}

(* The reasoning item of the latest answer, in the registry of the page.         *)
Items == {"none", "thinking", "tool", "missed", "completed"}

(***************************************************************************)
(* The snapshot.                                                            *)
(***************************************************************************)
(* The latest assistant turn that has a node: the answer of the prompt       *)
(* before, as long as the new one shows nothing.                             *)
LatestAssistantTurn(page) == IF page.mode = "sent" THEN page.asked - 1 ELSE page.asked
Answer(page) ==
  LET t == LatestAssistantTurn(page)
  IN  IF t = NoTurn THEN 0 ELSE IF t = page.asked THEN page.text ELSE page.final[t]

(* One scan of the reasoning blocks: a block on the page is its item; an     *)
(* active item whose block has gone is completed at once under a final       *)
(* answer, at the second scan without one.                                   *)
ReasoningBlock(page) == IF page.mode \in {"thinking", "tool"} THEN page.mode ELSE "none"
ReconcileThinking(item, page) ==
  CASE ReasoningBlock(page) # "none" -> ReasoningBlock(page)
    [] page.mode = "sent"            -> "none"
    [] OTHER -> CASE item \in {"thinking", "tool"} -> IF page.text > 0 THEN "completed" ELSE "missed"
                  [] item = "missed"               -> "completed"
                  [] OTHER                         -> item

(* The controls of the composer belong to the latest prompt whatever answer  *)
(* is read; the animation and the tool belong to the answer.                 *)
StopVisible(page)      == page.mode \in {"sent", "thinking", "tool", "writing"}
StreamingVisible(page) == page.mode = "writing"
NeedsAction(page)      == page.mode = "blocked"
HasActiveTool(item)    == item = "tool"

ClassifyTurnPhase(page, item) ==
  LET live == StopVisible(page) \/ StreamingVisible(page) IN
  IF NeedsAction(page)                                        THEN "NEEDS_ACTION"
  ELSE IF HasActiveTool(item) /\ live                         THEN "TOOL_RUNNING"
  ELSE IF Answer(page) > 0 /\ live                            THEN "ASSISTANT_FINAL_STREAMING"
  ELSE IF Answer(page) > 0                                    THEN "ASSISTANT_FINAL"
  ELSE IF item \notin {"none", "missed"} /\ StopVisible(page) THEN "ASSISTANT_REASONING"
  ELSE "ASSISTANT_PLACEHOLDER"

ReadAssistantSnapshot(page, item) ==
  [turn   |-> LatestAssistantTurn(page),
   answer |-> Answer(page),
   item   |-> item,
   phase  |-> ClassifyTurnPhase(page, item),
   live   |-> StopVisible(page) \/ StreamingVisible(page) \/ HasActiveTool(item),
   action |-> NeedsAction(page)]

(***************************************************************************)
(* The observation.                                                         *)
(***************************************************************************)
PhaseOutput(phase) ==
  CASE phase \in {"ASSISTANT_REASONING", "TOOL_RUNNING"} -> "reasoning"
    [] phase = "ASSISTANT_FINAL_STREAMING"               -> "streaming"
    [] phase = "ASSISTANT_FINAL"                         -> "final"
    [] OTHER                                             -> "none"

(* The prompt read with an answer is the nearest user turn above it.         *)
ObservedUserTurn(snapshot) == snapshot.turn

Observation(snapshot, request) ==
  [request    |-> request,        \* a request of the bridge holds the tab
   turn       |-> snapshot.turn,
   user       |-> ObservedUserTurn(snapshot),
   answer     |-> snapshot.answer,
   output     |-> IF snapshot.answer > 0 /\ ~snapshot.live THEN "final" ELSE PhaseOutput(snapshot.phase),
   generation |-> IF snapshot.live THEN "active" ELSE IF snapshot.turn # NoTurn THEN "stopped" ELSE "idle",
   blocker    |-> IF snapshot.action THEN "blocked" ELSE "none",
   item       |-> snapshot.item]

Observations == [request : BOOLEAN, turn : 0..MaxTurns, user : 0..MaxTurns, answer : Texts,
                 output : {"none", "reasoning", "streaming", "final"},
                 generation : {"idle", "active", "stopped"},
                 blocker : {"none", "blocked"}, item : Items]
NoObservation == [request |-> FALSE, turn |-> NoTurn, user |-> NoTurn, answer |-> 0, output |-> "none",
                  generation |-> "idle", blocker |-> "none", item |-> "none"]

(* What the observer compares: to publish a change, and to let the answer     *)
(* grow stable.  Both hold everything of the observation modelled here.       *)
SemanticSignature(o)  == o
StabilitySignature(o) == o

(***************************************************************************)
(* The verdict of the server.                                               *)
(***************************************************************************)
MinimumStable == 2    \* the level of the stability clock at 1 500 ms
\* Mutant: an answer that looks finished is the answer, however long it has stood still.
TerminalCandidate_Unstable(o, level) ==
  o.generation = "stopped" /\ o.output = "final" /\ o.blocker = "none" /\ o.turn # NoTurn /\ o.answer > 0
TerminalCandidate(o, level) ==
  /\ o.generation = "stopped"
  /\ o.output = "final"
  /\ o.blocker = "none"
  /\ level >= MinimumStable
  /\ o.turn # NoTurn
  /\ o.answer > 0
================================================================================
