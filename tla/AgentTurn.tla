----------------------------- MODULE AgentTurn -----------------------------
(***************************************************************************)
(* How an Agent's reply is generated: the tool-use loop (pkg/tool/loop.go), *)
(* the ladder of attempts a round makes when the provider rejects its own   *)
(* model's tool call, and the guard against invented dice rolls             *)
(* (pkg/voice/agenttool/agenttool.go, rollclaim.go).                        *)
(*                                                                          *)
(* A turn is one goroutine; what varies is what the provider answers, and   *)
(* when the turn is cut.  Of a text all that matters is which roll it       *)
(* claims, of a round's calls which rolls they made and whether all failed. *)
(***************************************************************************)
EXTENDS Integers

CONSTANTS
  MaxRounds,   \* Loop.MaxRounds
  Faces        \* what the dice Tool may return

ASSUME AgentTurnAssumption == MaxRounds \in Nat \ {0} /\ 0 \notin Faces

NoClaim == 0
Claims == Faces \cup {NoClaim}
MaxForcedRegens == 2
NoProgressRounds == 2

VARIABLES
  gStep,       \* "round", "attempt", "again", "tools", "text" or "over"
  gTools,      \* Tools are granted
  gArmed,      \* the dice gate: the utterance asks for a roll, and dice are granted
  gLive,       \* deltas are forwarded as they arrive
  gCut,        \* ctx is cancelled
  gRun,        \* 0, then the number of the forced regeneration
  gRound, gFailed, \* rounds made, and how many of the last were all errors
  gFinal,      \* IsFinalAnswerRound
  gTry,        \* which attempt of the round
  gChoice,     \* its tool_choice: "auto", "dice" or "none"
  gHistory,    \* hasToolHistory of the conversation
  gRolled,     \* calledTools.resultsFor(dice): the recorder of this run
  gThrown,     \* history: what the dice Tool returned in this run
  gClaim,      \* the roll the text at hand claims
  gForwarded,  \* this round has forwarded a delta
  gMetered,    \* how often the report of the latest attempt was recorded, 1 if none
  gReply       \* "none", "failed", or the text, "plain" or one with a "claim"

turn == <<gTools, gArmed, gLive>>
round == <<gRound, gFailed, gFinal, gTry, gChoice, gForwarded>>
conversation == <<gHistory, gRolled, gThrown>>
agentVars == <<gStep, turn, gCut, gRun, round, conversation, gClaim, gMetered, gReply>>

AgentTypeOK ==
  /\ gStep \in {"round", "attempt", "again", "tools", "text", "over"}
  /\ {gTools, gArmed, gLive, gCut, gFinal, gHistory, gForwarded} \subseteq BOOLEAN
  /\ gRun \in 0..MaxForcedRegens
  /\ gRound \in 0..MaxRounds + 1 /\ gFailed \in 0..NoProgressRounds
  /\ gTry \in 1..4 /\ gChoice \in {"auto", "dice", "none"}
  /\ gRolled \subseteq Faces /\ gThrown \subseteq Faces /\ gClaim \in Claims /\ gMetered \in 0..2
  /\ gReply \in {"none", "failed", "plain", "claim"}

\* An armed turn is buffered: the whole text is pushed once the guard clears it.
AgentInit ==
  /\ gStep = "round" /\ gArmed \in BOOLEAN /\ gTools \in BOOLEAN /\ gLive \in BOOLEAN
  /\ (gArmed => gTools) /\ ~(gArmed /\ gLive)
  /\ gCut = FALSE /\ gRun = 0
  /\ gRound = 0 /\ gFailed = 0 /\ gFinal = FALSE /\ gTry = 1 /\ gChoice = "auto"
  /\ gForwarded = FALSE /\ gHistory = FALSE /\ gRolled = {} /\ gThrown = {}
  /\ gClaim = NoClaim /\ gMetered = 1 /\ gReply = "none"

Fail == gStep' = "over" /\ gReply' = "failed"

CutReply ==
  /\ ~gCut /\ gStep # "over" /\ gCut' = TRUE
  /\ UNCHANGED <<gStep, turn, gRun, round, conversation, gClaim, gMetered, gReply>>

-----------------------------------------------------------------------------
(* A round: up to four attempts (providerAdapter.complete)                  *)

\* The forced choice is consumed by the first completion of a regeneration; the
\* final-answer round, which does not look at ctx first, disarms the Tools.
BeginRound ==
  /\ gStep = "round"
  /\ IF gCut /\ ~gFinal
     THEN Fail /\ UNCHANGED round
     ELSE /\ gStep' = "attempt" /\ gTry' = 1 /\ gForwarded' = FALSE /\ UNCHANGED gReply
          /\ gChoice' = IF gFinal THEN "none"
                        ELSE IF gRun > 0 /\ gRound = 0 THEN "dice" ELSE "auto"
          /\ UNCHANGED <<gRound, gFailed, gFinal>>
  /\ UNCHANGED <<turn, gCut, gRun, conversation, gClaim, gMetered>>

\* The provider rejected the model's tool call before anything was forwarded:
\* isToolSyntax.  The fourth attempt is not looked at any more.
Malformed == gTools /\ ~gForwarded' /\ gTry <= 3

\* Twice it goes on, the second time with the Tools disarmed; a third time with none
\* declared, unless the conversation refers to them.
Retries == Malformed /\ (gTry = 3 => ~gHistory)

\* recordReportedUsage of what the ladder discards, and of the outcome.
Recordings == (IF Malformed THEN 1 ELSE 0) + (IF Retries THEN 0 ELSE 1)

AttemptRejected ==
  /\ gStep = "attempt" /\ gForwarded' \in {gForwarded, gLive}
  /\ \E reported \in BOOLEAN : gMetered' = IF reported THEN Recordings ELSE 1
  /\ IF Retries
     THEN /\ gStep' = "again" /\ gTry' = gTry + 1
          /\ gChoice' = IF gTry = 2 THEN "none" ELSE gChoice
          /\ UNCHANGED gReply
     ELSE Fail /\ UNCHANGED <<gTry, gChoice>>
  /\ UNCHANGED <<turn, gCut, gRun, gRound, gFailed, gFinal, conversation, gClaim>>

\* A barge between two attempts ends the turn.
TryAgain ==
  /\ gStep = "again"
  /\ IF gCut THEN Fail ELSE gStep' = "attempt" /\ UNCHANGED gReply
  /\ UNCHANGED <<turn, gCut, gRun, round, conversation, gClaim, gMetered>>

\* It cannot start, breaks otherwise, is truncated, or its text finds the turn cut;
\* what it reported is recorded once.
AttemptFails ==
  /\ gStep = "attempt" /\ gForwarded' \in {gForwarded, gLive}
  /\ gMetered' = 1 /\ Fail
  /\ UNCHANGED <<turn, gCut, gRun, gRound, gFailed, gFinal, gTry, gChoice, conversation, gClaim>>

\* It ends.  What it calls is executed if there is budget for it (a call written as
\* text is recovered only then); else it is refused, and a final answer asked for.
AttemptSucceeds ==
  /\ gStep = "attempt" /\ gForwarded' \in {gForwarded, gLive}
  /\ gMetered' = 1 /\ gClaim' \in Claims
  /\ \/ /\ gStep' = "text" /\ UNCHANGED <<gRound, gFinal, gHistory, gReply>>
     \/ /\ gTools /\ ~gFinal
        /\ IF gRound >= MaxRounds
           THEN gStep' = "round" /\ gRound' = gRound + 1 /\ gFinal' = TRUE /\ gHistory' = TRUE
           ELSE gStep' = "tools" /\ UNCHANGED <<gRound, gFinal, gHistory>>
        /\ UNCHANGED gReply
     \/ gFinal /\ Fail /\ UNCHANGED <<gRound, gFinal, gHistory>> \* ErrMaxRoundsExceeded
  /\ UNCHANGED <<turn, gCut, gRun, gFailed, gTry, gChoice, gRolled, gThrown>>

\* Every call is answered, by a result or by an error.  The dice Tool of a turn that is
\* not armed is not there.
RunTools ==
  /\ gStep = "tools" /\ gStep' = "round" /\ gHistory' = TRUE
  /\ \E rolls \in SUBSET Faces, allErrors \in BOOLEAN :
       /\ rolls # {} => gArmed /\ ~allErrors
       /\ gRolled' = gRolled \cup rolls /\ gThrown' = gThrown \cup rolls
       /\ gFailed' = IF allErrors THEN gFailed + 1 ELSE 0
  /\ gRound' = gRound + 1 /\ gFinal' = (gFailed' = NoProgressRounds)
  /\ UNCHANGED <<turn, gCut, gRun, gTry, gChoice, gForwarded, gClaim, gMetered, gReply>>

-----------------------------------------------------------------------------
(* The guard (Engine.generate, regenWithForcedDice)                         *)

\* A mutant: any executed roll vouches for any claim, as it does for the draft.
ConsistentIfAny == gClaim = NoClaim \/ gRolled # {}

Consistent == gClaim = NoClaim \/ gClaim \in gRolled

\* The draft is regenerated if it claims a roll and none was executed, a
\* regeneration if its claim is not one of its rolls.
Discard ==
  gArmed /\ IF gRun = 0 THEN gRolled = {} /\ gClaim # NoClaim ELSE ~Consistent

Regenerate ==
  /\ gStep = "text" /\ Discard /\ gRun < MaxForcedRegens
  /\ gStep' = "round" /\ gRun' = gRun + 1
  /\ gRound' = 0 /\ gFailed' = 0 /\ gFinal' = FALSE /\ gHistory' = FALSE
  /\ gRolled' = {} /\ gThrown' = {}
  /\ UNCHANGED <<turn, gCut, gTry, gChoice, gForwarded, gClaim, gMetered, gReply>>

KeepsContradicting ==
  /\ gStep = "text" /\ Discard /\ gRun = MaxForcedRegens /\ Fail
  /\ UNCHANGED <<turn, gCut, gRun, round, conversation, gClaim, gMetered>>

\* The text is returned; an armed turn pushes it now, and may find itself cut.
Deliver ==
  /\ gStep = "text" /\ ~Discard
  /\ \/ /\ gStep' = "over"
        /\ gReply' = IF gArmed /\ gClaim # NoClaim THEN "claim" ELSE "plain"
     \/ gArmed /\ gCut /\ Fail
  /\ UNCHANGED <<turn, gCut, gRun, round, conversation, gClaim, gMetered>>

AgentStep ==
  \/ BeginRound \/ AttemptRejected \/ TryAgain \/ AttemptFails \/ AttemptSucceeds \/ RunTools
  \/ Regenerate \/ KeepsContradicting \/ Deliver

AgentNext == AgentStep \/ CutReply

AgentSpec == AgentInit /\ [][AgentNext]_agentVars

-----------------------------------------------------------------------------
(* What the generation of a reply promises                                  *)

\* An Agent asked for a roll never states one that was not made in the run its words
\* come from, whichever way the ladder or the budget took the dice from it; and what
\* a regeneration states is one of its rolls (#399, #438).
NoInventedRoll == gReply = "claim" => gThrown # {} /\ (gRun > 0 => gClaim \in gThrown)

\* A round that was heard is never attempted again (ADR-0044), and a conversation with
\* tool messages keeps its declarations: no attempt runs without them (#427).
NeverRespoken == gStep \in {"again", "attempt"} =>
  /\ gTry > 1 => ~gForwarded
  /\ gTry = 4 => ~gHistory /\ gChoice = "none"

\* The loop stays within its budget: one round more than it, to answer without Tools,
\* and that is the last (the tool-budget silence fix).
WithinBudget ==
  /\ gRound = MaxRounds + 1 => gFinal
  /\ gFailed = NoProgressRounds => gFinal
  /\ gFinal => gHistory /\ gStep # "tools"

\* What a provider reported is metered, for attempts that are discarded as well.
UsageKept == gMetered > 0

AgentInv == AgentTypeOK /\ NoInventedRoll /\ NeverRespoken /\ WithinBudget /\ UsageKept

\* A reply comes or fails after finitely many completions.
AgentOver == gStep = "over"

\* agenttool.go:275-276: "the reported-or-estimate usage exactly once for the whole
\* round"; the caps are charged with what is metered.
MeteredOnce == gMetered <= 1
=============================================================================
