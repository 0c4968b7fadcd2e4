----------------------------- MODULE CrossTalk -----------------------------
(***************************************************************************)
(* The Cross-talk Reaction of an Ensemble Turn (orchestrator/ensemble.go): *)
(* once the Lead is elected, one other addressed Agent reacts to its line, *)
(* generated, and its first sentence synthesized and held in the pump's    *)
(* lane, while the Lead still speaks.                                      *)
(*                                                                         *)
(* Three goroutines and the pump's worker: the coordinator, which speaks   *)
(* the Lead and then releases the Reaction; the pick, a future the fastest *)
(* remaining draft resolves; and the prerender.  A barge-in or a mute      *)
(* cancels the unit at any moment.                                         *)
(***************************************************************************)
EXTENDS Integers

CONSTANT MaxLosers   \* bound: drafts still under way when the Lead is elected

ASSUME CrossTalkAssumption == MaxLosers \in Nat

VARIABLES
  xPc,         \* the coordinator
  xCut,        \* turnCtx is cancelled
  xTorn,       \* cancelReact was called
  xAudible,    \* Floor.Speaking
  xLeadPlays,  \* the worker is busy with the Lead
  xPick, xPending,  \* the future; the drafts it still waits for
  xReact,      \* reactCh: the Reaction, or where its generation stands
  xDecision,   \* the channel of that name
  xRun,        \* the prerender goroutine
  xS1,         \* s1Ch holds the first sentence
  xVerdict,    \* ttsErrCh
  xLane,       \* "empty", "held", or "latched" by a release
  xJob,        \* the Reaction's current sentence at the pump
  xMore,       \* a second sentence is still to come
  xAnnounced, xPosted,  \* EnsembleReaction (and TTSInvoked), the text post
  xHeard,      \* some of the Reaction played
  xEnded       \* the reason of the sub-turn's own TurnEnded

coordinator == <<xPc, xTorn, xAnnounced, xPosted, xEnded>>
reactor == <<xReact, xDecision, xRun, xS1, xVerdict, xMore>>
lead == <<xAudible, xLeadPlays>>
future == <<xPick, xPending>>
player == <<xLane, xJob, xHeard>>
crossTalkVars == <<coordinator, xCut, lead, future, reactor, player>>

CrossTalkTypeOK ==
  /\ xPc \in {"speaking", "gate", "picking", "deciding", "holding", "announcing", "releasing",
              "awaiting", "posting", "teardown", "unwinding", "gone"}
  /\ {xCut, xTorn, xAudible, xLeadPlays, xS1, xMore, xAnnounced, xHeard} \subseteq BOOLEAN
  /\ xPick \in {"pending", "none", "made"} /\ xPending \in 0..MaxLosers
  /\ xReact \in {"none", "running", "decline", "text", "audio"}
  /\ xDecision \in {"none", "decline", "text", "audio"}
  /\ xRun \in {"waiting", "generating", "dispatching", "starting", "streaming", "rest", "next", "done"}
  /\ xVerdict \in {"none", "failed", "fine"}
  /\ xLane \in {"empty", "held", "latched"}
  /\ xJob \in {"none", "lane", "queued", "playing", "gone"}
  /\ xPosted \in {"no", "posted", "failed"}
  /\ xEnded \in {"none", "barge", "tts_error", "text_delivered"}

\* With one other Agent addressed the pick is made at once.
CrossTalkInit ==
  /\ xPc = "speaking" /\ xCut = FALSE /\ xTorn = FALSE /\ xAudible = FALSE /\ xLeadPlays = FALSE
  /\ \/ xPick = "made" /\ xPending = 0
     \/ xPick = "pending" /\ xPending = MaxLosers
  /\ xReact = "none" /\ xDecision = "none" /\ xRun = "waiting" /\ xS1 = FALSE /\ xVerdict = "none"
  /\ xLane = "empty" /\ xJob = "none" /\ xMore = TRUE
  /\ xAnnounced = FALSE /\ xPosted = "no" /\ xHeard = FALSE /\ xEnded = "none"

ReactCut == xCut \/ xTorn

Barge ==
  /\ ~xCut /\ xPc # "gone" /\ xCut' = TRUE /\ xAudible' = FALSE
  /\ UNCHANGED <<coordinator, xLeadPlays, future, reactor, player>>

-----------------------------------------------------------------------------
(* The coordinator                                                          *)

StepTo(pc) == xPc' = pc /\ UNCHANGED <<xTorn, xAnnounced, xPosted, xEnded>>
onlyCoordinator == <<xCut, lead, future, reactor, player>>

\* The Lead's FirstOpus arms the floor.
LeadHeard ==
  /\ xPc = "speaking" /\ ~xCut /\ ~xAudible /\ xAudible' = TRUE /\ xLeadPlays' = TRUE
  /\ UNCHANGED <<coordinator, xCut, future, reactor, player>>

\* Speak returns; a Lead delivered as text ends the unit.  Its last sentence has
\* been read by the player then, but may still be playing.
LeadSpoken ==
  /\ xPc = "speaking" /\ \/ StepTo("gate")
                         \/ ~xAudible /\ StepTo("teardown")
  /\ UNCHANGED onlyCoordinator

LeadPlayed ==
  /\ xLeadPlays /\ (xPc # "speaking" \/ xCut) /\ xLeadPlays' = FALSE
  /\ UNCHANGED <<coordinator, xCut, xAudible, future, reactor, player>>

\* The Reaction needs an audible Lead, a live unit and a reactor.
Gate ==
  /\ xPc = "gate" /\ StepTo(IF xCut \/ ~xAudible THEN "teardown" ELSE "picking")
  /\ UNCHANGED onlyCoordinator

AwaitPick ==
  /\ xPc = "picking" /\ (xCut \/ xPick # "pending")
  /\ StepTo(IF xPick = "made" /\ ~xCut THEN "deciding" ELSE "teardown")
  /\ UNCHANGED onlyCoordinator

AwaitDecision ==
  /\ xPc = "deciding" /\ (xCut \/ xDecision # "none")
  /\ StepTo(IF xCut \/ xDecision = "decline" THEN "teardown"
            ELSE IF xDecision = "text" THEN "posting" ELSE "holding")
  /\ UNCHANGED onlyCoordinator

\* A select takes any arm that is ready.
AwaitHeld ==
  /\ xPc = "holding"
  /\ \/ xCut /\ StepTo("teardown")
     \/ xS1 /\ StepTo("announcing")
     \/ xRun = "done" /\ ~xS1 /\ StepTo("teardown")
  /\ UNCHANGED onlyCoordinator

\* EnsembleReaction, then the held sentence's TTSInvoked, then the release.
AnnounceReaction ==
  /\ xPc = "announcing" /\ xPc' = "releasing" /\ xAnnounced' = TRUE
  /\ UNCHANGED <<xTorn, xPosted, xEnded, onlyCoordinator>>

ReleaseReaction ==
  /\ xPc = "releasing" /\ StepTo("awaiting")
  /\ IF xLane = "held" THEN xLane' = "empty" /\ xJob' = "queued"
     ELSE xLane' = "latched" /\ UNCHANGED xJob
  /\ UNCHANGED <<xCut, lead, future, reactor, xHeard>>

\* After done: a cut ends the sub-turn as a barge, else the verdict is read.
ReactionOver ==
  /\ xPc = "awaiting" /\ xRun = "done" /\ (xCut \/ xVerdict # "none")
  /\ xPc' = "teardown"
  /\ xEnded' = IF xCut THEN "barge" ELSE IF xVerdict = "failed" THEN "tts_error" ELSE xEnded
  /\ UNCHANGED <<xTorn, xAnnounced, xPosted, onlyCoordinator>>

\* postTextReaction: a barge during the post and a failed post leave no terminal.
PostTextReaction ==
  /\ xPc = "posting" /\ xPc' = "teardown" /\ xAnnounced' = TRUE
  /\ xPosted' \in {"posted", "failed"}
  /\ xEnded' = IF xPosted' = "posted" /\ ~xCut THEN "text_delivered" ELSE xEnded
  /\ UNCHANGED <<xTorn, onlyCoordinator>>

\* The deferred teardown of every exit cancels the Reaction's context ...
CancelReact ==
  /\ xPc = "teardown" /\ xPc' = "unwinding" /\ xTorn' = TRUE
  /\ UNCHANGED <<xAnnounced, xPosted, xEnded, onlyCoordinator>>

\* ... waits for its goroutine, and drops what is held or latched.
DiscardReaction ==
  /\ xPc = "unwinding" /\ xRun = "done" /\ StepTo("gone")
  /\ xLane' = "empty" /\ xJob' = IF xLane = "held" THEN "gone" ELSE xJob
  /\ UNCHANGED <<xCut, lead, future, reactor, xHeard>>

-----------------------------------------------------------------------------
(* The pick and the prerender                                               *)

onlyPick == <<coordinator, xCut, lead, reactor, player>>

\* The first draft to arrive with a text makes the pick.
DraftArrives ==
  /\ xPick = "pending" /\ xPending > 0 /\ xPending' = xPending - 1
  /\ xPick' \in {"made", IF xPending = 1 THEN "none" ELSE "pending"}
  /\ UNCHANGED onlyPick

PickGivenUp ==
  /\ xPick = "pending" /\ (xCut \/ xPending = 0) /\ xPick' = "none"
  /\ UNCHANGED <<xPending, onlyPick>>

RunTo(pc) == xRun' = pc
onlyReactor == <<coordinator, xCut, lead, future>>

\* The launcher: no reactor counts as one that declined.
Launch ==
  /\ xRun = "waiting" /\ (ReactCut \/ xPick # "pending")
  /\ IF xPick # "made" \/ ReactCut
     THEN xDecision' = "decline" /\ RunTo("done") /\ UNCHANGED xReact
     ELSE RunTo("generating") /\ xReact' = "running" /\ UNCHANGED xDecision
  /\ UNCHANGED <<onlyReactor, xS1, xVerdict, xMore, player>>

\* React runs under turnCtx and declines when that is cut.
React ==
  /\ xReact = "running"
  /\ xReact' \in (IF xCut THEN {"decline"} ELSE {"decline", "text", "audio"})
  /\ UNCHANGED <<onlyReactor, xDecision, xRun, xS1, xVerdict, xMore, player>>

\* Torn down while the Reaction generates, it reports nothing.
Decide ==
  /\ xRun = "generating"
  /\ \/ ReactCut /\ RunTo("done") /\ UNCHANGED xDecision
     \/ /\ xReact \in {"decline", "text", "audio"} /\ xDecision' = xReact
        /\ RunTo(IF xReact = "audio" /\ ~ReactCut THEN "dispatching" ELSE "done")
  /\ UNCHANGED <<onlyReactor, xReact, xS1, xVerdict, xMore, player>>

Finish(verdict) == RunTo("done") /\ xVerdict' = verdict

\* dispatchHeld hands its text over before the synthesis starts; a Reaction may
\* also hold nothing speakable.
DispatchHeld ==
  /\ xRun = "dispatching"
  /\ \/ Finish("fine") /\ UNCHANGED xS1
     \/ ~ReactCut /\ xS1' = TRUE /\ RunTo("starting") /\ UNCHANGED xVerdict
  /\ UNCHANGED <<onlyReactor, xReact, xDecision, xMore, player>>

\* A start error of the held sentence ends the Reaction as a unit.
AbortHeld == Finish("failed")

HeldStartFails ==
  /\ xRun = "starting" /\ IF ReactCut THEN Finish("fine") ELSE AbortHeld
  /\ UNCHANGED <<onlyReactor, xReact, xDecision, xS1, xMore, player>>

\* prime
HeldStarts ==
  /\ xRun = "starting" /\ RunTo("streaming")
  /\ IF ReactCut THEN xJob' = "gone" /\ UNCHANGED xLane
     ELSE IF xLane = "latched" THEN xJob' = "queued" /\ xLane' = "empty"
     ELSE xJob' = "lane" /\ xLane' = "held"
  /\ UNCHANGED <<onlyReactor, xReact, xDecision, xS1, xVerdict, xMore, xHeard>>

\* A stream that breaks off leaves its closed channel where it is.
HeldBreaks ==
  /\ xRun = "streaming" /\ ~ReactCut /\ Finish("failed")
  /\ UNCHANGED <<onlyReactor, xReact, xDecision, xS1, xMore, player>>

StreamStops ==
  /\ xRun \in {"streaming", "next"} /\ ReactCut /\ Finish("fine")
  /\ UNCHANGED <<onlyReactor, xReact, xDecision, xS1, xMore, player>>

StreamRead ==
  /\ xRun \in {"streaming", "next"} /\ xJob = "playing" /\ RunTo("rest") /\ xJob' = "gone"
  /\ UNCHANGED <<onlyReactor, xReact, xDecision, xS1, xVerdict, xMore, xLane, xHeard>>

\* The sentences after the first take the ordinary queue.
NextSentence ==
  /\ xRun = "rest"
  /\ \/ xMore /\ ~ReactCut /\ RunTo("next") /\ xMore' = FALSE /\ xJob' = "queued" /\ UNCHANGED xVerdict
     \/ Finish("fine") /\ UNCHANGED <<xJob, xMore>>
  /\ UNCHANGED <<onlyReactor, xReact, xDecision, xS1, xLane, xHeard>>

\* The worker plays one sentence at a time; a dead or broken one plays as nothing.
PlayReaction ==
  /\ xJob = "queued" /\ ~xLeadPlays
  /\ IF ReactCut \/ xRun = "done" THEN xJob' = "gone" /\ UNCHANGED xHeard
     ELSE xJob' = "playing" /\ xHeard' = TRUE
  /\ UNCHANGED <<onlyReactor, reactor, xLane>>

-----------------------------------------------------------------------------
CoordinatorStep ==
  \/ LeadSpoken \/ Gate \/ AwaitPick \/ AwaitDecision \/ AwaitHeld \/ AnnounceReaction
  \/ ReleaseReaction \/ ReactionOver \/ PostTextReaction \/ CancelReact \/ DiscardReaction

PickStep == DraftArrives \/ PickGivenUp

PrerenderStep ==
  \/ Launch \/ React \/ Decide \/ DispatchHeld \/ HeldStartFails \/ HeldStarts
  \/ StreamStops \/ StreamRead \/ NextSentence

WorkerStep == LeadPlayed \/ PlayReaction

CrossTalkNext ==
  CoordinatorStep \/ PickStep \/ PrerenderStep \/ WorkerStep \/ LeadHeard \/ HeldBreaks \/ Barge

CrossTalkSpec == CrossTalkInit /\ [][CrossTalkNext]_crossTalkVars

-----------------------------------------------------------------------------
(* What Cross-talk promises (ADR-0025, ADR-0027)                            *)

\* No audio of the Reaction reaches the queue before the sub-turn is announced, and
\* it is announced only after the Lead's Speak: its second sentence cannot leapfrog
\* the Lead either (prerenderReaction, dispatchHeld).
ReactionAfterLead ==
  /\ xJob \in {"queued", "playing"} => xAnnounced
  /\ xAnnounced => xPc \notin {"speaking", "gate", "picking", "deciding", "holding", "announcing"}

\* An announced sub-turn ends in something the metrics and the transcript can see:
\* it was heard, or has a terminal of its own, unless its text post failed or was
\* overtaken by a barge.
AnnouncedSettles ==
  xPc = "gone" /\ xAnnounced => \/ xHeard \/ xEnded # "none"
                                \/ xPosted = "failed" \/ (xPosted = "posted" /\ xCut)

\* The coordinator never reads a verdict nobody will send.
VerdictComes == xPc = "awaiting" /\ xRun = "done" => xCut \/ xVerdict # "none"

\* The unit leaves nothing behind for the next turn: no held or latched sentence and
\* no goroutine, and nothing of it that would still play.
UnitLeavesNothing == xPc = "gone" =>
  /\ xLane = "empty" /\ xRun = "done"
  /\ xJob = "queued" => xCut \/ xVerdict = "failed"

CrossTalkInv ==
  CrossTalkTypeOK /\ ReactionAfterLead /\ AnnouncedSettles /\ VerdictComes /\ UnitLeavesNothing

\* Every Ensemble Turn comes to an end and frees the floor, whether or not it is
\* barged in on, however its drafts and its Reaction fail.
CrossTalkOver == xPc = "gone"
CrossTalkEnds == <>CrossTalkOver
=============================================================================
