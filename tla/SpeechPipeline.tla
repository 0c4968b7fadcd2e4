--------------------------- MODULE SpeechPipeline ---------------------------
(***************************************************************************)
(* The pre-synthesis pipeline of one Agent turn: the producer              *)
(* (pkg/voice/agent streamTurn and its emitter), the pipelined turn        *)
(* (orchestrator/turn.go), a goroutine per sentence (TTS.Dispatch under    *)
(* turnRun.run), the tee's forwarder and the playback pump (pkg/voice/wire *)
(* tee.go, pump.go).                                                       *)
(*                                                                         *)
(* Sentence k+1 is synthesized while k plays.  Its chunks have no buffer:  *)
(* its dispatch returns only when somebody, the player or a drain, has     *)
(* read them all, or the turn is cut.                                      *)
(***************************************************************************)
EXTENDS Integers, SequencesExt

CONSTANT MaxSpoken   \* bound: sentences of the reply

ASSUME PipelineAssumption == MaxSpoken \in Nat

Spoken == 1..MaxSpoken

VARIABLES
  pPc,         \* the producer
  pSaid,       \* sentences it has dispatched; pendingSentence is the last but one
  pGenErr,     \* the engine's error
  pFallback,   \* the sentence is the canned line, which has no hooks
  pCut,        \* the turn's ctx is cancelled
  pRun,        \* a sentence's dispatch goroutine
  pJob,        \* its chunk channel: who holds it, who reads it
  pLane,       \* laneJob (0: none)
  pLatch,      \* released (0: none)
  pStopped, pWorker,   \* Close has begun; the worker runs
  pAnnounced, pPlayed, \* the TTSInvoked published, the playbacks started
  pHeard,      \* sentences the player read to their end
  pUnread,     \* sentences whose playback failed to start, or broke off
  pCommitted, pHistory,  \* deliveredText.spoken; what commitSpoken took from it
  pReason      \* what finish returned

producer == <<pPc, pSaid, pGenErr, pFallback, pHistory, pReason>>
pump == <<pLane, pLatch, pStopped, pWorker>>
pipelineVars == <<producer, pump, pCut, pRun, pJob, pAnnounced, pPlayed, pHeard, pUnread, pCommitted>>

PipelineTypeOK ==
  /\ pPc \in {"generating", "waiting", "releasing", "handing", "draining", "flushing", "finished"}
  /\ pSaid \in 0..MaxSpoken + 1 /\ pGenErr \in BOOLEAN /\ pFallback \in BOOLEAN /\ pCut \in BOOLEAN
  /\ pRun \in [Spoken -> {"none", "spawned", "starting", "streaming", "drained", "broken",
                          "delivered", "failed", "cut"}]
  /\ pJob \in [Spoken -> {"none", "priming", "enqueueing", "sending", "queued", "lane",
                          "playing", "draining", "over"}]
  /\ pLane \in {0} \cup Spoken /\ pLatch \in {0} \cup Spoken
  /\ pStopped \in BOOLEAN /\ pWorker \in BOOLEAN
  /\ pAnnounced \in Seq(Spoken) /\ pPlayed \in Seq(Spoken)
  /\ pHeard \subseteq Spoken /\ pUnread \subseteq Spoken
  /\ pCommitted \subseteq Spoken /\ pHistory \subseteq Spoken
  /\ pReason \in {"none", "provider_error", "tts_error"}

PipelineInit ==
  /\ pPc = "generating" /\ pSaid = 0 /\ pGenErr = FALSE /\ pFallback = FALSE /\ pCut = FALSE
  /\ pRun = [s \in Spoken |-> "none"] /\ pJob = [s \in Spoken |-> "none"]
  /\ pLane = 0 /\ pLatch = 0 /\ pStopped = FALSE /\ pWorker = TRUE
  /\ pAnnounced = <<>> /\ pPlayed = <<>> /\ pHeard = {} /\ pUnread = {}
  /\ pCommitted = {} /\ pHistory = {} /\ pReason = "none"

Resolved(s) == pRun[s] \in {"delivered", "failed", "cut"}
Becomes(s, state) == pRun' = [pRun EXCEPT ![s] = state]
Moves(s, place) == pJob' = [pJob EXCEPT ![s] = place]

\* Mutated: the lane is keyed by the turn.
KeyOfTurn(s) == 1

\* The lane key of a held sentence.
Key(s) == s

-----------------------------------------------------------------------------
(* The producer: p.dispatch, the emitter's barrier, p.flush, p.finish       *)

\* The first sentence is not held, and its dispatch returns at once.
DispatchSentence ==
  /\ pPc = "generating" /\ pSaid < MaxSpoken
  /\ pSaid' = pSaid + 1 /\ Becomes(pSaid + 1, "spawned")
  /\ pPc' = IF pSaid = 0 THEN "generating" ELSE "waiting"
  /\ UNCHANGED <<pGenErr, pFallback, pHistory, pReason, pump, pCut, pJob, pAnnounced, pPlayed,
                 pHeard, pUnread, pCommitted>>

\* DiscardLookahead of every key in keys.
DiscardLookahead(keys) ==
  /\ IF pLane # 0 /\ Key(pLane) \in keys THEN pLane' = 0 /\ Moves(pLane, "draining")
     ELSE UNCHANGED <<pLane, pJob>>
  /\ pLatch' = IF pLatch \in keys THEN 0 ELSE pLatch

Held(s) == IF s > 1 THEN {Key(s)} ELSE {}

\* The sentence before has resolved: cut stops the producer, a failed sentence's
\* latch is cleared, and otherwise the held one is announced.
PreviousResolved ==
  LET prev == pSaid - 1 IN
  /\ pPc = "waiting" /\ Resolved(prev)
  /\ IF pRun[prev] = "cut"
     THEN /\ DiscardLookahead({Key(pSaid)} \cup Held(prev))
          /\ pPc' = "draining" /\ UNCHANGED pAnnounced
     ELSE /\ IF pRun[prev] = "failed" THEN DiscardLookahead(Held(prev))
             ELSE UNCHANGED <<pLane, pLatch, pJob>>
          /\ pAnnounced' = Append(pAnnounced, pSaid) /\ pPc' = "releasing"
  /\ UNCHANGED <<pSaid, pGenErr, pFallback, pHistory, pReason, pStopped, pWorker, pCut, pRun,
                 pPlayed, pHeard, pUnread, pCommitted>>

\* Mutated: a release that finds no held sentence is forgotten.
Forgotten(s) == pLatch

\* A release that finds no held sentence waits for it.
Latched(s) == Key(s)

ReleaseLookahead ==
  /\ pPc = "releasing"
  /\ IF pLane # 0 /\ Key(pLane) = Key(pSaid)
     THEN /\ pLane' = 0 /\ Moves(pLane, "enqueueing") /\ pPc' = "handing" /\ UNCHANGED pLatch
     ELSE /\ pLatch' = Latched(pSaid) /\ pPc' = "generating" /\ UNCHANGED <<pLane, pJob>>
  /\ UNCHANGED <<pSaid, pGenErr, pFallback, pHistory, pReason, pStopped, pWorker, pCut, pRun,
                 pAnnounced, pPlayed, pHeard, pUnread, pCommitted>>

\* The completion ends, or the engine or the turn's timeout fails it.
GenerationEnds ==
  /\ pPc = "generating" /\ pPc' = "draining" /\ pGenErr' \in BOOLEAN
  /\ UNCHANGED <<pSaid, pFallback, pHistory, pReason, pump, pCut, pRun, pJob, pAnnounced,
                 pPlayed, pHeard, pUnread, pCommitted>>

\* d.wait, then commitSpoken.  An engine that failed before anything was tried
\* speaks the canned line, where the Agent has a voice.
CommitSpoken ==
  /\ pPc = "draining" /\ \A s \in 1..pSaid : Resolved(s)
  /\ pPc' = "flushing" /\ pHistory' = pCommitted
  /\ \/ UNCHANGED <<pSaid, pFallback, pRun, pGenErr>>
     \/ /\ pGenErr /\ pSaid = 0 /\ ~pCut /\ MaxSpoken > 0
        /\ pSaid' = 1 /\ pFallback' = TRUE /\ pGenErr' = FALSE /\ Becomes(1, "spawned")
  /\ UNCHANGED <<pReason, pump, pCut, pJob, pAnnounced, pPlayed, pHeard, pUnread, pCommitted>>

FlushAndFinish ==
  /\ pPc = "flushing" /\ (pSaid > 0 => Resolved(pSaid))
  /\ DiscardLookahead(Held(pSaid))
  /\ pPc' = "finished"
  /\ pReason' = IF pCut THEN "none"
                ELSE IF pGenErr THEN "provider_error"
                ELSE IF \E s \in Spoken : pRun[s] = "failed" THEN "tts_error" ELSE "none"
  /\ UNCHANGED <<pSaid, pGenErr, pFallback, pHistory, pStopped, pWorker, pCut, pRun, pAnnounced,
                 pPlayed, pHeard, pUnread, pCommitted>>

-----------------------------------------------------------------------------
(* A sentence: turnRun.run, TTS.Dispatch, the tee                           *)

sentenceOnly == <<producer, pLane, pLatch, pStopped, pWorker, pCut, pPlayed, pUnread>>

\* A cut turn starts nothing; the first sentence is announced by its dispatch.
Begin(s) ==
  /\ pRun[s] = "spawned"
  /\ Becomes(s, IF pCut THEN "cut" ELSE "starting")
  /\ pAnnounced' = IF s = 1 /\ ~pCut THEN Append(pAnnounced, 1) ELSE pAnnounced
  /\ UNCHANGED <<sentenceOnly, pJob, pHeard, pCommitted>>

StartFails(s) ==
  /\ pRun[s] = "starting" /\ Becomes(s, IF pCut THEN "cut" ELSE "failed")
  /\ UNCHANGED <<sentenceOnly, pJob, pAnnounced, pHeard, pCommitted>>

\* Synthesize accepts the sentence, and HandleSentence looks at stop first.
StartStream(s) ==
  /\ pRun[s] = "starting" /\ Becomes(s, "streaming")
  /\ Moves(s, IF pStopped THEN "draining" ELSE IF s = 1 THEN "enqueueing" ELSE "priming")
  /\ UNCHANGED <<sentenceOnly, pAnnounced, pHeard, pCommitted>>

\* HandleSentence has returned, so the forwarder runs.
Forwarded(s) ==
  pJob[s] \notin {"priming", "enqueueing", "sending"} \/ (pPc = "handing" /\ s = pSaid)

\* The last chunk is read: by the player, which then has the whole sentence, or by
\* a drain.
StreamEnds(s) ==
  /\ pRun[s] = "streaming" /\ pJob[s] \in {"playing", "draining"}
  /\ Becomes(s, "drained")
  /\ pHeard' = IF pJob[s] = "playing" THEN pHeard \cup {s} ELSE pHeard
  /\ UNCHANGED <<sentenceOnly, pJob, pAnnounced, pCommitted>>

\* A terminal Err chunk goes to the dispatch only, whoever reads the audio.
StreamBreaks(s) ==
  /\ pRun[s] = "streaming" /\ Forwarded(s) /\ Becomes(s, "broken")
  /\ UNCHANGED <<sentenceOnly, pJob, pAnnounced, pHeard, pCommitted>>

StreamCut(s) ==
  /\ pCut /\ pRun[s] = "streaming" /\ Forwarded(s) /\ Becomes(s, "drained")
  /\ UNCHANGED <<sentenceOnly, pJob, pAnnounced, pHeard, pCommitted>>

\* A cut during the drain leaves the sentence uncommitted.
Resolve(s) ==
  /\ pRun[s] \in {"drained", "broken"}
  /\ LET out == IF pCut THEN "cut" ELSE IF pRun[s] = "broken" THEN "failed" ELSE "delivered" IN
       /\ Becomes(s, out)
       /\ pCommitted' = IF out = "delivered" /\ ~pFallback THEN pCommitted \cup {s} ELSE pCommitted
  /\ UNCHANGED <<sentenceOnly, pJob, pAnnounced, pHeard>>

-----------------------------------------------------------------------------
(* The pump                                                                 *)

pumpOnly == <<pSaid, pGenErr, pFallback, pHistory, pReason, pCut, pRun, pAnnounced, pHeard, pCommitted>>

Prime(s) ==
  /\ pJob[s] = "priming"
  /\ IF pCut THEN Moves(s, "draining") /\ UNCHANGED <<pLane, pLatch>>
     ELSE IF pLatch = Key(s) THEN Moves(s, "enqueueing") /\ pLatch' = 0 /\ UNCHANGED pLane
     ELSE /\ pLane' = s /\ UNCHANGED pLatch
          /\ pJob' = [j \in Spoken |-> IF j = s THEN "lane"
                                       ELSE IF j = pLane THEN "draining" ELSE pJob[j]]
  /\ UNCHANGED <<pumpOnly, pPc, pStopped, pWorker, pPlayed, pUnread>>

\* enqueue looks at stop, then waits for room or for stop: when both are there it
\* may do either, even once the worker is gone.
Enqueue(s) ==
  /\ \/ pJob[s] = "enqueueing" /\ Moves(s, IF pStopped THEN "draining" ELSE "sending")
     \/ pJob[s] = "sending" /\ pStopped /\ Moves(s, "draining")
     \/ pJob[s] = "sending" /\ (\A j \in Spoken : pJob[j] # "queued") /\ Moves(s, "queued")
  /\ pPc' = IF pPc = "handing" /\ s = pSaid /\ pJob'[s] # "sending" THEN "generating" ELSE pPc
  /\ UNCHANGED <<pumpOnly, pLane, pLatch, pStopped, pWorker, pPlayed, pUnread>>

\* The worker takes a job; stop wins, and a playback that does not start is drained.
Play(s) ==
  /\ pWorker /\ pJob[s] = "queued" /\ \A j \in Spoken : pJob[j] # "playing"
  /\ \/ pStopped /\ Moves(s, "draining") /\ UNCHANGED <<pPlayed, pUnread>>
     \/ ~pStopped /\ Moves(s, "playing") /\ pPlayed' = Append(pPlayed, s) /\ UNCHANGED pUnread
     \/ ~pStopped /\ Moves(s, "draining") /\ pUnread' = pUnread \cup {s} /\ UNCHANGED pPlayed
  /\ UNCHANGED <<pumpOnly, pPc, pLane, pLatch, pStopped, pWorker>>

\* The channel is closed and the last frame sent, or the turn is cut.
PlaybackEnds(s) ==
  /\ pJob[s] = "playing" /\ (pCut \/ pRun[s] # "streaming") /\ Moves(s, "over")
  /\ UNCHANGED <<pumpOnly, pPc, pLane, pLatch, pStopped, pWorker, pPlayed, pUnread>>

\* The source fails: the playback ends and nobody reads the rest.
PlaybackBreaks(s) ==
  /\ pJob[s] = "playing" /\ Moves(s, "over") /\ pUnread' = pUnread \cup {s}
  /\ UNCHANGED <<pumpOnly, pPc, pLane, pLatch, pStopped, pWorker, pPlayed>>

\* Close: the worker finishes the sentence in flight and drains the queue, and the
\* lane is dropped.
StopPump ==
  /\ ~pStopped /\ pStopped' = TRUE
  /\ UNCHANGED <<pumpOnly, pPc, pLane, pLatch, pWorker, pJob, pPlayed, pUnread>>

WorkerExits ==
  /\ pStopped /\ pWorker /\ \A s \in Spoken : pJob[s] # "playing"
  /\ pWorker' = FALSE /\ pLane' = 0 /\ pLatch' = 0
  /\ pJob' = [s \in Spoken |-> IF pJob[s] = "queued" \/ s = pLane THEN "draining" ELSE pJob[s]]
  /\ UNCHANGED <<pumpOnly, pPc, pStopped, pPlayed, pUnread>>

\* A barge-in, a mute, a newer turn, or the end of the cycle.
CutTurn ==
  /\ ~pCut /\ pPc # "finished" /\ pCut' = TRUE
  /\ UNCHANGED <<producer, pump, pRun, pJob, pAnnounced, pPlayed, pHeard, pUnread, pCommitted>>

-----------------------------------------------------------------------------
ProducerStep ==
  DispatchSentence \/ PreviousResolved \/ ReleaseLookahead \/ GenerationEnds \/ CommitSpoken \/ FlushAndFinish

SentenceStep(s) ==
  Begin(s) \/ StartFails(s) \/ StartStream(s) \/ StreamEnds(s) \/ StreamCut(s) \/ Resolve(s)

PumpStep(s) == Prime(s) \/ Enqueue(s) \/ Play(s) \/ PlaybackEnds(s)

PipelineNext ==
  \/ ProducerStep \/ StopPump \/ WorkerExits \/ CutTurn
  \/ \E s \in Spoken : SentenceStep(s) \/ StreamBreaks(s) \/ PumpStep(s) \/ PlaybackBreaks(s)

PipelineSpec == PipelineInit /\ [][PipelineNext]_pipelineVars

-----------------------------------------------------------------------------
(* What the pipeline promises                                               *)

\* Sentences are announced in their order, one after the other, and play in that
\* order, each only once it is announced: a held sentence never leapfrogs the one
\* being played, whatever fails, latches or is cut (turn.go's release protocol).
SpeaksInOrder ==
  /\ \A i \in DOMAIN pAnnounced : pAnnounced[i] = i
  /\ \A i \in DOMAIN pPlayed : pPlayed[i] <= Len(pAnnounced) /\ (i > 1 => pPlayed[i - 1] < pPlayed[i])

\* Until the pump is closed only the sentence dispatched last is held, and the
\* queue's one slot is enough: what still sits there when the next sentence is sent
\* is one whose stream broke, its audio lost (pump.go: "the queue is empty at every
\* enqueue").
OneAhead == ~pStopped =>
  /\ pLane # 0 => pLane = pSaid /\ pPc \in {"waiting", "releasing"}
  /\ \A s, j \in Spoken : pJob[s] = "sending" /\ pJob[j] = "queued" => pRun[j] \in {"broken", "failed"}

\* Deliver-then-commit: a committed sentence was played to its last chunk, unless
\* its playback failed to start or the pump was being closed.
CommittedHeard == pCommitted \subseteq pHeard \cup pUnread \/ pStopped

\* The history holds what was delivered, the tail included: nothing commits after
\* the Agent has read it.
HistoryComplete == pPc \in {"flushing", "finished"} => pHistory = pCommitted

\* A finished turn leaves nothing behind: no dispatch that still runs, no held
\* sentence and no latch for the next turn, and a failed sentence is in its reason.
CleanFinish == pPc = "finished" =>
  /\ \A s \in 1..pSaid : Resolved(s)
  /\ ~pStopped => pLane = 0 /\ pLatch = 0
  /\ ~pCut /\ (\E s \in Spoken : pRun[s] = "failed") => pReason # "none"

PipelineInv ==
  PipelineTypeOK /\ SpeaksInOrder /\ OneAhead /\ CommittedHeard /\ HistoryComplete /\ CleanFinish

\* No turn hangs on a sentence nobody reads: it finishes, whatever fails, latches
\* or is cut in whatever order, unless a playback broke off under it.
PipelineOver == pPc = "finished" \/ pUnread # {}
PipelineEnds == <>PipelineOver
=============================================================================
