---------------------------- MODULE SpeechStream ----------------------------
(***************************************************************************)
(* Speech to text of one Speaker Lane: the Segmenter                       *)
(* (orchestrator/reactor.go), its StreamManager (sttstream.go), the        *)
(* sessions of the streaming recognizer (stt/elevenlabs/stream.go) and the *)
(* one worker that turns each utterance into a final.                      *)
(*                                                                         *)
(* The audio loop buffers an utterance and mirrors it to the live session; *)
(* at the end of speech it commits the session and hands buffer and commit *)
(* to the worker, which prefers the committed text and otherwise posts the *)
(* buffer to the batch recognizer.  A maintainer redials the session, the  *)
(* provider answers commits or dies, and a teardown may come at any time.  *)
(*                                                                         *)
(* An utterance is a head (pre-roll and first frames) and a tail.          *)
(***************************************************************************)
EXTENDS Integers, Sequences, SequencesExt

CONSTANTS MaxSpeeches,  \* bound: utterances of a session
          MaxStreams,     \* bound: sessions the maintainer may open
          QueueFills      \* whether a session's write queue may fill up

ASSUME SpeechAssumption ==
  MaxSpeeches \in Nat \ {0} /\ MaxStreams \in Nat \ {0} /\ QueueFills \in BOOLEAN

Speeches == 1..MaxSpeeches
Streams == 1..MaxStreams
Nobody == 0

VARIABLES
  \* the audio loop
  uPc, uNow,        \* where it stands; the utterance it is at
  uBuf,             \* the utterance in the lane's buf, or 0
  uSession,         \* the session its current call works on
  uCommit,          \* the lane's pendCommit, or 0
  uFinal,           \* this is Flush
  \* the stream manager
  mPc, mStream, mDead, mPoke,
  mBound,           \* the maintainer's ctx is not cancelled
  \* the sessions
  sState,           \* "none", "open", "dead", or "drained" once drainPending ran
  sAudio,           \* accepted since the last commit
  sPending,         \* FIFO of the utterances whose commits are in flight
  \* the commits, by utterance
  cResult, cAudio, cTimes,
  \* the worker, the inline path, the queue
  scribe, jobs, jobCommit, chan,
  tPc,              \* the teardown
  segClosed,           \* Segmenter.closed
  settled, text     \* what became of each utterance; the audio its final covers

loopVars == <<uPc, uNow, uBuf, uSession, uCommit, uFinal>>
managerVars == <<mPc, mStream, mDead, mPoke, mBound>>
sessionVars == <<sState, sAudio, sPending>>
commitVars == <<cResult, cAudio, cTimes>>
workVars == <<scribe, jobs, jobCommit, settled, text>>
teardownVars == <<tPc, segClosed, chan>>
speechVars == <<loopVars, managerVars, sessionVars, commitVars, workVars, teardownVars>>

Parts == {"head", "tail"}
Transcribers == {"worker", "inline"}
Free == [u |-> Nobody, at |-> "free"]

SpeechTypeOK ==
  /\ uPc \in {"idle", "head", "heard", "tail", "spoken", "ending", "enqueueing", "flush",
              "enlisted", "inline", "draining", "flushed"}
  /\ uNow \in 0..MaxSpeeches /\ uBuf \in 0..MaxSpeeches
  /\ uSession \in 0..MaxStreams /\ uCommit \in 0..MaxSpeeches /\ uFinal \in BOOLEAN
  /\ mPc \in {"dialing", "up", "waiting", "sleeping", "gone"}
  /\ mStream \in 0..MaxStreams /\ {mDead, mPoke, mBound, segClosed} \subseteq BOOLEAN
  /\ sState \in [Streams -> {"none", "open", "dead", "drained"}]
  /\ sAudio \in [Streams -> SUBSET (Speeches \X Parts)]
  /\ sPending \in [Streams -> Seq(Speeches)]
  /\ cResult \in [Speeches -> {"none", "text", "error"}]
  /\ cAudio \in [Speeches -> SUBSET (Speeches \X Parts)]
  /\ cTimes \in [Speeches -> 0..2]
  /\ scribe \in [Transcribers -> [u : 0..MaxSpeeches, at : {"free", "awaiting", "batch"}]]
  /\ jobs \in Seq(Speeches) /\ jobCommit \in [Speeches -> BOOLEAN]
  /\ chan \in {"open", "closed"}
  /\ tPc \in {"bound", "streams", "senders", "worker", "done"}
  /\ settled \in [Speeches -> {"none", "streamed", "batch", "failed"}]
  /\ text \in [Speeches -> SUBSET (Speeches \X Parts)]

\* bind: the first dial is eager.
SpeechInit ==
  /\ uPc = "idle" /\ uNow = 0 /\ uBuf = Nobody /\ uSession = Nobody /\ uCommit = Nobody
  /\ uFinal = FALSE
  /\ mPc = "dialing" /\ mStream = Nobody /\ mDead = FALSE /\ mPoke = FALSE /\ mBound = TRUE
  /\ sState = [s \in Streams |-> "none"] /\ sAudio = [s \in Streams |-> {}]
  /\ sPending = [s \in Streams |-> <<>>]
  /\ cResult = [u \in Speeches |-> "none"] /\ cAudio = [u \in Speeches |-> {}]
  /\ cTimes = [u \in Speeches |-> 0]
  /\ scribe = [p \in Transcribers |-> Free] /\ jobs = <<>>
  /\ jobCommit = [u \in Speeches |-> FALSE] /\ chan = "open"
  /\ tPc = "bound" /\ segClosed = FALSE
  /\ settled = [u \in Speeches |-> "none"] /\ text = [u \in Speeches |-> {}]

-----------------------------------------------------------------------------
(* The maintainer                                                           *)

onlyMaintainer == <<loopVars, sAudio, sPending, commitVars, workVars, teardownVars>>

\* The session is installed under the lock, whatever was there before.
DialSucceeds ==
  /\ mPc = "dialing" /\ mBound
  /\ \E s \in Streams :
       /\ sState[s] = "none" /\ \A r \in 1..(s - 1) : sState[r] # "none"
       /\ sState' = [sState EXCEPT ![s] = "open"] /\ mStream' = s
  /\ mPc' = "up" /\ UNCHANGED <<mDead, mPoke, mBound, onlyMaintainer>>

DialFails ==
  /\ mPc = "dialing" /\ mPc' = IF mBound THEN "sleeping" ELSE "gone"
  /\ UNCHANGED <<mStream, mDead, mPoke, mBound, sState, onlyMaintainer>>

DrainStalePoke ==
  /\ mPc = "up" /\ mPoke' = FALSE /\ mPc' = IF mBound THEN "waiting" ELSE "gone"
  /\ UNCHANGED <<mStream, mDead, mBound, sState, onlyMaintainer>>

Poked ==
  /\ mPc = "waiting" /\ mPoke /\ mPoke' = FALSE /\ mPc' = "sleeping"
  /\ UNCHANGED <<mStream, mDead, mBound, sState, onlyMaintainer>>

BackoffEnds ==
  /\ mPc = "sleeping" /\ mPc' = IF mBound THEN "dialing" ELSE "gone"
  /\ UNCHANGED <<mStream, mDead, mPoke, mBound, sState, onlyMaintainer>>

MaintainerStops ==
  /\ mPc = "waiting" /\ ~mBound /\ mPc' = "gone"
  /\ UNCHANGED <<mStream, mDead, mPoke, mBound, sState, onlyMaintainer>>

-----------------------------------------------------------------------------
(* A session: its pumps, and the provider behind them                       *)

onlySession == <<loopVars, managerVars, workVars, teardownVars>>

\* A channel of capacity one: a second send would block its sender for good.
ResolveCommits(us, result) ==
  /\ cResult' = [u \in Speeches |-> IF u \in us THEN result ELSE cResult[u]]
  /\ cTimes' = [u \in Speeches |-> IF u \in us THEN cTimes[u] + 1 ELSE cTimes[u]]

\* resolveCommitted, or resolveFront with an error of that commit.
ProviderAnswers(s) ==
  /\ sState[s] = "open" /\ sPending[s] # <<>>
  /\ \E result \in {"text", "error"} : ResolveCommits({Head(sPending[s])}, result)
  /\ sPending' = [sPending EXCEPT ![s] = Tail(@)]
  /\ UNCHANGED <<sState, sAudio, cAudio, onlySession>>

\* A fatal frame, a lost connection, or the maintainer's ctx.
SessionDies(s) ==
  /\ sState[s] = "open" /\ sState' = [sState EXCEPT ![s] = "dead"]
  /\ sAudio' = [sAudio EXCEPT ![s] = {}]
  /\ UNCHANGED <<sPending, commitVars, onlySession>>

DrainPending(s) ==
  /\ sState[s] = "dead" /\ sState' = [sState EXCEPT ![s] = "drained"]
  /\ ResolveCommits(Range(sPending[s]), "error") /\ sPending' = [sPending EXCEPT ![s] = <<>>]
  /\ UNCHANGED <<sAudio, cAudio, onlySession>>

-----------------------------------------------------------------------------
(* The audio loop                                                           *)

LoopTo(pc) == uPc' = pc
onlyLoop == <<workVars, teardownVars>>

\* Speech starts, as long as the segmenter is subscribed.
BeginUtterance ==
  /\ uPc = "idle" /\ ~segClosed /\ uNow < MaxSpeeches
  /\ uNow' = uNow + 1 /\ uBuf' = uNow + 1
  /\ uSession' = mStream /\ mDead' = (mStream = Nobody) /\ LoopTo("head")
  /\ UNCHANGED <<uCommit, uFinal, mPc, mStream, mPoke, mBound, sessionVars, commitVars, onlyLoop>>

\* streamFailed: fatal when the session is dead, recoverable when its queue is full.
SessionFailed(s) ==
  /\ mDead' = TRUE
  /\ IF sState[s] # "open" /\ mStream = s THEN mStream' = Nobody /\ mPoke' = TRUE
     ELSE UNCHANGED <<mStream, mPoke>>

\* A dead session takes nothing; a full queue refuses, but keeps the frame for the
\* next flush of the session.
Send(s, part) ==
  \/ /\ sState[s] = "open" /\ sAudio' = [sAudio EXCEPT ![s] = @ \cup {<<uNow, part>>}]
     /\ \/ UNCHANGED <<mDead, mStream, mPoke>>
        \/ QueueFills /\ SessionFailed(s)
  \/ /\ sState[s] # "open" /\ SessionFailed(s) /\ UNCHANGED sAudio

SendHead ==
  /\ uPc = "head" /\ LoopTo("heard")
  /\ IF uSession = Nobody THEN mPoke' = TRUE /\ UNCHANGED <<mDead, mStream, sAudio>>
     ELSE Send(uSession, "head")
  /\ uSession' = Nobody
  /\ UNCHANGED <<uNow, uBuf, uCommit, uFinal, mPc, mBound, sState, sPending, commitVars, onlyLoop>>

\* send reads the session under the lock; a dead utterance sends nothing more.
ReadSession ==
  /\ uPc = "heard"
  /\ IF mDead \/ mStream = Nobody
     THEN LoopTo("spoken") /\ mDead' = TRUE /\ mPoke' = (mPoke \/ ~mDead) /\ UNCHANGED uSession
     ELSE LoopTo("tail") /\ uSession' = mStream /\ UNCHANGED <<mDead, mPoke>>
  /\ UNCHANGED <<uNow, uBuf, uCommit, uFinal, mPc, mStream, mBound, sessionVars, commitVars, onlyLoop>>

SendTail ==
  /\ uPc = "tail" /\ LoopTo("spoken") /\ Send(uSession, "tail") /\ uSession' = Nobody
  /\ UNCHANGED <<uNow, uBuf, uCommit, uFinal, mPc, mBound, sState, sPending, commitVars, onlyLoop>>

\* The end of speech, or Flush in the middle of it: endUtterance reads the session.
EndUtterance(flush) ==
  /\ uPc = "spoken" \/ (flush /\ uPc = "heard")
  /\ flush \/ ~segClosed
  /\ uFinal' = flush
  /\ IF mDead \/ mStream = Nobody THEN LoopTo("flush") /\ UNCHANGED uSession
     ELSE LoopTo("ending") /\ uSession' = mStream
  /\ UNCHANGED <<uNow, uBuf, uCommit, managerVars, sessionVars, commitVars, onlyLoop>>

\* Commit of a session that was dead at the call fails at once; one that dies
\* meanwhile still registers, unless its pending queue has been drained.
CommitSession ==
  /\ uPc = "ending"
  /\ \/ /\ sState[uSession] # "open" /\ LoopTo("flush") /\ SessionFailed(uSession)
        /\ UNCHANGED <<uCommit, sPending>>
     \/ /\ sState[uSession] # "drained" /\ LoopTo("enqueueing") /\ uCommit' = uNow
        /\ sPending' = [sPending EXCEPT ![uSession] = Append(@, uNow)]
        /\ UNCHANGED <<mDead, mStream, mPoke>>
  /\ UNCHANGED <<uNow, uBuf, uSession, uFinal, mPc, mBound, sState, sAudio, commitVars, onlyLoop>>

\* Mutated: the failed commit is resolved whether or not it was drained meanwhile.
FailAlways(u, s) == ResolveCommits({u}, "error") /\ UNCHANGED sPending

\* A channel resolves exactly once: it is taken from where it stands in the queue, if
\* it still does.
FailCommit(u, s) ==
  IF u \in Range(sPending[s])
  THEN /\ ResolveCommits({u}, "error")
       /\ sPending' = [sPending EXCEPT ![s] = RemoveAt(@, CHOOSE i \in DOMAIN @ : @[i] = u)]
  ELSE UNCHANGED <<cResult, cTimes, sPending>>

\* The sentinel separates what was sent so far from what follows.
EnqueueCommit ==
  /\ uPc = "enqueueing" /\ LoopTo("flush")
  /\ \/ /\ cAudio' = [cAudio EXCEPT ![uNow] = sAudio[uSession]]
        /\ sAudio' = [sAudio EXCEPT ![uSession] = {}]
        /\ UNCHANGED <<sPending, cResult, cTimes>>
     \/ QueueFills /\ FailCommit(uNow, uSession) /\ UNCHANGED <<cAudio, sAudio>>
  /\ UNCHANGED <<uNow, uBuf, uSession, uCommit, uFinal, managerVars, sState, onlyLoop>>

\* The loop ends: Flush, with or without an utterance in the buffer.
FlushIdle ==
  /\ uPc = "idle" /\ LoopTo("draining") /\ uFinal' = TRUE
  /\ UNCHANGED <<uNow, uBuf, uSession, uCommit, managerVars, sessionVars, commitVars, onlyLoop>>

AfterDispatch == IF uFinal THEN "draining" ELSE "idle"

\* Mutated: an utterance without a commit is dropped.
EnlistsCommitted == IF uCommit = Nobody THEN AfterDispatch ELSE "enlisted"

\* An utterance goes to the worker with or without a commit.
Enlists == "enlisted"

\* dispatchTranscription decides and enlists under one lock; after a teardown began it
\* transcribes on the audio loop itself.
DispatchTranscription ==
  /\ uPc = "flush" /\ uBuf' = Nobody /\ uCommit' = Nobody /\ uSession' = Nobody
  /\ IF segClosed
     THEN /\ LoopTo("inline") /\ UNCHANGED jobCommit
          /\ scribe' = [scribe EXCEPT !["inline"] =
                       [u |-> uNow, at |-> IF uCommit # Nobody THEN "awaiting" ELSE "batch"]]
     ELSE /\ LoopTo(Enlists) /\ UNCHANGED scribe
          /\ jobCommit' = [jobCommit EXCEPT ![uNow] = uCommit # Nobody]
  /\ UNCHANGED <<uNow, uFinal, managerVars, sessionVars, commitVars, jobs, settled, text,
                 teardownVars>>

SendJob ==
  /\ uPc = "enlisted" /\ jobs' = Append(jobs, uNow) /\ LoopTo(AfterDispatch)
  /\ UNCHANGED <<uNow, uBuf, uSession, uCommit, uFinal, managerVars, sessionVars, commitVars,
                 scribe, jobCommit, settled, text, teardownVars>>

InlineDone ==
  /\ uPc = "inline" /\ scribe["inline"] = Free /\ LoopTo(AfterDispatch)
  /\ UNCHANGED <<uNow, uBuf, uSession, uCommit, uFinal, managerVars, sessionVars, commitVars, onlyLoop>>

\* inflight.Wait
FlushReturns ==
  /\ uPc = "draining" /\ jobs = <<>> /\ scribe["worker"] = Free /\ LoopTo("flushed")
  /\ UNCHANGED <<uNow, uBuf, uSession, uCommit, uFinal, managerVars, sessionVars, commitVars, onlyLoop>>
-----------------------------------------------------------------------------
(* The worker, or the audio loop in its place                               *)

onlyWorker == <<loopVars, managerVars, sessionVars, commitVars, teardownVars>>

TakeJob ==
  /\ scribe["worker"] = Free /\ jobs # <<>> /\ jobs' = Tail(jobs)
  /\ scribe' = [scribe EXCEPT !["worker"] =
               [u |-> Head(jobs), at |-> IF jobCommit[Head(jobs)] THEN "awaiting" ELSE "batch"]]
  /\ jobCommit' = [jobCommit EXCEPT ![Head(jobs)] = FALSE]
  /\ UNCHANGED <<onlyWorker, settled, text>>

\* The commit timeout may fire at any time, and an error need not be waited out.
CommitFails(p) ==
  /\ scribe[p].at = "awaiting"
  /\ scribe' = [scribe EXCEPT ![p].at = "batch"]
  /\ UNCHANGED <<onlyWorker, jobs, jobCommit, settled, text>>

SettleUtterance(p, how, audio) ==
  /\ settled' = [settled EXCEPT ![scribe[p].u] = how] /\ text' = [text EXCEPT ![scribe[p].u] = audio]
  /\ scribe' = [scribe EXCEPT ![p] = Free]
  /\ cAudio' = [cAudio EXCEPT ![scribe[p].u] = {}]
  /\ UNCHANGED <<loopVars, managerVars, sessionVars, cResult, cTimes, jobs, jobCommit, teardownVars>>

\* The committed text is published as it is.
CommitResolves(p) ==
  /\ scribe[p].at = "awaiting" /\ cResult[scribe[p].u] = "text"
  /\ SettleUtterance(p, "streamed", cAudio[scribe[p].u])

Transcribe(p) ==
  /\ scribe[p].at = "batch"
  /\ \/ SettleUtterance(p, "batch", {scribe[p].u} \X Parts)
     \/ SettleUtterance(p, "failed", {})

-----------------------------------------------------------------------------
(* The teardown                                                             *)

onlyTeardown == <<loopVars, sessionVars, commitVars, workVars>>

\* No transition reaches the segmenter any more, and a dispatch sees closed.
CloseSegmenter ==
  /\ tPc = "bound" /\ tPc' = "streams" /\ segClosed' = TRUE /\ mBound' = FALSE
  /\ UNCHANGED <<chan, mPc, mStream, mDead, mPoke, onlyTeardown>>

\* The maintainer is awaited before the session it may have installed is closed.
CloseStream ==
  /\ tPc = "streams" /\ mPc = "gone"
  /\ mStream # Nobody => sState[mStream] = "drained"
  /\ tPc' = "senders" /\ mStream' = Nobody
  /\ UNCHANGED <<chan, segClosed, mPc, mDead, mPoke, mBound, onlyTeardown>>

NoSender == uPc # "enlisted"

CloseJobs ==
  /\ tPc = "senders" /\ NoSender /\ tPc' = "worker" /\ chan' = "closed"
  /\ UNCHANGED <<segClosed, managerVars, onlyTeardown>>

WorkerDrained ==
  /\ tPc = "worker" /\ jobs = <<>> /\ scribe["worker"] = Free /\ tPc' = "done"
  /\ UNCHANGED <<segClosed, chan, managerVars, onlyTeardown>>

-----------------------------------------------------------------------------
MaintainerStep ==
  \/ DialSucceeds \/ DialFails \/ DrainStalePoke \/ Poked \/ BackoffEnds \/ MaintainerStops

SessionStep(s) == ProviderAnswers(s) \/ SessionDies(s) \/ DrainPending(s)

LoopStep ==
  \/ SendHead \/ ReadSession \/ SendTail \/ CommitSession \/ EnqueueCommit
  \/ DispatchTranscription \/ SendJob \/ InlineDone \/ FlushReturns
  \/ \E flush \in BOOLEAN : EndUtterance(flush)

TranscriberStep(p) == CommitFails(p) \/ CommitResolves(p) \/ Transcribe(p)

TeardownStep == CloseStream \/ CloseJobs \/ WorkerDrained

SpeechNext ==
  \/ MaintainerStep \/ LoopStep \/ TeardownStep \/ TakeJob
  \/ BeginUtterance \/ FlushIdle \/ CloseSegmenter
  \/ \E s \in Streams : SessionStep(s)
  \/ \E p \in Transcribers : TranscriberStep(p)

SpeechSpec == SpeechInit /\ [][SpeechNext]_speechVars

-----------------------------------------------------------------------------
(* What the Segmenter and its StreamManager promise (ADR-0042, ADR-0050)     *)

\* The barrier of teardown: nobody sends on the closed channel, and the worker leaves
\* nothing in it (reactor.go).
NoSendOnClosed ==
  /\ chan = "closed" => uPc # "enlisted"
  /\ tPc = "done" => jobs = <<>> /\ scribe["worker"] = Free

\* Every commit resolves at most once, however a failed write, an answer and a death
\* of the session race; a dead session leaves none pending (stream.go).
ResolvesOnce ==
  /\ \A u \in Speeches : cTimes[u] <= 1
  /\ \A s \in Streams : sState[s] = "drained" => sPending[s] = <<>>

\* An utterance that reached the worker's hands is in one place only, and it is
\* transcribed once: by the commit, by the batch adapter, or reported as failed.
TranscribedOnce ==
  \A u \in Speeches : settled[u] # "none" =>
    u # uBuf /\ u \notin Range(jobs) /\ \A p \in Transcribers : scribe[p].u # u

\* Flush is the drain barrier: when it returns, every utterance has been settled.
FlushDrains == uPc = "flushed" => \A u \in 1..uNow : settled[u] # "none"

\* After the teardown no session is installed and none is being dialled.
StreamsClosed == tPc \in {"senders", "worker", "done"} => mStream = Nobody /\ mPc = "gone"

\* A streamed final never speaks for audio its speaker had not yet said, and while no
\* session was replaced and no queue filled up it covers its utterance.
NoForeignTail == \A u \in Speeches : \A a \in text[u] : a[1] <= u

SpeechInv ==
  SpeechTypeOK /\ NoSendOnClosed /\ ResolvesOnce /\ TranscribedOnce /\ FlushDrains
  /\ StreamsClosed /\ NoForeignTail

\* The worker never falls behind for good, even while the provider answers nothing:
\* the commit timeout and the batch adapter settle every utterance that has ended.
UtterancesSettle == []<>(\A u \in 1..uNow : u = uBuf \/ settled[u] # "none")

\* sttstream.go:27-28: one final per utterance, "from the commit on the happy path or
\* the batch fallback": what the batch adapter transcribed is in no streamed final.
TranscribedByOne ==
  \A u, v \in Speeches :
    settled[u] = "batch" /\ settled[v] = "streamed" => ({u} \X Parts) \cap text[v] = {}
=============================================================================
