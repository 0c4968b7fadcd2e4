----------------------------- MODULE Transcript -----------------------------
(***************************************************************************)
(* The two records of what a voice session said: the relay's Transcript    *)
(* Lines (internal/transcript/relay.go, persist.go) and the chunker's      *)
(* Transcript Chunks (chunker.go), both folded from the process bus by the *)
(* shared projection and write queue (internal/busproject), up to the      *)
(* session's end as the Manager drives it (session/manager.go runLoop).    *)
(*                                                                         *)
(* A turn's goroutine publishes a sentence's TTSInvoked, its FirstAudio    *)
(* and perhaps its failure in this order; the floor may publish the turn's *)
(* TurnEnded at any moment from another goroutine.  Bus delivery is        *)
(* synchronous and a projection folds one event at a time under its lock,  *)
(* so publishing an event and folding it are one step.                     *)
(***************************************************************************)
EXTENDS Integers, FiniteSets, SequencesExt

CONSTANTS
  Turns,          \* Agent turns, each with a TurnID
  MaxSentences,   \* bound: sentences a turn dispatches
  MaxHuman,       \* bound: human utterances
  QueueCap,       \* persistQueue
  MaxUtterances,  \* ChunkerConfig.MaxUtterances
  StoreFails      \* whether an UPSERT or a DELETE may fail

ASSUME TranscriptAssumption ==
  /\ IsFiniteSet(Turns) /\ Turns \cap (1..MaxHuman) = {}
  /\ MaxSentences \in Nat /\ MaxHuman \in Nat /\ QueueCap \in Nat \ {0}
  /\ MaxUtterances \in Nat \ {0} /\ StoreFails \in BOOLEAN

Sentences == 1..MaxSentences
Utterances == 1..MaxHuman
Lines == Turns \cup Utterances     \* line ids: "a:<turn>" and "u:<n>"

VARIABLES
  said,         \* sentences a turn has dispatched
  mouth,        \* its current sentence: "none", "dispatched", "audible"
  over,         \* its TurnEnded is published
  human,        \* human utterances so far
  heard,        \* what the room heard: sentences with a FirstAudio and no failure
  \* the relay
  line, ended, pending, deliveredN,    \* turn
  unconfirmed,                         \* sessionState.unconfirmed
  queue, rows,                         \* the write queue and transcript_line
  undone,                              \* retractions given up: dropped at the end, or failed
  \* the chunker
  cEnded, cPending, cLine, lastCommitted,  \* chunkTurn: the dispatched sentence, its open line
  count, window,                       \* openChunk: utterances, its timer ("none": no chunk)
  chunked,                             \* sentences of chunks that are closed
  \* the session's end
  phase,        \* where runLoop stands
  seen,         \* the projections hold an entry for the session
  mid,          \* publishers that may still publish onto the process bus
  counted       \* what Finalize returned, NoCount when nothing

speech == <<said, mouth, over, human, heard>>
relay == <<line, ended, pending, deliveredN, unconfirmed>>
store == <<queue, rows, undone>>
chunker == <<cEnded, cPending, cLine, lastCommitted, count, window, chunked>>
end == <<phase, seen, mid, counted>>
vars == <<said, mouth, over, human, heard, line, ended, pending, deliveredN, unconfirmed,
          queue, rows, undone, cEnded, cPending, cLine, lastCommitted, count, window, chunked,
          phase, seen, mid, counted>>

\* Who publishes: a turn's goroutine, the floor, a Speaker Lane.
Publishers == Turns \cup {"floor", "lane"}
NoCount == -1
Phases == {"live", "ended", "closed", "flushing", "finalized", "flushed"}
Ops == [op : {"upsert"}, id : Lines] \cup [op : {"delete"}, id : Turns]
       \cup {[op |-> "barrier"]}

TypeOK ==
  /\ said \in [Turns -> 0..MaxSentences]
  /\ mouth \in [Turns -> {"none", "dispatched", "audible"}]
  /\ over \in [Turns -> BOOLEAN] /\ human \in 0..MaxHuman
  /\ heard \in [Turns -> SUBSET Sentences]
  /\ line \in [Turns -> BOOLEAN] /\ ended \in [Turns -> BOOLEAN]
  /\ pending \in [Turns -> BOOLEAN] /\ deliveredN \in [Turns -> 0..MaxSentences]
  /\ unconfirmed \subseteq Turns
  /\ queue \in Seq(Ops) /\ Len(queue) <= QueueCap
  /\ rows \subseteq Lines /\ undone \subseteq Turns
  /\ cEnded \in [Turns -> BOOLEAN]
  /\ cPending \in [Turns -> 0..MaxSentences] /\ lastCommitted \in [Turns -> 0..MaxSentences]
  /\ cLine \in [Turns -> SUBSET Sentences]
  /\ count \in 0..MaxUtterances /\ window \in {"none", "running", "elapsed"}
  /\ chunked \in [Turns -> SUBSET Sentences]
  /\ phase \in Phases /\ seen \in BOOLEAN /\ mid \subseteq Publishers
  /\ counted \in {NoCount} \cup 0..Cardinality(Lines)

Init ==
  /\ said = [t \in Turns |-> 0] /\ mouth = [t \in Turns |-> "none"]
  /\ over = [t \in Turns |-> FALSE] /\ human = 0 /\ heard = [t \in Turns |-> {}]
  /\ line = [t \in Turns |-> FALSE] /\ ended = [t \in Turns |-> FALSE]
  /\ pending = [t \in Turns |-> FALSE] /\ deliveredN = [t \in Turns |-> 0]
  /\ unconfirmed = {} /\ queue = <<>> /\ rows = {} /\ undone = {}
  /\ cEnded = [t \in Turns |-> FALSE] /\ cPending = [t \in Turns |-> 0]
  /\ cLine = [t \in Turns |-> {}] /\ lastCommitted = [t \in Turns |-> 0]
  /\ count = 0 /\ window = "none" /\ chunked = [t \in Turns |-> {}]
  /\ phase = "live" /\ seen = FALSE /\ mid = Publishers /\ counted = NoCount

-----------------------------------------------------------------------------
(* Queue: the tee never blocks, so an item that finds it full is dropped. *)

Room(n) == Len(queue) + n <= QueueCap

\* emitLine's tee; a dropped UPSERT is only logged.
Persist(id) ==
  queue' = IF Room(1) THEN Append(queue, [op |-> "upsert", id |-> id]) ELSE queue

\* The writer takes one item at a time; a failed write does not stop it.
Write ==
  /\ queue # <<>> /\ Head(queue).op # "barrier"
  /\ queue' = Tail(queue)
  /\ LET item == Head(queue) IN
       \/ /\ rows' = IF item.op = "upsert" THEN rows \cup {item.id} ELSE rows \ {item.id}
          /\ UNCHANGED undone
       \/ /\ StoreFails /\ UNCHANGED rows
          /\ undone' = IF item.op = "delete" THEN undone \cup {item.id} ELSE undone
  /\ UNCHANGED <<speech, relay, chunker, end>>

-----------------------------------------------------------------------------
(* Projection: the first event of a session that still resolves creates its *)
(* entry, Close deletes it, and a tombstone keeps a straggler from creating  *)
(* it anew.                                                                  *)

\* After the bridge is cut only an event whose publish had begun is delivered.
Publishes(p) ==
  /\ p \in mid /\ phase # "flushed"
  /\ mid' = IF phase = "live" THEN mid ELSE mid \ {p}
  /\ seen' = (seen \/ phase = "live")
  /\ UNCHANGED <<phase, counted>>

\* Mutated: Finalize drains the queue before it closes the projection.
OpenUntilCounted == seen' /\ phase \in {"live", "ended", "closed", "flushing", "finalized"}

RelayFolds == seen' /\ phase \in {"live", "ended"}
ChunkerFolds == seen' /\ phase # "flushed"

-----------------------------------------------------------------------------
(* The chunker's open chunk *)

\* closeChunk: the chunk is teed and its turns are detached, so that a turn's
\* next sentence opens a line in the next chunk.
CloseChunk(lines) ==
  /\ chunked' = [t \in Turns |-> chunked[t] \cup lines[t]]
  /\ cLine' = [t \in Turns |-> {}]
  /\ count' = 0 /\ window' = "none"

\* ensureOpen, the new utterance, afterAppend.
Append1(lines) ==
  IF count + 1 >= MaxUtterances \/ (count + 1 >= 2 /\ window = "elapsed")
  THEN CloseChunk(lines)
  ELSE /\ cLine' = lines /\ count' = count + 1 /\ UNCHANGED chunked
       /\ window' = IF window = "none" THEN "running" ELSE window

\* The window's timer; a lone utterance stays open.
WindowElapses ==
  /\ window = "running"
  /\ IF count >= 2 THEN CloseChunk(cLine)
     ELSE window' = "elapsed" /\ UNCHANGED <<cLine, count, chunked>>
  /\ UNCHANGED <<speech, relay, store, cEnded, cPending, lastCommitted, end>>

-----------------------------------------------------------------------------
(* The folds.  Each changes the relay's state if the relay still folds and   *)
(* the chunker's if the chunker does.                                        *)

\* STTFinal
Human ==
  /\ human < MaxHuman /\ human' = human + 1 /\ Publishes("lane")
  /\ IF RelayFolds THEN Persist(human') ELSE UNCHANGED queue
  /\ IF ChunkerFolds THEN Append1(cLine) ELSE UNCHANGED <<cLine, count, window, chunked>>
  /\ UNCHANGED <<said, mouth, over, heard, relay, rows, undone, cEnded, cPending, lastCommitted>>

\* bufferAgentSentence: one still pending start-errored and is superseded.
CBuffer(t) == [cPending EXCEPT ![t] = said'[t]]

\* TTSInvoked: the line's row is provisional until a sentence is delivered.
Dispatch(t) ==
  /\ mouth[t] = "none" /\ said[t] < MaxSentences /\ Publishes(t)
  /\ said' = [said EXCEPT ![t] = @ + 1] /\ mouth' = [mouth EXCEPT ![t] = "dispatched"]
  /\ IF RelayFolds /\ ~ended[t]
     THEN /\ line' = [line EXCEPT ![t] = TRUE]
          /\ pending' = [pending EXCEPT ![t] = TRUE]
          /\ unconfirmed' = IF deliveredN[t] = 0 THEN unconfirmed \cup {t} ELSE unconfirmed
          /\ Persist(t)
     ELSE UNCHANGED <<line, pending, unconfirmed, queue>>
  /\ cPending' = IF ChunkerFolds /\ ~cEnded[t] THEN CBuffer(t) ELSE cPending
  /\ UNCHANGED <<over, human, heard, ended, deliveredN, rows, undone, cEnded, cLine,
                 lastCommitted, count, window, chunked>>

\* commitDelivered: the turn's first delivered sentence opens its utterance.
Commit(t) ==
  /\ cPending' = [cPending EXCEPT ![t] = 0]
  /\ lastCommitted' = [lastCommitted EXCEPT ![t] = cPending[t]]
  /\ LET lines == [cLine EXCEPT ![t] = @ \cup {cPending[t]}] IN
       IF cLine[t] = {} THEN Append1(lines)
       ELSE cLine' = lines /\ UNCHANGED <<count, window, chunked>>

\* FirstAudio
FirstAudio(t) ==
  /\ mouth[t] = "dispatched" /\ Publishes(t)
  /\ mouth' = [mouth EXCEPT ![t] = "audible"]
  /\ heard' = IF over[t] THEN heard ELSE [heard EXCEPT ![t] = @ \cup {said[t]}]
  /\ IF RelayFolds /\ pending[t]
     THEN /\ pending' = [pending EXCEPT ![t] = FALSE]
          /\ deliveredN' = [deliveredN EXCEPT ![t] = @ + 1]
          /\ unconfirmed' = unconfirmed \ {t}
     ELSE UNCHANGED <<pending, deliveredN, unconfirmed>>
  /\ IF ChunkerFolds /\ cPending[t] # 0 THEN Commit(t)
     ELSE UNCHANGED <<cPending, lastCommitted, cLine, count, window, chunked>>
  /\ UNCHANGED <<said, over, human, line, ended, store, cEnded>>

\* The relay takes a failed sentence back: the turn's only one makes the row
\* provisional again.
Uncount(t) ==
  /\ pending' = [pending EXCEPT ![t] = FALSE]
  /\ deliveredN' = IF ~pending[t] /\ deliveredN[t] > 0
                   THEN [deliveredN EXCEPT ![t] = @ - 1] ELSE deliveredN
  /\ unconfirmed' = IF ~pending[t] /\ deliveredN'[t] = 0 /\ line[t]
                    THEN unconfirmed \cup {t} ELSE unconfirmed

\* abortSentence, for a sentence that is in the open chunk; one in a chunk that
\* is closed is there for good.
RetractCommitted(t) ==
  /\ cLine' = [cLine EXCEPT ![t] = @ \ {lastCommitted[t]}]
  /\ count' = IF cLine[t] = {lastCommitted[t]} THEN count - 1 ELSE count

\* The event names the turn only: the relay and the chunker take it for the
\* sentence they have last heard of.
FoldFailure(t) ==
  /\ IF RelayFolds /\ ~ended[t] THEN Uncount(t)
     ELSE UNCHANGED <<pending, deliveredN, unconfirmed>>
  /\ IF ChunkerFolds /\ ~cEnded[t]
     THEN IF cPending[t] # 0
          THEN cPending' = [cPending EXCEPT ![t] = 0] /\ UNCHANGED <<lastCommitted, cLine, count>>
          ELSE /\ lastCommitted' = [lastCommitted EXCEPT ![t] = 0]
               /\ UNCHANGED cPending
               /\ IF lastCommitted[t] \in cLine[t] THEN RetractCommitted(t)
                  ELSE UNCHANGED <<cLine, count>>
     ELSE UNCHANGED <<cPending, lastCommitted, cLine, count>>

\* TTSStreamFailed, before the first audio or after it.
StreamFailed(t) ==
  /\ mouth[t] # "none" /\ Publishes(t)
  /\ mouth' = [mouth EXCEPT ![t] = "none"]
  /\ heard' = IF over[t] THEN heard ELSE [heard EXCEPT ![t] = @ \ {said[t]}]
  /\ FoldFailure(t)
  /\ UNCHANGED <<said, over, human, line, ended, store, cEnded, window, chunked>>

\* The same event for the sentence held behind the one that plays: its stream dies
\* before its first chunk, so before it is announced.
HeldFails(t) ==
  /\ mouth[t] = "audible" /\ ~over[t] /\ said[t] < MaxSentences /\ Publishes(t)
  /\ FoldFailure(t)
  /\ UNCHANGED <<speech, line, ended, store, cEnded, window, chunked>>

\* A synthesis that does not start and a sentence that is played out publish nothing.
SentenceOver(t) ==
  /\ mouth[t] # "none"
  /\ mouth' = [mouth EXCEPT ![t] = "none"]
  /\ UNCHANGED <<said, over, human, heard, relay, store, chunker, end>>

\* TurnEnded, from the floor or the turn itself; a turn that said all it had
\* publishes none.  A row nothing of was delivered is taken back, unless the
\* queue is full: then it stays in the reconcile set.
TurnEnded(t, p) ==
  /\ said[t] > 0 /\ ~over[t] /\ (p = t => mouth[t] = "none") /\ Publishes(p)
  /\ over' = [over EXCEPT ![t] = TRUE]
  /\ IF RelayFolds
     THEN /\ ended' = [ended EXCEPT ![t] = TRUE]
          /\ IF deliveredN[t] = 0 /\ t \in unconfirmed /\ Room(1)
             THEN /\ queue' = Append(queue, [op |-> "delete", id |-> t])
                  /\ unconfirmed' = unconfirmed \ {t}
             ELSE UNCHANGED <<queue, unconfirmed>>
     ELSE UNCHANGED <<ended, queue, unconfirmed>>
  /\ IF ChunkerFolds
     THEN /\ cEnded' = [cEnded EXCEPT ![t] = TRUE]
          /\ cPending' = [cPending EXCEPT ![t] = 0]
     ELSE UNCHANGED <<cEnded, cPending>>
  /\ UNCHANGED <<said, mouth, human, heard, line, pending, deliveredN, rows, undone, cLine,
                 lastCommitted, count, window, chunked>>

-----------------------------------------------------------------------------
(* The session's end: runLoop closes one projection after the other. *)

Goto(p) == phase' = p /\ UNCHANGED <<seen, counted>>

\* as.ended and stopForward.
LoopEnds ==
  /\ phase = "live" /\ Goto("ended")
  /\ mid' \in SUBSET Publishers
  /\ UNCHANGED <<speech, relay, store, chunker>>

\* Finalize closes the projection: the last reconcile pass tees as many
\* retractions as the queue has room for.
RelayCloses ==
  /\ phase = "ended" /\ Goto("closed")
  /\ \E S \in SUBSET unconfirmed :
       /\ Room(Cardinality(S)) /\ (S = unconfirmed \/ ~Room(Cardinality(S) + 1))
       /\ queue' = queue \o SetToSeq({[op |-> "delete", id |-> t] : t \in S})
       /\ undone' = undone \cup (unconfirmed \ S)
  /\ unconfirmed' = {}
  /\ UNCHANGED <<line, ended, pending, deliveredN, rows, mid, speech, chunker>>

\* ... and sends the barrier after them.
FlushBegins ==
  /\ phase = "closed" /\ Room(1) /\ Goto("flushing")
  /\ queue' = Append(queue, [op |-> "barrier"])
  /\ UNCHANGED <<speech, relay, rows, undone, chunker, mid>>

\* The writer reaches the barrier and counts, if Finalize still waits.
Barrier ==
  /\ queue # <<>> /\ Head(queue).op = "barrier"
  /\ queue' = Tail(queue)
  /\ IF phase = "flushing"
     THEN /\ phase' = "finalized" /\ UNCHANGED seen
          /\ \/ counted' = Cardinality(rows)
             \/ StoreFails /\ UNCHANGED counted
     ELSE UNCHANGED <<phase, seen, counted>>
  /\ UNCHANGED <<speech, relay, rows, undone, chunker, mid>>

\* endTimeout, on the full queue or on the barrier: the row gets its old count.
FlushTimesOut ==
  /\ phase \in {"closed", "flushing"} /\ Goto("finalized")
  /\ UNCHANGED <<speech, relay, store, chunker, mid>>

\* FlushSession closes the open chunk, however short, and the projection.
ChunkerFlushes ==
  /\ phase = "finalized" /\ Goto("flushed")
  /\ CloseChunk(cLine)
  /\ UNCHANGED <<speech, relay, store, cEnded, cPending, lastCommitted, mid>>

-----------------------------------------------------------------------------
Next ==
  \/ Human \/ Write \/ WindowElapses
  \/ \E t \in Turns :
       \/ Dispatch(t) \/ FirstAudio(t) \/ StreamFailed(t) \/ SentenceOver(t)
       \/ TurnEnded(t, t) \/ TurnEnded(t, "floor")
  \/ LoopEnds \/ RelayCloses \/ FlushBegins \/ Barrier \/ FlushTimesOut \/ ChunkerFlushes

Spec == Init /\ [][Next]_vars

\* Turns that synthesize their next sentence while one plays (SpeechPipeline).
PipelinedNext == Next \/ \E t \in Turns : HeldFails(t)
PipelinedSpec == Init /\ [][PipelinedNext]_vars
=============================================================================
