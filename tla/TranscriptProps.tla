-------------------------- MODULE TranscriptProps --------------------------
(***************************************************************************)
(* What the two records of a session promise: the chunks hold what the     *)
(* room heard, and the lines that are counted at the session's end are the *)
(* lines that stay (ADR-0012, ADR-0040).                                   *)
(***************************************************************************)
EXTENDS Transcript

\* The open chunk holds only sentences the room heard to the end or, when the
\* turn was cut, began to hear; every such sentence is in the open chunk or in
\* one closed before, never in both (chunker.go commitDelivered, abortSentence,
\* closeChunk).
DeliveredOnce == \A t \in Turns :
  /\ phase # "flushed" => cLine[t] \subseteq heard[t]
  /\ heard[t] \subseteq cLine[t] \cup chunked[t]
  /\ cLine[t] \cap chunked[t] = {}

\* The utterances the open chunk counts are the ones it holds, so that it closes
\* neither early nor late (removeOpenLine, afterAppend).
CountIsEntries ==
  LET spoken == Cardinality({t \in Turns : cLine[t] # {}}) IN
    /\ spoken <= count /\ count <= spoken + human
    /\ window = "elapsed" => count < 2

\* The relay and the chunker agree on what of a running turn was delivered, each
\* from its own pairing of FirstAudio with TTSInvoked (relay.go and chunker.go
\* fold).
RecordsAgree == \A t \in Turns :
  phase \in {"live", "ended"} /\ ~over[t] =>
    /\ deliveredN[t] = Cardinality(heard[t])
    /\ pending[t] <=> cPending[t] # 0
    /\ line[t] /\ deliveredN[t] = 0 => t \in unconfirmed

TranscriptInv == TypeOK /\ DeliveredOnce /\ CountIsEntries /\ RecordsAgree

\* Once the lines are counted no Agent line is left of which nothing was
\* delivered, save those whose retraction was given up (relay.go retract,
\* finishSession).
NoUnheardLine ==
  counted # NoCount => \A t \in Turns \cap rows : deliveredN[t] > 0 \/ t \in undone

\* The count Finalize returns is that of the rows, whatever the writer and late
\* publishers still do (persist.go Finalize: "the authoritative line_count").
CountAuthoritative == counted # NoCount => counted = Cardinality(rows)

\* Both records, live and counted.
RecordInv == TranscriptInv /\ NoUnheardLine /\ CountAuthoritative

\* The writer outlives a flush nobody waits for any more: the queue is emptied
\* after the session's end (busproject/queue.go Flush, run).
QueueDrains == (phase = "flushed") ~> (queue = <<>>)

\* event.go:394-396, of TTSStreamFailed: "the Transcript Chunker retracts (or never
\* commits) the failed sentence so the Chunk grain agrees with Agent history": a
\* sentence that did not fail stays.
OnlyFailedRetracted == \A t \in Turns : heard[t] \subseteq cLine[t] \cup chunked[t]
=============================================================================
