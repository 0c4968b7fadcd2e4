------------------------------ MODULE MCRecords ------------------------------
(* From speech to the records a session leaves behind: a Speaker Lane and its *)
(* finals, the Transcript and its Chunks, the Knowledge Graph.  They share    *)
(* nothing here, so each behaviour exercises one, its focus, while the others *)
(* keep their initial states.                                                 *)
EXTENDS SpeechStream, TranscriptProps, KnowledgeGraph, TLC

CONSTANTS x1, p1, p2

\* A fact about a Node, and a Node of the same name.
Kinds == p1 :> "fact" @@ p2 :> "node"
About == p1 :> x1 @@ p2 :> x1

VARIABLE focus

RecordsInit ==
  /\ focus \in {"speech", "transcript", "knowledge"}
  /\ SpeechInit /\ Init /\ KnowledgeInit

RecordsNext ==
  /\ UNCHANGED focus
  /\ \/ /\ focus = "speech" /\ SpeechNext
        /\ UNCHANGED <<vars, knowledgeVars>>
     \/ /\ focus = "transcript" /\ Next
        /\ UNCHANGED <<speechVars, knowledgeVars>>
     \/ /\ focus = "knowledge" /\ KnowledgeNext
        /\ UNCHANGED <<speechVars, vars>>

\* The audio loop and whoever transcribes take their steps; of the provider and the
\* maintainer nothing is asked.
SpeechFairness ==
  /\ WF_speechVars(focus = "speech" /\ LoopStep)
  /\ WF_speechVars(focus = "speech" /\ TakeJob)
  /\ \A p \in Transcribers : WF_speechVars(focus = "speech" /\ TranscriberStep(p))

\* The writer and runLoop are goroutines that run; every store call has a deadline.
TranscriptFairness ==
  /\ WF_vars(focus = "transcript" /\ (Write \/ Barrier))
  /\ WF_vars(focus = "transcript"
             /\ (RelayCloses \/ FlushBegins \/ FlushTimesOut \/ ChunkerFlushes))

\* The embedders keep ticking; nobody needs to edit, propose or approve.
KnowledgeFairness ==
  \A w \in Embedders : WF_knowledgeVars(focus = "knowledge" /\ EmbedStep(w))

RecordsSpec ==
  /\ RecordsInit /\ [][RecordsNext]_<<focus, speechVars, vars, knowledgeVars>>
  /\ SpeechFairness /\ TranscriptFairness /\ KnowledgeFairness
-----------------------------------------------------------------------------
\* What is left to be written when nobody waits for it any more is written: the queue
\* of a session that is over (QueueDrains), and the embeddings of the Nodes whose
\* editors have gone (BacklogDrains).
RecordsDrain == QueueDrains /\ BacklogDrains
=============================================================================
