----------------------------- MODULE Turns_proofs -----------------------------
(*************************************************************************)
(* Proofs about a turn of an Agent: its generation (AgentTurn), the      *)
(* sentences it speaks through the pump (SpeechPipeline) and the         *)
(* Reaction of a second Agent (CrossTalk). For any number of rounds,     *)
(* attempts and sentences.                                               *)
(*************************************************************************)
EXTENDS AgentTurn, SharedProps, TLAPS

-------------------------------------------------------------------------------
(*************************************************************************)
(* The generation. AgentInv speaks of what was spoken, remembered and    *)
(* paid; GenerationSound says how far a turn can be when that holds.     *)
(*************************************************************************)

\* Who is still generating has no reply yet; the recorder and the history agree; a
\* round that calls Tools has budget left; the later attempts of a round are disarmed.
GenerationSound ==
  /\ gStep = "over" <=> gReply # "none"
  /\ gRolled = gThrown
  /\ gStep = "tools" => gRound < MaxRounds /\ gFailed < NoProgressRounds
  /\ gStep \in {"again", "attempt"} /\ gTry >= 3 => gChoice = "none"
  /\ gStep = "attempt" => gTry <= 4

\* AgentInv, and how far the turn is.
GenerationInv == AgentInv /\ GenerationSound

\* Every attempt, round, retry and cut of a turn keeps the invariant.
LEMMA GenerationKept ==
  ASSUME GenerationInv, AgentNext
  PROVE  GenerationInv'
<1> USE AgentTurnAssumption
<1> USE DEF GenerationInv, AgentInv, GenerationSound, AgentTypeOK, NoInventedRoll,
  NeverRespoken,
            WithinBudget, UsageKept, turn, round, conversation, MaxForcedRegens,
              NoProgressRounds,
            Claims, NoClaim, Fail
<1>1. CASE BeginRound
  <2>1. AgentTypeOK'
    <3>1. ({gTools, gArmed, gLive, gCut, gFinal, gHistory, gForwarded} \subseteq BOOLEAN)'
      BY <1>1 DEF BeginRound
    <3>2. (/\ gStep \in {"round", "attempt", "again", "tools", "text", "over"}
           /\ gRun \in 0..MaxForcedRegens /\ gRound \in 0..MaxRounds + 1
           /\ gFailed \in 0..NoProgressRounds)'
      BY <1>1 DEF BeginRound
    <3>3. (/\ gTry \in 1..4 /\ gChoice \in {"auto", "dice", "none"}
           /\ gRolled \subseteq Faces /\ gThrown \subseteq Faces /\ gClaim \in Claims
                /\ gMetered \in 0..2
           /\ gReply \in {"none", "failed", "plain", "claim"})'
      BY <1>1 DEF BeginRound
    <3> QED BY <3>1, <3>2, <3>3
  <2>2. NoInventedRoll' /\ NeverRespoken' /\ WithinBudget' /\ UsageKept' /\ GenerationSound'
    BY <1>1 DEF BeginRound
  <2> QED BY <2>1, <2>2
<1>2. CASE AttemptRejected
  BY <1>2 DEF AttemptRejected, Recordings, Retries, Malformed
<1>3. CASE TryAgain
  BY <1>3 DEF TryAgain
<1>4. CASE AttemptFails
  BY <1>4 DEF AttemptFails
<1>5. CASE AttemptSucceeds
  <2>1. AgentTypeOK'
    <3>1. ({gTools, gArmed, gLive, gCut, gFinal, gHistory, gForwarded} \subseteq BOOLEAN)'
      BY <1>5 DEF AttemptSucceeds
    <3>2. (/\ gStep \in {"round", "attempt", "again", "tools", "text", "over"}
           /\ gRun \in 0..MaxForcedRegens /\ gRound \in 0..MaxRounds + 1
           /\ gFailed \in 0..NoProgressRounds)'
      BY <1>5 DEF AttemptSucceeds
    <3>3. (/\ gTry \in 1..4 /\ gChoice \in {"auto", "dice", "none"}
           /\ gRolled \subseteq Faces /\ gThrown \subseteq Faces /\ gClaim \in Claims
                /\ gMetered \in 0..2
           /\ gReply \in {"none", "failed", "plain", "claim"})'
      BY <1>5 DEF AttemptSucceeds
    <3> QED BY <3>1, <3>2, <3>3
  <2>2. NoInventedRoll' /\ NeverRespoken' /\ WithinBudget' /\ UsageKept' /\ GenerationSound'
    BY <1>5 DEF AttemptSucceeds
  <2> QED BY <2>1, <2>2
<1>6. CASE RunTools
  BY <1>6 DEF RunTools
<1>7. CASE Regenerate
  <2>1. AgentTypeOK'
    <3>1. ({gTools, gArmed, gLive, gCut, gFinal, gHistory, gForwarded} \subseteq BOOLEAN)'
      BY <1>7 DEF Regenerate
    <3>2. (/\ gStep \in {"round", "attempt", "again", "tools", "text", "over"}
           /\ gRun \in 0..MaxForcedRegens /\ gRound \in 0..MaxRounds + 1
           /\ gFailed \in 0..NoProgressRounds)'
      BY <1>7 DEF Regenerate
    <3>3. (/\ gTry \in 1..4 /\ gChoice \in {"auto", "dice", "none"}
           /\ gRolled \subseteq Faces /\ gThrown \subseteq Faces /\ gClaim \in Claims
                /\ gMetered \in 0..2
           /\ gReply \in {"none", "failed", "plain", "claim"})'
      BY <1>7 DEF Regenerate
    <3> QED BY <3>1, <3>2, <3>3
  <2>2. NoInventedRoll' /\ NeverRespoken' /\ WithinBudget' /\ UsageKept' /\ GenerationSound'
    BY <1>7 DEF Regenerate
  <2> QED BY <2>1, <2>2
<1>8. CASE KeepsContradicting
  BY <1>8 DEF KeepsContradicting
<1>9. CASE Deliver
  BY <1>9 DEF Deliver, Discard, Consistent
<1>10. CASE CutReply
  BY <1>10 DEF CutReply
<1> QED BY <1>1, <1>2, <1>3, <1>4, <1>5, <1>6, <1>7, <1>8, <1>9, <1>10 DEF AgentNext,
               AgentStep

\* However attempts fail, Tools run or the turn is cut, the reply is spoken once and the
\* history and the ledger say what happened (agent.go), for any number of rounds.
THEOREM AgentSafe == AgentSpec => []AgentInv
<1>1. AgentInit => GenerationInv
  <2> SUFFICES ASSUME AgentInit PROVE GenerationInv
    OBVIOUS
  <2> USE AgentTurnAssumption DEF AgentInit
  <2>1. AgentTypeOK
    <3> USE DEF AgentTypeOK, MaxForcedRegens, NoProgressRounds, Claims, NoClaim
    <3>1. ({gTools, gArmed, gLive, gCut, gFinal, gHistory, gForwarded} \subseteq BOOLEAN)
      OBVIOUS
    <3>2. (/\ gStep \in {"round", "attempt", "again", "tools", "text", "over"}
           /\ gRun \in 0..MaxForcedRegens /\ gRound \in 0..MaxRounds + 1
           /\ gFailed \in 0..NoProgressRounds)
      OBVIOUS
    <3>3. (/\ gTry \in 1..4 /\ gChoice \in {"auto", "dice", "none"}
           /\ gRolled \subseteq Faces /\ gThrown \subseteq Faces /\ gClaim \in Claims
                /\ gMetered \in 0..2
           /\ gReply \in {"none", "failed", "plain", "claim"})
      OBVIOUS
    <3> QED BY <3>1, <3>2, <3>3
  <2> QED BY <2>1 DEF GenerationInv, AgentInv, GenerationSound, NoInventedRoll,
                 NeverRespoken,
                WithinBudget, UsageKept, NoProgressRounds
<1>2. GenerationInv /\ UNCHANGED agentVars => GenerationInv'
  BY DEF GenerationInv, AgentInv, GenerationSound, AgentTypeOK, NoInventedRoll,
         NeverRespoken,
            WithinBudget, UsageKept, agentVars, turn, round, conversation
<1>3. GenerationInv => AgentInv
  BY DEF GenerationInv
<1> QED BY <1>1, <1>2, <1>3, GenerationKept, PTL DEF AgentSpec
-------------------------------------------------------------------------------
(*************************************************************************)
(* The pipeline. That sentences are announced and play in their order is *)
(* not inductive. SpeakingInv says why it holds: a sentence is           *)
(* dispatched after the one before the last has resolved, each dispatch  *)
(* and its job in the pump go in step, a lane is announced, held or      *)
(* latched but never two of these, and what may still play comes after   *)
(* what has.                                                             *)
(*************************************************************************)

\* The producer goes sentence by sentence: those before the last have resolved, but for
\* the one it waits for.
Pipelined ==
  /\ pSaid <= MaxSpoken
  /\ \A s \in Spoken : s > pSaid <=> pRun[s] = "none"
  /\ \A s \in Spoken : s < pSaid => Resolved(s) \/ (pPc = "waiting" /\ s = pSaid - 1)
  /\ pPc \in {"waiting", "releasing", "handing"} => pSaid >= 2
  /\ pPc = "handing" => pJob[pSaid] \in {"enqueueing", "sending"}
  /\ pPc \in {"flushing", "finished"} => \A s \in Spoken : s <= pSaid => Resolved(s)
       \/ pFallback
  /\ pFallback => pSaid = 1 /\ pPc \in {"flushing", "finished"}

\* How far the announcements are, and what those before the last have come to.
AnnouncedSoFar ==
  LET n == Len(pAnnounced) IN
  /\ n <= pSaid
  /\ pSaid > 0 => pRun[1] \in (IF n = 0 THEN {"spawned", "cut"}
                               ELSE {"starting", "streaming", "drained", "broken",
                                     "delivered", "failed", "cut"})
  /\ pPc \in {"generating", "releasing", "handing"} /\ pSaid >= 2 => n = pSaid
  /\ pPc = "waiting" => n = pSaid - 1 \/ (pSaid = 2 /\ n = 0)
  /\ \A s \in Spoken : s < n => pRun[s] \in {"delivered", "failed"}

\* A sentence's chunks exist once its stream has started; until they are handed to the
\* pump their forwarder does not run.
JobsFollowRuns == \A s \in Spoken :
  /\ pRun[s] \in {"none", "spawned", "starting"} => pJob[s] = "none"
  /\ pRun[s] \in {"streaming", "drained", "broken", "delivered"} => pJob[s] # "none"
  /\ pJob[s] \in {"priming", "enqueueing", "sending"} =>
       pRun[s] = "streaming" \/ (pPc = "handing" /\ s = pSaid /\ pJob[s] # "priming")
  /\ pJob[s] \in {"priming", "lane"} => s >= 2
  /\ pRun[s] = "cut" => pCut
  /\ pRun[s] \in {"drained", "delivered"} =>
       pJob[s] \in {"playing", "draining", "over"} \/ (pCut /\ pRun[s] = "drained")
  /\ pJob[s] \in {"enqueueing", "sending", "queued"} => s <= Len(pAnnounced)

\* Whoever has been spawned and has not come to the lane yet.
Coming(s) == pRun[s] \in {"spawned", "starting"} \/ pJob[s] = "priming"

\* One lane, one slot in the queue; whoever has been released and has not come to the lane
\* yet will find the latch set.
LaneAndLatch ==
  /\ \A s \in Spoken : pJob[s] = "lane" <=> s = pLane
  /\ \A s, j \in Spoken : pJob[s] = "queued" /\ pJob[j] = "queued" => s = j
  /\ pLatch # 0 => pLatch >= 2 /\ pLatch <= Len(pAnnounced)
  /\ ~pStopped =>
       /\ pLatch # 0 => /\ pLatch = IF pPc = "waiting" THEN pSaid - 1 ELSE pSaid
                        /\ pPc \notin {"releasing", "finished"}
                        /\ pRun[pLatch] # "delivered"
                        /\ pCut \/ pJob[pLatch] \in {"none", "priming"}
       /\ pPc \in {"waiting", "releasing"} =>
            \/ pJob[pSaid] \in {"none", "priming", "lane"}
            \/ pCut /\ pJob[pSaid] = "draining" /\ pRun[pSaid] # "delivered"
       /\ \A s \in Spoken :
            s >= 2 /\ Coming(s) /\ (s < pSaid \/ pPc \notin {"waiting", "releasing"}) =>
              pLatch = s \/ pCut

\* What may still play.
Unplayed(s) ==
  pRun[s] \in {"none", "spawned", "starting"}
  \/ pJob[s] \in {"priming", "lane", "enqueueing", "sending", "queued"}

\* What may still play comes after everything that has played.
PlaysAscend ==
  ~pStopped => \A s \in Spoken : Unplayed(s) => \A i \in DOMAIN pPlayed : pPlayed[i] < s

\* Nobody but the player reads chunks of a turn that goes on, unless it cannot.
ReadByPlayer == \A s \in Spoken :
  /\ pJob[s] = "draining" => s \in pUnread \/ pCut \/ pStopped
  /\ pRun[s] = "drained" => s \in pHeard \cup pUnread \/ pCut \/ pStopped

\* PipelineInv, and how the producer, the sentences and the pump stand to each other.
SpeakingInv ==
  /\ PipelineInv /\ Pipelined /\ AnnouncedSoFar /\ JobsFollowRuns /\ LaneAndLatch
  /\ PlaysAscend /\ ReadByPlayer

\* What Append gives: its length, its domain and its elements.
LEMMA AppendGives ==
  ASSUME NEW S, NEW s \in Seq(S), NEW x \in S
  PROVE  /\ Append(s, x) \in Seq(S) /\ Len(s) \in Nat /\ Len(Append(s, x)) = Len(s) + 1
         /\ DOMAIN s = 1..Len(s) /\ DOMAIN Append(s, x) = 1..(Len(s) + 1)
         /\ Append(s, x)[Len(s) + 1] = x
         /\ \A i \in 1..Len(s) : Append(s, x)[i] = s[i]
  OBVIOUS

USE PipelineAssumption

\* While a sentence of it is unresolved, a turn has not finished.
LEMMA UnresolvedGoesOn ==
  ASSUME SpeakingInv, NEW s \in Spoken, ~Resolved(s), pRun[s] # "none"
  PROVE  pPc # "finished" /\ s <= pSaid /\ s \in 1..pSaid
<1> USE DEF SpeakingInv, PipelineInv, Spoken, PipelineTypeOK
<1>1. s <= pSaid /\ s \in 1..pSaid
  BY DEF Pipelined
<1> QED BY <1>1 DEF CleanFinish

\* Of two sentences on their way into the pump, the earlier has failed: nobody announces the
\* later before the earlier has resolved.
LEMMA QueuedHasFailed ==
  ASSUME SpeakingInv, NEW i \in Spoken, NEW j \in Spoken,
         i # j,
         pJob[i] \in {"enqueueing", "sending"}, pJob[j] \in {"enqueueing", "sending",
               "queued"}
  PROVE  pRun[j] = "failed"
<1> USE DEF SpeakingInv, PipelineInv, Spoken
<1>1. i <= Len(pAnnounced) /\ j <= Len(pAnnounced) /\ i # j /\ Len(pAnnounced) \in Nat
  BY DEF JobsFollowRuns, PipelineTypeOK
<1>2. CASE j < i
  BY <1>1, <1>2 DEF AnnouncedSoFar, JobsFollowRuns
<1>3. CASE i < j
  <2>1. pRun[i] \in {"delivered", "failed"} /\ i # pSaid
    BY <1>1, <1>3 DEF AnnouncedSoFar, PipelineTypeOK
  <2> QED BY <2>1 DEF JobsFollowRuns
<1> QED BY <1>1, <1>2, <1>3

\* What waits in the queue comes before everything else that may still play.
LEMMA QueuedIsNext ==
  ASSUME SpeakingInv, ~pStopped, NEW s \in Spoken, NEW j \in Spoken,
         pJob[s] = "queued", Unplayed(j), j # s
  PROVE  s < j
<1> USE DEF SpeakingInv, PipelineInv, Spoken
<1> SUFFICES ASSUME j < s PROVE FALSE
  OBVIOUS
<1>1. s <= Len(pAnnounced) /\ Len(pAnnounced) \in Nat /\ Len(pAnnounced) <= pSaid
      /\ pSaid \in Nat
  BY DEF JobsFollowRuns, PipelineTypeOK, AnnouncedSoFar
<1>2. pRun[j] \in {"delivered", "failed"} /\ j < pSaid
  BY <1>1 DEF AnnouncedSoFar
<1>3. pJob[j] = "lane"
  <2>1. pJob[j] # "queued"
    BY DEF LaneAndLatch
  <2> QED BY <1>2, <2>1 DEF Unplayed, JobsFollowRuns
<1> QED BY <1>2, <1>3 DEF LaneAndLatch, OneAhead

\* The producer dispatches a sentence after it has waited for the one before.
LEMMA DispatchSentenceKeeps ==
  ASSUME SpeakingInv, DispatchSentence
  PROVE  SpeakingInv'
<1> USE DEF SpeakingInv, PipelineInv, Spoken
<1>0. /\ UNCHANGED <<pGenErr, pFallback, pHistory, pReason, pLane, pLatch, pStopped,
                     pWorker, pCut, pJob, pAnnounced, pPlayed, pHeard, pUnread, pCommitted>>
      /\ pPc = "generating" /\ pSaid < MaxSpoken /\ pSaid \in Nat /\ pSaid' = pSaid + 1
      /\ pRun' = [pRun EXCEPT ![pSaid + 1] = "spawned"]
      /\ \A j \in Spoken : pRun'[j] = IF j = pSaid + 1 THEN "spawned" ELSE pRun[j]
      /\ pPc' = IF pSaid = 0 THEN "generating" ELSE "waiting"
      /\ pRun[pSaid + 1] = "none" /\ pJob[pSaid + 1] = "none"
      /\ pRun[pSaid + 1] = "none" /\ Len(pAnnounced) \in Nat
  BY DEF DispatchSentence, Becomes, Moves, Resolved, Key, sentenceOnly, pumpOnly, producer,
         pump, PipelineTypeOK, Pipelined, JobsFollowRuns
<1>1. PipelineTypeOK'
  BY <1>0 DEF PipelineTypeOK, Pipelined
<1>2. SpeaksInOrder'
  BY <1>0 DEF SpeaksInOrder, AnnouncedSoFar, PlaysAscend, JobsFollowRuns, Unplayed,
         Pipelined, PipelineTypeOK
<1>3. OneAhead'
  BY <1>0 DEF OneAhead, JobsFollowRuns, LaneAndLatch, AnnouncedSoFar, Pipelined, Resolved,
         Coming, PipelineTypeOK
<1>4. CommittedHeard'
  BY <1>0 DEF CommittedHeard, ReadByPlayer, JobsFollowRuns, PipelineTypeOK
<1>5. HistoryComplete'
  BY <1>0 DEF HistoryComplete, Pipelined, Resolved, PipelineTypeOK
<1>6. CleanFinish'
  BY <1>0 DEF CleanFinish, Pipelined, Resolved, LaneAndLatch, OneAhead, PipelineTypeOK
<1>7. Pipelined'
  BY <1>0 DEF Pipelined, Resolved, JobsFollowRuns, PipelineTypeOK
<1>8. AnnouncedSoFar'
  BY <1>0 DEF AnnouncedSoFar, Pipelined, JobsFollowRuns, Resolved, CleanFinish,
         LaneAndLatch, PipelineTypeOK
<1>9. JobsFollowRuns'
  BY <1>0 DEF JobsFollowRuns, Pipelined, AnnouncedSoFar, LaneAndLatch, Resolved,
         PipelineTypeOK
<1>10. LaneAndLatch'
  BY <1>0 DEF LaneAndLatch, JobsFollowRuns, OneAhead, Pipelined, AnnouncedSoFar, Resolved,
         Coming, PipelineTypeOK
<1>11. PlaysAscend'
  BY <1>0 DEF PlaysAscend, Unplayed, SpeaksInOrder, JobsFollowRuns, Pipelined,
         AnnouncedSoFar, LaneAndLatch, OneAhead, Resolved, PipelineTypeOK
<1>12. ReadByPlayer'
  BY <1>0 DEF ReadByPlayer, JobsFollowRuns, OneAhead, LaneAndLatch, Pipelined, Resolved,
         CleanFinish, Coming, PipelineTypeOK
<1> QED BY <1>1, <1>2, <1>3, <1>4, <1>5, <1>6, <1>7, <1>8, <1>9, <1>10, <1>11, <1>12

\* The completion ends; what was dispatched goes on.
LEMMA GenerationEndsKeeps ==
  ASSUME SpeakingInv, GenerationEnds
  PROVE  SpeakingInv'
<1> USE DEF SpeakingInv, PipelineInv, Spoken
<1>0. /\ UNCHANGED <<pSaid, pFallback, pHistory, pReason, pLane, pLatch, pStopped, pWorker,
                     pCut, pRun, pJob, pAnnounced, pPlayed, pHeard, pUnread, pCommitted>>
      /\ pPc = "generating" /\ pPc' = "draining" /\ pGenErr' \in BOOLEAN
  BY DEF GenerationEnds, Becomes, Moves, Resolved, Key, sentenceOnly, pumpOnly, producer,
         pump, PipelineTypeOK, Pipelined, JobsFollowRuns
<1>1. PipelineTypeOK'
  BY <1>0 DEF PipelineTypeOK, Pipelined
<1>2. SpeaksInOrder'
  BY <1>0 DEF SpeaksInOrder, AnnouncedSoFar, PlaysAscend, JobsFollowRuns, Unplayed,
         Pipelined, PipelineTypeOK
<1>3. OneAhead'
  BY <1>0 DEF OneAhead, JobsFollowRuns, LaneAndLatch, AnnouncedSoFar, Pipelined, Resolved,
         Coming, PipelineTypeOK
<1>4. CommittedHeard'
  BY <1>0 DEF CommittedHeard, ReadByPlayer, JobsFollowRuns, PipelineTypeOK
<1>5. HistoryComplete'
  BY <1>0 DEF HistoryComplete, Pipelined, Resolved, PipelineTypeOK
<1>6. CleanFinish'
  BY <1>0 DEF CleanFinish, Pipelined, Resolved, LaneAndLatch, OneAhead, PipelineTypeOK
<1>7. Pipelined'
  BY <1>0 DEF Pipelined, Resolved, JobsFollowRuns, PipelineTypeOK
<1>8. AnnouncedSoFar'
  BY <1>0 DEF AnnouncedSoFar, Pipelined, JobsFollowRuns, Resolved, CleanFinish,
         LaneAndLatch, PipelineTypeOK
<1>9. JobsFollowRuns'
  BY <1>0 DEF JobsFollowRuns, Pipelined, AnnouncedSoFar, LaneAndLatch, Resolved,
         PipelineTypeOK
<1>10. LaneAndLatch'
  BY <1>0 DEF LaneAndLatch, JobsFollowRuns, OneAhead, Pipelined, AnnouncedSoFar, Resolved,
         Coming, PipelineTypeOK
<1>11. PlaysAscend'
  BY <1>0 DEF PlaysAscend, Unplayed, SpeaksInOrder, JobsFollowRuns, Pipelined,
         AnnouncedSoFar, LaneAndLatch, OneAhead, Resolved, PipelineTypeOK
<1>12. ReadByPlayer'
  BY <1>0 DEF ReadByPlayer, JobsFollowRuns, OneAhead, LaneAndLatch, Pipelined, Resolved,
         CleanFinish, Coming, PipelineTypeOK
<1> QED BY <1>1, <1>2, <1>3, <1>4, <1>5, <1>6, <1>7, <1>8, <1>9, <1>10, <1>11, <1>12

\* A dispatch begins: the first sentence is announced by it, a later one is held.
LEMMA BeginKeeps ==
  ASSUME SpeakingInv, NEW s \in Spoken, Begin(s)
  PROVE  SpeakingInv'
<1> USE DEF SpeakingInv, PipelineInv, Spoken
<1>0. /\ UNCHANGED <<pPc, pSaid, pGenErr, pFallback, pHistory, pReason, pLane, pLatch,
                     pStopped, pWorker, pCut, pJob, pPlayed, pHeard, pUnread, pCommitted>>
      /\ pRun[s] = "spawned"
      /\ pRun' = [pRun EXCEPT ![s] = (IF pCut THEN "cut" ELSE "starting")]
           /\ \A j \in Spoken : pRun'[j] = IF j = s THEN (IF pCut THEN "cut"
                  ELSE "starting") ELSE pRun[j]
      /\ pAnnounced' = IF s = 1 /\ ~pCut THEN Append(pAnnounced, 1) ELSE pAnnounced
  BY DEF Begin, Becomes, Moves, Resolved, Key, sentenceOnly, pumpOnly, producer, pump,
         PipelineTypeOK, Pipelined, JobsFollowRuns
<1>a. pPc # "finished"
  BY <1>0, UnresolvedGoesOn DEF Resolved
<1>b. /\ pAnnounced' \in Seq(Spoken) /\ Len(pAnnounced) \in Nat
           /\ DOMAIN pAnnounced = 1..Len(pAnnounced)
      /\ pAnnounced' = pAnnounced \/ Len(pAnnounced) = 0
      /\ Len(pAnnounced') = IF s = 1 /\ ~pCut THEN Len(pAnnounced) + 1 ELSE Len(pAnnounced)
      /\ DOMAIN pAnnounced' = 1..Len(pAnnounced')
      /\ pAnnounced # pAnnounced' => pAnnounced'[1] = 1
  <2>1. pAnnounced \in Seq(Spoken) /\ (s = 1 => 1 \in Spoken)
    BY DEF PipelineTypeOK
  <2>2. s = 1 => Len(pAnnounced) = 0
    BY <1>0 DEF AnnouncedSoFar, Pipelined, PipelineTypeOK
  <2> HIDE DEF SpeakingInv, PipelineInv, Spoken
  <2> QED BY <1>0, <2>1, <2>2, AppendGives
<1>1. PipelineTypeOK'
  <2>1. PipelineTypeOK /\ pAnnounced' \in Seq(Spoken)
    BY <1>b
  <2> HIDE DEF SpeakingInv, PipelineInv, Spoken
  <2>2. pRun' \in [Spoken -> {"none", "spawned", "starting", "streaming", "drained", "broken",
                              "delivered", "failed", "cut"}]
    BY <1>0, <2>1 DEF PipelineTypeOK
  <2> QED BY <1>0, <2>1, <2>2 DEF PipelineTypeOK
<1>2. SpeaksInOrder'
  <2>1. CASE pAnnounced' = pAnnounced
    BY <1>0, <2>1 DEF SpeaksInOrder
  <2>2. CASE pAnnounced' # pAnnounced
    <3>1. Len(pAnnounced) = 0 /\ s = 1 /\ ~pCut
      BY <1>0, <1>b, <2>2
    <3>3. Len(pAnnounced') = 1 /\ DOMAIN pAnnounced' = 1..1 /\ pAnnounced'[1] = 1
      BY <1>b, <2>2, <3>1
    <3>2. \A i \in DOMAIN pPlayed : pPlayed[i] \in Int /\ pPlayed[i] <= 0
      BY <3>1 DEF SpeaksInOrder, PipelineTypeOK
    <3>4. \A i \in DOMAIN pAnnounced' : pAnnounced'[i] = i
      BY <3>3
    <3>5. \A i \in DOMAIN pPlayed : pPlayed[i] <= Len(pAnnounced')
      BY <3>2, <3>3
    <3> QED BY <1>0, <3>4, <3>5 DEF SpeaksInOrder
  <2> QED BY <2>1, <2>2
<1>3. OneAhead'
  BY <1>0 DEF OneAhead, JobsFollowRuns, LaneAndLatch, AnnouncedSoFar, Pipelined, Resolved,
         Coming, PipelineTypeOK
<1>4. CommittedHeard'
  BY <1>0 DEF CommittedHeard, ReadByPlayer, JobsFollowRuns, PipelineTypeOK
<1>5. HistoryComplete'
  BY <1>0 DEF HistoryComplete, Pipelined, Resolved, PipelineTypeOK
<1>6. CleanFinish'
  BY <1>0, <1>a DEF CleanFinish, Pipelined, Resolved, LaneAndLatch, OneAhead, PipelineTypeOK
<1>7. Pipelined'
  BY <1>0 DEF Pipelined, Resolved, JobsFollowRuns, PipelineTypeOK
<1>8. AnnouncedSoFar'
  BY <1>0 DEF AnnouncedSoFar, Pipelined, JobsFollowRuns, Resolved, CleanFinish,
         LaneAndLatch, PipelineTypeOK
<1>9. JobsFollowRuns'
  BY <1>0 DEF JobsFollowRuns, Pipelined, AnnouncedSoFar, LaneAndLatch, Resolved,
         PipelineTypeOK
<1>10. LaneAndLatch'
  BY <1>0 DEF LaneAndLatch, JobsFollowRuns, OneAhead, Pipelined, AnnouncedSoFar, Resolved,
         Coming, PipelineTypeOK
<1>11. PlaysAscend'
  BY <1>0 DEF PlaysAscend, Unplayed, SpeaksInOrder, JobsFollowRuns, Pipelined,
         AnnouncedSoFar, LaneAndLatch, OneAhead, Resolved, PipelineTypeOK
<1>12. ReadByPlayer'
  BY <1>0 DEF ReadByPlayer, JobsFollowRuns, OneAhead, LaneAndLatch, Pipelined, Resolved,
         CleanFinish, Coming, PipelineTypeOK
<1> QED BY <1>1, <1>2, <1>3, <1>4, <1>5, <1>6, <1>7, <1>8, <1>9, <1>10, <1>11, <1>12

\* A sentence that does not start leaves nothing behind but its failure.
LEMMA StartFailsKeeps ==
  ASSUME SpeakingInv, NEW s \in Spoken, StartFails(s)
  PROVE  SpeakingInv'
<1> USE DEF SpeakingInv, PipelineInv, Spoken
<1>0. /\ UNCHANGED <<pPc, pSaid, pGenErr, pFallback, pHistory, pReason, pLane, pLatch,
                     pStopped, pWorker, pCut, pJob, pAnnounced, pPlayed, pHeard, pUnread,
                     pCommitted>>
      /\ pRun[s] = "starting"
      /\ pRun' = [pRun EXCEPT ![s] = (IF pCut THEN "cut" ELSE "failed")]
           /\ \A j \in Spoken : pRun'[j] = IF j = s THEN (IF pCut THEN "cut" ELSE "failed")
                ELSE pRun[j]
  BY DEF StartFails, Becomes, Moves, Resolved, Key, sentenceOnly, pumpOnly, producer, pump,
         PipelineTypeOK, Pipelined, JobsFollowRuns
<1>a. pPc # "finished"
  BY <1>0, UnresolvedGoesOn DEF Resolved
<1>1. PipelineTypeOK'
  BY <1>0 DEF PipelineTypeOK, Pipelined
<1>2. SpeaksInOrder'
  BY <1>0 DEF SpeaksInOrder, AnnouncedSoFar, PlaysAscend, JobsFollowRuns, Unplayed,
         Pipelined, PipelineTypeOK
<1>3. OneAhead'
  BY <1>0 DEF OneAhead, JobsFollowRuns, LaneAndLatch, AnnouncedSoFar, Pipelined, Resolved,
         Coming, PipelineTypeOK
<1>4. CommittedHeard'
  BY <1>0 DEF CommittedHeard, ReadByPlayer, JobsFollowRuns, PipelineTypeOK
<1>5. HistoryComplete'
  BY <1>0 DEF HistoryComplete, Pipelined, Resolved, PipelineTypeOK
<1>6. CleanFinish'
  BY <1>0, <1>a DEF CleanFinish, Pipelined, Resolved, LaneAndLatch, OneAhead, PipelineTypeOK
<1>7. Pipelined'
  BY <1>0 DEF Pipelined, Resolved, JobsFollowRuns, PipelineTypeOK
<1>8. AnnouncedSoFar'
  BY <1>0 DEF AnnouncedSoFar, Pipelined, JobsFollowRuns, Resolved, CleanFinish,
         LaneAndLatch, PipelineTypeOK
<1>9. JobsFollowRuns'
  BY <1>0 DEF JobsFollowRuns, Pipelined, AnnouncedSoFar, LaneAndLatch, Resolved,
         PipelineTypeOK
<1>10. LaneAndLatch'
  BY <1>0 DEF LaneAndLatch, JobsFollowRuns, OneAhead, Pipelined, AnnouncedSoFar, Resolved,
         Coming, PipelineTypeOK
<1>11. PlaysAscend'
  <2>1. \A j \in Spoken : Unplayed(j)' => Unplayed(j)
    BY <1>0 DEF Unplayed
  <2>2. PlaysAscend
    OBVIOUS
  <2> HIDE DEF SpeakingInv, PipelineInv, Spoken
  <2> QED BY <1>0, <2>1, <2>2 DEF PlaysAscend
<1>12. ReadByPlayer'
  BY <1>0 DEF ReadByPlayer, JobsFollowRuns, OneAhead, LaneAndLatch, Pipelined, Resolved,
         CleanFinish, Coming, PipelineTypeOK
<1> QED BY <1>1, <1>2, <1>3, <1>4, <1>5, <1>6, <1>7, <1>8, <1>9, <1>10, <1>11, <1>12

\* A sentence that starts is announced already, is held, or primes the pump.
LEMMA StartStreamKeeps ==
  ASSUME SpeakingInv, NEW s \in Spoken, StartStream(s)
  PROVE  SpeakingInv'
<1> USE DEF SpeakingInv, PipelineInv, Spoken
<1>0. /\ UNCHANGED <<pPc, pSaid, pGenErr, pFallback, pHistory, pReason, pLane, pLatch,
                     pStopped, pWorker, pCut, pAnnounced, pPlayed, pHeard, pUnread,
                     pCommitted>>
      /\ pRun[s] = "starting" /\ pJob[s] = "none"
      /\ pRun' = [pRun EXCEPT ![s] = "streaming"] /\ \A j \in Spoken : pRun'[j] = IF j = s
           THEN "streaming" ELSE pRun[j]
      /\ pJob' = [pJob EXCEPT ![s] = (IF pStopped THEN "draining" ELSE IF s = 1
                                      THEN "enqueueing" ELSE "priming")]
                                      /\ \A j \in Spoken : pJob'[j] = IF j = s THEN (
                                             IF pStopped THEN "draining" ELSE IF s = 1
                                             THEN "enqueueing" ELSE "priming") ELSE pJob[j]
  BY DEF StartStream, Becomes, Moves, Resolved, Key, sentenceOnly, pumpOnly, producer,
         pump, PipelineTypeOK, Pipelined, JobsFollowRuns
<1>a. pPc # "finished"
  BY <1>0, UnresolvedGoesOn DEF Resolved
<1>1. PipelineTypeOK'
  BY <1>0 DEF PipelineTypeOK, Pipelined
<1>2. SpeaksInOrder'
  BY <1>0 DEF SpeaksInOrder, AnnouncedSoFar, PlaysAscend, JobsFollowRuns, Unplayed,
         Pipelined, PipelineTypeOK
<1>3. OneAhead'
  BY <1>0 DEF OneAhead, JobsFollowRuns, LaneAndLatch, AnnouncedSoFar, Pipelined, Resolved,
         Coming, PipelineTypeOK
<1>4. CommittedHeard'
  BY <1>0 DEF CommittedHeard, ReadByPlayer, JobsFollowRuns, PipelineTypeOK
<1>5. HistoryComplete'
  BY <1>0 DEF HistoryComplete, Pipelined, Resolved, PipelineTypeOK
<1>6. CleanFinish'
  BY <1>0, <1>a DEF CleanFinish, Pipelined, Resolved, LaneAndLatch, OneAhead, PipelineTypeOK
<1>7. Pipelined'
  BY <1>0 DEF Pipelined, Resolved, JobsFollowRuns, PipelineTypeOK
<1>8. AnnouncedSoFar'
  BY <1>0 DEF AnnouncedSoFar, Pipelined, JobsFollowRuns, Resolved, CleanFinish,
         LaneAndLatch, PipelineTypeOK
<1>9. JobsFollowRuns'
  BY <1>0 DEF JobsFollowRuns, Pipelined, AnnouncedSoFar, LaneAndLatch, Resolved,
         PipelineTypeOK
<1>10. LaneAndLatch'
  BY <1>0 DEF LaneAndLatch, JobsFollowRuns, OneAhead, Pipelined, AnnouncedSoFar, Resolved,
         Coming, PipelineTypeOK
<1>11. PlaysAscend'
  BY <1>0 DEF PlaysAscend, Unplayed, SpeaksInOrder, JobsFollowRuns, Pipelined,
         AnnouncedSoFar, LaneAndLatch, OneAhead, Resolved, PipelineTypeOK
<1>12. ReadByPlayer'
  BY <1>0 DEF ReadByPlayer, JobsFollowRuns, OneAhead, LaneAndLatch, Pipelined, Resolved,
         CleanFinish, Coming, PipelineTypeOK
<1> QED BY <1>1, <1>2, <1>3, <1>4, <1>5, <1>6, <1>7, <1>8, <1>9, <1>10, <1>11, <1>12

\* The last chunk is read by the player or by a drain, which commit differently.
LEMMA StreamEndsKeeps ==
  ASSUME SpeakingInv, NEW s \in Spoken, StreamEnds(s)
  PROVE  SpeakingInv'
<1> USE DEF SpeakingInv, PipelineInv, Spoken
<1>0. /\ UNCHANGED <<pPc, pSaid, pGenErr, pFallback, pHistory, pReason, pLane, pLatch,
                     pStopped, pWorker, pCut, pJob, pAnnounced, pPlayed, pUnread,
                     pCommitted>>
      /\ pRun[s] = "streaming" /\ pJob[s] \in {"playing", "draining"}
      /\ pRun' = [pRun EXCEPT ![s] = "drained"] /\ \A j \in Spoken : pRun'[j] = IF j = s
           THEN "drained" ELSE pRun[j]
      /\ pHeard' = IF pJob[s] = "playing" THEN pHeard \cup {s} ELSE pHeard
  BY DEF StreamEnds, Becomes, Moves, Resolved, Key, sentenceOnly, pumpOnly, producer, pump,
         PipelineTypeOK, Pipelined, JobsFollowRuns
<1>a. pPc # "finished"
  BY <1>0, UnresolvedGoesOn DEF Resolved
<1>1. PipelineTypeOK'
  BY <1>0 DEF PipelineTypeOK, Pipelined
<1>2. SpeaksInOrder'
  BY <1>0 DEF SpeaksInOrder, AnnouncedSoFar, PlaysAscend, JobsFollowRuns, Unplayed,
         Pipelined, PipelineTypeOK
<1>3. OneAhead'
  BY <1>0 DEF OneAhead, JobsFollowRuns, LaneAndLatch, AnnouncedSoFar, Pipelined, Resolved,
         Coming, PipelineTypeOK
<1>4. CommittedHeard'
  BY <1>0 DEF CommittedHeard, ReadByPlayer, JobsFollowRuns, PipelineTypeOK
<1>5. HistoryComplete'
  BY <1>0 DEF HistoryComplete, Pipelined, Resolved, PipelineTypeOK
<1>6. CleanFinish'
  BY <1>0, <1>a DEF CleanFinish, Pipelined, Resolved, LaneAndLatch, OneAhead, PipelineTypeOK
<1>7. Pipelined'
  BY <1>0 DEF Pipelined, Resolved, JobsFollowRuns, PipelineTypeOK
<1>8. AnnouncedSoFar'
  BY <1>0 DEF AnnouncedSoFar, Pipelined, JobsFollowRuns, Resolved, CleanFinish,
         LaneAndLatch, PipelineTypeOK
<1>9. JobsFollowRuns'
  BY <1>0 DEF JobsFollowRuns, Pipelined, AnnouncedSoFar, LaneAndLatch, Resolved,
         PipelineTypeOK
<1>10. LaneAndLatch'
  BY <1>0 DEF LaneAndLatch, JobsFollowRuns, OneAhead, Pipelined, AnnouncedSoFar, Resolved,
         Coming, PipelineTypeOK
<1>11. PlaysAscend'
  BY <1>0 DEF PlaysAscend, Unplayed, SpeaksInOrder, JobsFollowRuns, Pipelined,
         AnnouncedSoFar, LaneAndLatch, OneAhead, Resolved, PipelineTypeOK
<1>12. ReadByPlayer'
  BY <1>0 DEF ReadByPlayer, JobsFollowRuns, OneAhead, LaneAndLatch, Pipelined, Resolved,
         CleanFinish, Coming, PipelineTypeOK
<1> QED BY <1>1, <1>2, <1>3, <1>4, <1>5, <1>6, <1>7, <1>8, <1>9, <1>10, <1>11, <1>12

\* A broken stream fails its sentence, wherever its audio is.
LEMMA StreamBreaksKeeps ==
  ASSUME SpeakingInv, NEW s \in Spoken, StreamBreaks(s)
  PROVE  SpeakingInv'
<1> USE DEF SpeakingInv, PipelineInv, Spoken
<1>0. /\ UNCHANGED <<pPc, pSaid, pGenErr, pFallback, pHistory, pReason, pLane, pLatch,
                     pStopped, pWorker, pCut, pJob, pAnnounced, pPlayed, pHeard, pUnread,
                     pCommitted>>
      /\ pRun[s] = "streaming" /\ (pJob[s] \notin {"priming", "enqueueing", "sending"}
                                   \/ (pPc = "handing" /\ s = pSaid /\ pJob[s] # "priming"))
      /\ pRun' = [pRun EXCEPT ![s] = "broken"] /\ \A j \in Spoken : pRun'[j] = IF j = s
           THEN "broken" ELSE pRun[j]
  BY DEF StreamBreaks, Forwarded, Becomes, Moves, Resolved, Key, sentenceOnly, pumpOnly,
         producer, pump, PipelineTypeOK, Pipelined, JobsFollowRuns
<1>a. pPc # "finished"
  BY <1>0, UnresolvedGoesOn DEF Resolved
<1>1. PipelineTypeOK'
  BY <1>0 DEF PipelineTypeOK, Pipelined
<1>2. SpeaksInOrder'
  BY <1>0 DEF SpeaksInOrder, AnnouncedSoFar, PlaysAscend, JobsFollowRuns, Unplayed,
         Pipelined, PipelineTypeOK
<1>3. OneAhead'
  BY <1>0 DEF OneAhead, JobsFollowRuns, LaneAndLatch, AnnouncedSoFar, Pipelined, Resolved,
         Coming, PipelineTypeOK
<1>4. CommittedHeard'
  BY <1>0 DEF CommittedHeard, ReadByPlayer, JobsFollowRuns, PipelineTypeOK
<1>5. HistoryComplete'
  BY <1>0 DEF HistoryComplete, Pipelined, Resolved, PipelineTypeOK
<1>6. CleanFinish'
  BY <1>0, <1>a DEF CleanFinish, Pipelined, Resolved, LaneAndLatch, OneAhead, PipelineTypeOK
<1>7. Pipelined'
  BY <1>0 DEF Pipelined, Resolved, JobsFollowRuns, PipelineTypeOK
<1>8. AnnouncedSoFar'
  BY <1>0 DEF AnnouncedSoFar, Pipelined, JobsFollowRuns, Resolved, CleanFinish,
         LaneAndLatch, PipelineTypeOK
<1>9. JobsFollowRuns'
  BY <1>0 DEF JobsFollowRuns, Pipelined, AnnouncedSoFar, LaneAndLatch, Resolved,
         PipelineTypeOK
<1>10. LaneAndLatch'
  BY <1>0 DEF LaneAndLatch, JobsFollowRuns, OneAhead, Pipelined, AnnouncedSoFar, Resolved,
         Coming, PipelineTypeOK
<1>11. PlaysAscend'
  BY <1>0 DEF PlaysAscend, Unplayed, SpeaksInOrder, JobsFollowRuns, Pipelined,
         AnnouncedSoFar, LaneAndLatch, OneAhead, Resolved, PipelineTypeOK
<1>12. ReadByPlayer'
  BY <1>0 DEF ReadByPlayer, JobsFollowRuns, OneAhead, LaneAndLatch, Pipelined, Resolved,
         CleanFinish, Coming, PipelineTypeOK
<1> QED BY <1>1, <1>2, <1>3, <1>4, <1>5, <1>6, <1>7, <1>8, <1>9, <1>10, <1>11, <1>12

\* A cut stream delivers nothing more.
LEMMA StreamCutKeeps ==
  ASSUME SpeakingInv, NEW s \in Spoken, StreamCut(s)
  PROVE  SpeakingInv'
<1> USE DEF SpeakingInv, PipelineInv, Spoken
<1>0. /\ UNCHANGED <<pPc, pSaid, pGenErr, pFallback, pHistory, pReason, pLane, pLatch,
                     pStopped, pWorker, pCut, pJob, pAnnounced, pPlayed, pHeard, pUnread,
                     pCommitted>>
      /\ pCut /\ pRun[s] = "streaming" /\ (pJob[s] \notin {"priming", "enqueueing",
             "sending"} \/ (pPc = "handing" /\ s = pSaid /\ pJob[s] # "priming"))
      /\ pRun' = [pRun EXCEPT ![s] = "drained"] /\ \A j \in Spoken : pRun'[j] = IF j = s
           THEN "drained" ELSE pRun[j]
  BY DEF StreamCut, Forwarded, Becomes, Moves, Resolved, Key, sentenceOnly, pumpOnly,
         producer, pump, PipelineTypeOK, Pipelined, JobsFollowRuns
<1>a. pPc # "finished"
  BY <1>0, UnresolvedGoesOn DEF Resolved
<1>1. PipelineTypeOK'
  BY <1>0 DEF PipelineTypeOK, Pipelined
<1>2. SpeaksInOrder'
  BY <1>0 DEF SpeaksInOrder, AnnouncedSoFar, PlaysAscend, JobsFollowRuns, Unplayed,
         Pipelined, PipelineTypeOK
<1>3. OneAhead'
  BY <1>0 DEF OneAhead, JobsFollowRuns, LaneAndLatch, AnnouncedSoFar, Pipelined, Resolved,
         Coming, PipelineTypeOK
<1>4. CommittedHeard'
  BY <1>0 DEF CommittedHeard, ReadByPlayer, JobsFollowRuns, PipelineTypeOK
<1>5. HistoryComplete'
  BY <1>0 DEF HistoryComplete, Pipelined, Resolved, PipelineTypeOK
<1>6. CleanFinish'
  BY <1>0, <1>a DEF CleanFinish, Pipelined, Resolved, LaneAndLatch, OneAhead, PipelineTypeOK
<1>7. Pipelined'
  BY <1>0 DEF Pipelined, Resolved, JobsFollowRuns, PipelineTypeOK
<1>8. AnnouncedSoFar'
  BY <1>0 DEF AnnouncedSoFar, Pipelined, JobsFollowRuns, Resolved, CleanFinish,
         LaneAndLatch, PipelineTypeOK
<1>9. JobsFollowRuns'
  BY <1>0 DEF JobsFollowRuns, Pipelined, AnnouncedSoFar, LaneAndLatch, Resolved,
         PipelineTypeOK
<1>10. LaneAndLatch'
  BY <1>0 DEF LaneAndLatch, JobsFollowRuns, OneAhead, Pipelined, AnnouncedSoFar, Resolved,
         Coming, PipelineTypeOK
<1>11. PlaysAscend'
  BY <1>0 DEF PlaysAscend, Unplayed, SpeaksInOrder, JobsFollowRuns, Pipelined,
         AnnouncedSoFar, LaneAndLatch, OneAhead, Resolved, PipelineTypeOK
<1>12. ReadByPlayer'
  BY <1>0 DEF ReadByPlayer, JobsFollowRuns, OneAhead, LaneAndLatch, Pipelined, Resolved,
         CleanFinish, Coming, PipelineTypeOK
<1> QED BY <1>1, <1>2, <1>3, <1>4, <1>5, <1>6, <1>7, <1>8, <1>9, <1>10, <1>11, <1>12

\* The dispatch returns, and the sentence is what its stream and its playback made of it.
LEMMA ResolveKeeps ==
  ASSUME SpeakingInv, NEW s \in Spoken, Resolve(s)
  PROVE  SpeakingInv'
<1> USE DEF SpeakingInv, PipelineInv, Spoken
<1>0. /\ UNCHANGED <<pPc, pSaid, pGenErr, pFallback, pHistory, pReason, pLane, pLatch,
                     pStopped, pWorker, pCut, pJob, pAnnounced, pPlayed, pHeard, pUnread>>
      /\ pRun[s] \in {"drained", "broken"}
      /\ pRun' = [pRun EXCEPT ![s] = (IF pCut THEN "cut" ELSE IF pRun[s] = "broken"
                                      THEN "failed" ELSE "delivered")]
                                      /\ \A j \in Spoken : pRun'[j] = IF j = s THEN (
                                             IF pCut THEN "cut" ELSE IF pRun[s] = "broken"
                                             THEN "failed" ELSE "delivered") ELSE pRun[j]
      /\ pCommitted' = IF ~pCut /\ pRun[s] = "drained" /\ ~pFallback
           THEN pCommitted \cup {s} ELSE pCommitted
  BY DEF Resolve, Becomes, Moves, Resolved, Key, sentenceOnly, pumpOnly, producer, pump,
         PipelineTypeOK, Pipelined, JobsFollowRuns
<1>a. pPc # "finished"
  BY <1>0, UnresolvedGoesOn DEF Resolved
<1>1. PipelineTypeOK'
  BY <1>0 DEF PipelineTypeOK, Pipelined
<1>2. SpeaksInOrder'
  BY <1>0 DEF SpeaksInOrder, AnnouncedSoFar, PlaysAscend, JobsFollowRuns, Unplayed,
         Pipelined, PipelineTypeOK
<1>3. OneAhead'
  <2>1. ~pStopped' /\ pLane' # 0 => pLane' = pSaid' /\ pPc' \in {"waiting", "releasing"}
    BY <1>0 DEF OneAhead
  <2>2. \A i, j \in Spoken : pJob[i] = "sending" /\ pJob[j] = "queued" => pRun[j] = "failed"
    <3> TAKE i, j \in Spoken
    <3> HAVE pJob[i] = "sending" /\ pJob[j] = "queued"
    <3>1. i <= Len(pAnnounced) /\ j <= Len(pAnnounced) /\ i # j /\ Len(pAnnounced) \in Nat
      BY DEF JobsFollowRuns, PipelineTypeOK
    <3>2. CASE j < i
      BY <3>1, <3>2 DEF AnnouncedSoFar, JobsFollowRuns
    <3>3. CASE i < j
      <4>1. pRun[i] \in {"delivered", "failed"} /\ i # pSaid
        BY <3>1, <3>3 DEF AnnouncedSoFar, PipelineTypeOK
      <4> QED BY <4>1 DEF JobsFollowRuns
    <3> QED BY <3>1, <3>2, <3>3
  <2> QED BY <1>0, <2>1, <2>2 DEF OneAhead
<1>4. CommittedHeard'
  BY <1>0 DEF CommittedHeard, ReadByPlayer, JobsFollowRuns, PipelineTypeOK
<1>5. HistoryComplete'
  <2>1. s <= pSaid /\ ~Resolved(s)
    BY <1>0 DEF Pipelined, Resolved, PipelineTypeOK
  <2>2. pPc \in {"flushing", "finished"} => pFallback
    BY <2>1 DEF Pipelined
  <2> QED BY <1>0, <2>2 DEF HistoryComplete
<1>6. CleanFinish'
  BY <1>0, <1>a DEF CleanFinish, Pipelined, Resolved, LaneAndLatch, OneAhead, PipelineTypeOK
<1>7. Pipelined'
  BY <1>0 DEF Pipelined, Resolved, JobsFollowRuns, PipelineTypeOK
<1>8. AnnouncedSoFar'
  BY <1>0 DEF AnnouncedSoFar, Pipelined, JobsFollowRuns, Resolved, CleanFinish,
         LaneAndLatch, PipelineTypeOK
<1>9. JobsFollowRuns'
  BY <1>0 DEF JobsFollowRuns, Pipelined, AnnouncedSoFar, LaneAndLatch, Resolved,
         PipelineTypeOK
<1>10. LaneAndLatch'
  BY <1>0 DEF LaneAndLatch, JobsFollowRuns, OneAhead, Pipelined, AnnouncedSoFar, Resolved,
         Coming, PipelineTypeOK
<1>11. PlaysAscend'
  BY <1>0 DEF PlaysAscend, Unplayed, SpeaksInOrder, JobsFollowRuns, Pipelined,
         AnnouncedSoFar, LaneAndLatch, OneAhead, Resolved, PipelineTypeOK
<1>12. ReadByPlayer'
  BY <1>0 DEF ReadByPlayer, JobsFollowRuns, OneAhead, LaneAndLatch, Pipelined, Resolved,
         CleanFinish, Coming, PipelineTypeOK
<1> QED BY <1>1, <1>2, <1>3, <1>4, <1>5, <1>6, <1>7, <1>8, <1>9, <1>10, <1>11, <1>12

\* A playback ends with its channel or with the cut.
LEMMA PlaybackEndsKeeps ==
  ASSUME SpeakingInv, NEW s \in Spoken, PlaybackEnds(s)
  PROVE  SpeakingInv'
<1> USE DEF SpeakingInv, PipelineInv, Spoken
<1>0. /\ UNCHANGED <<pPc, pSaid, pGenErr, pFallback, pHistory, pReason, pLane, pLatch,
                     pStopped, pWorker, pCut, pRun, pAnnounced, pPlayed, pHeard, pUnread,
                     pCommitted>>
      /\ pJob[s] = "playing" /\ (pCut \/ pRun[s] # "streaming")
      /\ pJob' = [pJob EXCEPT ![s] = "over"] /\ \A j \in Spoken : pJob'[j] = IF j = s
           THEN "over" ELSE pJob[j]
  BY DEF PlaybackEnds, Becomes, Moves, Resolved, Key, sentenceOnly, pumpOnly, producer,
         pump, PipelineTypeOK, Pipelined, JobsFollowRuns
<1>1. PipelineTypeOK'
  BY <1>0 DEF PipelineTypeOK, Pipelined
<1>2. SpeaksInOrder'
  BY <1>0 DEF SpeaksInOrder, AnnouncedSoFar, PlaysAscend, JobsFollowRuns, Unplayed,
         Pipelined, PipelineTypeOK
<1>3. OneAhead'
  BY <1>0 DEF OneAhead, JobsFollowRuns, LaneAndLatch, AnnouncedSoFar, Pipelined, Resolved,
         Coming, PipelineTypeOK
<1>4. CommittedHeard'
  BY <1>0 DEF CommittedHeard, ReadByPlayer, JobsFollowRuns, PipelineTypeOK
<1>5. HistoryComplete'
  BY <1>0 DEF HistoryComplete, Pipelined, Resolved, PipelineTypeOK
<1>6. CleanFinish'
  BY <1>0 DEF CleanFinish, Pipelined, Resolved, LaneAndLatch, OneAhead, PipelineTypeOK
<1>7. Pipelined'
  BY <1>0 DEF Pipelined, Resolved, JobsFollowRuns, PipelineTypeOK
<1>8. AnnouncedSoFar'
  BY <1>0 DEF AnnouncedSoFar, Pipelined, JobsFollowRuns, Resolved, CleanFinish,
         LaneAndLatch, PipelineTypeOK
<1>9. JobsFollowRuns'
  BY <1>0 DEF JobsFollowRuns, Pipelined, AnnouncedSoFar, LaneAndLatch, Resolved,
         PipelineTypeOK
<1>10. LaneAndLatch'
  BY <1>0 DEF LaneAndLatch, JobsFollowRuns, OneAhead, Pipelined, AnnouncedSoFar, Resolved,
         Coming, PipelineTypeOK
<1>11. PlaysAscend'
  BY <1>0 DEF PlaysAscend, Unplayed, SpeaksInOrder, JobsFollowRuns, Pipelined,
         AnnouncedSoFar, LaneAndLatch, OneAhead, Resolved, PipelineTypeOK
<1>12. ReadByPlayer'
  BY <1>0 DEF ReadByPlayer, JobsFollowRuns, OneAhead, LaneAndLatch, Pipelined, Resolved,
         CleanFinish, Coming, PipelineTypeOK
<1> QED BY <1>1, <1>2, <1>3, <1>4, <1>5, <1>6, <1>7, <1>8, <1>9, <1>10, <1>11, <1>12

\* A playback that breaks off leaves the rest of its sentence unread.
LEMMA PlaybackBreaksKeeps ==
  ASSUME SpeakingInv, NEW s \in Spoken, PlaybackBreaks(s)
  PROVE  SpeakingInv'
<1> USE DEF SpeakingInv, PipelineInv, Spoken
<1>0. /\ UNCHANGED <<pPc, pSaid, pGenErr, pFallback, pHistory, pReason, pLane, pLatch,
                     pStopped, pWorker, pCut, pRun, pAnnounced, pPlayed, pHeard,
                     pCommitted>>
      /\ pJob[s] = "playing"
      /\ pJob' = [pJob EXCEPT ![s] = "over"] /\ \A j \in Spoken : pJob'[j] = IF j = s
           THEN "over" ELSE pJob[j]
      /\ pUnread' = pUnread \cup {s}
  BY DEF PlaybackBreaks, Becomes, Moves, Resolved, Key, sentenceOnly, pumpOnly, producer,
         pump, PipelineTypeOK, Pipelined, JobsFollowRuns
<1>1. PipelineTypeOK'
  BY <1>0 DEF PipelineTypeOK, Pipelined
<1>2. SpeaksInOrder'
  BY <1>0 DEF SpeaksInOrder, AnnouncedSoFar, PlaysAscend, JobsFollowRuns, Unplayed,
         Pipelined, PipelineTypeOK
<1>3. OneAhead'
  BY <1>0 DEF OneAhead, JobsFollowRuns, LaneAndLatch, AnnouncedSoFar, Pipelined, Resolved,
         Coming, PipelineTypeOK
<1>4. CommittedHeard'
  BY <1>0 DEF CommittedHeard, ReadByPlayer, JobsFollowRuns, PipelineTypeOK
<1>5. HistoryComplete'
  BY <1>0 DEF HistoryComplete, Pipelined, Resolved, PipelineTypeOK
<1>6. CleanFinish'
  BY <1>0 DEF CleanFinish, Pipelined, Resolved, LaneAndLatch, OneAhead, PipelineTypeOK
<1>7. Pipelined'
  BY <1>0 DEF Pipelined, Resolved, JobsFollowRuns, PipelineTypeOK
<1>8. AnnouncedSoFar'
  BY <1>0 DEF AnnouncedSoFar, Pipelined, JobsFollowRuns, Resolved, CleanFinish,
         LaneAndLatch, PipelineTypeOK
<1>9. JobsFollowRuns'
  BY <1>0 DEF JobsFollowRuns, Pipelined, AnnouncedSoFar, LaneAndLatch, Resolved,
         PipelineTypeOK
<1>10. LaneAndLatch'
  BY <1>0 DEF LaneAndLatch, JobsFollowRuns, OneAhead, Pipelined, AnnouncedSoFar, Resolved,
         Coming, PipelineTypeOK
<1>11. PlaysAscend'
  BY <1>0 DEF PlaysAscend, Unplayed
<1>12. ReadByPlayer'
  BY <1>0 DEF ReadByPlayer, JobsFollowRuns, OneAhead, LaneAndLatch, Pipelined, Resolved,
         CleanFinish, Coming, PipelineTypeOK
<1> QED BY <1>1, <1>2, <1>3, <1>4, <1>5, <1>6, <1>7, <1>8, <1>9, <1>10, <1>11, <1>12

\* The pump is closed: its order is not asked for any more.
LEMMA StopPumpKeeps ==
  ASSUME SpeakingInv, StopPump
  PROVE  SpeakingInv'
<1> USE DEF SpeakingInv, PipelineInv, Spoken
<1>0. /\ UNCHANGED <<pPc, pSaid, pGenErr, pFallback, pHistory, pReason, pLane, pLatch,
                     pWorker, pCut, pRun, pJob, pAnnounced, pPlayed, pHeard, pUnread,
                     pCommitted>>
      /\ ~pStopped /\ pStopped'
  BY DEF StopPump, Becomes, Moves, Resolved, Key, sentenceOnly, pumpOnly, producer, pump,
         PipelineTypeOK, Pipelined, JobsFollowRuns
<1>1. PipelineTypeOK'
  BY <1>0 DEF PipelineTypeOK, Pipelined
<1>2. SpeaksInOrder'
  BY <1>0 DEF SpeaksInOrder, AnnouncedSoFar, PlaysAscend, JobsFollowRuns, Unplayed,
         Pipelined, PipelineTypeOK
<1>3. OneAhead'
  BY <1>0 DEF OneAhead, JobsFollowRuns, LaneAndLatch, AnnouncedSoFar, Pipelined, Resolved,
         Coming, PipelineTypeOK
<1>4. CommittedHeard'
  BY <1>0 DEF CommittedHeard, ReadByPlayer, JobsFollowRuns, PipelineTypeOK
<1>5. HistoryComplete'
  BY <1>0 DEF HistoryComplete, Pipelined, Resolved, PipelineTypeOK
<1>6. CleanFinish'
  BY <1>0 DEF CleanFinish, Pipelined, Resolved, LaneAndLatch, OneAhead, PipelineTypeOK
<1>7. Pipelined'
  BY <1>0 DEF Pipelined, Resolved, JobsFollowRuns, PipelineTypeOK
<1>8. AnnouncedSoFar'
  BY <1>0 DEF AnnouncedSoFar, Pipelined, JobsFollowRuns, Resolved, CleanFinish,
         LaneAndLatch, PipelineTypeOK
<1>9. JobsFollowRuns'
  BY <1>0 DEF JobsFollowRuns, Pipelined, AnnouncedSoFar, LaneAndLatch, Resolved,
         PipelineTypeOK
<1>10. LaneAndLatch'
  BY <1>0 DEF LaneAndLatch, JobsFollowRuns, OneAhead, Pipelined, AnnouncedSoFar, Resolved,
         Coming, PipelineTypeOK
<1>11. PlaysAscend'
  BY <1>0 DEF PlaysAscend, Unplayed, SpeaksInOrder, JobsFollowRuns, Pipelined,
         AnnouncedSoFar, LaneAndLatch, OneAhead, Resolved, PipelineTypeOK
<1>12. ReadByPlayer'
  BY <1>0 DEF ReadByPlayer, JobsFollowRuns, OneAhead, LaneAndLatch, Pipelined, Resolved,
         CleanFinish, Coming, PipelineTypeOK
<1> QED BY <1>1, <1>2, <1>3, <1>4, <1>5, <1>6, <1>7, <1>8, <1>9, <1>10, <1>11, <1>12

\* The turn is cut: nothing new is announced.
LEMMA CutTurnKeeps ==
  ASSUME SpeakingInv, CutTurn
  PROVE  SpeakingInv'
<1> USE DEF SpeakingInv, PipelineInv, Spoken
<1>0. /\ UNCHANGED <<pPc, pSaid, pGenErr, pFallback, pHistory, pReason, pLane, pLatch,
                     pStopped, pWorker, pRun, pJob, pAnnounced, pPlayed, pHeard, pUnread,
                     pCommitted>>
      /\ ~pCut /\ pPc # "finished" /\ pCut'
  BY DEF CutTurn, Becomes, Moves, Resolved, Key, sentenceOnly, pumpOnly, producer, pump,
         PipelineTypeOK, Pipelined, JobsFollowRuns
<1>1. PipelineTypeOK'
  BY <1>0 DEF PipelineTypeOK, Pipelined
<1>2. SpeaksInOrder'
  BY <1>0 DEF SpeaksInOrder, AnnouncedSoFar, PlaysAscend, JobsFollowRuns, Unplayed,
         Pipelined, PipelineTypeOK
<1>3. OneAhead'
  BY <1>0 DEF OneAhead, JobsFollowRuns, LaneAndLatch, AnnouncedSoFar, Pipelined, Resolved,
         Coming, PipelineTypeOK
<1>4. CommittedHeard'
  BY <1>0 DEF CommittedHeard, ReadByPlayer, JobsFollowRuns, PipelineTypeOK
<1>5. HistoryComplete'
  BY <1>0 DEF HistoryComplete, Pipelined, Resolved, PipelineTypeOK
<1>6. CleanFinish'
  BY <1>0 DEF CleanFinish, Pipelined, Resolved, LaneAndLatch, OneAhead, PipelineTypeOK
<1>7. Pipelined'
  BY <1>0 DEF Pipelined, Resolved, JobsFollowRuns, PipelineTypeOK
<1>8. AnnouncedSoFar'
  BY <1>0 DEF AnnouncedSoFar, Pipelined, JobsFollowRuns, Resolved, CleanFinish,
         LaneAndLatch, PipelineTypeOK
<1>9. JobsFollowRuns'
  BY <1>0 DEF JobsFollowRuns, Pipelined, AnnouncedSoFar, LaneAndLatch, Resolved,
         PipelineTypeOK
<1>10. LaneAndLatch'
  BY <1>0 DEF LaneAndLatch, JobsFollowRuns, OneAhead, Pipelined, AnnouncedSoFar, Resolved,
         Coming, PipelineTypeOK
<1>11. PlaysAscend'
  BY <1>0 DEF PlaysAscend, Unplayed, SpeaksInOrder, JobsFollowRuns, Pipelined,
         AnnouncedSoFar, LaneAndLatch, OneAhead, Resolved, PipelineTypeOK
<1>12. ReadByPlayer'
  BY <1>0 DEF ReadByPlayer, JobsFollowRuns, OneAhead, LaneAndLatch, Pipelined, Resolved,
         CleanFinish, Coming, PipelineTypeOK
<1> QED BY <1>1, <1>2, <1>3, <1>4, <1>5, <1>6, <1>7, <1>8, <1>9, <1>10, <1>11, <1>12

\* A prime finds the latch of its own release, or goes into the lane: a latch on a lane that
\* is announced is never left behind.
LEMMA PrimeKeeps ==
  ASSUME SpeakingInv, NEW s \in Spoken, Prime(s)
  PROVE  SpeakingInv'
<1> USE DEF SpeakingInv, PipelineInv, Spoken
<1>0. /\ UNCHANGED <<pPc, pSaid, pGenErr, pFallback, pHistory, pReason, pStopped, pWorker,
                     pCut, pRun, pAnnounced, pPlayed, pHeard, pUnread, pCommitted>>
      /\ pJob[s] = "priming" /\ s >= 2 /\ pRun[s] = "streaming" /\ s <= pSaid
      /\ \/ pCut /\ UNCHANGED <<pLane, pLatch>> /\ \A j \in Spoken : pJob'[j] = IF j = s
              THEN "draining" ELSE pJob[j]
         \/ ~pCut /\ pLatch = s /\ pLatch' = 0 /\ UNCHANGED pLane
            /\ \A j \in Spoken : pJob'[j] = IF j = s THEN "enqueueing" ELSE pJob[j]
         \/ ~pCut /\ pLatch # s /\ pLane' = s /\ UNCHANGED pLatch
            /\ \A j \in Spoken : pJob'[j] = IF j = s THEN "lane" ELSE IF j = pLane
                 THEN "draining" ELSE pJob[j]
      /\ pJob' \in [Spoken -> {"none", "priming", "enqueueing", "sending", "queued",
                               "lane", "playing", "draining", "over"}]
  BY DEF Prime, Becomes, Moves, Resolved, Key, sentenceOnly, pumpOnly, producer, pump,
         PipelineTypeOK, Pipelined, JobsFollowRuns
<1>1. PipelineTypeOK'
  BY <1>0 DEF PipelineTypeOK, Pipelined
<1>2. SpeaksInOrder'
  BY <1>0 DEF SpeaksInOrder, AnnouncedSoFar, PlaysAscend, JobsFollowRuns, Unplayed,
         Pipelined, PipelineTypeOK
<1>3. OneAhead'
  BY <1>0 DEF OneAhead, JobsFollowRuns, LaneAndLatch, AnnouncedSoFar, Pipelined, Resolved,
         Coming, PipelineTypeOK
<1>4. CommittedHeard'
  BY <1>0 DEF CommittedHeard, ReadByPlayer, JobsFollowRuns, PipelineTypeOK
<1>5. HistoryComplete'
  BY <1>0 DEF HistoryComplete, Pipelined, Resolved, PipelineTypeOK
<1>6. CleanFinish'
  BY <1>0, UnresolvedGoesOn DEF CleanFinish, Resolved
<1>7. Pipelined'
  BY <1>0 DEF Pipelined, Resolved, LaneAndLatch, PipelineTypeOK
<1>8. AnnouncedSoFar'
  BY <1>0 DEF AnnouncedSoFar, Pipelined, JobsFollowRuns, Resolved, CleanFinish,
         LaneAndLatch, PipelineTypeOK
<1>9. JobsFollowRuns'
  <2>1. JobsFollowRuns /\ LaneAndLatch
    OBVIOUS
  <2>2. \A j \in Spoken : j # s =>
          pJob'[j] = pJob[j] \/ (pJob'[j] = "draining" /\ pJob[j] = "lane")
    BY <1>0 DEF LaneAndLatch
  <2>3. /\ pJob'[s] \in {"draining", "enqueueing", "lane"}
        /\ pJob'[s] = "enqueueing" => s <= Len(pAnnounced)
    BY <1>0 DEF LaneAndLatch
  <2> HIDE DEF SpeakingInv, PipelineInv, Spoken
  <2> QED BY <1>0, <2>1, <2>2, <2>3 DEF JobsFollowRuns
<1>10. LaneAndLatch'
  <2>1. \A j \in Spoken : pJob'[j] = "lane" <=> j = pLane'
    BY <1>0 DEF LaneAndLatch, PipelineTypeOK
  <2>2. \A i, j \in Spoken : pJob'[i] = "queued" /\ pJob'[j] = "queued" => i = j
    BY <1>0 DEF LaneAndLatch, PipelineTypeOK
  <2>3. pLatch' # 0 => pLatch' >= 2 /\ pLatch' <= Len(pAnnounced')
    BY <1>0 DEF LaneAndLatch, AnnouncedSoFar, PipelineTypeOK
  <2>4. ~pStopped' /\ pLatch' # 0 =>
          /\ pLatch' = IF pPc' = "waiting" THEN pSaid' - 1 ELSE pSaid'
          /\ pPc' \notin {"releasing", "finished"}
          /\ pRun'[pLatch'] # "delivered"
          /\ pCut' \/ pJob'[pLatch'] \in {"none", "priming"}
    BY <1>0 DEF LaneAndLatch, JobsFollowRuns, Pipelined, PipelineTypeOK
  <2>5. ~pStopped' => \A j \in Spoken :
          j >= 2 /\ Coming(j)' /\ (j < pSaid' \/ pPc' \notin {"waiting", "releasing"}) =>
            pLatch' = j \/ pCut'
    BY <1>0 DEF LaneAndLatch, JobsFollowRuns, Pipelined, PipelineTypeOK, Coming
  <2>6. ~pStopped' /\ pPc' \in {"waiting", "releasing"} =>
          \/ pJob'[pSaid'] \in {"none", "priming", "lane"}
          \/ pCut' /\ pJob'[pSaid'] = "draining" /\ pRun'[pSaid'] # "delivered"
    BY <1>0 DEF LaneAndLatch, JobsFollowRuns, Pipelined, PipelineTypeOK, Coming, OneAhead
  <2> QED BY <2>1, <2>2, <2>3, <2>4, <2>5, <2>6 DEF LaneAndLatch
<1>11. PlaysAscend'
  BY <1>0 DEF PlaysAscend, Unplayed, SpeaksInOrder, JobsFollowRuns, Pipelined,
         AnnouncedSoFar, LaneAndLatch, OneAhead, Resolved, PipelineTypeOK
<1>12. ReadByPlayer'
  BY <1>0 DEF ReadByPlayer, JobsFollowRuns, OneAhead, LaneAndLatch, Pipelined, Resolved,
         CleanFinish, Coming, PipelineTypeOK
<1> QED BY <1>1, <1>2, <1>3, <1>4, <1>5, <1>6, <1>7, <1>8, <1>9, <1>10, <1>11, <1>12

\* A sentence enters the queue behind nothing that still plays.
LEMMA EnqueueKeeps ==
  ASSUME SpeakingInv, NEW s \in Spoken, Enqueue(s)
  PROVE  SpeakingInv'
<1> USE DEF SpeakingInv, PipelineInv, Spoken
<1>0. /\ UNCHANGED <<pSaid, pGenErr, pFallback, pHistory, pReason, pLane, pLatch, pStopped,
                     pWorker, pCut, pRun, pAnnounced, pPlayed, pHeard, pUnread, pCommitted>>
      /\ \/ pJob[s] = "enqueueing" /\ \A j \in Spoken : pJob'[j] = IF j = s THEN (
                IF pStopped THEN "draining" ELSE "sending") ELSE pJob[j]
         \/ pJob[s] = "sending" /\ pStopped /\ \A j \in Spoken : pJob'[j] = IF j = s
              THEN "draining" ELSE pJob[j]
         \/ pJob[s] = "sending" /\ (\A j \in Spoken : pJob[j] # "queued")
              /\ \A j \in Spoken : pJob'[j] = IF j = s THEN "queued" ELSE pJob[j]
      /\ pPc' = IF pPc = "handing" /\ s = pSaid /\ pJob'[s] # "sending" THEN "generating"
           ELSE pPc
      /\ pJob' \in [Spoken -> {"none", "priming", "enqueueing", "sending", "queued",
                               "lane", "playing", "draining", "over"}]
  BY DEF Enqueue, Becomes, Moves, Resolved, Key, sentenceOnly, pumpOnly, producer, pump,
         PipelineTypeOK, Pipelined, JobsFollowRuns
<1>1. PipelineTypeOK'
  BY <1>0 DEF PipelineTypeOK, Pipelined
<1>2. SpeaksInOrder'
  BY <1>0 DEF SpeaksInOrder, AnnouncedSoFar, PlaysAscend, JobsFollowRuns, Unplayed,
         Pipelined, PipelineTypeOK
<1>3. OneAhead'
  <2>1. ~pStopped' /\ pLane' # 0 => pLane' = pSaid' /\ pPc' \in {"waiting", "releasing"}
    BY <1>0 DEF OneAhead
  <2>2. \A i, j \in Spoken : i # j /\ pJob[i] \in {"enqueueing", "sending"}
          /\ pJob[j] \in {"enqueueing", "sending", "queued"} => pRun[j] = "failed"
    BY QueuedHasFailed
  <2> QED BY <1>0, <2>1, <2>2 DEF OneAhead
<1>4. CommittedHeard'
  BY <1>0 DEF CommittedHeard, ReadByPlayer, JobsFollowRuns, PipelineTypeOK
<1>5. HistoryComplete'
  BY <1>0 DEF HistoryComplete, Pipelined, Resolved, PipelineTypeOK
<1>6. CleanFinish'
  BY <1>0 DEF CleanFinish, Pipelined, Resolved, LaneAndLatch, OneAhead, PipelineTypeOK
<1>7. Pipelined'
  BY <1>0 DEF Pipelined, Resolved, JobsFollowRuns, PipelineTypeOK
<1>8. AnnouncedSoFar'
  BY <1>0 DEF AnnouncedSoFar, Pipelined, JobsFollowRuns, Resolved, CleanFinish,
         LaneAndLatch, PipelineTypeOK
<1>9. JobsFollowRuns'
  <2>1. JobsFollowRuns
    OBVIOUS
  <2> HIDE DEF SpeakingInv, PipelineInv, Spoken
  <2>2. \A j \in Spoken : j # s => pJob'[j] = pJob[j] /\ (pPc' = pPc \/ j # pSaid)
    BY <1>0
  <2>3. /\ pJob[s] \in {"enqueueing", "sending"} /\ pJob'[s] \in {"sending", "queued", "draining"}
        /\ pJob'[s] = "sending" => pPc' = pPc
    BY <1>0
  <2> QED BY <1>0, <2>1, <2>2, <2>3 DEF JobsFollowRuns
<1>10. LaneAndLatch'
  <2>1. LaneAndLatch
    OBVIOUS
  <2>2. pJob[s] \in {"enqueueing", "sending"} /\ pJob'[s] \in {"sending", "queued", "draining"}
    BY <1>0
  <2>3. \A i, j \in Spoken : pJob'[i] = "queued" /\ pJob'[j] = "queued" => i = j
    BY <1>0 DEF LaneAndLatch
  <2>4. /\ \A j \in Spoken : Coming(j)' <=> Coming(j)
        /\ \A j \in Spoken : j # s => pJob'[j] = pJob[j]
    BY <1>0 DEF Coming
  <2>5. /\ pPc' \in {"waiting", "releasing"} <=> pPc \in {"waiting", "releasing"}
        /\ pPc' = "waiting" <=> pPc = "waiting"
        /\ pPc' \in {"releasing", "finished"} <=> pPc \in {"releasing", "finished"}
    BY <1>0
  <2>6. /\ UNCHANGED <<pSaid, pLane, pLatch, pStopped, pCut, pRun, pAnnounced>>
        /\ pLatch \in {0} \cup Spoken /\ (pPc \in {"waiting", "releasing"} => pSaid \in Spoken)
    BY <1>0 DEF PipelineTypeOK, Pipelined
  <2> HIDE DEF SpeakingInv, PipelineInv, Spoken
  <2>7. \A j \in Spoken : pJob'[j] = "lane" <=> j = pLane'
    BY <2>1, <2>2, <2>4, <2>6 DEF LaneAndLatch
  <2>8. ~pStopped /\ pLatch # 0 =>
          pRun[pLatch] # "delivered" /\ (pCut \/ pJob'[pLatch] \in {"none", "priming"})
    BY <2>1, <2>2, <2>4, <2>6 DEF LaneAndLatch
  <2>9. ~pStopped /\ pPc \in {"waiting", "releasing"} =>
          \/ pJob'[pSaid] \in {"none", "priming", "lane"}
          \/ (pCut /\ pJob'[pSaid] = "draining" /\ pRun[pSaid] # "delivered")
    BY <2>1, <2>2, <2>4, <2>6 DEF LaneAndLatch
  <2> QED BY <2>1, <2>3, <2>4, <2>5, <2>6, <2>7, <2>8, <2>9 DEF LaneAndLatch
<1>11. PlaysAscend'
  BY <1>0 DEF PlaysAscend, Unplayed, SpeaksInOrder, JobsFollowRuns, Pipelined,
         AnnouncedSoFar, LaneAndLatch, OneAhead, Resolved, PipelineTypeOK
<1>12. ReadByPlayer'
  BY <1>0 DEF ReadByPlayer, JobsFollowRuns, OneAhead, LaneAndLatch, Pipelined, Resolved,
         CleanFinish, Coming, PipelineTypeOK
<1> QED BY <1>1, <1>2, <1>3, <1>4, <1>5, <1>6, <1>7, <1>8, <1>9, <1>10, <1>11, <1>12

\* The worker takes the sentence that comes next: all earlier ones have played, or have
\* failed or were cut before they could.
LEMMA PlayKeeps ==
  ASSUME SpeakingInv, NEW s \in Spoken, Play(s)
  PROVE  SpeakingInv'
<1> USE DEF SpeakingInv, PipelineInv, Spoken
<1>0. /\ UNCHANGED <<pPc, pSaid, pGenErr, pFallback, pHistory, pReason, pLane, pLatch,
                     pStopped, pWorker, pCut, pRun, pAnnounced, pHeard, pCommitted>>
      /\ pJob[s] = "queued" /\ s <= Len(pAnnounced)
      /\ \/ pStopped /\ UNCHANGED <<pPlayed, pUnread>> /\ \A j \in Spoken : pJob'[j] =
              IF j = s THEN "draining" ELSE pJob[j]
         \/ ~pStopped /\ pPlayed' = Append(pPlayed, s) /\ UNCHANGED pUnread
            /\ \A j \in Spoken : pJob'[j] = IF j = s THEN "playing" ELSE pJob[j]
         \/ ~pStopped /\ UNCHANGED pPlayed /\ pUnread' = pUnread \cup {s}
            /\ \A j \in Spoken : pJob'[j] = IF j = s THEN "draining" ELSE pJob[j]
      /\ pJob' \in [Spoken -> {"none", "priming", "enqueueing", "sending", "queued",
                               "lane", "playing", "draining", "over"}]
  BY DEF Play, Becomes, Moves, Resolved, Key, sentenceOnly, pumpOnly, producer, pump,
         PipelineTypeOK, Pipelined, JobsFollowRuns
<1>b. /\ DOMAIN pPlayed = 1..Len(pPlayed) /\ Len(pPlayed) \in Nat
           /\ \A i \in DOMAIN pPlayed : pPlayed[i] \in Int
      /\ \/ pPlayed' = pPlayed /\ pPlayed \in Seq(Spoken)
         \/ /\ ~pStopped /\ pPlayed' \in Seq(Spoken)
                 /\ DOMAIN pPlayed' = 1..(Len(pPlayed) + 1)
            /\ pPlayed'[Len(pPlayed) + 1] = s
                 /\ \A i \in 1..Len(pPlayed) : pPlayed'[i] = pPlayed[i]
  <2>1. pPlayed \in Seq(Spoken)
    BY DEF PipelineTypeOK
  <2>2. \A i \in DOMAIN pPlayed : pPlayed[i] \in Int
    BY <2>1
  <2>3. DOMAIN pPlayed = 1..Len(pPlayed) /\ Len(pPlayed) \in Nat
    BY <2>1
  <2> HIDE DEF SpeakingInv, PipelineInv, Spoken
  <2>4. CASE pPlayed' = pPlayed
    BY <2>1, <2>2, <2>3, <2>4
  <2>5. CASE ~pStopped /\ pPlayed' = Append(pPlayed, s)
    <3>1. /\ Append(pPlayed, s) \in Seq(Spoken) /\ DOMAIN Append(pPlayed,
                 s) = 1..(Len(pPlayed) + 1)
          /\ Append(pPlayed, s)[Len(pPlayed) + 1] = s
          /\ \A i \in 1..Len(pPlayed) : Append(pPlayed, s)[i] = pPlayed[i]
      BY <2>1, AppendGives
    <3> QED BY <2>2, <2>3, <2>5, <3>1
  <2> QED BY <1>0, <2>4, <2>5
<1>c. ~pStopped => \A i \in DOMAIN pPlayed : pPlayed[i] < s
  BY <1>0 DEF PlaysAscend, Unplayed
<1>1. PipelineTypeOK'
  <2>1. pPlayed' \in Seq(Spoken)
    BY <1>0, <1>b
  <2>2. PipelineTypeOK /\ (pUnread' = pUnread \/ pUnread' = pUnread \cup {s})
    BY <1>0
  <2> HIDE DEF SpeakingInv, PipelineInv, Spoken
  <2> QED BY <1>0, <2>1, <2>2 DEF PipelineTypeOK
<1>2. SpeaksInOrder'
  <2>1. CASE pPlayed' = pPlayed
    BY <1>0, <2>1 DEF SpeaksInOrder
  <2>2. CASE pPlayed' # pPlayed
    <3>1. /\ DOMAIN pPlayed' = 1..(Len(pPlayed) + 1) /\ pPlayed'[Len(pPlayed) + 1] = s
          /\ \A i \in 1..Len(pPlayed) : pPlayed'[i] = pPlayed[i] /\ pPlayed[i] < s
          /\ Len(pPlayed) \in Nat /\ DOMAIN pPlayed = 1..Len(pPlayed)
      BY <1>b, <1>c, <2>2
    <3>2. ASSUME NEW i \in DOMAIN pPlayed'
          PROVE  pPlayed'[i] <= Len(pAnnounced) /\ (i > 1 => pPlayed'[i - 1] < pPlayed'[i])
      <4>1. CASE i = Len(pPlayed) + 1
        <5>1. i > 1 => i - 1 \in 1..Len(pPlayed)
          BY <3>1, <4>1
        <5> QED BY <1>0, <3>1, <4>1, <5>1
      <4>2. CASE i \in 1..Len(pPlayed)
        <5>1. i > 1 => i - 1 \in 1..Len(pPlayed)
          BY <3>1, <4>2
        <5> QED BY <3>1, <4>2, <5>1 DEF SpeaksInOrder
      <4> QED BY <3>1, <4>1, <4>2
    <3> QED BY <1>0, <3>2 DEF SpeaksInOrder
  <2> QED BY <2>1, <2>2
<1>3. OneAhead'
  BY <1>0 DEF OneAhead, JobsFollowRuns, LaneAndLatch, AnnouncedSoFar, Pipelined, Resolved,
         Coming, PipelineTypeOK
<1>4. CommittedHeard'
  BY <1>0 DEF CommittedHeard, ReadByPlayer, JobsFollowRuns, PipelineTypeOK
<1>5. HistoryComplete'
  BY <1>0 DEF HistoryComplete, Pipelined, Resolved, PipelineTypeOK
<1>6. CleanFinish'
  BY <1>0 DEF CleanFinish, Pipelined, Resolved, LaneAndLatch, OneAhead, PipelineTypeOK
<1>7. Pipelined'
  BY <1>0 DEF Pipelined, Resolved, JobsFollowRuns, PipelineTypeOK
<1>8. AnnouncedSoFar'
  BY <1>0 DEF AnnouncedSoFar, Pipelined, JobsFollowRuns, Resolved, CleanFinish,
         LaneAndLatch, PipelineTypeOK
<1>9. JobsFollowRuns'
  BY <1>0 DEF JobsFollowRuns, Pipelined, AnnouncedSoFar, LaneAndLatch, Resolved,
         PipelineTypeOK
<1>10. LaneAndLatch'
  <2>1. \A j \in Spoken : pJob'[j] = "lane" <=> j = pLane'
    BY <1>0 DEF LaneAndLatch, PipelineTypeOK
  <2>2. \A i, j \in Spoken : pJob'[i] = "queued" /\ pJob'[j] = "queued" => i = j
    BY <1>0 DEF LaneAndLatch, PipelineTypeOK
  <2>3. pLatch' # 0 => pLatch' >= 2 /\ pLatch' <= Len(pAnnounced')
    BY <1>0 DEF LaneAndLatch, AnnouncedSoFar, PipelineTypeOK
  <2>4. ~pStopped' /\ pLatch' # 0 =>
          /\ pLatch' = IF pPc' = "waiting" THEN pSaid' - 1 ELSE pSaid'
          /\ pPc' \notin {"releasing", "finished"}
          /\ pRun'[pLatch'] # "delivered"
          /\ pCut' \/ pJob'[pLatch'] \in {"none", "priming"}
    BY <1>0 DEF LaneAndLatch, JobsFollowRuns, Pipelined, PipelineTypeOK
  <2>5. ~pStopped' => \A j \in Spoken :
          j >= 2 /\ Coming(j)' /\ (j < pSaid' \/ pPc' \notin {"waiting", "releasing"}) =>
            pLatch' = j \/ pCut'
    BY <1>0 DEF LaneAndLatch, JobsFollowRuns, Pipelined, PipelineTypeOK, Coming
  <2>6. ~pStopped' /\ pPc' \in {"waiting", "releasing"} =>
          \/ pJob'[pSaid'] \in {"none", "priming", "lane"}
          \/ pCut' /\ pJob'[pSaid'] = "draining" /\ pRun'[pSaid'] # "delivered"
    BY <1>0 DEF LaneAndLatch, JobsFollowRuns, Pipelined, PipelineTypeOK
  <2> QED BY <2>1, <2>2, <2>3, <2>4, <2>5, <2>6 DEF LaneAndLatch
<1>11. PlaysAscend'
  <2> SUFFICES ASSUME ~pStopped, NEW j \in Spoken, Unplayed(j)', NEW i \in DOMAIN pPlayed'
                PROVE  pPlayed'[i] < j
    BY <1>0 DEF PlaysAscend
  <2>1. Unplayed(j) /\ j # s
    BY <1>0 DEF Unplayed, JobsFollowRuns
  <2>2. \A k \in DOMAIN pPlayed : pPlayed[k] < j
    BY <2>1 DEF PlaysAscend
  <2>3. s < j
    BY <1>0, <2>1, QueuedIsNext
  <2>4. CASE pPlayed' = pPlayed
    BY <2>2, <2>4
  <2>5. CASE pPlayed' # pPlayed
    <3>1. /\ DOMAIN pPlayed' = 1..(Len(pPlayed) + 1) /\ pPlayed'[Len(pPlayed) + 1] = s
          /\ \A k \in 1..Len(pPlayed) : pPlayed'[k] = pPlayed[k]
          /\ Len(pPlayed) \in Nat /\ DOMAIN pPlayed = 1..Len(pPlayed)
      BY <1>b, <2>5
    <3>2. i \in 1..Len(pPlayed) \/ i = Len(pPlayed) + 1
      BY <3>1
    <3> QED BY <2>2, <2>3, <3>1, <3>2
  <2> QED BY <2>4, <2>5
<1>12. ReadByPlayer'
  BY <1>0 DEF ReadByPlayer, JobsFollowRuns, OneAhead, LaneAndLatch, Pipelined, Resolved,
         CleanFinish, Coming, PipelineTypeOK
<1> QED BY <1>1, <1>2, <1>3, <1>4, <1>5, <1>6, <1>7, <1>8, <1>9, <1>10, <1>11, <1>12

\* The worker drains its queue as it goes.
LEMMA WorkerExitsKeeps ==
  ASSUME SpeakingInv, WorkerExits
  PROVE  SpeakingInv'
<1> USE DEF SpeakingInv, PipelineInv, Spoken
<1>0. /\ UNCHANGED <<pPc, pSaid, pGenErr, pFallback, pHistory, pReason, pStopped, pCut,
                     pRun, pAnnounced, pPlayed, pHeard, pUnread, pCommitted>>
      /\ pStopped /\ pLane' = 0 /\ pLatch' = 0 /\ pWorker' = FALSE
      /\ \A j \in Spoken : pJob'[j] = IF pJob[j] = "queued" \/ j = pLane THEN "draining"
           ELSE pJob[j]
      /\ pJob' \in [Spoken -> {"none", "priming", "enqueueing", "sending", "queued",
                               "lane", "playing", "draining", "over"}]
  BY DEF WorkerExits, Becomes, Moves, Resolved, Key, sentenceOnly, pumpOnly, producer,
         pump, PipelineTypeOK, Pipelined, JobsFollowRuns
<1>1. PipelineTypeOK'
  BY <1>0 DEF PipelineTypeOK, Pipelined
<1>2. SpeaksInOrder'
  BY <1>0 DEF SpeaksInOrder, AnnouncedSoFar, PlaysAscend, JobsFollowRuns, Unplayed,
         Pipelined, PipelineTypeOK
<1>3. OneAhead'
  BY <1>0 DEF OneAhead, JobsFollowRuns, LaneAndLatch, AnnouncedSoFar, Pipelined, Resolved,
         Coming, PipelineTypeOK
<1>4. CommittedHeard'
  BY <1>0 DEF CommittedHeard, ReadByPlayer, JobsFollowRuns, PipelineTypeOK
<1>5. HistoryComplete'
  BY <1>0 DEF HistoryComplete, Pipelined, Resolved, PipelineTypeOK
<1>6. CleanFinish'
  BY <1>0 DEF CleanFinish, Pipelined, Resolved, LaneAndLatch, OneAhead, PipelineTypeOK
<1>7. Pipelined'
  BY <1>0 DEF Pipelined, Resolved, LaneAndLatch, PipelineTypeOK
<1>8. AnnouncedSoFar'
  BY <1>0 DEF AnnouncedSoFar, Pipelined, JobsFollowRuns, Resolved, CleanFinish,
         LaneAndLatch, PipelineTypeOK
<1>9. JobsFollowRuns'
  <2>1. JobsFollowRuns /\ LaneAndLatch
    OBVIOUS
  <2>2. \A j \in Spoken : \/ pJob'[j] = pJob[j]
                          \/ pJob'[j] = "draining" /\ pJob[j] \in {"queued", "lane"}
    BY <1>0 DEF LaneAndLatch
  <2> HIDE DEF SpeakingInv, PipelineInv, Spoken
  <2> QED BY <1>0, <2>1, <2>2 DEF JobsFollowRuns
<1>10. LaneAndLatch'
  <2>1. \A j \in Spoken : pJob'[j] = "lane" <=> j = pLane'
    BY <1>0 DEF LaneAndLatch, PipelineTypeOK
  <2>2. \A i, j \in Spoken : pJob'[i] = "queued" /\ pJob'[j] = "queued" => i = j
    BY <1>0 DEF LaneAndLatch, PipelineTypeOK
  <2>3. pLatch' # 0 => pLatch' >= 2 /\ pLatch' <= Len(pAnnounced')
    BY <1>0 DEF LaneAndLatch, AnnouncedSoFar, PipelineTypeOK
  <2>4. ~pStopped' /\ pLatch' # 0 =>
          /\ pLatch' = IF pPc' = "waiting" THEN pSaid' - 1 ELSE pSaid'
          /\ pPc' \notin {"releasing", "finished"}
          /\ pRun'[pLatch'] # "delivered"
          /\ pCut' \/ pJob'[pLatch'] \in {"none", "priming"}
    BY <1>0 DEF LaneAndLatch, JobsFollowRuns, Pipelined, PipelineTypeOK
  <2>5. ~pStopped' => \A j \in Spoken :
          j >= 2 /\ Coming(j)' /\ (j < pSaid' \/ pPc' \notin {"waiting", "releasing"}) =>
            pLatch' = j \/ pCut'
    BY <1>0 DEF LaneAndLatch, JobsFollowRuns, Pipelined, PipelineTypeOK, Coming
  <2>6. ~pStopped' /\ pPc' \in {"waiting", "releasing"} =>
          \/ pJob'[pSaid'] \in {"none", "priming", "lane"}
          \/ pCut' /\ pJob'[pSaid'] = "draining" /\ pRun'[pSaid'] # "delivered"
    BY <1>0 DEF LaneAndLatch, JobsFollowRuns, Pipelined, PipelineTypeOK
  <2> QED BY <2>1, <2>2, <2>3, <2>4, <2>5, <2>6 DEF LaneAndLatch
<1>11. PlaysAscend'
  BY <1>0 DEF PlaysAscend, Unplayed, SpeaksInOrder, JobsFollowRuns, Pipelined,
         AnnouncedSoFar, LaneAndLatch, OneAhead, Resolved, PipelineTypeOK
<1>12. ReadByPlayer'
  BY <1>0 DEF ReadByPlayer, JobsFollowRuns, OneAhead, LaneAndLatch, Pipelined, Resolved,
         CleanFinish, Coming, PipelineTypeOK
<1> QED BY <1>1, <1>2, <1>3, <1>4, <1>5, <1>6, <1>7, <1>8, <1>9, <1>10, <1>11, <1>12

\* The release of a held sentence finds it, or leaves the latch its prime will find.
LEMMA ReleaseLookaheadKeeps ==
  ASSUME SpeakingInv, ReleaseLookahead
  PROVE  SpeakingInv'
<1> USE DEF SpeakingInv, PipelineInv, Spoken
<1>0. /\ UNCHANGED <<pSaid, pGenErr, pFallback, pHistory, pReason, pStopped, pWorker, pCut,
                     pRun, pAnnounced, pPlayed, pHeard, pUnread, pCommitted>>
      /\ pPc = "releasing" /\ pSaid \in Spoken /\ pSaid >= 2
      /\ \/ pLane = pSaid /\ pLane' = 0 /\ pPc' = "handing" /\ UNCHANGED pLatch
            /\ \A j \in Spoken : pJob'[j] = IF j = pSaid THEN "enqueueing" ELSE pJob[j]
         \/ pLane # pSaid /\ pLatch' = pSaid /\ pPc' = "generating" /\ UNCHANGED <<pLane,
                                                                                   pJob>>
      /\ pJob' \in [Spoken -> {"none", "priming", "enqueueing", "sending", "queued",
                               "lane", "playing", "draining", "over"}]
  BY DEF ReleaseLookahead, Latched, Becomes, Moves, Resolved, Key, sentenceOnly, pumpOnly,
         producer, pump, PipelineTypeOK, Pipelined, JobsFollowRuns
<1>1. PipelineTypeOK'
  BY <1>0 DEF PipelineTypeOK, Pipelined
<1>2. SpeaksInOrder'
  BY <1>0 DEF SpeaksInOrder, AnnouncedSoFar, PlaysAscend, JobsFollowRuns, Unplayed,
         Pipelined, PipelineTypeOK
<1>3. OneAhead'
  BY <1>0 DEF OneAhead, JobsFollowRuns, LaneAndLatch, AnnouncedSoFar, Pipelined, Resolved,
         Coming, PipelineTypeOK
<1>4. CommittedHeard'
  BY <1>0 DEF CommittedHeard, ReadByPlayer, JobsFollowRuns, PipelineTypeOK
<1>5. HistoryComplete'
  BY <1>0 DEF HistoryComplete, Pipelined, Resolved, PipelineTypeOK
<1>6. CleanFinish'
  BY <1>0 DEF CleanFinish, Pipelined, Resolved, LaneAndLatch, OneAhead, PipelineTypeOK
<1>7. Pipelined'
  BY <1>0 DEF Pipelined, Resolved, JobsFollowRuns, PipelineTypeOK
<1>8. AnnouncedSoFar'
  BY <1>0 DEF AnnouncedSoFar, Pipelined, JobsFollowRuns, Resolved, CleanFinish,
         LaneAndLatch, PipelineTypeOK
<1>9. JobsFollowRuns'
  BY <1>0 DEF JobsFollowRuns, Pipelined, AnnouncedSoFar, LaneAndLatch, Resolved,
         PipelineTypeOK
<1>10. LaneAndLatch'
  <2>1. \A j \in Spoken : pJob'[j] = "lane" <=> j = pLane'
    BY <1>0 DEF LaneAndLatch, PipelineTypeOK
  <2>2. \A i, j \in Spoken : pJob'[i] = "queued" /\ pJob'[j] = "queued" => i = j
    BY <1>0 DEF LaneAndLatch, PipelineTypeOK
  <2>3. pLatch' # 0 => pLatch' >= 2 /\ pLatch' <= Len(pAnnounced')
    BY <1>0 DEF LaneAndLatch, AnnouncedSoFar, PipelineTypeOK
  <2>4. ~pStopped' /\ pLatch' # 0 =>
          /\ pLatch' = IF pPc' = "waiting" THEN pSaid' - 1 ELSE pSaid'
          /\ pPc' \notin {"releasing", "finished"}
          /\ pRun'[pLatch'] # "delivered"
          /\ pCut' \/ pJob'[pLatch'] \in {"none", "priming"}
    BY <1>0 DEF LaneAndLatch, JobsFollowRuns, Pipelined, PipelineTypeOK
  <2>5. ~pStopped' => \A j \in Spoken :
          j >= 2 /\ Coming(j)' /\ (j < pSaid' \/ pPc' \notin {"waiting", "releasing"}) =>
            pLatch' = j \/ pCut'
    BY <1>0 DEF LaneAndLatch, JobsFollowRuns, Pipelined, PipelineTypeOK, Coming
  <2>6. ~pStopped' /\ pPc' \in {"waiting", "releasing"} =>
          \/ pJob'[pSaid'] \in {"none", "priming", "lane"}
          \/ pCut' /\ pJob'[pSaid'] = "draining" /\ pRun'[pSaid'] # "delivered"
    BY <1>0 DEF LaneAndLatch, JobsFollowRuns, Pipelined, PipelineTypeOK
  <2> QED BY <2>1, <2>2, <2>3, <2>4, <2>5, <2>6 DEF LaneAndLatch
<1>11. PlaysAscend'
  BY <1>0 DEF PlaysAscend, Unplayed, SpeaksInOrder, JobsFollowRuns, Pipelined,
         AnnouncedSoFar, LaneAndLatch, OneAhead, Resolved, PipelineTypeOK
<1>12. ReadByPlayer'
  BY <1>0 DEF ReadByPlayer, JobsFollowRuns, OneAhead, LaneAndLatch, Pipelined, Resolved,
         CleanFinish, Coming, PipelineTypeOK
<1> QED BY <1>1, <1>2, <1>3, <1>4, <1>5, <1>6, <1>7, <1>8, <1>9, <1>10, <1>11, <1>12

\* The first half of the end: what was spoken is committed.
LEMMA CommitSpokenKeeps ==
  ASSUME SpeakingInv, CommitSpoken
  PROVE  SpeakingInv'
<1> USE DEF SpeakingInv, PipelineInv, Spoken
<1>0. /\ UNCHANGED <<pReason, pLane, pLatch, pStopped, pWorker, pCut, pJob, pAnnounced,
                     pPlayed, pHeard, pUnread, pCommitted>>
      /\ pPc = "draining" /\ pPc' = "flushing" /\ pHistory' = pCommitted
      /\ \A j \in 1..pSaid : Resolved(j)
      /\ \/ UNCHANGED <<pSaid, pFallback, pRun, pGenErr>>
         \/ /\ pSaid = 0 /\ 1 \in Spoken /\ pSaid' = 1 /\ pFallback' = TRUE
                 /\ pGenErr' = FALSE
            /\ pRun' = [pRun EXCEPT ![1] = "spawned"]
            /\ \A j \in Spoken : pRun'[j] = IF j = 1 THEN "spawned" ELSE pRun[j]
  BY DEF CommitSpoken, Becomes, Moves, Resolved, Key, sentenceOnly, pumpOnly, producer,
         pump, PipelineTypeOK, Pipelined, JobsFollowRuns
<1>1. PipelineTypeOK'
  <2>1. pRun' \in [Spoken -> {"none", "spawned", "starting", "streaming", "drained",
                              "broken",
                              "delivered", "failed", "cut"}]
    BY <1>0 DEF PipelineTypeOK
  <2>2. pSaid' \in 0..MaxSpoken + 1
    BY <1>0 DEF PipelineTypeOK
  <2>3. pFallback' \in BOOLEAN /\ pGenErr' \in BOOLEAN
    BY <1>0 DEF PipelineTypeOK
  <2> QED BY <1>0, <2>1, <2>2, <2>3 DEF PipelineTypeOK
<1>2. SpeaksInOrder'
  BY <1>0 DEF SpeaksInOrder, AnnouncedSoFar, PlaysAscend, JobsFollowRuns, Unplayed,
         Pipelined, PipelineTypeOK
<1>3. OneAhead'
  BY <1>0 DEF OneAhead, JobsFollowRuns, LaneAndLatch, AnnouncedSoFar, Pipelined, Resolved,
         Coming, PipelineTypeOK
<1>4. CommittedHeard'
  BY <1>0 DEF CommittedHeard, ReadByPlayer, JobsFollowRuns, PipelineTypeOK
<1>5. HistoryComplete'
  BY <1>0 DEF HistoryComplete, Pipelined, Resolved, PipelineTypeOK
<1>6. CleanFinish'
  BY <1>0 DEF CleanFinish, Pipelined, Resolved, LaneAndLatch, OneAhead, PipelineTypeOK
<1>7. Pipelined'
  <2>1. CASE UNCHANGED <<pSaid, pFallback, pRun, pGenErr>>
    BY <1>0, <2>1 DEF Pipelined, Resolved, PipelineTypeOK
  <2>2. CASE pSaid = 0 /\ 1 \in Spoken /\ pSaid' = 1 /\ pFallback'
             /\ \A j \in Spoken : pRun'[j] = IF j = 1 THEN "spawned" ELSE pRun[j]
    BY <1>0, <2>2 DEF Pipelined, Resolved, PipelineTypeOK
  <2> QED BY <1>0, <2>1, <2>2
<1>8. AnnouncedSoFar'
  BY <1>0 DEF AnnouncedSoFar, Pipelined, JobsFollowRuns, Resolved, CleanFinish,
         LaneAndLatch, PipelineTypeOK
<1>9. JobsFollowRuns'
  BY <1>0 DEF JobsFollowRuns, Pipelined, AnnouncedSoFar, LaneAndLatch, Resolved,
         PipelineTypeOK
<1>10. LaneAndLatch'
  BY <1>0 DEF LaneAndLatch, JobsFollowRuns, OneAhead, Pipelined, AnnouncedSoFar, Resolved,
         Coming, PipelineTypeOK
<1>11. PlaysAscend'
  BY <1>0 DEF PlaysAscend, Unplayed, SpeaksInOrder, JobsFollowRuns, Pipelined,
         AnnouncedSoFar, LaneAndLatch, OneAhead, Resolved, PipelineTypeOK
<1>12. ReadByPlayer'
  BY <1>0 DEF ReadByPlayer, JobsFollowRuns, OneAhead, LaneAndLatch, Pipelined, Resolved,
         CleanFinish, Coming, PipelineTypeOK
<1> QED BY <1>1, <1>2, <1>3, <1>4, <1>5, <1>6, <1>7, <1>8, <1>9, <1>10, <1>11, <1>12

\* The second half: the tail is awaited, nothing of the turn is left, the history is read.
LEMMA FlushAndFinishKeeps ==
  ASSUME SpeakingInv, FlushAndFinish
  PROVE  SpeakingInv'
<1> USE DEF SpeakingInv, PipelineInv, Spoken
<1>0. /\ UNCHANGED <<pSaid, pGenErr, pFallback, pHistory, pStopped, pWorker, pCut, pRun,
                     pAnnounced, pPlayed, pHeard, pUnread, pCommitted>>
      /\ pPc = "flushing" /\ pPc' = "finished" /\ \A j \in Spoken : j <= pSaid
           => Resolved(j)
      /\ pReason' \in {"none", "provider_error", "tts_error"} /\ (~pCut
             /\ (\E j \in Spoken : pRun[j] = "failed") => pReason' # "none")
      /\ pLane' \in {0, pLane} /\ pLatch' \in {0, pLatch}
      /\ \/ pLane' = pLane /\ pJob' = pJob
         \/ pLane' = 0 /\ \A j \in Spoken : pJob'[j] = IF j = pLane THEN "draining"
              ELSE pJob[j]
      /\ ~pStopped => pLane = 0 /\ pLatch' = 0
      /\ pJob' \in [Spoken -> {"none", "priming", "enqueueing", "sending", "queued",
                               "lane", "playing", "draining", "over"}]
  <2>1. pPc = "flushing" /\ pPc' = "finished" /\ (pSaid > 0 => Resolved(pSaid))
        /\ DiscardLookahead(Held(pSaid))
    BY DEF FlushAndFinish
  <2>2. \A j \in Spoken : j <= pSaid => Resolved(j)
    BY <2>1 DEF Pipelined, PipelineTypeOK
  <2>3. /\ pReason' \in {"none", "provider_error", "tts_error"}
        /\ ~pCut /\ (\E j \in Spoken : pRun[j] = "failed") => pReason' # "none"
    BY DEF FlushAndFinish
  <2>4. UNCHANGED <<pSaid, pGenErr, pFallback, pHistory, pStopped, pWorker, pCut, pRun,
                    pAnnounced, pPlayed, pHeard, pUnread, pCommitted>>
    BY DEF FlushAndFinish
  <2>5. pLane \in {0} \cup Spoken /\ pLatch \in {0} \cup Spoken
        /\ pSaid \in 0..MaxSpoken + 1
    BY DEF PipelineTypeOK
  <2>6. ~pStopped => pLane = 0
    BY <2>1 DEF OneAhead
  <2>7. ~pStopped /\ pLatch # 0 => pLatch = pSaid /\ pSaid >= 2
    BY <2>1, <2>5 DEF LaneAndLatch
  <2>8. /\ \/ pLane' = pLane /\ pJob' = pJob
           \/ pLane # 0 /\ pLane' = 0 /\ pJob' = [pJob EXCEPT ![pLane] = "draining"]
        /\ pLatch' \in {0, pLatch} /\ (pLatch \in Held(pSaid) => pLatch' = 0)
    BY <2>1 DEF DiscardLookahead, Moves
  <2>9. ~pStopped => pLatch' = 0
    BY <2>5, <2>7, <2>8 DEF Held, Key
  <2>10. pJob \in [Spoken -> {"none", "priming", "enqueueing", "sending", "queued", "lane",
                              "playing", "draining", "over"}]
    BY DEF PipelineTypeOK
  <2>11. /\ pJob' \in [Spoken -> {"none", "priming", "enqueueing", "sending", "queued",
                                  "lane", "playing", "draining", "over"}]
         /\ \/ pLane' = pLane /\ pJob' = pJob
            \/ pLane' = 0 /\ \A j \in Spoken : pJob'[j] = IF j = pLane THEN "draining"
                 ELSE pJob[j]
    BY <2>5, <2>8, <2>10
  <2> QED BY <2>1, <2>2, <2>3, <2>4, <2>6, <2>8, <2>9, <2>11
<1>1. PipelineTypeOK'
  BY <1>0 DEF PipelineTypeOK, Pipelined
<1>2. SpeaksInOrder'
  BY <1>0 DEF SpeaksInOrder, AnnouncedSoFar, PlaysAscend, JobsFollowRuns, Unplayed,
         Pipelined, PipelineTypeOK
<1>3. OneAhead'
  BY <1>0 DEF OneAhead, JobsFollowRuns, LaneAndLatch, AnnouncedSoFar, Pipelined, Resolved,
         Coming, PipelineTypeOK
<1>4. CommittedHeard'
  BY <1>0 DEF CommittedHeard, ReadByPlayer, JobsFollowRuns, PipelineTypeOK
<1>5. HistoryComplete'
  BY <1>0 DEF HistoryComplete, Pipelined, Resolved, PipelineTypeOK
<1>6. CleanFinish'
  BY <1>0 DEF CleanFinish, Pipelined, Resolved, LaneAndLatch, OneAhead, PipelineTypeOK
<1>7. Pipelined'
  BY <1>0 DEF Pipelined, Resolved, JobsFollowRuns, PipelineTypeOK
<1>8. AnnouncedSoFar'
  BY <1>0 DEF AnnouncedSoFar, Pipelined, JobsFollowRuns, Resolved, CleanFinish,
         LaneAndLatch, PipelineTypeOK
<1>9. JobsFollowRuns'
  BY <1>0 DEF JobsFollowRuns, Pipelined, AnnouncedSoFar, LaneAndLatch, Resolved,
         PipelineTypeOK
<1>10. LaneAndLatch'
  BY <1>0 DEF LaneAndLatch, JobsFollowRuns, OneAhead, Pipelined, AnnouncedSoFar, Resolved,
         Coming, PipelineTypeOK
<1>11. PlaysAscend'
  BY <1>0 DEF PlaysAscend, Unplayed, SpeaksInOrder, JobsFollowRuns, Pipelined,
         AnnouncedSoFar, LaneAndLatch, OneAhead, Resolved, PipelineTypeOK
<1>12. ReadByPlayer'
  BY <1>0 DEF ReadByPlayer, JobsFollowRuns, OneAhead, LaneAndLatch, Pipelined, Resolved,
         CleanFinish, Coming, PipelineTypeOK
<1> QED BY <1>1, <1>2, <1>3, <1>4, <1>5, <1>6, <1>7, <1>8, <1>9, <1>10, <1>11, <1>12

\* The producer learns what became of the sentence before, and announces the held one,
\* discards it, or clears a latch.
LEMMA PreviousResolvedKeeps ==
  ASSUME SpeakingInv, PreviousResolved
  PROVE  SpeakingInv'
<1> USE DEF SpeakingInv, PipelineInv, Spoken
<1>0. /\ UNCHANGED <<pSaid, pGenErr, pFallback, pHistory, pReason, pStopped, pWorker, pCut,
                     pRun, pPlayed, pHeard, pUnread, pCommitted>>
      /\ pPc = "waiting" /\ pSaid - 1 \in Spoken /\ pSaid \in Spoken /\ pSaid >= 2
           /\ Resolved(pSaid - 1)
      /\ \/ pLane' = pLane /\ pJob' = pJob
         \/ (pCut \/ pStopped) /\ pLane' = 0 /\ \A j \in Spoken : pJob'[j] = IF j = pLane
              THEN "draining" ELSE pJob[j]
      /\ pLatch' \in {0, pLatch} /\ (~pStopped => pLatch' = 0)
      /\ pPc' = IF pRun[pSaid - 1] = "cut" THEN "draining" ELSE "releasing"
      /\ pRun[pSaid - 1] = "cut" => pCut /\ (~pStopped => pLane' = 0)
      /\ pAnnounced' = IF pRun[pSaid - 1] = "cut" THEN pAnnounced ELSE Append(pAnnounced,
             pSaid)
      /\ pJob' \in [Spoken -> {"none", "priming", "enqueueing", "sending", "queued",
                               "lane", "playing", "draining", "over"}]
  <2>1. pPc = "waiting" /\ Resolved(pSaid - 1)
    BY DEF PreviousResolved
  <2>2. pSaid \in Nat /\ pSaid - 1 \in Spoken /\ pSaid \in Spoken /\ pSaid >= 2
    BY <2>1 DEF Pipelined, PipelineTypeOK
  <2>3. UNCHANGED <<pSaid, pGenErr, pFallback, pHistory, pReason, pStopped, pWorker, pCut,
                    pRun, pPlayed, pHeard, pUnread, pCommitted>>
    BY DEF PreviousResolved
  <2>4. pLane \in {0} \cup Spoken /\ pLatch \in {0} \cup Spoken /\ (pRun[pSaid - 1] = "cut"
        => pCut)
    BY <2>2 DEF PipelineTypeOK, JobsFollowRuns
  <2>5. ~pStopped => pLane \in {0, pSaid}
    BY DEF OneAhead
  <2>6. ~pStopped /\ pLatch # 0 => pLatch = pSaid - 1 /\ pSaid - 1 >= 2
        /\ pRun[pLatch] # "delivered"
    BY <2>1, <2>2, <2>4 DEF LaneAndLatch
  <2>7. pJob \in [Spoken -> {"none", "priming", "enqueueing", "sending", "queued", "lane",
                             "playing", "draining", "over"}]
    BY DEF PipelineTypeOK
  <2>8. CASE pRun[pSaid - 1] = "cut"
    <3>1. /\ DiscardLookahead({Key(pSaid)} \cup Held(pSaid - 1)) /\ pPc' = "draining"
               /\ pAnnounced' = pAnnounced
      BY <2>8 DEF PreviousResolved
    <3>2. /\ \/ pLane' = pLane /\ pJob' = pJob /\ (pLane # pSaid \/ pLane = 0)
             \/ pLane # 0 /\ pLane' = 0 /\ pJob' = [pJob EXCEPT ![pLane] = "draining"]
          /\ pLatch' \in {0, pLatch} /\ (pLatch \in Held(pSaid - 1) => pLatch' = 0)
      BY <3>1 DEF DiscardLookahead, Moves, Key
    <3>3. /\ pJob' \in [Spoken -> {"none", "priming", "enqueueing", "sending", "queued",
                                   "lane", "playing", "draining", "over"}]
          /\ \/ pLane' = pLane /\ pJob' = pJob
             \/ pLane' = 0 /\ \A j \in Spoken : pJob'[j] = IF j = pLane THEN "draining"
                  ELSE pJob[j]
      BY <2>4, <2>7, <3>2
    <3>4. ~pStopped => pLatch' = 0 /\ pLane' = 0
      BY <2>2, <2>4, <2>5, <2>6, <3>2 DEF Held, Key
    <3> QED BY <2>1, <2>2, <2>3, <2>4, <2>8, <3>1, <3>2, <3>3, <3>4
  <2>9. CASE pRun[pSaid - 1] # "cut"
    <3>1. /\ IF pRun[pSaid - 1] = "failed" THEN DiscardLookahead(Held(pSaid - 1))
               ELSE UNCHANGED <<pLane, pLatch, pJob>>
          /\ pPc' = "releasing" /\ pAnnounced' = Append(pAnnounced, pSaid)
      BY <2>9 DEF PreviousResolved
    <3>2. /\ \/ pLane' = pLane /\ pJob' = pJob
             \/ pLane # 0 /\ pLane \in Held(pSaid - 1) /\ pLane' = 0
                  /\ pJob' = [pJob EXCEPT ![pLane] = "draining"]
          /\ pLatch' \in {0, pLatch}
          /\ pRun[pSaid - 1] = "failed" /\ pLatch \in Held(pSaid - 1) => pLatch' = 0
      BY <3>1 DEF DiscardLookahead, Moves, Key
    <3>3. /\ pJob' \in [Spoken -> {"none", "priming", "enqueueing", "sending", "queued",
                                   "lane", "playing", "draining", "over"}]
          /\ \/ pLane' = pLane /\ pJob' = pJob
             \/ pLane' = 0 /\ pLane \in Held(pSaid - 1) /\ \A j \in Spoken : pJob'[j] =
                  IF j = pLane THEN "draining" ELSE pJob[j]
      BY <2>4, <2>7, <3>2
    <3>4. pStopped \/ ~(pLane \in Held(pSaid - 1))
      BY <2>2, <2>5 DEF Held, Key
    <3>5. ~pStopped => pLatch' = 0
      <4> SUFFICES ASSUME ~pStopped, pLatch # 0 PROVE pLatch' = 0
        BY <3>2
      <4>1. pLatch = pSaid - 1 /\ pLatch \in Held(pSaid - 1)
        BY <2>2, <2>6 DEF Held, Key
      <4>2. pRun[pSaid - 1] = "failed"
        BY <2>1, <2>6, <2>9, <4>1 DEF Resolved
      <4> QED BY <3>2, <4>1, <4>2
    <3> QED BY <2>1, <2>2, <2>3, <2>9, <3>1, <3>2, <3>3, <3>4, <3>5
  <2> QED BY <2>8, <2>9
<1>b. /\ pAnnounced' \in Seq(Spoken)
      /\ Len(pAnnounced) \in Nat /\ Len(pAnnounced') \in Nat
           /\ Len(pAnnounced) <= Len(pAnnounced')
      /\ \A i \in DOMAIN pAnnounced' : pAnnounced'[i] = i
  <2>1. pAnnounced \in Seq(Spoken) /\ pSaid \in Spoken /\ pSaid - 1 \in Nat
        /\ pSaid = (pSaid - 1) + 1
    BY <1>0 DEF PipelineTypeOK
  <2>2. \A i \in DOMAIN pAnnounced : pAnnounced[i] = i
    BY DEF SpeaksInOrder
  <2>3. CASE pRun[pSaid - 1] = "cut"
    <3>1. pAnnounced' = pAnnounced
      BY <1>0, <2>3
    <3> HIDE DEF SpeakingInv, PipelineInv, Spoken
    <3> QED BY <3>1, <2>1, <2>2
  <2>4. CASE pRun[pSaid - 1] # "cut"
    <3>1. Len(pAnnounced) = pSaid - 1
      BY <1>0, <2>4 DEF AnnouncedSoFar, Resolved, Pipelined, PipelineTypeOK
    <3>2. pAnnounced' = Append(pAnnounced, pSaid)
      BY <1>0, <2>4
    <3> HIDE DEF SpeakingInv, PipelineInv, Spoken
    <3>3. /\ pAnnounced' \in Seq(Spoken) /\ Len(pAnnounced) \in Nat
               /\ Len(pAnnounced') = Len(pAnnounced) + 1
          /\ DOMAIN pAnnounced = 1..Len(pAnnounced)
               /\ DOMAIN pAnnounced' = 1..(Len(pAnnounced) + 1)
          /\ pAnnounced'[Len(pAnnounced) + 1] = pSaid
          /\ \A i \in 1..Len(pAnnounced) : pAnnounced'[i] = pAnnounced[i]
      BY <2>1, <3>2, AppendGives
    <3>4. ASSUME NEW i \in DOMAIN pAnnounced' PROVE pAnnounced'[i] = i
      <4>1. i \in 1..Len(pAnnounced) \/ i = Len(pAnnounced) + 1
        BY <3>3
      <4>2. i \in 1..Len(pAnnounced) => pAnnounced'[i] = i
        BY <2>2, <3>3
      <4>3. Len(pAnnounced) + 1 = pSaid
        BY <2>1, <3>1
      <4> QED BY <3>3, <4>1, <4>2, <4>3
    <3>5. Len(pAnnounced') \in Nat /\ Len(pAnnounced) <= Len(pAnnounced')
      BY <3>3
    <3> QED BY <3>3, <3>4, <3>5
  <2> QED BY <2>3, <2>4
<1>1. PipelineTypeOK'
  BY <1>0, <1>b DEF PipelineTypeOK
<1>2. SpeaksInOrder'
  <2>4. \A i \in DOMAIN pPlayed : pPlayed[i] <= Len(pAnnounced')
    <3> TAKE i \in DOMAIN pPlayed
    <3>1. pPlayed[i] \in Int /\ pPlayed[i] <= Len(pAnnounced)
      BY DEF SpeaksInOrder, PipelineTypeOK
    <3> QED BY <1>b, <3>1
  <2> QED BY <1>0, <1>b, <2>4 DEF SpeaksInOrder
<1>3. OneAhead'
  BY <1>0 DEF OneAhead, JobsFollowRuns, LaneAndLatch, AnnouncedSoFar, Pipelined, Resolved,
         Coming, PipelineTypeOK
<1>4. CommittedHeard'
  BY <1>0 DEF CommittedHeard, ReadByPlayer, JobsFollowRuns, PipelineTypeOK
<1>5. HistoryComplete'
  BY <1>0 DEF HistoryComplete, Pipelined, Resolved, PipelineTypeOK
<1>6. CleanFinish'
  BY <1>0 DEF CleanFinish, Pipelined, Resolved, LaneAndLatch, OneAhead, PipelineTypeOK
<1>7. Pipelined'
  BY <1>0 DEF Pipelined, Resolved, JobsFollowRuns, PipelineTypeOK
<1>8. AnnouncedSoFar'
  BY <1>0 DEF AnnouncedSoFar, Pipelined, JobsFollowRuns, Resolved, CleanFinish,
         LaneAndLatch, PipelineTypeOK
<1>9. JobsFollowRuns'
  BY <1>0 DEF JobsFollowRuns, Pipelined, AnnouncedSoFar, LaneAndLatch, Resolved,
         PipelineTypeOK
<1>10. LaneAndLatch'
  <2>1. \A j \in Spoken : pJob'[j] = "lane" <=> j = pLane'
    BY <1>0 DEF LaneAndLatch, PipelineTypeOK
  <2>2. \A i, j \in Spoken : pJob'[i] = "queued" /\ pJob'[j] = "queued" => i = j
    BY <1>0 DEF LaneAndLatch, PipelineTypeOK
  <2>3. pLatch' # 0 => pLatch' >= 2 /\ pLatch' <= Len(pAnnounced')
    <3>1. pLatch # 0 => pLatch \in Nat /\ pLatch >= 2 /\ pLatch <= Len(pAnnounced)
      BY DEF LaneAndLatch, PipelineTypeOK
    <3> QED BY <1>0, <1>b, <3>1
  <2>4. ~pStopped' /\ pLatch' # 0 =>
          /\ pLatch' = IF pPc' = "waiting" THEN pSaid' - 1 ELSE pSaid'
          /\ pPc' \notin {"releasing", "finished"}
          /\ pRun'[pLatch'] # "delivered"
          /\ pCut' \/ pJob'[pLatch'] \in {"none", "priming"}
    BY <1>0 DEF LaneAndLatch, JobsFollowRuns, Pipelined, PipelineTypeOK
  <2>5. ~pStopped' => \A j \in Spoken :
          j >= 2 /\ Coming(j)' /\ (j < pSaid' \/ pPc' \notin {"waiting", "releasing"}) =>
            pLatch' = j \/ pCut'
    <3>1. \A j \in Spoken : j < pSaid => Resolved(j)
      BY <1>0 DEF Pipelined, PipelineTypeOK
    <3>2. pCut \/ pPc' = "releasing"
      BY <1>0
    <3>3. \A j \in Spoken : Resolved(j) => ~Coming(j)'
      BY <1>0 DEF JobsFollowRuns, Coming, Resolved
    <3> QED BY <1>0, <3>1, <3>2, <3>3
  <2>6. ~pStopped' /\ pPc' \in {"waiting", "releasing"} =>
          \/ pJob'[pSaid'] \in {"none", "priming", "lane"}
          \/ pCut' /\ pJob'[pSaid'] = "draining" /\ pRun'[pSaid'] # "delivered"
    BY <1>0 DEF LaneAndLatch, JobsFollowRuns, Pipelined, PipelineTypeOK, Coming, OneAhead
  <2> QED BY <2>1, <2>2, <2>3, <2>4, <2>5, <2>6 DEF LaneAndLatch
<1>11. PlaysAscend'
  BY <1>0 DEF PlaysAscend, Unplayed, SpeaksInOrder, JobsFollowRuns, Pipelined,
         AnnouncedSoFar, LaneAndLatch, OneAhead, Resolved, PipelineTypeOK
<1>12. ReadByPlayer'
  BY <1>0 DEF ReadByPlayer, JobsFollowRuns, OneAhead, LaneAndLatch, Pipelined, Resolved,
         CleanFinish, Coming, PipelineTypeOK
<1> QED BY <1>1, <1>2, <1>3, <1>4, <1>5, <1>6, <1>7, <1>8, <1>9, <1>10, <1>11, <1>12

\* A step that changes nothing of the pipeline keeps it.
LEMMA SpeakingStutters ==
  ASSUME SpeakingInv, UNCHANGED pipelineVars
  PROVE  SpeakingInv'
<1> USE DEF SpeakingInv, PipelineInv, pipelineVars, producer, pump
<1>1. PipelineTypeOK'
  BY DEF PipelineTypeOK
<1>2. SpeaksInOrder'
  BY DEF SpeaksInOrder
<1>3. OneAhead'
  BY DEF OneAhead
<1>4. CommittedHeard'
  BY DEF CommittedHeard
<1>5. HistoryComplete'
  BY DEF HistoryComplete
<1>6. CleanFinish'
  BY DEF CleanFinish, Resolved
<1>7. Pipelined'
  BY DEF Pipelined, Resolved
<1>8. AnnouncedSoFar'
  BY DEF AnnouncedSoFar
<1>9. JobsFollowRuns'
  BY DEF JobsFollowRuns
<1>10. LaneAndLatch'
  BY DEF LaneAndLatch, Coming
<1>11. PlaysAscend'
  BY DEF PlaysAscend, Unplayed
<1>12. ReadByPlayer'
  BY DEF ReadByPlayer
<1> QED BY <1>1, <1>2, <1>3, <1>4, <1>5, <1>6, <1>7, <1>8, <1>9, <1>10, <1>11, <1>12

\* A turn begins so.
LEMMA SpeakingStarts == PipelineInit => SpeakingInv
<1> SUFFICES ASSUME PipelineInit PROVE SpeakingInv
  OBVIOUS
<1>1. PipelineTypeOK
  <2> USE DEF PipelineInit
  <2>1. pSaid \in 0..MaxSpoken + 1 /\ pLane \in {0} \cup Spoken
        /\ pLatch \in {0} \cup Spoken
    BY DEF Spoken
  <2>2. pAnnounced \in Seq(Spoken) /\ pPlayed \in Seq(Spoken)
    OBVIOUS
  <2>3. pGenErr \in BOOLEAN /\ pFallback \in BOOLEAN /\ pCut \in BOOLEAN
        /\ pStopped \in BOOLEAN /\ pWorker \in BOOLEAN
    OBVIOUS
  <2>4. /\ pRun \in [Spoken -> {"none", "spawned", "starting", "streaming", "drained",
                                "broken", "delivered", "failed", "cut"}]
        /\ pJob \in [Spoken -> {"none", "priming", "enqueueing", "sending", "queued",
                                "lane", "playing", "draining", "over"}]
    OBVIOUS
  <2> QED BY <2>1, <2>2, <2>3, <2>4 DEF PipelineTypeOK
<1>2. SpeaksInOrder /\ OneAhead /\ CommittedHeard /\ HistoryComplete /\ CleanFinish
  BY DEF PipelineInit, SpeaksInOrder, OneAhead, CommittedHeard, HistoryComplete,
         CleanFinish, Spoken
<1>3. Pipelined /\ AnnouncedSoFar
  BY DEF PipelineInit, Pipelined, AnnouncedSoFar, Spoken
<1>4. JobsFollowRuns /\ LaneAndLatch
  BY DEF PipelineInit, JobsFollowRuns, LaneAndLatch, Coming, Spoken
<1>5. PlaysAscend /\ ReadByPlayer
  BY DEF PipelineInit, PlaysAscend, ReadByPlayer, Spoken
<1> QED BY <1>1, <1>2, <1>3, <1>4, <1>5 DEF SpeakingInv, PipelineInv

\* Every step of the producer, of a sentence and of the pump keeps it.
LEMMA SpeakingStep == SpeakingInv /\ [PipelineNext]_pipelineVars => SpeakingInv'
<1> SUFFICES ASSUME SpeakingInv, [PipelineNext]_pipelineVars PROVE SpeakingInv'
  OBVIOUS
<1>1. CASE DispatchSentence
  BY <1>1, DispatchSentenceKeeps
<1>2. CASE PreviousResolved
  BY <1>2, PreviousResolvedKeeps
<1>3. CASE ReleaseLookahead
  BY <1>3, ReleaseLookaheadKeeps
<1>4. CASE GenerationEnds
  BY <1>4, GenerationEndsKeeps
<1>5. CASE CommitSpoken
  BY <1>5, CommitSpokenKeeps
<1>6. CASE FlushAndFinish
  BY <1>6, FlushAndFinishKeeps
<1>7. CASE StopPump
  BY <1>7, StopPumpKeeps
<1>8. CASE WorkerExits
  BY <1>8, WorkerExitsKeeps
<1>9. CASE CutTurn
  BY <1>9, CutTurnKeeps
<1>10. ASSUME NEW s \in Spoken, Begin(s) PROVE SpeakingInv'
  BY <1>10, BeginKeeps
<1>11. ASSUME NEW s \in Spoken, StartFails(s) PROVE SpeakingInv'
  BY <1>11, StartFailsKeeps
<1>12. ASSUME NEW s \in Spoken, StartStream(s) PROVE SpeakingInv'
  BY <1>12, StartStreamKeeps
<1>13. ASSUME NEW s \in Spoken, StreamEnds(s) PROVE SpeakingInv'
  BY <1>13, StreamEndsKeeps
<1>14. ASSUME NEW s \in Spoken, StreamCut(s) PROVE SpeakingInv'
  BY <1>14, StreamCutKeeps
<1>15. ASSUME NEW s \in Spoken, Resolve(s) PROVE SpeakingInv'
  BY <1>15, ResolveKeeps
<1>16. ASSUME NEW s \in Spoken, StreamBreaks(s) PROVE SpeakingInv'
  BY <1>16, StreamBreaksKeeps
<1>17. ASSUME NEW s \in Spoken, Prime(s) PROVE SpeakingInv'
  BY <1>17, PrimeKeeps
<1>18. ASSUME NEW s \in Spoken, Enqueue(s) PROVE SpeakingInv'
  BY <1>18, EnqueueKeeps
<1>19. ASSUME NEW s \in Spoken, Play(s) PROVE SpeakingInv'
  BY <1>19, PlayKeeps
<1>20. ASSUME NEW s \in Spoken, PlaybackEnds(s) PROVE SpeakingInv'
  BY <1>20, PlaybackEndsKeeps
<1>21. ASSUME NEW s \in Spoken, PlaybackBreaks(s) PROVE SpeakingInv'
  BY <1>21, PlaybackBreaksKeeps
<1>22. CASE UNCHANGED pipelineVars
  BY <1>22, SpeakingStutters
<1> QED BY <1>1, <1>2, <1>3, <1>4, <1>5, <1>6, <1>7, <1>8, <1>9, <1>10, <1>11, <1>12,
             <1>13, <1>14, <1>15, <1>16, <1>17, <1>18, <1>19, <1>20, <1>21, <1>22
             DEF PipelineNext, ProducerStep, SentenceStep, PumpStep

\* The invariant of the pipeline holds in every state of every turn (turn.go, pump.go).
THEOREM SpeakingKept == PipelineSpec => []SpeakingInv
<1>1. PipelineInit => SpeakingInv
  BY SpeakingStarts
<1>2. SpeakingInv /\ [PipelineNext]_pipelineVars => SpeakingInv'
  BY SpeakingStep
<1> QED BY <1>1, <1>2, PTL DEF PipelineSpec

\* Sentences are announced and play in their order, one is held at most, what is committed
\* was heard, and a finished turn leaves nothing behind, for any number of sentences.
THEOREM PipelineSafe == PipelineSpec => []PipelineInv
<1>1. SpeakingInv => PipelineInv
  BY DEF SpeakingInv
<1> QED BY <1>1, SpeakingKept, PTL

HIDE PipelineAssumption
-------------------------------------------------------------------------------
(*************************************************************************)
(* The Reaction. CrossTalkInv speaks of the moments at which a Reaction  *)
(* is heard, announced or settled; ReactionInv says how the coordinator, *)
(* the prerender and the pump's lane stand to each other in between.     *)
(*************************************************************************)

\* How the coordinator, the prerender and the pump's lane stand to each other.
ReactionInStep ==
  /\ xTorn <=> xPc \in {"unwinding", "gone"}
  /\ xPc \in {"releasing", "awaiting"} => xAnnounced /\ xPosted = "no"
  /\ xPc \in {"announcing", "releasing", "awaiting"} => xS1
  /\ xAnnounced => xPc \in {"releasing", "awaiting", "teardown", "unwinding", "gone"}
  /\ xAnnounced /\ xPc \notin {"releasing", "awaiting"} => xRun = "done"
  /\ xPc = "posting" => xDecision = "text"
  /\ xPosted # "no" => xPc \in {"teardown", "unwinding", "gone"}

\* What was not decided is not under way; what was handed over gets a verdict, and it
\* is fine only for a Reaction that was heard, or cut.
PrerenderInStep ==
  /\ xRun \in {"waiting", "generating"} => xDecision = "none"
  /\ xDecision = "text" => xRun = "done"
  /\ xS1 => xRun \in {"starting", "streaming", "rest", "next", "done"}
  /\ xRun \in {"starting", "streaming", "rest", "next"} => xS1
  /\ xRun \in {"rest", "next"} => xHeard /\ xPc = "awaiting"
  /\ xS1 /\ xRun = "done" => xVerdict # "none"
  /\ xVerdict # "none" => xRun = "done"
  /\ xVerdict = "fine" => xCut \/ xTorn \/ xHeard \/ ~xS1

\* A sentence is in the lane, or released behind the announcement; one still queued
\* when the prerender is done was cut or broke.
LaneInStep ==
  /\ xLane = "held" <=> xJob = "lane"
  /\ xLane = "latched" => xPc \in {"awaiting", "teardown", "unwinding"} /\ xAnnounced
  /\ xJob # "none" => xRun \in {"streaming", "rest", "next", "done"}
  /\ xJob \in {"queued", "playing"} => xAnnounced /\ xPc \notin {"announcing", "releasing"}
  /\ xJob = "playing" => xHeard
  /\ xJob \in {"lane", "queued"} /\ xRun = "done" =>
       xCut \/ xVerdict = "failed" \/ (xJob = "lane" /\ xTorn)
  /\ xRun = "rest" => xJob = "gone"

\* An announced Reaction the coordinator is done with was heard, has an end, or was posted.
SettledOnce ==
  xAnnounced /\ xPc \in {"teardown", "unwinding", "gone"} =>
    xHeard \/ xEnded # "none" \/ xPosted = "failed" \/ (xPosted = "posted" /\ xCut)

\* CrossTalkInv, and how the parts of an ensemble turn stand to each other.
ReactionInv ==
  CrossTalkInv /\ ReactionInStep /\ PrerenderInStep /\ LaneInStep /\ SettledOnce

\* Every step of the coordinator, the pick, the prerender and the pump keeps the invariant.
LEMMA ReactionKept ==
  ASSUME ReactionInv, CrossTalkNext
  PROVE  ReactionInv'
<1> USE CrossTalkAssumption
<1> USE DEF ReactionInv, CrossTalkInv, ReactionInStep, PrerenderInStep, LaneInStep,
  SettledOnce,
            CrossTalkTypeOK, ReactionAfterLead, AnnouncedSettles, VerdictComes,
              UnitLeavesNothing,
            coordinator, reactor, lead, future, player, onlyCoordinator, onlyPick,
              onlyReactor
<1>1. CASE LeadSpoken
  BY <1>1 DEF LeadSpoken, StepTo
<1>2. CASE Gate
  BY <1>2 DEF Gate, StepTo
<1>3. CASE AwaitPick
  BY <1>3 DEF AwaitPick, StepTo
<1>4. CASE AwaitDecision
  BY <1>4 DEF AwaitDecision, StepTo
<1>5. CASE AwaitHeld
  BY <1>5 DEF AwaitHeld, StepTo
<1>6. CASE AnnounceReaction
  <2>1. CrossTalkTypeOK'
    <3>1. ({xCut, xTorn, xAudible, xLeadPlays, xS1, xMore, xAnnounced,
            xHeard} \subseteq BOOLEAN)'
      BY <1>6 DEF AnnounceReaction
    <3>2. (/\ xPick \in {"pending", "none", "made"} /\ xPending \in 0..MaxLosers
           /\ xReact \in {"none", "running", "decline", "text", "audio"}
           /\ xDecision \in {"none", "decline", "text", "audio"}
           /\ xVerdict \in {"none", "failed", "fine"})'
      BY <1>6 DEF AnnounceReaction
    <3>3. (/\ xPc \in {"speaking", "gate", "picking", "deciding", "holding", "announcing",
                       "releasing",
                       "awaiting", "posting", "teardown", "unwinding", "gone"}
           /\ xRun \in {"waiting", "generating", "dispatching", "starting", "streaming",
                        "rest", "next", "done"}
           /\ xLane \in {"empty", "held", "latched"}
           /\ xJob \in {"none", "lane", "queued", "playing", "gone"}
           /\ xPosted \in {"no", "posted", "failed"}
           /\ xEnded \in {"none", "barge", "tts_error", "text_delivered"})'
      BY <1>6 DEF AnnounceReaction
    <3> QED BY <3>1, <3>2, <3>3
  <2>2. ReactionAfterLead' /\ AnnouncedSettles' /\ VerdictComes' /\ UnitLeavesNothing'
    BY <1>6 DEF AnnounceReaction
  <2>3. ReactionInStep' /\ PrerenderInStep' /\ LaneInStep' /\ SettledOnce'
    BY <1>6 DEF AnnounceReaction
  <2> QED BY <2>1, <2>2, <2>3
<1>7. CASE ReleaseReaction
  <2>1. CrossTalkTypeOK'
    <3>1. ({xCut, xTorn, xAudible, xLeadPlays, xS1, xMore, xAnnounced,
            xHeard} \subseteq BOOLEAN)'
      BY <1>7 DEF ReleaseReaction, StepTo
    <3>2. (/\ xPick \in {"pending", "none", "made"} /\ xPending \in 0..MaxLosers
           /\ xReact \in {"none", "running", "decline", "text", "audio"}
           /\ xDecision \in {"none", "decline", "text", "audio"}
           /\ xVerdict \in {"none", "failed", "fine"})'
      BY <1>7 DEF ReleaseReaction, StepTo
    <3>3. (/\ xPc \in {"speaking", "gate", "picking", "deciding", "holding", "announcing",
                       "releasing",
                       "awaiting", "posting", "teardown", "unwinding", "gone"}
           /\ xRun \in {"waiting", "generating", "dispatching", "starting", "streaming",
                        "rest", "next", "done"}
           /\ xLane \in {"empty", "held", "latched"}
           /\ xJob \in {"none", "lane", "queued", "playing", "gone"}
           /\ xPosted \in {"no", "posted", "failed"}
           /\ xEnded \in {"none", "barge", "tts_error", "text_delivered"})'
      BY <1>7 DEF ReleaseReaction, StepTo
    <3> QED BY <3>1, <3>2, <3>3
  <2>2. ReactionAfterLead' /\ AnnouncedSettles' /\ VerdictComes' /\ UnitLeavesNothing'
    BY <1>7 DEF ReleaseReaction, StepTo
  <2>3. ReactionInStep' /\ PrerenderInStep' /\ LaneInStep' /\ SettledOnce'
    BY <1>7 DEF ReleaseReaction, StepTo
  <2> QED BY <2>1, <2>2, <2>3
<1>8. CASE ReactionOver
  BY <1>8 DEF ReactionOver
<1>9. CASE PostTextReaction
  BY <1>9 DEF PostTextReaction
<1>10. CASE CancelReact
  BY <1>10 DEF CancelReact
<1>11. CASE DiscardReaction
  BY <1>11 DEF DiscardReaction, StepTo
<1>12. CASE DraftArrives
  BY <1>12 DEF DraftArrives
<1>13. CASE PickGivenUp
  BY <1>13 DEF PickGivenUp
<1>14. CASE Launch
  BY <1>14 DEF Launch, RunTo, ReactCut
<1>15. CASE React
  BY <1>15 DEF React
<1>16. CASE Decide
  BY <1>16 DEF Decide, RunTo, ReactCut
<1>17. CASE DispatchHeld
  <2>1. CrossTalkTypeOK'
    <3>1. ({xCut, xTorn, xAudible, xLeadPlays, xS1, xMore, xAnnounced,
            xHeard} \subseteq BOOLEAN)'
      BY <1>17 DEF DispatchHeld, Finish, RunTo, ReactCut
    <3>2. (/\ xPick \in {"pending", "none", "made"} /\ xPending \in 0..MaxLosers
           /\ xReact \in {"none", "running", "decline", "text", "audio"}
           /\ xDecision \in {"none", "decline", "text", "audio"}
           /\ xVerdict \in {"none", "failed", "fine"})'
      BY <1>17 DEF DispatchHeld, Finish, RunTo, ReactCut
    <3>3. (/\ xPc \in {"speaking", "gate", "picking", "deciding", "holding", "announcing",
                       "releasing",
                       "awaiting", "posting", "teardown", "unwinding", "gone"}
           /\ xRun \in {"waiting", "generating", "dispatching", "starting", "streaming",
                        "rest", "next", "done"}
           /\ xLane \in {"empty", "held", "latched"}
           /\ xJob \in {"none", "lane", "queued", "playing", "gone"}
           /\ xPosted \in {"no", "posted", "failed"}
           /\ xEnded \in {"none", "barge", "tts_error", "text_delivered"})'
      BY <1>17 DEF DispatchHeld, Finish, RunTo, ReactCut
    <3> QED BY <3>1, <3>2, <3>3
  <2>2. ReactionAfterLead' /\ AnnouncedSettles' /\ VerdictComes' /\ UnitLeavesNothing'
    BY <1>17 DEF DispatchHeld, Finish, RunTo, ReactCut
  <2>3. ReactionInStep' /\ PrerenderInStep' /\ LaneInStep' /\ SettledOnce'
    BY <1>17 DEF DispatchHeld, Finish, RunTo, ReactCut
  <2> QED BY <2>1, <2>2, <2>3
<1>18. CASE HeldStartFails
  BY <1>18 DEF HeldStartFails, Finish, RunTo, ReactCut, AbortHeld
<1>19. CASE HeldStarts
  BY <1>19 DEF HeldStarts, RunTo, ReactCut
<1>20. CASE StreamStops
  BY <1>20 DEF StreamStops, Finish, RunTo, ReactCut
<1>21. CASE StreamRead
  BY <1>21 DEF StreamRead, RunTo
<1>22. CASE NextSentence
  <2>1. CrossTalkTypeOK'
    <3>1. ({xCut, xTorn, xAudible, xLeadPlays, xS1, xMore, xAnnounced,
            xHeard} \subseteq BOOLEAN)'
      BY <1>22 DEF NextSentence, Finish, RunTo, ReactCut
    <3>2. (/\ xPick \in {"pending", "none", "made"} /\ xPending \in 0..MaxLosers
           /\ xReact \in {"none", "running", "decline", "text", "audio"}
           /\ xDecision \in {"none", "decline", "text", "audio"}
           /\ xVerdict \in {"none", "failed", "fine"})'
      BY <1>22 DEF NextSentence, Finish, RunTo, ReactCut
    <3>3. (/\ xPc \in {"speaking", "gate", "picking", "deciding", "holding", "announcing",
                       "releasing",
                       "awaiting", "posting", "teardown", "unwinding", "gone"}
           /\ xRun \in {"waiting", "generating", "dispatching", "starting", "streaming",
                        "rest", "next", "done"}
           /\ xLane \in {"empty", "held", "latched"}
           /\ xJob \in {"none", "lane", "queued", "playing", "gone"}
           /\ xPosted \in {"no", "posted", "failed"}
           /\ xEnded \in {"none", "barge", "tts_error", "text_delivered"})'
      BY <1>22 DEF NextSentence, Finish, RunTo, ReactCut
    <3> QED BY <3>1, <3>2, <3>3
  <2>2. ReactionAfterLead' /\ AnnouncedSettles' /\ VerdictComes' /\ UnitLeavesNothing'
    BY <1>22 DEF NextSentence, Finish, RunTo, ReactCut
  <2>3. ReactionInStep' /\ PrerenderInStep' /\ LaneInStep' /\ SettledOnce'
    BY <1>22 DEF NextSentence, Finish, RunTo, ReactCut
  <2> QED BY <2>1, <2>2, <2>3
<1>23. CASE LeadPlayed
  <2>1. CrossTalkTypeOK'
    <3>1. ({xCut, xTorn, xAudible, xLeadPlays, xS1, xMore, xAnnounced,
            xHeard} \subseteq BOOLEAN)'
      BY <1>23 DEF LeadPlayed
    <3>2. (/\ xPick \in {"pending", "none", "made"} /\ xPending \in 0..MaxLosers
           /\ xReact \in {"none", "running", "decline", "text", "audio"}
           /\ xDecision \in {"none", "decline", "text", "audio"}
           /\ xVerdict \in {"none", "failed", "fine"})'
      BY <1>23 DEF LeadPlayed
    <3>3. (/\ xPc \in {"speaking", "gate", "picking", "deciding", "holding", "announcing",
                       "releasing",
                       "awaiting", "posting", "teardown", "unwinding", "gone"}
           /\ xRun \in {"waiting", "generating", "dispatching", "starting", "streaming",
                        "rest", "next", "done"}
           /\ xLane \in {"empty", "held", "latched"}
           /\ xJob \in {"none", "lane", "queued", "playing", "gone"}
           /\ xPosted \in {"no", "posted", "failed"}
           /\ xEnded \in {"none", "barge", "tts_error", "text_delivered"})'
      BY <1>23 DEF LeadPlayed
    <3> QED BY <3>1, <3>2, <3>3
  <2>2. ReactionAfterLead' /\ AnnouncedSettles' /\ VerdictComes' /\ UnitLeavesNothing'
    BY <1>23 DEF LeadPlayed
  <2>3. ReactionInStep' /\ PrerenderInStep' /\ LaneInStep' /\ SettledOnce'
    BY <1>23 DEF LeadPlayed
  <2> QED BY <2>1, <2>2, <2>3
<1>24. CASE PlayReaction
  <2>1. CrossTalkTypeOK'
    <3>1. ({xCut, xTorn, xAudible, xLeadPlays, xS1, xMore, xAnnounced,
            xHeard} \subseteq BOOLEAN)'
      BY <1>24 DEF PlayReaction, ReactCut
    <3>2. (/\ xPick \in {"pending", "none", "made"} /\ xPending \in 0..MaxLosers
           /\ xReact \in {"none", "running", "decline", "text", "audio"}
           /\ xDecision \in {"none", "decline", "text", "audio"}
           /\ xVerdict \in {"none", "failed", "fine"})'
      BY <1>24 DEF PlayReaction, ReactCut
    <3>3. (/\ xPc \in {"speaking", "gate", "picking", "deciding", "holding", "announcing",
                       "releasing",
                       "awaiting", "posting", "teardown", "unwinding", "gone"}
           /\ xRun \in {"waiting", "generating", "dispatching", "starting", "streaming",
                        "rest", "next", "done"}
           /\ xLane \in {"empty", "held", "latched"}
           /\ xJob \in {"none", "lane", "queued", "playing", "gone"}
           /\ xPosted \in {"no", "posted", "failed"}
           /\ xEnded \in {"none", "barge", "tts_error", "text_delivered"})'
      BY <1>24 DEF PlayReaction, ReactCut
    <3> QED BY <3>1, <3>2, <3>3
  <2>2. ReactionAfterLead' /\ AnnouncedSettles' /\ VerdictComes' /\ UnitLeavesNothing'
    BY <1>24 DEF PlayReaction, ReactCut
  <2>3. ReactionInStep' /\ PrerenderInStep' /\ LaneInStep' /\ SettledOnce'
    BY <1>24 DEF PlayReaction, ReactCut
  <2> QED BY <2>1, <2>2, <2>3
<1>25. CASE LeadHeard
  BY <1>25 DEF LeadHeard
<1>26. CASE HeldBreaks
  BY <1>26 DEF HeldBreaks, Finish, RunTo, ReactCut
<1>27. CASE Barge
  <2>1. CrossTalkTypeOK'
    <3>1. ({xCut, xTorn, xAudible, xLeadPlays, xS1, xMore, xAnnounced,
            xHeard} \subseteq BOOLEAN)'
      BY <1>27 DEF Barge
    <3>2. (/\ xPick \in {"pending", "none", "made"} /\ xPending \in 0..MaxLosers
           /\ xReact \in {"none", "running", "decline", "text", "audio"}
           /\ xDecision \in {"none", "decline", "text", "audio"}
           /\ xVerdict \in {"none", "failed", "fine"})'
      BY <1>27 DEF Barge
    <3>3. (/\ xPc \in {"speaking", "gate", "picking", "deciding", "holding", "announcing",
                       "releasing",
                       "awaiting", "posting", "teardown", "unwinding", "gone"}
           /\ xRun \in {"waiting", "generating", "dispatching", "starting", "streaming",
                        "rest", "next", "done"}
           /\ xLane \in {"empty", "held", "latched"}
           /\ xJob \in {"none", "lane", "queued", "playing", "gone"}
           /\ xPosted \in {"no", "posted", "failed"}
           /\ xEnded \in {"none", "barge", "tts_error", "text_delivered"})'
      BY <1>27 DEF Barge
    <3> QED BY <3>1, <3>2, <3>3
  <2>2. ReactionAfterLead' /\ AnnouncedSettles' /\ VerdictComes' /\ UnitLeavesNothing'
    BY <1>27 DEF Barge
  <2>3. ReactionInStep' /\ PrerenderInStep' /\ LaneInStep' /\ SettledOnce'
    BY <1>27 DEF Barge
  <2> QED BY <2>1, <2>2, <2>3
<1> QED BY <1>1, <1>2, <1>3, <1>4, <1>5, <1>6, <1>7, <1>8, <1>9, <1>10, <1>11, <1>12,
             <1>13, <1>14, <1>15, <1>16, <1>17, <1>18, <1>19, <1>20, <1>21, <1>22, <1>23,
             <1>24, <1>25, <1>26, <1>27
  DEF CrossTalkNext, CoordinatorStep, PickStep, PrerenderStep, WorkerStep

\* No Reaction is heard before its Lead or without it, and each is settled once, in every
\* behaviour of an ensemble turn (crosstalk.go, prerender.go).
THEOREM CrossTalkSafe == CrossTalkSpec => []CrossTalkInv
<1>1. CrossTalkInit => ReactionInv
  <2> SUFFICES ASSUME CrossTalkInit PROVE ReactionInv
    OBVIOUS
  <2> USE CrossTalkAssumption DEF CrossTalkInit
  <2>1. CrossTalkTypeOK
    <3> USE DEF CrossTalkTypeOK
    <3>1. ({xCut, xTorn, xAudible, xLeadPlays, xS1, xMore, xAnnounced,
            xHeard} \subseteq BOOLEAN)
      OBVIOUS
    <3>2. (/\ xPick \in {"pending", "none", "made"} /\ xPending \in 0..MaxLosers
           /\ xReact \in {"none", "running", "decline", "text", "audio"}
           /\ xDecision \in {"none", "decline", "text", "audio"}
           /\ xVerdict \in {"none", "failed", "fine"})
      OBVIOUS
    <3>3. (/\ xPc \in {"speaking", "gate", "picking", "deciding", "holding", "announcing",
                       "releasing",
                       "awaiting", "posting", "teardown", "unwinding", "gone"}
           /\ xRun \in {"waiting", "generating", "dispatching", "starting", "streaming",
                        "rest", "next", "done"}
           /\ xLane \in {"empty", "held", "latched"}
           /\ xJob \in {"none", "lane", "queued", "playing", "gone"}
           /\ xPosted \in {"no", "posted", "failed"}
           /\ xEnded \in {"none", "barge", "tts_error", "text_delivered"})
      OBVIOUS
    <3> QED BY <3>1, <3>2, <3>3
  <2> QED BY <2>1 DEF ReactionInv, CrossTalkInv, ReactionInStep, PrerenderInStep,
                 LaneInStep, SettledOnce,
            ReactionAfterLead, AnnouncedSettles, VerdictComes, UnitLeavesNothing
<1>2. ReactionInv /\ UNCHANGED crossTalkVars => ReactionInv'
  BY DEF crossTalkVars, coordinator, reactor, lead, future, player, ReactionInv,
         CrossTalkInv,
         ReactionInStep, PrerenderInStep, LaneInStep, SettledOnce, CrossTalkTypeOK,
           ReactionAfterLead,
         AnnouncedSettles, VerdictComes, UnitLeavesNothing
<1>3. ReactionInv => CrossTalkInv
  BY DEF ReactionInv
<1> QED BY <1>1, <1>2, <1>3, ReactionKept, PTL DEF CrossTalkSpec

-------------------------------------------------------------------------------

\* A turn spoken with a Reaction keeps both promises at every step: no sentence out of
\* order or committed unheard, no Reaction before its Lead or left unsettled.
THEOREM TurnSafe == PipelineSpec /\ CrossTalkSpec => []TurnInv
<1>1. PipelineInv /\ CrossTalkInv => TurnInv
  BY DEF TurnInv
<1> QED BY <1>1, PipelineSafe, CrossTalkSafe, PTL
===============================================================================
