------------------------ MODULE Conversation_proofs ------------------------
(***************************************************************************)
(* Proofs about Conversation, for any number of turns, Agents and human    *)
(* speakers.  FloorInv is inductive; that two turns never speak at once,   *)
(* that a turn under way can always be cut, and what barges and mutes may  *)
(* cut, follow from it.                                                    *)
(*                                                                         *)
(* One lemma per group of actions of Next.  An action that the provers     *)
(* cannot do in one leaf is split into: types, the holder, what a turn     *)
(* that was cut is owed, and whom the floor names.                         *)
(***************************************************************************)
EXTENDS ConversationProps, TLAPS

USE NoTurnAssumption, AgentsAssumption, OffersAssumption
USE DEF FloorTypeOK, Keys, FreeFloor, Held, Holds, Routes, Steps, OnFloor, Voicing,
        Cutters, Reasons, Goto, EndWith, Over, Silenced, turns, mute

-----------------------------------------------------------------------------

\* A continuation leaves the floor to its holder.
LEMMA CoalescedTypes ==
  ASSUME FloorTypeOK, NEW t \in Turns, NEW a, TakeCoalesced(t, a)
  PROVE  FloorTypeOK'
  BY DEF TakeCoalesced

\* From the take to the start of the turn's own goroutine.
LEMMA OpeningKeeps ==
  ASSUME FloorInv, NEW t \in Turns, Opening(t)
  PROVE  FloorInv'
<1> USE DEF FloorInv, TypeOK, HoldsUntilCut, HolderUnderWay, GateTellsTruth,
            BargeCutsHeard, EndedByItsCutter, OwedByOne, NoPast, FloorNamesAgent,
            Routed, MutedReplyCut
<1>1. CASE Coalesce(t)
  <2> USE <1>1 DEF Coalesce, TakeCoalesced, Coalesces
  <2>1. TypeOK'
    <3>1. FloorTypeOK'
      BY CoalescedTypes
    <3>2. ended' \in [Turns -> SUBSET Reasons]
      BY <3>1
    <3>3. /\ pc' \in [Turns -> Steps] /\ kind' \in [Turns -> Routes \cup {"none"}]
          /\ targets' \in [Turns -> SUBSET Agents]
          /\ agent' \in [Turns -> Keys \cup {NoAgent}]
      BY <3>1
    <3> QED BY <3>1, <3>2, <3>3
  <2>2. HoldsUntilCut' /\ HolderUnderWay' /\ GateTellsTruth'
    OBVIOUS
  <2>3. BargeCutsHeard' /\ EndedByItsCutter' /\ OwedByOne' /\ NoPast'
    OBVIOUS
  <2>4. FloorNamesAgent' /\ Routed' /\ MutedReplyCut'
    OBVIOUS
  <2> QED BY <2>1, <2>2, <2>3, <2>4
<1>2. CASE TakeFloor(t)
  <2> USE <1>2 DEF TakeFloor, Take, Superseded
  <2>1. TypeOK'
    OBVIOUS
  <2>2. HoldsUntilCut' /\ HolderUnderWay' /\ GateTellsTruth'
    OBVIOUS
  <2>3. BargeCutsHeard' /\ EndedByItsCutter' /\ OwedByOne' /\ NoPast'
    OBVIOUS
  <2>4. FloorNamesAgent' /\ Routed' /\ MutedReplyCut'
    OBVIOUS
  <2> QED BY <2>1, <2>2, <2>3, <2>4
<1>3. CASE Notify(t)
  <2> USE <1>3 DEF Notify
  <2>1. TypeOK'
    OBVIOUS
  <2>2. HoldsUntilCut' /\ HolderUnderWay' /\ GateTellsTruth'
    OBVIOUS
  <2>3. BargeCutsHeard' /\ EndedByItsCutter' /\ OwedByOne' /\ NoPast'
    OBVIOUS
  <2>4. FloorNamesAgent' /\ Routed' /\ MutedReplyCut'
    OBVIOUS
  <2> QED BY <2>1, <2>2, <2>3, <2>4
<1>4. CASE Start(t)
  BY <1>4 DEF Start, MutedMeanwhile
<1>5. CASE Drop(t)
  <2> USE <1>5 DEF Drop, Release
  <2>1. TypeOK'
    OBVIOUS
  <2>2. HoldsUntilCut' /\ HolderUnderWay' /\ GateTellsTruth'
    OBVIOUS
  <2>3. BargeCutsHeard' /\ EndedByItsCutter' /\ OwedByOne' /\ NoPast'
    OBVIOUS
  <2>4. FloorNamesAgent' /\ Routed' /\ MutedReplyCut'
    OBVIOUS
  <2> QED BY <2>1, <2>2, <2>3, <2>4
<1>6. CASE PublishDropped(t)
  BY <1>6 DEF PublishDropped
<1> QED
  BY <1>1, <1>2, <1>3, <1>4, <1>5, <1>6 DEF Opening

\* The draft race of an ensemble.
LEMMA RacingKeeps ==
  ASSUME FloorInv, NEW t \in Turns, Racing(t)
  PROVE  FloorInv'
<1> USE DEF FloorInv, TypeOK, HoldsUntilCut, HolderUnderWay, GateTellsTruth,
            BargeCutsHeard, EndedByItsCutter, OwedByOne, NoPast, FloorNamesAgent,
            Routed, MutedReplyCut
<1>1. CASE \E a \in Agents : Elect(t, a)
  BY <1>1 DEF Elect
<1>2. CASE Retarget(t)
  <2> USE <1>2 DEF Retarget, SetHolderAgent
  <2>1. TypeOK'
    OBVIOUS
  <2>2. HoldsUntilCut' /\ HolderUnderWay' /\ GateTellsTruth'
    OBVIOUS
  <2>3. BargeCutsHeard' /\ EndedByItsCutter' /\ OwedByOne' /\ NoPast'
    OBVIOUS
  <2>4. FloorNamesAgent' /\ Routed' /\ MutedReplyCut'
    OBVIOUS
  <2> QED BY <2>1, <2>2, <2>3, <2>4
<1>3. CASE RaceCut(t)
  BY <1>3 DEF RaceCut
<1>4. CASE RaceLost(t)
  BY <1>4 DEF RaceLost
<1> QED
  BY <1>1, <1>2, <1>3, <1>4 DEF Racing

\* How a turn ends by itself; its release leaves a newer holder alone.
LEMMA EndingKeeps ==
  ASSUME FloorInv, NEW t \in Turns, Ending(t)
  PROVE  FloorInv'
<1> USE DEF FloorInv, TypeOK, HoldsUntilCut, HolderUnderWay, GateTellsTruth,
            BargeCutsHeard, EndedByItsCutter, OwedByOne, NoPast, FloorNamesAgent,
            Routed, MutedReplyCut
<1>1. CASE FallbackEnds(t)
  BY <1>1 DEF FallbackEnds
<1>2. CASE Finish(t)
  BY <1>2 DEF Finish
<1>3. CASE Fail(t)
  BY <1>3 DEF Fail
<1>4. CASE PublishFailure(t)
  BY <1>4 DEF PublishFailure
<1>5. CASE ReleaseFloor(t)
  BY <1>5 DEF ReleaseFloor, Release
<1> QED
  BY <1>1, <1>2, <1>3, <1>4, <1>5 DEF Ending

\* What follows a yield.
LEMMA CuttingKeeps ==
  ASSUME FloorInv, NEW t \in Turns, Cutting(t)
  PROVE  FloorInv'
<1> USE DEF FloorInv, TypeOK, HoldsUntilCut, HolderUnderWay, GateTellsTruth,
            BargeCutsHeard, EndedByItsCutter, OwedByOne, NoPast, FloorNamesAgent,
            Routed, MutedReplyCut
<1>1. CASE CancelCut(t)
  BY <1>1 DEF CancelCut
<1>2. CASE PublishCut(t)
  BY <1>2 DEF PublishCut
<1> QED
  BY <1>1, <1>2 DEF Cutting

\* A routing decision concerns a turn without a past, which holds nothing.
LEMMA RoutingKeeps ==
  ASSUME FloorInv, NEW t \in Turns, Route(t)
  PROVE  FloorInv'
<1> USE DEF FloorInv, TypeOK, HoldsUntilCut, HolderUnderWay, GateTellsTruth,
            BargeCutsHeard, EndedByItsCutter, OwedByOne, NoPast, FloorNamesAgent,
            Routed, MutedReplyCut
<1>1. ASSUME pc[t] = "idle", Refuse(t)
      PROVE  FloorInv'
  BY <1>1 DEF Refuse
<1>2. ASSUME pc[t] = "idle", NEW k \in Routes, NEW T \in SUBSET Agents, NEW a \in Keys,
             Open(t, k, T, a)
      PROVE  FloorInv'
  BY <1>2 DEF Open
<1>3. CASE \E a \in Agents : RouteReply(t, a)
  BY <1>1, <1>2, <1>3 DEF RouteReply, Router
<1>4. CASE \E T \in SUBSET Agents : RouteEnsemble(t, T)
  BY <1>1, <1>2, <1>4 DEF RouteEnsemble, Router
<1>5. CASE \E a \in Agents : Say(t, a)
  BY <1>1, <1>2, <1>5 DEF Say
<1>6. CASE Replay(t)
  BY <1>2, <1>6 DEF Replay
<1> QED
  BY <1>3, <1>4, <1>5, <1>6 DEF Route

\* Playback tells the floor about its own turn only.
LEMMA PlaybackKeeps ==
  ASSUME FloorInv, NEW t \in Turns, FirstFrame(t) \/ FirstOpus(t)
  PROVE  FloorInv'
<1> USE DEF FloorInv, TypeOK, HoldsUntilCut, HolderUnderWay, GateTellsTruth,
            BargeCutsHeard, EndedByItsCutter, OwedByOne, NoPast, FloorNamesAgent,
            Routed, MutedReplyCut, Hears
<1>1. CASE FirstFrame(t)
  BY <1>1 DEF FirstFrame
<1>2. CASE FirstOpus(t)
  <2> USE <1>2 DEF FirstOpus, MarkSpeaking
  <2>1. TypeOK'
    OBVIOUS
  <2>2. HoldsUntilCut' /\ HolderUnderWay' /\ GateTellsTruth'
    OBVIOUS
  <2>3. BargeCutsHeard' /\ EndedByItsCutter' /\ OwedByOne' /\ NoPast'
    OBVIOUS
  <2>4. FloorNamesAgent' /\ Routed' /\ MutedReplyCut'
    OBVIOUS
  <2> QED BY <2>1, <2>2, <2>3, <2>4
<1> QED BY <1>1, <1>2

\* A yield takes the floor from a holder that nobody else has cut.
LEMMA CutHolderKeeps ==
  ASSUME FloorInv, NEW r \in {"barge", "mute"}, Held, CutHolder(r),
         r = "barge" => floor.speaking,
         pending' \in [Speakers -> Turns \cup {NoTurn}],
         muted' = muted, changes' \subseteq muted,
         changes \subseteq changes' \cup {floor.agent},
         UNCHANGED <<pc, kind, targets, agent, owes, voice, ended>>
  PROVE  FloorInv'
<1> USE DEF CutHolder, Yield, FloorInv, TypeOK
<1>1. floor.turn \in Turns
  OBVIOUS
<1>2. TypeOK'
  BY <1>1
<1>3. HoldsUntilCut' /\ HolderUnderWay' /\ GateTellsTruth'
  BY <1>1 DEF HoldsUntilCut, HolderUnderWay, GateTellsTruth
<1>4. BargeCutsHeard' /\ EndedByItsCutter' /\ OwedByOne' /\ NoPast'
  BY <1>1 DEF BargeCutsHeard, EndedByItsCutter, OwedByOne, NoPast, HolderUnderWay,
              GateTellsTruth
<1>5. FloorNamesAgent' /\ Routed'
  BY <1>1 DEF FloorNamesAgent, Routed
<1>6. MutedReplyCut'
  BY <1>1 DEF MutedReplyCut, HoldsUntilCut, FloorNamesAgent
<1> QED BY <1>2, <1>3, <1>4, <1>5, <1>6

\* Confirm windows.
LEMMA BargeKeeps ==
  ASSUME FloorInv, NEW s \in Speakers, Onset(s) \/ Disarm(s) \/ Fire(s)
  PROVE  FloorInv'
<1>1. CASE Onset(s) \/ Disarm(s)
  BY <1>1 DEF Onset, Disarm, FloorInv, TypeOK, HoldsUntilCut, HolderUnderWay,
              GateTellsTruth, BargeCutsHeard, EndedByItsCutter, OwedByOne, NoPast,
              FloorNamesAgent, Routed, MutedReplyCut
<1>2. CASE Fire(s)
  <2>1. CASE CanYieldTurn(pending[s]) /\ CutHolder("barge")
    BY <1>2, <2>1, CutHolderKeeps DEF Fire, CanYieldTurn, FloorInv, TypeOK
  <2>2. CASE UNCHANGED <<floor, cancelled, cutBy>>
    BY <1>2, <2>2 DEF Fire, FloorInv, TypeOK, HoldsUntilCut, HolderUnderWay,
              GateTellsTruth, BargeCutsHeard, EndedByItsCutter, OwedByOne, NoPast,
              FloorNamesAgent, Routed, MutedReplyCut
  <2> QED BY <1>2, <2>1, <2>2 DEF Fire
<1> QED BY <1>1, <1>2

\* A mute that is written but not handled yet silences nobody; one that is handled
\* has cut the Agent's turn if it held the floor.
LEMMA SetMutedKeeps ==
  ASSUME FloorInv, NEW M \in SUBSET Agents, SetMuted(M)
  PROVE  FloorInv'
  BY DEF SetMuted, FloorInv, TypeOK, HoldsUntilCut, HolderUnderWay,
         GateTellsTruth, BargeCutsHeard, EndedByItsCutter, OwedByOne, NoPast,
         FloorNamesAgent, Routed, MutedReplyCut

\* MuteCut cuts the holder it matches; an Agent it does not match holds nothing.
LEMMA MuteCutKeeps ==
  ASSUME FloorInv, NEW a \in Agents, MuteCut(a)
  PROVE  FloorInv'
<1>1. CASE CanYieldAgent(a) /\ CutHolder("mute")
  BY <1>1, CutHolderKeeps DEF MuteCut, CanYieldAgent, FloorInv, TypeOK
<1>2. CASE ~CanYieldAgent(a) /\ UNCHANGED <<floor, cancelled, cutBy>>
  BY <1>2 DEF MuteCut, CanYieldAgent, FloorInv, TypeOK, HoldsUntilCut, HolderUnderWay,
              GateTellsTruth, BargeCutsHeard, EndedByItsCutter, OwedByOne, NoPast,
              FloorNamesAgent, Routed, MutedReplyCut
<1> QED BY <1>1, <1>2 DEF MuteCut

\* The coalesce window is nobody's business but the next take's.
LEMMA WindowCloseKeeps ==
  ASSUME FloorInv, CoalesceWindowCloses
  PROVE  FloorInv'
<1> USE DEF CoalesceWindowCloses, WindowCloses, FloorInv, TypeOK
<1>1. FloorTypeOK'
  OBVIOUS
<1>2. /\ floor'.turn = floor.turn /\ floor'.agent = floor.agent
      /\ floor'.speaking = floor.speaking
  OBVIOUS
<1>3. TypeOK'
  BY <1>1
<1> QED
  BY <1>2, <1>3 DEF HoldsUntilCut, HolderUnderWay, GateTellsTruth, BargeCutsHeard,
         EndedByItsCutter, OwedByOne, NoPast, FloorNamesAgent, Routed, MutedReplyCut

-----------------------------------------------------------------------------
\* A session starts with a free floor and no turns.
LEMMA FloorInvInit == Init => FloorInv
  BY DEF Init, FloorInit, FloorInv, TypeOK, HoldsUntilCut, HolderUnderWay,
         GateTellsTruth, BargeCutsHeard, EndedByItsCutter, OwedByOne, NoPast,
         FloorNamesAgent, Routed, MutedReplyCut

\* Every step keeps the invariant.
LEMMA FloorInvStep == FloorInv /\ [Next]_vars => FloorInv'
<1> SUFFICES ASSUME FloorInv, [Next]_vars
             PROVE  FloorInv'
  OBVIOUS
<1>1. ASSUME NEW t \in Turns,
             Route(t) \/ Turn(t) \/ Cutting(t) \/ FirstFrame(t) \/ FirstOpus(t)
      PROVE  FloorInv'
  BY <1>1, RoutingKeeps, OpeningKeeps, RacingKeeps, EndingKeeps, CuttingKeeps,
     PlaybackKeeps DEF Turn
<1>2. ASSUME NEW s \in Speakers, Onset(s) \/ Disarm(s) \/ Fire(s)
      PROVE  FloorInv'
  BY <1>2, BargeKeeps
<1>3. ASSUME NEW a \in Agents, SetAgentMute(a) \/ MuteCut(a)
      PROVE  FloorInv'
  <2>1. muted \cup {a} \in SUBSET Agents /\ muted \ {a} \in SUBSET Agents
    BY DEF FloorInv, TypeOK
  <2> QED BY <1>3, <2>1, SetMutedKeeps, MuteCutKeeps DEF SetAgentMute
<1>4. CASE SetAllMute
  BY <1>4, SetMutedKeeps DEF SetAllMute
<1>5. CASE CoalesceWindowCloses
  BY <1>5, WindowCloseKeeps
<1>6. CASE UNCHANGED vars
  BY <1>6 DEF vars, FloorInv, TypeOK, HoldsUntilCut, HolderUnderWay,
              GateTellsTruth, BargeCutsHeard, EndedByItsCutter, OwedByOne, NoPast,
              FloorNamesAgent, Routed, MutedReplyCut
<1> QED
  BY <1>1, <1>2, <1>3, <1>4, <1>5, <1>6 DEF Next

\* The floor, the turns and what cuts them stay consistent.
THEOREM FloorInvHolds == Spec => []FloorInv
<1>1. Init => FloorInv
  BY FloorInvInit
<1>2. FloorInv /\ [Next]_vars => FloorInv'
  BY FloorInvStep
<1> QED BY <1>1, <1>2, PTL DEF Spec

\* A turn under way holds the floor, and so can be cut, until somebody has cut it
\* (Release: "a stale release must not wipe a newer turn's cancel").
THEOREM HoldsUntilCutHolds == Spec => []HoldsUntilCut
<1>1. FloorInv => HoldsUntilCut
  BY DEF FloorInv
<1> QED BY <1>1, FloorInvHolds, PTL

\* Two turns never speak at once (Floor.Take).
THEOREM OneVoiceHolds == Spec => []OneVoice
<1>1. FloorInv => OneVoice
  BY DEF FloorInv, HoldsUntilCut, OneVoice
<1> QED BY <1>1, FloorInvHolds, PTL

\* A barge cuts only a turn that was audible (Floor.YieldTurn).
THEOREM BargeCutsHeardHolds == Spec => []BargeCutsHeard
<1>1. FloorInv => BargeCutsHeard
  BY DEF FloorInv
<1> QED BY <1>1, FloorInvHolds, PTL

\* A muted Agent's reply does not go on, whenever the mute came (handleRouted's two
\* checks and MuteCut together).
THEOREM MutedReplyCutHolds == Spec => []MutedReplyCut
<1>1. FloorInv => MutedReplyCut
  BY DEF FloorInv
<1> QED BY <1>1, FloorInvHolds, PTL

-----------------------------------------------------------------------------
\* Only a handled MuteChanged cuts a turn by mute.
LEMMA CutByMute ==
  ASSUME FloorInv, [Next]_vars, NEW t \in Turns, cutBy[t] # "mute", cutBy'[t] = "mute"
  PROVE  \E a \in Agents : MuteCut(a)
<1> USE DEF FloorInv, TypeOK
<1>1. ASSUME NEW u \in Turns, Route(u)
      PROVE  cutBy' = cutBy
  BY <1>1 DEF Route, RouteReply, RouteEnsemble, Say, Replay, Open, Refuse
<1>2. ASSUME NEW u \in Turns, Opening(u)
      PROVE  cutBy'[t] \in {cutBy[t], "superseded"}
  BY <1>2 DEF Opening, Coalesce, TakeFloor, Notify, Start, Drop, PublishDropped
<1>3. ASSUME NEW u \in Turns, Racing(u) \/ Ending(u) \/ Cutting(u)
      PROVE  cutBy' = cutBy
  BY <1>3 DEF Racing, Elect, Retarget, RaceCut, RaceLost, Ending, FallbackEnds, Finish,
              Fail, PublishFailure, ReleaseFloor, Cutting, CancelCut, PublishCut
<1>4. ASSUME NEW u \in Turns, FirstFrame(u) \/ FirstOpus(u)
      PROVE  cutBy' = cutBy
  BY <1>4 DEF FirstFrame, FirstOpus
<1>5. ASSUME NEW s \in Speakers, Onset(s) \/ Disarm(s) \/ Fire(s)
      PROVE  cutBy'[t] \in {cutBy[t], "barge"}
  BY <1>5 DEF Onset, Disarm, Fire, CutHolder
<1>6. ASSUME NEW M, SetMuted(M)
      PROVE  cutBy' = cutBy
  BY <1>6 DEF SetMuted
<1>7. CASE CoalesceWindowCloses \/ UNCHANGED vars
  BY <1>7 DEF CoalesceWindowCloses, vars
<1> QED
  BY <1>1, <1>2, <1>3, <1>4, <1>5, <1>6, <1>7
     DEF Next, Turn, SetAgentMute, SetAllMute

\* A mute cuts the turn of the Agent that is muted and no other (#211 AC3).
THEOREM MuteCutsItsAgentHolds == Spec => MuteCutsItsAgent
<1>1. ASSUME FloorInv, [Next]_vars, NEW t \in Turns,
             cutBy[t] = "none", cutBy'[t] = "mute", kind[t] # "ensemble"
      PROVE  agent[t] \in changes
  <2>1. PICK a \in Agents : MuteCut(a)
    BY <1>1, CutByMute
  <2>2. Holds(t) /\ floor.agent = a /\ a \in changes
    BY <1>1, <2>1 DEF MuteCut, CanYieldAgent, CutHolder, FloorInv, TypeOK
  <2> QED BY <1>1, <2>2 DEF FloorInv, FloorNamesAgent
<1>2. FloorInv /\ [Next]_vars =>
        [\A t \in Turns : /\ cutBy[t] = "none" /\ cutBy'[t] = "mute" /\ kind[t] # "ensemble"
                          => agent[t] \in changes]_vars
  BY <1>1
<1> QED BY <1>2, FloorInvHolds, PTL DEF Spec, MuteCutsItsAgent
=============================================================================

