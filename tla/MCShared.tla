------------------------------ MODULE MCShared ------------------------------
(* Protocols over rows, sets, slots and queues that several goroutines or   *)
(* processes share.  They share nothing with each other, so each behaviour  *)
(* exercises one, its focus, while the others keep their initial states.    *)
EXTENDS JobRunner, PresenceElector, VoiceControls, LiveMutes, AgentTurn, SharedProps

VARIABLE focus

Foci == {"jobs", "elector", "controls", "mutes", "agent", "pipeline", "crosstalk", "session",
         "link"}

Init ==
  /\ focus \in Foci
  /\ JobInit /\ ElectorInit /\ ControlsInit /\ MutesInit /\ AgentInit /\ PipelineInit
  /\ CrossTalkInit /\ VoiceInit /\ LinkInit
  /\ focus # "agent" => ~gArmed /\ ~gTools /\ ~gLive
  /\ focus # "crosstalk" => xPending = 0
  /\ focus # "session" => dave = "plain"
  /\ focus # "link" => ~standing /\ ~echoing

vars == <<focus, jobVars, electorVars, controlVars, muteVars, agentVars, pipelineVars, crossTalkVars,
          voiceVars, linkVars>>

Next ==
  /\ UNCHANGED focus
  /\ \/ /\ focus = "jobs" /\ JobNext
        /\ UNCHANGED <<electorVars, controlVars, muteVars, agentVars, pipelineVars,
                       crossTalkVars, voiceVars, linkVars>>
     \/ /\ focus = "elector" /\ ElectorNext
        /\ UNCHANGED <<jobVars, controlVars, muteVars, agentVars, pipelineVars,
                       crossTalkVars, voiceVars, linkVars>>
     \/ /\ focus = "controls" /\ ControlsNext
        /\ UNCHANGED <<jobVars, electorVars, muteVars, agentVars, pipelineVars,
                       crossTalkVars, voiceVars, linkVars>>
     \/ /\ focus = "mutes" /\ MutesNext
        /\ UNCHANGED <<jobVars, electorVars, controlVars, agentVars, pipelineVars,
                       crossTalkVars, voiceVars, linkVars>>
     \/ /\ focus = "agent" /\ AgentNext
        /\ UNCHANGED <<jobVars, electorVars, controlVars, muteVars, pipelineVars,
                       crossTalkVars, voiceVars, linkVars>>
     \/ /\ focus = "pipeline" /\ PipelineNext
        /\ UNCHANGED <<jobVars, electorVars, controlVars, muteVars, agentVars,
                       crossTalkVars, voiceVars, linkVars>>
     \/ /\ focus = "crosstalk" /\ CrossTalkNext
        /\ UNCHANGED <<jobVars, electorVars, controlVars, muteVars, agentVars,
                       pipelineVars, voiceVars, linkVars>>
     \/ /\ focus = "session" /\ VoiceNext
        /\ UNCHANGED <<jobVars, electorVars, controlVars, muteVars, agentVars,
                       pipelineVars, crossTalkVars, linkVars>>
     \/ /\ focus = "link" /\ LinkNext
        /\ UNCHANGED <<jobVars, electorVars, controlVars, muteVars, agentVars,
                       pipelineVars, crossTalkVars, voiceVars>>

\* Time passes, a dead process is restarted, and a loop that runs takes its
\* steps: the drain before the sleep, the sweep before the drain.
JobFairness ==
  /\ \A j \in Jobs :
       /\ WF_jobVars(focus = "jobs" /\ Falls(j))
       /\ WF_jobVars(focus = "jobs" /\ LeaseExpires(j))
  /\ \A r \in Runners :
       /\ WF_jobVars(focus = "jobs" /\ RunnerBoots(r))
       /\ WF_jobVars(focus = "jobs" /\ rPc[r] = "polling" /\ SweepExpiredJobs(r))
       /\ WF_jobVars(focus = "jobs" /\ (ClaimJob(r) \/ DrainEnds(r)
                                        \/ HandlerReturns(r) \/ TerminalWrite(r)))

ElectorFairness ==
  /\ WF_electorVars(focus = "elector" /\ TimePasses)
  /\ \A i \in Instances : WF_electorVars(focus = "elector" /\ ElectorStep(i))

\* A requester polls until its budget is spent, a heartbeat whose session is gone
\* winds down, a lost host is reaped, and some claim loop sweeps.
ControlsFairness ==
  /\ \A c \in Controls :
       /\ WF_controlVars(focus = "controls" /\ (CreateVoiceSessionControl(c) \/ Poll(c)))
       /\ WF_controlVars(focus = "controls" /\ (GiveUp(c) \/ CancelPending(c)))
  /\ WF_controlVars(focus = "controls" /\ HostStep)
  /\ WF_controlVars(focus = "controls" /\ ~cSession /\ WindDown)
  /\ WF_controlVars(focus = "controls" /\ hPc = "gone" /\ Reap)
  /\ WF_controlVars(focus = "controls" /\ SweepOrphanedVoiceSessionControls)

\* The goroutine of a reply goes on; every provider call has a deadline.
AgentFairness == WF_agentVars(focus = "agent" /\ AgentStep)

\* The producer, every sentence and the pump's worker take their steps; a
\* synthesis that is read ends, and a cycle whose pump is closed cancels its turns.
PipelineFairness ==
  /\ WF_pipelineVars(focus = "pipeline" /\ ProducerStep)
  /\ WF_pipelineVars(focus = "pipeline" /\ WorkerExits)
  /\ WF_pipelineVars(focus = "pipeline" /\ pStopped /\ CutTurn)
  /\ \A s \in Spoken :
       /\ WF_pipelineVars(focus = "pipeline" /\ SentenceStep(s))
       /\ WF_pipelineVars(focus = "pipeline" /\ PumpStep(s))

\* The coordinator, the pick, the prerender and the pump's worker of an ensemble turn.
CrossTalkFairness ==
  /\ WF_crossTalkVars(focus = "crosstalk" /\ CoordinatorStep)
  /\ WF_crossTalkVars(focus = "crosstalk" /\ PickStep)
  /\ WF_crossTalkVars(focus = "crosstalk" /\ PrerenderStep)
  /\ WF_crossTalkVars(focus = "crosstalk" /\ WorkerStep)

\* disgo polls, and reads while packets come; Play, its watcher and Close finish; a
\* retired socket is closed.  Nobody need speak or send a packet.
VoiceFairness ==
  /\ WF_voiceVars(focus = "session" /\ SenderStep)
  /\ WF_voiceVars(focus = "session" /\ ReceiverStep)
  /\ WF_voiceVars(CloseStep)
  /\ \A p \in Plays :
       /\ WF_voiceVars(PlaySwap(p) \/ PlayReturn(p))
       /\ WF_voiceVars(WatchCancelled(p))
  /\ \A n \in 1..MaxSockets : WF_voiceVars(LingerEnds(n))

\* The loop goes on, the watchdog ticks, and the pipeline heeds its context.
LinkFairness ==
  /\ WF_linkVars(focus = "link" /\ CycleStep)
  /\ WF_linkVars(Check)
  /\ WF_linkVars(CycleOver /\ RunReturns)

FairSpec ==
  /\ Init /\ [][Next]_vars
  /\ JobFairness /\ ElectorFairness /\ ControlsFairness /\ AgentFairness
  /\ PipelineFairness /\ CrossTalkFairness /\ VoiceFairness /\ LinkFairness
-----------------------------------------------------------------------------
\* OwnershipSettles of the behaviours in which the electors run at all: if some
\* instance is up for good, the stream ends up with an owner that keeps it.
OwnerSettles == focus = "elector" => OwnershipSettles

\* Every turn comes to an end, whichever attempt or sentence fails or is cut: a reply
\* being generated (AgentOver), a turn spoken through the pipeline (PipelineEnds), and
\* an ensemble turn with its Reaction (CrossTalkEnds).
TurnEnds ==
  <>(/\ focus = "agent" => AgentOver
     /\ focus = "pipeline" => PipelineOver
     /\ focus = "crosstalk" => CrossTalkOver)

\* A Session that is closed or displaced lets everything go (VoiceEnds), and a loop
\* that is stopped or has lost its path moves on (LinkEnds).
ConnectionSettles == []<>(VoiceSettled /\ LinkSettled)
=============================================================================
