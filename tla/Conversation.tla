---------------------------- MODULE Conversation ----------------------------
(***************************************************************************)
(* The turns of one voice session and everything that ends them            *)
(* (pkg/voice/orchestrator): replies and Ensemble Turns (reactor.go,       *)
(* ensemble.go), GM speech (directspeech.go) and clip replays              *)
(* (clipreplay.go) share the Floor; BargeIn (barge.go) and MuteCut         *)
(* (mute.go) cut the turn that holds it.                                   *)
(*                                                                         *)
(* A turn is routed on a bus goroutine and, once it holds the floor, runs  *)
(* on one of its own.  Bus delivery is synchronous on the publisher's      *)
(* goroutine, so a handler's steps interleave with those of every other    *)
(* publisher.  What a turn says, and a Cross-talk Reaction after the       *)
(* Lead's line, are not modelled.                                          *)
(***************************************************************************)
EXTENDS Floor

CONSTANTS
  Speakers,     \* human participants, each with a Speaker Lane
  Offers        \* what a turn may be routed by: Routes, or less to bound a run

Routes == {"reply", "ensemble", "say", "clip"}

ASSUME OffersAssumption == Offers \in [Turns -> SUBSET Routes]

VARIABLES
  pc,       \* where a turn stands
  kind,     \* what it was routed by
  targets,  \* of an ensemble, the Agents that draft
  agent,    \* the Agent that speaks; for an ensemble, first its anchor
  owes,     \* the turn it superseded and has still to publish the end of
  voice,    \* its audio: "silent", first frame "pulled", FirstOpus published ("heard")
  cutBy,    \* who took the floor from it
  ended,    \* the reasons of the TurnEnded published for it
  pending,  \* a speaker's armed confirm window: the turn it was armed against
  muted,    \* the Manager's mute set
  changes   \* Agents muted whose MuteChanged has not been handled yet

turns == <<pc, kind, targets, agent, owes, voice, cutBy, ended>>
mute == <<muted, changes>>
vars == <<floor, cancelled, pc, kind, targets, agent, owes, voice, cutBy, ended,
          pending, muted, changes>>

\* "routed" .. "taken" run on the bus goroutine; "dropped" has released the floor
\* to a mute and publishes that; the rest runs on the turn's own goroutine.
Steps == {"idle", "routed", "notify", "taken", "dropped", "racing", "elected",
          "speaking", "fallback", "failing", "releasing", "done"}
OnFloor == {"notify", "taken", "racing", "elected", "speaking", "fallback", "failing",
            "releasing"}
Voicing == {"speaking", "fallback"}

\* "refused" is any reason given to a turn that never held the floor: mute,
\* spend_cap, provider_error, supersede_coalesced.  "failed" is one that a turn on
\* the floor publishes itself: tts_error, provider_error, text_delivered;
\* "silenced" is its own mute, to tell it from MuteCut's "mute".
Cutters == {"superseded", "barge", "mute"}
Reasons == Cutters \cup {"refused", "failed", "silenced"}

TypeOK ==
  /\ FloorTypeOK
  /\ pc \in [Turns -> Steps]
  /\ kind \in [Turns -> Routes \cup {"none"}]
  /\ targets \in [Turns -> SUBSET Agents]
  /\ agent \in [Turns -> Keys \cup {NoAgent}]
  /\ owes \in [Turns -> Turns \cup {NoTurn}]
  /\ voice \in [Turns -> {"silent", "pulled", "heard"}]
  /\ cutBy \in [Turns -> Cutters \cup {"none"}]
  /\ ended \in [Turns -> SUBSET Reasons]
  /\ pending \in [Speakers -> Turns \cup {NoTurn}]
  /\ muted \subseteq Agents /\ changes \subseteq muted

Init ==
  /\ FloorInit
  /\ pc = [t \in Turns |-> "idle"]
  /\ kind = [t \in Turns |-> "none"]
  /\ targets = [t \in Turns |-> {}]
  /\ agent = [t \in Turns |-> NoAgent]
  /\ owes = [t \in Turns |-> NoTurn]
  /\ voice = [t \in Turns |-> "silent"]
  /\ cutBy = [t \in Turns |-> "none"]
  /\ ended = [t \in Turns |-> {}]
  /\ pending = [s \in Speakers |-> NoTurn]
  /\ muted = {} /\ changes = {}

Goto(t, s) == pc' = [pc EXCEPT ![t] = s]

\* Nobody asks any more what a turn that is over was about.
Over(t) ==
  /\ Goto(t, "done")
  /\ kind' = [kind EXCEPT ![t] = "none"]
  /\ targets' = [targets EXCEPT ![t] = {}]
  /\ agent' = [agent EXCEPT ![t] = NoAgent]

EndWith(t, r) == ended' = [ended EXCEPT ![t] = @ \cup {r}]

-----------------------------------------------------------------------------
(* Routing: the checks made before the floor is taken. *)

Open(t, k, T, a) ==
  /\ kind' = [kind EXCEPT ![t] = k]
  /\ targets' = [targets EXCEPT ![t] = T]
  /\ agent' = [agent EXCEPT ![t] = a]
  /\ Goto(t, "routed")
  /\ UNCHANGED <<owes, voice, cutBy, ended, floor, cancelled, pending, mute>>

Refuse(t) ==
  /\ EndWith(t, "refused")
  /\ Goto(t, "done")
  /\ UNCHANGED <<kind, targets, agent, owes, voice, cutBy, floor, cancelled, pending, mute>>

\* One segmenter worker publishes the routes of a session, one after the other.
Router(t) ==
  /\ pc[t] = "idle"
  /\ \A u \in Turns :
       kind[u] \in {"reply", "ensemble"} => pc[u] \notin {"routed", "notify", "taken", "dropped"}

\* The spend gate may refuse any turn but a replay; so does an Agent without a
\* voice, of a /say.
RouteReply(t, a) ==
  Router(t) /\ (Refuse(t) \/ (a \notin muted /\ Open(t, "reply", {}, a)))

\* Muted candidates are dropped first; a single survivor is a reply.  The anchor is
\* the top-scored survivor.
RouteEnsemble(t, T) ==
  /\ Router(t)
  /\ \/ Refuse(t)
     \/ \E a \in T \ muted :
          IF T \ muted = {a} THEN Open(t, "reply", {}, a) ELSE Open(t, "ensemble", T \ muted, a)

\* A /say overrides a mute.
Say(t, a) == pc[t] = "idle" /\ (Refuse(t) \/ Open(t, "say", {}, a))

Replay(t) == pc[t] = "idle" /\ Open(t, "clip", {}, ReplayKey)

-----------------------------------------------------------------------------
(* Taking the floor. *)

\* A coalesced clip is dropped without a TurnEnded.
Coalesce(t) ==
  /\ pc[t] = "routed"
  /\ TakeCoalesced(t, agent[t])
  /\ Over(t)
  /\ IF kind[t] = "clip" THEN UNCHANGED ended ELSE EndWith(t, "refused")
  /\ UNCHANGED <<owes, voice, cutBy, pending, mute>>

TakeFloor(t) ==
  /\ pc[t] = "routed"
  /\ Take(t, agent[t])
  /\ cutBy' = [u \in Turns |-> IF u \in Superseded THEN "superseded" ELSE cutBy[u]]
  /\ owes' = [owes EXCEPT ![t] = floor.turn]
  /\ Goto(t, IF Held THEN "notify" ELSE "taken")
  /\ UNCHANGED <<kind, targets, agent, voice, ended, pending, mute>>

\* The cut turn's TurnEnded, outside the lock, before Take returns.
Notify(t) ==
  /\ pc[t] = "notify"
  /\ EndWith(owes[t], "superseded")
  /\ owes' = [owes EXCEPT ![t] = NoTurn]
  /\ Goto(t, "taken")
  /\ UNCHANGED <<kind, targets, agent, voice, cutBy, floor, cancelled, pending, mute>>

\* The race closure: every addressee was muted between the route and the take.
MutedMeanwhile(t) ==
  \/ kind[t] = "reply" /\ agent[t] \in muted
  \/ kind[t] = "ensemble" /\ targets[t] \subseteq muted

Start(t) ==
  /\ pc[t] = "taken" /\ ~MutedMeanwhile(t)
  /\ Goto(t, IF kind[t] = "ensemble" THEN "racing" ELSE "speaking")
  /\ targets' = [targets EXCEPT ![t] = @ \ muted]
  /\ UNCHANGED <<kind, agent, owes, voice, cutBy, ended, floor, cancelled, pending, mute>>

\* A mutant: the floor is kept.
DropKeepsFloor(t) ==
  /\ pc[t] = "taken" /\ MutedMeanwhile(t)
  /\ Goto(t, "dropped")
  /\ UNCHANGED <<kind, targets, agent, owes, voice, cutBy, ended, floor, cancelled,
                 pending, mute>>

Drop(t) ==
  /\ pc[t] = "taken" /\ MutedMeanwhile(t)
  /\ Release(t)
  /\ Goto(t, "dropped")
  /\ UNCHANGED <<kind, targets, agent, owes, voice, cutBy, ended, pending, mute>>

PublishDropped(t) ==
  /\ pc[t] = "dropped"
  /\ EndWith(t, "silenced")
  /\ Over(t)
  /\ UNCHANGED <<owes, voice, cutBy, floor, cancelled, pending, mute>>

-----------------------------------------------------------------------------
(* The turn's own goroutine. *)

\* The first complete draft wins, if the context is still alive then: EnsembleLead
\* is published, and after it the floor is retargeted.
Elect(t, a) ==
  /\ pc[t] = "racing" /\ t \notin cancelled
  /\ a \in targets[t]
  /\ agent' = [agent EXCEPT ![t] = a]
  /\ Goto(t, "elected")
  /\ UNCHANGED <<kind, targets, owes, voice, cutBy, ended, floor, cancelled, pending, mute>>

Retarget(t) ==
  /\ pc[t] = "elected"
  /\ SetHolderAgent(t, agent[t])
  /\ Goto(t, "speaking")
  /\ UNCHANGED <<kind, targets, agent, owes, voice, cutBy, ended, pending, mute>>

RaceCut(t) ==
  /\ pc[t] = "racing" /\ t \in cancelled
  /\ Goto(t, "releasing")
  /\ UNCHANGED <<kind, targets, agent, owes, voice, cutBy, ended, floor, cancelled,
                 pending, mute>>

\* No draft to speak: somebody declined, or every draft failed and the top-scored
\* candidate, the anchor unless it was muted meanwhile, speaks a canned line.
RaceLost(t) ==
  /\ pc[t] = "racing" /\ t \notin cancelled
  /\ \/ Goto(t, "failing") /\ UNCHANGED agent
     \/ \E a \in targets[t] : /\ agent[t] \in targets[t] => a = agent[t]
                              /\ agent' = [agent EXCEPT ![t] = a]
                              /\ Goto(t, "fallback")
  /\ UNCHANGED <<kind, targets, owes, voice, cutBy, ended, floor, cancelled, pending, mute>>

\* Whatever became of the context during the canned line.
FallbackEnds(t) ==
  /\ pc[t] = "fallback"
  /\ Goto(t, "failing")
  /\ UNCHANGED <<kind, targets, agent, owes, voice, cutBy, ended, floor, cancelled,
                 pending, mute>>

\* A clean turn, and a cancelled one, end without a TurnEnded of their own.
Finish(t) ==
  /\ pc[t] = "speaking"
  /\ Goto(t, "releasing")
  /\ UNCHANGED <<kind, targets, agent, owes, voice, cutBy, ended, floor, cancelled,
                 pending, mute>>

\* A turn that ended for a reason of its own looks at its context, then publishes.
Fail(t) ==
  /\ pc[t] = "speaking" /\ kind[t] # "clip" /\ t \notin cancelled
  /\ Goto(t, "failing")
  /\ UNCHANGED <<kind, targets, agent, owes, voice, cutBy, ended, floor, cancelled,
                 pending, mute>>

PublishFailure(t) ==
  /\ pc[t] = "failing"
  /\ EndWith(t, "failed")
  /\ Goto(t, "releasing")
  /\ UNCHANGED <<kind, targets, agent, owes, voice, cutBy, floor, cancelled, pending, mute>>

ReleaseFloor(t) ==
  /\ pc[t] = "releasing"
  /\ Release(t)
  /\ Over(t)
  /\ UNCHANGED <<owes, voice, cutBy, ended, pending, mute>>

-----------------------------------------------------------------------------
(* Playback, on the sender's goroutine. *)

Hears(t, v) == voice' = [voice EXCEPT ![t] = v]

\* The sender takes the turn's first chunk; FirstOpus follows when it has encoded it,
\* which may be after the turn has lost the floor or is over.
FirstFrame(t) ==
  /\ pc[t] \in Voicing /\ t \notin cancelled /\ voice[t] = "silent"
  /\ Hears(t, "pulled")
  /\ UNCHANGED <<pc, kind, targets, agent, owes, cutBy, ended, floor, cancelled,
                 pending, mute>>

FirstOpus(t) ==
  /\ voice[t] = "pulled"
  /\ Hears(t, "heard")
  /\ MarkSpeaking(t)
  /\ UNCHANGED <<pc, kind, targets, agent, owes, cutBy, ended, pending, mute>>

-----------------------------------------------------------------------------
(* BargeIn: a confirm window per speaker. *)

Onset(s) ==
  /\ Held /\ floor.speaking
  /\ pending' = [pending EXCEPT ![s] = floor.turn]
  /\ UNCHANGED <<turns, floor, cancelled, mute>>

Disarm(s) ==
  /\ pending[s] # NoTurn
  /\ pending' = [pending EXCEPT ![s] = NoTurn]
  /\ UNCHANGED <<turns, floor, cancelled, mute>>

CutHolder(r) ==
  /\ Yield
  /\ cutBy' = [cutBy EXCEPT ![floor.turn] = r]

\* The window elapses and the barge fires.  What happens between the two cannot
\* change what the yield finds but by ending the turn it is about.
Fire(s) ==
  /\ pending[s] # NoTurn
  /\ pending' = [pending EXCEPT ![s] = NoTurn]
  /\ \/ CanYieldTurn(pending[s]) /\ CutHolder("barge")
     \/ ~CanYieldTurn(pending[s]) /\ UNCHANGED <<floor, cancelled, cutBy>>
  /\ UNCHANGED <<pc, kind, targets, agent, owes, voice, ended, mute>>

\* The steps that follow a yield, whoever made it.
CancelCut(t) ==
  /\ cutBy[t] \in {"barge", "mute"} /\ t \notin cancelled
  /\ cancelled' = cancelled \cup {t}
  /\ UNCHANGED <<floor, turns, pending, mute>>

PublishCut(t) ==
  /\ cutBy[t] \in {"barge", "mute"} /\ t \in cancelled /\ cutBy[t] \notin ended[t]
  /\ EndWith(t, cutBy[t])
  /\ UNCHANGED <<pc, kind, targets, agent, owes, voice, cutBy, floor, cancelled,
                 pending, mute>>

-----------------------------------------------------------------------------
(* Mutes: the set is written, then MuteChanged published, all under pubMu. *)

MuterIdle == \A t \in Turns : cutBy[t] = "mute" => "mute" \in ended[t]

SetMuted(M) ==
  /\ changes = {} /\ MuterIdle
  /\ M # muted
  /\ muted' = M
  /\ changes' = M \ muted
  /\ UNCHANGED <<turns, floor, cancelled, pending>>

SetAgentMute(a) == SetMuted(muted \cup {a}) \/ SetMuted(muted \ {a})
SetAllMute == SetMuted(Agents) \/ SetMuted({})

MuteCut(a) ==
  /\ a \in changes /\ MuterIdle
  /\ changes' = changes \ {a}
  /\ \/ CanYieldAgent(a) /\ CutHolder("mute")
     \/ ~CanYieldAgent(a) /\ UNCHANGED <<floor, cancelled, cutBy>>
  /\ UNCHANGED <<pc, kind, targets, agent, owes, voice, ended, pending, muted>>

CoalesceWindowCloses == WindowCloses /\ UNCHANGED <<turns, pending, mute>>

-----------------------------------------------------------------------------
Route(t) ==
  \/ "reply" \in Offers[t] /\ \E a \in Agents : RouteReply(t, a)
  \/ "ensemble" \in Offers[t] /\ \E T \in SUBSET Agents :
       (\E a, b \in T : a # b) /\ RouteEnsemble(t, T)
  \/ "say" \in Offers[t] /\ \E a \in Agents : Say(t, a)
  \/ "clip" \in Offers[t] /\ Replay(t)

Opening(t) ==
  Coalesce(t) \/ TakeFloor(t) \/ Notify(t) \/ Start(t) \/ Drop(t) \/ PublishDropped(t)

Racing(t) ==
  (\E a \in Agents : Elect(t, a)) \/ Retarget(t) \/ RaceCut(t) \/ RaceLost(t)

Ending(t) ==
  FallbackEnds(t) \/ Finish(t) \/ Fail(t) \/ PublishFailure(t) \/ ReleaseFloor(t)

Cutting(t) == CancelCut(t) \/ PublishCut(t)

Turn(t) == Opening(t) \/ Racing(t) \/ Ending(t)

Next ==
  \/ \E t \in Turns : Route(t) \/ Turn(t) \/ Cutting(t) \/ FirstFrame(t) \/ FirstOpus(t)
  \/ \E s \in Speakers : Onset(s) \/ Disarm(s) \/ Fire(s)
  \/ \E a \in Agents : SetAgentMute(a) \/ MuteCut(a)
  \/ SetAllMute \/ CoalesceWindowCloses

Spec == Init /\ [][Next]_vars

\* Every goroutine goes on; in particular a draft, a reply and its playback come
\* to an end, if only by an error.  Nobody needs to speak, mute or route.
Fairness ==
  /\ \A t \in Turns : WF_vars(Turn(t)) /\ WF_vars(Cutting(t))
  /\ \A a \in Agents : WF_vars(MuteCut(a))
=============================================================================
