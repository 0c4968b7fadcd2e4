----------------------------- MODULE LiveMutes -----------------------------
(***************************************************************************)
(* The mute set of a live session (internal/session/livesession.go) and    *)
(* the roster that acts on it (internal/wirenpc/mutewiring.go, roster.go). *)
(*                                                                         *)
(* Callers are RPC handlers, slash commands and the claim loop's dispatch, *)
(* each on its own goroutine.  The roster belongs to one Discord cycle: a  *)
(* reconnect builds a fresh one, subscribes it and seeds it.  Bus.Publish  *)
(* runs the subscriber on the publisher's goroutine.                       *)
(***************************************************************************)
EXTENDS FiniteSets

CONSTANTS Mutable, Callers, NoCaller, NoOne

ASSUME MutesAssumption == NoCaller \notin Callers /\ NoOne \notin Mutable

VARIABLES
  sEnded,      \* activeSession.ended
  sMuted,      \* activeSession.muted
  pubMu,       \* who holds activeSession.pubMu
  kPc, kOp,    \* where a caller stands, and what it asks for
  kEvents,     \* the MuteChanged events it has yet to publish
  kAgent, kMuted, \* the event being handled, and what its handler read
  kStale,      \* the handler belongs to a cycle that is over
  rCycle,      \* the cycle: "down", "subscribed", "seeding" (Roster.mu held), "up"
  rMuted,      \* the mutes of the cycle's matcher
  rSeed        \* the Agents ApplyMutes has yet to reconcile

callerVars == <<kPc, kOp, kEvents, kAgent, kMuted, kStale>>
cycleVars == <<rCycle, rMuted, rSeed>>
muteVars == <<sEnded, sMuted, pubMu, callerVars, cycleVars>>

Ops == [who : {{a} : a \in Mutable} \cup {Mutable}, muted : BOOLEAN]
NoOp == [who |-> {}, muted |-> FALSE]

MutesTypeOK ==
  /\ sEnded \in BOOLEAN /\ sMuted \subseteq Mutable /\ pubMu \in Callers \cup {NoCaller}
  /\ kPc \in [Callers -> {"idle", "listing", "publishing", "handling"}]
  /\ kOp \in [Callers -> Ops \cup {NoOp}]
  /\ kEvents \in [Callers -> SUBSET Mutable]
  /\ kAgent \in [Callers -> Mutable \cup {NoOne}]
  /\ kMuted \in [Callers -> BOOLEAN] /\ kStale \in [Callers -> BOOLEAN]
  /\ rCycle \in {"down", "subscribed", "seeding", "up"}
  /\ rMuted \subseteq Mutable /\ rSeed \subseteq Mutable

MutesInit ==
  /\ sEnded = FALSE /\ sMuted = {} /\ pubMu = NoCaller
  /\ kPc = [k \in Callers |-> "idle"] /\ kOp = [k \in Callers |-> NoOp]
  /\ kEvents = [k \in Callers |-> {}] /\ kAgent = [k \in Callers |-> NoOne]
  /\ kMuted = [k \in Callers |-> FALSE] /\ kStale = [k \in Callers |-> FALSE]
  /\ rCycle = "down" /\ rMuted = {} /\ rSeed = {}

-----------------------------------------------------------------------------
(* SetAgentMute and SetAllMute *)

With(set, a, muted) == IF muted THEN set \cup {a} ELSE set \ {a}

\* Manager.Live and the first revalidate; the roster is listed with no lock held.
TakeHandle(k) ==
  /\ kPc[k] = "idle" /\ ~sEnded
  /\ \E op \in Ops : kOp' = [kOp EXCEPT ![k] = op]
  /\ kPc' = [kPc EXCEPT ![k] = "listing"]
  /\ UNCHANGED <<sEnded, sMuted, pubMu, kEvents, kAgent, kMuted, kStale, cycleVars>>

Changed(op) == {a \in op.who : (a \in sMuted) # op.muted}

\* Mutated: the burst is published after pubMu is released.
PublishesUnlocked(k) == NoCaller

\* pubMu is held until the last event is published.
PublishesUnder(k) == k

\* Under pubMu, revalidate, write the set and collect what changed.
WriteMutes(k) ==
  /\ kPc[k] = "listing" /\ pubMu = NoCaller
  /\ IF sEnded
     THEN /\ kPc' = [kPc EXCEPT ![k] = "idle"] /\ kOp' = [kOp EXCEPT ![k] = NoOp]
          /\ UNCHANGED <<sMuted, pubMu, kEvents>>
     ELSE /\ kPc' = [kPc EXCEPT ![k] = "publishing"] /\ pubMu' = PublishesUnder(k)
          /\ kEvents' = [kEvents EXCEPT ![k] = Changed(kOp[k])]
          /\ sMuted' = IF kOp[k].muted THEN sMuted \cup kOp[k].who ELSE sMuted \ kOp[k].who
          /\ UNCHANGED kOp
  /\ UNCHANGED <<sEnded, kAgent, kMuted, kStale, cycleVars>>

\* One MuteChanged: the subscriber reads the view before it takes Roster.mu.
PublishMuteChanged(k) ==
  /\ kPc[k] = "publishing" /\ \E a \in kEvents[k] :
       IF rCycle = "down"
       THEN /\ kEvents' = [kEvents EXCEPT ![k] = @ \ {a}]
            /\ UNCHANGED <<kPc, kAgent, kMuted, kStale>>
       ELSE /\ kPc' = [kPc EXCEPT ![k] = "handling"] /\ kAgent' = [kAgent EXCEPT ![k] = a]
            /\ kMuted' = [kMuted EXCEPT ![k] = a \in sMuted]
            /\ kStale' = [kStale EXCEPT ![k] = FALSE]
            /\ UNCHANGED kEvents
  /\ UNCHANGED <<sEnded, sMuted, pubMu, kOp, cycleVars>>

\* Roster.SetMuted, on the roster of the handler's own cycle.
SetMuted(k) ==
  /\ kPc[k] = "handling" /\ (kStale[k] \/ rCycle # "seeding")
  /\ kPc' = [kPc EXCEPT ![k] = "publishing"]
  /\ kEvents' = [kEvents EXCEPT ![k] = @ \ {kAgent[k]}]
  /\ kAgent' = [kAgent EXCEPT ![k] = NoOne] /\ kMuted' = [kMuted EXCEPT ![k] = FALSE]
  /\ kStale' = [kStale EXCEPT ![k] = FALSE]
  /\ rMuted' = IF kStale[k] THEN rMuted ELSE With(rMuted, kAgent[k], kMuted[k])
  /\ UNCHANGED <<sEnded, sMuted, pubMu, kOp, rCycle, rSeed>>

Replied(k) ==
  /\ kPc[k] = "publishing" /\ kEvents[k] = {}
  /\ kPc' = [kPc EXCEPT ![k] = "idle"] /\ kOp' = [kOp EXCEPT ![k] = NoOp]
  /\ pubMu' = IF pubMu = k THEN NoCaller ELSE pubMu
  /\ UNCHANGED <<sEnded, sMuted, kEvents, kAgent, kMuted, kStale, cycleVars>>

-----------------------------------------------------------------------------
(* The cycle *)

\* A fresh roster, subscribed before it is seeded.
Connect ==
  /\ rCycle = "down" /\ ~sEnded /\ rCycle' = "subscribed"
  /\ rMuted' = {} /\ rSeed' = Mutable
  /\ UNCHANGED <<sEnded, sMuted, pubMu, callerVars>>

\* ApplyMutes holds Roster.mu and asks the view for one Agent after the other.
ApplyMutes ==
  /\ rCycle \in {"subscribed", "seeding"}
  /\ IF rSeed = {} THEN rCycle' = "up" /\ UNCHANGED <<rMuted, rSeed>>
     ELSE \E a \in rSeed :
       /\ rCycle' = "seeding" /\ rSeed' = rSeed \ {a}
       /\ rMuted' = With(rMuted, a, a \in sMuted)
  /\ UNCHANGED <<sEnded, sMuted, pubMu, callerVars>>

\* The gateway drops the connection: the next cycle has a roster of its own.
CycleEnds ==
  /\ rCycle = "up" /\ rCycle' = "down" /\ rMuted' = {}
  /\ kStale' = [k \in Callers |-> kPc[k] = "handling"]
  /\ UNCHANGED <<sEnded, sMuted, pubMu, kPc, kOp, kEvents, kAgent, kMuted, rSeed>>

\* The loop has returned, so its cycle is over.
EndMutes ==
  /\ ~sEnded /\ rCycle = "down" /\ sEnded' = TRUE
  /\ UNCHANGED <<sMuted, pubMu, callerVars, cycleVars>>

MutesNext ==
  \/ \E k \in Callers :
       TakeHandle(k) \/ WriteMutes(k) \/ PublishMuteChanged(k) \/ SetMuted(k) \/ Replied(k)
  \/ Connect \/ ApplyMutes \/ CycleEnds \/ EndMutes

MutesSpec == MutesInit /\ [][MutesNext]_muteVars

-----------------------------------------------------------------------------
(* What the mute wiring promises *)

\* Once the cycle is up, an Agent's routing differs from the Manager's set only
\* while the one caller that holds pubMu still has its event to deliver, whatever
\* reconnects and overlapping mutes came before (mutewiring.go: "every event
\* converges the roster to the current truth").
RosterConverges == rCycle = "up" =>
  \A a \in Mutable : (a \in rMuted) # (a \in sMuted) =>
    pubMu # NoCaller /\ a \in kEvents[pubMu]

\* What a handler has read is still the truth when it is applied: no other
\* caller's write comes between.
HandlerReadsTruth == \A k \in Callers :
  kPc[k] = "handling" => pubMu = k /\ kMuted[k] = (kAgent[k] \in sMuted)

MutesInv == MutesTypeOK /\ RosterConverges /\ HandlerReadsTruth
=============================================================================
