------------------------- MODULE ConversationProps -------------------------
(***************************************************************************)
(* Correctness properties of Conversation.                                 *)
(***************************************************************************)
EXTENDS Conversation

\* The Agents whose mute has been handled, MuteCut included.
Silenced == muted \ changes

\* Two turns never speak at once (Take: "so two turns never speak at once"): of two
\* that do, one has already lost the floor and is about to be cancelled.
OneVoice ==
  \A t, u \in Turns :
    pc[t] \in Voicing /\ pc[u] \in Voicing /\ cutBy[t] = "none" /\ cutBy[u] = "none" => t = u

\* A turn can always be cut: until it is over it holds the floor, or it has lost it
\* to somebody who cuts it (a stale release "must not wipe a newer turn's cancel").
HoldsUntilCut ==
  \A t \in Turns : pc[t] \in OnFloor => Holds(t) \/ cutBy[t] # "none"

\* The floor belongs to a turn under way, which nobody has cut yet.
HolderUnderWay ==
  \A t \in Turns : Holds(t) => pc[t] \in OnFloor /\ cutBy[t] = "none" /\ t \notin cancelled

\* The barge gate and the audio agree: the holder counts as speaking if and only if
\* its own first frame went out (MarkSpeaking ignores a late signal).
GateTellsTruth ==
  \A t \in Turns : Holds(t) => (floor.speaking <=> voice[t] = "heard")

\* A barge cuts only a turn that was audible (ADR-0027 Gate 1, re-checked when the
\* confirm window expires, #432).
BargeCutsHeard == \A t \in Turns : cutBy[t] = "barge" => voice[t] = "heard"

\* A turn that lost the floor is ended by the one who took it and by no other
\* cutter (onSuperseded: "never a second terminal for a turn that already got one
\* from its cutter").
EndedByItsCutter ==
  \A t \in Turns, r \in Cutters : r \in ended[t] => cutBy[t] = r /\ t \in cancelled

\* Who superseded a turn owes its TurnEnded, alone, until it is published.
OwedByOne ==
  \A t \in Turns :
    /\ pc[t] = "notify" <=> owes[t] \in Turns
    /\ owes[t] \in Turns => /\ cutBy[owes[t]] = "superseded"
                            /\ owes[t] \in cancelled
                            /\ "superseded" \notin ended[owes[t]]
                            /\ \A u \in Turns : owes[u] = owes[t] => u = t

\* A turn that has not asked for the floor yet has no past.
NoPast ==
  \A t \in Turns : pc[t] \in {"idle", "routed"} =>
    voice[t] = "silent" /\ cutBy[t] = "none" /\ t \notin cancelled /\ ended[t] = {}

\* The floor names the Agent that speaks on it.
FloorNamesAgent ==
  \A t \in Turns : Holds(t) =>
    (kind[t] # "ensemble" \/ pc[t] = "speaking" => floor.agent = agent[t])

\* Only ensembles race.
Routed ==
  \A t \in Turns :
    /\ kind[t] = "none" <=> pc[t] \in {"idle", "done"}
    /\ pc[t] \in {"racing", "elected", "fallback"} => kind[t] = "ensemble"

\* A reply of a muted Agent does not go on once its mute was handled, at whatever
\* moment between its route and its first word the mute came (#211 AC2, AC3).
MutedReplyCut ==
  \A t \in Turns :
    kind[t] = "reply" /\ pc[t] = "speaking" /\ agent[t] \in Silenced => cutBy[t] # "none"

\* Which together are inductive.
FloorInv ==
  /\ TypeOK
  /\ HoldsUntilCut
  /\ HolderUnderWay
  /\ GateTellsTruth
  /\ BargeCutsHeard
  /\ EndedByItsCutter
  /\ OwedByOne
  /\ NoPast
  /\ FloorNamesAgent
  /\ Routed
  /\ MutedReplyCut

\* A mute cuts a turn of the Agent that is muted and no other (#211 AC3).  An
\* Ensemble Turn is one unit, known by its anchor until its Lead is elected.
MuteCutsItsAgent ==
  [][\A t \in Turns :
       /\ cutBy[t] = "none" /\ cutBy'[t] = "mute" /\ kind[t] # "ensemble"
       => agent[t] \in changes]_vars

\* A turn that lost the floor is announced as ended, with the reason why, and no turn
\* keeps the floor for ever, whatever path it leaves by: again and again no turn has
\* either still to come (a turn takes the floor once).
TurnsSettled == \A t \in Turns : ~Holds(t) /\ (cutBy[t] # "none" => cutBy[t] \in ended[t])
=============================================================================
