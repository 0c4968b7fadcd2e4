------------------------------- MODULE Floor -------------------------------
(***************************************************************************)
(* The conversational floor (pkg/voice/orchestrator/floor.go): the turn    *)
(* that may speak, and what the other reactors know it by.  Every method   *)
(* runs under Floor.mu, hence is one step.                                 *)
(*                                                                         *)
(* floor.turn merges cancel, gen and holderTurn: a turn takes the floor at *)
(* most once, so "gen is still mine" is "the holder is me", and a free     *)
(* floor is a nil cancel, which every reader tests first.  The clock is    *)
(* one bit, floor.fresh: the coalesce window of the last take is open.     *)
(***************************************************************************)
CONSTANTS
  Turns,        \* TurnIDs; each is minted for one routing decision
  Agents,
  ReplayKey,    \* the key all clip replays take the floor under
  NoTurn, NoAgent

ASSUME NoTurnAssumption == NoTurn \notin Turns
ASSUME AgentsAssumption == ReplayKey \notin Agents /\ NoAgent \notin Agents \cup {ReplayKey}

VARIABLES
  floor,        \* the holder, the Agent it is known by, audible or not, window open or not
  cancelled     \* the turns whose context is cancelled

Keys == Agents \cup {ReplayKey}

FreeFloor == [turn |-> NoTurn, agent |-> NoAgent, speaking |-> FALSE, fresh |-> FALSE]

FloorTypeOK ==
  /\ floor \in [turn : Turns \cup {NoTurn}, agent : Keys \cup {NoAgent},
                speaking : BOOLEAN, fresh : BOOLEAN]
  /\ cancelled \subseteq Turns

FloorInit == floor = FreeFloor /\ cancelled = {}

Held == floor.turn # NoTurn
Holds(t) == floor.turn = t

\* A take that continues the holder's utterance: same Agent, inside the window.
Coalesces(a) == Held /\ floor.fresh /\ floor.agent = a

\* Take as a continuation: the window starts over, the new turn is born cancelled.
TakeCoalesced(t, a) ==
  /\ Coalesces(a)
  /\ floor' = [floor EXCEPT !.fresh = TRUE]
  /\ cancelled' = cancelled \cup {t}

\* A mutant: the holder goes on.
NobodySuperseded == {}

\* Take proper: whoever holds the floor is cut.
Superseded == {floor.turn} \ {NoTurn}

Take(t, a) ==
  /\ ~Coalesces(a)
  /\ floor' = [turn |-> t, agent |-> a, speaking |-> FALSE, fresh |-> TRUE]
  /\ cancelled' = cancelled \cup Superseded

WindowCloses == floor.fresh /\ floor' = [floor EXCEPT !.fresh = FALSE] /\ UNCHANGED cancelled

Release(t) ==
  /\ floor' = IF Holds(t) THEN FreeFloor ELSE floor
  /\ cancelled' = cancelled \cup {t}

CanYieldTurn(t) == Holds(t) /\ floor.speaking

\* A mutant: whichever Agent it is known by.
CanYieldHolder(a) == Held

CanYieldAgent(a) == Held /\ floor.agent = a

\* A yield clears the floor under the lock; the context is cancelled after it.
Yield == floor' = FreeFloor /\ UNCHANGED cancelled

SetHolderAgent(t, a) ==
  /\ floor' = IF Holds(t) THEN [floor EXCEPT !.agent = a] ELSE floor
  /\ UNCHANGED cancelled

\* A mutant: a late signal marks a newer holder.
MarkHolderSpeaking(t) ==
  /\ floor' = IF Held THEN [floor EXCEPT !.speaking = TRUE] ELSE floor
  /\ UNCHANGED cancelled

MarkSpeaking(t) ==
  /\ floor' = IF Holds(t) THEN [floor EXCEPT !.speaking = TRUE] ELSE floor
  /\ UNCHANGED cancelled
=============================================================================
