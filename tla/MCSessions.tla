----------------------------- MODULE MCSessions -----------------------------
(* The sessions of a process, which the Manager starts and ends, and what    *)
(* must happen to the turns inside one.  The two share nothing, so each      *)
(* behaviour exercises one, its focus, while the other keeps its initial     *)
(* state, in which nothing that is fair to it can step.                      *)
EXTENDS SessionManagerProps, TLC

CONSTANTS u1, u2, Turns, Agents, Speakers, ReplayKey, NoTurn, NoAgent

ClipOverReply == (u1 :> {"reply", "ensemble"} @@ u2 :> {"clip"})

VARIABLES focus, floor, turnCancelled, pc, kind, targets, agent, owes, voice, cutBy, ended,
          pending, muted, changes

talkVars == <<floor, turnCancelled, pc, kind, targets, agent, owes, voice, cutBy, ended,
              pending, muted, changes>>

Talk == INSTANCE ConversationProps WITH cancelled <- turnCancelled, Offers <- ClipOverReply

SessionsInit == focus \in {"manager", "turns"} /\ MgrInit /\ Talk!Init

SessionsNext ==
  /\ UNCHANGED focus
  /\ \/ focus = "manager" /\ MgrNext /\ UNCHANGED talkVars
     \/ focus = "turns" /\ Talk!Next /\ UNCHANGED vars

SessionsSpec ==
  /\ SessionsInit /\ [][SessionsNext]_<<focus, vars, talkVars>>
  /\ MgrFairness /\ Talk!Fairness
-----------------------------------------------------------------------------
\* A turn that lost the floor is announced as ended, with the reason why (onSuperseded,
\* mute.go, barge.go), and no turn keeps the floor for ever, whatever path it leaves by.
TurnsSettle == []<>Talk!TurnsSettled
=============================================================================
