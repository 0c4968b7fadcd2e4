----------------------------- MODULE ClaimPlane -----------------------------
(***************************************************************************)
(* The split deployment's session assignment: Voice Instances (-mode       *)
(* voice) claim the intents the web tier writes, drive them live, keep     *)
(* their heartbeats fresh and wind them down                               *)
(* (internal/session/claimloop.go over ClaimStore and the Manager).        *)
(*                                                                         *)
(* A worker runs one tick goroutine (reap, reconcile, then claim-and-start *)
(* synchronously while it has capacity) and one runSession goroutine per   *)
(* live intent; pc[w][i] is the goroutine of w that is responsible for     *)
(* intent i, the tick goroutine until the intent is live.  loop[w][i] is   *)
(* the Manager's active entry for the session of i.  Any process may       *)
(* crash, any store call may fail, and a heartbeat may expire at any time: *)
(* no assumption is made here about how long a step takes.                 *)
(***************************************************************************)
EXTENDS ClaimStore, FiniteSets

CONSTANTS
  MaxSessions,  \* GLYPHOXA_MAX_VOICE_SESSIONS: one worker's concurrent sessions
  StoreFails,   \* may a store call report an error?
  NoIntent

ASSUME MaxSessionsAssumption == MaxSessions \in Nat \ {0}
ASSUME StoreFailsAssumption == StoreFails \in BOOLEAN
ASSUME NoIntentAssumption == NoIntent \notin Intents

VARIABLES
  phase,    \* the worker process: "off", "up", "draining" (SIGTERM) or "gone"
  tick,     \* where its claim loop's tick stands
  pc,       \* what the goroutine responsible for an intent does next
  why,      \* why that goroutine stops a session
  target,   \* the Manager entry whose end that Manager.Stop waits for
  loop      \* the Manager's entry for the intent's session

local == <<phase, tick, pc, why, target, loop>>
vars == <<intent, row, phase, tick, pc, why, target, loop>>

Phases == {"off", "up", "draining", "gone"}
Ticks == {"reap", "reconcile", "claim"}

\* "starting" .. "failing" run inside startClaimed, "beating" .. "finishing" in
\* runSession; a "stopping" goroutine is about to call Manager.Stop, a "waiting"
\* one is blocked in it, a "wedged" one is blocked and past DrainBeatCap.
Steps == {"none", "claimed", "starting", "marking", "failing", "beating", "seenLive",
          "seenEnding", "stopping", "waiting", "wedged", "finishing"}
Blocked == {"waiting", "wedged"}

\* "unclaimed": MarkLive found no row; "unmarked": MarkLive failed; "superseded":
\* a heartbeat found no row; "ended": a requested stop or SIGTERM.
Reasons == {"none", "unclaimed", "unmarked", "superseded", "ended"}

\* A session's loop runs, runs with its context cancelled, or has exited: cleanly
\* or with a fault, its finalizers and the closing write still to come.
Loops == {"none", "running", "cancelled", "ended", "faulted"}
Exited == {"ended", "faulted"}

TypeOK ==
  /\ StoreTypeOK
  /\ phase \in [Workers -> Phases]
  /\ tick \in [Workers -> Ticks]
  /\ pc \in [Workers -> [Intents -> Steps]]
  /\ why \in [Workers -> [Intents -> Reasons]]
  /\ target \in [Workers -> [Intents -> Intents \cup {NoIntent}]]
  /\ loop \in [Workers -> [Intents -> Loops]]

Init ==
  /\ StoreInit
  /\ phase = [w \in Workers |-> "off"]
  /\ tick = [w \in Workers |-> "reap"]
  /\ pc = [w \in Workers |-> [i \in Intents |-> "none"]]
  /\ why = [w \in Workers |-> [i \in Intents |-> "none"]]
  /\ target = [w \in Workers |-> [i \in Intents |-> NoIntent]]
  /\ loop = [w \in Workers |-> [i \in Intents |-> "none"]]

-----------------------------------------------------------------------------
(* The Manager as the claim loop sees it. *)

Alive(w) == phase[w] \in {"up", "draining"}

\* The Manager's map is keyed by Tenant: an entry of i's Tenant on w.
IsEntry(w, i, j) == loop[w][j] # "none" /\ Tenant(j) = Tenant(i)

Active(w, i) == \E j \in Intents : IsEntry(w, i, j) /\ loop[w][j] \notin Exited
Finalizing(w, i) == \E j \in Intents : IsEntry(w, i, j) /\ loop[w][j] \in Exited

Entries(w) == {i \in Intents : loop[w][i] # "none"}

\* Mutants: one session too many, one too few.
HasCapacityMore(w) == Cardinality(Entries(w)) <= MaxSessions
HasCapacityLess(w) == Cardinality(Entries(w)) + 1 < MaxSessions

HasCapacity(w) == Cardinality(Entries(w)) < MaxSessions

\* startClaimed runs in the tick goroutine, which claims nothing more meanwhile.
InStartClaimed(w, i) ==
  \/ pc[w][i] \in {"claimed", "starting", "marking", "failing"}
  \/ why[w][i] \in {"unclaimed", "unmarked"}
TickFree(w) == \A i \in Intents : ~InStartClaimed(w, i)

Goto(w, i, s) == pc' = [pc EXCEPT ![w][i] = s]
StopFor(w, i, r) == Goto(w, i, "stopping") /\ why' = [why EXCEPT ![w][i] = r]

-----------------------------------------------------------------------------
(* The worker process. *)

\* A boot reconciles before anything else; a failed reconcile fails the boot.
Boot(w) ==
  /\ phase[w] = "off"
  /\ phase' = [phase EXCEPT ![w] = "up"]
  /\ ReconcileWorkerOrphanedVoiceSessions
  /\ UNCHANGED <<tick, pc, why, target, loop>>

\* SIGTERM cancels the run context: the tick under way starts nothing more.
Sigterm(w) ==
  /\ phase[w] = "up"
  /\ phase' = [phase EXCEPT ![w] = "draining"]
  /\ tick' = [tick EXCEPT ![w] = "reap"]
  /\ UNCHANGED <<intent, row, pc, why, target, loop>>

\* Run returns once every goroutine has; Manager.Shutdown then finds no entry.
Exit(w) ==
  /\ phase[w] = "draining"
  /\ \A i \in Intents : pc[w][i] = "none" /\ loop[w][i] = "none"
  /\ phase' = [phase EXCEPT ![w] = "gone"]
  /\ UNCHANGED <<intent, row, tick, pc, why, target, loop>>

Crash(w) ==
  /\ Alive(w)
  /\ phase' = [phase EXCEPT ![w] = "gone"]
  /\ tick' = [tick EXCEPT ![w] = "reap"]
  /\ pc' = [pc EXCEPT ![w] = [i \in Intents |-> "none"]]
  /\ why' = [why EXCEPT ![w] = [i \in Intents |-> "none"]]
  /\ target' = [target EXCEPT ![w] = [i \in Intents |-> NoIntent]]
  /\ loop' = [loop EXCEPT ![w] = [i \in Intents |-> "none"]]
  /\ UNCHANGED store

-----------------------------------------------------------------------------
(* tick: reap, reconcile, then claim while there is capacity. *)

TickTo(w, t) == tick' = [tick EXCEPT ![w] = t]

Reap(w) ==
  /\ phase[w] = "up" /\ tick[w] = "reap"
  /\ \/ ReapDeadVoiceSessionIntents
     \/ StoreFails /\ UNCHANGED store
  /\ TickTo(w, "reconcile")
  /\ UNCHANGED <<phase, pc, why, target, loop>>

Reconcile(w) ==
  /\ phase[w] = "up" /\ tick[w] = "reconcile"
  /\ \/ ReconcileWorkerOrphanedVoiceSessions
     \/ StoreFails /\ UNCHANGED store
  /\ TickTo(w, "claim")
  /\ UNCHANGED <<phase, pc, why, target, loop>>

Claim(w, i) ==
  /\ phase[w] = "up" /\ tick[w] = "claim" /\ TickFree(w) /\ HasCapacity(w)
  /\ ClaimVoiceSessionIntent(w, i)
  /\ Goto(w, i, "claimed")
  /\ UNCHANGED <<phase, tick, why, target, loop>>

\* The claim committed but its caller got an error: nobody drives the intent.
ClaimLost(w, i) ==
  /\ StoreFails
  /\ phase[w] = "up" /\ tick[w] = "claim" /\ TickFree(w) /\ HasCapacity(w)
  /\ ClaimVoiceSessionIntent(w, i)
  /\ TickTo(w, "reap")
  /\ UNCHANGED <<phase, pc, why, target, loop>>

\* Nothing to claim, no capacity, or a failed claim: the tick is over.
EndTick(w) ==
  /\ phase[w] = "up" /\ tick[w] = "claim" /\ TickFree(w)
  /\ \/ ~HasCapacity(w)
     \/ \A i \in Intents : intent[i].status # "pending"
     \/ StoreFails
  /\ TickTo(w, "reap")
  /\ UNCHANGED <<intent, row, phase, pc, why, target, loop>>

-----------------------------------------------------------------------------
(* startClaimed: Manager.Start, then MarkLive. *)

\* The per-Tenant guard of Manager.Start, where the reservation is taken.
Reserve(w, i) ==
  /\ pc[w][i] = "claimed"
  /\ \/ /\ Active(w, i) \/ Finalizing(w, i)
        /\ Goto(w, i, "failing")
     \/ /\ ~Active(w, i) /\ ~Finalizing(w, i)
        /\ Goto(w, i, "starting")
  /\ UNCHANGED <<intent, row, phase, tick, why, target, loop>>

\* A precondition or a store read of Start fails before any row is created, or
\* the insert committed and its answer was lost.
StartRefused(w, i) ==
  /\ pc[w][i] = "starting"
  /\ \/ UNCHANGED store
     \/ StoreFails /\ CreateVoiceSession(i)
  /\ Goto(w, i, "failing")
  /\ UNCHANGED <<phase, tick, why, target, loop>>

StartCommitted(w, i) ==
  /\ pc[w][i] = "starting"
  /\ CreateVoiceSession(i)
  /\ loop' = [loop EXCEPT ![w][i] = "running"]
  /\ Goto(w, i, "marking")
  /\ UNCHANGED <<phase, tick, why, target>>

MarkLive(w, i) ==
  /\ pc[w][i] = "marking"
  /\ MarkVoiceSessionIntentLive(w, i)
  /\ Goto(w, i, "beating")
  /\ UNCHANGED <<phase, tick, why, target, loop>>

MarkLiveNotFound(w, i) ==
  /\ pc[w][i] = "marking"
  /\ ~CanMarkLive(w, i)
  /\ StopFor(w, i, "unclaimed")
  /\ UNCHANGED <<intent, row, phase, tick, target, loop>>

\* The write failed, or committed and its answer was lost; a SIGTERM that
\* cancels the call is one way to fail.
MarkLiveFailed(w, i) ==
  /\ pc[w][i] = "marking"
  /\ StoreFails \/ phase[w] = "draining"
  /\ MarkVoiceSessionIntentLive(w, i) \/ UNCHANGED store
  /\ StopFor(w, i, "unmarked")
  /\ UNCHANGED <<phase, tick, target, loop>>

\* finish(failed): fenced, its errors swallowed.
FinishFailed(w, i) ==
  /\ pc[w][i] = "failing"
  /\ \/ FinishVoiceSessionIntent(w, i, "failed")
     \/ ~Holds(w, i) /\ UNCHANGED store
     \/ StoreFails /\ UNCHANGED store
  /\ Goto(w, i, "none")
  /\ UNCHANGED <<phase, tick, why, target, loop>>

-----------------------------------------------------------------------------
(* runSession: one heartbeat tick reads the Manager, then the claim. *)

\* A mutant: no Finalizing gate.
LookUngated(w, i) ==
  /\ pc[w][i] = "beating"
  /\ Goto(w, i, IF Active(w, i) THEN "seenLive" ELSE "finishing")
  /\ UNCHANGED <<intent, row, phase, tick, why, target, loop>>

Look(w, i) ==
  /\ pc[w][i] = "beating"
  /\ Goto(w, i, IF Active(w, i) THEN "seenLive"
                ELSE IF Finalizing(w, i) THEN "seenEnding" ELSE "finishing")
  /\ UNCHANGED <<intent, row, phase, tick, why, target, loop>>

ShutdownSession(w, i) ==
  /\ pc[w][i] = "beating" /\ phase[w] = "draining"
  /\ StopFor(w, i, "ended")
  /\ UNCHANGED <<intent, row, phase, tick, target, loop>>

\* A mutant: the flag that came back with the heartbeat is not looked at.
HeartbeatDeaf(w, i) ==
  /\ pc[w][i] \in {"seenLive", "seenEnding"}
  /\ HeartbeatVoiceSessionIntent(w, i)
  /\ Goto(w, i, "beating")
  /\ UNCHANGED <<phase, tick, why, target, loop>>

\* A requested stop winds down a session that was seen live; a stop seen on a
\* session already ending is left to its finalizers.
Heartbeat(w, i) ==
  /\ pc[w][i] \in {"seenLive", "seenEnding"}
  /\ HeartbeatVoiceSessionIntent(w, i)
  /\ IF intent[i].stopRequested /\ pc[w][i] = "seenLive"
     THEN StopFor(w, i, "ended")
     ELSE Goto(w, i, "beating") /\ UNCHANGED why
  /\ UNCHANGED <<phase, tick, target, loop>>

SupersededGoesOn(w, i) ==
  /\ pc[w][i] \in {"seenLive", "seenEnding"}
  /\ ~Holds(w, i)
  /\ Goto(w, i, "beating")
  /\ UNCHANGED <<intent, row, phase, tick, why, target, loop>>

HeartbeatNotFound(w, i) ==
  /\ pc[w][i] \in {"seenLive", "seenEnding"}
  /\ ~Holds(w, i)
  /\ StopFor(w, i, "superseded")
  /\ UNCHANGED <<intent, row, phase, tick, target, loop>>

\* A store error is retried at the next tick.
HeartbeatFailed(w, i) ==
  /\ pc[w][i] \in {"seenLive", "seenEnding"}
  /\ StoreFails \/ phase[w] = "draining"
  /\ Goto(w, i, "beating")
  /\ UNCHANGED <<intent, row, phase, tick, why, target, loop>>

-----------------------------------------------------------------------------
(* Manager.Stop, by Tenant: cancel the entry found there, wait for its end. *)

StopCall(w, i) ==
  /\ pc[w][i] = "stopping"
  /\ \/ \E j \in Intents :
          /\ IsEntry(w, i, j)
          /\ target' = [target EXCEPT ![w][i] = j]
          /\ loop' = [loop EXCEPT ![w][j] = IF @ = "running" THEN "cancelled" ELSE @]
     \/ /\ \A j \in Intents : ~IsEntry(w, i, j)      \* ErrNoActiveSession
        /\ UNCHANGED <<target, loop>>
  /\ Goto(w, i, "waiting")
  /\ UNCHANGED <<intent, row, phase, tick, why>>

\* A mutant: done is closed before the finalizers.
StopDoneEarly(w, i) == \A j \in Intents : target[w][i] = j => loop[w][j] \in Exited \cup {"none"}

\* done is closed after the entry is cleared.
StopDone(w, i) == \A j \in Intents : target[w][i] = j => loop[w][j] = "none"

\* A mutant: the drain beats past its cap.
DrainBeatUncapped(w, i) ==
  /\ pc[w][i] \in Blocked /\ why[w][i] # "superseded"
  /\ HeartbeatVoiceSessionIntent(w, i)
  /\ UNCHANGED <<phase, tick, pc, why, target, loop>>

\* Every wind-down but a superseded one keeps the claim fresh meanwhile.
DrainBeat(w, i) ==
  /\ pc[w][i] = "waiting" /\ why[w][i] # "superseded"
  /\ HeartbeatVoiceSessionIntent(w, i)
  /\ UNCHANGED <<phase, tick, pc, why, target, loop>>

DrainBeatCapReached(w, i) ==
  /\ pc[w][i] = "waiting" /\ why[w][i] # "superseded"
  /\ ~StopDone(w, i)
  /\ Goto(w, i, "wedged")
  /\ UNCHANGED <<intent, row, phase, tick, why, target, loop>>

StopReturns(w, i) ==
  /\ pc[w][i] \in Blocked
  /\ StopDone(w, i)
  /\ Goto(w, i, CASE why[w][i] = "unmarked" -> "failing"
                  [] why[w][i] = "ended" -> "finishing"
                  [] OTHER -> "none")
  /\ why' = [why EXCEPT ![w][i] = "none"]
  /\ target' = [target EXCEPT ![w][i] = NoIntent]
  /\ UNCHANGED <<intent, row, phase, tick, loop>>

\* finishSelfExit: the row's outcome, or "done" when the row cannot be read.
\* Nothing changes the row between the read and the write while the fence holds.
FinishSelfExit(w, i) ==
  /\ pc[w][i] = "finishing"
  /\ \/ FinishVoiceSessionIntent(w, i, IF row[i] = "failed" THEN "failed" ELSE "done")
     \/ StoreFails /\ FinishVoiceSessionIntent(w, i, "done")
     \/ ~Holds(w, i) /\ UNCHANGED store
     \/ StoreFails /\ UNCHANGED store
  /\ Goto(w, i, "none")
  /\ UNCHANGED <<phase, tick, why, target, loop>>

-----------------------------------------------------------------------------
(* The Manager's runLoop. *)

\* A loop error counts as a fault only while the context is not cancelled.
LoopExit(w, i) ==
  /\ \/ loop[w][i] = "running" /\ \E l \in Exited : loop' = [loop EXCEPT ![w][i] = l]
     \/ loop[w][i] = "cancelled" /\ loop' = [loop EXCEPT ![w][i] = "ended"]
  /\ UNCHANGED <<intent, row, phase, tick, pc, why, target>>

\* The closing write, then the entry is cleared whether or not it succeeded.
CloseRow(w, i) ==
  /\ loop[w][i] \in Exited
  /\ \/ CloseVoiceSession(i, IF loop[w][i] = "faulted" THEN "failed" ELSE "ended")
     \/ StoreFails /\ UNCHANGED store
  /\ loop' = [loop EXCEPT ![w][i] = "none"]
  /\ UNCHANGED <<phase, tick, pc, why, target>>

-----------------------------------------------------------------------------
(* The web tier and the clock. *)

Create(i, c) == CreateVoiceSessionIntent(i, c) /\ UNCHANGED local

RequestStop(i) == RequestVoiceSessionStop(i) /\ UNCHANGED local

\* The zero-worker escape of Start and Stop: reap the Tenant's expired intent, then
\* reconcile, best-effort.  How much later a caller gets to it is not said here.
ReapBlocking(i) == ReapVoiceSessionIntentIfExpired(i) /\ UNCHANGED local

ReconcileReaped(i) ==
  /\ intent[i].status = "dead"
  /\ ReconcileWorkerOrphanedVoiceSessions
  /\ UNCHANGED local

Expire(i) == HeartbeatExpires(i) /\ UNCHANGED local

-----------------------------------------------------------------------------
Process(w) == Boot(w) \/ Sigterm(w) \/ Exit(w) \/ Crash(w)

Tick(w) == Reap(w) \/ Reconcile(w) \/ EndTick(w)
             \/ \E i \in Intents : Claim(w, i) \/ ClaimLost(w, i)

StartClaimed(w, i) ==
  \/ Reserve(w, i) \/ StartRefused(w, i) \/ StartCommitted(w, i) \/ MarkLive(w, i)
  \/ MarkLiveNotFound(w, i) \/ MarkLiveFailed(w, i) \/ FinishFailed(w, i)

RunSession(w, i) ==
  \/ Look(w, i) \/ ShutdownSession(w, i) \/ Heartbeat(w, i) \/ HeartbeatNotFound(w, i)
  \/ HeartbeatFailed(w, i) \/ FinishSelfExit(w, i)

Stopping(w, i) ==
  StopCall(w, i) \/ DrainBeat(w, i) \/ DrainBeatCapReached(w, i) \/ StopReturns(w, i)

Manager(w, i) == LoopExit(w, i) \/ CloseRow(w, i)

Worker(w) ==
  \/ Process(w) \/ Tick(w)
  \/ \E i \in Intents :
       StartClaimed(w, i) \/ RunSession(w, i) \/ Stopping(w, i) \/ Manager(w, i)

Web(i) ==
  (\E c \in Campaigns : Create(i, c)) \/ RequestStop(i) \/ ReapBlocking(i) \/ ReconcileReaped(i)

Next == (\E w \in Workers : Worker(w)) \/ \E i \in Intents : Web(i) \/ Expire(i)

Spec == Init /\ [][Next]_vars

\* What the goroutine responsible for i does next; at each of its steps but a
\* drain's optional heartbeats one kind of action is enabled.
Goroutine(w, i) ==
  \/ StartClaimed(w, i) \/ RunSession(w, i)
  \/ StopCall(w, i) \/ DrainBeatCapReached(w, i) \/ StopReturns(w, i)

(* Fairness.  A ticker fires again and a goroutine that can step does; a     *)
(* store call that is retried forever succeeds at some point; real time      *)
(* passes, so an unrefreshed heartbeat expires and the drain cap is reached. *)
(* Nothing makes a session's loop react to its cancelled context.            *)
Fairness ==
  /\ \A w \in Workers :
       /\ WF_vars(Tick(w))
       /\ SF_vars(Reap(w) /\ ReapDeadVoiceSessionIntents)
       /\ SF_vars(Reconcile(w) /\ ReconcileWorkerOrphanedVoiceSessions)
       /\ \A i \in Intents :
            /\ SF_vars(Claim(w, i))
            /\ WF_vars(Goroutine(w, i))
            /\ SF_vars(Heartbeat(w, i) \/ HeartbeatNotFound(w, i))
            /\ WF_vars(CloseRow(w, i))
  /\ \A i \in Intents : WF_vars(Expire(i))

FairSpec == Spec /\ Fairness
=============================================================================
