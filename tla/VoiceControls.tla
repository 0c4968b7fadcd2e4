--------------------------- MODULE VoiceControls ---------------------------
(***************************************************************************)
(* Live controls relayed through rows: a requester on the web tier writes  *)
(* a voice_session_controls row and polls it; the worker that hosts the    *)
(* session drains the pending rows after its heartbeat, and every claim    *)
(* loop sweeps what nobody will finish (internal/session/intentcontrol.go, *)
(* claimloop.go, internal/storage/voicecontrol.go).                        *)
(*                                                                         *)
(* One live intent and its session.  Every control is the one that must    *)
(* not run twice, a say.  Rows are numbered in (created_at, id) order.     *)
(***************************************************************************)
EXTENDS Integers, Sequences, SequencesExt

CONSTANTS
  MaxControls,   \* bound on the rows written
  ControlFaults  \* store calls fail, the worker dies, a live claim is reaped

ASSUME ControlsAssumption == MaxControls \in Nat /\ ControlFaults \in BOOLEAN

Controls == 1..MaxControls

VARIABLES
  cIntent,       \* the intent's status: "live" or "terminal"
  cSession,      \* the host's Manager has the session, not in its end window
  cStatus,       \* voice_session_controls.status, "none" before the insert
  cCause,        \* what last_error says
  cAsks,         \* where a requester stands, then its answer
  hPc, hBatch,   \* the host's heartbeat goroutine, the snapshot it drains
  hRow, hError,  \* the claimed row and what its verb returned
  spoken,        \* history: the controls whose verb ran, in order
  blipped        \* history: the rows whose claim was lost to a store error

rowsVars == <<cStatus, cCause>>
hostVars == <<hPc, hBatch, hRow, hError>>
controlVars == <<cIntent, cSession, rowsVars, cAsks, hostVars, spoken, blipped>>

Unfinished == {"pending", "executing"}
Asking == {"idle", "found", "polling", "late"}

ControlsTypeOK ==
  /\ cIntent \in {"live", "terminal"} /\ cSession \in BOOLEAN
  /\ cStatus \in [Controls -> {"none", "done", "failed"} \cup Unfinished]
  /\ cCause \in [Controls -> {"none", "refused", "no_session", "stalled", "timed_out"}]
  /\ cAsks \in [Controls -> Asking \cup {"ok", "refused", "no_session", "cancelled", "unconfirmed"}]
  /\ hPc \in {"beating", "draining", "claimed", "ran", "gone"}
  /\ hBatch \subseteq Controls /\ hRow \in Controls \cup {0}
  /\ hError \in {"none", "refused", "no_session"}
  /\ spoken \in Seq(Controls) /\ blipped \subseteq Controls

ControlsInit ==
  /\ cIntent = "live" /\ cSession = TRUE
  /\ cStatus = [c \in Controls |-> "none"] /\ cCause = [c \in Controls |-> "none"]
  /\ cAsks = [c \in Controls |-> "idle"]
  /\ hPc = "beating" /\ hBatch = {} /\ hRow = 0 /\ hError = "none"
  /\ spoken = <<>> /\ blipped = {}

-----------------------------------------------------------------------------
(* The requester: relayControl *)

Ask(c, p) == cAsks' = [cAsks EXCEPT ![c] = p]
Row(c, s, why) == cStatus' = [cStatus EXCEPT ![c] = s] /\ cCause' = [cCause EXCEPT ![c] = why]

\* GetLiveVoiceSessionIntentForTenant finds the intent, live, or there is no
\* session to control.
FindLive(c) ==
  /\ cAsks[c] = "idle" /\ Ask(c, IF cIntent = "live" THEN "found" ELSE "no_session")
  /\ UNCHANGED <<cIntent, cSession, rowsVars, hostVars, spoken, blipped>>

\* The intent may have ended since.
CreateVoiceSessionControl(c) ==
  /\ cAsks[c] = "found" /\ \A d \in Controls : d < c => cStatus[d] # "none"
  /\ Ask(c, "polling") /\ Row(c, "pending", "none")
  /\ UNCHANGED <<cIntent, cSession, hostVars, spoken, blipped>>

Answer(c) == IF cStatus[c] = "done" THEN "ok"
             ELSE IF cCause[c] = "no_session" THEN "no_session" ELSE "refused"

Poll(c) ==
  /\ cAsks[c] = "polling" /\ cStatus[c] \notin Unfinished /\ Ask(c, Answer(c))
  /\ UNCHANGED <<cIntent, cSession, rowsVars, hostVars, spoken, blipped>>

\* A read found the row unfinished, and the budget is spent, the caller gone or
\* the read itself failed; the cancel is a step of its own.
GiveUp(c) ==
  /\ cAsks[c] = "polling" /\ (cStatus[c] \in Unfinished \/ ControlFaults) /\ Ask(c, "late")
  /\ UNCHANGED <<cIntent, cSession, rowsVars, hostVars, spoken, blipped>>

Cancels(c) == cStatus[c] = "pending"

\* cancelPendingControl: best effort.  The caller is told ErrControlPending
\* either way; the row was cancelled, or its fate is open.
CancelPending(c) ==
  /\ cAsks[c] = "late"
  /\ \/ Cancels(c) /\ Row(c, "failed", "timed_out") /\ Ask(c, "cancelled")
     \/ (~Cancels(c) \/ ControlFaults) /\ UNCHANGED rowsVars /\ Ask(c, "unconfirmed")
  /\ UNCHANGED <<cIntent, cSession, hostVars, spoken, blipped>>

-----------------------------------------------------------------------------
(* The host: dispatchControls, after a heartbeat that found the claim alive *)

Host(pc, row, err) == hPc' = pc /\ hRow' = row /\ hError' = err

Drain ==
  /\ hPc = "beating" /\ cIntent = "live" /\ cSession = TRUE
  /\ hBatch' = {c \in Controls : cStatus[c] = "pending"} /\ hBatch' # {}
  /\ Host("draining", 0, "none")
  /\ UNCHANGED <<cIntent, cSession, rowsVars, cAsks, spoken, blipped>>

\* The batch is empty, or it has spent the tick's budget: at least one row of it
\* was taken.
BatchDrained ==
  /\ hPc = "draining" /\ hBatch = {} /\ Host("beating", 0, "none")
  /\ UNCHANGED <<cIntent, cSession, rowsVars, cAsks, hBatch, spoken, blipped>>

BudgetSpent ==
  /\ hPc = "draining" /\ hRow # 0 /\ hBatch # {}
  /\ Host("beating", 0, "none") /\ hBatch' = {}
  /\ UNCHANGED <<cIntent, cSession, rowsVars, cAsks, spoken, blipped>>

\* Mutated: what was listed is executed, claimed or not.
StartsListed(c) == c \in Controls

Starts(c) == cStatus[c] = "pending"

\* The claim of the oldest row left of the batch: taken, lost (ErrNotFound), or refused by the store,
\* which leaves the row for a later tick while the batch goes on.  The store
\* loses the claim of a row once at most.
StartVoiceSessionControl ==
  /\ hPc = "draining"
  /\ \E c \in hBatch :
     /\ \A d \in hBatch : c <= d
     /\ hBatch' = hBatch \ {c}
     /\ \/ Starts(c) /\ Row(c, "executing", "none") /\ Host("claimed", c, "none")
           /\ UNCHANGED blipped
        \/ ~Starts(c) /\ Host("draining", c, "none") /\ UNCHANGED <<rowsVars, blipped>>
        \/ /\ ControlFaults /\ c \notin blipped /\ blipped' = blipped \cup {c}
           /\ Host("draining", c, "none") /\ UNCHANGED rowsVars
  /\ UNCHANGED <<cIntent, cSession, cAsks, spoken>>

\* The verb against the local Manager: it runs, is refused (a foreign Agent, a
\* voiceless Butler, a store error), or finds the session ending.
ExecuteControl ==
  /\ hPc = "claimed"
  /\ \/ cSession /\ spoken' = Append(spoken, hRow) /\ Host("ran", hRow, "none")
     \/ cSession /\ Host("ran", hRow, "refused") /\ UNCHANGED spoken
     \/ ~cSession /\ Host("ran", hRow, "no_session") /\ UNCHANGED spoken
  /\ UNCHANGED <<cIntent, cSession, rowsVars, cAsks, hBatch, blipped>>

FinishVoiceSessionControl ==
  /\ hPc = "ran" /\ Host("draining", hRow, "none")
  /\ \/ /\ cStatus[hRow] = "executing"
        /\ Row(hRow, IF hError = "none" THEN "done" ELSE "failed", hError)
     \/ (cStatus[hRow] # "executing" \/ ControlFaults) /\ UNCHANGED rowsVars
  /\ UNCHANGED <<cIntent, cSession, cAsks, hBatch, spoken, blipped>>

-----------------------------------------------------------------------------
(* The end of the session, and the sweep *)

\* The loop returns on its own, concurrently with a drain.
SessionEnds ==
  /\ cSession /\ cSession' = FALSE
  /\ UNCHANGED <<cIntent, rowsVars, cAsks, hostVars, spoken, blipped>>

\* The heartbeat goroutine finds the session gone, or a stop asked for, or its
\* claim reaped: it stops the session, finishes the intent if the store lets it
\* and exits.
WindDown ==
  /\ hPc = "beating" /\ hPc' = "gone" /\ cSession' = FALSE
  /\ cIntent' = "terminal" \/ (ControlFaults /\ UNCHANGED cIntent)
  /\ UNCHANGED <<rowsVars, cAsks, hBatch, hRow, hError, spoken, blipped>>

\* Another worker's reaper calls the claim dead though its host lives.
Reap ==
  /\ cIntent = "live" /\ (ControlFaults \/ hPc = "gone") /\ cIntent' = "terminal"
  /\ UNCHANGED <<cSession, rowsVars, cAsks, hostVars, spoken, blipped>>

HostDies ==
  /\ ControlFaults /\ hPc # "gone" /\ hPc' = "gone" /\ cSession' = FALSE
  /\ hBatch' = {} /\ hRow' = 0 /\ hError' = "none"
  /\ UNCHANGED <<cIntent, rowsVars, cAsks, spoken, blipped>>

\* started_at is older than Expiry, which exceeds what one verb and its
\* terminal write may take.
Stalled(c) == cStatus[c] = "executing" /\ ~(hRow = c /\ hPc \in {"claimed", "ran"})

\* Mutated: only the end of the intent retires a row.
OrphansOfEnded == {c \in Controls : cStatus[c] \in Unfinished /\ cIntent = "terminal"}

Orphans == {c \in Controls : cStatus[c] \in Unfinished /\ (cIntent = "terminal" \/ Stalled(c))}

\* One UPDATE on every claim loop's tick, while the stale arm may or may not
\* have come due.
SweepOrphanedVoiceSessionControls ==
  \E due \in {Orphans, {c \in Orphans : cIntent = "terminal"}} :
    /\ due # {}
    /\ cStatus' = [c \in Controls |-> IF c \in due THEN "failed" ELSE cStatus[c]]
    /\ cCause' = [c \in Controls |->
         IF c \notin due THEN cCause[c]
         ELSE IF cIntent = "terminal" THEN "no_session" ELSE "stalled"]
    /\ UNCHANGED <<cIntent, cSession, cAsks, hostVars, spoken, blipped>>

HostStep ==
  \/ Drain \/ BatchDrained \/ BudgetSpent \/ StartVoiceSessionControl
  \/ ExecuteControl \/ FinishVoiceSessionControl

RequesterStep(c) ==
  FindLive(c) \/ CreateVoiceSessionControl(c) \/ Poll(c) \/ GiveUp(c) \/ CancelPending(c)

ControlsNext ==
  \/ \E c \in Controls : RequesterStep(c)
  \/ HostStep \/ SessionEnds \/ WindDown \/ Reap \/ HostDies
  \/ SweepOrphanedVoiceSessionControls

ControlsSpec == ControlsInit /\ [][ControlsNext]_controlVars

-----------------------------------------------------------------------------
(* What the relay promises *)

Said == ToSet(spoken)

\* A say is published once at most, whatever fails between the claim and the
\* terminal write (#503 FIX1: "it can never re-dispatch").
SaidOnce == IsInjective(spoken)

\* What a requester was told stays true: what it was told was applied was spoken;
\* what was refused, or cancelled while pending, is never spoken, not later either;
\* and a session is only reported missing for a spoken row if it ended.
HonestAnswers == \A c \in Controls :
  /\ cAsks[c] = "ok" \/ cStatus[c] = "done" => c \in Said
  /\ cAsks[c] = "cancelled" \/ cCause[c] \in {"timed_out", "refused"} => c \notin Said
  /\ cAsks[c] \in {"cancelled", "refused"} => cStatus[c] = "failed"
  /\ cCause[c] = "no_session" /\ cIntent = "live" => c \notin Said

\* Two says land in request order (intentcontrol.go:381), but for one whose
\* claim was lost to a store error: the batch goes on without it.
InRequestOrder == \A m, n \in DOMAIN spoken :
  m < n /\ spoken[m] > spoken[n] => spoken[n] \in blipped

ControlsInv == ControlsTypeOK /\ SaidOnce /\ HonestAnswers /\ InRequestOrder

\* Every row is settled and every requester answered, by the host, the sweep or
\* its own budget: what is settled stays so, so this is to come back to it for ever.
ControlsSettle ==
  []<>(\A c \in Controls :
         cStatus[c] = "none" \/ (cStatus[c] \notin Unfinished /\ cAsks[c] \notin Asking))
=============================================================================
