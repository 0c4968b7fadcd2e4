---------------------------- MODULE IntentControl ----------------------------
(***************************************************************************)
(* The web tier of a split deployment: IntentControl.Start and Stop        *)
(* (internal/session/intentcontrol.go), callers that write to the claim    *)
(* plane and poll it until the intent settles or their budget is spent.    *)
(* The workers are those of ClaimPlane; the web actions of that module get *)
(* callers here that remember where they are and what they were answered.  *)
(*                                                                         *)
(* An intent has one Start that created it, and at a time at most one Stop *)
(* and one Start that finds it in its way.                                 *)
(***************************************************************************)
EXTENDS ClaimPlane

VARIABLES
  starter,  \* what the Start that created the intent does or was answered
  blocked,  \* where a Start that found the intent in its way stands
  stopper   \* what the latest Stop of the intent does or was answered

web == <<starter, blocked, stopper>>
allvars == <<intent, row, phase, tick, pc, why, target, loop, starter, blocked, stopper>>

\* Start's answers: the live row; the worker's refusal or death; ErrIntentCancelled;
\* given up (ErrIntentPending, a failed poll, or the caller went away), "abandoned"
\* if the cancel failed too; another error.
StartAnswers == {"live", "refused", "cancelled", "givenUp", "abandoned", "error"}

\* "reaped": the reconcile is next; "unreconciled": it failed.
Escapes == {"reaped", "unreconciled"}

\* Stop's answers: no row was bound, the bound row still 'running', or closed.
StopAnswers == {"norow", "running", "closed"}

WebTypeOK ==
  /\ starter \in [Intents -> {"none", "polling"} \cup StartAnswers]
  /\ blocked \in [Intents -> {"none"} \cup Escapes]
  /\ stopper \in [Intents -> {"none", "found", "polling"} \cup Escapes \cup StopAnswers]

WebInit ==
  /\ Init
  /\ starter = [i \in Intents |-> "none"]
  /\ blocked = [i \in Intents |-> "none"]
  /\ stopper = [i \in Intents |-> "none"]

Answer(i, a) == starter' = [starter EXCEPT ![i] = a] /\ UNCHANGED <<blocked, stopper>>
Retry(i, b) == blocked' = [blocked EXCEPT ![i] = b] /\ UNCHANGED <<starter, stopper>>
StopGoes(i, a) == stopper' = [stopper EXCEPT ![i] = a] /\ UNCHANGED <<starter, blocked>>

-----------------------------------------------------------------------------
(* Start *)

StartCreates(i, c) == Create(i, c) /\ Answer(i, "polling")

\* ErrIntentActive: reap the blocking intent if it expired, reconcile, and try the
\* create once more (StartCreates of a later intent), else answer ErrSessionActive.
StartBlocked(i) == blocked[i] = "none" /\ ReapBlocking(i) /\ Retry(i, "reaped")

StartReconciles(i) ==
  /\ blocked[i] = "reaped"
  /\ \/ ReconcileReaped(i) /\ Retry(i, "none")
     \/ StoreFails /\ UNCHANGED vars /\ Retry(i, "unreconciled")

\* One poll that ends the wait.
StartPolls(i) ==
  /\ starter[i] = "polling"
  /\ \/ /\ intent[i].status = "live" /\ intent[i].bound
        /\ Answer(i, "live") \/ (StoreFails /\ Answer(i, "error"))
     \/ intent[i].status \in {"failed", "dead"} /\ Answer(i, "refused")
     \/ intent[i].status = "done" /\ Answer(i, "cancelled")
  /\ UNCHANGED vars

\* A mutant: no cancel.
StartWalksAway(i) ==
  /\ starter[i] = "polling"
  /\ Answer(i, "givenUp")
  /\ UNCHANGED vars

\* The budget is spent, the poll failed or the caller went away: the intent is
\* cancelled, best-effort, whatever became of it since the last poll.
StartGivesUp(i) ==
  /\ starter[i] = "polling"
  /\ \/ RequestStop(i) /\ Answer(i, "givenUp")
     \/ intent[i].status \in Terminal /\ UNCHANGED vars /\ Answer(i, "givenUp")
     \/ StoreFails /\ UNCHANGED vars /\ Answer(i, "abandoned")

-----------------------------------------------------------------------------
(* Stop *)

StopIdle == {"none"} \cup StopAnswers

StopFinds(i) ==
  /\ stopper[i] \in StopIdle /\ intent[i].status \in NonTerminal
  /\ StopGoes(i, "found")
  /\ UNCHANGED vars

StopReaps(i) == stopper[i] = "found" /\ ReapBlocking(i) /\ StopGoes(i, "reaped")

StopReconciles(i) ==
  /\ stopper[i] = "reaped"
  /\ \/ ReconcileReaped(i) /\ StopGoes(i, "polling")
     \/ StoreFails /\ UNCHANGED vars /\ StopGoes(i, "unreconciled")

\* An intent that became terminal since it was found is polled like any other.
StopRequests(i) ==
  /\ stopper[i] = "found"
  /\ \/ RequestStop(i)
     \/ intent[i].status \in Terminal /\ UNCHANGED vars
  /\ StopGoes(i, "polling")

\* The first poll that finds the intent terminal, and loadRow.
RowAnswer(i) ==
  IF ~intent[i].bound THEN "norow" ELSE IF row[i] = "running" THEN "running" ELSE "closed"

StopPolls(i) ==
  /\ stopper[i] \in {"polling", "unreconciled"} /\ intent[i].status \in Terminal
  /\ StopGoes(i, RowAnswer(i))
  /\ UNCHANGED vars

\* ErrStopPending, a failed store call, or the caller went away.
StopGivesUp(i) ==
  /\ stopper[i] \in {"found", "polling", "unreconciled"}
  /\ StopGoes(i, "none")
  /\ UNCHANGED vars

-----------------------------------------------------------------------------
WebTier(i) ==
  \/ \E c \in Campaigns : StartCreates(i, c)
  \/ StartBlocked(i) \/ StartReconciles(i) \/ StartPolls(i) \/ StartGivesUp(i)
  \/ StopFinds(i) \/ StopReaps(i) \/ StopReconciles(i) \/ StopRequests(i)
  \/ StopPolls(i) \/ StopGivesUp(i)

Plane == (\E w \in Workers : Worker(w)) \/ (\E i \in Intents : Expire(i))

WebNext == (Plane /\ UNCHANGED web) \/ \E i \in Intents : WebTier(i)

WebSpec == WebInit /\ [][WebNext]_allvars

\* The workers' fairness, callers that finish what they started, and a user who
\* tries again when a start is refused with ErrSessionActive.
WebFairness ==
  /\ Fairness
  /\ \A i \in Intents :
       /\ WF_allvars(StartPolls(i) \/ StartGivesUp(i))
       /\ WF_allvars(StartBlocked(i))
       /\ WF_allvars(StartReconciles(i))
       /\ WF_allvars(StopReconciles(i))

-----------------------------------------------------------------------------
\* A Start that gave up left nothing behind that a worker could still pick up
\* unwatched: its intent is terminal, or held by a worker told to stop
\* ("a worker booting later does not claim a stale row nobody is watching").
GivenUpIsCancelled ==
  \A i \in Intents :
    starter[i] = "givenUp" => \/ intent[i].status \in Terminal
                              \/ intent[i].status \in Held /\ intent[i].stopRequested

\* Types and abandoned starts together.
WebInv == WebTypeOK /\ GivenUpIsCancelled

\* A session whose starter gave up does not run on: its intent ends, whether a
\* worker honours the cancel or dies.
GivenUpEnds ==
  \A i \in Intents : (starter[i] = "givenUp" ~> intent[i].status \in Terminal)

\* The zero-worker escape: with every Voice Instance gone, a Tenant that tries
\* again is not blocked for ever by the intent one of them held, and the row of
\* that intent is closed with it unless that very reconcile failed.
ZeroWorkerEscape ==
  \A i \in Intents :
    (/\ intent[i].status \in Held
     /\ \A w \in Workers : phase[w] = "gone"
     ~> /\ intent[i].status \in Terminal
        /\ row[i] = "running" => "unreconciled" \in {blocked[i], stopper[i]})
=============================================================================
