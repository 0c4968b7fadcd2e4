----------------------------- MODULE ClaimStore -----------------------------
(***************************************************************************)
(* The two tables the voice claim plane lives in, voice_session_intents    *)
(* and voice_sessions, and the storage layer's operations on them          *)
(* (internal/storage/voiceintent.go, voice_session.go).                    *)
(*                                                                         *)
(* Every operation is one SQL statement, hence one atomic step.  A         *)
(* statement is written here as the condition under which it matches a row *)
(* (its WHERE clause: "Can...") and its effect; a caller that matches no   *)
(* row gets ErrNotFound.                                                   *)
(*                                                                         *)
(* An intent is claimed at most once, so a worker creates at most one      *)
(* voice_sessions row for it: row[i] is that row, whether or not the       *)
(* intent has been bound to it yet.  Heartbeat time is abstracted to one   *)
(* bit: "stale" means heartbeat_at < now() - expiry.                       *)
(***************************************************************************)
EXTENDS Naturals

CONSTANTS
  Intents,      \* ids of intents in creation order: created_at, then id
  Workers,      \* Voice Instances; an id is minted per boot, so a restart is another one
  Campaigns,
  Tenants,
  TenantOf,     \* the Tenant of a Campaign
  NoWorker

ASSUME IntentsAssumption == Intents \subseteq Nat
ASSUME TenantOfAssumption == TenantOf \in [Campaigns -> Tenants] /\ Campaigns # {}
ASSUME NoWorkerAssumption == NoWorker \notin Workers

VARIABLES
  intent,       \* voice_session_intents
  row           \* voice_sessions, by the intent whose claim created the row

store == <<intent, row>>

NonTerminal == {"pending", "claimed", "live"}
Held == {"claimed", "live"}
Terminal == {"done", "failed", "dead"}

\* "absent" is a row not inserted yet.
IntentStatus == {"absent"} \cup NonTerminal \cup Terminal

\* "ended" stands for a row ended with any reason but the reconcile's own.
RowStatus == {"absent", "running", "ended", "failed", "orphaned"}

IntentRecord ==
  [status : IntentStatus, campaign : Campaigns, owner : Workers \cup {NoWorker},
   bound : BOOLEAN, stopRequested : BOOLEAN, stale : BOOLEAN]

StoreTypeOK ==
  /\ intent \in [Intents -> IntentRecord]
  /\ row \in [Intents -> RowStatus]

Tenant(i) == TenantOf[intent[i].campaign]

StoreInit ==
  /\ intent = [i \in Intents |->
                 [status |-> "absent", campaign |-> CHOOSE c \in Campaigns : TRUE,
                  owner |-> NoWorker, bound |-> FALSE, stopRequested |-> FALSE,
                  stale |-> FALSE]]
  /\ row = [i \in Intents |-> "absent"]

\* The intent an operation may touch: no other row changes.
Update(i, r) == intent' = [intent EXCEPT ![i] = r]

\* Nothing reads the heartbeat or the stop flag of a terminal intent: the model
\* forgets them.
Settled(r, s) == [r EXCEPT !.status = s, !.stopRequested = FALSE, !.stale = FALSE]

-----------------------------------------------------------------------------

\* The partial UNIQUE index voice_session_intents_one_live_per_tenant.
IndexFree(t) == \A j \in Intents : Tenant(j) = t => intent[j].status \notin NonTerminal

CreateVoiceSessionIntent(i, c) ==
  /\ intent[i].status = "absent"
  /\ \A j \in Intents : j < i => intent[j].status # "absent"
  /\ IndexFree(TenantOf[c])
  /\ Update(i, [intent[i] EXCEPT !.status = "pending", !.campaign = c])
  /\ UNCHANGED row

\* ORDER BY created_at, id: the oldest pending intent no other claim holds locked.
\* Claims are atomic here, so SKIP LOCKED never has a row to skip.
OldestPending(i) ==
  /\ intent[i].status = "pending"
  /\ \A j \in Intents : j < i => intent[j].status # "pending"

ClaimVoiceSessionIntent(w, i) ==
  /\ OldestPending(i)
  /\ Update(i, [intent[i] EXCEPT !.status = "claimed", !.owner = w, !.stale = FALSE])
  /\ UNCHANGED row

CanMarkLive(w, i) == intent[i].owner = w /\ intent[i].status = "claimed"

MarkVoiceSessionIntentLive(w, i) ==
  /\ CanMarkLive(w, i)
  /\ Update(i, [intent[i] EXCEPT !.status = "live", !.bound = TRUE, !.stale = FALSE])
  /\ UNCHANGED row

\* The fence of a heartbeat and of a finish.
Holds(w, i) == intent[i].owner = w /\ intent[i].status \in Held

HeartbeatVoiceSessionIntent(w, i) ==
  /\ Holds(w, i)
  /\ Update(i, [intent[i] EXCEPT !.stale = FALSE])
  /\ UNCHANGED row

RequestVoiceSessionStop(i) ==
  /\ intent[i].status \in NonTerminal
  /\ Update(i, IF intent[i].status = "pending"
               THEN Settled(intent[i], "done")
               ELSE [intent[i] EXCEPT !.stopRequested = TRUE])
  /\ UNCHANGED row

FinishVoiceSessionIntent(w, i, s) ==
  /\ Holds(w, i)
  /\ Update(i, Settled(intent[i], s))
  /\ UNCHANGED row

\* A mutant: a claim that never went live does not expire.
ExpiredLive(i) == intent[i].status = "live" /\ intent[i].stale

Expired(i) == intent[i].status \in Held /\ intent[i].stale

\* A mutant: presumed-dead intents go back to the queue.
ReapToPending ==
  /\ intent' = [i \in Intents |->
                  IF Expired(i) THEN Settled(intent[i], "pending") ELSE intent[i]]
  /\ UNCHANGED row

ReapDeadVoiceSessionIntents ==
  /\ intent' = [i \in Intents |->
                  IF Expired(i) THEN Settled(intent[i], "dead") ELSE intent[i]]
  /\ UNCHANGED row

\* The 'running' rows the worker-safe reconciliation closes: bound to a terminal
\* intent (arm 1), or of a Campaign that has no non-terminal intent (arm 2).
CampaignIdle(c) ==
  \A j \in Intents : intent[j].campaign = c => intent[j].status \notin NonTerminal

\* A mutant: arm 1 alone.
OrphanedBound(i) == row[i] = "running" /\ intent[i].bound /\ intent[i].status \in Terminal

Orphaned(i) ==
  /\ row[i] = "running"
  /\ \/ intent[i].bound /\ intent[i].status \in Terminal
     \/ CampaignIdle(intent[i].campaign)

ReconcileWorkerOrphanedVoiceSessions ==
  /\ row' = [i \in Intents |-> IF Orphaned(i) THEN "orphaned" ELSE row[i]]
  /\ UNCHANGED intent

ReapVoiceSessionIntentIfExpired(i) ==
  /\ Expired(i)
  /\ Update(i, Settled(intent[i], "dead"))
  /\ UNCHANGED row

CreateVoiceSession(i) == row' = [row EXCEPT ![i] = "running"] /\ UNCHANGED intent

\* WHERE id = $1 only: the write is not fenced by status = 'running'.
CloseVoiceSession(i, s) == row' = [row EXCEPT ![i] = s] /\ UNCHANGED intent

\* Time passes: the last heartbeat of a held intent is now older than expiry.
HeartbeatExpires(i) ==
  /\ intent[i].status \in Held /\ ~intent[i].stale
  /\ Update(i, [intent[i] EXCEPT !.stale = TRUE])
  /\ UNCHANGED row
=============================================================================
