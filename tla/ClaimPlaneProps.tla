--------------------------- MODULE ClaimPlaneProps ---------------------------
(***************************************************************************)
(* Correctness properties of ClaimPlane.                                   *)
(***************************************************************************)
EXTENDS ClaimPlane

\* At most one intent of a Tenant is pending, claimed or live
\* (voice_session_intents_one_live_per_tenant).
OneLivePerTenant ==
  \A i, j \in Intents :
    /\ intent[i].status \in NonTerminal /\ intent[j].status \in NonTerminal
    /\ Tenant(i) = Tenant(j)
    => i = j

\* No takeover: a session, and the goroutine responsible for it, exist only on
\* the instance that claimed the intent, and only once it was claimed
\* (ADR-0006; ClaimVoiceSessionIntent claims 'pending' rows only).
HostIsOwner ==
  \A w \in Workers, i \in Intents :
    loop[w][i] # "none" \/ pc[w][i] # "none" => intent[i].owner = w

\* A worker has one Manager entry per Tenant (Manager.Start's guard): a zombie
\* session and its Tenant's next one are never both in one Manager.
OneEntryPerTenant ==
  \A w \in Workers, i, j \in Intents :
    /\ loop[w][i] # "none" /\ loop[w][j] # "none"
    /\ Tenant(i) = Tenant(j)
    => i = j

\* No session runs unsupervised: while a Manager entry exists, the goroutine of
\* its own intent is still there to notice that it ended or was superseded, or
\* is already stopping it.
Supervised ==
  \A w \in Workers, i \in Intents :
    loop[w][i] # "none" =>
      pc[w][i] \in {"marking", "beating", "seenLive", "seenEnding",
                    "stopping", "waiting", "wedged"}

\* An intent is 'done' or 'failed' only once its session is gone from every
\* worker, finalizers and closing write included, so that the Tenant's restart
\* cannot collide with it; only a presumed death may leave a session behind
\* (the Finalizing gate of runSession; endSession waits for Manager.Stop).
FinishedMeansStopped ==
  \A i \in Intents : intent[i].status \in {"done", "failed"} =>
    \A w \in Workers : loop[w][i] = "none"

\* An intent in a goroutine's hands was claimed by that goroutine's worker, and
\* is not yet finished; the reaper may have declared it dead.
GoroutineHasClaim ==
  \A w \in Workers, i \in Intents :
    pc[w][i] # "none" =>
      intent[i].owner = w /\ intent[i].status \in {"claimed", "live", "dead"}

\* The tick goroutine starts one intent at a time.
OneStartAtATime ==
  \A w \in Workers, i, j \in Intents :
    InStartClaimed(w, i) /\ InStartClaimed(w, j) => i = j

\* Past Manager.Start's guard no entry of the Tenant exists until the commit.
ReservationHolds ==
  \A w \in Workers, i, j \in Intents : pc[w][i] = "starting" => ~IsEntry(w, i, j)

\* A goroutine blocked in Manager.Stop waits for its own session, if it has one.
WaitsForOwnSession ==
  \A w \in Workers, i \in Intents :
    pc[w][i] \in Blocked => target[w][i] = i \/ loop[w][i] = "none"

\* Which together are inductive.
ClaimInv ==
  /\ TypeOK
  /\ OneLivePerTenant
  /\ GoroutineHasClaim
  /\ Supervised
  /\ OneEntryPerTenant
  /\ OneStartAtATime
  /\ ReservationHolds
  /\ WaitsForOwnSession

\* A worker never holds more than MaxSessions sessions, counting the one its
\* tick is starting (HasCapacity before every claim; ErrSessionLimit "should
\* not occur").
WithinCapacity ==
  \A w \in Workers :
    Cardinality(Entries(w) \cup {i \in Intents : pc[w][i] \in {"claimed", "starting"}})
      <= MaxSessions

\* The slot of Tenant t, with the intents in state db: that of its non-terminal
\* intent.
Occupies(db, i, t) == TenantOf[db[i].campaign] = t /\ db[i].status \in NonTerminal

SlotState(r) ==
  CASE r.status = "pending" -> [state |-> "requested"]
    [] r.status = "claimed" -> [state |-> "taken", host |-> r.owner]
    [] OTHER -> [state |-> "live", host |-> r.owner]

SlotIn(db, t) ==
  IF \E i \in Intents : Occupies(db, i, t)
  THEN SlotState(db[CHOOSE i \in Intents : Occupies(db, i, t)])
  ELSE [state |-> "free"]

Slot == INSTANCE TenantSlot WITH slot <- [t \in Tenants |-> SlotIn(intent, t)]

\* No takeover and no requeue, seen from the Tenant (ADR-0057 (e)).
ImplementsSlot == Slot!Spec
-----------------------------------------------------------------------------
\* Some Voice Instance stays up from some point on: without one only the web
\* tier's own reap frees a Tenant.
SomeWorkerStays == \E w \in Workers : <>[](phase[w] = "up")

\* A session's loop reacts to its cancelled context.
LoopsEnd == \A w \in Workers, i \in Intents : []<>(loop[w][i] # "cancelled")

\* A pending intent does not stay pending: it is claimed or withdrawn.
PendingServed ==
  SomeWorkerStays /\ LoopsEnd => \A i \in Intents :
    (intent[i].status = "pending" ~> intent[i].status # "pending")

\* The intent of a worker that died does not block its Tenant for ever: it
\* becomes terminal although nobody takes it over.
DeadWorkerFreed ==
  SomeWorkerStays /\ LoopsEnd => \A i \in Intents :
    (/\ intent[i].status \in Held
     /\ ~(\E w \in Workers : intent[i].owner = w /\ Alive(w))
     ~> intent[i].status \in Terminal)

\* Some worker's tick is not pinned for ever inside startClaimed: after a failed
\* mark-live the tick itself waits for the loop, and nobody else reaps.
SomeWorkerTicks == \E w \in Workers : <>[](phase[w] = "up" /\ TickFree(w))

\* A requested stop ends the intent, even when the session's loop never reacts
\* to its cancelled context (DrainBeatCap: "so the reaper can reclaim").
StopHonoured ==
  SomeWorkerTicks => \A i \in Intents :
    (intent[i].stopRequested ~> intent[i].status \in Terminal)

\* A worker does not keep running a session the plane believes dead
\* (ADR-0006): it notices the superseded claim and ends it.
ZombieEnds ==
  LoopsEnd => \A w \in Workers, i \in Intents :
    (loop[w][i] # "none" /\ intent[i].status \in Terminal ~> loop[w][i] = "none")

\* No row stays 'running' once its session is gone, whatever write failed and
\* whoever crashed (the reconcile of every tick, #483 L2 and M2).
RowsClosed ==
  SomeWorkerStays /\ LoopsEnd => \A i \in Intents :
    (row[i] = "running" /\ (\A w \in Workers : loop[w][i] = "none")
     ~> row[i] # "running")

-----------------------------------------------------------------------------
\* What a comment of the code says and the code does not do.

\* claimloop.go:319, of a superseded heartbeat: "Kill the local session if one is
\* still running; a finalizing session already ended, so Stop is a no-op" -- the
\* session Manager.Stop finds is the superseded intent's own.
StopsOwnSession ==
  \A w \in Workers, i \in Intents : target[w][i] \in {i, NoIntent}
=============================================================================
