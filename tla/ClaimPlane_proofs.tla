-------------------------- MODULE ClaimPlane_proofs ---------------------------
(*************************************************************************)
(* Proofs about ClaimPlane, for any number of workers, Tenants,          *)
(* Campaigns and intents. First the safety properties of                 *)
(* ClaimPlaneProps: ClaimInv is inductive, and they follow from it. Then *)
(* the refinement: ClaimPlane implements TenantSlot, for every Tenant.   *)
(* The store operations are summarised first, so that the steps of the   *)
(* workers need not look inside a SQL statement: most operations are     *)
(* "gentle", they leave every intent's Campaign and owner alone and move *)
(* its status, if at all, from held to live or dead.                     *)
(*************************************************************************)
EXTENDS ClaimPlaneProps, FiniteSetTheorems, TLAPS

Gentle ==
  \A j \in Intents :
    /\ intent'[j].campaign = intent[j].campaign
    /\ intent'[j].owner = intent[j].owner
    /\ \/ intent'[j].status = intent[j].status
       \/ intent[j].status \in Held /\ intent'[j].status \in {"live", "dead"}

\* Only intent i moves, and it keeps its Campaign.
MovesOnly(i) ==
  /\ \A j \in Intents \ {i} : intent'[j] = intent[j]
  /\ intent'[i].campaign = intent[i].campaign

USE DEF IntentRecord, IntentStatus, RowStatus, NonTerminal, Held, Terminal
USE DEF Phases, Ticks, Steps, Reasons, Loops, Blocked, Exited

-----------------------------------------------------------------------------
(* The store. *)

\* A statement that updates one row leaves the others alone.
LEMMA UpdateOne ==
  ASSUME StoreTypeOK, NEW i \in Intents, NEW r \in IntentRecord, Update(i, r)
  PROVE  /\ intent' \in [Intents -> IntentRecord]
         /\ intent'[i] = r
         /\ \A j \in Intents \ {i} : intent'[j] = intent[j]
  BY DEF StoreTypeOK, Update

\* A settled intent keeps its Campaign, owner and binding.
LEMMA SettledRecord ==
  ASSUME NEW r \in IntentRecord, NEW s \in {"done", "failed", "dead"}
  PROVE  /\ Settled(r, s) \in IntentRecord
         /\ Settled(r, s).status = s
         /\ Settled(r, s).campaign = r.campaign
         /\ Settled(r, s).owner = r.owner
  BY DEF Settled

\* Creation makes one absent intent pending.
LEMMA CreateOp ==
  ASSUME StoreTypeOK, NEW i \in Intents, NEW c \in Campaigns,
         CreateVoiceSessionIntent(i, c)
  PROVE  /\ StoreTypeOK'
         /\ \A j \in Intents \ {i} : intent'[j] = intent[j]
         /\ intent[i].status = "absent" /\ intent'[i].status = "pending"
         /\ intent'[i].campaign = c
<1> DEFINE r == [intent[i] EXCEPT !.status = "pending", !.campaign = c]
<1>1. r \in IntentRecord /\ r.status = "pending" /\ r.campaign = c
  BY DEF StoreTypeOK
<1>2. QED
  BY <1>1, UpdateOne DEF CreateVoiceSessionIntent, StoreTypeOK

\* A claim gives one pending intent to its claimant.
LEMMA ClaimOp ==
  ASSUME StoreTypeOK, NEW w \in Workers, NEW i \in Intents, ClaimVoiceSessionIntent(w, i)
  PROVE  /\ StoreTypeOK' /\ MovesOnly(i)
         /\ intent[i].status = "pending"
         /\ intent'[i].status = "claimed" /\ intent'[i].owner = w
<1> DEFINE r == [intent[i] EXCEPT !.status = "claimed", !.owner = w, !.stale = FALSE]
<1>1. r \in IntentRecord /\ r.status = "claimed" /\ r.owner = w
        /\ r.campaign = intent[i].campaign
  BY DEF StoreTypeOK
<1> HIDE DEF r
<1>2. Update(i, r) /\ row' = row /\ intent[i].status = "pending"
  BY DEF ClaimVoiceSessionIntent, OldestPending, r
<1>3. /\ intent' \in [Intents -> IntentRecord] /\ intent'[i] = r
      /\ \A j \in Intents \ {i} : intent'[j] = intent[j]
  BY <1>1, <1>2, UpdateOne
<1>4. QED
  BY <1>1, <1>2, <1>3 DEF StoreTypeOK, MovesOnly

\* Mark live is gentle.
LEMMA MarkLiveOp ==
  ASSUME StoreTypeOK, NEW w \in Workers, NEW i \in Intents, MarkVoiceSessionIntentLive(w, i)
  PROVE  StoreTypeOK' /\ Gentle
<1> DEFINE r == [intent[i] EXCEPT !.status = "live", !.bound = TRUE, !.stale = FALSE]
<1>1. r \in IntentRecord /\ r.status = "live" /\ r.owner = intent[i].owner
        /\ r.campaign = intent[i].campaign
  BY DEF StoreTypeOK
<1>2. Update(i, r) /\ intent[i].status = "claimed" /\ row' = row
  BY DEF MarkVoiceSessionIntentLive, CanMarkLive
<1>3. intent' \in [Intents -> IntentRecord] /\ intent'[i] = r
        /\ \A j \in Intents \ {i} : intent'[j] = intent[j]
  BY <1>1, <1>2, UpdateOne
<1>4. StoreTypeOK'
  BY <1>2, <1>3 DEF StoreTypeOK
<1>5. Gentle
  BY <1>1, <1>2, <1>3 DEF Gentle
<1>6. QED BY <1>4, <1>5

\* A heartbeat moves no status.
LEMMA HeartbeatOp ==
  ASSUME StoreTypeOK, NEW w \in Workers, NEW i \in Intents, HeartbeatVoiceSessionIntent(w,
        i)
  PROVE  StoreTypeOK' /\ Gentle
<1> DEFINE r == [intent[i] EXCEPT !.stale = FALSE]
<1>1. r \in IntentRecord /\ r.status = intent[i].status /\ r.owner = intent[i].owner
        /\ r.campaign = intent[i].campaign
  BY DEF StoreTypeOK
<1>2. QED
  BY <1>1, UpdateOne DEF HeartbeatVoiceSessionIntent, StoreTypeOK, Gentle

\* Nor does the passing of time.
LEMMA ExpireOp ==
  ASSUME StoreTypeOK, NEW i \in Intents, HeartbeatExpires(i)
  PROVE  StoreTypeOK' /\ Gentle
<1> DEFINE r == [intent[i] EXCEPT !.stale = TRUE]
<1>1. r \in IntentRecord /\ r.status = intent[i].status /\ r.owner = intent[i].owner
        /\ r.campaign = intent[i].campaign
  BY DEF StoreTypeOK
<1>2. Update(i, r) /\ row' = row
  BY DEF HeartbeatExpires
<1>3. intent' \in [Intents -> IntentRecord] /\ intent'[i] = r
        /\ \A j \in Intents \ {i} : intent'[j] = intent[j]
  BY <1>1, <1>2, UpdateOne
<1>4. StoreTypeOK'
  BY <1>2, <1>3 DEF StoreTypeOK
<1>5. Gentle
  BY <1>1, <1>3 DEF Gentle
<1>6. QED BY <1>4, <1>5

\* A finish settles one intent, of the claimant that passes the fence.
LEMMA FinishOp ==
  ASSUME StoreTypeOK, NEW w \in Workers, NEW i \in Intents, NEW s \in {"done", "failed"},
         FinishVoiceSessionIntent(w, i, s)
  PROVE  /\ StoreTypeOK' /\ MovesOnly(i)
         /\ intent[i].owner = w /\ intent[i].status \in Held /\ intent'[i].status = s
         /\ intent'[i].owner = w
  BY UpdateOne, SettledRecord
     DEF FinishVoiceSessionIntent, Holds, StoreTypeOK, MovesOnly

\* A stop request ends a pending intent and only flags a held one.
LEMMA RequestStopOp ==
  ASSUME StoreTypeOK, NEW i \in Intents, RequestVoiceSessionStop(i)
  PROVE  /\ StoreTypeOK' /\ MovesOnly(i)
         /\ intent[i].status \in NonTerminal
         /\ intent'[i].owner = intent[i].owner
         /\ intent'[i].status = IF intent[i].status = "pending" THEN "done"
              ELSE intent[i].status
<1> DEFINE r == [intent[i] EXCEPT !.stopRequested = TRUE]
<1>1. r \in IntentRecord /\ r.status = intent[i].status /\ r.owner = intent[i].owner
        /\ r.campaign = intent[i].campaign
  BY DEF StoreTypeOK
<1>2. CASE intent[i].status = "pending"
  BY <1>2, UpdateOne, SettledRecord DEF RequestVoiceSessionStop, StoreTypeOK, MovesOnly
<1>3. CASE intent[i].status # "pending"
  BY <1>1, <1>3, UpdateOne DEF RequestVoiceSessionStop, StoreTypeOK, MovesOnly
<1>4. QED BY <1>2, <1>3

\* A reap declares held intents dead and is gentle otherwise.
LEMMA ReapOp ==
  ASSUME StoreTypeOK, ReapDeadVoiceSessionIntents
  PROVE  StoreTypeOK' /\ Gentle
<1>1. \A j \in Intents : intent'[j] = IF Expired(j) THEN Settled(intent[j], "dead")
      ELSE intent[j]
  BY DEF ReapDeadVoiceSessionIntents
<1>2. \A j \in Intents : intent'[j] \in IntentRecord
  BY <1>1, SettledRecord DEF StoreTypeOK
<1>3. StoreTypeOK'
  BY <1>2 DEF ReapDeadVoiceSessionIntents, StoreTypeOK
<1>4. Gentle
  BY <1>1, SettledRecord DEF Gentle, Expired, StoreTypeOK
<1>5. QED BY <1>3, <1>4

\* So is the reap of one expired intent, by the web tier.
LEMMA ReapIfExpiredOp ==
  ASSUME StoreTypeOK, NEW i \in Intents, ReapVoiceSessionIntentIfExpired(i)
  PROVE  /\ StoreTypeOK' /\ Gentle /\ MovesOnly(i)
         /\ intent[i].status \in Held /\ intent'[i].status = "dead"
<1>1. /\ intent' \in [Intents -> IntentRecord]
      /\ intent'[i] = Settled(intent[i], "dead")
      /\ \A j \in Intents \ {i} : intent'[j] = intent[j]
      /\ intent[i] \in IntentRecord
  BY UpdateOne, SettledRecord DEF ReapVoiceSessionIntentIfExpired, StoreTypeOK
<1>2. row' = row /\ intent[i].status \in Held
  BY DEF ReapVoiceSessionIntentIfExpired, Expired
<1>3. QED
  BY <1>1, <1>2, SettledRecord DEF StoreTypeOK, Gentle, MovesOnly

\* The operations that touch voice_sessions only.
LEMMA RowOps ==
  ASSUME StoreTypeOK,
         \/ ReconcileWorkerOrphanedVoiceSessions
         \/ \E i \in Intents : CreateVoiceSession(i)
         \/ \E i \in Intents, s \in RowStatus : CloseVoiceSession(i, s)
         \/ UNCHANGED store
  PROVE  StoreTypeOK' /\ Gentle /\ intent' = intent
  BY DEF StoreTypeOK, Gentle, ReconcileWorkerOrphanedVoiceSessions, CreateVoiceSession,
         CloseVoiceSession, store

-----------------------------------------------------------------------------
(* One live intent per Tenant. *)

\* A gentle step adds no pending, claimed or live intent and moves none to
\* another Tenant.
LEMMA GentleOneLive ==
  ASSUME StoreTypeOK, OneLivePerTenant, Gentle
  PROVE  OneLivePerTenant'
  BY DEF StoreTypeOK, OneLivePerTenant, Gentle, Tenant

\* Neither does a step of an intent that was already non-terminal.
LEMMA MovesOneLive ==
  ASSUME StoreTypeOK, OneLivePerTenant, NEW i \in Intents, MovesOnly(i),
         intent[i].status \in NonTerminal
  PROVE  OneLivePerTenant'
  BY DEF StoreTypeOK, OneLivePerTenant, MovesOnly, Tenant

\* The unique index is what an insertion relies on.
LEMMA CreateOneLive ==
  ASSUME StoreTypeOK, OneLivePerTenant, NEW i \in Intents, NEW c \in Campaigns,
         CreateVoiceSessionIntent(i, c)
  PROVE  OneLivePerTenant'
<1>1. /\ \A j \in Intents \ {i} : intent'[j] = intent[j]
      /\ intent'[i].campaign = c
  BY CreateOp
<1>2. \A j \in Intents : Tenant(j) = TenantOf[c] => intent[j].status \notin NonTerminal
  BY DEF CreateVoiceSessionIntent, IndexFree
<1>3. QED BY <1>1, <1>2 DEF OneLivePerTenant, Tenant

-----------------------------------------------------------------------------
(* What a step that adds no Manager entry must show. *)

NoNewEntry ==
  \A v \in Workers, j \in Intents : loop'[v][j] # "none" => loop[v][j] # "none"

\* An intent in a goroutine's hands stays with its worker and its Tenant, and is
\* not finished behind its back.
ClaimsKept ==
  /\ \A j \in Intents : intent[j].status # "absent"
       => intent'[j].campaign = intent[j].campaign
  /\ \A v \in Workers, j \in Intents :
       pc[v][j] # "none" /\ pc'[v][j] # "none" =>
         intent'[j].owner = intent[j].owner /\ intent'[j].status \in {"claimed", "live",
               "dead"}

\* Only goroutine (w, i) moves.
GoroutineMoves(w, i) ==
  \A v \in Workers, j \in Intents :
    v # w \/ j # i =>
      pc'[v][j] = pc[v][j] /\ why'[v][j] = why[v][j] /\ target'[v][j] = target[v][j]

\* A gentle step takes no claim from a goroutine, but for declaring it dead.
LEMMA GentleKeepsClaims ==
  ASSUME ClaimInv, Gentle
  PROVE  ClaimsKept
<1>1. \A v \in Workers, j \in Intents :
        pc[v][j] # "none" => intent[j].status \in {"claimed", "live", "dead"}
  BY DEF ClaimInv, GoroutineHasClaim
<1>2. ASSUME NEW j \in Intents, intent[j].status \in {"claimed", "live", "dead"}
      PROVE  intent'[j].status \in {"claimed", "live", "dead"}
  BY <1>2 DEF Gentle
<1>3. QED BY <1>1, <1>2 DEF Gentle, ClaimsKept

\* A step of the store, of the tick or of the process.
LEMMA StoreFrame ==
  ASSUME ClaimInv, TypeOK', OneLivePerTenant', ClaimsKept, NoNewEntry,
         UNCHANGED <<pc, why, target>>
  PROVE  ClaimInv'
<1>1. \A v \in Workers, j \in Intents :
        loop[v][j] # "none" \/ pc[v][j] # "none" => Tenant(j)' = Tenant(j)
  BY DEF ClaimInv, Supervised, GoroutineHasClaim, ClaimsKept, Tenant
<1>2. GoroutineHasClaim'
  BY DEF ClaimInv, GoroutineHasClaim, ClaimsKept
<1>3. OneEntryPerTenant' /\ ReservationHolds'
  BY <1>1 DEF ClaimInv, OneEntryPerTenant, ReservationHolds, IsEntry, NoNewEntry
<1>4. Supervised' /\ OneStartAtATime' /\ WaitsForOwnSession'
  BY DEF ClaimInv, TypeOK, Supervised, OneStartAtATime, InStartClaimed, WaitsForOwnSession,
         NoNewEntry
<1>5. QED BY <1>2, <1>3, <1>4 DEF ClaimInv

\* A step of the goroutine responsible for intent i on worker w.
LEMMA GoroutineFrame ==
  ASSUME ClaimInv, TypeOK', OneLivePerTenant', ClaimsKept, NoNewEntry,
         NEW w \in Workers, NEW i \in Intents, GoroutineMoves(w, i),
         pc'[w][i] # "none" =>
           intent'[i].owner = w /\ intent'[i].status \in {"claimed", "live", "dead"},
         loop[w][i] # "none" =>
           pc'[w][i] \in {"marking", "beating", "seenLive", "seenEnding",
                          "stopping", "waiting", "wedged"},
         InStartClaimed(w, i)' => InStartClaimed(w, i) \/ TickFree(w),
         pc'[w][i] = "starting" => \A j \in Intents : ~IsEntry(w, i, j),
         pc'[w][i] = "starting" => intent[i].status # "absent",
         pc'[w][i] \in Blocked => target'[w][i] = i \/ loop[w][i] = "none"
  PROVE  ClaimInv'
<1>1. \A v \in Workers, j \in Intents :
        loop[v][j] # "none" \/ pc[v][j] # "none" => Tenant(j)' = Tenant(j)
  BY DEF ClaimInv, Supervised, GoroutineHasClaim, ClaimsKept, Tenant
<1>2. GoroutineHasClaim'
  BY DEF ClaimInv, GoroutineHasClaim, ClaimsKept, GoroutineMoves
<1>3. Supervised' /\ WaitsForOwnSession'
  <2>1. Supervised'
    BY DEF ClaimInv, Supervised, GoroutineMoves, NoNewEntry
  <2>2. ASSUME NEW v \in Workers, NEW j \in Intents, pc'[v][j] \in Blocked
        PROVE  target'[v][j] = j \/ loop'[v][j] = "none"
    <3>1. CASE v = w /\ j = i
      BY <2>2, <3>1 DEF NoNewEntry
    <3>2. CASE v # w \/ j # i
      BY <2>2, <3>2 DEF ClaimInv, WaitsForOwnSession, GoroutineMoves, NoNewEntry
    <3>3. QED BY <3>1, <3>2
  <2>3. QED BY <2>1, <2>2 DEF WaitsForOwnSession
<1>4. OneEntryPerTenant'
  BY <1>1 DEF ClaimInv, OneEntryPerTenant, NoNewEntry
<1>5. OneStartAtATime'
  BY DEF ClaimInv, OneStartAtATime, InStartClaimed, TickFree, GoroutineMoves
<1>6. ReservationHolds'
  <2>1. pc'[w][i] = "starting" => Tenant(i)' = Tenant(i)
    BY DEF ClaimsKept, Tenant
  <2>2. \A v \in Workers, k, j \in Intents :
          (v # w \/ k # i) /\ pc'[v][k] = "starting" => ~IsEntry(v, k, j)'
    BY <1>1 DEF ClaimInv, ReservationHolds, IsEntry, GoroutineMoves, NoNewEntry
  <2>3. \A j \in Intents : pc'[w][i] = "starting" => ~IsEntry(w, i, j)'
    BY <1>1, <2>1 DEF IsEntry, NoNewEntry
  <2>4. QED BY <2>2, <2>3 DEF ReservationHolds
<1>7. QED BY <1>2, <1>3, <1>4, <1>5, <1>6 DEF ClaimInv

-----------------------------------------------------------------------------
(* ClaimInv is inductive. *)

\* It holds initially: there is no intent, no goroutine and no entry.
THEOREM ClaimInvInit == Init => ClaimInv
<1> SUFFICES ASSUME Init PROVE ClaimInv
  OBVIOUS
<1> USE DEF Init, StoreInit
<1>1. TypeOK
  <2> DEFINE c0 == CHOOSE c \in Campaigns : TRUE
  <2>1. c0 \in Campaigns
    BY TenantOfAssumption
  <2> HIDE DEF c0
  <2>2. intent = [i \in Intents |->
                   [status |-> "absent", campaign |-> c0, owner |-> NoWorker,
                    bound |-> FALSE,
                    stopRequested |-> FALSE, stale |-> FALSE]]
    BY DEF c0
  <2>3. StoreTypeOK
    BY <2>1, <2>2 DEF StoreTypeOK
  <2>4. QED BY <2>3 DEF TypeOK
<1>2. OneLivePerTenant /\ GoroutineHasClaim /\ Supervised /\ OneEntryPerTenant
  BY DEF OneLivePerTenant, GoroutineHasClaim, Supervised, OneEntryPerTenant
<1>3. OneStartAtATime /\ ReservationHolds /\ WaitsForOwnSession
  BY DEF OneStartAtATime, InStartClaimed, ReservationHolds, WaitsForOwnSession
<1>4. QED BY <1>1, <1>2, <1>3 DEF ClaimInv

\* Steps of the process, of the web tier and of the clock.
LEMMA ProcessStep ==
  ASSUME ClaimInv, NEW w \in Workers, Process(w)
  PROVE  ClaimInv'
<1>1. CASE Boot(w)
  <2>1. StoreTypeOK' /\ Gentle
    BY <1>1, RowOps DEF Boot, ClaimInv, TypeOK
  <2>2. TypeOK'
    BY <1>1, <2>1 DEF Boot, ClaimInv, TypeOK
  <2>3. QED
    BY <1>1, <2>1, <2>2, GentleOneLive, GentleKeepsClaims, StoreFrame
       DEF NoNewEntry, Boot, ClaimInv, StoreTypeOK, TypeOK
<1>2. CASE Sigterm(w) \/ Exit(w)
  <2>1. StoreTypeOK' /\ Gentle
    BY <1>2, RowOps DEF Sigterm, Exit, store, ClaimInv, TypeOK
  <2>2. TypeOK'
    BY <1>2, <2>1 DEF Sigterm, Exit, ClaimInv, TypeOK
  <2>3. QED
    BY <1>2, <2>1, <2>2, GentleOneLive, GentleKeepsClaims, StoreFrame
       DEF NoNewEntry, Sigterm, Exit, ClaimInv, TypeOK
<1>3. CASE Crash(w)
  <2>1. StoreTypeOK' /\ Gentle /\ intent' = intent
    BY <1>3, RowOps DEF Crash, store, ClaimInv, TypeOK
  <2>2. TypeOK'
    BY <1>3, <2>1 DEF Crash, ClaimInv, TypeOK
  <2>3. \A v \in Workers, j \in Intents :
          \/ pc'[v][j] = "none" /\ loop'[v][j] = "none" /\ why'[v][j] = "none"
          \/ /\ pc'[v][j] = pc[v][j] /\ why'[v][j] = why[v][j]
             /\ target'[v][j] = target[v][j] /\ loop'[v][j] = loop[v][j]
    BY <1>3 DEF Crash, ClaimInv, TypeOK
  <2>4. OneLivePerTenant' /\ GoroutineHasClaim' /\ Supervised'
    BY <2>1, <2>3, GentleOneLive DEF ClaimInv, TypeOK, GoroutineHasClaim, Supervised
  <2>5. OneEntryPerTenant' /\ OneStartAtATime'
    BY <2>1, <2>3
       DEF ClaimInv, OneEntryPerTenant, OneStartAtATime, InStartClaimed, Tenant
  <2>6. ReservationHolds' /\ WaitsForOwnSession'
    BY <2>1, <2>3 DEF ClaimInv, ReservationHolds, IsEntry, WaitsForOwnSession, Tenant
  <2>7. QED BY <2>2, <2>4, <2>5, <2>6 DEF ClaimInv
<1>4. QED BY <1>1, <1>2, <1>3 DEF Process

\* Steps of the web tier and of the clock.
LEMMA WebStep ==
  ASSUME ClaimInv, NEW i \in Intents, Web(i) \/ Expire(i)
  PROVE  ClaimInv'
<1> USE DEF local
<1>1. ASSUME NEW c \in Campaigns, Create(i, c) PROVE ClaimInv'
  <2>1. /\ StoreTypeOK' /\ OneLivePerTenant'
        /\ \A j \in Intents \ {i} : intent'[j] = intent[j]
        /\ intent[i].status = "absent"
    BY <1>1, CreateOp, CreateOneLive DEF Create, ClaimInv, TypeOK
  <2>2. TypeOK'
    BY <1>1, <2>1 DEF Create, ClaimInv, TypeOK
  <2>3. ClaimsKept
    BY <2>1 DEF ClaimInv, GoroutineHasClaim, ClaimsKept
  <2>4. QED BY <1>1, <2>1, <2>2, <2>3, StoreFrame DEF NoNewEntry, Create
<1>2. CASE RequestStop(i)
  <2>1. /\ StoreTypeOK' /\ OneLivePerTenant' /\ MovesOnly(i)
        /\ intent'[i].owner = intent[i].owner
        /\ intent[i].status = "pending" \/ intent'[i].status = intent[i].status
    BY <1>2, RequestStopOp, MovesOneLive DEF RequestStop, ClaimInv, TypeOK
  <2>2. TypeOK'
    BY <1>2, <2>1 DEF RequestStop, ClaimInv, TypeOK
  <2>3. ClaimsKept
    BY <2>1 DEF ClaimInv, GoroutineHasClaim, ClaimsKept, MovesOnly
  <2>4. QED BY <1>2, <2>1, <2>2, <2>3, StoreFrame DEF NoNewEntry, RequestStop
<1>3. CASE ReapBlocking(i) \/ ReconcileReaped(i) \/ Expire(i)
  <2>1. StoreTypeOK' /\ Gentle
    BY <1>3, ReapIfExpiredOp, RowOps, ExpireOp
       DEF ReapBlocking, ReconcileReaped, Expire, ClaimInv, TypeOK
  <2>2. TypeOK'
    BY <1>3, <2>1 DEF ReapBlocking, ReconcileReaped, Expire, ClaimInv, TypeOK
  <2>3. QED
    BY <1>3, <2>1, <2>2, GentleOneLive, GentleKeepsClaims, StoreFrame
       DEF NoNewEntry, ReapBlocking, ReconcileReaped, Expire, ClaimInv, TypeOK
<1>4. QED BY <1>1, <1>2, <1>3 DEF Web

\* Steps of a worker's tick.
LEMMA TickStep ==
  ASSUME ClaimInv, NEW w \in Workers, Tick(w)
  PROVE  ClaimInv'
<1>1. CASE Reap(w) \/ Reconcile(w) \/ EndTick(w)
  <2>1. StoreTypeOK' /\ Gentle
    BY <1>1, ReapOp, RowOps DEF Reap, Reconcile, EndTick, store, ClaimInv, TypeOK
  <2>2. TypeOK'
    BY <1>1, <2>1 DEF Reap, Reconcile, EndTick, TickTo, ClaimInv, TypeOK
  <2>3. QED
    BY <1>1, <2>1, <2>2, GentleOneLive, GentleKeepsClaims, StoreFrame
       DEF NoNewEntry, Reap, Reconcile, EndTick, ClaimInv, TypeOK
<1>2. ASSUME NEW i \in Intents, ClaimVoiceSessionIntent(w, i)
      PROVE  /\ StoreTypeOK' /\ OneLivePerTenant' /\ ClaimsKept
             /\ \A v \in Workers : pc[v][i] = "none"
             /\ intent'[i].owner = w /\ intent'[i].status = "claimed"
  <2>1. StoreTypeOK' /\ MovesOnly(i) /\ intent[i].status = "pending"
          /\ intent'[i].owner = w /\ intent'[i].status = "claimed"
    BY <1>2, ClaimOp DEF ClaimInv, TypeOK
  <2>2. OneLivePerTenant'
    BY <2>1, MovesOneLive DEF ClaimInv, TypeOK
  <2>3. \A v \in Workers : pc[v][i] = "none"
    BY <2>1 DEF ClaimInv, GoroutineHasClaim
  <2>4. ClaimsKept
    BY <2>1, <2>3 DEF ClaimInv, GoroutineHasClaim, ClaimsKept, MovesOnly
  <2>5. QED BY <2>1, <2>2, <2>3, <2>4
<1>3. ASSUME NEW i \in Intents, Claim(w, i) PROVE ClaimInv'
  <2>1. ClaimVoiceSessionIntent(w, i) /\ TickFree(w) /\ Goto(w, i, "claimed")
          /\ UNCHANGED <<phase, tick, why, target, loop>>
    BY <1>3 DEF Claim
  <2>2. TypeOK'
    BY <1>2, <2>1 DEF Goto, ClaimInv, TypeOK
  <2>3. GoroutineMoves(w, i) /\ pc'[w][i] = "claimed"
    BY <2>1 DEF Goto, GoroutineMoves, ClaimInv, TypeOK
  <2>4. loop[w][i] = "none"
    BY <1>2, <2>1 DEF ClaimInv, Supervised
  <2>5. QED BY <1>2, <2>1, <2>2, <2>3, <2>4, GoroutineFrame DEF NoNewEntry
<1>4. ASSUME NEW i \in Intents, ClaimLost(w, i) PROVE ClaimInv'
  <2>1. TypeOK'
    BY <1>2, <1>4 DEF ClaimLost, TickTo, ClaimInv, TypeOK
  <2>2. QED BY <1>2, <1>4, <2>1, StoreFrame DEF NoNewEntry, ClaimLost
<1>5. QED BY <1>1, <1>3, <1>4 DEF Tick

\* A goroutine that goes on to s, and one that goes on to stop for reason r.
LEMMA GotoFacts ==
  ASSUME TypeOK, NEW w \in Workers, NEW i \in Intents, NEW s \in Steps, Goto(w, i, s)
  PROVE  /\ pc' \in [Workers -> [Intents -> Steps]]
         /\ pc'[w][i] = s
         /\ \A v \in Workers, j \in Intents : v # w \/ j # i => pc'[v][j] = pc[v][j]
  BY DEF TypeOK, Goto

\* One goroutine is sent to stop its session, the others go on.
LEMMA StopForFacts ==
  ASSUME TypeOK, NEW w \in Workers, NEW i \in Intents, NEW r \in Reasons, StopFor(w, i, r)
  PROVE  /\ pc' \in [Workers -> [Intents -> Steps]]
         /\ why' \in [Workers -> [Intents -> Reasons]]
         /\ pc'[w][i] = "stopping" /\ why'[w][i] = r
         /\ \A v \in Workers, j \in Intents :
              v # w \/ j # i => pc'[v][j] = pc[v][j] /\ why'[v][j] = why[v][j]
<1>1. Goto(w, i, "stopping") /\ why' = [why EXCEPT ![w][i] = r]
  BY DEF StopFor
<1>2. why' \in [Workers -> [Intents -> Reasons]] /\ why'[w][i] = r
        /\ \A v \in Workers, j \in Intents : v # w \/ j # i => why'[v][j] = why[v][j]
  BY <1>1 DEF TypeOK
<1>3. QED BY <1>1, <1>2, GotoFacts

\* A finish, or a finish that found no row or failed, behind a goroutine's end.
LEMMA FinishedOrNot ==
  ASSUME ClaimInv, NEW w \in Workers, NEW i \in Intents,
         (\E s \in {"done", "failed"} : FinishVoiceSessionIntent(w, i, s))
           \/ UNCHANGED store
  PROVE  StoreTypeOK' /\ OneLivePerTenant' /\ MovesOnly(i)
<1>1. ASSUME NEW s \in {"done", "failed"}, FinishVoiceSessionIntent(w, i, s)
      PROVE  StoreTypeOK' /\ OneLivePerTenant' /\ MovesOnly(i)
  <2>1. StoreTypeOK' /\ MovesOnly(i) /\ intent[i].status \in NonTerminal
    BY <1>1, FinishOp DEF ClaimInv, TypeOK
  <2>2. QED BY <2>1, MovesOneLive DEF ClaimInv, TypeOK
<1>2. CASE UNCHANGED store
  BY <1>2, RowOps, GentleOneLive DEF store, ClaimInv, TypeOK, MovesOnly
<1>3. QED BY <1>1, <1>2

\* Steps of startClaimed.
LEMMA StartClaimedStep ==
  ASSUME ClaimInv, NEW w \in Workers, NEW i \in Intents, StartClaimed(w, i)
  PROVE  ClaimInv'
<1> USE DEF GoroutineMoves
<1>1. CASE Reserve(w, i)
  <2>1. StoreTypeOK' /\ Gentle
    BY <1>1, RowOps DEF Reserve, store, ClaimInv, TypeOK
  <2> DEFINE s == IF Active(w, i) \/ Finalizing(w, i) THEN "failing" ELSE "starting"
  <2>2. Goto(w, i, s) /\ s \in Steps /\ pc[w][i] = "claimed"
          /\ UNCHANGED <<phase, tick, why, target, loop>>
    BY <1>1 DEF Reserve
  <2>3. /\ pc' \in [Workers -> [Intents -> Steps]] /\ pc'[w][i] = s
         /\ \A v \in Workers, j \in Intents : v # w \/ j # i => pc'[v][j] = pc[v][j]
    BY <2>2, GotoFacts DEF ClaimInv
  <2>4. TypeOK'
    BY <2>1, <2>2, <2>3 DEF ClaimInv, TypeOK
  <2>5. OneLivePerTenant' /\ ClaimsKept
    BY <2>1, GentleOneLive, GentleKeepsClaims DEF ClaimInv, TypeOK
  <2>6. GoroutineMoves(w, i) /\ InStartClaimed(w, i) /\ loop[w][i] = "none" /\ loop' = loop
    BY <2>2, <2>3 DEF ClaimInv, Supervised, InStartClaimed
  <2>7. \/ pc'[w][i] = "starting" /\ \A j \in Intents : ~IsEntry(w, i, j)
        \/ pc'[w][i] = "failing"
    BY <2>3 DEF Active, Finalizing, IsEntry
  <2>8. /\ intent[i].owner = w /\ intent[i].status \in {"claimed", "live", "dead"}
        /\ intent'[i].owner = w /\ intent'[i].status \in {"claimed", "live", "dead"}
    BY <1>1 DEF Reserve, ClaimInv, GoroutineHasClaim
  <2>9. QED BY <2>4, <2>5, <2>6, <2>7, <2>8, GoroutineFrame DEF NoNewEntry
<1>2. CASE StartCommitted(w, i)
  <2>1. StoreTypeOK' /\ intent' = intent
    BY <1>2, RowOps DEF StartCommitted, ClaimInv, TypeOK
  <2>2. TypeOK'
    BY <1>2, <2>1, GotoFacts DEF StartCommitted, ClaimInv, TypeOK
  <2>3. \A j \in Intents : ~IsEntry(w, i, j)
    BY <1>2 DEF StartCommitted, ClaimInv, ReservationHolds
  <2>4. /\ loop'[w][i] = "running" /\ pc'[w][i] = "marking" /\ why' = why
             /\ target' = target
        /\ \A v \in Workers, j \in Intents :
             v # w \/ j # i => loop'[v][j] = loop[v][j] /\ pc'[v][j] = pc[v][j]
    BY <1>2, GotoFacts DEF StartCommitted, ClaimInv, TypeOK
  <2>5. pc[w][i] = "starting" /\ InStartClaimed(w, i)
    BY <1>2 DEF StartCommitted, InStartClaimed
  <2>6. OneLivePerTenant' /\ GoroutineHasClaim' /\ Supervised'
    BY <2>1, <2>4, <2>5
       DEF ClaimInv, OneLivePerTenant, GoroutineHasClaim, Supervised, Tenant
  <2>7. OneEntryPerTenant'
    BY <2>1, <2>3, <2>4 DEF ClaimInv, OneEntryPerTenant, IsEntry, Tenant
  <2>8. OneStartAtATime' /\ WaitsForOwnSession'
    BY <2>4, <2>5
       DEF ClaimInv, OneStartAtATime, InStartClaimed, WaitsForOwnSession
  <2>9. ReservationHolds'
    <3>1. ASSUME NEW v \in Workers, NEW k \in Intents, pc'[v][k] = "starting"
          PROVE  v # w /\ pc[v][k] = "starting"
      BY <2>4, <2>5, <3>1 DEF ClaimInv, OneStartAtATime, InStartClaimed
    <3>2. QED BY <2>1, <2>4, <3>1 DEF ClaimInv, ReservationHolds, IsEntry, Tenant
  <2>10. QED BY <2>2, <2>6, <2>7, <2>8, <2>9 DEF ClaimInv
<1>3. CASE StartRefused(w, i) \/ MarkLive(w, i) \/ MarkLiveNotFound(w, i)
      \/ MarkLiveFailed(w, i)
  <2>1. StoreTypeOK' /\ Gentle
    BY <1>3, RowOps, MarkLiveOp
       DEF StartRefused, MarkLive, MarkLiveNotFound, MarkLiveFailed, store, ClaimInv, TypeOK
  <2>2. /\ \/ /\ Goto(w, i, "failing") /\ pc[w][i] = "starting" /\ why' = why
           \/ /\ Goto(w, i, "beating") /\ pc[w][i] = "marking" /\ why' = why
           \/ /\ \E r \in Reasons : StopFor(w, i, r)
              /\ pc[w][i] = "marking"
        /\ UNCHANGED <<phase, tick, target, loop>>
    BY <1>3 DEF StartRefused, MarkLive, MarkLiveNotFound, MarkLiveFailed
  <2>3. /\ TypeOK' /\ GoroutineMoves(w, i)
        /\ \/ pc[w][i] = "starting" /\ pc'[w][i] = "failing"
           \/ pc[w][i] = "marking" /\ pc'[w][i] \in {"beating", "stopping"}
    <3>1. CASE Goto(w, i, "failing") /\ pc[w][i] = "starting" /\ why' = why
      <4>1. /\ pc' \in [Workers -> [Intents -> Steps]] /\ pc'[w][i] = "failing"
            /\ \A v \in Workers, j \in Intents : v # w \/ j # i => pc'[v][j] = pc[v][j]
        BY <3>1, GotoFacts DEF ClaimInv
      <4>2. TypeOK'
        BY <2>1, <2>2, <3>1, <4>1 DEF ClaimInv, TypeOK
      <4>3. QED BY <2>2, <3>1, <4>1, <4>2
    <3>2. CASE Goto(w, i, "beating") /\ pc[w][i] = "marking" /\ why' = why
      BY <2>1, <2>2, <3>2, GotoFacts DEF ClaimInv, TypeOK
    <3>3. CASE pc[w][i] = "marking" /\ \E r \in Reasons : StopFor(w, i, r)
      BY <2>1, <2>2, <3>3, StopForFacts DEF ClaimInv, TypeOK
    <3>4. QED BY <2>2, <3>1, <3>2, <3>3
  <2>4. OneLivePerTenant' /\ ClaimsKept
    BY <2>1, GentleOneLive, GentleKeepsClaims DEF ClaimInv, TypeOK
  <2>5. InStartClaimed(w, i) /\ (pc[w][i] = "starting" => loop[w][i] = "none")
    BY <2>3 DEF ClaimInv, Supervised, InStartClaimed
  <2>6. intent'[i].owner = w /\ intent'[i].status \in {"claimed", "live", "dead"}
    BY <2>4, <2>3 DEF ClaimInv, GoroutineHasClaim, ClaimsKept
  <2>7. QED BY <2>2, <2>4, <2>3, <2>5, <2>6, GoroutineFrame DEF NoNewEntry
<1>4. CASE FinishFailed(w, i)
  <2>1. StoreTypeOK' /\ OneLivePerTenant' /\ MovesOnly(i)
    BY <1>4, FinishedOrNot DEF FinishFailed
  <2>2. TypeOK'
    BY <1>4, <2>1, GotoFacts DEF FinishFailed, ClaimInv, TypeOK
  <2>3. GoroutineMoves(w, i) /\ loop' = loop /\ pc[w][i] = "failing" /\ pc'[w][i] = "none"
    BY <1>4, GotoFacts DEF FinishFailed, ClaimInv
  <2>4. loop[w][i] = "none" /\ InStartClaimed(w, i)
    BY <2>3 DEF ClaimInv, Supervised, InStartClaimed
  <2>5. ClaimsKept
    BY <2>1, <2>3 DEF ClaimInv, GoroutineHasClaim, ClaimsKept, MovesOnly
  <2>6. QED BY <2>1, <2>2, <2>3, <2>4, <2>5, GoroutineFrame DEF NoNewEntry
<1>5. QED BY <1>1, <1>2, <1>3, <1>4 DEF StartClaimed

\* Steps of runSession.
LEMMA RunSessionStep ==
  ASSUME ClaimInv, NEW w \in Workers, NEW i \in Intents, RunSession(w, i)
  PROVE  ClaimInv'
<1> USE DEF GoroutineMoves
<1>1. CASE Look(w, i)
  <2>1. StoreTypeOK' /\ Gentle
    BY <1>1, RowOps DEF Look, store, ClaimInv, TypeOK
  <2>2. TypeOK'
    BY <1>1, <2>1, GotoFacts DEF Look, ClaimInv, TypeOK
  <2>3. OneLivePerTenant' /\ ClaimsKept
    BY <2>1, GentleOneLive, GentleKeepsClaims DEF ClaimInv, TypeOK
  <2>4. /\ GoroutineMoves(w, i) /\ loop' = loop /\ why' = why /\ pc[w][i] = "beating"
        /\ pc'[w][i] \in {"seenLive", "seenEnding", "finishing"}
    BY <1>1, GotoFacts DEF Look, ClaimInv
  <2>5. pc'[w][i] = "finishing" => loop[w][i] = "none"
    BY <1>1, GotoFacts DEF Look, Active, Finalizing, IsEntry, ClaimInv
  <2>6. intent'[i].owner = w /\ intent'[i].status \in {"claimed", "live", "dead"}
    BY <2>3, <2>4 DEF ClaimInv, GoroutineHasClaim, ClaimsKept
  <2>7. QED BY <2>2, <2>3, <2>4, <2>5, <2>6, GoroutineFrame DEF InStartClaimed, NoNewEntry
<1>2. CASE ShutdownSession(w, i) \/ Heartbeat(w, i) \/ HeartbeatNotFound(w, i)
             \/ HeartbeatFailed(w, i)
  <2>1. StoreTypeOK' /\ Gentle
    BY <1>2, RowOps, HeartbeatOp
       DEF ShutdownSession, Heartbeat, HeartbeatNotFound, HeartbeatFailed, store, ClaimInv,
         TypeOK
  <2>2. /\ \/ Goto(w, i, "beating") /\ why' = why
           \/ \E r \in {"ended", "superseded"} : StopFor(w, i, r)
        /\ pc[w][i] \in {"beating", "seenLive", "seenEnding"}
        /\ UNCHANGED <<phase, tick, target, loop>>
    BY <1>2 DEF ShutdownSession, Heartbeat, HeartbeatNotFound, HeartbeatFailed
  <2>3. /\ TypeOK' /\ GoroutineMoves(w, i)
        /\ \/ pc'[w][i] = "beating" /\ why'[w][i] = why[w][i]
           \/ pc'[w][i] = "stopping" /\ why'[w][i] \in {"ended", "superseded"}
    <3>1. CASE Goto(w, i, "beating") /\ why' = why
      BY <2>1, <2>2, <3>1, GotoFacts DEF ClaimInv, TypeOK
    <3>2. CASE \E r \in {"ended", "superseded"} : StopFor(w, i, r)
      BY <2>1, <2>2, <3>2, StopForFacts DEF ClaimInv, TypeOK
    <3>3. QED BY <2>2, <3>1, <3>2
  <2>4. OneLivePerTenant' /\ ClaimsKept
    BY <2>1, GentleOneLive, GentleKeepsClaims DEF ClaimInv, TypeOK
  <2>5. InStartClaimed(w, i)' => InStartClaimed(w, i)
    BY <2>2, <2>3 DEF InStartClaimed
  <2>6. intent'[i].owner = w /\ intent'[i].status \in {"claimed", "live", "dead"}
    BY <2>2, <2>4, <2>3 DEF ClaimInv, GoroutineHasClaim, ClaimsKept
  <2>7. QED BY <2>2, <2>4, <2>3, <2>5, <2>6, GoroutineFrame DEF NoNewEntry
<1>3. CASE FinishSelfExit(w, i)
  <2>1. StoreTypeOK' /\ OneLivePerTenant' /\ MovesOnly(i)
    BY <1>3, FinishedOrNot DEF FinishSelfExit
  <2>2. TypeOK'
    BY <1>3, <2>1, GotoFacts DEF FinishSelfExit, ClaimInv, TypeOK
  <2>3. /\ GoroutineMoves(w, i) /\ loop' = loop /\ why' = why
        /\ pc[w][i] = "finishing" /\ pc'[w][i] = "none"
    BY <1>3, GotoFacts DEF FinishSelfExit, ClaimInv
  <2>4. loop[w][i] = "none"
    BY <2>3 DEF ClaimInv, Supervised
  <2>5. ClaimsKept
    BY <2>1, <2>3 DEF ClaimInv, GoroutineHasClaim, ClaimsKept, MovesOnly
  <2>6. QED BY <2>1, <2>2, <2>3, <2>4, <2>5, GoroutineFrame DEF InStartClaimed, NoNewEntry
<1>4. QED BY <1>1, <1>2, <1>3 DEF RunSession

\* Steps of a goroutine that stops a session.
LEMMA StoppingStep ==
  ASSUME ClaimInv, NEW w \in Workers, NEW i \in Intents, Stopping(w, i)
  PROVE  ClaimInv'
<1> USE DEF GoroutineMoves
<1>1. CASE StopCall(w, i)
  <2>1. StoreTypeOK' /\ Gentle
    BY <1>1, RowOps DEF StopCall, store, ClaimInv, TypeOK
  <2>2. OneLivePerTenant' /\ ClaimsKept
    BY <2>1, GentleOneLive, GentleKeepsClaims DEF ClaimInv, TypeOK
  <2>3. /\ pc' \in [Workers -> [Intents -> Steps]] /\ pc'[w][i] = "waiting"
        /\ \A v \in Workers, j \in Intents : v # w \/ j # i => pc'[v][j] = pc[v][j]
    BY <1>1, GotoFacts DEF StopCall, ClaimInv
  <2> DEFINE OwnTarget ==
        /\ loop' \in [Workers -> [Intents -> Loops]] /\ NoNewEntry
        /\ target' \in [Workers -> [Intents -> Intents \cup {NoIntent}]]
        /\ \A v \in Workers, j \in Intents : v # w \/ j # i => target'[v][j] = target[v][j]
        /\ target'[w][i] = i \/ loop[w][i] = "none"
  <2>4. OwnTarget
    <3>1. ASSUME NEW j \in Intents, IsEntry(w, i, j),
                 target' = [target EXCEPT ![w][i] = j],
                 loop' = [loop EXCEPT ![w][j] = IF @ = "running" THEN "cancelled" ELSE @]
          PROVE  OwnTarget
      <4>1. j = i \/ loop[w][i] = "none"
        BY <3>1 DEF IsEntry, ClaimInv, OneEntryPerTenant
      <4>2. target' \in [Workers -> [Intents -> Intents \cup {NoIntent}]]
            /\ target'[w][i] = j
              /\ \A v \in Workers, k \in Intents : v # w \/ k # i
                   => target'[v][k] = target[v][k]
        BY <3>1 DEF ClaimInv, TypeOK
      <4>3. loop' \in [Workers -> [Intents -> Loops]] /\ NoNewEntry
        BY <3>1 DEF ClaimInv, TypeOK, NoNewEntry
      <4>4. QED BY <4>1, <4>2, <4>3
    <3>2. CASE (\A j \in Intents : ~IsEntry(w, i, j)) /\ UNCHANGED <<target, loop>>
      <4>1. loop[w][i] = "none"
        BY <3>2 DEF IsEntry
      <4>2. QED BY <3>2, <4>1 DEF ClaimInv, TypeOK, NoNewEntry
    <3>3. QED BY <1>1, <3>1, <3>2 DEF StopCall
  <2>5. TypeOK'
    BY <1>1, <2>1, <2>3, <2>4 DEF StopCall, ClaimInv, TypeOK
  <2>6. pc[w][i] = "stopping" /\ why' = why
    BY <1>1 DEF StopCall
  <2>7. InStartClaimed(w, i)' => InStartClaimed(w, i)
    BY <2>3, <2>6 DEF InStartClaimed
  <2>8. intent'[i].owner = w /\ intent'[i].status \in {"claimed", "live", "dead"}
    BY <2>2, <2>3, <2>6 DEF ClaimInv, GoroutineHasClaim, ClaimsKept
  <2>9. QED BY <2>2, <2>3, <2>4, <2>5, <2>6, <2>7, <2>8, GoroutineFrame
<1>2. CASE DrainBeat(w, i)
  <2>1. StoreTypeOK' /\ Gentle
    BY <1>2, HeartbeatOp DEF DrainBeat, ClaimInv, TypeOK
  <2>2. TypeOK'
    BY <1>2, <2>1 DEF DrainBeat, ClaimInv, TypeOK
  <2>3. QED
    BY <1>2, <2>1, <2>2, GentleOneLive, GentleKeepsClaims, StoreFrame
       DEF NoNewEntry, DrainBeat, ClaimInv, TypeOK
<1>3. CASE DrainBeatCapReached(w, i)
  <2>1. StoreTypeOK' /\ Gentle
    BY <1>3, RowOps DEF DrainBeatCapReached, store, ClaimInv, TypeOK
  <2>2. OneLivePerTenant' /\ ClaimsKept
    BY <2>1, GentleOneLive, GentleKeepsClaims DEF ClaimInv, TypeOK
  <2>3. TypeOK' /\ GoroutineMoves(w, i) /\ pc'[w][i] = "wedged" /\ why' = why
          /\ target' = target /\ loop' = loop /\ pc[w][i] = "waiting"
    BY <1>3, <2>1, GotoFacts DEF DrainBeatCapReached, ClaimInv, TypeOK
  <2>4. /\ InStartClaimed(w, i)' => InStartClaimed(w, i)
        /\ intent'[i].owner = w /\ intent'[i].status \in {"claimed", "live", "dead"}
        /\ target'[w][i] = i \/ loop[w][i] = "none"
    BY <2>2, <2>3
       DEF InStartClaimed, ClaimInv, GoroutineHasClaim, ClaimsKept, WaitsForOwnSession
  <2>5. QED BY <2>2, <2>3, <2>4, GoroutineFrame DEF NoNewEntry
<1>4. CASE StopReturns(w, i)
  <2>1. StoreTypeOK' /\ Gentle
    BY <1>4, RowOps DEF StopReturns, store, ClaimInv, TypeOK
  <2>2. OneLivePerTenant' /\ ClaimsKept
    BY <2>1, GentleOneLive, GentleKeepsClaims DEF ClaimInv, TypeOK
  <2> DEFINE s == CASE why[w][i] = "unmarked" -> "failing"
                    [] why[w][i] = "ended" -> "finishing"
                    [] OTHER -> "none"
  <2>3. /\ Goto(w, i, s) /\ s \in {"failing", "finishing", "none"}
        /\ s = "failing" => why[w][i] = "unmarked"
        /\ pc[w][i] \in Blocked
        /\ why' = [why EXCEPT ![w][i] = "none"]
        /\ target' = [target EXCEPT ![w][i] = NoIntent]
        /\ UNCHANGED <<intent, row, phase, tick, loop>>
    BY <1>4 DEF StopReturns
  <2> HIDE DEF s
  <2>4. /\ pc' \in [Workers -> [Intents -> Steps]] /\ pc'[w][i] = s
        /\ \A v \in Workers, j \in Intents : v # w \/ j # i => pc'[v][j] = pc[v][j]
    BY <2>3, GotoFacts DEF ClaimInv
  <2>5. TypeOK' /\ GoroutineMoves(w, i) /\ why'[w][i] = "none"
    BY <2>1, <2>3, <2>4 DEF ClaimInv, TypeOK
  <2>6. loop[w][i] = "none"
    BY <1>4, <2>3 DEF StopReturns, StopDone, ClaimInv, WaitsForOwnSession
  <2>7. /\ InStartClaimed(w, i)' => InStartClaimed(w, i)
        /\ intent'[i].owner = w /\ intent'[i].status \in {"claimed", "live", "dead"}
    BY <2>3, <2>4, <2>5 DEF InStartClaimed, ClaimInv, GoroutineHasClaim
  <2>8. QED BY <2>2, <2>3, <2>4, <2>5, <2>6, <2>7, GoroutineFrame DEF NoNewEntry
<1>5. QED BY <1>1, <1>2, <1>3, <1>4 DEF Stopping

\* Steps of the Manager's runLoop.
LEMMA ManagerStep ==
  ASSUME ClaimInv, NEW w \in Workers, NEW i \in Intents, Manager(w, i)
  PROVE  ClaimInv'
<1>1. CASE LoopExit(w, i)
  <2>1. StoreTypeOK' /\ Gentle
    BY <1>1, RowOps DEF LoopExit, store, ClaimInv, TypeOK
  <2>2. PICK l \in Exited : loop' = [loop EXCEPT ![w][i] = l] /\ loop[w][i] # "none"
    BY <1>1 DEF LoopExit
  <2>3. TypeOK' /\ NoNewEntry
    BY <1>1, <2>1, <2>2 DEF LoopExit, ClaimInv, TypeOK, NoNewEntry
  <2>4. QED
    BY <1>1, <2>1, <2>3, GentleOneLive, GentleKeepsClaims, StoreFrame
       DEF LoopExit, ClaimInv, TypeOK
<1>2. CASE CloseRow(w, i)
  <2>1. StoreTypeOK' /\ Gentle
    BY <1>2, RowOps DEF CloseRow, store, ClaimInv, TypeOK
  <2>2. TypeOK' /\ NoNewEntry
    BY <1>2, <2>1 DEF CloseRow, ClaimInv, TypeOK, NoNewEntry
  <2>3. QED
    BY <1>2, <2>1, <2>2, GentleOneLive, GentleKeepsClaims, StoreFrame
       DEF CloseRow, ClaimInv, TypeOK
<1>3. QED BY <1>1, <1>2 DEF Manager

\* Every step keeps ClaimInv.
THEOREM ClaimInvInductive == ClaimInv /\ [Next]_vars => ClaimInv'
<1> SUFFICES ASSUME ClaimInv, [Next]_vars PROVE ClaimInv'
  OBVIOUS
<1>1. ASSUME NEW w \in Workers, Worker(w) PROVE ClaimInv'
  BY <1>1, ProcessStep, TickStep, StartClaimedStep, RunSessionStep, StoppingStep,
       ManagerStep
     DEF Worker
<1>2. ASSUME NEW i \in Intents, Web(i) \/ Expire(i) PROVE ClaimInv'
  BY <1>2, WebStep
<1>3. CASE UNCHANGED vars
  <2>1. StoreTypeOK' /\ Gentle
    BY <1>3, RowOps DEF vars, store, ClaimInv, TypeOK
  <2>2. TypeOK'
    BY <1>3, <2>1 DEF vars, ClaimInv, TypeOK
  <2>3. QED
    BY <1>3, <2>1, <2>2, GentleOneLive, GentleKeepsClaims, StoreFrame
       DEF NoNewEntry, vars, ClaimInv, TypeOK
<1>4. QED BY <1>1, <1>2, <1>3 DEF Next

-----------------------------------------------------------------------------
(* The safety properties. *)

\* Type correctness and the conjuncts of the inductive invariant hold in every
\* reachable state.
THEOREM ClaimInvHolds == Spec => []ClaimInv
  BY ClaimInvInit, ClaimInvInductive, PTL DEF Spec

\* Every variable keeps its type: a sanity condition for the other theorems.
THEOREM TypeCorrect == Spec => []TypeOK
<1>1. ClaimInv => TypeOK
  BY DEF ClaimInv
<1>2. QED BY <1>1, ClaimInvHolds, PTL

\* However many workers claim, crash, reap and restart, a Tenant has at most one
\* pending, claimed or live intent.
THEOREM OneLivePerTenantHolds == Spec => []OneLivePerTenant
<1>1. ClaimInv => OneLivePerTenant
  BY DEF ClaimInv
<1>2. QED BY <1>1, ClaimInvHolds, PTL

\* A session runs only on the instance that claimed its intent: no takeover.
THEOREM HostIsOwnerHolds == Spec => []HostIsOwner
<1>1. ClaimInv => HostIsOwner
  BY DEF ClaimInv, TypeOK, HostIsOwner, GoroutineHasClaim, Supervised
<1>2. QED BY <1>1, ClaimInvHolds, PTL

\* A zombie session and its Tenant's next session are never in one Manager.
THEOREM OneEntryPerTenantHolds == Spec => []OneEntryPerTenant
<1>1. ClaimInv => OneEntryPerTenant
  BY DEF ClaimInv
<1>2. QED BY <1>1, ClaimInvHolds, PTL

\* Every session in a Manager has the goroutine that will notice its end, its
\* supersession or a stop request.
THEOREM SupervisedHolds == Spec => []Supervised
<1>1. ClaimInv => Supervised
  BY DEF ClaimInv
<1>2. QED BY <1>1, ClaimInvHolds, PTL

\* An intent is finished only behind the end of its session: an entry's intent is
\* in a goroutine's hands, and such an intent is claimed, live or presumed dead.
THEOREM FinishedMeansStoppedHolds == Spec => []FinishedMeansStopped
<1>1. ClaimInv => FinishedMeansStopped
  BY DEF ClaimInv, TypeOK, FinishedMeansStopped, GoroutineHasClaim, Supervised
<1>2. QED BY <1>1, ClaimInvHolds, PTL

-----------------------------------------------------------------------------
(* Capacity.  Only a claim takes a place on a worker, and it is made when the *)
(* tick has nothing else in hand: what is taken then is the Manager's map.    *)

Taking(w) == {i \in Intents : pc[w][i] \in {"claimed", "starting"}}

Taken(w) == Entries(w) \cup Taking(w)

CapacityInv ==
  \A w \in Workers : IsFiniteSet(Taken(w)) /\ Cardinality(Taken(w)) <= MaxSessions

\* Every place taken after the step was taken before.
TakesNothing == \A v \in Workers : Taken(v)' \subseteq Taken(v)

\* Two steps in one: a goroutine that moves, and entries that come from a start
\* or go.
LEMMA TakesNothingIf ==
  ASSUME \A v \in Workers, j \in Intents :
           /\ pc'[v][j] \in {"claimed", "starting"} => pc[v][j] \in {"claimed", "starting"}
           /\ loop'[v][j] # "none" => loop[v][j] # "none" \/ pc[v][j] = "starting"
  PROVE  TakesNothing
  BY DEF TakesNothing, Taken, Taking, Entries

\* The process, the clock, the web tier and a tick that claims nothing.
LEMMA OthersTakeNothing ==
  ASSUME ClaimInv, NEW w \in Workers, NEW i \in Intents,
         \/ Process(w) \/ Reap(w) \/ Reconcile(w) \/ EndTick(w) \/ ClaimLost(w, i)
         \/ Web(i) \/ Expire(i) \/ UNCHANGED vars
  PROVE  TakesNothing
<1>1. CASE Crash(w)
  BY <1>1, TakesNothingIf DEF Crash, ClaimInv, TypeOK
<1>2. CASE UNCHANGED <<pc, loop>>
  BY <1>2, TakesNothingIf
<1>3. Crash(w) \/ UNCHANGED <<pc, loop>>
  BY DEF Process, Boot, Sigterm, Exit, Reap, Reconcile, EndTick, ClaimLost, Web, Create,
         RequestStop, ReapBlocking, ReconcileReaped, Expire, local, vars
<1>4. QED BY <1>1, <1>2, <1>3

\* A start keeps its place until it fails or its entry takes it over.
LEMMA StartTakesNothing ==
  ASSUME ClaimInv, NEW w \in Workers, NEW i \in Intents, StartClaimed(w, i)
  PROVE  TakesNothing
<1>1. CASE Reserve(w, i)
  <2>1. PICK s \in {"failing", "starting"} : Goto(w, i, s)
    BY <1>1 DEF Reserve
  <2>2. pc[w][i] = "claimed" /\ loop' = loop
    BY <1>1 DEF Reserve
  <2>3. QED BY <2>1, <2>2, GotoFacts, TakesNothingIf DEF ClaimInv
<1>2. CASE StartCommitted(w, i)
  <2>1. Goto(w, i, "marking") /\ pc[w][i] = "starting"
        /\ loop' = [loop EXCEPT ![w][i] = "running"]
    BY <1>2 DEF StartCommitted
  <2>2. \A v \in Workers, j \in Intents :
          loop'[v][j] # "none" => loop[v][j] # "none" \/ (v = w /\ j = i)
    <3>1. \A v \in Workers : v # w => loop'[v] = loop[v]
      BY <2>1 DEF ClaimInv, TypeOK
    <3>2. \A j \in Intents : j # i => loop'[w][j] = loop[w][j]
      BY <2>1 DEF ClaimInv, TypeOK
    <3>3. QED BY <3>1, <3>2
  <2>3. QED BY <2>1, <2>2, GotoFacts, TakesNothingIf DEF ClaimInv
<1>3. ASSUME ~Reserve(w, i), ~StartCommitted(w, i)
      PROVE  TakesNothing
  <2>1. /\ \E s \in {"failing", "beating", "stopping", "none"} : Goto(w, i, s)
        /\ loop' = loop
    BY <1>3 DEF StartClaimed, StartRefused, MarkLive, MarkLiveNotFound, MarkLiveFailed,
                FinishFailed, StopFor
  <2>2. PICK s \in {"failing", "beating", "stopping", "none"} : Goto(w, i, s)
    BY <2>1
  <2>3. QED BY <2>1, <2>2, GotoFacts, TakesNothingIf DEF ClaimInv
<1>4. QED BY <1>1, <1>2, <1>3

\* A session under way holds the entry it has.
LEMMA SessionTakesNothing ==
  ASSUME ClaimInv, NEW w \in Workers, NEW i \in Intents,
         RunSession(w, i) \/ Stopping(w, i) \/ Manager(w, i)
  PROVE  TakesNothing
<1>1. CASE RunSession(w, i) \/ DrainBeatCapReached(w, i) \/ StopReturns(w, i)
  <2> DEFINE S == Steps \ {"claimed", "starting"}
  <2>1. (\E s \in S : Goto(w, i, s)) /\ loop' = loop
    BY <1>1 DEF RunSession, Look, ShutdownSession, Heartbeat, HeartbeatNotFound,
                HeartbeatFailed, FinishSelfExit, DrainBeatCapReached, StopReturns, StopFor
  <2>2. PICK s \in S : Goto(w, i, s)
    BY <2>1
  <2>3. QED BY <2>1, <2>2, GotoFacts, TakesNothingIf DEF ClaimInv
<1>2. CASE StopCall(w, i)
  <2>1. Goto(w, i, "waiting")
    BY <1>2 DEF StopCall
  <2>2. \A v \in Workers, j \in Intents : loop'[v][j] # "none" => loop[v][j] # "none"
    <3>1. CASE UNCHANGED loop
      BY <3>1
    <3>2. CASE loop' # loop
      <4>1. PICK k \in Intents : /\ IsEntry(w, i, k)
                                 /\ loop' = [loop EXCEPT ![w][k] = IF @ = "running"
                                                                   THEN "cancelled" ELSE @]
        BY <1>2, <3>2 DEF StopCall
      <4>2. \A v \in Workers : v # w => loop'[v] = loop[v]
        BY <4>1 DEF ClaimInv, TypeOK
      <4>3. \A j \in Intents : j # k => loop'[w][j] = loop[w][j]
        BY <4>1 DEF ClaimInv, TypeOK
      <4>4. QED BY <4>1, <4>2, <4>3 DEF IsEntry
    <3>3. QED BY <3>1, <3>2
  <2>3. QED BY <2>1, <2>2, GotoFacts, TakesNothingIf DEF ClaimInv
<1>3. CASE DrainBeat(w, i)
  BY <1>3, TakesNothingIf DEF DrainBeat
<1>4. CASE Manager(w, i)
  <2>1. /\ pc' = pc
        /\ \A v \in Workers, j \in Intents : loop'[v][j] # "none" => loop[v][j] # "none"
    <3>1. /\ pc' = pc /\ loop[w][i] # "none"
          /\ \E l \in Loops : loop' = [loop EXCEPT ![w][i] = l]
      BY <1>4 DEF Manager, LoopExit, CloseRow
    <3>2. PICK l \in Loops : loop' = [loop EXCEPT ![w][i] = l]
      BY <3>1
    <3>3. /\ \A v \in Workers : v # w => loop'[v] = loop[v]
          /\ \A j \in Intents : j # i => loop'[w][j] = loop[w][j]
      BY <3>2 DEF ClaimInv, TypeOK
    <3>4. QED BY <3>1, <3>3
  <2>2. QED BY <2>1, TakesNothingIf
<1>5. QED BY <1>1, <1>2, <1>3, <1>4 DEF Stopping

\* A claim takes one place, and there is one.
LEMMA ClaimTakesOne ==
  ASSUME ClaimInv, CapacityInv, NEW w \in Workers, NEW i \in Intents, Claim(w, i)
  PROVE  CapacityInv'
<1>1. TickFree(w) /\ HasCapacity(w) /\ Goto(w, i, "claimed") /\ loop' = loop
  BY DEF Claim
<1>2. Taken(w) = Entries(w)
  BY <1>1 DEF Taken, Taking, TickFree, InStartClaimed
<1>3. /\ Taken(w)' = Taken(w) \cup {i}
      /\ \A v \in Workers \ {w} : Taken(v)' = Taken(v)
  <2>1. \A v \in Workers, j \in Intents :
          pc'[v][j] = IF v = w /\ j = i THEN "claimed" ELSE pc[v][j]
    BY <1>1, GotoFacts DEF ClaimInv
  <2>2. QED BY <1>1, <2>1 DEF Taken, Taking, Entries
<1>4. IsFiniteSet(Taken(w)) /\ Cardinality(Taken(w)) < MaxSessions
  BY <1>1, <1>2 DEF CapacityInv, HasCapacity
<1>5. /\ IsFiniteSet(Taken(w) \cup {i}) /\ Cardinality(Taken(w)) \in Nat
      /\ Cardinality(Taken(w) \cup {i}) \in {Cardinality(Taken(w)),
                                             Cardinality(Taken(w)) + 1}
  BY <1>4, FS_AddElement, FS_CardinalityType
<1>6. IsFiniteSet(Taken(w)') /\ Cardinality(Taken(w)') <= MaxSessions
  BY <1>3, <1>4, <1>5, MaxSessionsAssumption
<1>7. \A v \in Workers \ {w} : IsFiniteSet(Taken(v)')
      /\ Cardinality(Taken(v)') <= MaxSessions
  BY <1>3 DEF CapacityInv
<1>8. QED BY <1>6, <1>7 DEF CapacityInv

\* A subset of what was taken fits as well.
LEMMA ShrinkingKeeps ==
  ASSUME CapacityInv, TakesNothing
  PROVE  CapacityInv'
<1>1. ASSUME NEW v \in Workers
      PROVE  IsFiniteSet(Taken(v)') /\ Cardinality(Taken(v)') <= MaxSessions
  <2>1. /\ IsFiniteSet(Taken(v)) /\ Cardinality(Taken(v)) <= MaxSessions
        /\ Taken(v)' \subseteq Taken(v)
    BY DEF CapacityInv, TakesNothing
  <2>2. IsFiniteSet(Taken(v)') /\ Cardinality(Taken(v)') <= Cardinality(Taken(v))
    BY <2>1, FS_Subset
  <2>3. Cardinality(Taken(v)') \in Nat /\ Cardinality(Taken(v)) \in Nat
    BY <2>1, <2>2, FS_CardinalityType
  <2>4. QED BY <2>1, <2>2, <2>3, MaxSessionsAssumption
<1>2. QED BY <1>1 DEF CapacityInv

\* Claims that commit without an answer, starts that fail and zombies included, a
\* worker never holds more than MaxSessions sessions.
THEOREM WithinCapacityHolds == Spec => []WithinCapacity
<1>1. Init => CapacityInv
  <2> SUFFICES ASSUME Init PROVE CapacityInv
    OBVIOUS
  <2>1. \A w \in Workers : Taken(w) = {}
    BY DEF Init, Taken, Taking, Entries
  <2>2. QED BY <2>1, FS_EmptySet, MaxSessionsAssumption DEF CapacityInv
<1>2. ClaimInv /\ CapacityInv /\ [Next]_vars => CapacityInv'
  <2> SUFFICES ASSUME ClaimInv, CapacityInv, [Next]_vars PROVE CapacityInv'
    OBVIOUS
  <2>1. ASSUME NEW w \in Workers, NEW i \in Intents, Claim(w, i)
        PROVE  CapacityInv'
    BY <2>1, ClaimTakesOne
  <2>2. ASSUME NEW w \in Workers, NEW i \in Intents,
               \/ StartClaimed(w, i) \/ RunSession(w, i) \/ Stopping(w, i) \/ Manager(w, i)
               \/ ClaimLost(w, i)
        PROVE  CapacityInv'
    BY <2>2, StartTakesNothing, SessionTakesNothing, OthersTakeNothing, ShrinkingKeeps
  <2>3. ASSUME NEW w \in Workers, Process(w) \/ Reap(w) \/ Reconcile(w) \/ EndTick(w)
        PROVE  CapacityInv'
    <3>1. CASE Intents = {}
      BY <2>3, <3>1, ShrinkingKeeps DEF TakesNothing, Taken, Taking, Entries
    <3>2. CASE Intents # {}
      BY <2>3, <3>2, OthersTakeNothing, ShrinkingKeeps
    <3>3. QED BY <3>1, <3>2
  <2>4. ASSUME NEW i \in Intents, Web(i) \/ Expire(i)
        PROVE  CapacityInv'
    <3>1. UNCHANGED <<pc, loop>>
      BY <2>4 DEF Web, Create, RequestStop, ReapBlocking, ReconcileReaped, Expire, local
    <3>2. QED BY <3>1, TakesNothingIf, ShrinkingKeeps
  <2>5. CASE UNCHANGED vars
    BY <2>5, TakesNothingIf, ShrinkingKeeps DEF vars
  <2>6. QED BY <2>1, <2>2, <2>3, <2>4, <2>5 DEF Next, Worker, Tick
<1>3. CapacityInv => WithinCapacity
  BY DEF CapacityInv, WithinCapacity, Taken, Taking
<1>4. QED BY <1>1, <1>2, <1>3, ClaimInvHolds, PTL DEF Spec

HIDE DEF Phases, Ticks, Steps, Reasons, Loops, Blocked, Exited
-------------------------------------------------------------------------------
(*************************************************************************)
(* ClaimPlane implements TenantSlot. Seen from a Tenant, a step of the   *)
(* claim plane requests, withdraws, takes, brings live or releases its   *)
(* slot, or is not seen at all. OneLivePerTenant makes the slot's intent *)
(* unique; an intent that changes status then changes its Tenant's slot  *)
(* and no other.                                                         *)
(*************************************************************************)

USE DEF IntentRecord, IntentStatus, RowStatus, NonTerminal, Held, Terminal

\* No Tenant has two non-terminal intents in db.
Unique(db) ==
  \A t \in Tenants, i, j \in Intents : Occupies(db, i, t) /\ Occupies(db, j, t) => i = j

Free == [state |-> "free"]

\* The slot of a Tenant that has a non-terminal intent is that intent's.
LEMMA SlotOccupied ==
  ASSUME NEW db, Unique(db), NEW t \in Tenants, NEW i \in Intents, Occupies(db, i, t)
  PROVE  SlotIn(db, t) = SlotState(db[i])
<1> DEFINE k == CHOOSE j \in Intents : Occupies(db, j, t)
<1>1. k \in Intents /\ Occupies(db, k, t)
  OBVIOUS
<1>2. k = i
  BY <1>1 DEF Unique
<1>3. QED BY <1>2 DEF SlotIn

\* The slot of a Tenant without one is free.
LEMMA SlotFree ==
  ASSUME NEW db, NEW t, \A i \in Intents : ~Occupies(db, i, t)
  PROVE  SlotIn(db, t) = Free
  BY DEF SlotIn, Free

\* A slot changes only with the status or the owner of an intent of its Tenant.
LEMMA SlotSame ==
  ASSUME NEW db, NEW da, Unique(db), Unique(da), NEW t \in Tenants,
         \A i \in Intents : Occupies(da, i, t) <=> Occupies(db, i, t),
         \A i \in Intents : Occupies(db, i, t) =>
                              da[i].status = db[i].status /\ da[i].owner = db[i].owner
  PROVE  SlotIn(da, t) = SlotIn(db, t)
<1>1. CASE \E i \in Intents : Occupies(db, i, t)
  <2>1. PICK i \in Intents : Occupies(db, i, t)
    BY <1>1
  <2>2. SlotIn(db, t) = SlotState(db[i]) /\ SlotIn(da, t) = SlotState(da[i])
    BY <2>1, SlotOccupied
  <2>3. SlotState(da[i]) = SlotState(db[i])
    BY <2>1 DEF SlotState
  <2>4. QED BY <2>2, <2>3
<1>2. CASE \A i \in Intents : ~Occupies(db, i, t)
  BY <1>2, SlotFree
<1>3. QED BY <1>1, <1>2

\* OneLivePerTenant is what makes the choice in SlotIn unique.
LEMMA ClaimInvUnique ==
  ASSUME ClaimInv
  PROVE  Unique(intent)
  BY DEF ClaimInv, OneLivePerTenant, Unique, Occupies, Tenant

\* Every intent belongs to a Tenant.
LEMMA TenantTyped ==
  ASSUME StoreTypeOK, NEW i \in Intents
  PROVE  Tenant(i) \in Tenants
<1>1. intent[i] \in IntentRecord
  BY DEF StoreTypeOK
<1>2. intent[i].campaign \in Campaigns
  BY <1>1
<1>3. QED BY <1>2, TenantOfAssumption DEF Tenant

\* An intent that moves takes its Tenant's slot along and touches no other one.
LEMMA OneSlotMoves ==
  ASSUME StoreTypeOK, Unique(intent), Unique(intent'), NEW i \in Intents, MovesOnly(i),
         intent[i].status \in NonTerminal
  PROVE  LET old == [t \in Tenants |-> SlotIn(intent, t)]
             new == [t \in Tenants |-> SlotIn(intent', t)]
         IN /\ Tenant(i) \in Tenants
            /\ old[Tenant(i)] = SlotState(intent[i])
            /\ intent'[i].status \in NonTerminal =>
                 new = [old EXCEPT ![Tenant(i)] = SlotState(intent'[i])]
            /\ intent'[i].status \notin NonTerminal =>
                 new = [old EXCEPT ![Tenant(i)] = Free]
<1> DEFINE old == [t \in Tenants |-> SlotIn(intent, t)]
           new == [t \in Tenants |-> SlotIn(intent', t)]
           u == Tenant(i)
<1>1. u \in Tenants /\ Occupies(intent, i, u)
  BY TenantTyped DEF Occupies, Tenant
<1>2. old[u] = SlotState(intent[i])
  BY <1>1, SlotOccupied
<1>3. ASSUME NEW t \in Tenants, t # u PROVE SlotIn(intent', t) = SlotIn(intent, t)
  <2>1. \A j \in Intents : Occupies(intent, j, t) \/ Occupies(intent', j, t) => j # i
    BY <1>3 DEF Occupies, Tenant, MovesOnly
  <2>2. \A j \in Intents : Occupies(intent', j, t) <=> Occupies(intent, j, t)
    BY <2>1 DEF Occupies, MovesOnly
  <2>3. \A j \in Intents : Occupies(intent, j, t) => intent'[j] = intent[j]
    BY <2>1 DEF MovesOnly
  <2>4. QED BY <2>2, <2>3, SlotSame
<1>4. CASE intent'[i].status \in NonTerminal
  <2>1. Occupies(intent', i, u)
    BY <1>4 DEF Occupies, MovesOnly, Tenant
  <2>2. SlotIn(intent', u) = SlotState(intent'[i])
    BY <1>1, <2>1, SlotOccupied
  <2>3. QED BY <1>1, <1>2, <1>3, <1>4, <2>2
<1>5. CASE intent'[i].status \notin NonTerminal
  <2>1. \A j \in Intents : ~Occupies(intent', j, u)
    <3>1. ASSUME NEW j \in Intents, Occupies(intent', j, u) PROVE FALSE
      <4>1. j # i
        BY <1>5, <3>1 DEF Occupies
      <4>2. Occupies(intent, j, u)
        BY <3>1, <4>1 DEF Occupies, MovesOnly
      <4>3. QED BY <1>1, <4>1, <4>2 DEF Unique
    <3>2. QED BY <3>1
  <2>2. SlotIn(intent', u) = Free
    BY <2>1, SlotFree
  <2>3. QED BY <1>1, <1>2, <1>3, <1>5, <2>2
<1>6. QED BY <1>1, <1>2, <1>4, <1>5

-----------------------------------------------------------------------------
(* What a step of the claim plane does to the intents. *)

\* No status, owner or Campaign moves: a heartbeat, an expiry, a step of the
\* voice_sessions rows, of a goroutine or of the process.
Quiet ==
  \A j \in Intents :
    /\ intent'[j].status = intent[j].status
    /\ intent'[j].owner = intent[j].owner
    /\ intent'[j].campaign = intent[j].campaign

StoreStep ==
  \/ Quiet
  \/ ReapDeadVoiceSessionIntents
  \/ \E i \in Intents :
       \/ \E c \in Campaigns : CreateVoiceSessionIntent(i, c)
       \/ RequestVoiceSessionStop(i)
       \/ ReapVoiceSessionIntentIfExpired(i)
       \/ \E w \in Workers :
            \/ ClaimVoiceSessionIntent(w, i)
            \/ MarkVoiceSessionIntentLive(w, i)
            \/ \E s \in {"done", "failed"} : FinishVoiceSessionIntent(w, i, s)

\* Steps that leave every status and owner as it is do not move a slot.
LEMMA QuietSteps ==
  ASSUME StoreTypeOK,
         \/ intent' = intent
         \/ \E i \in Intents : HeartbeatExpires(i)
         \/ \E w \in Workers, i \in Intents : HeartbeatVoiceSessionIntent(w, i)
  PROVE  Quiet
<1>1. CASE intent' = intent
  BY <1>1 DEF Quiet
<1>2. ASSUME NEW i \in Intents, NEW b \in BOOLEAN, Update(i, [intent[i] EXCEPT !.stale = b])
      PROVE  Quiet
  <2> DEFINE r == [intent[i] EXCEPT !.stale = b]
  <2>1. r \in IntentRecord /\ r.status = intent[i].status /\ r.owner = intent[i].owner
          /\ r.campaign = intent[i].campaign
    BY DEF StoreTypeOK
  <2>2. intent'[i] = r /\ \A j \in Intents \ {i} : intent'[j] = intent[j]
    BY <1>2, <2>1, UpdateOne
  <2>3. QED BY <2>1, <2>2 DEF Quiet
<1>3. QED BY <1>1, <1>2 DEF HeartbeatExpires, HeartbeatVoiceSessionIntent

\* What a step does to the intents is one store operation, or quiet.
LEMMA StoreSteps ==
  ASSUME StoreTypeOK, [Next]_vars
  PROVE  StoreStep
<1>1. ASSUME NEW w \in Workers, Process(w) PROVE StoreStep
  BY <1>1, QuietSteps
     DEF Process, Boot, Sigterm, Exit, Crash, ReconcileWorkerOrphanedVoiceSessions, store,
       StoreStep
<1>2. ASSUME NEW w \in Workers, Tick(w) PROVE StoreStep
  BY <1>2, QuietSteps
     DEF Tick, Reap, Reconcile, Claim, ClaimLost, EndTick,
       ReconcileWorkerOrphanedVoiceSessions,
         store, StoreStep
<1>3. ASSUME NEW w \in Workers, NEW i \in Intents, StartClaimed(w, i) PROVE StoreStep
  BY <1>3, QuietSteps
     DEF StartClaimed, Reserve, StartRefused, StartCommitted, MarkLive, MarkLiveNotFound,
         MarkLiveFailed, FinishFailed, CreateVoiceSession, store, StoreStep
<1>4. ASSUME NEW w \in Workers, NEW i \in Intents, RunSession(w, i) PROVE StoreStep
  BY <1>4, QuietSteps
     DEF RunSession, Look, ShutdownSession, Heartbeat, HeartbeatNotFound, HeartbeatFailed,
         FinishSelfExit, store, StoreStep
<1>5. ASSUME NEW w \in Workers, NEW i \in Intents, Stopping(w, i) \/ Manager(w, i)
      PROVE StoreStep
  BY <1>5, QuietSteps
     DEF Stopping, StopCall, DrainBeat, DrainBeatCapReached, StopReturns, Manager, LoopExit,
         CloseRow, CloseVoiceSession, store, StoreStep
<1>6. ASSUME NEW i \in Intents, Web(i) \/ Expire(i) PROVE StoreStep
  BY <1>6, QuietSteps
     DEF Web, Create, RequestStop, ReapBlocking, ReconcileReaped, Expire,
         ReconcileWorkerOrphanedVoiceSessions, StoreStep
<1>7. CASE UNCHANGED vars
  BY <1>7, QuietSteps DEF vars, StoreStep
<1>8. QED BY <1>1, <1>2, <1>3, <1>4, <1>5, <1>6, <1>7 DEF Next, Worker

\* A held intent has an owner, the host of its Tenant's slot.
HeldHasOwner == \A i \in Intents : intent[i].status \in Held => intent[i].owner \in Workers

\* A claimed or live intent keeps an instance as its owner (ClaimVoiceSessionIntent).
LEMMA HeldHasOwnerStep ==
  ASSUME StoreTypeOK, HeldHasOwner, StoreStep
  PROVE  HeldHasOwner'
<1>1. CASE Quiet
  BY <1>1 DEF Quiet, HeldHasOwner
<1>2. ASSUME Gentle PROVE HeldHasOwner'
  BY <1>2 DEF Gentle, HeldHasOwner
<1>3. ASSUME NEW i \in Intents, MovesOnly(i),
             intent'[i].status \in Held => intent'[i].owner \in Workers
      PROVE  HeldHasOwner'
  BY <1>3 DEF MovesOnly, HeldHasOwner
<1>4. ASSUME NEW i \in Intents, NEW c \in Campaigns, CreateVoiceSessionIntent(i, c)
      PROVE  HeldHasOwner'
  <2>1. intent'[i].status = "pending" /\ \A j \in Intents \ {i} : intent'[j] = intent[j]
    BY <1>4, CreateOp
  <2>2. QED BY <2>1 DEF HeldHasOwner
<1>5. ASSUME NEW i \in Intents, RequestVoiceSessionStop(i) PROVE HeldHasOwner'
  <2>1. /\ MovesOnly(i) /\ intent'[i].owner = intent[i].owner
        /\ intent'[i].status \in Held => intent[i].status \in Held
    BY <1>5, RequestStopOp
  <2>2. QED BY <1>3, <2>1 DEF HeldHasOwner
<1>6. ASSUME NEW i \in Intents, NEW w \in Workers, ClaimVoiceSessionIntent(w, i)
      PROVE  HeldHasOwner'
  BY <1>3, <1>6, ClaimOp
<1>7. ASSUME NEW i \in Intents, NEW w \in Workers, NEW s \in {"done", "failed"},
             FinishVoiceSessionIntent(w, i, s)
      PROVE  HeldHasOwner'
  BY <1>3, <1>7, FinishOp
<1>8. QED
  BY <1>1, <1>2, <1>4, <1>5, <1>6, <1>7, ReapOp, MarkLiveOp, ReapIfExpiredOp
     DEF StoreStep

-----------------------------------------------------------------------------
(* The refinement. *)

OldSlot == [t \in Tenants |-> SlotIn(intent, t)]

NewSlot == [t \in Tenants |-> SlotIn(intent', t)]

\* The abstract step a store operation is.
SlotStep ==
  \/ NewSlot = OldSlot
  \/ \E t \in Tenants :
       \/ OldSlot[t] = Slot!Free /\ NewSlot = [OldSlot EXCEPT ![t] = Slot!Requested]
       \/ OldSlot[t] = Slot!Requested /\ NewSlot = [OldSlot EXCEPT ![t] = Slot!Free]
       \/ \E w \in Workers :
            \/ OldSlot[t] = Slot!Requested
                 /\ NewSlot = [OldSlot EXCEPT ![t] = Slot!Taken(w)]
            \/ OldSlot[t] = Slot!Taken(w) /\ NewSlot = [OldSlot EXCEPT ![t] = Slot!Live(w)]
  \/ \E S \in SUBSET Tenants :
       /\ S # {} /\ \A t \in S : OldSlot[t] \in Slot!Hosted
       /\ NewSlot = [t \in Tenants |-> IF t \in S THEN Slot!Free ELSE OldSlot[t]]

\* The slot of a held intent is hosted.
LEMMA HeldIsHosted ==
  ASSUME NEW r, r.status \in Held, r.owner \in Workers
  PROVE  SlotState(r) \in Slot!Hosted
  BY DEF SlotState, Slot!Hosted, Slot!Taken, Slot!Live

\* A single slot released.
LEMMA ReleaseOne ==
  ASSUME NEW t \in Tenants, OldSlot[t] \in Slot!Hosted,
         NewSlot = [OldSlot EXCEPT ![t] = Free]
  PROVE  SlotStep
<1> DEFINE S == {t}
<1>1. NewSlot = [u \in Tenants |-> IF u \in S THEN Slot!Free ELSE OldSlot[u]]
  BY DEF OldSlot, Free, Slot!Free
<1>2. QED BY <1>1 DEF SlotStep

\* Each of these is a step of the slot or a stutter.
LEMMA SlotSteps ==
  ASSUME StoreTypeOK, HeldHasOwner, Unique(intent), Unique(intent'), StoreStep
  PROVE  SlotStep
<1> USE DEF Slot!Free, Slot!Requested, Slot!Taken, Slot!Live, Free
<1>1. ASSUME NEW i \in Intents, MovesOnly(i), intent[i].status \in NonTerminal
      PROVE  /\ Tenant(i) \in Tenants
             /\ OldSlot[Tenant(i)] = SlotState(intent[i])
             /\ intent'[i].status \in NonTerminal =>
                  NewSlot = [OldSlot EXCEPT ![Tenant(i)] = SlotState(intent'[i])]
             /\ intent'[i].status \notin NonTerminal =>
                  NewSlot = [OldSlot EXCEPT ![Tenant(i)] = Free]
  BY <1>1, OneSlotMoves DEF OldSlot, NewSlot
<1>2. CASE Quiet
  <2>1. ASSUME NEW t \in Tenants PROVE SlotIn(intent', t) = SlotIn(intent, t)
    <3>1. \A i \in Intents : Occupies(intent', i, t) <=> Occupies(intent, i, t)
      BY <1>2 DEF Quiet, Occupies
    <3>2. QED BY <1>2, <3>1, SlotSame DEF Quiet
  <2>2. QED BY <2>1 DEF SlotStep, OldSlot, NewSlot
<1>3. ASSUME NEW i \in Intents, NEW c \in Campaigns, CreateVoiceSessionIntent(i, c)
      PROVE  SlotStep
  <2> DEFINE u == TenantOf[c]
  <2>1. /\ u \in Tenants /\ IndexFree(u)
        /\ intent'[i].status = "pending" /\ intent'[i].campaign = c
        /\ intent[i].status = "absent"
        /\ \A j \in Intents \ {i} : intent'[j] = intent[j]
    BY <1>3, CreateOp, TenantOfAssumption DEF CreateVoiceSessionIntent
  <2>2. SlotIn(intent, u) = Free
    BY <2>1, SlotFree DEF IndexFree, Occupies, Tenant
  <2>3. SlotIn(intent', u) = Slot!Requested
    <3>1. Occupies(intent', i, u)
      BY <2>1 DEF Occupies
    <3>2. SlotIn(intent', u) = SlotState(intent'[i])
      BY <2>1, <3>1, SlotOccupied
    <3>3. QED BY <2>1, <3>2 DEF SlotState
  <2>4. ASSUME NEW t \in Tenants, t # u PROVE SlotIn(intent', t) = SlotIn(intent, t)
    <3>1. \A j \in Intents : Occupies(intent, j, t) \/ Occupies(intent', j, t) => j # i
      BY <2>1, <2>4 DEF Occupies
    <3>2. \A j \in Intents : Occupies(intent', j, t) <=> Occupies(intent, j, t)
      BY <2>1, <3>1 DEF Occupies
    <3>3. \A j \in Intents : Occupies(intent, j, t) => intent'[j] = intent[j]
      BY <2>1, <3>1
    <3>4. QED BY <3>2, <3>3, SlotSame
  <2>5. NewSlot = [OldSlot EXCEPT ![u] = Slot!Requested] /\ OldSlot[u] = Slot!Free
    BY <2>1, <2>2, <2>3, <2>4 DEF OldSlot, NewSlot
  <2>6. QED BY <2>1, <2>5 DEF SlotStep
<1>4. ASSUME NEW i \in Intents, NEW w \in Workers, ClaimVoiceSessionIntent(w, i)
      PROVE  SlotStep
  <2>1. MovesOnly(i) /\ intent[i].status = "pending" /\ intent'[i].status = "claimed"
          /\ intent'[i].owner = w
    BY <1>4, ClaimOp
  <2>2. SlotState(intent[i]) = Slot!Requested /\ SlotState(intent'[i]) = Slot!Taken(w)
    BY <2>1 DEF SlotState
  <2>3. QED BY <1>1, <2>1, <2>2 DEF SlotStep
<1>5. ASSUME NEW i \in Intents, NEW w \in Workers, MarkVoiceSessionIntentLive(w, i)
      PROVE  SlotStep
  <2>1. MovesOnly(i) /\ intent[i].status = "claimed" /\ intent[i].owner = w
          /\ intent'[i].status = "live" /\ intent'[i].owner = w
    <3> DEFINE r == [intent[i] EXCEPT !.status = "live", !.bound = TRUE, !.stale = FALSE]
    <3>1. r \in IntentRecord /\ r.status = "live" /\ r.owner = intent[i].owner
            /\ r.campaign = intent[i].campaign
      BY DEF StoreTypeOK
    <3>2. Update(i, r) /\ intent[i].status = "claimed" /\ intent[i].owner = w
      BY <1>5 DEF MarkVoiceSessionIntentLive, CanMarkLive
    <3>3. intent'[i] = r /\ \A j \in Intents \ {i} : intent'[j] = intent[j]
      BY <3>1, <3>2, UpdateOne
    <3>4. QED BY <3>1, <3>2, <3>3 DEF MovesOnly
  <2>2. SlotState(intent[i]) = Slot!Taken(w) /\ SlotState(intent'[i]) = Slot!Live(w)
    BY <2>1 DEF SlotState
  <2>3. QED BY <1>1, <2>1, <2>2 DEF SlotStep
<1>6. ASSUME NEW i \in Intents, RequestVoiceSessionStop(i) PROVE SlotStep
  <2>1. /\ MovesOnly(i) /\ intent[i].status \in NonTerminal
        /\ intent'[i].owner = intent[i].owner
        /\ intent'[i].status = IF intent[i].status = "pending" THEN "done"
             ELSE intent[i].status
    BY <1>6, RequestStopOp
  <2>2. CASE intent[i].status = "pending"
    <3>1. SlotState(intent[i]) = Slot!Requested
      BY <2>2 DEF SlotState
    <3>2. QED BY <1>1, <2>1, <2>2, <3>1 DEF SlotStep
  <2>3. CASE intent[i].status # "pending"
    <3>1. SlotState(intent'[i]) = SlotState(intent[i])
      BY <2>1, <2>3 DEF SlotState
    <3>2. NewSlot = OldSlot
      BY <1>1, <2>1, <2>3, <3>1 DEF OldSlot
    <3>3. QED BY <3>2 DEF SlotStep
  <2>4. QED BY <2>2, <2>3
<1>7. ASSUME NEW i \in Intents, MovesOnly(i), intent[i].status \in Held,
             intent'[i].status \notin NonTerminal
      PROVE  SlotStep
  <2>1. OldSlot[Tenant(i)] \in Slot!Hosted
    BY <1>1, <1>7, HeldIsHosted DEF HeldHasOwner
  <2>2. QED BY <1>1, <1>7, <2>1, ReleaseOne
<1>8. ASSUME NEW i \in Intents, NEW w \in Workers, NEW s \in {"done", "failed"},
             FinishVoiceSessionIntent(w, i, s)
      PROVE  SlotStep
  BY <1>7, <1>8, FinishOp
<1>9. ASSUME NEW i \in Intents, ReapVoiceSessionIntentIfExpired(i) PROVE SlotStep
  BY <1>7, <1>9, ReapIfExpiredOp
<1>10. CASE ReapDeadVoiceSessionIntents
  <2> DEFINE dead == {i \in Intents : Expired(i)}
             S == {Tenant(i) : i \in dead}
  <2>1. \A j \in Intents :
          intent'[j] = IF Expired(j) THEN Settled(intent[j], "dead") ELSE intent[j]
    BY <1>10 DEF ReapDeadVoiceSessionIntents
  <2>2. \A j \in dead : intent[j].status \in Held /\ intent'[j].status = "dead"
    BY <2>1, SettledRecord DEF StoreTypeOK, Expired
  <2>3. \A j \in Intents \ dead : intent'[j] = intent[j]
    BY <2>1
  <2>4. S \in SUBSET Tenants
    BY TenantTyped
  <2>5. ASSUME NEW t \in S
        PROVE  SlotIn(intent, t) \in Slot!Hosted /\ SlotIn(intent', t) = Free
    <3>1. PICK i \in dead : t = Tenant(i)
      OBVIOUS
    <3>2. Occupies(intent, i, t) /\ t \in Tenants
      BY <2>2, <2>4, <3>1 DEF Occupies, Tenant
    <3>3. SlotIn(intent, t) = SlotState(intent[i])
      BY <3>2, SlotOccupied
    <3>4. SlotIn(intent, t) \in Slot!Hosted
      BY <2>2, <3>3, HeldIsHosted DEF HeldHasOwner
    <3>5. ASSUME NEW j \in Intents, Occupies(intent', j, t) PROVE FALSE
      <4>1. j \notin dead
        BY <2>2, <3>5 DEF Occupies
      <4>2. Occupies(intent, j, t)
        BY <2>3, <3>5, <4>1 DEF Occupies
      <4>3. QED BY <3>2, <4>1, <4>2 DEF Unique
    <3>6. QED BY <3>4, <3>5, SlotFree
  <2>6. ASSUME NEW t \in Tenants, t \notin S PROVE SlotIn(intent', t) = SlotIn(intent, t)
    <3>1. \A j \in dead : ~Occupies(intent, j, t) /\ ~Occupies(intent', j, t)
      BY <2>2, <2>6 DEF Occupies, Tenant
    <3>2. \A j \in Intents : Occupies(intent', j, t) <=> Occupies(intent, j, t)
      BY <2>3, <3>1 DEF Occupies
    <3>3. \A j \in Intents : Occupies(intent, j, t) => intent'[j] = intent[j]
      BY <2>3, <3>1
    <3>4. QED BY <3>2, <3>3, SlotSame
  <2>7. NewSlot = [t \in Tenants |-> IF t \in S THEN Slot!Free ELSE OldSlot[t]]
    BY <2>4, <2>5, <2>6 DEF NewSlot, OldSlot
  <2>8. CASE S = {}
    BY <2>7, <2>8 DEF SlotStep, OldSlot
  <2>9. CASE S # {}
    BY <2>4, <2>5, <2>7, <2>9 DEF SlotStep, OldSlot
  <2>10. QED BY <2>8, <2>9
<1>11. QED BY <1>2, <1>3, <1>4, <1>5, <1>6, <1>8, <1>9, <1>10 DEF StoreStep

\* Initially every slot is free.
LEMMA SlotInit == Init => Slot!Init
<1> SUFFICES ASSUME Init PROVE \A t \in Tenants : SlotIn(intent, t) = Free
  BY DEF Slot!Init, Slot!Free, Free
<1>1. \A i \in Intents : intent[i].status = "absent"
  BY DEF Init, StoreInit
<1>2. QED BY <1>1, SlotFree DEF Occupies

\* A held intent always has an owner.
THEOREM HeldHasOwnerHolds == Spec => []HeldHasOwner
<1>1. Init => HeldHasOwner
  BY DEF Init, StoreInit, HeldHasOwner
<1>2. ClaimInv /\ HeldHasOwner /\ [Next]_vars => HeldHasOwner'
  BY StoreSteps, HeldHasOwnerStep DEF ClaimInv, TypeOK
<1>3. QED BY <1>1, <1>2, ClaimInvHolds, PTL DEF Spec

\* The claim plane implements the Tenant's slot: no takeover, no requeue, and a
\* slot released only by the end or the presumed death of its host.
THEOREM Refinement == Spec => ImplementsSlot
<1>1. ASSUME ClaimInv, ClaimInv', HeldHasOwner, [Next]_vars
      PROVE  [Slot!Next]_([t \in Tenants |-> SlotIn(intent, t)])
  <2>1. Unique(intent)
    BY <1>1, ClaimInvUnique
  <2>2. Unique(intent')
    BY <1>1 DEF ClaimInv, OneLivePerTenant, Unique, Occupies, Tenant
  <2>3. SlotStep
    BY <1>1, <2>1, <2>2, StoreSteps, SlotSteps DEF ClaimInv, TypeOK
  <2>4. QED
    BY <2>3
       DEF SlotStep, OldSlot, NewSlot, Slot!Next, Slot!Request, Slot!Withdraw, Slot!Take,
           Slot!GoLive, Slot!Release, Slot!Set
<1>2. QED
  BY <1>1, SlotInit, ClaimInvHolds, HeldHasOwnerHolds, PTL
     DEF Spec, ImplementsSlot, Slot!Spec
===============================================================================
