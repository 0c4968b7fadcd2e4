----------------------------- MODULE Edges_proofs -----------------------------
(*************************************************************************)
(* Proofs about what the web tier asks of the Voice Instances: sessions, *)
(* through intents (IntentControl), and Discord clients, through the     *)
(* settings they follow (DiscordClients). For any number of workers,     *)
(* Tenants, intents, Bots, Guilds and gateways.                          *)
(*************************************************************************)
EXTENDS IntentControl, ClaimPlane_proofs, DiscordClients, FiniteSetTheorems, TLAPS

-------------------------------------------------------------------------------
(*************************************************************************)
(* The web tier takes no step the claim plane does not know, so ClaimInv *)
(* carries over; and nothing a worker, a reaper or another caller does   *)
(* to an intent takes its dismissal back.                                *)
(*************************************************************************)

\* The intent is over, or its worker will be told to stop.
Dismissed(i) ==
  \/ intent[i].status \in Terminal
  \/ intent[i].status \in Held /\ intent[i].stopRequested

\* Everything that is ever done to voice_session_intents.
IntentOp ==
  \/ \E i \in Intents, c \in Campaigns : CreateVoiceSessionIntent(i, c)
  \/ \E w \in Workers, i \in Intents :
       \/ ClaimVoiceSessionIntent(w, i) \/ MarkVoiceSessionIntentLive(w, i)
       \/ HeartbeatVoiceSessionIntent(w, i)
       \/ \E s \in {"done", "failed"} : FinishVoiceSessionIntent(w, i, s)
  \/ \E i \in Intents :
       \/ RequestVoiceSessionStop(i) \/ ReapVoiceSessionIntentIfExpired(i)
       \/ HeartbeatExpires(i)
  \/ ReapDeadVoiceSessionIntents \/ UNCHANGED intent

USE DEF IntentRecord, IntentStatus, NonTerminal, Held, Terminal

-----------------------------------------------------------------------------

\* A statement that settles, flags or refreshes a row dismisses nothing less.
LEMMA UpdateDismissed ==
  ASSUME StoreTypeOK, NEW i \in Intents, Dismissed(i), NEW j \in Intents,
         NEW r \in IntentRecord, Update(j, r),
         \/ r.status \in Terminal
         \/ r.status \in Held /\ (intent[j].stopRequested => r.stopRequested)
         \/ intent[j].status \in {"absent", "pending"},
         intent[j].status \in Terminal => r.status \in Terminal
  PROVE  Dismissed(i)'
<1>1. intent'[j] = r /\ \A k \in Intents \ {j} : intent'[k] = intent[k]
  BY UpdateOne
<1>2. CASE i = j
  BY <1>1, <1>2 DEF Dismissed
<1>3. CASE i # j
  BY <1>1, <1>3 DEF Dismissed
<1> QED BY <1>2, <1>3

\* No operation takes a dismissal back.
LEMMA DismissalStays ==
  ASSUME StoreTypeOK, NEW i \in Intents, Dismissed(i), IntentOp
  PROVE  Dismissed(i)'
<1> USE DEF StoreTypeOK
<1>1. ASSUME NEW j \in Intents, NEW c \in Campaigns, CreateVoiceSessionIntent(j, c)
      PROVE  Dismissed(i)'
  <2>1. \A k \in Intents \ {j} : intent'[k] = intent[k]
    BY <1>1, CreateOp
  <2>2. i # j
    BY <1>1 DEF CreateVoiceSessionIntent, Dismissed
  <2> QED BY <2>1, <2>2 DEF Dismissed
<1>2. ASSUME NEW w \in Workers, NEW j \in Intents, ClaimVoiceSessionIntent(w, j)
      PROVE  Dismissed(i)'
  <2>1. MovesOnly(j) /\ intent[j].status = "pending"
    BY <1>2, ClaimOp
  <2> QED BY <2>1 DEF MovesOnly, Dismissed
<1>3. ASSUME NEW w \in Workers, NEW j \in Intents, MarkVoiceSessionIntentLive(w, j)
      PROVE  Dismissed(i)'
  <2> DEFINE r == [intent[j] EXCEPT !.status = "live", !.bound = TRUE, !.stale = FALSE]
  <2>1. r \in IntentRecord /\ r.status = "live" /\ r.stopRequested = intent[j].stopRequested
    OBVIOUS
  <2>2. Update(j, r) /\ intent[j].status = "claimed"
    BY <1>3 DEF MarkVoiceSessionIntentLive, CanMarkLive
  <2> HIDE DEF r
  <2> QED BY <2>1, <2>2, UpdateDismissed
<1>4. ASSUME NEW w \in Workers, NEW j \in Intents, HeartbeatVoiceSessionIntent(w, j)
      PROVE  Dismissed(i)'
  <2> DEFINE r == [intent[j] EXCEPT !.stale = FALSE]
  <2>1. r \in IntentRecord /\ r.status = intent[j].status
        /\ r.stopRequested = intent[j].stopRequested
    OBVIOUS
  <2>2. Update(j, r) /\ intent[j].status \in Held
    BY <1>4 DEF HeartbeatVoiceSessionIntent, Holds
  <2> HIDE DEF r
  <2> QED BY <2>1, <2>2, UpdateDismissed
<1>5. ASSUME NEW w \in Workers, NEW j \in Intents, NEW s \in {"done", "failed"},
             FinishVoiceSessionIntent(w, j, s)
      PROVE  Dismissed(i)'
  <2>1. MovesOnly(j) /\ intent'[j].status = s
    BY <1>5, FinishOp
  <2> QED BY <2>1 DEF MovesOnly, Dismissed
<1>6. ASSUME NEW j \in Intents, RequestVoiceSessionStop(j)
      PROVE  Dismissed(i)'
  <2>1. CASE intent[j].status = "pending"
    <3>1. MovesOnly(j)
      BY <1>6, RequestStopOp
    <3> QED BY <2>1, <3>1 DEF MovesOnly, Dismissed
  <2>2. CASE intent[j].status # "pending"
    <3> DEFINE r == [intent[j] EXCEPT !.stopRequested = TRUE]
    <3>1. r \in IntentRecord /\ r.status = intent[j].status /\ r.stopRequested = TRUE
      OBVIOUS
    <3>2. Update(j, r) /\ intent[j].status \in NonTerminal
      BY <1>6, <2>2 DEF RequestVoiceSessionStop
    <3> HIDE DEF r
    <3> QED BY <2>2, <3>1, <3>2, UpdateDismissed
  <2> QED BY <2>1, <2>2
<1>7. ASSUME NEW j \in Intents, ReapVoiceSessionIntentIfExpired(j)
      PROVE  Dismissed(i)'
  <2>1. MovesOnly(j) /\ intent'[j].status = "dead"
    BY <1>7, ReapIfExpiredOp
  <2> QED BY <2>1 DEF MovesOnly, Dismissed
<1>8. ASSUME NEW j \in Intents, HeartbeatExpires(j)
      PROVE  Dismissed(i)'
  <2> DEFINE r == [intent[j] EXCEPT !.stale = TRUE]
  <2>1. r \in IntentRecord /\ r.status = intent[j].status
        /\ r.stopRequested = intent[j].stopRequested
    OBVIOUS
  <2>2. Update(j, r) /\ intent[j].status \in Held
    BY <1>8 DEF HeartbeatExpires
  <2> HIDE DEF r
  <2> QED BY <2>1, <2>2, UpdateDismissed
<1>9. CASE ReapDeadVoiceSessionIntents
  <2>1. intent'[i] = IF Expired(i) THEN Settled(intent[i], "dead") ELSE intent[i]
    BY <1>9 DEF ReapDeadVoiceSessionIntents
  <2> QED BY <2>1, SettledRecord DEF Dismissed
<1>10. CASE UNCHANGED intent
  BY <1>10 DEF Dismissed
<1> QED BY <1>1, <1>2, <1>3, <1>4, <1>5, <1>6, <1>7, <1>8, <1>9, <1>10 DEF IntentOp

\* The claim plane's steps do nothing else to an intent.
LEMMA PlaneDoesIntentOps == [Next]_vars => IntentOp
<1> SUFFICES ASSUME [Next]_vars
             PROVE  IntentOp
  OBVIOUS
<1>1. ASSUME NEW w \in Workers, Process(w) \/ Tick(w)
      PROVE  IntentOp
  BY <1>1 DEF Process, Boot, Sigterm, Exit, Crash, Tick, Reap, Reconcile, EndTick, Claim,
              ClaimLost, ReconcileWorkerOrphanedVoiceSessions, store, IntentOp
<1>2. ASSUME NEW w \in Workers, NEW i \in Intents, StartClaimed(w, i)
      PROVE  IntentOp
  BY <1>2 DEF StartClaimed, Reserve, StartRefused, StartCommitted, MarkLive,
         MarkLiveNotFound,
              MarkLiveFailed, FinishFailed, CreateVoiceSession, store, IntentOp
<1>3. ASSUME NEW w \in Workers, NEW i \in Intents, RunSession(w, i)
      PROVE  IntentOp
  BY <1>3 DEF RunSession, Look, ShutdownSession, Heartbeat, HeartbeatNotFound,
              HeartbeatFailed, FinishSelfExit, store, IntentOp
<1>4. ASSUME NEW w \in Workers, NEW i \in Intents, Stopping(w, i) \/ Manager(w, i)
      PROVE  IntentOp
  BY <1>4 DEF Stopping, StopCall, DrainBeat, DrainBeatCapReached, StopReturns, Manager,
              LoopExit, CloseRow, CloseVoiceSession, store, IntentOp
<1>5. ASSUME NEW i \in Intents, Web(i) \/ Expire(i)
      PROVE  IntentOp
  BY <1>5 DEF Web, Create, RequestStop, ReapBlocking, ReconcileReaped, Expire,
              ReconcileWorkerOrphanedVoiceSessions, IntentOp
<1>6. CASE UNCHANGED vars
  BY <1>6 DEF vars, IntentOp
<1> QED BY <1>1, <1>2, <1>3, <1>4, <1>5, <1>6 DEF Next, Worker

-----------------------------------------------------------------------------
(* The web tier over the claim plane *)

\* What a caller does to the rows is a step of the plane, or none.
LEMMA WebTierIsPlane ==
  ASSUME NEW i \in Intents, WebTier(i)
  PROVE  [Next]_vars
  BY DEF WebTier, StartCreates, StartBlocked, StartReconciles, StartPolls, StartGivesUp,
         StopFinds, StopReaps, StopReconciles, StopRequests, StopPolls, StopGivesUp,
         Next, Web

\* A caller's own books keep their types.
LEMMA WebTypes ==
  ASSUME WebTypeOK, NEW i \in Intents, WebTier(i)
  PROVE  WebTypeOK'
<1> USE DEF WebTypeOK, Answer, Retry, StopGoes, StartAnswers, Escapes, StopAnswers
<1>1. CASE (\E c \in Campaigns : StartCreates(i, c)) \/ StartPolls(i) \/ StartGivesUp(i)
  BY <1>1 DEF StartCreates, StartPolls, StartGivesUp
<1>2. CASE StartBlocked(i) \/ StartReconciles(i)
  BY <1>2 DEF StartBlocked, StartReconciles
<1>3. CASE StopFinds(i) \/ StopReaps(i) \/ StopReconciles(i) \/ StopRequests(i)
  BY <1>3 DEF StopFinds, StopReaps, StopReconciles, StopRequests
<1>4. CASE StopPolls(i) \/ StopGivesUp(i)
  BY <1>4 DEF StopPolls, RowAnswer, StopGivesUp
<1> QED BY <1>1, <1>2, <1>3, <1>4 DEF WebTier

\* A caller that gives up has just dismissed its intent; no other answer is
\* "givenUp".
LEMMA GivingUpDismisses ==
  ASSUME ClaimInv, WebTypeOK, NEW i \in Intents, WebTier(i), NEW j \in Intents,
         starter'[j] = "givenUp", starter[j] # "givenUp"
  PROVE  Dismissed(j)'
<1>1. j = i /\ StartGivesUp(i)
  BY DEF WebTypeOK, WebTier, StartCreates, StartBlocked, StartReconciles, StartPolls,
         StopFinds, StopReaps, StopReconciles, StopRequests, StopPolls, StopGivesUp,
         StartGivesUp, Answer, Retry, StopGoes
<1>2. CASE RequestStop(i)
  <2>1. StoreTypeOK /\ RequestVoiceSessionStop(i)
    BY <1>2 DEF RequestStop, ClaimInv, TypeOK
  <2>2. CASE intent[i].status = "pending"
    BY <1>1, <2>1, <2>2, RequestStopOp DEF Dismissed
  <2>3. CASE intent[i].status # "pending"
    <3> DEFINE r == [intent[i] EXCEPT !.stopRequested = TRUE]
    <3>1. /\ r \in IntentRecord /\ r.status = intent[i].status /\ r.stopRequested
          /\ intent[i].status \in Held /\ Update(i, r)
      BY <2>1, <2>3 DEF RequestVoiceSessionStop, StoreTypeOK
    <3> HIDE DEF r
    <3>2. intent'[i] = r
      BY <2>1, <3>1, UpdateOne
    <3> QED BY <1>1, <3>1, <3>2 DEF Dismissed
  <2> QED BY <2>2, <2>3
<1>3. CASE intent[i].status \in Terminal /\ UNCHANGED vars
  BY <1>1, <1>3 DEF Dismissed, vars
<1>4. CASE Answer(i, "abandoned")
  BY <1>1, <1>4 DEF Answer, WebTypeOK
<1> QED BY <1>1, <1>2, <1>3, <1>4 DEF StartGivesUp

WebIInv == ClaimInv /\ WebInv

LEMMA WebStepKeeps == WebIInv /\ [WebNext]_allvars => WebIInv'
<1> SUFFICES ASSUME WebIInv, [WebNext]_allvars
             PROVE  WebIInv'
  OBVIOUS
<1>1. [Next]_vars
  <2>1. CASE Plane /\ UNCHANGED web
    BY <2>1 DEF Plane, Next
  <2>2. CASE \E i \in Intents : WebTier(i)
    BY <2>2, WebTierIsPlane
  <2>3. CASE UNCHANGED allvars
    BY <2>3 DEF allvars, vars
  <2> QED BY <2>1, <2>2, <2>3 DEF WebNext
<1>2. ClaimInv'
  BY <1>1, ClaimInvInductive DEF WebIInv
<1>3. \A i \in Intents : Dismissed(i) => Dismissed(i)'
  BY <1>1, PlaneDoesIntentOps, DismissalStays DEF WebIInv, ClaimInv, TypeOK
<1>4. CASE UNCHANGED web
  BY <1>2, <1>3, <1>4 DEF WebIInv, WebInv, WebTypeOK, GivenUpIsCancelled, Dismissed, web
<1>5. ASSUME NEW i \in Intents, WebTier(i)
      PROVE  WebIInv'
  <2>1. WebTypeOK'
    BY <1>5, WebTypes DEF WebIInv, WebInv
  <2>2. ASSUME NEW j \in Intents, starter'[j] = "givenUp"
        PROVE  Dismissed(j)'
    <3>1. CASE starter[j] = "givenUp"
      BY <1>3, <3>1 DEF WebIInv, WebInv, GivenUpIsCancelled, Dismissed
    <3>2. CASE starter[j] # "givenUp"
      BY <1>5, <2>2, <3>2, GivingUpDismisses DEF WebIInv, WebInv
    <3> QED BY <3>1, <3>2
  <2>3. GivenUpIsCancelled'
    BY <2>2 DEF GivenUpIsCancelled, Dismissed
  <2> QED BY <1>2, <2>1, <2>3 DEF WebIInv, WebInv
<1> QED BY <1>4, <1>5 DEF WebNext, allvars, web

-----------------------------------------------------------------------------

\* A Start that gave up left an intent that is over or told to stop, whatever the
\* workers, the reapers and other callers do to it before and after
\* (intentcontrol.go: "a worker booting later does not claim a stale row").
THEOREM GivenUpStaysCancelled == WebSpec => []WebInv
<1>1. WebInit => WebIInv
  BY ClaimInvInit DEF WebInit, WebIInv, WebInv, WebTypeOK, GivenUpIsCancelled
<1>2. WebIInv => WebInv
  BY DEF WebIInv
<1> QED BY <1>1, <1>2, WebStepKeeps, PTL DEF WebSpec

HIDE DEF IntentRecord, IntentStatus, NonTerminal, Held, Terminal
-------------------------------------------------------------------------------
(*************************************************************************)
(* The registry of Discord clients. ClientsInv speaks of the moments     *)
(* between two ensures and is not inductive: RegistryInv says what the   *)
(* ensure in flight has in its hands, step by step, where the Tenant it  *)
(* moves is meanwhile, and which gateways are whose.                     *)
(*************************************************************************)

\* The row of a Tenant in deployment_config.
SettingType == [saved : BOOLEAN, bot : Bots \cup {NoBot}, guild : Guilds \cup {NoGuild}]

\* What a Tenant is bound to.
BoundType == [bot : Bots \cup {NoBot}, guild : Guilds \cup {NoGuild}, failed : BOOLEAN]

\* What an ensure carries from step to step.
EnsureType ==
  [step : EnsureSteps, for : Renters \cup {NoBot}, bot : Bots \cup {NoBot},
   guild : Guilds \cup {NoGuild}, was : BoundType, gateway : Gateways \cup {NoGateway},
   rebuilt : BOOLEAN, todo : SUBSET Guilds]

\* The ensure in flight is one.
EnsureTypeOK == ensure \in EnsureType

\* It works for one Tenant, on one token unless the Tenant only leaves, and closes
\* last; from the client on, the entry is there.
EnsureInHand ==
  /\ ensure.step # "none" => ensure.for \in Renters /\ ~clientsClosed
  /\ ensure.step \notin {"none", "detaching"} => ensure.bot \in Bots
  /\ ensure.step = "detaching" => ensure.was.bot \in Bots /\ ensure.was.bot # ensure.bot
  /\ ensure.step \notin {"none", "building", "storing"} /\ ensure.bot # NoBot
       => ensure.bot \in entries
  /\ ensure.step \in {"putting", "noting"} => ensure.todo # {}
  /\ ensure.step = "noting" => Next1(ensure.todo) \in commands[ensure.bot]

\* A gateway that is up is the client of one entry, or the one being stored; an
\* entry whose client is being built has none.
OneOwner ==
  /\ \A k \in Bots, m \in Bots :
       client[k] # NoGateway /\ client[k] = client[m] => k = m
  /\ \A k \in Bots : client[k] # NoGateway => k \in entries /\ life[client[k]] # "none"
  /\ \A c \in Gateways : life[c] # "none" =>
       (\E k \in Bots : client[k] = c) \/ (ensure.step = "storing" /\ ensure.gateway = c)
  /\ ensure.step \in {"building", "storing"} => client[ensure.bot] = NoGateway
  /\ ensure.step = "storing" =>
       /\ ensure.gateway \in Gateways /\ life[ensure.gateway] # "none"
       /\ \A k \in Bots : client[k] # ensure.gateway

\* The Tenant on the move: where it was until it is detached, then nowhere, or where
\* it stays.
MoverIsWhere ==
  /\ ensure.step \in {"loading", "building", "storing"}
       => bound[ensure.for].bot = ensure.was.bot
  /\ ensure.step \notin {"none", "loading", "building", "storing", "detaching", "binding"}
       =>
       bound[ensure.for].bot = ensure.bot
  /\ ensure.step = "detaching" =>
       /\ ensure.bot = NoBot => bound[ensure.for].bot = NoBot
       /\ \A k \in Bots : ensure.for \in refs[k] <=> k = ensure.was.bot
  /\ ensure.step = "binding" =>
       \A k \in Bots : ensure.for \in refs[k] <=> k = ensure.was.bot /\ k = ensure.bot

\* What is not an entry, and every entry once the registry is closed, is empty.
NoEntryIsEmpty ==
  /\ \A k \in Bots : k \notin entries => refs[k] = {} /\ registered[k] = {}
  /\ clientsClosed => entries = {}

\* A dead gateway's close handler is still to run, or its death fell before the entry had it.
DeathsAreNoticed == \A c \in Gateways : life[c] = "dead" => c \in dying \cup unseen

\* The registry as the ensure in flight may leave it between two of its steps.
RegistryInv ==
  /\ ClientsTypeOK /\ EnsureTypeOK /\ EnsureInHand /\ OneOwner /\ MoverIsWhere
  /\ RefsAreBound /\ BelievedIsThere /\ NoEntryIsEmpty /\ DeathsAreNoticed

USE ClientsAssumption

\* The parts of an ensure have their types.
LEMMA EnsureTyped ==
  ASSUME EnsureTypeOK
  PROVE  /\ NoEnsure \in EnsureType /\ Unbound \in BoundType
         /\ ensure.step \in EnsureSteps /\ ensure.for \in Renters \cup {NoBot}
         /\ ensure.bot \in Bots \cup {NoBot} /\ ensure.guild \in Guilds \cup {NoGuild}
         /\ ensure.was \in BoundType /\ ensure.was.bot \in Bots \cup {NoBot}
         /\ ensure.was.guild \in Guilds \cup {NoGuild}
         /\ ensure.gateway \in Gateways \cup {NoGateway} /\ ensure.rebuilt \in BOOLEAN
         /\ ensure.todo \subseteq Guilds
  BY DEF EnsureTypeOK, EnsureType, BoundType, NoEnsure, Unbound, EnsureSteps

\* Moving an ensure on to its next step changes its step only.
LEMMA EnsureToTyped ==
  ASSUME EnsureTypeOK, NEW s \in EnsureSteps, EnsureTo(s)
  PROVE  /\ EnsureTypeOK' /\ ensure'.step = s /\ ensure'.for = ensure.for
              /\ ensure'.bot = ensure.bot
         /\ ensure'.guild = ensure.guild /\ ensure'.was = ensure.was
              /\ ensure'.todo = ensure.todo
         /\ ensure'.gateway = ensure.gateway /\ ensure'.rebuilt = ensure.rebuilt
  BY DEF EnsureTypeOK, EnsureType, EnsureTo, EnsureSteps

\* An invariant that speaks of the ensure in flight gives what the registry promises: one
\* open gateway to an entry, references that are bound, and no registration made up.
LEMMA OwnersSuffice ==
  ASSUME RegistryInv
  PROVE  ClientsInv
<1> USE DEF RegistryInv
<1>1. NoneLeaks
  <2>1. ASSUME NEW c \in Gateways, life[c] # "none", NEW k \in Bots, client[k] = c
        PROVE  /\ Cardinality(EntryOf(c)) = 1
               /\ ~(ensure.step = "storing" /\ ensure.gateway = c)
    <3>1. EntryOf(c) = {k}
      BY <2>1 DEF EntryOf, OneOwner, ClientsTypeOK
    <3> QED BY <2>1, <3>1, FS_Singleton DEF OneOwner
  <2>2. ASSUME NEW c \in Gateways, \A k \in Bots : client[k] # c
        PROVE  Cardinality(EntryOf(c)) = 0
    <3>1. EntryOf(c) = {}
      BY <2>2 DEF EntryOf, ClientsTypeOK
    <3> QED BY <3>1, FS_EmptySet
  <2>3. \A c \in Gateways : life[c] # "none" =>
          Cardinality(EntryOf(c))
            + (IF ensure.step = "storing" /\ ensure.gateway = c THEN 1 ELSE 0) = 1
    BY <2>1, <2>2 DEF OneOwner
  <2> QED BY <2>3 DEF NoneLeaks, OneOwner, ClientsTypeOK
<1>2. DeathFound
  BY DEF DeathFound, DeathsAreNoticed, ClientsTypeOK
<1> QED BY <1>1, <1>2 DEF ClientsInv

\* Saving or releasing settings writes rows; the registry hears of it by an ensure.
LEMMA SettingsKeep ==
  ASSUME RegistryInv, NEW t \in Renters, SaveDiscordBotToken(t) \/ SaveDiscordGuild(t)
         \/ ReleaseDiscordGuild(t)
  PROVE  RegistryInv'
<1> USE DEF RegistryInv
<1>0. UNCHANGED <<bound, entries, client, refs, registered, clientsClosed, commands, life,
                  dying, unseen, ensure>>
  BY DEF SaveDiscordBotToken, SaveDiscordGuild, ReleaseDiscordGuild, entryVars, gatewayVars
<1>1. ClientsTypeOK'
  <2>1. settings' \in [Renters -> SettingType]
    <3>0. settings \in [Renters -> SettingType]
      BY DEF ClientsTypeOK, SettingType
    <3>1. settings[t] \in SettingType
      BY <3>0
    <3>2. CASE SaveDiscordBotToken(t)
      <4>1. PICK k \in Bots : settings' = [settings EXCEPT ![t].saved = TRUE, ![t].bot = k]
        BY <3>2 DEF SaveDiscordBotToken
      <4>2. settings' = [settings EXCEPT ![t] = [settings[t] EXCEPT !.saved = TRUE,
                                                 !.bot = k]]
        BY <3>0, <4>1
      <4>3. [settings[t] EXCEPT !.saved = TRUE, !.bot = k] \in SettingType
        BY <3>1 DEF SettingType
      <4> QED BY <3>0, <4>2, <4>3
    <3>3. CASE SaveDiscordGuild(t)
      <4>1. asked[t] \in Guilds \cup {NoGuild}
        BY DEF ClientsTypeOK
      <4>2. PICK g \in Guilds :
              settings' = IF Linkable(t, g)
                          THEN [settings EXCEPT ![t].saved = TRUE, ![t].guild = g]
                            ELSE settings
        BY <3>3, <4>1 DEF SaveDiscordGuild
      <4>3. settings' = IF Linkable(t, g)
              THEN [settings EXCEPT ![t] = [settings[t] EXCEPT !.saved = TRUE, !.guild = g]]
              ELSE settings
        BY <3>0, <4>2
      <4>4. [settings[t] EXCEPT !.saved = TRUE, !.guild = g] \in SettingType
        BY <3>1 DEF SettingType
      <4> QED BY <3>0, <4>3, <4>4
    <3>4. CASE ReleaseDiscordGuild(t)
      <4>1. settings' = [settings EXCEPT ![t] = [settings[t] EXCEPT !.guild = NoGuild]]
        BY <3>0, <3>4 DEF ReleaseDiscordGuild
      <4>2. [settings[t] EXCEPT !.guild = NoGuild] \in SettingType
        BY <3>1 DEF SettingType
      <4> QED BY <3>0, <4>1, <4>2
    <3> QED BY <3>2, <3>3, <3>4
  <2>2. asked' \in [Renters -> Guilds \cup {NoGuild}] /\ upsets' \in 0..MaxUpsets
    <3>1. asked \in [Renters -> Guilds \cup {NoGuild}] /\ upsets \in 0..MaxUpsets
      BY DEF ClientsTypeOK
    <3>2. upsets' = upsets \/ (upsets < MaxUpsets /\ upsets' = upsets + 1)
      BY DEF SaveDiscordBotToken, SaveDiscordGuild, ReleaseDiscordGuild, Upset
    <3>3. asked' = asked
          \/ \E g \in Guilds \cup {NoGuild} : asked' = [asked EXCEPT ![t] = g]
      BY DEF SaveDiscordBotToken, SaveDiscordGuild, ReleaseDiscordGuild
    <3> QED BY <3>1, <3>2, <3>3
  <2> QED BY <1>0, <2>1, <2>2 DEF ClientsTypeOK, SettingType
<1>2. EnsureTypeOK'
  BY EnsureTyped, <1>0 DEF EnsureTypeOK, EnsureType, EnsureSteps
<1>3. EnsureInHand'
  BY EnsureTyped, <1>0 DEF EnsureTypeOK, EnsureType, ClientsTypeOK, EnsureInHand
<1>4. OneOwner'
  BY EnsureTyped, <1>0 DEF EnsureTypeOK, EnsureType, ClientsTypeOK, EnsureInHand, OneOwner,
         NoEntryIsEmpty
<1>5. MoverIsWhere' /\ RefsAreBound'
  BY EnsureTyped, <1>0 DEF EnsureTypeOK, EnsureType, ClientsTypeOK, EnsureInHand,
         MoverIsWhere, RefsAreBound, Moving, NoEntryIsEmpty
<1>6. BelievedIsThere'
  BY EnsureTyped, <1>0 DEF EnsureTypeOK, EnsureType, ClientsTypeOK, EnsureInHand,
         BelievedIsThere, Vacated, Leaves, Others, NoEntryIsEmpty
<1>7. NoEntryIsEmpty' /\ DeathsAreNoticed'
  BY EnsureTyped, <1>0 DEF EnsureTypeOK, EnsureType, ClientsTypeOK, EnsureInHand,
         RefsAreBound, NoEntryIsEmpty, DeathsAreNoticed
<1> QED BY <1>1, <1>2, <1>3, <1>4, <1>5, <1>6, <1>7

\* The ensure that takes the lock finds nobody in the middle of a step, and reads the row,
\* or drops what the Tenant was bound to when it has no token any more.
LEMMA EnsureTenantKeeps ==
  ASSUME RegistryInv, NEW t \in Renters, EnsureTenant(t)
  PROVE  RegistryInv'
<1> USE DEF RegistryInv
<1> DEFINE k == BotOf(settings[t])
<1>0. /\ UNCHANGED <<settings, asked, entries, client, refs, registered, clientsClosed,
                     commands,
                     life, dying, unseen, upsets>>
      /\ ensure.step = "none" /\ ~clientsClosed /\ bound[t] \in BoundType
      /\ k \in Bots \cup {NoBot} /\ settings[t].guild \in Guilds \cup {NoGuild}
  <2>1. settings[t] \in SettingType /\ bound[t] \in BoundType
    BY DEF ClientsTypeOK, SettingType, BoundType
  <2>2. k \in Bots \cup {NoBot} /\ settings[t].guild \in Guilds \cup {NoGuild}
    BY <2>1 DEF BotOf, SettingType
  <2> QED BY <2>1, <2>2 DEF EnsureTenant, settingVars, entryVars, gatewayVars
<1>a. \/ bound' = [bound EXCEPT ![t] = Unbound] /\ k = NoBot /\ ensure' = NoEnsure
           /\ bound[t].bot = NoBot
      \/ /\ bound' = [bound EXCEPT ![t] = Unbound] /\ k = NoBot
         /\ ensure' = [NoEnsure EXCEPT !.for = t, !.bot = k, !.guild = settings[t].guild,
                                       !.was = bound[t], !.step = "detaching"]
         /\ bound[t].bot # NoBot
      \/ /\ k # NoBot /\ bound' = bound
         /\ ensure' = [NoEnsure EXCEPT !.for = t, !.bot = k, !.guild = settings[t].guild,
                       !.was = bound[t], !.step = IF Serves(k) THEN "loading"
                         ELSE "building"]
  BY DEF EnsureTenant
<1>b. /\ bound' \in [Renters -> BoundType]
      /\ \A u \in Renters : u # t => bound'[u] = bound[u]
      /\ bound'[t] = IF k = NoBot THEN Unbound ELSE bound[t]
      /\ Unbound \in BoundType /\ Unbound.bot = NoBot
  <2>1. bound \in [Renters -> BoundType]
    BY DEF ClientsTypeOK, BoundType
  <2>2. Unbound \in BoundType /\ Unbound.bot = NoBot
    BY DEF BoundType, Unbound
  <2> QED BY <1>a, <2>1, <2>2
<1>c. /\ ensure' = NoEnsure /\ bound[t].bot = NoBot /\ k = NoBot
      \/ /\ ensure'.for = t /\ ensure'.bot = k /\ ensure'.was = bound[t]
              /\ ensure'.todo = {}
         /\ \/ k = NoBot /\ bound[t].bot # NoBot /\ ensure'.step = "detaching"
            \/ k # NoBot /\ ensure'.step = IF Serves(k) THEN "loading" ELSE "building"
  BY <1>a DEF NoEnsure
<1>d. NoEnsure.step = "none" /\ BoundType = [bot : Bots \cup {NoBot},
                                             guild : Guilds \cup {NoGuild},
                                             failed : BOOLEAN]
  BY DEF NoEnsure, BoundType
<1> HIDE DEF k
<1>e. EnsureTypeOK'
  <2>1. NoEnsure \in EnsureType
    BY EnsureTyped
  <2>2. ASSUME NEW s \in EnsureSteps
        PROVE  [NoEnsure EXCEPT !.for = t, !.bot = k, !.guild = settings[t].guild,
                                !.was = bound[t], !.step = s] \in EnsureType
    BY <1>0, <2>1 DEF EnsureType
  <2>3. "detaching" \in EnsureSteps /\ (IF Serves(k) THEN "loading"
                                        ELSE "building") \in EnsureSteps
    BY DEF EnsureSteps
  <2>4. CASE ensure' = NoEnsure
    BY <2>1, <2>4 DEF EnsureTypeOK
  <2>5. CASE ensure' = [NoEnsure EXCEPT !.for = t, !.bot = k, !.guild = settings[t].guild,
                                        !.was = bound[t], !.step = "detaching"]
    BY <2>2, <2>3, <2>5 DEF EnsureTypeOK
  <2>6. CASE ensure' = [NoEnsure EXCEPT !.for = t, !.bot = k, !.guild = settings[t].guild,
                          !.was = bound[t], !.step = IF Serves(k) THEN "loading"
                            ELSE "building"]
    BY <2>2, <2>3, <2>6 DEF EnsureTypeOK
  <2> QED BY <1>a, <2>4, <2>5, <2>6
<1>1. ClientsTypeOK'
  <2>1. EnsureTypeOK'
    BY <1>e
  <2>2. ensure'.step \in EnsureSteps /\ ensure'.gateway \in Gateways \cup {NoGateway}
    BY <2>1 DEF EnsureTypeOK, EnsureType
  <2> QED BY <1>0, <1>b, <2>2 DEF ClientsTypeOK, BoundType
<1>2. EnsureTypeOK'
  BY <1>e
<1>3. EnsureInHand'
  BY <1>0, <1>c, <1>d DEF EnsureInHand, Serves, ClientsTypeOK
<1>4. OneOwner'
  BY <1>0, <1>c, <1>d DEF OneOwner, Serves, ClientsTypeOK, NoEntryIsEmpty
<1>5. MoverIsWhere' /\ RefsAreBound'
  <2>1. \A j \in Bots : t \in refs[j] <=> bound[t].bot = j
    BY <1>0 DEF RefsAreBound, Moving
  <2>2. MoverIsWhere'
    BY <1>0, <1>b, <1>c, <1>d, <2>1 DEF MoverIsWhere
  <2>3. \A j \in Bots, u \in Renters : u # t => (u \in refs[j] <=> bound'[u].bot = j)
    BY <1>0, <1>b DEF RefsAreBound, Moving
  <2>4. \A j \in Bots : t \in refs[j] <=> bound'[t].bot = j \/ (Moving(t)'
        /\ bound[t].bot = j)
    BY <1>0, <1>b, <1>c, <1>d, <2>1 DEF Moving
  <2>5. RefsAreBound'
    BY <1>0, <1>b, <1>c, <1>d, <2>1, <2>3, <2>4 DEF RefsAreBound, Moving
  <2> QED BY <2>2, <2>5
<1>6. BelievedIsThere'
  BY EnsureTyped, <1>0 DEF EnsureTypeOK, EnsureType, ClientsTypeOK, EnsureInHand,
         BelievedIsThere, Vacated, Leaves, Others, NoEntryIsEmpty
<1>7. NoEntryIsEmpty' /\ DeathsAreNoticed'
  BY EnsureTyped, <1>0 DEF EnsureTypeOK, EnsureType, ClientsTypeOK, EnsureInHand,
         RefsAreBound, NoEntryIsEmpty, DeathsAreNoticed
<1> QED BY <1>1, <1>2, <1>3, <1>4, <1>5, <1>6, <1>7

\* The second load of the entry goes on with its client, or goes to build one.
LEMMA LoadClientKeeps ==
  ASSUME RegistryInv, LoadClient
  PROVE  RegistryInv'
<1> USE DEF RegistryInv
<1>0. /\ UNCHANGED <<settings, asked, bound, entries, client, refs, registered,
                     clientsClosed,
                     commands, life, dying, unseen, upsets>>
      /\ ensure.step = "loading" /\ ensure.bot \in Bots /\ ensure.for \in Renters
  BY EnsureTyped DEF LoadClient, settingVars, entryVars, gatewayVars, EnsureInHand
<1>a. EnsureTypeOK' /\
      \/ ensure' = NoEnsure /\ client[ensure.bot] = NoGateway
      \/ /\ client[ensure.bot] # NoGateway /\ ensure'.step = AfterClient
         /\ ensure'.for = ensure.for /\ ensure'.bot = ensure.bot /\ ensure'.was = ensure.was
         /\ ensure'.guild = ensure.guild /\ ensure'.gateway = client[ensure.bot]
  <2>1. AfterClient \in EnsureSteps /\ client[ensure.bot] \in Gateways \cup {NoGateway}
    BY <1>0 DEF AfterClient, EnsureSteps, ClientsTypeOK
  <2> QED BY <1>0, <2>1, EnsureTyped DEF LoadClient, EnsureTypeOK, EnsureType
<1>b. AfterClient = IF ensure.was.bot # NoBot /\ ensure.was.bot # ensure.bot
      THEN "detaching" ELSE "binding"
  BY DEF AfterClient
<1>c. NoEnsure.step = "none" /\ ensure.was.bot \in Bots \cup {NoBot}
  BY EnsureTyped DEF NoEnsure
<1>1. ClientsTypeOK'
  BY <1>0, <1>a DEF ClientsTypeOK, EnsureTypeOK, EnsureType
<1>2. EnsureTypeOK'
  BY <1>a
<1>3. EnsureInHand'
  BY <1>0, <1>a, <1>b, <1>c DEF EnsureInHand, ClientsTypeOK
<1>4. OneOwner'
  BY <1>0, <1>a, <1>b, <1>c DEF OneOwner
<1>5. MoverIsWhere' /\ RefsAreBound'
  <2>1. \A j \in Bots : ensure.for \in refs[j] <=> j = ensure.was.bot
    BY <1>0, <1>c DEF RefsAreBound, Moving, MoverIsWhere, EnsureInHand
  <2> QED BY <1>0, <1>a, <1>b, <1>c, <2>1 DEF RefsAreBound, Moving, MoverIsWhere,
                 EnsureInHand
<1>6. BelievedIsThere'
  BY <1>0, <1>a, <1>b, <1>c DEF BelievedIsThere
<1>7. NoEntryIsEmpty' /\ DeathsAreNoticed'
  BY <1>0 DEF NoEntryIsEmpty, DeathsAreNoticed
<1> QED BY <1>1, <1>2, <1>3, <1>4, <1>5, <1>6, <1>7

\* A gateway that opens is in the hands of the ensure alone; one that does not is closed.
LEMMA BuildOpenKeeps ==
  ASSUME RegistryInv, BuildOpen
  PROVE  RegistryInv'
<1> USE DEF RegistryInv
<1>0. /\ UNCHANGED <<settings, asked, bound, entries, client, refs, registered,
                     clientsClosed,
                     commands, dying, unseen>>
      /\ ensure.step = "building" /\ ensure.bot \in Bots /\ ensure.for \in Renters
      /\ NoEnsure.step = "none"
  BY EnsureTyped DEF BuildOpen, settingVars, entryVars, gatewayVars, EnsureInHand, NoEnsure
<1>a. EnsureTypeOK' /\ upsets' \in 0..MaxUpsets /\
      \/ ensure' = NoEnsure /\ UNCHANGED life
      \/ \E c \in Gateways :
         /\ life[c] = "none" /\ life' = [life EXCEPT ![c] = "open"]
         /\ ensure'.step = "storing" /\ ensure'.gateway = c
         /\ ensure'.for = ensure.for /\ ensure'.bot = ensure.bot /\ ensure'.was = ensure.was
  <2>1. upsets \in 0..MaxUpsets
    BY DEF ClientsTypeOK
  <2>2. CASE /\ Unused # {} /\ life' = [life EXCEPT ![Fresh] = "open"] /\ UNCHANGED upsets
             /\ ensure' = [ensure EXCEPT !.gateway = Fresh, !.rebuilt = TRUE,
                           !.step = "storing"]
    <3>1. Fresh \in Gateways /\ life[Fresh] = "none"
      BY <2>2 DEF Fresh, Unused
    <3>2. /\ EnsureTypeOK' /\ ensure'.step = "storing" /\ ensure'.gateway = Fresh
          /\ ensure'.for = ensure.for /\ ensure'.bot = ensure.bot
               /\ ensure'.was = ensure.was
      BY <2>2, <3>1 DEF EnsureTypeOK, EnsureType, EnsureSteps
    <3> QED BY <2>1, <2>2, <3>1, <3>2
  <2>3. CASE Upset /\ ensure' = NoEnsure /\ UNCHANGED gatewayVars
    BY <2>1, <2>3, EnsureTyped DEF Upset, gatewayVars, EnsureTypeOK
  <2> QED BY <2>2, <2>3 DEF BuildOpen
<1>1. ClientsTypeOK'
  BY <1>0, <1>a DEF ClientsTypeOK, EnsureTypeOK, EnsureType
<1>2. EnsureTypeOK'
  BY <1>a
<1>3. EnsureInHand'
  BY <1>0, <1>a DEF EnsureInHand
<1>4. OneOwner'
  BY <1>0, <1>a DEF OneOwner, ClientsTypeOK
<1>5. MoverIsWhere' /\ RefsAreBound'
  BY <1>0, <1>a DEF MoverIsWhere, RefsAreBound, Moving
<1>6. BelievedIsThere'
  BY <1>0, <1>a DEF BelievedIsThere
<1>7. NoEntryIsEmpty' /\ DeathsAreNoticed'
  BY <1>0, <1>a DEF NoEntryIsEmpty, DeathsAreNoticed, ClientsTypeOK
<1> QED BY <1>1, <1>2, <1>3, <1>4, <1>5, <1>6, <1>7

\* A built client replaces whatever the entry had, with no registrations.
LEMMA StoreClientKeeps ==
  ASSUME RegistryInv, StoreClient
  PROVE  RegistryInv'
<1> USE DEF RegistryInv
<1> DEFINE k == ensure.bot
<1>0. /\ UNCHANGED <<settings, asked, bound, clientsClosed, commands, life, dying, unseen,
                     upsets>>
      /\ ensure.step = "storing" /\ k \in Bots /\ ensure.for \in Renters
           /\ EnsureTo(AfterClient)
      /\ ensure.was.bot \in Bots \cup {NoBot} /\ ensure.gateway \in Gateways
  BY EnsureTyped DEF StoreClient, settingVars, gatewayVars, EnsureInHand, OneOwner
<1>a. /\ entries' = entries \cup {k} /\ client' = [client EXCEPT ![k] = ensure.gateway]
      /\ refs' = refs /\ registered' = [registered EXCEPT ![k] = {}]
  <2>1. k \notin entries => refs[k] = {}
    BY <1>0 DEF NoEntryIsEmpty
  <2> QED BY <1>0, <2>1 DEF StoreClient, ClientsTypeOK
<1>b. AfterClient = IF ensure.was.bot # NoBot /\ ensure.was.bot # ensure.bot
      THEN "detaching" ELSE "binding"
  BY DEF AfterClient
<1>c. /\ EnsureTypeOK' /\ ensure'.step = AfterClient /\ ensure'.for = ensure.for
      /\ ensure'.bot = k /\ ensure'.was = ensure.was /\ ensure'.gateway = ensure.gateway
  <2>1. AfterClient \in EnsureSteps
    BY DEF AfterClient, EnsureSteps
  <2> QED BY <1>0, <2>1, EnsureToTyped
<1> HIDE DEF k
<1>1. ClientsTypeOK'
  BY <1>0, <1>a, <1>c DEF ClientsTypeOK, EnsureTypeOK, EnsureType
<1>2. EnsureTypeOK'
  BY <1>c
<1>3. EnsureInHand'
  BY <1>0, <1>a, <1>b, <1>c DEF EnsureInHand, ClientsTypeOK, k
<1>4. OneOwner'
  BY <1>0, <1>a, <1>b, <1>c DEF OneOwner, ClientsTypeOK, k
<1>5. MoverIsWhere' /\ RefsAreBound'
  <2>1. \A j \in Bots : ensure.for \in refs[j] <=> j = ensure.was.bot
    BY <1>0 DEF RefsAreBound, Moving, MoverIsWhere, EnsureInHand
  <2>2. MoverIsWhere'
    BY <1>0, <1>a, <1>b, <1>c, <2>1 DEF MoverIsWhere, k
  <2>3. RefsAreBound'
    BY <1>0, <1>a, <1>b, <1>c, <2>1 DEF RefsAreBound, Moving, EnsureInHand, k
  <2> QED BY <2>2, <2>3
<1>6. BelievedIsThere'
  BY <1>0, <1>a, <1>b, <1>c DEF BelievedIsThere, ClientsTypeOK
<1>7. NoEntryIsEmpty' /\ DeathsAreNoticed'
  BY <1>0, <1>a DEF NoEntryIsEmpty, DeathsAreNoticed, ClientsTypeOK, EnsureInHand
<1> QED BY <1>1, <1>2, <1>3, <1>4, <1>5, <1>6, <1>7

\* The last reference takes the client with it, another Tenant's keeps it.
LEMMA DetachKeeps ==
  ASSUME RegistryInv, Detach
  PROVE  RegistryInv'
<1> USE DEF RegistryInv
<1> DEFINE k == ensure.was.bot
<1> DEFINE t == ensure.for
<1>0. /\ UNCHANGED <<settings, asked, bound, clientsClosed, commands, dying, unseen,
                     upsets>>
      /\ ensure.step = "detaching" /\ k \in Bots /\ k # ensure.bot /\ t \in Renters
      /\ ensure.bot \in Bots \cup {NoBot} /\ NoEnsure.step = "none"
      /\ refs' = [refs EXCEPT ![k] = @ \ {t}]
  BY EnsureTyped DEF Detach, settingVars, EnsureInHand, NoEnsure
<1>a. \/ /\ refs[k] \subseteq {t} /\ refs'[k] = {}
         /\ entries' = entries \ {k} /\ client' = [client EXCEPT ![k] = NoGateway]
         /\ registered' = [registered EXCEPT ![k] = {}]
         /\ life' = IF client[k] = NoGateway THEN life
              ELSE [life EXCEPT ![client[k]] = "none"]
      \/ refs'[k] # {} /\ UNCHANGED <<entries, client, registered, life>>
  BY <1>0 DEF Detach, LastRef, Gone, ClientsTypeOK
<1>b. /\ EnsureTypeOK'
      /\ \/ ensure.bot = NoBot /\ ensure' = NoEnsure
         \/ /\ ensure.bot # NoBot /\ ensure'.step = "binding" /\ ensure'.for = t
            /\ ensure'.bot = ensure.bot /\ ensure'.was = ensure.was
  <2>1. CASE ensure.bot = NoBot
    BY <2>1, EnsureTyped DEF Detach, EnsureTypeOK
  <2>2. CASE ensure.bot # NoBot
    <3>1. EnsureTo("binding")
      BY <2>2 DEF Detach, EnsureTo
    <3> QED BY <2>2, <3>1, EnsureToTyped DEF EnsureSteps
  <2> QED BY <2>1, <2>2
<1>c. /\ \A j \in Bots : j # k => refs'[j] = refs[j] /\ (j \in entries' <=> j \in entries)
                               /\ client'[j] = client[j] /\ registered'[j] = registered[j]
      /\ refs'[k] = refs[k] \ {t}
      /\ client[k] \in Gateways \cup {NoGateway}
  BY <1>0, <1>a DEF ClientsTypeOK
<1> HIDE DEF k, t
<1>1. ClientsTypeOK'
  <2>1. refs' \in [Bots -> SUBSET Renters]
    BY <1>0 DEF ClientsTypeOK
  <2>2. entries' \subseteq Bots /\ client' \in [Bots -> Gateways \cup {NoGateway}]
        /\ registered' \in [Bots -> SUBSET Guilds]
    BY <1>0, <1>a DEF ClientsTypeOK
  <2>3. life' \in [Gateways -> {"none", "open", "dead"}]
    BY <1>0, <1>a, <1>c DEF ClientsTypeOK
  <2> QED BY <1>0, <1>b, <2>1, <2>2, <2>3 DEF ClientsTypeOK, EnsureTypeOK, EnsureType
<1>2. EnsureTypeOK'
  BY <1>b
<1>3. EnsureInHand'
  BY <1>0, <1>b, <1>c DEF EnsureInHand, k, t
<1>4. OneOwner'
  <2>1. CASE UNCHANGED <<entries, client, registered, life>>
    BY <1>0, <1>b, <2>1 DEF OneOwner
  <2>2. CASE /\ entries' = entries \ {k} /\ client' = [client EXCEPT ![k] = NoGateway]
             /\ life' = IF client[k] = NoGateway THEN life
                  ELSE [life EXCEPT ![client[k]] = "none"]
    <3>1. client'[k] = NoGateway /\ \A j \in Bots : j # k => client'[j] = client[j]
      BY <1>0, <1>c, <2>2 DEF ClientsTypeOK
    <3>2. \A c \in Gateways : life'[c] = IF c = client[k] THEN "none" ELSE life[c]
      BY <1>c, <2>2 DEF ClientsTypeOK
    <3>3. \A j \in Bots : client[j] \in Gateways \cup {NoGateway}
      BY DEF ClientsTypeOK
    <3> QED BY <1>0, <1>b, <1>c, <3>1, <3>2, <3>3 DEF OneOwner
  <2> QED BY <1>a, <2>1, <2>2
<1>5. MoverIsWhere' /\ RefsAreBound'
  <2>1. \A j \in Bots : t \in refs[j] <=> j = k
    BY <1>0 DEF MoverIsWhere, t, k
  <2>2. \A j \in Bots : t \notin refs'[j]
    BY <1>c, <2>1
  <2>3. MoverIsWhere'
    BY <1>0, <1>b, <1>c, <2>2 DEF MoverIsWhere, t, k
  <2>4. \A j \in Bots, u \in Renters : u # t => (u \in refs'[j] <=> u \in refs[j])
    BY <1>c
  <2>5. \A j \in Bots, u \in Renters : ~Moving(u)' => (u \in refs'[j] <=> bound'[u].bot = j)
    <3> TAKE j \in Bots, u \in Renters
    <3>1. CASE u # t
      BY <1>0, <2>4, <3>1 DEF RefsAreBound, Moving, EnsureInHand, t
    <3>2. CASE u = t
      BY <1>0, <1>b, <2>2, <3>2 DEF MoverIsWhere, Moving, EnsureInHand, t
    <3> QED BY <3>1, <3>2
  <2>6. \A j \in Bots : refs'[j] # {} => j \in entries'
    BY <1>0, <1>a, <1>c DEF RefsAreBound, EnsureInHand
  <2>7. \A j \in Bots : j \in entries' =>
          refs'[j] # {} \/ (ensure'.bot = j /\ ensure'.step \in {"detaching", "binding"})
    BY <1>0, <1>a, <1>b, <1>c DEF RefsAreBound, EnsureInHand
  <2> QED BY <2>3, <2>5, <2>6, <2>7 DEF RefsAreBound
<1>6. BelievedIsThere'
  BY <1>0, <1>a, <1>b DEF BelievedIsThere, ClientsTypeOK
<1>7. NoEntryIsEmpty' /\ DeathsAreNoticed'
  BY <1>0, <1>a, <1>c DEF NoEntryIsEmpty, DeathsAreNoticed, ClientsTypeOK
<1> QED BY <1>1, <1>2, <1>3, <1>4, <1>5, <1>6, <1>7

\* The reference and the Tenant's state are written together.
LEMMA BindKeeps ==
  ASSUME RegistryInv, Bind
  PROVE  RegistryInv'
<1> USE DEF RegistryInv
<1>0. /\ UNCHANGED <<settings, asked, entries, client, registered, clientsClosed, commands,
                     life, dying, unseen, upsets>>
      /\ ensure.step = "binding" /\ ensure.bot \in Bots /\ ensure.for \in Renters
      /\ ensure.bot \in entries /\ ~clientsClosed
  BY EnsureTyped DEF Bind, settingVars, entryVars, gatewayVars, EnsureInHand
<1>a. /\ refs' = [refs EXCEPT ![ensure.bot] = @ \cup {ensure.for}]
      /\ bound' = [bound EXCEPT ![ensure.for] =
                     [bot |-> ensure.bot, guild |-> ensure.guild, failed |-> FALSE]]
      /\ bound'[ensure.for].bot = ensure.bot
      /\ \A u \in Renters : u # ensure.for => bound'[u] = bound[u]
  BY <1>0 DEF Bind, ClientsTypeOK
<1>b. /\ EnsureTypeOK' /\ ensure'.step \in {"listing", "clearing"}
      /\ ensure'.for = ensure.for /\ ensure'.bot = ensure.bot
  BY <1>0, EnsureToTyped DEF Bind, EnsureSteps
<1>1. ClientsTypeOK'
  <2>1. bound' \in [Renters -> BoundType]
    <3>1. [bot |-> ensure.bot, guild |-> ensure.guild, failed |-> FALSE] \in BoundType
      BY EnsureTyped DEF BoundType
    <3>2. bound \in [Renters -> BoundType]
      BY DEF ClientsTypeOK, BoundType
    <3> QED BY <1>a, <3>1, <3>2
  <2>2. refs' \in [Bots -> SUBSET Renters]
    BY <1>0, <1>a DEF ClientsTypeOK
  <2> QED BY <1>0, <1>b, <2>1, <2>2 DEF ClientsTypeOK, BoundType, EnsureTypeOK, EnsureType
<1>2. EnsureTypeOK'
  BY <1>b
<1>3. EnsureInHand'
  BY <1>0, <1>b DEF EnsureInHand
<1>4. OneOwner'
  BY <1>0, <1>b DEF OneOwner
<1>5. MoverIsWhere' /\ RefsAreBound'
  <2>1. \A j \in Bots : ensure.for \in refs'[j] <=> j = ensure.bot
    BY <1>0, <1>a DEF MoverIsWhere, ClientsTypeOK
  <2>2. MoverIsWhere'
    BY <1>a, <1>b DEF MoverIsWhere
  <2>3. \A j \in Bots : refs'[j] = IF j = ensure.bot THEN refs[j] \cup {ensure.for}
        ELSE refs[j]
    BY <1>0, <1>a DEF ClientsTypeOK
  <2> QED BY <1>0, <1>a, <1>b, <2>1, <2>2, <2>3 DEF RefsAreBound, Moving
<1>6. BelievedIsThere'
  BY <1>0, <1>b DEF BelievedIsThere
<1>7. NoEntryIsEmpty' /\ DeathsAreNoticed'
  BY <1>0, <1>a DEF NoEntryIsEmpty, DeathsAreNoticed, ClientsTypeOK
<1> QED BY <1>1, <1>2, <1>3, <1>4, <1>5, <1>6, <1>7

\* Clearing the Guild a Tenant left takes away what Discord had registered there, before the
\* entry forgets it.
LEMMA ClearOldGuildKeeps ==
  ASSUME RegistryInv, ClearOldGuild
  PROVE  RegistryInv'
<1> USE DEF RegistryInv
<1>0. /\ UNCHANGED <<settings, asked, bound, entries, client, refs, registered,
                     clientsClosed, life, dying, unseen>>
      /\ ensure.step = "clearing" /\ ensure.bot \in Bots /\ ensure.for \in Renters
      /\ ensure.bot \in entries /\ ~clientsClosed
  BY EnsureTyped DEF ClearOldGuild, settingVars, entryVars, gatewayVars, EnsureInHand
<1>a. /\ EnsureTypeOK' /\ ensure'.step = "cleared" /\ ensure'.for = ensure.for
      /\ ensure'.bot = ensure.bot /\ ensure'.guild = ensure.guild
           /\ ensure'.was = ensure.was
  BY <1>0, EnsureToTyped DEF ClearOldGuild, EnsureSteps
<1>b. Vacated' = Vacated
  BY <1>0, <1>a DEF Vacated, Leaves, Others
<1>1. ClientsTypeOK'
  <2>1. commands' \in [Bots -> SUBSET Guilds] /\ upsets' \in 0..MaxUpsets
    BY DEF ClearOldGuild, Upset, ClientsTypeOK
  <2> QED BY <1>0, <1>a, <2>1 DEF ClientsTypeOK, EnsureTypeOK, EnsureType
<1>2. EnsureTypeOK'
  BY <1>a
<1>3. EnsureInHand'
  BY <1>0, <1>a DEF EnsureInHand
<1>4. OneOwner'
  BY <1>0, <1>a DEF OneOwner
<1>5. MoverIsWhere' /\ RefsAreBound'
  BY <1>0, <1>a DEF MoverIsWhere, RefsAreBound, Moving
<1>6. BelievedIsThere'
  <2>1. commands' \in {commands, [commands EXCEPT ![ensure.bot] = @ \ Vacated]}
    BY DEF ClearOldGuild
  <2> QED BY <1>0, <1>a, <1>b, <2>1 DEF BelievedIsThere, ClientsTypeOK
<1>7. NoEntryIsEmpty' /\ DeathsAreNoticed'
  BY <1>0 DEF NoEntryIsEmpty, DeathsAreNoticed
<1> QED BY <1>1, <1>2, <1>3, <1>4, <1>5, <1>6, <1>7

\* What was cleared, or could not be, is forgotten by the entry.
LEMMA NoteClearedKeeps ==
  ASSUME RegistryInv, NoteCleared
  PROVE  RegistryInv'
<1> USE DEF RegistryInv
<1>0. /\ UNCHANGED <<settings, asked, bound, entries, client, refs, clientsClosed,
                     commands, life, dying, unseen, upsets>>
      /\ ensure.step = "cleared" /\ ensure.bot \in Bots /\ ensure.for \in Renters
      /\ ensure.bot \in entries /\ ~clientsClosed
  BY EnsureTyped DEF NoteCleared, settingVars, entryVars, gatewayVars, EnsureInHand
<1>a. /\ EnsureTypeOK' /\ ensure'.step = "listing" /\ ensure'.for = ensure.for
      /\ ensure'.bot = ensure.bot /\ ensure'.guild = ensure.guild
           /\ ensure'.was = ensure.was
  BY <1>0, EnsureToTyped DEF NoteCleared, EnsureSteps
<1>b. registered' = [registered EXCEPT ![ensure.bot] = @ \ Vacated]
  BY DEF NoteCleared, Uncleared
<1>1. ClientsTypeOK'
  BY <1>0, <1>a, <1>b DEF ClientsTypeOK, EnsureTypeOK, EnsureType
<1>2. EnsureTypeOK'
  BY <1>a
<1>3. EnsureInHand'
  BY <1>0, <1>a DEF EnsureInHand
<1>4. OneOwner'
  BY <1>0, <1>a DEF OneOwner
<1>5. MoverIsWhere' /\ RefsAreBound'
  BY <1>0, <1>a DEF MoverIsWhere, RefsAreBound, Moving
<1>6. BelievedIsThere'
  BY <1>0, <1>a, <1>b DEF BelievedIsThere, ClientsTypeOK
<1>7. NoEntryIsEmpty' /\ DeathsAreNoticed'
  BY <1>0, <1>b DEF NoEntryIsEmpty, DeathsAreNoticed, ClientsTypeOK
<1> QED BY <1>1, <1>2, <1>3, <1>4, <1>5, <1>6, <1>7

\* The Guilds to register are read off the entry and its Tenants.
LEMMA ListKeeps ==
  ASSUME RegistryInv, List
  PROVE  RegistryInv'
<1> USE DEF RegistryInv
<1>0. /\ UNCHANGED <<settings, asked, bound, entries, client, refs, registered,
                     clientsClosed, commands, life, dying, unseen, upsets>>
      /\ ensure.step = "listing" /\ ensure.bot \in Bots /\ ensure.for \in Renters
      /\ ensure.bot \in entries /\ ~clientsClosed
  BY EnsureTyped DEF List, settingVars, entryVars, gatewayVars, EnsureInHand
<1>a. /\ EnsureTypeOK'
      /\ \/ ensure' = NoEnsure /\ NoEnsure.step = "none"
         \/ /\ ensure'.step = "putting" /\ ensure'.todo # {} /\ ensure'.for = ensure.for
            /\ ensure'.bot = ensure.bot /\ ensure'.guild = ensure.guild
                 /\ ensure'.was = ensure.was
  <2>1. ToPut \subseteq Guilds
    <3>1. Others(ensure.bot, ensure.for) \subseteq Guilds
      BY <1>0 DEF Others, ClientsTypeOK
    <3> QED BY <3>1, EnsureTyped DEF ToPut
  <2> QED BY <1>0, <2>1, EnsureTyped DEF List, Left, EnsureTypeOK, EnsureType, EnsureSteps,
                 NoEnsure
<1>1. ClientsTypeOK'
  BY <1>0, <1>a DEF ClientsTypeOK, EnsureTypeOK, EnsureType
<1>2. EnsureTypeOK'
  BY <1>a
<1>3. EnsureInHand'
  BY <1>0, <1>a DEF EnsureInHand
<1>4. OneOwner'
  BY <1>0, <1>a DEF OneOwner
<1>5. MoverIsWhere' /\ RefsAreBound'
  BY <1>0, <1>a DEF MoverIsWhere, RefsAreBound, Moving
<1>6. BelievedIsThere'
  BY <1>0, <1>a DEF BelievedIsThere
<1>7. NoEntryIsEmpty' /\ DeathsAreNoticed'
  BY <1>0 DEF NoEntryIsEmpty, DeathsAreNoticed
<1> QED BY <1>1, <1>2, <1>3, <1>4, <1>5, <1>6, <1>7

\* A PUT registers at Discord before the entry believes it.
LEMMA PutCommandsKeeps ==
  ASSUME RegistryInv, PutCommands
  PROVE  RegistryInv'
<1> USE DEF RegistryInv
<1>0. /\ UNCHANGED <<settings, asked, bound, entries, client, refs, registered,
                     clientsClosed, life, dying, unseen>>
      /\ ensure.step = "putting" /\ ensure.bot \in Bots /\ ensure.for \in Renters
      /\ ensure.bot \in entries /\ ~clientsClosed
  BY EnsureTyped DEF PutCommands, settingVars, entryVars, gatewayVars, EnsureInHand
<1>a. /\ EnsureTypeOK'
      /\ \/ ensure' = NoEnsure /\ NoEnsure.step = "none"
         \/ /\ ensure'.step = "noting" /\ ensure'.todo = ensure.todo
            /\ commands' = [commands EXCEPT ![ensure.bot] = @ \cup {Next1(ensure.todo)}]
                 /\ ensure'.for = ensure.for
            /\ ensure'.bot = ensure.bot /\ ensure'.guild = ensure.guild
                 /\ ensure'.was = ensure.was
  BY <1>0, EnsureTyped, EnsureToTyped DEF PutCommands, EnsureTypeOK, EnsureSteps, NoEnsure
<1>b. /\ ensure.todo # {} /\ Next1(ensure.todo) \in ensure.todo
           /\ ensure.todo \subseteq Guilds
      /\ commands' \in [Bots -> SUBSET Guilds] /\ upsets' \in 0..MaxUpsets
      /\ \A k \in Bots : commands[k] \subseteq commands'[k]
  <2>1. /\ ensure.todo # {} /\ Next1(ensure.todo) \in ensure.todo
             /\ ensure.todo \subseteq Guilds
    BY <1>0, EnsureTyped DEF EnsureInHand, Next1
  <2>2. Next1(ensure.todo) \in Guilds
    BY <2>1
  <2>3. commands' = commands
        \/ commands' = [commands EXCEPT ![ensure.bot] = @ \cup {Next1(ensure.todo)}]
    BY DEF PutCommands
  <2>4. commands' \in [Bots -> SUBSET Guilds]
        /\ \A k \in Bots : commands[k] \subseteq commands'[k]
    <3>1. commands \in [Bots -> SUBSET Guilds]
      BY DEF ClientsTypeOK
    <3> QED BY <1>0, <2>2, <2>3, <3>1
  <2>5. upsets' \in 0..MaxUpsets
    BY DEF PutCommands, Upset, ClientsTypeOK
  <2> QED BY <2>1, <2>4, <2>5
<1>1. ClientsTypeOK'
  BY <1>0, <1>a, <1>b DEF ClientsTypeOK, EnsureTypeOK, EnsureType
<1>2. EnsureTypeOK'
  BY <1>a
<1>3. EnsureInHand'
  BY <1>0, <1>a, <1>b DEF EnsureInHand, ClientsTypeOK
<1>4. OneOwner'
  BY <1>0, <1>a DEF OneOwner
<1>5. MoverIsWhere' /\ RefsAreBound'
  BY <1>0, <1>a DEF MoverIsWhere, RefsAreBound, Moving
<1>6. BelievedIsThere'
  BY <1>0, <1>a, <1>b DEF BelievedIsThere
<1>7. NoEntryIsEmpty' /\ DeathsAreNoticed'
  BY <1>0 DEF NoEntryIsEmpty, DeathsAreNoticed
<1> QED BY <1>1, <1>2, <1>3, <1>4, <1>5, <1>6, <1>7

\* What has been PUT is noted.
LEMMA NotePutKeeps ==
  ASSUME RegistryInv, NotePut
  PROVE  RegistryInv'
<1> USE DEF RegistryInv
<1>0. /\ UNCHANGED <<settings, asked, bound, entries, client, refs, clientsClosed,
                     commands, life, dying, unseen, upsets>>
      /\ ensure.step = "noting" /\ ensure.bot \in Bots /\ ensure.for \in Renters
      /\ ensure.bot \in entries /\ ~clientsClosed
  BY EnsureTyped DEF NotePut, settingVars, entryVars, gatewayVars, EnsureInHand
<1>a. /\ EnsureTypeOK'
      /\ \/ ensure' = NoEnsure /\ NoEnsure.step = "none"
         \/ /\ ensure'.step = "putting" /\ ensure'.todo # {} /\ ensure'.for = ensure.for
            /\ ensure'.bot = ensure.bot /\ ensure'.guild = ensure.guild
                 /\ ensure'.was = ensure.was
  BY <1>0, EnsureTyped DEF NotePut, Left, EnsureTypeOK, EnsureType, EnsureSteps, NoEnsure
<1>b. /\ registered' = [registered EXCEPT ![ensure.bot] = @ \cup {Next1(ensure.todo)}]
      /\ Next1(ensure.todo) \in commands[ensure.bot] /\ Next1(ensure.todo) \in Guilds
  BY <1>0, EnsureTyped DEF NotePut, EnsureInHand, ClientsTypeOK
<1>1. ClientsTypeOK'
  BY <1>0, <1>a, <1>b DEF ClientsTypeOK, EnsureTypeOK, EnsureType
<1>2. EnsureTypeOK'
  BY <1>a
<1>3. EnsureInHand'
  BY <1>0, <1>a DEF EnsureInHand
<1>4. OneOwner'
  BY <1>0, <1>a DEF OneOwner
<1>5. MoverIsWhere' /\ RefsAreBound'
  BY <1>0, <1>a DEF MoverIsWhere, RefsAreBound, Moving
<1>6. BelievedIsThere'
  BY <1>0, <1>a, <1>b DEF BelievedIsThere, ClientsTypeOK
<1>7. NoEntryIsEmpty' /\ DeathsAreNoticed'
  BY <1>0, <1>b DEF NoEntryIsEmpty, DeathsAreNoticed, ClientsTypeOK
<1> QED BY <1>1, <1>2, <1>3, <1>4, <1>5, <1>6, <1>7

\* Close waits for the ensure in flight and leaves no entry and no gateway.
LEMMA CloseClientsKeeps ==
  ASSUME RegistryInv, CloseClients
  PROVE  RegistryInv'
<1> USE DEF RegistryInv
<1>0. /\ UNCHANGED <<settings, asked, bound, commands, dying, unseen, ensure, upsets>>
      /\ ensure.step = "none" /\ clientsClosed' = TRUE
      /\ entries' = {} /\ client' = [k \in Bots |-> NoGateway]
      /\ refs' = [k \in Bots |-> {}] /\ registered' = [k \in Bots |-> {}]
      /\ life' = [c \in Gateways |-> IF EntryOf(c) # {} THEN "none" ELSE life[c]]
  BY DEF CloseClients, settingVars
<1>a. \A c \in Gateways : life'[c] = "none"
  BY <1>0 DEF OneOwner, EntryOf, ClientsTypeOK
<1>1. ClientsTypeOK'
  BY <1>0 DEF ClientsTypeOK
<1>2. EnsureTypeOK'
  BY <1>0 DEF EnsureTypeOK
<1>3. EnsureInHand'
  BY <1>0 DEF EnsureInHand
<1>4. OneOwner'
  BY <1>0, <1>a DEF OneOwner
<1>5. MoverIsWhere' /\ RefsAreBound'
  BY <1>0 DEF MoverIsWhere, RefsAreBound
<1>6. BelievedIsThere'
  BY <1>0 DEF BelievedIsThere
<1>7. NoEntryIsEmpty' /\ DeathsAreNoticed'
  BY <1>0, <1>a DEF NoEntryIsEmpty, DeathsAreNoticed
<1> QED BY <1>1, <1>2, <1>3, <1>4, <1>5, <1>6, <1>7

\* A gateway that dies while its entry has it will be found by its close handler.
LEMMA GatewayDiesKeeps ==
  ASSUME RegistryInv, NEW c \in Gateways, GatewayDies(c)
  PROVE  RegistryInv'
<1> USE DEF RegistryInv
<1>1. ClientsTypeOK'
  BY EnsureTyped DEF ClientsTypeOK, GatewayDies, Upset, settingVars, entryVars, gatewayVars
<1>2. EnsureTypeOK'
  BY EnsureTyped DEF EnsureTypeOK, EnsureType, EnsureSteps, GatewayDies, Upset,
         settingVars, entryVars, gatewayVars
<1>3. EnsureInHand'
  BY EnsureTyped DEF EnsureTypeOK, EnsureType, ClientsTypeOK, EnsureInHand, GatewayDies,
         Upset, settingVars, entryVars, gatewayVars
<1>4. OneOwner'
  BY EnsureTyped DEF EnsureTypeOK, EnsureType, ClientsTypeOK, EnsureInHand, OneOwner,
         NoEntryIsEmpty, GatewayDies, Upset, settingVars, entryVars, gatewayVars
<1>5. MoverIsWhere' /\ RefsAreBound'
  BY EnsureTyped DEF EnsureTypeOK, EnsureType, ClientsTypeOK, EnsureInHand, MoverIsWhere,
         RefsAreBound, Moving, NoEntryIsEmpty, GatewayDies, Upset, settingVars, entryVars,
         gatewayVars
<1>6. BelievedIsThere'
  BY EnsureTyped DEF EnsureTypeOK, EnsureType, ClientsTypeOK, EnsureInHand,
         BelievedIsThere, Vacated, Leaves, Others, NoEntryIsEmpty, GatewayDies, Upset,
         settingVars, entryVars, gatewayVars
<1>7. NoEntryIsEmpty' /\ DeathsAreNoticed'
  BY EnsureTyped DEF EnsureTypeOK, EnsureType, ClientsTypeOK, EnsureInHand, RefsAreBound,
         NoEntryIsEmpty, DeathsAreNoticed, GatewayDies, Upset, settingVars, entryVars,
         gatewayVars
<1> QED BY <1>1, <1>2, <1>3, <1>4, <1>5, <1>6, <1>7

\* A close handler drops the client only if it is still the entry's.
LEMMA InvalidateKeeps ==
  ASSUME RegistryInv, NEW c \in Gateways, Invalidate(c)
  PROVE  RegistryInv'
<1> USE DEF RegistryInv
<1>0. /\ UNCHANGED <<settings, asked, entries, refs, clientsClosed, commands, ensure,
                     upsets>>
      /\ c \in dying /\ dying' = dying \ {c}
  BY DEF Invalidate, settingVars
<1>a. CASE /\ EntryOf(c) = {}
           /\ unseen' = IF life[c] = "dead" THEN unseen \cup {c} ELSE unseen
           /\ UNCHANGED <<bound, client, registered, life>>
  <2>1. ClientsTypeOK' /\ EnsureTypeOK'
    BY <1>0, <1>a DEF ClientsTypeOK, EnsureTypeOK
  <2>2. EnsureInHand' /\ OneOwner' /\ MoverIsWhere' /\ RefsAreBound' /\ NoEntryIsEmpty'
    BY <1>0, <1>a DEF EnsureInHand, OneOwner, MoverIsWhere, RefsAreBound, Moving,
           NoEntryIsEmpty
  <2>3. BelievedIsThere'
    BY <1>0, <1>a DEF BelievedIsThere, Vacated, Leaves, Others
  <2>4. DeathsAreNoticed'
    BY <1>0, <1>a DEF DeathsAreNoticed
  <2> QED BY <2>1, <2>2, <2>3, <2>4
<1> SUFFICES ASSUME EntryOf(c) # {} PROVE RegistryInv'
  BY <1>a DEF Invalidate
<1> DEFINE k == CHOOSE j \in Bots : client[j] = c
<1>b. k \in Bots /\ client[k] = c /\ EntryOf(c) = {k} /\ k \in entries
  BY DEF EntryOf, OneOwner, ClientsTypeOK
<1> HIDE DEF k
<1>c. /\ client' = [client EXCEPT ![k] = NoGateway]
           /\ registered' = [registered EXCEPT ![k] = {}]
      /\ life' = [life EXCEPT ![c] = "none"] /\ UNCHANGED unseen
  <2>1. life' = [life EXCEPT ![c] = "none"]
    BY <1>b DEF Invalidate, Gone
  <2> QED BY <1>b, <2>1 DEF Invalidate, ClientsTypeOK
<1>d. PICK fatal \in BOOLEAN : bound' = [t \in Renters |->
        IF t \in refs[k] THEN [bound[t] EXCEPT !.failed = fatal \/ @] ELSE bound[t]]
  BY <1>b DEF Invalidate
<1>e. /\ bound' \in [Renters -> BoundType]
      /\ \A t \in Renters : bound'[t].bot = bound[t].bot /\ bound'[t].guild = bound[t].guild
  <2>1. bound \in [Renters -> BoundType]
    BY DEF ClientsTypeOK, BoundType
  <2>2. \A b \in BoundType : LET f == [b EXCEPT !.failed = fatal \/ @] IN
          f \in BoundType /\ f.bot = b.bot /\ f.guild = b.guild
    BY DEF BoundType
  <2> QED BY <1>d, <2>1, <2>2
<1>1. ClientsTypeOK'
  BY <1>0, <1>b, <1>c, <1>e DEF ClientsTypeOK, BoundType
<1>2. EnsureTypeOK'
  BY <1>0 DEF EnsureTypeOK
<1>3. EnsureInHand'
  BY <1>0 DEF EnsureInHand
<1>4. OneOwner'
  <2>1. \A j \in Bots : client'[j] = IF j = k THEN NoGateway ELSE client[j]
    BY <1>b, <1>c DEF ClientsTypeOK
  <2>2. \A d \in Gateways : life'[d] = IF d = c THEN "none" ELSE life[d]
    BY <1>c DEF ClientsTypeOK
  <2>3. \A j \in Bots : client[j] \in Gateways \cup {NoGateway}
    BY DEF ClientsTypeOK
  <2> QED BY <1>0, <1>b, <2>1, <2>2, <2>3, EnsureTyped DEF OneOwner, EnsureInHand
<1>5. MoverIsWhere' /\ RefsAreBound'
  BY <1>0, <1>e DEF MoverIsWhere, RefsAreBound, Moving, EnsureInHand
<1>6. BelievedIsThere'
  <2>1. ensure.step = "cleared" => Vacated' = Vacated
    <3>1. ensure.bot \in Bots => Others(ensure.bot, ensure.for)' = Others(ensure.bot,
          ensure.for)
      BY <1>0, <1>e DEF Others, ClientsTypeOK
    <3> QED BY <1>0, <3>1 DEF Vacated, Leaves, EnsureInHand
  <2>2. \A j \in Bots : registered'[j] = IF j = k THEN {} ELSE registered[j]
    BY <1>c DEF ClientsTypeOK
  <2> QED BY <1>0, <2>1, <2>2 DEF BelievedIsThere
<1>7. NoEntryIsEmpty' /\ DeathsAreNoticed'
  BY <1>0, <1>c DEF NoEntryIsEmpty, DeathsAreNoticed, ClientsTypeOK
<1> QED BY <1>1, <1>2, <1>3, <1>4, <1>5, <1>6, <1>7

\* A step that changes nothing of the registry keeps it.
LEMMA ClientsStutter ==
  ASSUME RegistryInv, UNCHANGED clientVars
  PROVE  RegistryInv'
<1> USE DEF RegistryInv
<1>1. ClientsTypeOK'
  BY EnsureTyped DEF ClientsTypeOK, clientVars, settingVars, entryVars, gatewayVars
<1>2. EnsureTypeOK'
  BY EnsureTyped DEF EnsureTypeOK, EnsureType, EnsureSteps, clientVars, settingVars,
         entryVars, gatewayVars
<1>3. EnsureInHand'
  BY EnsureTyped DEF EnsureTypeOK, EnsureType, ClientsTypeOK, EnsureInHand, clientVars,
         settingVars, entryVars, gatewayVars
<1>4. OneOwner'
  BY EnsureTyped DEF EnsureTypeOK, EnsureType, ClientsTypeOK, EnsureInHand, OneOwner,
         NoEntryIsEmpty, clientVars, settingVars, entryVars, gatewayVars
<1>5. MoverIsWhere' /\ RefsAreBound'
  BY EnsureTyped DEF EnsureTypeOK, EnsureType, ClientsTypeOK, EnsureInHand, MoverIsWhere,
         RefsAreBound, Moving, NoEntryIsEmpty, clientVars, settingVars, entryVars,
         gatewayVars
<1>6. BelievedIsThere'
  BY EnsureTyped DEF EnsureTypeOK, EnsureType, ClientsTypeOK, EnsureInHand,
         BelievedIsThere, Vacated, Leaves, Others, NoEntryIsEmpty, clientVars, settingVars,
         entryVars, gatewayVars
<1>7. NoEntryIsEmpty' /\ DeathsAreNoticed'
  BY EnsureTyped DEF EnsureTypeOK, EnsureType, ClientsTypeOK, EnsureInHand, RefsAreBound,
         NoEntryIsEmpty, DeathsAreNoticed, clientVars, settingVars, entryVars, gatewayVars
<1> QED BY <1>1, <1>2, <1>3, <1>4, <1>5, <1>6, <1>7

\* The registry's invariant holds in every state of every behaviour: at every step of an
\* ensure, whatever is saved, fails or dies meanwhile (presence/clients.go).
THEOREM RegistryKept == ClientsSpec => []RegistryInv
<1>1. ClientsInit => RegistryInv
  <2> SUFFICES ASSUME ClientsInit PROVE RegistryInv
    OBVIOUS
  <2>1. ClientsTypeOK
    <3>1. settings \in [Renters -> SettingType]
      BY DEF ClientsInit, NoRow, SettingType
    <3>2. bound \in [Renters -> BoundType] /\ ensure.step \in EnsureSteps
          /\ ensure.gateway \in Gateways \cup {NoGateway}
      BY DEF ClientsInit, BoundType, Unbound, NoEnsure, EnsureSteps
    <3>3. /\ asked \in [Renters -> Guilds \cup {NoGuild}]
          /\ entries \subseteq Bots /\ client \in [Bots -> Gateways \cup {NoGateway}]
          /\ refs \in [Bots -> SUBSET Renters] /\ registered \in [Bots -> SUBSET Guilds]
          /\ commands \in [Bots -> SUBSET Guilds]
      BY DEF ClientsInit
    <3>4. /\ life \in [Gateways -> {"none", "open", "dead"}]
          /\ dying \subseteq Gateways /\ unseen \subseteq Gateways
               /\ upsets \in 0..MaxUpsets
      <4>1. life = [c \in Gateways |-> "none"] /\ dying = {} /\ unseen = {} /\ upsets = 0
        BY DEF ClientsInit
      <4>2. 0 \in 0..MaxUpsets
        OBVIOUS
      <4> QED BY <4>1, <4>2
    <3> QED BY <3>1, <3>2, <3>3, <3>4 DEF ClientsTypeOK, SettingType, BoundType
  <2>2. EnsureTypeOK
    BY DEF ClientsInit, EnsureTypeOK, EnsureType, BoundType, NoEnsure, Unbound, EnsureSteps
  <2>3. ensure.step = "none" /\ \A t \in Renters : bound[t].bot = NoBot
    BY DEF ClientsInit, NoEnsure, Unbound
  <2> QED BY <2>1, <2>2, <2>3 DEF ClientsInit, RegistryInv, EnsureInHand, OneOwner,
                 MoverIsWhere,
             RefsAreBound, BelievedIsThere, NoEntryIsEmpty, DeathsAreNoticed
<1>2. RegistryInv /\ [ClientsNext]_clientVars => RegistryInv'
  BY SettingsKeep, EnsureTenantKeeps, LoadClientKeeps, BuildOpenKeeps, StoreClientKeeps,
       DetachKeeps,
     BindKeeps, ClearOldGuildKeeps, NoteClearedKeeps, ListKeeps, PutCommandsKeeps,
       NotePutKeeps,
     CloseClientsKeeps, GatewayDiesKeeps, InvalidateKeeps, ClientsStutter
  DEF ClientsNext, EnsureStep
<1> QED BY <1>1, <1>2, PTL DEF ClientsSpec

\* No gateway leaks and no entry hands out a closed one, an entry lives exactly as long as a
\* Tenant refers to it, and what it believes is registered is (#483, #489), for any number
\* of Tenants, Bots and Guilds.
THEOREM ClientsSafe == ClientsSpec => []ClientsInv
<1> QED BY RegistryKept, OwnersSuffice, PTL
===============================================================================
