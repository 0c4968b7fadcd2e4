-------------------------- MODULE PresenceElector --------------------------
(***************************************************************************)
(* The election of the Voice Instance that dispatches interactions: the    *)
(* singleton row presence_owner (internal/storage/presenceowner.go) and an *)
(* OwnerElector per instance (internal/presence/elector.go), in discrete   *)
(* time.                                                                   *)
(*                                                                         *)
(* An instance's loop runs when its tick is due and a call ends by its     *)
(* timeout: TimePasses lets neither be late.  An upsert the caller gave up *)
(* on may still be executed by the server.  Ages are capped just past      *)
(* Expiry, beyond which nothing tells them apart.                          *)
(***************************************************************************)
EXTENDS Integers, FiniteSets

CONSTANTS
  Instances, NoOwner,
  Interval,      \* OwnerElectorConfig.Interval
  Expiry,        \* OwnerElectorConfig.Expiry
  OpTimeout,     \* opTimeout: min(Interval, 3s)
  MaxMishaps     \* bound: failed calls, crashes and shutdowns

ASSUME ElectorAssumption ==
  /\ Interval \in Nat \ {0} /\ OpTimeout \in 1..Interval /\ Expiry \in Nat
  /\ Interval + OpTimeout < Expiry \* warnElectorCadence
  /\ MaxMishaps \in Nat /\ NoOwner \notin Instances

VARIABLES
  owner, beat,   \* instance_id, and the age of heartbeat_at
  ePc,           \* where an elector stands
  current,       \* OwnerElector.current: the Registry is active
  renewed,       \* the time since lastRenew
  tick,          \* the time since the ticker fired
  call,          \* the age of the call in flight
  late,          \* instances with an upsert they gave up on in flight
  mishaps

row == <<owner, beat>>
clocks == <<renewed, tick, call>>
electorVars == <<owner, beat, ePc, current, renewed, tick, call, late, mishaps>>

Old == Expiry + 1    \* what every age is capped at
Older(age) == IF age = Old THEN Old ELSE age + 1

ElectorTypeOK ==
  /\ owner \in Instances \cup {NoOwner} /\ beat \in 0..Old
  /\ ePc \in [Instances -> {"waiting", "calling", "won", "lost", "releasing", "down"}]
  /\ current \in [Instances -> BOOLEAN]
  /\ renewed \in [Instances -> 0..Old]
  /\ tick \in [Instances -> 0..Interval] /\ call \in [Instances -> 0..OpTimeout]
  /\ late \subseteq Instances /\ mishaps \in 0..MaxMishaps

\* Run reconciles at once: the first tick is due.
ElectorInit ==
  /\ owner = NoOwner /\ beat = Old
  /\ ePc = [i \in Instances |-> "waiting"] /\ current = [i \in Instances |-> FALSE]
  /\ renewed = [i \in Instances |-> Old] /\ call = [i \in Instances |-> 0]
  /\ tick = [i \in Instances |-> Interval] /\ late = {} /\ mishaps = 0

-----------------------------------------------------------------------------
Calling(i) == ePc[i] \in {"calling", "won", "lost"}
Prompt(i) ==
  /\ ePc[i] = "waiting" => tick[i] < Interval
  /\ Calling(i) => call[i] < OpTimeout

TimePasses ==
  /\ \A i \in Instances : Prompt(i)
  /\ beat' = Older(beat)
  /\ renewed' = [i \in Instances |-> Older(renewed[i])]
  /\ tick' = [i \in Instances |-> IF tick[i] < Interval THEN tick[i] + 1 ELSE Interval]
  /\ call' = [i \in Instances |-> IF Calling(i) THEN call[i] + 1 ELSE 0]
  /\ UNCHANGED <<owner, ePc, current, late, mishaps>>

ElectorTo(i, p) == ePc' = [ePc EXCEPT ![i] = p]
Mishap == mishaps < MaxMishaps /\ mishaps' = mishaps + 1

\* The ticker fires: reconcile stamps the instant and issues the call.
Reconcile(i) ==
  /\ ePc[i] = "waiting" /\ tick[i] = Interval /\ ElectorTo(i, "calling")
  /\ tick' = [tick EXCEPT ![i] = 0] /\ call' = [call EXCEPT ![i] = 0]
  /\ UNCHANGED <<row, current, renewed, late, mishaps>>

\* Mutated: the row of an instance that died is never taken over.
WinsFree(i) == owner \in {NoOwner, i}

\* The upsert's predicate: no row, its own, or one whose heartbeat is older
\* than Expiry.
Wins(i) == owner \in {NoOwner, i} \/ beat > Expiry

Upsert(i) == IF Wins(i) THEN owner' = i /\ beat' = 0 ELSE UNCHANGED row

AcquireOrRenewPresenceOwner(i) ==
  /\ ePc[i] = "calling" /\ Upsert(i)
  /\ ElectorTo(i, IF Wins(i) THEN "won" ELSE "lost")
  /\ UNCHANGED <<current, clocks, late, mishaps>>

\* The answer: lastRenew is the instant before the call, whoever owns the row.
Answered(i) ==
  /\ ePc[i] \in {"won", "lost"} /\ ElectorTo(i, "waiting")
  /\ renewed' = [renewed EXCEPT ![i] = call[i]]
  /\ current' = [current EXCEPT ![i] = ePc[i] = "won"]
  /\ call' = [call EXCEPT ![i] = 0]
  /\ UNCHANGED <<row, tick, late, mishaps>>

\* Mutated: the lease is trusted until it expires.
DemotesAtExpiry(i) == renewed[i] >= Expiry

\* demoteAfter
Demotes(i) == renewed[i] >= Expiry - Interval - OpTimeout

\* The call fails or times out, executed or not: an owner that has not renewed
\* for demoteAfter deactivates itself.
Fails(i) ==
  /\ Calling(i) /\ Mishap /\ ElectorTo(i, "waiting")
  /\ late' = IF ePc[i] = "calling" THEN late \cup {i} ELSE late
  /\ current' = [current EXCEPT ![i] = @ /\ ~Demotes(i)]
  /\ call' = [call EXCEPT ![i] = 0]
  /\ UNCHANGED <<row, renewed, tick>>

\* The abandoned upsert is executed after all, or is cancelled.
LateUpsert(i) ==
  /\ i \in late /\ late' = late \ {i}
  /\ Upsert(i) \/ UNCHANGED row
  /\ UNCHANGED <<ePc, current, clocks, mishaps>>

\* SIGTERM: release deletes the row if it is still the instance's own, or fails,
\* and only then deactivates the Registry.
Release(i) ==
  /\ ePc[i] = "waiting" /\ Mishap /\ ElectorTo(i, "releasing")
  /\ \/ IF owner = i THEN owner' = NoOwner /\ beat' = Old ELSE UNCHANGED row
     \/ UNCHANGED row
  /\ UNCHANGED <<current, clocks, late>>

Deactivate(i) ==
  /\ ePc[i] = "releasing" /\ ElectorTo(i, "down")
  /\ current' = [current EXCEPT ![i] = FALSE]
  /\ UNCHANGED <<row, clocks, late, mishaps>>

ElectorDies(i) ==
  /\ ePc[i] # "down" /\ Mishap /\ ElectorTo(i, "down")
  /\ current' = [current EXCEPT ![i] = FALSE]
  /\ call' = [call EXCEPT ![i] = 0]
  /\ late' = IF ePc[i] = "calling" THEN late \cup {i} ELSE late
  /\ UNCHANGED <<row, renewed, tick>>

ElectorBoots(i) ==
  /\ ePc[i] = "down" /\ ElectorTo(i, "waiting")
  /\ tick' = [tick EXCEPT ![i] = Interval] /\ renewed' = [renewed EXCEPT ![i] = Old]
  /\ UNCHANGED <<row, current, call, late, mishaps>>

ElectorStep(i) ==
  Reconcile(i) \/ AcquireOrRenewPresenceOwner(i) \/ Answered(i) \/ Deactivate(i)

ElectorNext ==
  \/ TimePasses
  \/ \E i \in Instances :
       \/ ElectorStep(i) \/ Fails(i) \/ LateUpsert(i)
       \/ Release(i) \/ ElectorDies(i) \/ ElectorBoots(i)

ElectorSpec == ElectorInit /\ [][ElectorNext]_electorVars

-----------------------------------------------------------------------------
(* What the election promises *)

\* Whoever is active owns a row nobody may take: it takes itself down while
\* the row, never older than its last renewal, is still its own.
OwnerKnows == \A i \in Instances :
  current[i] /\ ePc[i] # "releasing" =>
    owner = i /\ beat <= renewed[i] /\ renewed[i] < Expiry

\* Two instances never dispatch the same interaction, partitioned or slow as
\* one of them may be (elector.go:146-205, #483, #506).  One that is between
\* its release and its deactivation still does: release deletes the row first.
OneDispatcher == \A i, j \in Instances :
  current[i] /\ current[j] /\ i # j => "releasing" \in {ePc[i], ePc[j]}

ElectorInv == ElectorTypeOK /\ OneDispatcher /\ OwnerKnows

\* Mishaps, and with them restarts, are finitely many: unless every instance is down
\* in the end, somebody owns the stream for good, whoever died holding the row and
\* whichever abandoned upserts were still executed.
OwnershipSettles ==
  <>[]((\E i \in Instances : ePc[i] # "down") => \E k \in Instances : current[k])
=============================================================================
