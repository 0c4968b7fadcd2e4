-------------------------- MODULE SharedRows_proofs ---------------------------
(*************************************************************************)
(* Proofs about the protocols that several processes or goroutines run   *)
(* over shared rows and sets: background jobs (JobRunner), the owner of  *)
(* the presence stream (PresenceElector), the mutes of a live session    *)
(* (LiveMutes) and the controls relayed to its host (VoiceControls).     *)
(* Each is proved by itself, for every value of its constants.           *)
(*************************************************************************)
EXTENDS JobRunner, PresenceElector, LiveMutes, VoiceControls, TLAPS

-------------------------------------------------------------------------------
(*************************************************************************)
(* Jobs. JobInv says nothing of where a runner stands, and is not        *)
(* inductive: ClaimInv adds that a runner has a job exactly while it     *)
(* handles one, that what it is about to write is what its handler said, *)
(* and that a row not enqueued yet was never claimed.                    *)
(*************************************************************************)

Claimed == {"handling"} \cup Verdicts

\* A runner has a job exactly while it handles one or writes its end.
HandlesItsJob == \A r \in Runners : rJob[r] # NoJob <=> rPc[r] \in Claimed

\* The verdict a runner writes is its handler's.
WritesItsVerdict == \A r \in Runners :
  rPc[r] \in Verdicts => <<rGen[r], rPc[r]>> \in jReported[rJob[r]]

\* The first claim is the first attempt.
NeverClaimedBefore == \A j \in Jobs : jStatus[j] = "none" => jAttempts[j] = 0

ClaimInv == JobInv /\ HandlesItsJob /\ WritesItsVerdict /\ NeverClaimedBefore

USE JobRunnerAssumption
USE DEF JobTypeOK, Attempts, Verdicts, Claimed, Exhausted, JobFault, RunnerTo

-----------------------------------------------------------------------------

\* The rows change by themselves: enqueued, due, out of their lease.
LEMMA RowsKeep ==
  ASSUME ClaimInv, NEW j \in Jobs, EnqueueJob(j) \/ Falls(j) \/ LeaseExpires(j)
  PROVE  ClaimInv'
<1> USE DEF ClaimInv, JobInv, SettledByHolder, OneHandlerPerClaim, LeasedIsRunning,
            HandlesItsJob, WritesItsVerdict, NeverClaimedBefore, rowVars, runnerVars
<1>1. CASE EnqueueJob(j)
  <2>1. /\ jStatus[j] = "none" /\ jStatus' = [jStatus EXCEPT ![j] = "pending"]
        /\ jDue' \in [Jobs -> BOOLEAN]
        /\ UNCHANGED <<jAttempts, jLease, rPc, rJob, rGen, jReported, jFaults>>
    BY <1>1 DEF EnqueueJob
  <2>2. JobTypeOK'
    BY <2>1
  <2>3. /\ \A k \in Jobs : jStatus'[k] = IF k = j THEN "pending" ELSE jStatus[k]
        /\ ~(jAttempts[j] > 0) /\ jLease[j] = "none"
    BY <2>1
  <2>4. SettledByHolder'
    BY <2>1, <2>3
  <2>5. OneHandlerPerClaim' /\ LeasedIsRunning'
    BY <2>1, <2>3
  <2>6. HandlesItsJob' /\ WritesItsVerdict' /\ NeverClaimedBefore'
    BY <2>1
  <2> QED BY <2>2, <2>4, <2>5, <2>6
<1>2. CASE Falls(j)
  BY <1>2 DEF Falls
<1>3. CASE LeaseExpires(j)
  BY <1>3 DEF LeaseExpires
<1> QED BY <1>1, <1>2, <1>3

\* A row the sweep buries has used up its attempts.
LEMMA SweepKeeps ==
  ASSUME ClaimInv, NEW r \in Runners, SweepExpiredJobs(r)
  PROVE  ClaimInv'
<1> USE DEF ClaimInv, JobInv, SettledByHolder, OneHandlerPerClaim, LeasedIsRunning,
            HandlesItsJob, WritesItsVerdict, NeverClaimedBefore
<1>1. /\ rPc[r] \in {"polling", "draining"} /\ rPc' = [rPc EXCEPT ![r] = "draining"]
      /\ jFaults' \in 0..MaxJobFaults
      /\ UNCHANGED <<jAttempts, jDue, rJob, rGen, jReported>>
  BY DEF SweepExpiredJobs
<1>2. OneHandlerPerClaim' /\ HandlesItsJob' /\ WritesItsVerdict'
  BY <1>1
<1>3. CASE UNCHANGED <<jStatus, jLease>>
  BY <1>1, <1>2, <1>3
<1>4. CASE /\ jStatus' = [j \in Jobs |-> IF j \in Swept THEN "dead" ELSE jStatus[j]]
           /\ jLease' = [j \in Jobs |-> IF j \in Swept THEN "none" ELSE jLease[j]]
  <2>1. JobTypeOK'
    BY <1>1, <1>4
  <2>2. SettledByHolder' /\ LeasedIsRunning' /\ NeverClaimedBefore'
    BY <1>1, <1>4 DEF Swept
  <2> QED BY <1>2, <2>1, <2>2
<1> QED BY <1>3, <1>4 DEF SweepExpiredJobs

\* A claim opens a generation of its own.
LEMMA ClaimKeeps ==
  ASSUME ClaimInv, NEW r \in Runners, ClaimJob(r)
  PROVE  ClaimInv'
<1> USE DEF ClaimInv, JobInv, SettledByHolder, OneHandlerPerClaim, LeasedIsRunning,
            HandlesItsJob, WritesItsVerdict, NeverClaimedBefore
<1>1. PICK j \in Jobs :
        /\ Runnable(j)
        /\ jStatus' = [jStatus EXCEPT ![j] = "running"]
        /\ jAttempts' = [jAttempts EXCEPT ![j] = @ + 1]
        /\ jLease' = [jLease EXCEPT ![j] = "held"]
        /\ rJob' = [rJob EXCEPT ![r] = j] /\ rGen' = [rGen EXCEPT ![r] = jAttempts'[j]]
  BY DEF ClaimJob
<1>2. /\ rPc[r] = "draining" /\ rPc' = [rPc EXCEPT ![r] = "handling"]
      /\ UNCHANGED <<jDue, jReported, jFaults>>
  BY DEF ClaimJob
<1>3. jAttempts[j] < MaxAttempts
  <2>1. jAttempts[j] \in Nat /\ MaxAttempts \in Nat /\ MaxAttempts > 0
    OBVIOUS
  <2>2. jStatus[j] = "pending" /\ jAttempts[j] > 0 => ~Exhausted(j)
    BY DEF SettledByHolder
  <2>3. jStatus[j] = "pending" \/ ~Exhausted(j)
    BY <1>1 DEF Runnable
  <2> QED BY <2>1, <2>2, <2>3
<1>4. JobTypeOK'
  BY <1>1, <1>2, <1>3
<1>5. SettledByHolder' /\ LeasedIsRunning' /\ NeverClaimedBefore'
  BY <1>1, <1>2
<1>6. OneHandlerPerClaim'
  <2>1. ASSUME NEW q \in Runners, rJob'[q] # NoJob
        PROVE  rGen'[q] \in 1..jAttempts'[rJob'[q]]
    BY <1>1, <1>2, <1>3, <2>1
  <2>2. ASSUME NEW q \in Runners, rJob[q] = j
        PROVE  rGen[q] < jAttempts'[j]
    BY <1>1, <2>2
  <2>3. ASSUME NEW q \in Runners, NEW s \in Runners,
               rJob'[q] # NoJob, rJob'[q] = rJob'[s], rGen'[q] = rGen'[s]
        PROVE  q = s
    BY <1>1, <2>2, <2>3
  <2> QED BY <2>1, <2>3
<1>7. HandlesItsJob' /\ WritesItsVerdict'
  BY <1>1, <1>2
<1> QED BY <1>4, <1>5, <1>6, <1>7

\* What is reported stays reported.
LEMMA HandlerKeeps ==
  ASSUME ClaimInv, NEW r \in Runners, HandlerReturns(r)
  PROVE  ClaimInv'
<1> USE DEF ClaimInv, JobInv, SettledByHolder, OneHandlerPerClaim, LeasedIsRunning,
            HandlesItsJob, WritesItsVerdict, NeverClaimedBefore, rowVars
<1>1. PICK v \in Verdicts :
        /\ rPc' = [rPc EXCEPT ![r] = v]
        /\ jReported' = [jReported EXCEPT ![rJob[r]] = @ \cup {<<rGen[r], v>>}]
  BY DEF HandlerReturns
<1>2. rPc[r] = "handling" /\ UNCHANGED <<rowVars, rJob, rGen, jFaults>>
  BY DEF HandlerReturns
<1>3. rJob[r] \in Jobs
  BY <1>2
<1>4. JobTypeOK'
  BY <1>1, <1>2, <1>3
<1>5. SettledByHolder' /\ LeasedIsRunning' /\ NeverClaimedBefore'
  BY <1>1, <1>2, <1>3
<1>6. OneHandlerPerClaim' /\ HandlesItsJob' /\ WritesItsVerdict'
  BY <1>1, <1>2, <1>3
<1> QED BY <1>4, <1>5, <1>6

\* The fence: a write that takes effect is that of the row's own generation.
LEMMA WriteKeeps ==
  ASSUME ClaimInv, NEW r \in Runners, TerminalWrite(r)
  PROVE  ClaimInv'
<1> USE DEF ClaimInv, JobInv, SettledByHolder, OneHandlerPerClaim, LeasedIsRunning,
            HandlesItsJob, WritesItsVerdict, NeverClaimedBefore
<1>1. /\ rPc[r] \in Verdicts /\ rPc' = [rPc EXCEPT ![r] = "draining"]
      /\ rJob' = [rJob EXCEPT ![r] = NoJob] /\ rGen' = [rGen EXCEPT ![r] = 0]
      /\ UNCHANGED <<jAttempts, jReported>> /\ jFaults' \in 0..MaxJobFaults
  BY DEF TerminalWrite
<1>2. rJob[r] \in Jobs /\ <<rGen[r], rPc[r]>> \in jReported[rJob[r]]
  BY <1>1
<1>3. OneHandlerPerClaim' /\ HandlesItsJob' /\ WritesItsVerdict'
  BY <1>1
<1>4. CASE UNCHANGED <<jStatus, jDue, jLease>>
  BY <1>1, <1>3, <1>4
<1>5. CASE /\ Holds(r)
           /\ Settle(rJob[r], IF rPc[r] = "done" THEN "done"
                              ELSE IF rGen[r] >= MaxAttempts THEN "dead" ELSE "pending")
  <2>1. JobTypeOK' /\ LeasedIsRunning' /\ NeverClaimedBefore'
    BY <1>1, <1>2, <1>5 DEF Settle
  <2>2. SettledByHolder'
    BY <1>1, <1>2, <1>5 DEF Settle, Holds
  <2> QED BY <1>3, <2>1, <2>2
<1> QED BY <1>4, <1>5 DEF TerminalWrite

\* A runner comes and goes; a row it held stays with its generation.
LEMMA RunnersKeep ==
  ASSUME ClaimInv, NEW r \in Runners, DrainEnds(r) \/ RunnerDies(r) \/ RunnerBoots(r)
  PROVE  ClaimInv'
<1> USE DEF ClaimInv, JobInv, SettledByHolder, OneHandlerPerClaim, LeasedIsRunning,
            HandlesItsJob, WritesItsVerdict, NeverClaimedBefore, rowVars
<1>1. CASE DrainEnds(r)
  <2>1. /\ rPc' = [rPc EXCEPT ![r] = "polling"] /\ rPc[r] = "draining"
        /\ UNCHANGED <<rowVars, rJob, rGen, jReported>> /\ jFaults' \in 0..MaxJobFaults
    BY <1>1 DEF DrainEnds
  <2> QED BY <2>1
<1>2. CASE RunnerDies(r)
  BY <1>2 DEF RunnerDies
<1>3. CASE RunnerBoots(r)
  BY <1>3 DEF RunnerBoots
<1> QED BY <1>1, <1>2, <1>3

LEMMA JobStutter ==
  ASSUME ClaimInv, UNCHANGED jobVars
  PROVE  ClaimInv'
  BY DEF jobVars, rowVars, runnerVars, ClaimInv, JobInv, SettledByHolder,
         OneHandlerPerClaim, LeasedIsRunning, HandlesItsJob, WritesItsVerdict,
         NeverClaimedBefore

-----------------------------------------------------------------------------

\* Every state of the queue has the invariant (job.go's claim and its three
\* terminal writes, against every interleaving with sweeps, late handlers,
\* failed writes and deaths).
THEOREM ClaimsFenced == JobSpec => []ClaimInv
<1>1. JobInit => ClaimInv
  BY DEF JobInit, ClaimInv, JobInv, SettledByHolder, OneHandlerPerClaim, LeasedIsRunning,
         HandlesItsJob, WritesItsVerdict, NeverClaimedBefore
<1>2. ClaimInv /\ [JobNext]_jobVars => ClaimInv'
  <2> SUFFICES ASSUME ClaimInv, [JobNext]_jobVars
               PROVE  ClaimInv'
    OBVIOUS
  <2>1. CASE \E j \in Jobs : EnqueueJob(j) \/ Falls(j) \/ LeaseExpires(j)
    BY <2>1, RowsKeep
  <2>2. CASE \E r \in Runners : RunnerStep(r) \/ RunnerDies(r) \/ RunnerBoots(r)
    BY <2>2, SweepKeeps, ClaimKeeps, HandlerKeeps, WriteKeeps, RunnersKeep DEF RunnerStep
  <2>3. CASE UNCHANGED jobVars
    BY <2>3, JobStutter
  <2> QED BY <2>1, <2>2, <2>3 DEF JobNext
<1> QED BY <1>1, <1>2, PTL DEF JobSpec

\* No late runner settles a row that was claimed again, and no two runners work
\* for one generation: JobInv, for any number of jobs, runners and attempts.
THEOREM QueueIsSafe == JobSpec => []JobInv
<1>1. ClaimInv => JobInv
  BY DEF ClaimInv
<1> QED BY <1>1, ClaimsFenced, PTL

HIDE JobRunnerAssumption
HIDE DEF JobTypeOK, Attempts, Verdicts, Claimed, Exhausted, JobFault, RunnerTo
-------------------------------------------------------------------------------
(*************************************************************************)
(* The owner election, for any Interval, OpTimeout and Expiry that       *)
(* warnElectorCadence lets pass. ElectorInv says that an owner demotes   *)
(* itself in time; LeaseInv adds the clocks that make it so: how long    *)
(* ago an owner can have renewed when its next tick, and then its next   *)
(* answer, is still to come.                                             *)
(*************************************************************************)

\* A call is as old as the tick that issued it.
CallSinceTick == \A i \in Instances : Calling(i) => tick[i] = call[i]

\* Between ticks, and during a call: what is left of Expiry since the last
\* renewal is enough for the tick, the call and its timeout.
RenewsInTime == \A i \in Instances : current[i] =>
  /\ ePc[i] = "waiting" => renewed[i] + Interval + OpTimeout < Expiry + tick[i]
  /\ Calling(i) => renewed[i] + OpTimeout < Expiry + call[i]

\* Nobody takes the row between an upsert that won it and its answer.
WonIsOwner == \A i \in Instances :
  ePc[i] = "won" => owner = i /\ beat <= call[i]

DownIsInactive == \A i \in Instances : ePc[i] = "down" => current[i] = FALSE

\* What an owner that is not releasing has.
Owns(i) == owner = i /\ beat <= renewed[i]

OwnerOwns == \A i \in Instances : current[i] /\ ePc[i] # "releasing" => Owns(i)

LeaseInv ==
  /\ ElectorTypeOK /\ CallSinceTick /\ RenewsInTime /\ WonIsOwner
  /\ DownIsInactive /\ OwnerOwns

USE ElectorAssumption
USE DEF LeaseInv, ElectorTypeOK, CallSinceTick, RenewsInTime, WonIsOwner, DownIsInactive,
        OwnerOwns, Owns, Calling, Old, ElectorTo, Mishap, row, clocks

-----------------------------------------------------------------------------

\* What LeaseInv says of the row's owner now: an active instance has renewed
\* within Expiry.
LEMMA RenewedWithinExpiry ==
  ASSUME LeaseInv, NEW i \in Instances, current[i], ePc[i] # "releasing"
  PROVE  renewed[i] < Expiry
<1>1. ePc[i] = "waiting" \/ Calling(i)
  OBVIOUS
<1>2. /\ renewed[i] \in Nat /\ tick[i] \in 0..Interval /\ call[i] \in 0..OpTimeout
      /\ Interval \in Nat /\ OpTimeout \in Nat /\ Expiry \in Nat
  OBVIOUS
<1> QED BY <1>1, <1>2

\* Nobody wins the row of an instance that is active or about to be.
LEMMA OwnedIsSafe ==
  ASSUME LeaseInv, NEW i \in Instances, NEW j \in Instances, Wins(j),
         (current[i] /\ ePc[i] # "releasing") \/ ePc[i] = "won"
  PROVE  i = j
<1>0. /\ beat \in Nat /\ renewed[i] \in Nat /\ call[i] \in 0..OpTimeout
      /\ Interval \in Nat /\ OpTimeout \in Nat /\ Expiry \in Nat
  OBVIOUS
<1>1. owner = i /\ beat <= Expiry
  BY <1>0, RenewedWithinExpiry
<1> QED BY <1>0, <1>1 DEF Wins

\* No tick and no timeout is late, so no clock of an owner runs past its bound.
LEMMA TimeKeeps ==
  ASSUME LeaseInv, TimePasses
  PROVE  LeaseInv'
<1>1. /\ \A i \in Instances : Prompt(i)
      /\ beat' = Older(beat)
      /\ renewed' = [i \in Instances |-> Older(renewed[i])]
      /\ tick' = [i \in Instances |-> IF tick[i] < Interval THEN tick[i] + 1 ELSE Interval]
      /\ call' = [i \in Instances |-> IF Calling(i) THEN call[i] + 1 ELSE 0]
      /\ UNCHANGED <<owner, ePc, current, late, mishaps>>
  BY DEF TimePasses
<1>2. \A a \in 0..Old : Older(a) \in 0..Old /\ Older(a) <= a + 1
  BY DEF Older
<1>3. \A a, b \in 0..Old : a <= b => Older(a) <= Older(b)
  BY DEF Older
<1>4. ElectorTypeOK'
  <2>1. call' \in [Instances -> 0..OpTimeout]
    BY <1>1 DEF Prompt
  <2>2. tick' \in [Instances -> 0..Interval]
    BY <1>1
  <2> QED BY <1>1, <1>2, <2>1, <2>2
<1>5. CallSinceTick'
  BY <1>1 DEF Prompt
<1>6. RenewsInTime'
  <2> SUFFICES ASSUME NEW i \in Instances, current'[i]
               PROVE  /\ ePc'[i] = "waiting" =>
                           renewed'[i] + Interval + OpTimeout < Expiry + tick'[i]
                      /\ Calling(i)' => renewed'[i] + OpTimeout < Expiry + call'[i]
    OBVIOUS
  <2>1. /\ current[i] /\ renewed[i] \in 0..Old /\ renewed'[i] <= renewed[i] + 1
        /\ renewed'[i] \in 0..Old
    BY <1>1, <1>2
  <2>2. CASE ePc[i] = "waiting"
    <3>1. tick[i] < Interval /\ tick'[i] = tick[i] + 1
      BY <1>1, <2>2 DEF Prompt
    <3> QED BY <1>1, <2>1, <2>2, <3>1
  <2>3. CASE Calling(i)
    <3>1. call'[i] = call[i] + 1
      BY <1>1, <2>3
    <3> QED BY <1>1, <2>1, <2>3, <3>1
  <2> QED BY <1>1, <2>2, <2>3
<1>7. WonIsOwner'
  BY <1>1, <1>2
<1>8. DownIsInactive' /\ OwnerOwns'
  BY <1>1, <1>3
<1> QED BY <1>4, <1>5, <1>6, <1>7, <1>8

\* An upsert, in time or late, takes a row that is nobody's active.
LEMMA UpsertKeeps ==
  ASSUME LeaseInv, NEW j \in Instances, Upsert(j), Wins(j) \/ UNCHANGED row,
         UNCHANGED <<current, clocks, mishaps>>, late' \subseteq late,
         \/ UNCHANGED ePc
         \/ /\ ePc[j] = "calling"
            /\ ePc' = [ePc EXCEPT ![j] = IF Wins(j) THEN "won" ELSE "lost"]
  PROVE  LeaseInv'
<1>1. ElectorTypeOK' /\ CallSinceTick' /\ RenewsInTime' /\ DownIsInactive'
  BY DEF Upsert
<1>2. CASE Wins(j)
  <2>1. owner' = j /\ beat' = 0
    BY <1>2 DEF Upsert
  <2>2. ASSUME NEW i \in Instances, i # j
        PROVE  ~(current[i] /\ ePc[i] # "releasing") /\ ePc[i] # "won"
    BY <1>2, <2>2, OwnedIsSafe
  <2>3. WonIsOwner' /\ OwnerOwns'
    BY <1>1, <1>2, <2>1, <2>2
  <2> QED BY <1>1, <2>3
<1>3. CASE ~Wins(j)
  BY <1>1, <1>3 DEF Upsert
<1> QED BY <1>2, <1>3

\* The calls of one instance.
LEMMA CallsKeep ==
  ASSUME LeaseInv, NEW i \in Instances,
         Reconcile(i) \/ AcquireOrRenewPresenceOwner(i) \/ Answered(i) \/ Fails(i)
  PROVE  LeaseInv'
<1>1. CASE Reconcile(i)
  <2>1. /\ ePc[i] = "waiting" /\ tick[i] = Interval /\ ePc' = [ePc EXCEPT ![i] = "calling"]
        /\ tick' = [tick EXCEPT ![i] = 0] /\ call' = [call EXCEPT ![i] = 0]
        /\ UNCHANGED <<owner, beat, current, renewed, late, mishaps>>
    BY <1>1 DEF Reconcile
  <2>2. ElectorTypeOK' /\ CallSinceTick' /\ WonIsOwner' /\ DownIsInactive' /\ OwnerOwns'
    BY <2>1
  <2>3. RenewsInTime'
    BY <2>1
  <2> QED BY <2>2, <2>3
<1>2. CASE AcquireOrRenewPresenceOwner(i)
  BY <1>2, UpsertKeeps DEF AcquireOrRenewPresenceOwner, Upsert
<1>3. CASE Answered(i)
  <2>1. /\ ePc[i] \in {"won", "lost"} /\ ePc' = [ePc EXCEPT ![i] = "waiting"]
        /\ renewed' = [renewed EXCEPT ![i] = call[i]]
        /\ current' = [current EXCEPT ![i] = ePc[i] = "won"]
        /\ call' = [call EXCEPT ![i] = 0]
        /\ UNCHANGED <<owner, beat, tick, late, mishaps>>
    BY <1>3 DEF Answered
  <2>2. call[i] \in 0..Old /\ tick[i] = call[i]
    BY <2>1
  <2>3. ElectorTypeOK'
    BY <2>1, <2>2
  <2>4. CallSinceTick' /\ WonIsOwner' /\ DownIsInactive'
    BY <2>1
  <2>5. RenewsInTime'
    BY <2>1, <2>2
  <2>6. OwnerOwns'
    BY <2>1
  <2> QED BY <2>3, <2>4, <2>5, <2>6
<1>4. CASE Fails(i)
  <2>1. /\ Calling(i) /\ ePc' = [ePc EXCEPT ![i] = "waiting"]
        /\ late' = IF ePc[i] = "calling" THEN late \cup {i} ELSE late
        /\ current' = [current EXCEPT ![i] = @ /\ ~Demotes(i)]
        /\ call' = [call EXCEPT ![i] = 0] /\ mishaps' \in 0..MaxMishaps
        /\ UNCHANGED <<owner, beat, renewed, tick>>
    BY <1>4 DEF Fails
  <2>2. current' \in [Instances -> BOOLEAN]
    BY <2>1
  <2>3. \A j \in Instances : current'[j] => current[j]
    BY <2>1
  <2>4. ElectorTypeOK' /\ CallSinceTick' /\ WonIsOwner' /\ DownIsInactive'
    BY <2>1, <2>2, <2>3
  <2>5. RenewsInTime'
    <3>1. current'[i] => renewed[i] + Interval + OpTimeout < Expiry + tick[i]
      <4>1. current'[i] => ~Demotes(i)
        BY <2>1
      <4>2. /\ renewed[i] \in Nat /\ tick[i] \in Nat
            /\ Interval \in Nat /\ OpTimeout \in Nat /\ Expiry \in Nat
        OBVIOUS
      <4> QED BY <4>1, <4>2 DEF Demotes
    <3> QED BY <2>1, <2>3, <3>1
  <2>6. OwnerOwns'
    BY <2>1, <2>3
  <2> QED BY <2>4, <2>5, <2>6
<1> QED BY <1>1, <1>2, <1>3, <1>4

\* Comings and goings: only an owner deletes the row, and it says so first.
LEMMA LivesKeep ==
  ASSUME LeaseInv, NEW i \in Instances,
         LateUpsert(i) \/ Release(i) \/ Deactivate(i) \/ ElectorDies(i) \/ ElectorBoots(i)
  PROVE  LeaseInv'
<1>1. CASE LateUpsert(i)
  <2>1. CASE Upsert(i)
    BY <1>1, <2>1, UpsertKeeps DEF LateUpsert, Upsert
  <2>2. CASE UNCHANGED row
    BY <1>1, <2>2 DEF LateUpsert
  <2> QED BY <1>1, <2>1, <2>2 DEF LateUpsert
<1>2. CASE Release(i)
  <2>1. /\ ePc[i] = "waiting" /\ ePc' = [ePc EXCEPT ![i] = "releasing"]
        /\ UNCHANGED <<current, clocks, late>> /\ mishaps' \in 0..MaxMishaps
        /\ \/ owner = i /\ owner' = NoOwner /\ beat' = Old
           \/ UNCHANGED row
    BY <1>2 DEF Release
  <2> QED BY <2>1
<1>3. CASE Deactivate(i)
  BY <1>3 DEF Deactivate
<1>4. CASE ElectorDies(i)
  BY <1>4 DEF ElectorDies
<1>5. CASE ElectorBoots(i)
  BY <1>5 DEF ElectorBoots
<1> QED BY <1>1, <1>2, <1>3, <1>4, <1>5

LEMMA ElectorStutter ==
  ASSUME LeaseInv, UNCHANGED electorVars
  PROVE  LeaseInv'
  BY DEF electorVars

-----------------------------------------------------------------------------

\* Every state of the election has the invariant, whatever is late, partitioned,
\* dying or executed after its caller gave up.
THEOREM LeasesKept == ElectorSpec => []LeaseInv
<1>1. ElectorInit => LeaseInv
  BY DEF ElectorInit
<1>2. LeaseInv /\ [ElectorNext]_electorVars => LeaseInv'
  BY TimeKeeps, CallsKeep, LivesKeep, ElectorStutter DEF ElectorNext, ElectorStep
<1> QED BY <1>1, <1>2, PTL DEF ElectorSpec

\* Two instances never dispatch the same interaction, except for one between its
\* release and its deactivation, and an active one owns the row: ElectorInv, for
\* every cadence that leaves a tick and a call within Expiry (elector.go:146).
THEOREM OneOwnerDispatches == ElectorSpec => []ElectorInv
<1>1. LeaseInv => ElectorInv
  <2> SUFFICES ASSUME LeaseInv
               PROVE  ElectorInv
    OBVIOUS
  <2>1. OwnerKnows
    BY RenewedWithinExpiry DEF OwnerKnows
  <2>2. OneDispatcher
    BY <2>1 DEF OneDispatcher, OwnerKnows
  <2> QED BY <2>1, <2>2 DEF ElectorInv
<1> QED BY <1>1, LeasesKept, PTL

HIDE ElectorAssumption
HIDE DEF LeaseInv, ElectorTypeOK, CallSinceTick, RenewsInTime, WonIsOwner, DownIsInactive,
         OwnerOwns, Owns, Calling, Old, ElectorTo, Mishap, row, clocks
-------------------------------------------------------------------------------
(*************************************************************************)
(* Mutes. MutesInv speaks of a cycle that is up; ConvergingInv says how  *)
(* one gets there: pubMu is held from the write to the last event, the   *)
(* Agents a fresh roster has been seeded with agree with the Manager's   *)
(* set unless their event is still to come, and a handler of a cycle     *)
(* that is over has nothing to deliver that the seed does not.           *)
(*************************************************************************)

Differs(a) == (a \in rMuted) # (a \in sMuted)

\* pubMu is held from the write to the reply, and only then are events pending.
HeldWhilePublishing == \A k \in Callers :
  /\ pubMu = k <=> kPc[k] \in {"publishing", "handling"}
  /\ kEvents[k] # {} => pubMu = k

\* The event being handled is still counted as pending.
HandledIsPending == \A k \in Callers :
  kPc[k] = "handling" => kAgent[k] \in kEvents[k]

\* A roster that is being seeded, Agent by Agent.
SeededConverges == rCycle # "down" => \A a \in Mutable \ rSeed :
  Differs(a) => pubMu # NoCaller /\ a \in kEvents[pubMu]

\* The event of a stale handler was written before the new roster was seeded.
StaleIsSeeded == \A k \in Callers :
  kPc[k] = "handling" /\ kStale[k] /\ rCycle # "down" =>
    \A a \in Mutable \ rSeed : ~Differs(a)

SeedDone == rCycle = "up" => rSeed = {}

ConvergingInv ==
  /\ MutesTypeOK /\ HandlerReadsTruth /\ HeldWhilePublishing /\ HandledIsPending
  /\ SeededConverges /\ StaleIsSeeded /\ SeedDone

USE MutesAssumption
USE DEF ConvergingInv, MutesTypeOK, HandlerReadsTruth, HeldWhilePublishing,
  HandledIsPending,
        SeededConverges, StaleIsSeeded, SeedDone, Differs, Ops, NoOp, callerVars, cycleVars

-----------------------------------------------------------------------------

\* Nothing is written before pubMu is held.
LEMMA TakeKeeps ==
  ASSUME ConvergingInv, NEW k \in Callers, TakeHandle(k)
  PROVE  ConvergingInv'
  BY DEF TakeHandle

\* With pubMu free every seeded Agent agrees; the write makes those differ that
\* it has an event for.
LEMMA MuteKeeps ==
  ASSUME ConvergingInv, NEW k \in Callers, WriteMutes(k)
  PROVE  ConvergingInv'
<1>1. /\ kPc[k] = "listing" /\ pubMu = NoCaller
      /\ UNCHANGED <<sEnded, kAgent, kMuted, kStale, rCycle, rMuted, rSeed>>
  BY DEF WriteMutes
<1>2. \A j \in Callers : kPc[j] \in {"idle", "listing"} /\ kEvents[j] = {}
  BY <1>1
<1>3. CASE sEnded
  BY <1>1, <1>2, <1>3 DEF WriteMutes
<1>4. CASE ~sEnded
  <2>1. /\ kPc' = [kPc EXCEPT ![k] = "publishing"] /\ pubMu' = k /\ kOp' = kOp
        /\ kEvents' = [kEvents EXCEPT ![k] = Changed(kOp[k])]
        /\ sMuted' = IF kOp[k].muted THEN sMuted \cup kOp[k].who ELSE sMuted \ kOp[k].who
    BY <1>4 DEF WriteMutes, PublishesUnder
  <2>2. kOp[k].who \subseteq Mutable /\ kOp[k].muted \in BOOLEAN
    <3>1. CASE kOp[k] \in Ops
      <4>1. kOp[k].who \in {{a} : a \in Mutable} \cup {Mutable}
        BY <3>1
      <4> QED BY <3>1, <4>1
    <3>2. CASE kOp[k] = NoOp
      BY <3>2
    <3> QED BY <3>1, <3>2
  <2>3. Changed(kOp[k]) \subseteq Mutable
    BY <2>2 DEF Changed
  <2>4. MutesTypeOK'
    BY <1>1, <2>1, <2>2, <2>3
  <2>5. HandlerReadsTruth' /\ HeldWhilePublishing' /\ HandledIsPending' /\ StaleIsSeeded'
        /\ SeedDone'
    BY <1>1, <1>2, <2>1
  <2>6. \A a \in Mutable : (a \in sMuted) # (a \in sMuted') <=> a \in Changed(kOp[k])
    BY <2>1, <2>2 DEF Changed
  <2>7. SeededConverges'
    BY <1>1, <2>1, <2>6
  <2> QED BY <2>4, <2>5, <2>7
<1> QED BY <1>3, <1>4

\* The roster down, the event is for nobody; else its handler reads the truth.
LEMMA PublishKeeps ==
  ASSUME ConvergingInv, NEW k \in Callers, PublishMuteChanged(k)
  PROVE  ConvergingInv'
<1>1. PICK a \in kEvents[k] :
       IF rCycle = "down"
       THEN /\ kEvents' = [kEvents EXCEPT ![k] = @ \ {a}]
            /\ UNCHANGED <<kPc, kAgent, kMuted, kStale>>
       ELSE /\ kPc' = [kPc EXCEPT ![k] = "handling"] /\ kAgent' = [kAgent EXCEPT ![k] = a]
            /\ kMuted' = [kMuted EXCEPT ![k] = a \in sMuted]
            /\ kStale' = [kStale EXCEPT ![k] = FALSE]
            /\ UNCHANGED kEvents
  BY DEF PublishMuteChanged
<1>2. /\ kPc[k] = "publishing" /\ pubMu = k
      /\ UNCHANGED <<sEnded, sMuted, pubMu, kOp, rCycle, rMuted, rSeed>>
  BY DEF PublishMuteChanged
<1>3. CASE rCycle = "down"
  BY <1>1, <1>2, <1>3
<1>4. CASE rCycle # "down"
  <2>1. /\ kPc' = [kPc EXCEPT ![k] = "handling"] /\ kAgent' = [kAgent EXCEPT ![k] = a]
        /\ kMuted' = [kMuted EXCEPT ![k] = a \in sMuted]
        /\ kStale' = [kStale EXCEPT ![k] = FALSE] /\ UNCHANGED kEvents
    BY <1>1, <1>4
  <2>2. MutesTypeOK'
    BY <1>2, <2>1
  <2>3. HandlerReadsTruth'
    BY <1>2, <2>1
  <2>4. HeldWhilePublishing' /\ HandledIsPending'
    BY <1>2, <2>1
  <2>5. SeededConverges' /\ StaleIsSeeded' /\ SeedDone'
    BY <1>2, <2>1
  <2> QED BY <2>2, <2>3, <2>4, <2>5
<1> QED BY <1>3, <1>4

\* An event is spent once the roster agrees: by its handler, or by the seed.
LEMMA DeliveryKeeps ==
  ASSUME ConvergingInv, NEW k \in Callers, SetMuted(k)
  PROVE  ConvergingInv'
<1>1. /\ kPc[k] = "handling" /\ pubMu = k /\ kAgent[k] \in Mutable
      /\ kMuted[k] = (kAgent[k] \in sMuted)
  BY DEF SetMuted
<1>2. /\ kPc' = [kPc EXCEPT ![k] = "publishing"]
      /\ kEvents' = [kEvents EXCEPT ![k] = @ \ {kAgent[k]}]
      /\ kAgent' = [kAgent EXCEPT ![k] = NoOne] /\ kMuted' = [kMuted EXCEPT ![k] = FALSE]
      /\ kStale' = [kStale EXCEPT ![k] = FALSE]
      /\ UNCHANGED <<sEnded, sMuted, pubMu, kOp, rCycle, rSeed>>
  BY DEF SetMuted
<1>3. rMuted' = IF kStale[k] THEN rMuted ELSE With(rMuted, kAgent[k], kMuted[k])
  BY DEF SetMuted
<1>4. MutesTypeOK'
  BY <1>1, <1>2, <1>3 DEF With
<1>5. HandlerReadsTruth' /\ HeldWhilePublishing' /\ HandledIsPending' /\ StaleIsSeeded'
      /\ SeedDone'
  BY <1>1, <1>2
<1>6. SeededConverges'
  <2>1. CASE kStale[k]
    BY <1>1, <1>2, <1>3, <2>1
  <2>2. CASE ~kStale[k]
    <3>1. (kAgent[k] \in rMuted') = (kAgent[k] \in sMuted')
      BY <1>1, <1>2, <1>3, <2>2 DEF With
    <3>2. \A a \in Mutable \ {kAgent[k]} : (a \in rMuted') = (a \in rMuted)
      BY <1>3, <2>2 DEF With
    <3>3. ASSUME rCycle' # "down", NEW a \in Mutable \ rSeed', Differs(a)'
          PROVE  pubMu' # NoCaller /\ a \in kEvents'[pubMu']
      <4>1. a # kAgent[k]
        BY <3>1, <3>3
      <4>2. (a \in rMuted') = (a \in rMuted)
        BY <3>2, <3>3, <4>1
      <4>3. Differs(a)
        BY <1>2, <3>3, <4>2
      <4>4. a \in kEvents[k]
        BY <1>1, <1>2, <3>3, <4>3
      <4> QED BY <1>1, <1>2, <4>1, <4>4
    <3> QED BY <3>3
  <2> QED BY <2>1, <2>2
<1> QED BY <1>4, <1>5, <1>6

LEMMA ReplyKeeps ==
  ASSUME ConvergingInv, NEW k \in Callers, Replied(k)
  PROVE  ConvergingInv'
  BY DEF Replied

\* A fresh roster is seeded Agent by Agent; one that is over leaves its handlers
\* stale.
LEMMA CycleKeeps ==
  ASSUME ConvergingInv, Connect \/ ApplyMutes \/ CycleEnds \/ EndMutes
  PROVE  ConvergingInv'
<1>1. CASE Connect
  BY <1>1 DEF Connect
<1>2. CASE ApplyMutes
  <2>1. CASE rSeed = {}
    BY <1>2, <2>1 DEF ApplyMutes
  <2>2. CASE rSeed # {}
    <3>1. PICK a \in rSeed :
            /\ rCycle' = "seeding" /\ rSeed' = rSeed \ {a}
            /\ rMuted' = With(rMuted, a, a \in sMuted)
      BY <1>2, <2>2 DEF ApplyMutes
    <3>2. rCycle # "down" /\ UNCHANGED <<sEnded, sMuted, pubMu, callerVars>>
      BY <1>2 DEF ApplyMutes
    <3>3. MutesTypeOK'
      BY <3>1, <3>2 DEF With
    <3>4. HandlerReadsTruth' /\ HeldWhilePublishing' /\ HandledIsPending' /\ SeedDone'
      BY <3>1, <3>2
    <3>5. SeededConverges' /\ StaleIsSeeded'
      BY <3>1, <3>2 DEF With
    <3> QED BY <3>3, <3>4, <3>5
  <2> QED BY <2>1, <2>2
<1>3. CASE CycleEnds
  BY <1>3 DEF CycleEnds
<1>4. CASE EndMutes
  BY <1>4 DEF EndMutes
<1> QED BY <1>1, <1>2, <1>3, <1>4

LEMMA MutesStutter ==
  ASSUME ConvergingInv, UNCHANGED muteVars
  PROVE  ConvergingInv'
  BY DEF muteVars

-----------------------------------------------------------------------------

\* Every state of the mute wiring has the invariant, whatever mutes overlap with
\* whatever reconnects.
THEOREM MutesConverge == MutesSpec => []ConvergingInv
<1>1. MutesInit => ConvergingInv
  BY DEF MutesInit
<1>2. ConvergingInv /\ [MutesNext]_muteVars => ConvergingInv'
  BY TakeKeeps, MuteKeeps, PublishKeeps, DeliveryKeeps, ReplyKeeps, CycleKeeps, MutesStutter
  DEF MutesNext
<1> QED BY <1>1, <1>2, PTL DEF MutesSpec

\* MutesInv for any number of Agents and callers: once the cycle is up the roster
\* is the Manager's set but for events still to come, and no handler applies what
\* is no longer true.
THEOREM MutesSafe == MutesSpec => []MutesInv
<1>1. ConvergingInv => MutesInv
  BY DEF MutesInv, RosterConverges
<1> QED BY <1>1, MutesConverge, PTL

HIDE MutesAssumption
HIDE DEF ConvergingInv, MutesTypeOK, HandlerReadsTruth, HeldWhilePublishing,
  HandledIsPending,
         SeededConverges, StaleIsSeeded, SeedDone, Differs, Ops, NoOp, callerVars, cycleVars
-------------------------------------------------------------------------------
(*************************************************************************)
(* Controls. ControlsInv is not inductive: it says nothing of the row    *)
(* the host is at. RelayInv adds that a row a requester polls was        *)
(* written, that what was spoken had been claimed, and that of a batch   *)
(* nothing older than a row already taken is left but what the store     *)
(* lost.                                                                 *)
(*************************************************************************)

\* A row is written by its requester before it polls, and in the order of the numbers.
RowsFollowAsks == \A c \in Controls :
  /\ cAsks[c] \in {"idle", "found"} => cStatus[c] = "none"
  /\ cAsks[c] \in {"polling", "late", "ok", "refused", "cancelled", "unconfirmed"}
       => cStatus[c] # "none"
  /\ cStatus[c] # "none" => \A d \in Controls : d < c => cStatus[d] # "none"

\* A cause is recorded with the failure it explains.
CausesOfFailures == \A c \in Controls :
  /\ cCause[c] # "none" => cStatus[c] = "failed"
  /\ cStatus[c] = "failed" => cCause[c] # "none"
  /\ cAsks[c] = "cancelled" => cCause[c] = "timed_out"

\* Only what was claimed is spoken, and it is unknown to have been spoken only to the
\* host that is at it; the row the host is at is executing unless the intent is over.
SpokenWereClaimed ==
  /\ \A c \in Said : cStatus[c] \notin {"none", "pending"}
  /\ hPc \in {"claimed", "ran"} =>
       /\ hRow \in Controls
       /\ cStatus[hRow] = "executing"
          \/ (cStatus[hRow] = "failed" /\ cCause[hRow] = "no_session"
              /\ cIntent = "terminal")
  /\ hPc = "claimed" => hRow \notin Said
  /\ hPc = "ran" => (hError = "none" <=> hRow \in Said)

\* What is older than a spoken row, or than one about to be, and pending still has lost
\* its claim to a store error; of the batch nothing older than a member is missing but that.
OlderWereTaken ==
  /\ \A c \in Said, d \in Controls : d < c /\ cStatus[d] = "pending" => d \in blipped
  /\ hPc = "claimed" =>
       /\ \A d \in Controls : d < hRow /\ cStatus[d] = "pending" => d \in blipped
       /\ \A c \in Said : c > hRow => hRow \in blipped
  /\ hPc \in {"draining", "claimed", "ran"} =>
       \A c \in hBatch, d \in Controls :
         d < c /\ cStatus[d] = "pending" => d \in hBatch \cup blipped
  /\ \A c \in hBatch : cStatus[c] # "none"

\* ControlsInv, and how its rows, its requesters and its host stand to each other.
RelayInv ==
  /\ ControlsInv /\ RowsFollowAsks /\ CausesOfFailures /\ SpokenWereClaimed
       /\ OlderWereTaken

\* What Append adds: one index, one element, and no repetition unless it repeats one.
LEMMA AppendAdds ==
  ASSUME NEW S, NEW s \in Seq(S), NEW x \in S
  PROVE  /\ Append(s, x) \in Seq(S) /\ Len(s) \in Nat
         /\ DOMAIN s = 1..Len(s) /\ DOMAIN Append(s, x) = 1..(Len(s) + 1)
         /\ Append(s, x)[Len(s) + 1] = x
         /\ \A i \in 1..Len(s) : Append(s, x)[i] = s[i] /\ s[i] \in ToSet(s)
         /\ ToSet(Append(s, x)) = ToSet(s) \cup {x}
         /\ IsInjective(s) /\ x \notin ToSet(s) => IsInjective(Append(s, x))
<1>1. /\ Append(s, x) \in Seq(S) /\ Len(s) \in Nat
      /\ DOMAIN s = 1..Len(s) /\ DOMAIN Append(s, x) = 1..(Len(s) + 1)
      /\ Append(s, x)[Len(s) + 1] = x
      /\ \A i \in 1..Len(s) : Append(s, x)[i] = s[i]
  OBVIOUS
<1>2. \A i \in 1..Len(s) : s[i] \in ToSet(s)
  BY <1>1 DEF ToSet
<1>3. ToSet(Append(s, x)) = ToSet(s) \cup {x}
  <2>1. \A i \in 1..(Len(s) + 1) : Append(s, x)[i] \in ToSet(s) \cup {x}
    BY <1>1, <1>2
  <2>2. ToSet(Append(s, x)) \subseteq ToSet(s) \cup {x}
    BY <1>1, <2>1 DEF ToSet
  <2>3. ToSet(s) \subseteq ToSet(Append(s, x))
    BY <1>1 DEF ToSet
  <2>4. x \in ToSet(Append(s, x))
    BY <1>1 DEF ToSet
  <2> QED BY <2>2, <2>3, <2>4
<1>4. ASSUME IsInjective(s), x \notin ToSet(s) PROVE IsInjective(Append(s, x))
  BY <1>1, <1>2, <1>4 DEF IsInjective
<1> QED BY <1>1, <1>2, <1>3, <1>4

USE ControlsAssumption
USE DEF Controls, ControlsTypeOK, Unfinished, Asking, HonestAnswers, RowsFollowAsks,
        CausesOfFailures, SpokenWereClaimed, rowsVars, hostVars, Ask, Row, Host

\* Only controls are said.
LEMMA SaidAreControls ==
  ASSUME ControlsTypeOK
  PROVE  Said \subseteq Controls
  BY DEF Said, ToSet

\* A step that says nothing keeps the order of what was said.
LEMMA SilentKeeps ==
  ASSUME SaidOnce, InRequestOrder, UNCHANGED spoken, blipped \subseteq blipped'
  PROVE  SaidOnce' /\ InRequestOrder' /\ Said' = Said
  BY DEF SaidOnce, IsInjective, InRequestOrder, Said, ToSet

\* The host speaks a row it has claimed and not spoken yet; everything older of its batch
\* was taken before.
LEMMA SpeakingKeeps ==
  ASSUME RelayInv, hPc = "claimed", spoken' = Append(spoken, hRow), UNCHANGED blipped
  PROVE  SaidOnce' /\ InRequestOrder' /\ Said' = Said \cup {hRow}
         /\ spoken' \in Seq(Controls)
<1> USE DEF RelayInv, ControlsInv
<1>1. spoken \in Seq(Controls) /\ hRow \in Controls /\ hRow \notin Said /\ SaidOnce
  OBVIOUS
<1>2. SaidOnce' /\ Said' = Said \cup {hRow} /\ spoken' \in Seq(Controls)
  BY <1>1, AppendAdds DEF Said, SaidOnce
<1>3. \A c \in Said : c > hRow => hRow \in blipped
  BY DEF OlderWereTaken
<1>4. InRequestOrder'
  BY <1>1, <1>3, AppendAdds, SMTT(30) DEF InRequestOrder, Said
<1> QED BY <1>2, <1>4

\* A requester writes a row, reads one, gives up or cancels: it never touches a row the
\* host has claimed, and what it tells its caller is what the row said.
LEMMA RequesterKeeps ==
  ASSUME RelayInv, NEW c \in Controls, RequesterStep(c)
  PROVE  RelayInv'
<1> USE DEF RelayInv, ControlsInv
<1>0. /\ SaidOnce' /\ InRequestOrder' /\ Said' = Said
      /\ UNCHANGED <<cIntent, cSession, hostVars, spoken, blipped>>
  BY SilentKeeps DEF RequesterStep, FindLive, CreateVoiceSessionControl, Poll, GiveUp,
         CancelPending
<1>1. CASE FindLive(c)
  BY <1>0, <1>1 DEF FindLive, OlderWereTaken
<1>2. CASE CreateVoiceSessionControl(c)
  <2>1. /\ cStatus[c] = "none" /\ c \notin Said /\ c \notin hBatch
        /\ \A d \in Controls : d > c => cStatus[d] = "none"
    BY <1>2 DEF CreateVoiceSessionControl, OlderWereTaken
  <2>2. ControlsTypeOK' /\ HonestAnswers' /\ RowsFollowAsks' /\ CausesOfFailures'
    BY <1>0, <1>2, <2>1 DEF CreateVoiceSessionControl
  <2>3. SpokenWereClaimed'
    BY <1>0, <1>2, <2>1 DEF CreateVoiceSessionControl
  <2>4. OlderWereTaken'
    <3>1. /\ \A d \in Said \cup hBatch : d < c
          /\ hPc = "claimed" => hRow < c
          /\ \A d \in Controls : d # c => cStatus'[d] = cStatus[d]
      <4>1. \A d \in Said \cup hBatch : d \in Controls /\ cStatus[d] # "none"
        BY SaidAreControls DEF OlderWereTaken
      <4>2. hPc = "claimed" => hRow \in Controls /\ cStatus[hRow] # "none"
        OBVIOUS
      <4>3. \A d \in Controls : cStatus[d] # "none" => d < c
        BY <2>1
      <4> QED BY <1>2, <4>1, <4>2, <4>3 DEF CreateVoiceSessionControl
    <3>2. /\ \A e \in Said, d \in Controls : d < e /\ cStatus'[d] = "pending"
               => d \in blipped
          /\ hPc = "claimed" =>
               \A d \in Controls : d < hRow /\ cStatus'[d] = "pending" => d \in blipped
      BY <3>1, SaidAreControls DEF OlderWereTaken
    <3>3. /\ hPc \in {"draining", "claimed", "ran"} =>
               \A e \in hBatch, d \in Controls :
                 d < e /\ cStatus'[d] = "pending" => d \in hBatch \cup blipped
          /\ \A e \in hBatch : cStatus'[e] # "none"
      BY <2>1, <3>1 DEF OlderWereTaken
    <3> QED BY <1>0, <3>2, <3>3 DEF OlderWereTaken
  <2> QED BY <1>0, <2>2, <2>3, <2>4
<1>3. CASE Poll(c)
  BY <1>0, <1>3 DEF Poll, Answer, OlderWereTaken
<1>4. CASE GiveUp(c)
  BY <1>0, <1>4 DEF GiveUp, OlderWereTaken
<1>5. CASE CancelPending(c)
  <2>1. CASE UNCHANGED rowsVars /\ Ask(c, "unconfirmed")
    BY <1>0, <1>5, <2>1 DEF CancelPending, OlderWereTaken
  <2>2. CASE Cancels(c) /\ Row(c, "failed", "timed_out") /\ Ask(c, "cancelled")
    <3>1. cStatus[c] = "pending" /\ c \notin Said /\ (hPc \in {"claimed", "ran"}
          => hRow # c)
      BY <2>2 DEF Cancels
    <3>2. ControlsTypeOK' /\ HonestAnswers' /\ RowsFollowAsks' /\ CausesOfFailures'
      BY <1>0, <2>2, <3>1
    <3>3. SpokenWereClaimed' /\ OlderWereTaken'
      BY <1>0, <2>2, <3>1 DEF OlderWereTaken
    <3> QED BY <1>0, <3>2, <3>3
  <2> QED BY <1>5, <2>1, <2>2 DEF CancelPending
<1> QED BY <1>1, <1>2, <1>3, <1>4, <1>5 DEF RequesterStep

\* A drain lists what is pending, all of it at once, and leaves it when the budget is spent.
LEMMA DrainKeeps ==
  ASSUME RelayInv, Drain \/ BatchDrained \/ BudgetSpent
  PROVE  RelayInv'
<1> USE DEF RelayInv, ControlsInv
<1>0. /\ SaidOnce' /\ InRequestOrder' /\ Said' = Said
      /\ UNCHANGED <<cIntent, cSession, rowsVars, cAsks, spoken, blipped>>
  BY SilentKeeps DEF Drain, BatchDrained, BudgetSpent
<1>1. ControlsTypeOK' /\ HonestAnswers' /\ RowsFollowAsks' /\ CausesOfFailures'
      /\ SpokenWereClaimed'
  BY <1>0 DEF Drain, BatchDrained, BudgetSpent
<1>2. OlderWereTaken'
  BY <1>0 DEF Drain, BatchDrained, BudgetSpent, OlderWereTaken
<1> QED BY <1>0, <1>1, <1>2

\* The claim takes the oldest row left of the batch, so whatever is older was taken, or is
\* known to have been lost to the store.
LEMMA StartKeeps ==
  ASSUME RelayInv, StartVoiceSessionControl
  PROVE  RelayInv'
<1> USE DEF RelayInv, ControlsInv
<1>0. /\ SaidOnce' /\ InRequestOrder' /\ Said' = Said
      /\ UNCHANGED <<cIntent, cSession, cAsks, spoken>> /\ hPc = "draining"
      /\ blipped \subseteq blipped'
  BY SilentKeeps DEF StartVoiceSessionControl
<1>1. PICK c \in hBatch :
        /\ \A d \in hBatch : c <= d
        /\ hBatch' = hBatch \ {c}
        /\ \/ Starts(c) /\ Row(c, "executing", "none") /\ Host("claimed", c, "none")
              /\ UNCHANGED blipped
           \/ ~Starts(c) /\ Host("draining", c, "none") /\ UNCHANGED <<rowsVars, blipped>>
           \/ /\ ControlFaults /\ c \notin blipped /\ blipped' = blipped \cup {c}
              /\ Host("draining", c, "none") /\ UNCHANGED rowsVars
  BY DEF StartVoiceSessionControl
<1>2. c \in Controls /\ \A d \in Controls : d < c => d \notin hBatch
  BY <1>1
<1>3. CASE Starts(c) /\ Row(c, "executing", "none") /\ Host("claimed", c, "none")
           /\ UNCHANGED blipped
  <2>1. cStatus[c] = "pending" /\ c \notin Said
    BY <1>2, <1>3 DEF Starts
  <2>2. ControlsTypeOK' /\ HonestAnswers' /\ RowsFollowAsks' /\ CausesOfFailures'
        /\ SpokenWereClaimed'
    BY <1>0, <1>1, <1>2, <1>3, <2>1
  <2>3. OlderWereTaken'
    BY <1>0, <1>1, <1>2, <1>3, <2>1 DEF OlderWereTaken
  <2> QED BY <1>0, <2>2, <2>3
<1>4. CASE Host("draining", c, "none") /\ UNCHANGED rowsVars
           /\ (~Starts(c) \/ c \in blipped')
  <2>1. blipped' \subseteq Controls
    <3>1. blipped \subseteq Controls
      OBVIOUS
    <3>2. CASE UNCHANGED blipped
      BY <3>1, <3>2
    <3>3. CASE blipped' = blipped \cup {c}
      BY <1>2, <3>1, <3>3
    <3> QED BY <1>1, <3>2, <3>3
  <2>2. ControlsTypeOK' /\ HonestAnswers' /\ RowsFollowAsks' /\ CausesOfFailures'
        /\ SpokenWereClaimed'
    BY <1>0, <1>1, <1>2, <1>4, <2>1
  <2>3. OlderWereTaken'
    BY <1>0, <1>1, <1>2, <1>4 DEF OlderWereTaken, Starts
  <2> QED BY <1>0, <2>2, <2>3
<1> QED BY <1>1, <1>3, <1>4

\* The verb runs on the claimed row only, which nobody cancels or claims again.
LEMMA ExecuteKeeps ==
  ASSUME RelayInv, ExecuteControl
  PROVE  RelayInv'
<1> USE DEF RelayInv, ControlsInv
<1>0. hPc = "claimed" /\ UNCHANGED <<cIntent, cSession, rowsVars, cAsks, hBatch, blipped>>
      /\ hRow' = hRow /\ hPc' = "ran" /\ hRow \in Controls
  BY DEF ExecuteControl
<1>1. CASE spoken' = Append(spoken, hRow) /\ hError' = "none"
  <2>1. SaidOnce' /\ InRequestOrder' /\ Said' = Said \cup {hRow}
        /\ spoken' \in Seq(Controls)
    BY <1>0, <1>1, SpeakingKeeps
  <2>2. ControlsTypeOK' /\ HonestAnswers' /\ RowsFollowAsks' /\ CausesOfFailures'
        /\ SpokenWereClaimed'
    BY <1>0, <1>1, <2>1, SaidAreControls
  <2>3. OlderWereTaken'
    <3>1. \A c \in Said', d \in Controls : d < c /\ cStatus[d] = "pending" => d \in blipped
      BY <1>0, <2>1 DEF OlderWereTaken
    <3> QED BY <1>0, <3>1 DEF OlderWereTaken
  <2> QED BY <2>1, <2>2, <2>3
<1>2. CASE UNCHANGED spoken /\ hError' \in {"refused", "no_session"}
  <2>1. SaidOnce' /\ InRequestOrder' /\ Said' = Said
    BY <1>0, <1>2, SilentKeeps
  <2>2. ControlsTypeOK' /\ HonestAnswers' /\ RowsFollowAsks' /\ CausesOfFailures'
        /\ SpokenWereClaimed'
    BY <1>0, <1>2, <2>1
  <2>3. OlderWereTaken'
    BY <1>0, <1>2, <2>1 DEF OlderWereTaken
  <2> QED BY <2>1, <2>2, <2>3
<1> QED BY <1>1, <1>2 DEF ExecuteControl

\* The terminal write records what the verb did.  When it fails the row stays executing,
\* and the host forgets it.
LEMMA FinishKeeps ==
  ASSUME RelayInv, FinishVoiceSessionControl
  PROVE  RelayInv'
<1> USE DEF RelayInv, ControlsInv
<1>0. /\ SaidOnce' /\ InRequestOrder' /\ Said' = Said /\ hPc = "ran" /\ hPc' = "draining"
      /\ UNCHANGED <<cIntent, cSession, cAsks, hBatch, spoken, blipped, hRow>>
           /\ hRow \in Controls
      /\ hError' = "none"
  BY SilentKeeps DEF FinishVoiceSessionControl
<1>1. CASE UNCHANGED rowsVars
  BY <1>0, <1>1 DEF OlderWereTaken
<1>2. CASE /\ cStatus[hRow] = "executing"
           /\ Row(hRow, IF hError = "none" THEN "done" ELSE "failed", hError)
  <2>1. ControlsTypeOK' /\ HonestAnswers' /\ RowsFollowAsks' /\ CausesOfFailures'
        /\ SpokenWereClaimed'
    BY <1>0, <1>2
  <2>2. OlderWereTaken'
    BY <1>0, <1>2 DEF OlderWereTaken
  <2> QED BY <1>0, <2>1, <2>2
<1> QED BY <1>1, <1>2 DEF FinishVoiceSessionControl

\* The end of the session, of the claim or of the host changes no row.
LEMMA EndKeeps ==
  ASSUME RelayInv, SessionEnds \/ WindDown \/ Reap \/ HostDies
  PROVE  RelayInv'
<1> USE DEF RelayInv, ControlsInv
<1>0. /\ SaidOnce' /\ InRequestOrder' /\ Said' = Said
      /\ UNCHANGED <<rowsVars, cAsks, spoken, blipped>>
  BY SilentKeeps DEF SessionEnds, WindDown, Reap, HostDies
<1>a. /\ cIntent' \in {cIntent, "terminal"} /\ cSession' \in BOOLEAN
      /\ \/ UNCHANGED hostVars
         \/ hPc' = "gone" /\ hBatch' \subseteq hBatch /\ hRow' \in {hRow, 0} /\ hError' \in {hError, "none"}
  BY DEF SessionEnds, WindDown, Reap, HostDies, hostVars, ControlsTypeOK
<1>1. /\ ControlsTypeOK' /\ HonestAnswers' /\ RowsFollowAsks' /\ CausesOfFailures'
      /\ SpokenWereClaimed'
  <2>1. ControlsTypeOK'
    BY <1>0, <1>a DEF ControlsTypeOK, hostVars, rowsVars
  <2>2. HonestAnswers' /\ RowsFollowAsks' /\ CausesOfFailures'
    BY <1>0, <1>a DEF HonestAnswers, RowsFollowAsks, CausesOfFailures, rowsVars
  <2>3. SpokenWereClaimed'
    BY <1>0, <1>a DEF SpokenWereClaimed, hostVars, rowsVars
  <2> QED BY <2>1, <2>2, <2>3
<1>2. OlderWereTaken'
  <2>1. CASE UNCHANGED hostVars
    BY <1>0, <2>1 DEF OlderWereTaken
  <2>2. CASE hPc' = "gone" /\ hBatch' \subseteq hBatch
    BY <1>0, <2>2 DEF OlderWereTaken
  <2> QED BY <2>1, <2>2 DEF SessionEnds, WindDown, Reap, HostDies
<1> QED BY <1>0, <1>1, <1>2

\* The sweep fails rows that nobody works on, and never the one a live host is at.
LEMMA SweepControlsKeeps ==
  ASSUME RelayInv, SweepOrphanedVoiceSessionControls
  PROVE  RelayInv'
<1> USE DEF RelayInv, ControlsInv
<1>0. /\ SaidOnce' /\ InRequestOrder' /\ Said' = Said
      /\ UNCHANGED <<cIntent, cSession, cAsks, hostVars, spoken, blipped>>
  BY SilentKeeps DEF SweepOrphanedVoiceSessionControls
<1>1. PICK due \in {Orphans, {c \in Orphans : cIntent = "terminal"}} :
        /\ cStatus' = [c \in Controls |-> IF c \in due THEN "failed" ELSE cStatus[c]]
        /\ cCause' = [c \in Controls |->
             IF c \notin due THEN cCause[c]
             ELSE IF cIntent = "terminal" THEN "no_session" ELSE "stalled"]
  BY DEF SweepOrphanedVoiceSessionControls
<1>2. \A c \in due : /\ c \in Controls /\ cStatus[c] \in Unfinished
                     /\ cIntent = "terminal" \/ Stalled(c)
  BY <1>1 DEF Orphans
<1>3. ControlsTypeOK' /\ HonestAnswers' /\ RowsFollowAsks' /\ CausesOfFailures'
  BY <1>0, <1>1, <1>2
<1>4. SpokenWereClaimed'
  <2>1. \A c \in Said : cStatus'[c] \notin {"none", "pending"}
    BY <1>1, SaidAreControls
  <2>2. ASSUME hPc \in {"claimed", "ran"}
        PROVE  cStatus'[hRow] = "executing"
               \/ (cStatus'[hRow] = "failed" /\ cCause'[hRow] = "no_session"
                   /\ cIntent = "terminal")
    <3>1. CASE hRow \in due
      BY <1>1, <1>2, <2>2, <3>1 DEF Stalled
    <3>2. CASE hRow \notin due
      BY <1>1, <2>2, <3>2
    <3> QED BY <3>1, <3>2
  <2> QED BY <1>0, <2>1, <2>2
<1>5. OlderWereTaken'
  BY <1>0, <1>1, <1>2 DEF OlderWereTaken
<1> QED BY <1>0, <1>3, <1>4, <1>5

\* A step that changes nothing of the relay keeps it.
LEMMA ControlsStutter ==
  ASSUME RelayInv, UNCHANGED controlVars
  PROVE  RelayInv'
<1> USE DEF RelayInv, ControlsInv
<1>1. SaidOnce' /\ InRequestOrder' /\ Said' = Said
  BY SilentKeeps DEF controlVars
<1> QED BY <1>1 DEF controlVars, OlderWereTaken

\* The invariant of the relay holds in every state of every behaviour, however rows,
\* claims, cancels, crashes and sweeps interleave (intentcontrol.go, claimworker.go).
THEOREM RelayKept == ControlsSpec => []RelayInv
<1>1. ControlsInit => RelayInv
  <2> SUFFICES ASSUME ControlsInit PROVE RelayInv
    OBVIOUS
  <2>1. Said = {} /\ SaidOnce /\ InRequestOrder
    BY DEF ControlsInit, Said, ToSet, SaidOnce, IsInjective, InRequestOrder
  <2> QED BY <2>1 DEF ControlsInit, RelayInv, ControlsInv, OlderWereTaken
<1>2. RelayInv /\ [ControlsNext]_controlVars => RelayInv'
  BY RequesterKeeps, DrainKeeps, StartKeeps, ExecuteKeeps, FinishKeeps, EndKeeps,
       SweepControlsKeeps,
     ControlsStutter DEF ControlsNext, HostStep
<1> QED BY <1>1, <1>2, PTL DEF ControlsSpec

\* A say is spoken once at most, no requester is told something that turns out untrue, and
\* says land in request order (#503), for any number of controls.
THEOREM ControlsSafe == ControlsSpec => []ControlsInv
<1>1. RelayInv => ControlsInv
  BY DEF RelayInv
<1> QED BY <1>1, RelayKept, PTL
===============================================================================
