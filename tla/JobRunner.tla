----------------------------- MODULE JobRunner -----------------------------
(***************************************************************************)
(* The background job queue: the rows of table job (internal/storage/      *)
(* job.go) and the runners that drain them, one per web or all-in-one      *)
(* process (internal/jobs/jobs.go).                                        *)
(*                                                                         *)
(* A claim is one UPDATE over a FOR UPDATE SKIP LOCKED subquery, a         *)
(* terminal write one UPDATE fenced by the claim's generation, so each is  *)
(* one step.  Which of the runnable rows a claim takes is left open: rows  *)
(* that another claim has locked are skipped.                              *)
(***************************************************************************)
EXTENDS Integers, FiniteSets

CONSTANTS
  Jobs, Runners,
  MaxAttempts,    \* job.max_attempts
  NoJob,
  MaxJobFaults    \* bound on failed store calls and deaths of a process

ASSUME JobRunnerAssumption ==
  MaxAttempts \in Nat \ {0} /\ MaxJobFaults \in Nat /\ NoJob \notin Jobs

VARIABLES
  jStatus,      \* job.status, "none" before it is enqueued
  jAttempts,    \* job.attempts, the claim generation
  jDue,         \* run_after <= now()
  jLease,       \* leased_until: "none", "held" or "expired"
  rPc,          \* where a runner stands
  rJob, rGen,   \* the claimed job and its generation
  jReported,    \* history: what the handler said of each generation
  jFaults       \* the faults so far

rowVars == <<jStatus, jAttempts, jDue, jLease>>
runnerVars == <<rPc, rJob, rGen>>
jobVars == <<rowVars, runnerVars, jReported, jFaults>>

Attempts == 0..MaxAttempts
Verdicts == {"done", "failed"}

JobTypeOK ==
  /\ jStatus \in [Jobs -> {"none", "pending", "running", "done", "dead"}]
  /\ jAttempts \in [Jobs -> Attempts]
  /\ jDue \in [Jobs -> BOOLEAN]
  /\ jLease \in [Jobs -> {"none", "held", "expired"}]
  /\ rPc \in [Runners -> {"polling", "draining", "handling", "down"} \cup Verdicts]
  /\ rJob \in [Runners -> Jobs \cup {NoJob}] /\ rGen \in [Runners -> Attempts]
  /\ jReported \in [Jobs -> SUBSET (Attempts \X Verdicts)] /\ jFaults \in 0..MaxJobFaults

JobInit ==
  /\ jStatus = [j \in Jobs |-> "none"] /\ jAttempts = [j \in Jobs |-> 0]
  /\ jDue = [j \in Jobs |-> FALSE] /\ jLease = [j \in Jobs |-> "none"]
  /\ rPc = [r \in Runners |-> "polling"]
  /\ rJob = [r \in Runners |-> NoJob] /\ rGen = [r \in Runners |-> 0]
  /\ jReported = [j \in Jobs |-> {}] /\ jFaults = 0

\* A store call fails, or the process dies.
JobFault == jFaults < MaxJobFaults /\ jFaults' = jFaults + 1

-----------------------------------------------------------------------------
(* The rows *)

\* EnqueueJob is due at once, EnqueueJobAt perhaps later.
EnqueueJob(j) ==
  /\ jStatus[j] = "none"
  /\ jStatus' = [jStatus EXCEPT ![j] = "pending"]
  /\ \E due \in BOOLEAN : jDue' = [jDue EXCEPT ![j] = due]
  /\ UNCHANGED <<jAttempts, jLease, runnerVars, jReported, jFaults>>

\* run_after arrives.
Falls(j) ==
  /\ jStatus[j] = "pending" /\ ~jDue[j]
  /\ jDue' = [jDue EXCEPT ![j] = TRUE]
  /\ UNCHANGED <<jStatus, jAttempts, jLease, runnerVars, jReported, jFaults>>

LeaseExpires(j) ==
  /\ jLease[j] = "held"
  /\ jLease' = [jLease EXCEPT ![j] = "expired"]
  /\ UNCHANGED <<jStatus, jAttempts, jDue, runnerVars, jReported, jFaults>>

Exhausted(j) == jAttempts[j] >= MaxAttempts

\* Mutated: an expired lease is taken over only from the sweep.
RunnableOnce(j) == jStatus[j] = "pending" /\ jDue[j]

Runnable(j) ==
  \/ jStatus[j] = "pending" /\ jDue[j]
  \/ jStatus[j] = "running" /\ jLease[j] = "expired" /\ ~Exhausted(j)

Swept == {j \in Jobs : jStatus[j] = "running" /\ jLease[j] = "expired" /\ Exhausted(j)}

\* Mutated: the fence compares the status only.
StillRunning(r) == jStatus[rJob[r]] = "running"

\* The fence of the three terminal writes.
Holds(r) == jStatus[rJob[r]] = "running" /\ jAttempts[rJob[r]] = rGen[r]

Settle(j, status) ==
  /\ jStatus' = [jStatus EXCEPT ![j] = status]
  /\ jDue' = [jDue EXCEPT ![j] = FALSE]
  /\ jLease' = [jLease EXCEPT ![j] = "none"]

-----------------------------------------------------------------------------
(* A runner *)

RunnerTo(r, p) == rPc' = [rPc EXCEPT ![r] = p]

\* sweep, then the drain; the same sweep again every drainCheckpoint claims.
SweepExpiredJobs(r) ==
  /\ rPc[r] \in {"polling", "draining"} /\ RunnerTo(r, "draining")
  /\ \/ /\ jStatus' = [j \in Jobs |-> IF j \in Swept THEN "dead" ELSE jStatus[j]]
        /\ jLease' = [j \in Jobs |-> IF j \in Swept THEN "none" ELSE jLease[j]]
        /\ UNCHANGED jFaults
     \/ JobFault /\ UNCHANGED <<jStatus, jLease>>
  /\ UNCHANGED <<jAttempts, jDue, rJob, rGen, jReported>>

ClaimJob(r) ==
  /\ rPc[r] = "draining" /\ RunnerTo(r, "handling")
  /\ \E j \in Jobs :
       /\ Runnable(j)
       /\ jStatus' = [jStatus EXCEPT ![j] = "running"]
       /\ jAttempts' = [jAttempts EXCEPT ![j] = @ + 1]
       /\ jLease' = [jLease EXCEPT ![j] = "held"]
       /\ rJob' = [rJob EXCEPT ![r] = j] /\ rGen' = [rGen EXCEPT ![r] = jAttempts'[j]]
  /\ UNCHANGED <<jDue, jReported, jFaults>>

\* ErrNotFound, or any other error: the drain is over and the runner sleeps.
DrainEnds(r) ==
  /\ rPc[r] = "draining" /\ RunnerTo(r, "polling")
  /\ JobFault \/ ((\A j \in Jobs : ~Runnable(j)) /\ UNCHANGED jFaults)
  /\ UNCHANGED <<rowVars, rJob, rGen, jReported>>

\* The handler returns, fails, panics or runs into its own deadline; nothing
\* bounds it by the lease in the row.
HandlerReturns(r) ==
  /\ rPc[r] = "handling"
  /\ \E v \in Verdicts :
       /\ RunnerTo(r, v)
       /\ jReported' = [jReported EXCEPT ![rJob[r]] = @ \cup {<<rGen[r], v>>}]
  /\ UNCHANGED <<rowVars, rJob, rGen, jFaults>>

\* runOne's terminal write: complete, retry with a backoff, or dead-letter.  A
\* superseded claim matches no row; a failed write leaves the row to its lease.
TerminalWrite(r) ==
  /\ rPc[r] \in Verdicts /\ RunnerTo(r, "draining")
  /\ rJob' = [rJob EXCEPT ![r] = NoJob] /\ rGen' = [rGen EXCEPT ![r] = 0]
  /\ \/ /\ Holds(r)
        /\ Settle(rJob[r], IF rPc[r] = "done" THEN "done"
                           ELSE IF rGen[r] >= MaxAttempts THEN "dead" ELSE "pending")
        /\ UNCHANGED jFaults
     \/ ~Holds(r) /\ UNCHANGED <<jStatus, jDue, jLease, jFaults>>
     \/ JobFault /\ UNCHANGED <<jStatus, jDue, jLease>>
  /\ UNCHANGED <<jAttempts, jReported>>

RunnerDies(r) ==
  /\ JobFault /\ rPc[r] # "down" /\ RunnerTo(r, "down")
  /\ rJob' = [rJob EXCEPT ![r] = NoJob] /\ rGen' = [rGen EXCEPT ![r] = 0]
  /\ UNCHANGED <<rowVars, jReported>>

RunnerBoots(r) ==
  /\ rPc[r] = "down" /\ RunnerTo(r, "polling")
  /\ UNCHANGED <<rowVars, rJob, rGen, jReported, jFaults>>

RunnerStep(r) ==
  SweepExpiredJobs(r) \/ ClaimJob(r) \/ DrainEnds(r) \/ HandlerReturns(r) \/ TerminalWrite(r)

JobNext ==
  \/ \E j \in Jobs : EnqueueJob(j) \/ Falls(j) \/ LeaseExpires(j)
  \/ \E r \in Runners : RunnerStep(r) \/ RunnerDies(r) \/ RunnerBoots(r)

JobSpec == JobInit /\ [][JobNext]_jobVars

-----------------------------------------------------------------------------
(* What the queue promises *)

\* A row is settled only by word of the generation that holds the claim: a late
\* runner's verdict is dropped, however its lease was taken over (job.go, "the
\* three terminal writes are fenced by the claim generation").
SettledByHolder == \A j \in Jobs :
  /\ jStatus[j] = "done" => <<jAttempts[j], "done">> \in jReported[j]
  /\ jStatus[j] = "pending" /\ jAttempts[j] > 0 =>
       <<jAttempts[j], "failed">> \in jReported[j] /\ ~Exhausted(j)
  /\ jStatus[j] = "dead" => Exhausted(j)

\* No two runners work for the same generation, and none for one to come.
OneHandlerPerClaim ==
  /\ \A r \in Runners : rJob[r] # NoJob => rGen[r] \in 1..jAttempts[rJob[r]]
  /\ \A r1, r2 \in Runners :
       rJob[r1] # NoJob /\ rJob[r1] = rJob[r2] /\ rGen[r1] = rGen[r2] => r1 = r2

\* A lease is held exactly while the row is running.
LeasedIsRunning == \A j \in Jobs : jLease[j] # "none" <=> jStatus[j] = "running"

JobInv == JobTypeOK /\ SettledByHolder /\ OneHandlerPerClaim /\ LeasedIsRunning

\* Every enqueued job ends, though its runners die and their writes fail, and
\* what has ended is never taken up again (ADR-0049: "never silently retried
\* forever").
JobsEnd == \A j \in Jobs :
  (jStatus[j] = "pending") ~> (\/ [](jStatus[j] = "done") \/ [](jStatus[j] = "dead"))
=============================================================================
