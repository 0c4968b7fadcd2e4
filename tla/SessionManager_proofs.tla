----------------------- MODULE SessionManager_proofs -----------------------
(***************************************************************************)
(* Proofs about SessionManager, for any number of Tenants, places and      *)
(* rows.  BooksInv ties the three books a session is kept in together: the *)
(* reservations and entries of the Manager, the row, and the watchdog's    *)
(* enrollment; with what each of the two policies has come to.  MgrInv,    *)
(* CauseRecorded and the refinement of SessionPool follow from it.         *)
(***************************************************************************)
EXTENDS SessionManagerProps, TLAPS

\* From the commit to the end of Leave.
Hosted == {"running"} \cup Unwinding

\* Rows are used up in order, and until the commit a row belongs to its Start.
RowOfStart == \A s \in Rows :
  /\ tenant[s] = NoTenant <=> s > used
  /\ s > used => row[s] = "none" /\ loop[s] = "none" /\ guard[s] = "none"
  /\ s <= used /\ loop[s] = "none" =>
       /\ row[s] = "running" /\ start[tenant[s]] \in {"created", "aborting"}
       /\ guard[s] = IF start[tenant[s]] = "created" THEN "inert" ELSE "released"

OneUnborn == \A s1, s2 \in Rows :
  loop[s1] = "none" /\ loop[s2] = "none" /\ tenant[s1] = tenant[s2] /\ s1 <= used => s1 = s2

\* A hosted session is its Tenant's entry, and enrolled.
EntryOfSession == \A s \in Rows :
  /\ loop[s] \in Hosted => active[tenant[s]] = s /\ guard[s] \in {"live", "closed"}
  /\ loop[s] = "done" => guard[s] = "released"
  /\ loop[s] \in {"written", "done"} /\ row[s] = "running" => StoreFails

\* An entry is a hosted session, and its Tenant has no Start.
SessionOfEntry == \A t \in Tenants : active[t] # 0 =>
  start[t] = "idle" /\ tenant[active[t]] = t /\ loop[active[t]] \in Hosted

\* What the policies did to a session that is still hosted.
PoliciesOfSession == \A s \in Rows :
  /\ loop[s] = "none" => \A p \in Policies : policy[s][p] = "none"
  /\ loop[s] \in Hosted => \A p \in Policies :
       policy[s][p] \in {"recorded", "over"} => override[s] \in Policies

\* What became of the verdict.
Verdict == \A s \in Rows :
  /\ loop[s] \in {"ended", "written"} /\ ~failed[s] /\ loopErr[s] => cancelled[s]
  /\ loop[s] \in {"running", "returned", "ended"} => row[s] = "running"
  /\ loop[s] = "written" /\ row[s] = "ended" => ~failed[s] /\ reason[s] = override[s]

\* Shutdown waits for every session there can still be.
ShutdownWaits ==
  /\ closed <=> shutdown # "no"
  /\ shutdown = "waiting" => \A t \in Tenants : active[t] # 0 => active[t] \in waits
  /\ shutdown = "done" => \A t \in Tenants : active[t] = 0

BooksInv ==
  /\ MgrTypeOK /\ RowOfStart /\ OneUnborn /\ EntryOfSession /\ SessionOfEntry
  /\ PoliciesOfSession /\ Verdict /\ LatchedIsEnding /\ ShutdownWaits

USE ManagerAssumption
USE DEF MgrTypeOK, RowOfStart, OneUnborn, EntryOfSession, SessionOfEntry, PoliciesOfSession,
        Verdict, LatchedIsEnding, ShutdownWaits, Hosted, Unwinding, Loops, Starts, Policies,
        Reasons, Rows, Ended, calls, run, record, Live

-----------------------------------------------------------------------------
(* Start *)

\* Before there is a row only the reservation moves.
LEMMA ReservationKeeps ==
  ASSUME BooksInv, NEW t \in Tenants, Reserve(t) \/ StartFails(t)
  PROVE  BooksInv'
<1>1. CASE Reserve(t)
  BY <1>1 DEF Reserve, BooksInv
<1>2. CASE StartFails(t)
  BY <1>2 DEF StartFails, BooksInv
<1> QED BY <1>1, <1>2

\* The new row is the Start's own: a Tenant that reserves has no other.
LEMMA CreateKeeps ==
  ASSUME BooksInv, NEW t \in Tenants, CreateRow(t)
  PROVE  BooksInv'
<1> USE DEF BooksInv
<1> DEFINE n == used + 1
<1>1. /\ n \in Rows /\ used' = n /\ start[t] = "reserved"
      /\ start' = [start EXCEPT ![t] = "created"]
      /\ tenant' = [tenant EXCEPT ![n] = t]
      /\ row' = [row EXCEPT ![n] = "running"]
      /\ guard' = [guard EXCEPT ![n] = "inert"]
      /\ UNCHANGED <<closed, active, shutdown, waits, run, reason, policy>>
  BY DEF CreateRow
<1>2. n > used /\ loop[n] = "none" /\ row[n] = "none" /\ guard[n] = "none"
  BY <1>1
<1>3. \A s \in Rows : loop[s] = "none" /\ s <= used => tenant[s] # t
  BY <1>1
<1> HIDE DEF n
<1>4. MgrTypeOK'
  BY <1>1
<1>5. RowOfStart'
  BY <1>1, <1>2, <1>3 DEF n
<1>6. OneUnborn'
  BY <1>1, <1>2, <1>3 DEF n
<1>7. EntryOfSession' /\ SessionOfEntry'
  BY <1>1, <1>2
<1>8. PoliciesOfSession' /\ Verdict' /\ LatchedIsEnding' /\ ShutdownWaits'
  BY <1>1, <1>2
<1> QED BY <1>4, <1>5, <1>6, <1>7, <1>8

\* Commit: the row's Start ends and its session begins.
LEMMA CommitKeeps ==
  ASSUME BooksInv, NEW t \in Tenants, Commit(t)
  PROVE  BooksInv'
<1> USE DEF BooksInv
<1>1. PICK s \in Rows :
       /\ Unborn(s, t) /\ guard[s] = "inert"
       /\ active' = [active EXCEPT ![t] = s]
       /\ loop' = [loop EXCEPT ![s] = "running"]
       /\ guard' = [guard EXCEPT ![s] = "live"]
  BY DEF Commit
<1>2. /\ start[t] = "created" /\ ~closed /\ start' = [start EXCEPT ![t] = "idle"]
      /\ UNCHANGED <<used, tenant, shutdown, waits, cancelled, loopErr, failed, override,
                     record, policy, closed>>
  BY DEF Commit
<1>3. tenant[s] = t /\ row[s] = "running" /\ loop[s] = "none" /\ s <= used
  BY <1>1 DEF Unborn
<1>4. \A r \in Rows : loop[r] = "none" /\ r <= used /\ r # s => tenant[r] # t
  BY <1>3
<1>5. active[t] = 0
  BY <1>2
<1>6. MgrTypeOK'
  BY <1>1, <1>2
<1>7. RowOfStart' /\ OneUnborn'
  BY <1>1, <1>2, <1>3, <1>4
<1>8. EntryOfSession' /\ SessionOfEntry'
  BY <1>1, <1>2, <1>3, <1>5
<1>9. PoliciesOfSession' /\ Verdict'
  BY <1>1, <1>2, <1>3
<1>10. LatchedIsEnding' /\ ShutdownWaits'
  BY <1>1, <1>2, <1>3
<1> QED BY <1>6, <1>7, <1>8, <1>9, <1>10

\* The Manager closed in between: the row never has a loop.
LEMMA AbortKeeps ==
  ASSUME BooksInv, NEW t \in Tenants, Abort(t)
  PROVE  BooksInv'
<1> USE DEF BooksInv
<1>1. PICK s \in Rows :
       /\ Unborn(s, t) /\ guard[s] = "inert"
       /\ cancelled' = [cancelled EXCEPT ![s] = TRUE]
       /\ guard' = [guard EXCEPT ![s] = "released"]
  BY DEF Abort
<1>2. /\ start[t] = "created" /\ start' = [start EXCEPT ![t] = "aborting"]
      /\ UNCHANGED <<closed, active, used, tenant, shutdown, waits, loop, loopErr, failed,
                     override, record, policy>>
  BY DEF Abort
<1>3. tenant[s] = t /\ row[s] = "running" /\ loop[s] = "none" /\ s <= used
  BY <1>1 DEF Unborn
<1>4. \A r \in Rows : loop[r] = "none" /\ r <= used /\ r # s => tenant[r] # t
  BY <1>3
<1>5. MgrTypeOK'
  BY <1>1, <1>2
<1>6. RowOfStart' /\ OneUnborn'
  BY <1>1, <1>2, <1>3, <1>4
<1>7. EntryOfSession' /\ SessionOfEntry' /\ PoliciesOfSession' /\ Verdict'
  BY <1>1, <1>2, <1>3
<1>8. LatchedIsEnding' /\ ShutdownWaits'
  BY <1>1, <1>2
<1> QED BY <1>5, <1>6, <1>7, <1>8

LEMMA CloseAbortedKeeps ==
  ASSUME BooksInv, NEW t \in Tenants, CloseAborted(t)
  PROVE  BooksInv'
<1> USE DEF BooksInv
<1>1. PICK s \in Rows :
       /\ Unborn(s, t) /\ guard[s] = "released"
       /\ loop' = [loop EXCEPT ![s] = "done"] /\ Close(s, "ended", "none")
  BY DEF CloseAborted
<1>2. /\ start[t] = "aborting" /\ start' = [start EXCEPT ![t] = "idle"]
      /\ UNCHANGED <<closed, active, used, tenant, shutdown, waits, cancelled, loopErr,
                     failed, override, policy, guard>>
  BY DEF CloseAborted
<1>3. tenant[s] = t /\ row[s] = "running" /\ loop[s] = "none" /\ s <= used
  BY <1>1 DEF Unborn
<1>4. \A r \in Rows : loop[r] = "none" /\ r <= used /\ r # s => tenant[r] # t
  BY <1>3
<1>5. /\ row' \in [Rows -> {"none", "running", "ended", "failed"}]
      /\ reason' \in [Rows -> Reasons]
      /\ \A r \in Rows : r # s => row'[r] = row[r] /\ reason'[r] = reason[r]
      /\ row'[s] = "running" => StoreFails
  <2>1. CASE row' = [row EXCEPT ![s] = "ended"] /\ reason' = [reason EXCEPT ![s] = "none"]
    BY <2>1
  <2>2. CASE StoreFails /\ UNCHANGED record
    BY <2>2
  <2> QED BY <1>1, <2>1, <2>2 DEF Close
<1>6. MgrTypeOK'
  BY <1>1, <1>2, <1>5
<1>7. RowOfStart' /\ OneUnborn'
  BY <1>1, <1>2, <1>3, <1>4, <1>5
<1>8. EntryOfSession' /\ SessionOfEntry' /\ PoliciesOfSession'
  BY <1>1, <1>2, <1>3, <1>5
<1>9. Verdict' /\ LatchedIsEnding' /\ ShutdownWaits'
  BY <1>1, <1>2, <1>3, <1>5
<1> QED BY <1>6, <1>7, <1>8, <1>9

-----------------------------------------------------------------------------
(* The loop and its end *)

LEMMA ReturnKeeps ==
  ASSUME BooksInv, NEW s \in Rows, LoopReturns(s)
  PROVE  BooksInv'
<1> USE DEF BooksInv
<1>1. PICK e \in BOOLEAN : loopErr' = [loopErr EXCEPT ![s] = e]
  BY DEF LoopReturns
<1>2. /\ loop[s] = "running" /\ loop' = [loop EXCEPT ![s] = "returned"]
      /\ UNCHANGED <<calls, cancelled, failed, override, record, policy, guard>>
  BY DEF LoopReturns
<1>3. MgrTypeOK'
  BY <1>1, <1>2
<1>4. RowOfStart' /\ OneUnborn' /\ EntryOfSession' /\ SessionOfEntry'
  BY <1>1, <1>2
<1>5. PoliciesOfSession' /\ Verdict' /\ LatchedIsEnding' /\ ShutdownWaits'
  BY <1>1, <1>2
<1> QED BY <1>3, <1>4, <1>5

\* The verdict: an error counts unless somebody cancelled.
LEMMA EndLoopKeeps ==
  ASSUME BooksInv, NEW s \in Rows, EndLoop(s)
  PROVE  BooksInv'
<1> USE DEF BooksInv
<1>1. /\ loop[s] = "returned" /\ loop' = [loop EXCEPT ![s] = "ended"]
      /\ failed' = [failed EXCEPT ![s] = loopErr[s] /\ ~cancelled[s]]
      /\ UNCHANGED <<calls, cancelled, loopErr, override, record, policy, guard>>
  BY DEF EndLoop
<1>2. MgrTypeOK'
  BY <1>1
<1>3. RowOfStart' /\ OneUnborn' /\ EntryOfSession' /\ SessionOfEntry'
  BY <1>1
<1>4. PoliciesOfSession' /\ LatchedIsEnding' /\ ShutdownWaits'
  BY <1>1
<1>5. Verdict'
  <2>1. failed'[s] = (loopErr[s] /\ ~cancelled[s])
    BY <1>1
  <2> QED BY <1>1, <2>1
<1> QED BY <1>2, <1>3, <1>4, <1>5

LEMMA WriteEndKeeps ==
  ASSUME BooksInv, NEW s \in Rows, WriteEnd(s)
  PROVE  BooksInv'
<1> USE DEF BooksInv
<1>1. /\ loop[s] = "ended" /\ loop' = [loop EXCEPT ![s] = "written"]
      /\ UNCHANGED <<calls, cancelled, loopErr, failed, override, policy, guard>>
  BY DEF WriteEnd
<1>2. /\ row' \in [Rows -> {"none", "running", "ended", "failed"}]
      /\ reason' \in [Rows -> Reasons]
      /\ \A r \in Rows : r # s => row'[r] = row[r] /\ reason'[r] = reason[r]
      /\ row'[s] = "running" => StoreFails
      /\ row'[s] # "none"
      /\ row'[s] = "ended" => ~failed[s] /\ reason'[s] = override[s]
  <2>1. row[s] = "running"
    BY <1>1
  <2>2. CASE failed[s] /\ Close(s, "failed", "loop_error")
    <3>1. CASE row' = [row EXCEPT ![s] = "failed"] /\ reason' = [reason EXCEPT ![s] = "loop_error"]
      BY <3>1
    <3>2. CASE StoreFails /\ UNCHANGED record
      BY <2>1, <3>2
    <3> QED BY <2>2, <3>1, <3>2 DEF Close
  <2>3. CASE ~failed[s] /\ Close(s, "ended", override[s])
    <3>1. CASE row' = [row EXCEPT ![s] = "ended"] /\ reason' = [reason EXCEPT ![s] = override[s]]
      BY <2>3, <3>1
    <3>2. CASE StoreFails /\ UNCHANGED record
      BY <2>1, <3>2
    <3> QED BY <2>3, <3>1, <3>2 DEF Close
  <2> QED BY <2>2, <2>3 DEF WriteEnd
<1>3. MgrTypeOK'
  BY <1>1, <1>2
<1>4. RowOfStart' /\ OneUnborn' /\ EntryOfSession' /\ SessionOfEntry'
  BY <1>1, <1>2
<1>5. PoliciesOfSession' /\ Verdict' /\ LatchedIsEnding' /\ ShutdownWaits'
  BY <1>1, <1>2
<1> QED BY <1>3, <1>4, <1>5

\* The entry goes, written or not.
LEMMA LeaveKeeps ==
  ASSUME BooksInv, NEW s \in Rows, Leave(s)
  PROVE  BooksInv'
<1> USE DEF BooksInv
<1>1. /\ loop[s] = "written" /\ loop' = [loop EXCEPT ![s] = "done"]
      /\ active' = [t \in Tenants |-> IF active[t] = s THEN 0 ELSE active[t]]
      /\ guard' = [guard EXCEPT ![s] = "released"]
      /\ cancelled' = [cancelled EXCEPT ![s] = FALSE]
      /\ loopErr' = [loopErr EXCEPT ![s] = FALSE]
      /\ failed' = [failed EXCEPT ![s] = FALSE]
      /\ override' = [override EXCEPT ![s] = "none"]
      /\ UNCHANGED <<closed, start, used, tenant, shutdown, waits, record>>
  BY DEF Leave
<1>2. policy' = [policy EXCEPT ![s] = [p \in Policies |->
                   IF @[p] \in {"fired", "recorded"} THEN @[p] ELSE "dropped"]]
  BY DEF Leave
<1>3. /\ policy' \in [Rows -> [Policies -> {"none", "fired", "dropped", "recorded", "over"}]]
      /\ \A r \in Rows : r # s => policy'[r] = policy[r]
  BY <1>2
<1>4. MgrTypeOK'
  BY <1>1, <1>3
<1>5. RowOfStart' /\ OneUnborn'
  BY <1>1
<1>6. EntryOfSession' /\ SessionOfEntry'
  BY <1>1
<1>7. PoliciesOfSession' /\ Verdict'
  BY <1>1, <1>3
<1>8. LatchedIsEnding' /\ ShutdownWaits'
  BY <1>1, <1>3
<1> QED BY <1>4, <1>5, <1>6, <1>7, <1>8

-----------------------------------------------------------------------------
(* Policies, Stop and Shutdown *)

\* A session that a policy may still record a reason for is hosted.
LEMMA PolicyKeeps ==
  ASSUME BooksInv, NEW s \in Rows, NEW p \in Policies,
         PolicyRecords(s, p) \/ PolicyCancels(s, p)
  PROVE  BooksInv'
<1> USE DEF BooksInv
<1>1. CASE PolicyRecords(s, p)
  <2>1. /\ policy[s][p] = "fired"
        /\ UNCHANGED <<calls, loop, cancelled, loopErr, failed, record, guard>>
    BY <1>1 DEF PolicyRecords
  <2>2. loop[s] # "none" /\ s <= used /\ tenant[s] \in Tenants
    BY <2>1
  <2>3. CASE Endable(s)
    <3>1. /\ policy' = [policy EXCEPT ![s][p] = "recorded"]
          /\ override' = [override EXCEPT ![s] = p]
      BY <1>1, <2>3 DEF PolicyRecords
    <3>2. loop[s] \in {"running", "returned"}
      BY <2>2, <2>3 DEF Endable
    <3>3. MgrTypeOK' /\ RowOfStart' /\ OneUnborn' /\ EntryOfSession' /\ SessionOfEntry'
      BY <2>1, <3>1
    <3>4. PoliciesOfSession'
      BY <2>1, <2>2, <3>1
    <3>5. Verdict' /\ LatchedIsEnding' /\ ShutdownWaits'
      BY <2>1, <3>1, <3>2
    <3> QED BY <3>3, <3>4, <3>5
  <2>4. CASE ~Endable(s)
    <3>1. policy' = [policy EXCEPT ![s][p] = "dropped"] /\ UNCHANGED override
      BY <1>1, <2>4 DEF PolicyRecords
    <3>2. Ended(s)
      BY <2>2, <2>4 DEF Endable
    <3>3. MgrTypeOK' /\ RowOfStart' /\ OneUnborn' /\ EntryOfSession' /\ SessionOfEntry'
      BY <2>1, <3>1
    <3>4. PoliciesOfSession' /\ Verdict' /\ LatchedIsEnding' /\ ShutdownWaits'
      BY <2>1, <2>2, <3>1, <3>2
    <3> QED BY <3>3, <3>4
  <2> QED BY <2>3, <2>4
<1>2. CASE PolicyCancels(s, p)
  <2>1. /\ policy[s][p] = "recorded" /\ policy' = [policy EXCEPT ![s][p] = "over"]
        /\ cancelled' = [cancelled EXCEPT ![s] = TRUE]
        /\ UNCHANGED <<calls, loop, loopErr, failed, override, record, guard>>
    BY <1>2 DEF PolicyCancels
  <2>2. MgrTypeOK' /\ RowOfStart' /\ OneUnborn' /\ EntryOfSession' /\ SessionOfEntry'
    BY <2>1
  <2>3. PoliciesOfSession' /\ Verdict' /\ LatchedIsEnding' /\ ShutdownWaits'
    BY <2>1
  <2> QED BY <2>2, <2>3
<1> QED BY <1>1, <1>2

\* A policy fires for a session that is hosted.
LEMMA FiringKeeps ==
  ASSUME BooksInv, NEW s \in Rows, HardCap(s) \/ Sweep(s)
  PROVE  BooksInv'
<1> USE DEF BooksInv
<1>1. CASE HardCap(s)
  <2>1. /\ loop[s] \in Hosted /\ policy[s]["hard_cap"] = "none"
        /\ policy' = [policy EXCEPT ![s]["hard_cap"] = "fired"]
        /\ UNCHANGED <<calls, run, record, guard>>
    BY <1>1 DEF HardCap, Fires
  <2>2. MgrTypeOK' /\ RowOfStart' /\ OneUnborn' /\ EntryOfSession' /\ SessionOfEntry'
    BY <2>1
  <2>3. PoliciesOfSession' /\ Verdict' /\ LatchedIsEnding' /\ ShutdownWaits'
    BY <2>1
  <2> QED BY <2>2, <2>3
<1>2. CASE Sweep(s)
  <2>1. /\ guard[s] = "live" /\ guard' = [guard EXCEPT ![s] = "closed"]
        /\ policy' = [policy EXCEPT ![s]["idle_close"] = "fired"]
        /\ UNCHANGED <<calls, run, record>>
    BY <1>2 DEF Sweep, Sweepable, Fires
  <2>2. loop[s] \in Hosted
    <3>1. s <= used
      BY <2>1
    <3>2. loop[s] # "none"
      BY <2>1, <3>1
    <3>3. loop[s] # "done"
      BY <2>1
    <3>4. loop[s] \in Loops
      BY DEF Loops
    <3> QED BY <3>2, <3>3, <3>4
  <2>3. MgrTypeOK' /\ RowOfStart' /\ OneUnborn' /\ EntryOfSession' /\ SessionOfEntry'
    BY <2>1, <2>2
  <2>4. PoliciesOfSession' /\ Verdict' /\ LatchedIsEnding' /\ ShutdownWaits'
    BY <2>1, <2>2
  <2> QED BY <2>3, <2>4
<1> QED BY <1>1, <1>2

\* A cancel takes nothing away.
LEMMA StopKeeps ==
  ASSUME BooksInv, (\E t \in Tenants : Stop(t)) \/ Shutdown \/ ShutdownReturns
  PROVE  BooksInv'
<1> USE DEF BooksInv
<1>1. CASE \E t \in Tenants : Stop(t)
  <2>1. PICK t \in Tenants : Stop(t)
    BY <1>1
  <2>2. /\ active[t] \in Rows
        /\ cancelled' = [cancelled EXCEPT ![active[t]] = TRUE]
        /\ UNCHANGED <<calls, loop, loopErr, failed, override, record, policy, guard>>
    BY <2>1 DEF Stop
  <2> QED BY <2>2
<1>2. CASE Shutdown
  <2>1. /\ shutdown = "no" /\ shutdown' = "waiting" /\ closed' = TRUE
        /\ waits' = {active[t] : t \in Live}
        /\ cancelled' = [s \in Rows |-> cancelled[s] \/ s \in waits']
        /\ UNCHANGED <<start, active, used, tenant, loop, loopErr, failed, override, record,
                       policy, guard>>
    BY <1>2 DEF Shutdown
  <2>2. /\ waits' \subseteq Rows /\ \A t \in Tenants : active[t] # 0 => active[t] \in waits'
    BY <2>1
  <2>3. /\ cancelled' \in [Rows -> BOOLEAN]
        /\ \A s \in Rows : cancelled[s] => cancelled'[s]
    BY <2>1
  <2>4. MgrTypeOK' /\ RowOfStart' /\ OneUnborn' /\ EntryOfSession' /\ SessionOfEntry'
    BY <2>1, <2>2, <2>3
  <2>5. PoliciesOfSession' /\ Verdict' /\ LatchedIsEnding'
    BY <2>1, <2>3
  <2>6. ShutdownWaits'
    BY <2>1, <2>2
  <2> QED BY <2>4, <2>5, <2>6
<1>3. CASE ShutdownReturns
  <2>1. /\ shutdown = "waiting" /\ \A s \in waits : loop[s] = "done"
        /\ shutdown' = "done"
        /\ UNCHANGED <<closed, start, active, used, tenant, waits, run, record, policy, guard>>
    BY <1>3 DEF ShutdownReturns
  <2>2. \A t \in Tenants : active[t] = 0
    <3>1. ASSUME NEW t \in Tenants, active[t] # 0
          PROVE  FALSE
      BY <2>1, <3>1
    <3> QED BY <3>1
  <2>3. MgrTypeOK' /\ RowOfStart' /\ OneUnborn' /\ EntryOfSession' /\ SessionOfEntry'
    BY <2>1
  <2>4. PoliciesOfSession' /\ Verdict' /\ LatchedIsEnding'
    BY <2>1
  <2>5. ShutdownWaits'
    BY <2>1, <2>2
  <2> QED BY <2>3, <2>4, <2>5
<1> QED BY <1>1, <1>2, <1>3

LEMMA BooksStutter ==
  ASSUME BooksInv, UNCHANGED vars
  PROVE  BooksInv'
  BY DEF vars, BooksInv

LEMMA NextKeeps == BooksInv /\ [MgrNext]_vars => BooksInv'
<1> SUFFICES ASSUME BooksInv, [MgrNext]_vars
             PROVE  BooksInv'
  OBVIOUS
<1>1. CASE \E t \in Tenants : Reserve(t) \/ StartFails(t) \/ StartStep(t) \/ Stop(t)
  BY <1>1, ReservationKeeps, CreateKeeps, CommitKeeps, AbortKeeps, CloseAbortedKeeps,
     StopKeeps DEF StartStep
<1>2. CASE \E s \in Rows :
             \/ LoopReturns(s) \/ EndStep(s) \/ HardCap(s) \/ Sweep(s)
             \/ \E p \in Policies : PolicyRecords(s, p) \/ PolicyCancels(s, p)
  BY <1>2, ReturnKeeps, EndLoopKeeps, WriteEndKeeps, LeaveKeeps, FiringKeeps, PolicyKeeps
  DEF EndStep
<1>3. CASE Shutdown \/ ShutdownReturns \/ UNCHANGED vars
  BY <1>3, StopKeeps, BooksStutter
<1> QED BY <1>1, <1>2, <1>3 DEF MgrNext

LEMMA InitBooks == MgrInit => BooksInv
<1> SUFFICES ASSUME MgrInit
             PROVE  BooksInv
  OBVIOUS
<1> USE DEF MgrInit
<1>1. MgrTypeOK
  <2>1. /\ policy \in [Rows -> [Policies -> {"none", "fired", "dropped", "recorded", "over"}]]
        /\ guard \in [Rows -> {"none", "inert", "live", "closed", "released"}]
    OBVIOUS
  <2>2. active \in [Tenants -> 0..MaxRows] /\ used \in 0..MaxRows /\ waits \subseteq Rows
    OBVIOUS
  <2>3. start \in [Tenants -> Starts] /\ loop \in [Rows -> Loops]
        /\ tenant \in [Rows -> Tenants \cup {NoTenant}]
    OBVIOUS
  <2>4. /\ row \in [Rows -> {"none", "running", "ended", "failed"}]
        /\ reason \in [Rows -> Reasons] /\ override \in [Rows -> Policies \cup {"none"}]
    OBVIOUS
  <2>5. /\ cancelled \in [Rows -> BOOLEAN] /\ loopErr \in [Rows -> BOOLEAN]
        /\ failed \in [Rows -> BOOLEAN] /\ closed \in BOOLEAN
        /\ shutdown \in {"no", "waiting", "done"}
    OBVIOUS
  <2> QED BY <2>1, <2>2, <2>3, <2>4, <2>5
<1>2. RowOfStart /\ OneUnborn
  OBVIOUS
<1>3. EntryOfSession /\ SessionOfEntry /\ PoliciesOfSession /\ Verdict
  OBVIOUS
<1>4. LatchedIsEnding /\ ShutdownWaits
  OBVIOUS
<1> QED BY <1>1, <1>2, <1>3, <1>4 DEF BooksInv

-----------------------------------------------------------------------------

\* Every state of the Manager has the invariant, however Starts, ends, policies,
\* sweeps, stops and the Shutdown interleave.
THEOREM BooksAgree == MgrSpec => []BooksInv
  BY InitBooks, NextKeeps, PTL DEF MgrSpec

\* MgrInv for any number of Tenants, places and rows: no orphan row, no latched
\* session left alone, no leaked enrollment, nothing left after Shutdown.
THEOREM ManagerSafe == MgrSpec => []MgrInv
<1>1. BooksInv => MgrInv
  <2> SUFFICES ASSUME BooksInv
               PROVE  MgrInv
    OBVIOUS
  <2> USE DEF BooksInv
  <2>1. NoOrphanRow
    BY DEF NoOrphanRow, Unborn
  <2>2. NoLeakedEnrollment
    BY DEF NoLeakedEnrollment
  <2>3. ShutdownDrains
    <3>1. ASSUME shutdown = "done", NEW s \in Rows, loop[s] \in Hosted
          PROVE  FALSE
      <4>1. tenant[s] \in Tenants /\ active[tenant[s]] = s /\ s # 0
        BY <3>1
      <4> QED BY <3>1, <4>1
    <3> QED BY <3>1 DEF ShutdownDrains
  <2> QED BY <2>1, <2>2, <2>3 DEF MgrInv
<1> QED BY <1>1, BooksAgree, PTL

\* The row's end says who caused it: CauseRecorded, whichever policy, stop or
\* fault came first.
THEOREM CausesRecorded == MgrSpec => []CauseRecorded
<1>1. BooksInv => CauseRecorded
  BY DEF BooksInv, CauseRecorded
<1> QED BY <1>1, BooksAgree, PTL

-----------------------------------------------------------------------------
(* The places of the process *)

Places == Live \cup Reserved

\* What a Start or an end does to the places is one step of the pool.
LEMMA StepOfPool ==
  ASSUME BooksInv, [MgrNext]_vars
  PROVE  [Pool!Next]_<<Places, ~closed>>
<1> USE DEF BooksInv, Reserved, Pool!Next, Pool!Take, Pool!Leave, Pool!Close
<1>1. CASE \E t \in Tenants : Reserve(t)
  <2>1. PICK t \in Tenants : Reserve(t)
    BY <1>1
  <2>2. ~closed /\ closed' = closed /\ Cardinality(Places) < MaxSessions
    BY <2>1 DEF Reserve, HasRoom, Places
  <2>3. t \notin Places /\ Places' = Places \cup {t}
    BY <2>1 DEF Reserve, Places
  <2>4. Pool!Take(t)
    <3> HIDE DEF Live, Reserved, BooksInv
    <3> QED BY <2>2, <2>3 DEF Places, Cardinality, Pool!Cardinality
  <2> QED BY <2>4
<1>2. CASE \E t \in Tenants : StartFails(t) \/ Abort(t)
  <2>1. PICK t \in Tenants : StartFails(t) \/ Abort(t)
    BY <1>2
  <2>2. Pool!Leave(t)
    BY <2>1 DEF StartFails, Abort, Places
  <2> QED BY <2>2
<1>3. CASE \E t \in Tenants : CreateRow(t) \/ Commit(t) \/ CloseAborted(t) \/ Stop(t)
  <2>1. PICK t \in Tenants : CreateRow(t) \/ Commit(t) \/ CloseAborted(t) \/ Stop(t)
    BY <1>3
  <2>2. Places' = Places /\ closed' = closed
    BY <2>1 DEF CreateRow, Commit, CloseAborted, Stop, Places
  <2> QED BY <2>2
<1>4. CASE \E s \in Rows : Leave(s)
  <2>1. PICK s \in Rows : Leave(s)
    BY <1>4
  <2>2. Pool!Leave(tenant[s])
    <3>1. /\ loop[s] = "written" /\ UNCHANGED <<closed, start>>
          /\ active' = [t \in Tenants |-> IF active[t] = s THEN 0 ELSE active[t]]
      BY <2>1 DEF Leave
    <3>2. tenant[s] \in Tenants /\ active[tenant[s]] = s /\ s # 0
      <4>1. ~(s > used)
        BY <3>1
      <4>2. tenant[s] \in Tenants
        BY <4>1
      <4> QED BY <3>1, <4>2
    <3>3. \A t \in Tenants : active[t] = s => t = tenant[s]
      <4>1. ASSUME NEW t \in Tenants, active[t] = s
            PROVE  t = tenant[s]
        <5>1. tenant[active[t]] = t
          BY <3>2, <4>1 DEF SessionOfEntry
        <5> QED BY <4>1, <5>1
      <4> QED BY <4>1
    <3>4. tenant[s] \in Places /\ Places' = Places \ {tenant[s]}
      <4>1. start[tenant[s]] = "idle"
        BY <3>2
      <4>2. Live' = Live \ {tenant[s]} /\ Reserved' = Reserved
        BY <3>1, <3>2, <3>3
      <4>3. tenant[s] \in Live /\ tenant[s] \notin Reserved
        BY <3>2, <4>1
      <4> HIDE DEF Live, Reserved
      <4> QED BY <4>2, <4>3 DEF Places
    <3> QED BY <3>1, <3>4
  <2> QED BY <2>2
<1>5. CASE \E s \in Rows :
             \/ LoopReturns(s) \/ EndLoop(s) \/ WriteEnd(s) \/ HardCap(s) \/ Sweep(s)
             \/ \E p \in Policies : PolicyRecords(s, p) \/ PolicyCancels(s, p)
  <2>1. UNCHANGED <<active, start, closed>>
    BY <1>5 DEF LoopReturns, EndLoop, WriteEnd, HardCap, Sweep, PolicyRecords, PolicyCancels
  <2> QED BY <2>1 DEF Places
<1>6. CASE Shutdown
  BY <1>6 DEF Shutdown, Places
<1>7. CASE ShutdownReturns \/ UNCHANGED vars
  BY <1>7 DEF ShutdownReturns, vars, Places
<1> HIDE DEF BooksInv, Reserved, Live, Pool!Next, Pool!Take, Pool!Leave, Pool!Close
<1> QED BY <1>1, <1>2, <1>3, <1>4, <1>5, <1>6, <1>7 DEF MgrNext, StartStep, EndStep

\* The Manager implements the pool: no Tenant takes two places, no more than
\* MaxSessions are taken, and none once the process closes (ADR-0039).
THEOREM ManagerImplementsPool == MgrSpec => ImplementsPool
<1>1. MgrInit => Pool!Init
  BY DEF MgrInit, Pool!Init, Reserved
<1>2. BooksInv /\ [MgrNext]_vars => [Pool!Next]_<<Live \cup Reserved, ~closed>>
  BY StepOfPool DEF Places
<1> QED BY <1>1, <1>2, BooksAgree, PTL DEF MgrSpec, ImplementsPool, Pool!Spec
=============================================================================
