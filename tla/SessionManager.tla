--------------------------- MODULE SessionManager ---------------------------
(***************************************************************************)
(* The Manager of the voice sessions of one process                        *)
(* (internal/session/manager.go): Start, Stop, Shutdown, the session loop  *)
(* and its end, and the two policies that end a session from inside the    *)
(* process, the hard spend cap (internal/spend/meter.go) and Idle Close    *)
(* (internal/idleclose).                                                   *)
(*                                                                         *)
(* Manager.mu is held for one step at a time: Start gives it up for its    *)
(* store I/O, the loop's end takes it three times, a policy records its    *)
(* reason under it and cancels the loop after it.  ClaimPlane abstracts    *)
(* all of this to one action per call; here the calls interleave.          *)
(***************************************************************************)
EXTENDS Integers, FiniteSets

CONSTANTS
  Tenants,
  MaxSessions,   \* Deps.MaxSessions
  MaxRows,       \* bound: voice_sessions rows created in a behaviour
  NoTenant,
  StoreFails     \* whether CloseVoiceSession may fail

ASSUME ManagerAssumption ==
  /\ MaxSessions \in Nat /\ MaxRows \in Nat /\ IsFiniteSet(Tenants)
  /\ NoTenant \notin Tenants /\ StoreFails \in BOOLEAN

Rows == 1..MaxRows
Policies == {"hard_cap", "idle_close"}

VARIABLES
  closed,      \* Manager.closed
  start,       \* where a Tenant's Start call stands
  active,      \* Manager.active: the Tenant's session, 0 when none
  used,        \* rows created so far
  tenant,      \* activeSession.tenantID
  loop,        \* where runLoop stands
  cancelled,   \* the run context
  loopErr,     \* the loop returned an error
  failed,      \* ... that the Manager judged a fault
  override,    \* activeSession.endReasonOverride
  policy,      \* a policy's end of a session: its goroutine's progress
  guard,       \* the session's enrollment in the Idle Close watchdog
  row, reason, \* voice_sessions.status and end_reason
  shutdown,    \* Shutdown: "no", "waiting", "done"
  waits        \* the sessions Shutdown waits for

calls == <<closed, start, active, used, tenant, shutdown, waits>>
run == <<loop, cancelled, loopErr, failed, override>>
record == <<row, reason>>
vars == <<closed, start, active, used, tenant, loop, cancelled, loopErr, failed, override,
          policy, guard, row, reason, shutdown, waits>>

\* "created" has its row and builds the session; "aborting" found the Manager
\* closed when it came to commit and has still to close its row.
Starts == {"idle", "reserved", "created", "aborting"}
\* From "ended" on as.ended is set and the finalizers run; "written" has tried the
\* terminal write and has still to leave Manager.active.
Loops == {"none", "running", "returned", "ended", "written", "done"}
Unwinding == {"returned", "ended", "written"}
Reasons == Policies \cup {"none", "loop_error"}

MgrTypeOK ==
  /\ closed \in BOOLEAN
  /\ start \in [Tenants -> Starts]
  /\ active \in [Tenants -> 0..MaxRows]
  /\ used \in 0..MaxRows
  /\ tenant \in [Rows -> Tenants \cup {NoTenant}]
  /\ loop \in [Rows -> Loops]
  /\ cancelled \in [Rows -> BOOLEAN]
  /\ loopErr \in [Rows -> BOOLEAN] /\ failed \in [Rows -> BOOLEAN]
  /\ override \in [Rows -> Policies \cup {"none"}]
  /\ policy \in [Rows -> [Policies -> {"none", "fired", "dropped", "recorded", "over"}]]
  /\ guard \in [Rows -> {"none", "inert", "live", "closed", "released"}]
  /\ row \in [Rows -> {"none", "running", "ended", "failed"}]
  /\ reason \in [Rows -> Reasons]
  /\ shutdown \in {"no", "waiting", "done"}
  /\ waits \subseteq Rows

MgrInit ==
  /\ closed = FALSE
  /\ start = [t \in Tenants |-> "idle"]
  /\ active = [t \in Tenants |-> 0]
  /\ used = 0
  /\ tenant = [s \in Rows |-> NoTenant]
  /\ loop = [s \in Rows |-> "none"]
  /\ cancelled = [s \in Rows |-> FALSE]
  /\ loopErr = [s \in Rows |-> FALSE] /\ failed = [s \in Rows |-> FALSE]
  /\ override = [s \in Rows |-> "none"]
  /\ policy = [s \in Rows |-> [p \in Policies |-> "none"]]
  /\ guard = [s \in Rows |-> "none"]
  /\ row = [s \in Rows |-> "none"] /\ reason = [s \in Rows |-> "none"]
  /\ shutdown = "no" /\ waits = {}

-----------------------------------------------------------------------------
(* Start *)

\* The Tenants of m.active and of m.reservations: both fill places.
Reserved == {t \in Tenants : start[t] \in {"reserved", "created"}}
Live == {t \in Tenants : active[t] # 0}

\* Mutated: reservations take no room.
LiveRoom == Cardinality(Live) < MaxSessions

HasRoom == Cardinality(Live \cup Reserved) < MaxSessions

\* A Start that finds the Manager closed, the Tenant live or reserving, or no
\* room left returns its error and changes nothing.
Reserve(t) ==
  /\ ~closed /\ start[t] = "idle"
  /\ t \notin Live /\ HasRoom
  /\ start' = [start EXCEPT ![t] = "reserved"]
  /\ UNCHANGED <<closed, active, used, tenant, shutdown, waits, run, record,
                 policy, guard>>

\* The deployment config, token, caps, allowance or insert fails, or the call
\* panics: the deferred release gives the place back.
StartFails(t) ==
  /\ start[t] = "reserved"
  /\ start' = [start EXCEPT ![t] = "idle"]
  /\ UNCHANGED <<closed, active, used, tenant, shutdown, waits, run, record,
                 policy, guard>>

\* CreateVoiceSession, then the session is built and enrolled with the watchdog.
CreateRow(t) ==
  /\ start[t] = "reserved" /\ used < MaxRows
  /\ used' = used + 1
  /\ start' = [start EXCEPT ![t] = "created"]
  /\ tenant' = [tenant EXCEPT ![used'] = t]
  /\ row' = [row EXCEPT ![used'] = "running"]
  /\ guard' = [guard EXCEPT ![used'] = "inert"]
  /\ UNCHANGED <<closed, active, shutdown, waits, run, reason, policy>>

\* The row a Start of t holds that is no session yet.
Unborn(s, t) == tenant[s] = t /\ row[s] = "running" /\ loop[s] = "none"

\* The commit: one hold of mu swaps the reservation for the active entry, admits
\* the session to the sweep and launches the loop.
Commit(t) ==
  /\ start[t] = "created" /\ ~closed
  /\ \E s \in Rows :
       /\ Unborn(s, t) /\ guard[s] = "inert"
       /\ active' = [active EXCEPT ![t] = s]
       /\ loop' = [loop EXCEPT ![s] = "running"]
       /\ guard' = [guard EXCEPT ![s] = "live"]
  /\ start' = [start EXCEPT ![t] = "idle"]
  /\ UNCHANGED <<closed, used, tenant, shutdown, waits, cancelled, loopErr, failed,
                 override, record, policy>>

\* Mutated: the early return strands the reservation.
AbortStranded(t) == start[t] = "created" /\ closed /\ UNCHANGED vars

\* Shutdown came in between: no loop is launched.
Abort(t) ==
  /\ start[t] = "created" /\ closed
  /\ start' = [start EXCEPT ![t] = "aborting"]
  /\ \E s \in Rows :
       /\ Unborn(s, t) /\ guard[s] = "inert"
       /\ cancelled' = [cancelled EXCEPT ![s] = TRUE]
       /\ guard' = [guard EXCEPT ![s] = "released"]
  /\ UNCHANGED <<closed, active, used, tenant, shutdown, waits, loop, loopErr, failed,
                 override, record, policy>>

\* CloseVoiceSession; when it fails the row stays 'running' for the next boot's
\* reconciliation.
Close(s, status, why) ==
  \/ row' = [row EXCEPT ![s] = status] /\ reason' = [reason EXCEPT ![s] = why]
  \/ StoreFails /\ UNCHANGED record

CloseAborted(t) ==
  /\ start[t] = "aborting"
  /\ \E s \in Rows : Unborn(s, t) /\ guard[s] = "released"
                     /\ loop' = [loop EXCEPT ![s] = "done"] /\ Close(s, "ended", "none")
  /\ start' = [start EXCEPT ![t] = "idle"]
  /\ UNCHANGED <<closed, active, used, tenant, shutdown, waits, cancelled, loopErr,
                 failed, override, policy, guard>>

-----------------------------------------------------------------------------
(* The loop and its end *)

Ended(s) == loop[s] \in {"ended", "written", "done"}

\* Cancelled or by itself, with or without an error.
LoopReturns(s) ==
  /\ loop[s] = "running"
  /\ loop' = [loop EXCEPT ![s] = "returned"]
  /\ \E e \in BOOLEAN : loopErr' = [loopErr EXCEPT ![s] = e]
  /\ UNCHANGED <<calls, cancelled, failed, override, record, policy, guard>>

\* as.ended and the bridge's cut, then the verdict: a fault is an error nobody
\* asked for. Nothing that can happen in between tells one step from two.
EndLoop(s) ==
  /\ loop[s] = "returned"
  /\ loop' = [loop EXCEPT ![s] = "ended"]
  /\ failed' = [failed EXCEPT ![s] = loopErr[s] /\ ~cancelled[s]]
  /\ UNCHANGED <<calls, cancelled, loopErr, override, record, policy, guard>>

WriteEnd(s) ==
  /\ loop[s] = "ended"
  /\ loop' = [loop EXCEPT ![s] = "written"]
  /\ IF failed[s] THEN Close(s, "failed", "loop_error") ELSE Close(s, "ended", override[s])
  /\ UNCHANGED <<calls, cancelled, loopErr, failed, override, policy, guard>>

\* Mutated: a failed terminal write returns before the entry is deleted.
LeaveOnceWritten(s) ==
  /\ loop[s] = "written" /\ row[s] # "running"
  /\ loop' = [loop EXCEPT ![s] = "done"]
  /\ active' = [t \in Tenants |-> IF active[t] = s THEN 0 ELSE active[t]]
  /\ guard' = [guard EXCEPT ![s] = "released"]
  /\ UNCHANGED <<closed, start, used, tenant, shutdown, waits, cancelled, loopErr, failed,
                 override, policy, record>>

\* Leaves Manager.active whether or not the write landed, and the watchdog, then
\* closes done. Of the session only a late policy goroutine is left, and nobody
\* asks any more how the loop came to its end.
Leave(s) ==
  /\ loop[s] = "written"
  /\ loop' = [loop EXCEPT ![s] = "done"]
  /\ active' = [t \in Tenants |-> IF active[t] = s THEN 0 ELSE active[t]]
  /\ guard' = [guard EXCEPT ![s] = "released"]
  /\ cancelled' = [cancelled EXCEPT ![s] = FALSE]
  /\ loopErr' = [loopErr EXCEPT ![s] = FALSE]
  /\ failed' = [failed EXCEPT ![s] = FALSE]
  /\ override' = [override EXCEPT ![s] = "none"]
  /\ policy' = [policy EXCEPT ![s] = [p \in Policies |->
                 IF @[p] \in {"fired", "recorded"} THEN @[p] ELSE "dropped"]]
  /\ UNCHANGED <<closed, start, used, tenant, shutdown, waits, record>>

-----------------------------------------------------------------------------
(* Policies *)

Fires(s, p) == policy' = [policy EXCEPT ![s][p] = "fired"]

\* The meter's onHard, on a goroutine of the pipeline; at most once.  Usage may
\* still be recorded while the session unwinds.
HardCap(s) ==
  /\ loop[s] \in {"running"} \cup Unwinding /\ policy[s]["hard_cap"] = "none"
  /\ Fires(s, "hard_cap")
  /\ UNCHANGED <<calls, run, record, guard>>

\* Mutated: sessions not activated yet are swept too.
SweepableEnrolled(s) == guard[s] \in {"inert", "live"}

Sweepable(s) == guard[s] = "live"

\* A sweep finds the window, the cycle ceiling or a resource ceiling breached,
\* latches the session as closed and calls its close.
Sweep(s) ==
  /\ Sweepable(s)
  /\ guard' = [guard EXCEPT ![s] = "closed"]
  /\ Fires(s, "idle_close")
  /\ UNCHANGED <<calls, run, record>>

\* Mutated: an entry whose loop is over may still be ended.
EndableEntry(s) == active[tenant[s]] = s

Endable(s) == active[tenant[s]] = s /\ ~Ended(s)

\* policyEnd's goroutine under mu: the reason is recorded only for the Tenant's
\* current session, and only until its loop has returned.
PolicyRecords(s, p) ==
  /\ policy[s][p] = "fired"
  /\ IF Endable(s)
     THEN /\ policy' = [policy EXCEPT ![s][p] = "recorded"]
          /\ override' = [override EXCEPT ![s] = p]
     ELSE policy' = [policy EXCEPT ![s][p] = "dropped"] /\ UNCHANGED override
  /\ UNCHANGED <<calls, loop, cancelled, loopErr, failed, record, guard>>

\* The announcement, then the cancel, outside mu.
PolicyCancels(s, p) ==
  /\ policy[s][p] = "recorded"
  /\ policy' = [policy EXCEPT ![s][p] = "over"]
  /\ cancelled' = [cancelled EXCEPT ![s] = TRUE]
  /\ UNCHANGED <<calls, loop, loopErr, failed, override, record, guard>>

-----------------------------------------------------------------------------
(* Stop and Shutdown *)

\* Stop then waits for the loop's end, or its caller for less, and changes nothing.
Stop(t) ==
  /\ active[t] # 0 /\ ~cancelled[active[t]]
  /\ cancelled' = [cancelled EXCEPT ![active[t]] = TRUE]
  /\ UNCHANGED <<calls, loop, loopErr, failed, override, record, policy, guard>>

\* Collected and cancelled in one step: a session committed later finds closed set.
Shutdown ==
  /\ shutdown = "no"
  /\ shutdown' = "waiting" /\ closed' = TRUE
  /\ waits' = {active[t] : t \in Live}
  /\ cancelled' = [s \in Rows |-> cancelled[s] \/ s \in waits']
  /\ UNCHANGED <<start, active, used, tenant, loop, loopErr, failed, override, record,
                 policy, guard>>

ShutdownReturns ==
  /\ shutdown = "waiting" /\ \A s \in waits : loop[s] = "done"
  /\ shutdown' = "done"
  /\ UNCHANGED <<closed, start, active, used, tenant, waits, run, record, policy, guard>>

-----------------------------------------------------------------------------
StartStep(t) == CreateRow(t) \/ Commit(t) \/ Abort(t) \/ CloseAborted(t)
EndStep(s) == EndLoop(s) \/ WriteEnd(s) \/ Leave(s)

MgrNext ==
  \/ \E t \in Tenants : Reserve(t) \/ StartFails(t) \/ StartStep(t) \/ Stop(t)
  \/ \E s \in Rows : \/ LoopReturns(s) \/ EndStep(s) \/ HardCap(s) \/ Sweep(s)
                     \/ \E p \in Policies : PolicyRecords(s, p) \/ PolicyCancels(s, p)
  \/ Shutdown \/ ShutdownReturns

MgrSpec == MgrInit /\ [][MgrNext]_vars

\* Goroutines run; a cancelled loop returns; every store call returns (it has a
\* deadline), so a Start ends one way or the other.
MgrFairness ==
  /\ \A t \in Tenants : WF_vars(StartStep(t) \/ StartFails(t))
  /\ \A s \in Rows :
       /\ WF_vars(EndStep(s)) /\ WF_vars(cancelled[s] /\ LoopReturns(s))
       /\ \A p \in Policies : WF_vars(PolicyRecords(s, p)) /\ WF_vars(PolicyCancels(s, p))
  /\ WF_vars(ShutdownReturns)
=============================================================================
