------------------------ MODULE SessionManagerProps ------------------------
(* What the Session Manager owes its callers and its rows. *)
EXTENDS SessionManager

\* Every row left 'running' is somebody's: a session in Manager.active, or a
\* Start that has still to launch or close it. The exception is a terminal
\* write that failed, which the next boot repairs. Start inserts the row before
\* it knows whether it may commit (manager.go:698-848, #143, #157).
NoOrphanRow ==
  \A s \in Rows :
    row[s] = "running" =>
      \/ active[tenant[s]] = s
      \/ start[tenant[s]] \in {"created", "aborting"} /\ Unborn(s, tenant[s])
      \/ StoreFails /\ loop[s] = "done"

\* A session the watchdog has latched as closed is really being ended: its
\* policyEnd has yet to run, or has cancelled the loop, or the loop was already
\* over. Were it not, the latch would exempt the session from every later sweep
\* (idleclose.go:166-172, manager.go:866-870).
LatchedIsEnding ==
  \A s \in Rows :
    guard[s] = "closed" =>
      policy[s]["idle_close"] \in {"fired", "recorded"} \/ cancelled[s] \/ Ended(s)

\* No enrollment outlives its session: whoever is still swept has a loop that
\* has not finished or a Start still building it (manager.go:831, :983).
NoLeakedEnrollment ==
  \A s \in Rows :
    guard[s] \in {"inert", "live", "closed"} =>
      IF loop[s] = "none" THEN start[tenant[s]] = "created" ELSE active[tenant[s]] = s

\* After Shutdown has returned no loop runs and none can be launched: what is
\* left is a Start that has to close its own row (manager.go:817-848, 1308-1329).
ShutdownDrains ==
  shutdown = "done" =>
    /\ \A s \in Rows : loop[s] \in {"none", "done"}
    /\ \A t \in Tenants : active[t] = 0

MgrInv ==
  MgrTypeOK /\ NoOrphanRow /\ LatchedIsEnding /\ NoLeakedEnrollment /\ ShutdownDrains

\* The row tells how the session ended: an error is filed as a clean end only
\* when somebody cancelled the loop, and a session that a policy cancelled says
\* which, unless its loop had already failed (manager.go:944-961, 1023-1026,
\* 1085-1117).
CauseRecorded ==
  \A s \in Rows : row[s] = "ended" /\ loop[s] = "written" =>
    /\ loopErr[s] => cancelled[s]
    /\ (\E p \in Policies : policy[s][p] = "over") => reason[s] \in Policies

\* Places in the process as its callers see them: taken from the reservation on,
\* left when the session is out of Manager.active (manager.go:562-596, 1242-1252).
Pool == INSTANCE SessionPool WITH K <- MaxSessions, taken <- Live \cup Reserved, open <- ~closed
ImplementsPool == Pool!Spec

\* A session that is asked to end, by a Stop, a Shutdown or a policy, leaves the
\* Manager, so its Tenant can start again: again and again nobody's session is being
\* ended (manager.go:974-1139; a session runs once).
CancelledLeaves == []<>(\A s \in Rows : cancelled[s] => loop[s] = "done")

\* A place taken by a Start is either filled by a session or given back, also
\* when the Manager closes in between (manager.go:598-611).
ReservationSettles == \A t \in Tenants : start[t] # "idle" ~> start[t] = "idle"
=============================================================================
