------------------------------ MODULE VoiceLink ------------------------------
(***************************************************************************)
(* The reconnect loop of a Voice Session and its media watchdog            *)
(* (internal/wirenpc: run.go, reconnect.go, connect.go, mediawatch.go,     *)
(* gatewayfatal.go, sessiondisclosure.go).                                 *)
(*                                                                         *)
(* Cycles follow each other on one goroutine; beside each runs a watchdog, *)
(* which looks at the counters of the transport once per tick.             *)
(***************************************************************************)
EXTENDS Integers

CONSTANTS
  MaxDelay,  \* the longest backoff, in doublings of the first
  Window,    \* MediaStallWindow, in ticks of the watchdog
  EchoArm,   \* echoArmCount
  MaxCycles  \* bound: cycles

ASSUME VoiceLinkAssumption ==
  /\ MaxDelay \in Nat \ {0} /\ Window \in Nat \ {0} /\ EchoArm \in Nat \ {0}
  /\ MaxCycles \in Nat \ {0}

VARIABLES
  stopAsked,  \* the context of the Voice Session
  standing,   \* Config.Client is set: the client is borrowed
  step,       \* where the loop stands
  err,        \* what the cycle will return
  stalled,    \* errMediaStall is the cause of the cycle's context
  cycles, delay, \* cycles begun; the next backoff
  age,        \* of a cycle that joined: "no", "young", "healthy"
  up,         \* which of "gateway", "session", "pump" the cycle has to tear down
  present,    \* Discord shows the Bot in the channel
  shown,      \* the last ConnectionStateChanged
  notices,    \* disclosures posted; sessionOnce.done is that there was one
  path,       \* whether Discord forwards the room's audio: "up", "dead"
  echoing,    \* this voice server sends keepalives back
  tardy,      \* speech is announced whose first packet is not counted yet
  since, idle, \* ticks since lastMove and since lastAnyMove
  moved,      \* everMoved
  echoes,     \* MediaLiveness.Echoes, up to EchoArm
  told,       \* LastSpeaking is more than a tick after lastMove
  verdict     \* what the watchdog convicted: "none", a "dead", "tardy" or "quiet" path

roomVars == <<path, echoing, tardy>>
watchVars == <<since, idle, moved, echoes, told, verdict>>
cycleState == <<step, err, age, up, present>>
linkVars == <<stopAsked, standing, stalled, cycles, delay, cycleState, shown, notices,
              roomVars, watchVars>>

LinkSteps == {"connecting", "joining", "building", "serving", "unwinding", "judging",
              "backoff", "clean", "failed"}

LinkTypeOK ==
  /\ {stopAsked, standing, stalled, present, echoing, tardy, moved, told} \subseteq BOOLEAN
  /\ step \in LinkSteps /\ err \in {"none", "canceled", "stall", "transient", "fatal"}
  /\ cycles \in 1..MaxCycles /\ delay \in 1..MaxDelay /\ age \in {"no", "young", "healthy"}
  /\ up \subseteq {"gateway", "session", "pump"} /\ path \in {"up", "dead"}
  /\ shown \in {"connecting", "connected", "failed"} /\ notices \in 0..MaxCycles
  /\ since \in 0..(2 * Window) /\ idle \in 0..Window /\ echoes \in 0..EchoArm
  /\ verdict \in {"none", "dead", "tardy", "unheard", "quiet"}

LinkInit ==
  /\ stopAsked = FALSE /\ standing \in BOOLEAN /\ step = "connecting" /\ err = "none"
  /\ stalled = FALSE /\ cycles = 1 /\ delay = 1 /\ age = "no" /\ up = {} /\ present = FALSE
  /\ shown = "connecting" /\ notices = 0
  /\ path = "up" /\ echoing \in BOOLEAN /\ tardy = FALSE
  /\ since = 0 /\ idle = 0 /\ moved = FALSE /\ echoes = 0 /\ told = FALSE /\ verdict = "none"

-----------------------------------------------------------------------------
(* A cycle: connectAndServe *)

CycleOver == stopAsked \/ stalled

\* What a call to Discord fails with; a cancelled context ends it as well.
Failures == {"transient", "fatal"} \cup (IF CycleOver THEN {"canceled"} ELSE {})

\* Stop, Shutdown or a policy cancels the context.
AskStop ==
  /\ ~stopAsked /\ step \notin {"clean", "failed"} /\ stopAsked' = TRUE
  /\ UNCHANGED <<standing, stalled, cycles, delay, cycleState, shown, notices, roomVars, watchVars>>

\* acquireClient: the standing client, or one of its own, which it closes if the
\* gateway does not open.
AcquireClient ==
  /\ step = "connecting"
  /\ \/ /\ step' = "joining" /\ UNCHANGED err
        /\ up' = IF standing THEN {} ELSE {"gateway"}
     \/ step' = "judging" /\ (\E e \in Failures : err' = e) /\ UNCHANGED up
  /\ UNCHANGED <<stopAsked, standing, stalled, cycles, delay, age, present, shown, notices,
                 roomVars, watchVars>>

\* Mutated: the handle is forgotten, and the Bot stays in the channel (#44).
ForgetConn(there) == there

\* Manager.Open failed: conn.Close sends the LEAVE.
LeaveFailed(there) == FALSE

\* joinVoiceChannel sends the JOIN, which Discord shows, and waits at most
\* defaultJoinTimeout; connected() and {connected} follow.
JoinVoiceChannel ==
  /\ step = "joining"
  /\ \/ /\ step' = "building" /\ present' = TRUE /\ up' = up \cup {"session"}
        /\ age' = "young" /\ shown' = "connected" /\ UNCHANGED err
     \/ /\ step' = "unwinding" /\ (\E e \in Failures : err' = e)
        /\ \E there \in BOOLEAN : present' = LeaveFailed(there)
        /\ UNCHANGED <<up, age, shown>>
  /\ UNCHANGED <<stopAsked, standing, stalled, cycles, delay, notices, roomVars, watchVars>>

\* The pump, then the conversation; discloseSession posts once per Voice Session,
\* and arms before it posts.
BuildConversation ==
  /\ step = "building" /\ up' = up \cup {"pump"}
  /\ \/ step' = "serving" /\ notices' = (IF notices = 0 THEN 1 ELSE notices) /\ UNCHANGED err
     \/ step' = "unwinding" /\ err' = "transient" /\ UNCHANGED notices
  /\ UNCHANGED <<stopAsked, standing, stalled, cycles, delay, age, present, shown, roomVars, watchVars>>

\* healthySessionDuration has passed since the join.
Ages ==
  /\ step = "serving" /\ age = "young" /\ age' = "healthy"
  /\ UNCHANGED <<stopAsked, standing, stalled, cycles, delay, step, err, up, present, shown,
                 notices, roomVars, watchVars>>

\* resolveStallCause: only a cancellation is renamed.
ResolveStallCause(e) == IF e = "canceled" /\ stalled THEN "stall" ELSE e

\* Pipeline.Run returns: cancelled, Inbound closed, or without a codec.
RunReturns ==
  /\ step = "serving" /\ step' = "unwinding"
  /\ \E e \in {"none", "transient"} \cup (IF CycleOver THEN {"canceled"} ELSE {}) :
       err' = ResolveStallCause(e)
  /\ UNCHANGED <<stopAsked, standing, stalled, cycles, delay, age, up, present, shown, notices,
                 roomVars, watchVars>>

\* The defers, last in first out.
NextDown == IF "pump" \in up THEN "pump" ELSE IF "session" \in up THEN "session" ELSE "gateway"

Unwind ==
  /\ step = "unwinding"
  /\ IF up = {} THEN step' = "judging" /\ UNCHANGED <<up, present>>
     ELSE /\ up' = up \ {NextDown} /\ UNCHANGED step
          /\ present' = (present /\ NextDown # "session")
  /\ UNCHANGED <<stopAsked, standing, stalled, cycles, delay, err, age, shown, notices,
                 roomVars, watchVars>>

-----------------------------------------------------------------------------
(* Between cycles: runWithReconnect *)

\* A requested stop ends the loop clean, a fatal error ends it failed.
Over == stopAsked \/ err = "fatal"

\* The watchdog's goroutine ends with its cycle; the next finds a fresh path.
Judge ==
  /\ step = "judging"
  /\ step' = IF stopAsked THEN "clean" ELSE IF Over THEN "failed" ELSE "backoff"
  /\ shown' = IF step' = "failed" THEN "failed" ELSE shown
  /\ delay' = IF age = "healthy" THEN 1 ELSE delay
  /\ stalled' = FALSE /\ path' = "up" /\ echoing' \in BOOLEAN /\ tardy' = FALSE
  /\ since' = 0 /\ idle' = 0 /\ moved' = FALSE /\ echoes' = 0 /\ told' = FALSE
  /\ verdict' = "none"
  /\ UNCHANGED <<stopAsked, standing, cycles, err, age, up, present, notices>>

Backoff ==
  /\ step = "backoff"
  /\ \/ stopAsked /\ step' = "clean" /\ UNCHANGED <<err, age, delay, cycles, shown>>
     \/ /\ ~stopAsked /\ cycles < MaxCycles /\ step' = "connecting"
        /\ cycles' = cycles + 1 /\ err' = "none" /\ age' = "no" /\ shown' = "connecting"
        /\ delay' = IF delay = MaxDelay THEN MaxDelay ELSE delay + 1
  /\ UNCHANGED <<stopAsked, standing, stalled, up, present, notices, roomVars, watchVars>>

-----------------------------------------------------------------------------
(* The room and the watchdog *)

\* Discord stops forwarding audio while every socket stays open.
PathDies ==
  /\ step = "serving" /\ path = "up" /\ path' = "dead" /\ tardy' = FALSE
  /\ UNCHANGED <<stopAsked, standing, stalled, cycles, delay, cycleState, shown, notices,
                 echoing, watchVars>>

\* A path that never carried a packet gets twice the window.
StallWindow(m) == IF m THEN Window ELSE 2 * Window

\* The two tiers of check: an armed socket that carries nothing, and speech
\* announced after the audio stopped.
Convicts(s, i, m, e, t) == (e = EchoArm /\ i = Window) \/ (s >= StallWindow(m) /\ t)

Tick1(n, max) == IF n = max THEN max ELSE n + 1

\* One check, of what the tick brought: an announcement, whose packets may be tardy;
\* the packets and echoes of a path that is up.
Check ==
  /\ step = "serving" /\ ~CycleOver
  /\ \E announced, begins \in BOOLEAN :
       LET packets == path = "up" /\ (tardy \/ (announced /\ ~begins))
           echo == path = "up" /\ echoing
           s == IF packets THEN 0 ELSE Tick1(since, 2 * Window)
           i == IF packets \/ echo THEN 0 ELSE Tick1(idle, Window)
           e == IF echo THEN Tick1(echoes, EchoArm) ELSE echoes
           t == ~packets /\ (told \/ (announced /\ since > 0))
           convicted == Convicts(s, i, moved \/ packets, e, t)
       IN /\ begins => announced /\ path = "up"
          /\ since' = s /\ idle' = i /\ echoes' = e /\ told' = t
          /\ moved' = (moved \/ packets) /\ tardy' = begins
          /\ stalled' = convicted
          /\ verdict' = IF ~convicted THEN "none" ELSE IF path = "dead" THEN "dead"
                        ELSE IF begins THEN "tardy" ELSE IF moved THEN "quiet" ELSE "unheard"
  /\ UNCHANGED <<stopAsked, standing, cycles, delay, cycleState, shown, notices, path, echoing>>

\* A check after the transport was opened again: counters that were not zero moved.
CheckReopened ==
  /\ step = "serving" /\ ~CycleOver
  /\ path' = "up" /\ echoing' \in BOOLEAN /\ tardy' = FALSE
  /\ since' = IF moved THEN 0 ELSE Tick1(since, 2 * Window)
  /\ idle' = IF moved \/ echoes > 0 THEN 0 ELSE Tick1(idle, Window)
  /\ moved' = FALSE /\ echoes' = 0 /\ told' = (told /\ ~moved)
  /\ stalled' = Convicts(since', idle', FALSE, 0, told')
  /\ verdict' = IF stalled' THEN "dead" ELSE "none"
  /\ UNCHANGED <<stopAsked, standing, cycles, delay, cycleState, shown, notices>>

CycleStep ==
  AcquireClient \/ JoinVoiceChannel \/ BuildConversation \/ Unwind \/ Judge \/ Backoff

LinkNext ==
  \/ AskStop \/ CycleStep \/ Ages \/ RunReturns \/ PathDies \/ Check \/ CheckReopened

LinkSpec == LinkInit /\ [][LinkNext]_linkVars

-----------------------------------------------------------------------------
(* What the loop promises *)

\* Between cycles and after the last nothing of one is left: no ghost of the Bot in
\* the channel, no gateway of its own (#44, manager.go 196-202).  In a cycle the pump is
\* gone before the Session it plays on (connect.go, pump.Close before sess.Close).
NothingLeft ==
  /\ step \in {"connecting", "judging", "backoff", "clean", "failed"} => up = {} /\ ~present
  /\ "pump" \in up => "session" \in up
  /\ "session" \in up <=> present
  /\ standing => "gateway" \notin up

\* What can never succeed ends the Session as failed, unless its end was asked for;
\* nothing else does, a stall least of all (#123, connect.go 335-339).
FatalEnds ==
  /\ step \in {"backoff", "connecting"} => err # "fatal"
  /\ step = "failed" <=> shown = "failed"
  /\ step = "failed" => err = "fatal"
  /\ step = "clean" => stopAsked
  /\ err = "stall" => stalled \/ step \in {"backoff", "clean"}

\* The disclosure is posted once, however often Discord drops (#519).
OneNotice == notices <= 1

\* A quiet room is never convicted, echoes or not (mediawatch.go 196-198, 208-212).
\* What can be, beside a path that is dead, is one whose first packet after the quiet
\* is counted one check later than the announcement, and one opened again that had
\* carried nothing before: a counter that stays zero restarts no grace.
QuietNeverConvicted == verdict # "quiet"

LinkInv == LinkTypeOK /\ NothingLeft /\ FatalEnds /\ OneNotice /\ QuietNeverConvicted

\* A Stop ends the loop wherever it stands.  A dead path is left when its server had
\* echoed, or when speech is announced, quiet as the sockets may be (#633).
LinkSettled ==
  /\ stopAsked => step \in {"clean", "failed"}
  /\ ~(step = "serving" /\ path = "dead" /\ (echoes = EchoArm \/ told))
LinkEnds == []<>LinkSettled
=============================================================================
