---------------------------- MODULE VoiceSession ----------------------------
(***************************************************************************)
(* A Session in a Guild's voice channel (pkg/voice): session.go,           *)
(* provider.go, playback.go, inbound.go, davereap.go and udpconn.go.       *)
(*                                                                         *)
(* disgo, which is not in this repository, runs two goroutines against it: *)
(* a sender that polls the provider every 20 ms, and a receiver that reads *)
(* the socket.  Both pass DAVE's Ready first, and end only when a socket   *)
(* they use turns out to be closed.                                        *)
(***************************************************************************)
EXTENDS Naturals

CONSTANTS
  Plays,       \* calls of Session.Play
  NoPlay,
  Buffer,      \* capacity of inboundDispatcher.frames
  MaxSockets   \* bound: times the transport is opened

ASSUME VoiceSessionAssumption ==
  /\ NoPlay \notin Plays /\ "close" \notin Plays \cup {NoPlay}
  /\ Buffer \in Nat \ {0} /\ MaxSockets \in Nat \ {0}

VARIABLES
  playMu,      \* who holds it: a Play, "close" or NoPlay
  play,        \* where each Play call stands
  playback,    \* Playback.done and err: "none", "open", "clean", "cut"
  playCtx,     \* Plays whose context is cancelled
  framesLeft,  \* Plays whose Source has a frame to give
  displaced,   \* the slot that the Play at work swapped out
  slot,        \* switchingProvider.slot
  nowPlaying,  \* Session.current
  silencing,   \* switchingProvider.closed
  sender, receiver, \* disgo's goroutines
  dave,        \* "pending" (handshake), "active", "plain" (protocol version 0)
  daveClosed,  \* reapableDaveSession.closed
  sockets, conn, \* every socket dialled; the one keepaliveUDPConn.conn names
  udpClosed,   \* keepaliveUDPConn.closed
  keepalive,   \* the socket whose loop has not been told to stop, 0 for none
  reopenFailed, \* a dial failed after the socket before it was retired
  frames, inboundClosed, \* how many inboundDispatcher.frames holds; closed
  closing      \* where Session.Close stands

playVars == <<playMu, play, playback, playCtx, framesLeft, displaced, slot, nowPlaying, silencing>>
daveVars == <<dave, daveClosed>>
socketVars == <<sockets, conn, udpClosed, keepalive, reopenFailed>>
inboundVars == <<frames, inboundClosed>>
voiceVars == <<playVars, sender, receiver, daveVars, socketVars, inboundVars, closing>>

SenderIdle == [at |-> "idle", slot |-> NoPlay, socket |-> 0, poke |-> FALSE]

VoiceTypeOK ==
  /\ playMu \in Plays \cup {"close", NoPlay}
  /\ play \in [Plays -> {"idle", "locked", "swapped", "returned", "refused"}]
  /\ playback \in [Plays -> {"none", "open", "clean", "cut"}]
  /\ playCtx \subseteq Plays /\ framesLeft \subseteq Plays
  /\ {displaced, slot, nowPlaying} \subseteq Plays \cup {NoPlay}
  /\ silencing \in BOOLEAN /\ dave \in {"pending", "active", "plain"} /\ daveClosed \in BOOLEAN
  /\ sender \in [at : {"idle", "frame", "send", "gone"}, slot : Plays \cup {NoPlay},
                 socket : 0..MaxSockets, poke : BOOLEAN]
  /\ receiver \in [at : {"gate", "parked", "full", "retry", "gone"},
                   socket : 0..MaxSockets]
  /\ sockets \in [1..MaxSockets -> {"none", "open", "retired", "closed"}]
  /\ conn \in 1..MaxSockets /\ keepalive \in 0..MaxSockets
  /\ udpClosed \in BOOLEAN /\ reopenFailed \in BOOLEAN
  /\ frames \in 0..Buffer /\ inboundClosed \in BOOLEAN
  /\ closing \in {"no", "locked", "stopped", "left", "silenced", "done"}

\* newSession after a successful Open: the transport is dialled, the handlers are set.
VoiceInit ==
  /\ playMu = NoPlay /\ play = [p \in Plays |-> "idle"]
  /\ playback = [p \in Plays |-> "none"] /\ playCtx = {} /\ framesLeft = Plays
  /\ displaced = NoPlay /\ slot = NoPlay /\ nowPlaying = NoPlay /\ silencing = FALSE
  /\ sender = SenderIdle /\ receiver = [at |-> "gate", socket |-> 0]
  /\ dave \in {"pending", "plain"} /\ daveClosed = FALSE
  /\ sockets = [n \in 1..MaxSockets |-> IF n = 1 THEN "open" ELSE "none"]
  /\ conn = 1 /\ udpClosed = FALSE /\ keepalive = 1 /\ reopenFailed = FALSE
  /\ frames = 0 /\ inboundClosed = FALSE
  /\ closing = "no"

-----------------------------------------------------------------------------
(* Playback *)

\* Playback.finish: the first outcome wins.
Finished(p, how) == IF playback[p] = "open" THEN [playback EXCEPT ![p] = how] ELSE playback

\* Play takes playMu for all of its call, and is refused on a closed Session.
PlayLock(p) ==
  /\ play[p] = "idle" /\ playMu = NoPlay
  /\ IF closing = "no"
     THEN playMu' = p /\ play' = [play EXCEPT ![p] = "locked"]
     ELSE UNCHANGED playMu /\ play' = [play EXCEPT ![p] = "refused"]
  /\ UNCHANGED <<playback, playCtx, framesLeft, displaced, slot, nowPlaying, silencing,
                 sender, receiver, daveVars, socketVars, inboundVars, closing>>

\* The slot is swapped atomically; the AfterFunc that watches the context is set.
PlaySwap(p) ==
  /\ play[p] = "locked" /\ play' = [play EXCEPT ![p] = "swapped"]
  /\ playback' = [playback EXCEPT ![p] = "open"]
  /\ slot' = p /\ displaced' = slot
  /\ UNCHANGED <<playMu, playCtx, framesLeft, nowPlaying, silencing,
                 sender, receiver, daveVars, socketVars, inboundVars, closing>>

\* What was displaced is stopped, and Play returns its handle.
PlayReturn(p) ==
  /\ play[p] = "swapped" /\ play' = [play EXCEPT ![p] = "returned"]
  /\ playCtx' = playCtx \cup ({displaced} \ {NoPlay})
  /\ playback' = IF displaced = NoPlay THEN playback ELSE Finished(displaced, "cut")
  /\ nowPlaying' = p /\ displaced' = NoPlay /\ playMu' = NoPlay
  /\ UNCHANGED <<framesLeft, slot, silencing,
                 sender, receiver, daveVars, socketVars, inboundVars, closing>>

\* A barge-in or the end of the conversation cancels the context of the playback.
CancelPlay(p) ==
  /\ play[p] = "returned" /\ playback[p] = "open" /\ p \notin playCtx
  /\ playCtx' = playCtx \cup {p}
  /\ UNCHANGED <<playMu, play, playback, framesLeft, displaced, slot, nowPlaying, silencing,
                 sender, receiver, daveVars, socketVars, inboundVars, closing>>

\* The watcher ends the playback although the sender may never poll again.
WatchCancelled(p) ==
  /\ p \in playCtx /\ playback[p] = "open" /\ playback' = Finished(p, "cut")
  /\ UNCHANGED <<playMu, play, playCtx, framesLeft, displaced, slot, nowPlaying, silencing,
                 sender, receiver, daveVars, socketVars, inboundVars, closing>>

-----------------------------------------------------------------------------
(* disgo's sender, through ProvideOpusFrame and Write *)

\* Mutated: a closed DAVE session goes on waiting for its handshake.
ReadyUnlessPending == dave # "pending"

\* reapableDaveSession.Ready
Ready == daveClosed \/ dave # "pending"

\* A poll of the provider; idle, it reads no more than the slot.
ProvideOpusFrame ==
  /\ sender.at = "idle" /\ Ready
  /\ \/ silencing /\ sender' = [at |-> "send", slot |-> NoPlay, socket |-> conn, poke |-> TRUE]
     \/ ~silencing /\ slot # NoPlay /\ sender' = [SenderIdle EXCEPT !.at = "frame", !.slot = slot]
  /\ UNCHANGED <<playVars, receiver, daveVars, socketVars, inboundVars, closing>>

\* switchingProvider.clear: only if it is still installed.
Clear(p) == IF slot = p THEN NoPlay ELSE slot

\* The slot it loaded gives a frame, or has ended or was cancelled.
NextFrame ==
  /\ sender.at = "frame"
  /\ LET p == sender.slot IN
     IF p \notin playCtx /\ p \in framesLeft
     THEN /\ framesLeft' = framesLeft \ {p}
          /\ sender' = [sender EXCEPT !.at = "send", !.socket = conn]
          /\ UNCHANGED <<playback, slot>>
     ELSE /\ playback' = Finished(p, IF p \in playCtx THEN "cut" ELSE "clean")
          /\ slot' = Clear(p)
          /\ sender' = SenderIdle /\ UNCHANGED framesLeft
  /\ UNCHANGED <<playMu, play, playCtx, displaced, nowPlaying, silencing,
                 receiver, daveVars, socketVars, inboundVars, closing>>

\* Write on the socket it looked up; on a closed one the sender shuts itself down.
WriteFrame ==
  /\ sender.at = "send"
  /\ sender' = IF sockets[sender.socket] = "closed" THEN [SenderIdle EXCEPT !.at = "gone"]
               ELSE SenderIdle
  /\ UNCHANGED <<playVars, receiver, daveVars, socketVars, inboundVars, closing>>

-----------------------------------------------------------------------------
(* disgo's receiver, through ReadPacket and the dispatcher *)

ReadPacket ==
  /\ receiver.at = "gate" /\ Ready /\ receiver' = [at |-> "parked", socket |-> conn]
  /\ UNCHANGED <<playVars, sender, daveVars, socketVars, inboundVars, closing>>

\* The closed socket wakes it, and it closes the dispatcher as it goes.
ReceiverDies ==
  /\ receiver.at = "parked" /\ sockets[receiver.socket] = "closed"
  /\ receiver' = [at |-> "gone", socket |-> 0] /\ inboundClosed' = TRUE
  /\ UNCHANGED <<playVars, sender, daveVars, socketVars, frames, closing>>

\* A packet arrives.  The dispatcher has the read lock, and keeps it while the buffer
\* is full.
ReceiveOpusFrame ==
  /\ receiver.at = "parked" /\ sockets[receiver.socket] # "closed"
  /\ receiver' = [at |-> IF inboundClosed \/ frames < Buffer THEN "gate" ELSE "full", socket |-> 0]
  /\ frames' = IF ~inboundClosed /\ frames < Buffer THEN frames + 1 ELSE frames
  /\ UNCHANGED <<playVars, sender, daveVars, socketVars, inboundClosed, closing>>

\* The oldest makes room, or the consumer has; then the newest goes in, or is dropped.
DropOldest ==
  /\ receiver.at = "full" /\ receiver' = [receiver EXCEPT !.at = "retry"]
  /\ frames' = IF frames = 0 THEN 0 ELSE frames - 1
  /\ UNCHANGED <<playVars, sender, daveVars, socketVars, inboundClosed, closing>>

SendAgain ==
  /\ receiver.at = "retry" /\ receiver' = [receiver EXCEPT !.at = "gate"]
  /\ frames' = IF frames < Buffer THEN frames + 1 ELSE frames
  /\ UNCHANGED <<playVars, sender, daveVars, socketVars, inboundClosed, closing>>

\* The pipeline takes a frame, after the close as well until none is left.
Consume ==
  /\ frames > 0 /\ frames' = frames - 1
  /\ UNCHANGED <<playVars, sender, receiver, daveVars, socketVars, inboundClosed, closing>>

-----------------------------------------------------------------------------
(* The transport *)

HandshakeDone ==
  /\ dave = "pending" /\ ~daveClosed /\ dave' = "active"
  /\ UNCHANGED <<playVars, sender, receiver, daveClosed, socketVars, inboundVars, closing>>

\* keepaliveUDPConn.Open on a voice gateway Ready, refused once it is closed.
OpenAllowed == ~udpClosed /\ conn < MaxSockets

Retired == IF sockets[conn] = "open" THEN [sockets EXCEPT ![conn] = "retired"] ELSE sockets

\* The previous socket is retired; if the dial fails it stays the current one.
OpenAgain ==
  /\ OpenAllowed
  /\ \/ /\ sockets' = [Retired EXCEPT ![conn + 1] = "open"]
        /\ conn' = conn + 1 /\ keepalive' = conn + 1 /\ UNCHANGED reopenFailed
     \/ /\ sockets' = Retired /\ UNCHANGED conn
        /\ keepalive' = 0 /\ reopenFailed' = TRUE
  /\ UNCHANGED <<playVars, sender, receiver, daveVars, udpClosed, inboundVars, closing>>

\* The linger is longer than a write takes.
LingerEnds(n) ==
  /\ sockets[n] = "retired" /\ ~(sender.at = "send" /\ sender.socket = n)
  /\ sockets' = [sockets EXCEPT ![n] = "closed"]
  /\ UNCHANGED <<playVars, sender, receiver, daveVars, conn, udpClosed, keepalive, reopenFailed,
                 inboundVars, closing>>

-----------------------------------------------------------------------------
(* Session.Close *)

CloseMayBegin == playMu = NoPlay

\* playMu for the whole teardown.
CloseLock ==
  /\ closing = "no" /\ CloseMayBegin
  /\ closing' = "locked" /\ playMu' = "close"
  /\ UNCHANGED <<play, playback, playCtx, framesLeft, displaced, slot, nowPlaying, silencing,
                 sender, receiver, daveVars, socketVars, inboundVars>>

StopCurrent ==
  /\ closing = "locked" /\ closing' = "stopped"
  /\ playCtx' = playCtx \cup ({nowPlaying} \ {NoPlay})
  /\ playback' = IF nowPlaying = NoPlay THEN playback ELSE Finished(nowPlaying, "cut")
  /\ UNCHANGED <<playMu, play, framesLeft, displaced, slot, nowPlaying, silencing,
                 sender, receiver, daveVars, socketVars, inboundVars>>

\* conn.Close leaves the channel and closes the gateway, the transport and DAVE.
CloseConn ==
  /\ closing = "stopped" /\ closing' = "left"
  /\ udpClosed' = TRUE /\ keepalive' = 0 /\ sockets' = [sockets EXCEPT ![conn] = "closed"]
  /\ daveClosed' = TRUE
  /\ UNCHANGED <<playVars, sender, receiver, dave, conn, reopenFailed, inboundVars>>

\* switchingProvider.Close: silence frames from now on, and no slot.
CloseProvider ==
  /\ closing = "left" /\ closing' = "silenced" /\ silencing' = TRUE /\ slot' = NoPlay
  /\ playback' = IF slot = NoPlay THEN playback ELSE Finished(slot, "cut")
  /\ UNCHANGED <<playMu, play, playCtx, framesLeft, displaced, nowPlaying,
                 sender, receiver, daveVars, socketVars, inboundVars>>

\* inboundDispatcher.Close waits out a receive in flight.
CloseDispatcher ==
  /\ closing = "silenced" /\ receiver.at \notin {"full", "retry"}
  /\ closing' = "done" /\ inboundClosed' = TRUE /\ playMu' = NoPlay
  /\ UNCHANGED <<play, playback, playCtx, framesLeft, displaced, slot, nowPlaying, silencing,
                 sender, receiver, daveVars, socketVars, frames>>

SenderStep == ProvideOpusFrame \/ NextFrame \/ WriteFrame
ReceiverStep == ReadPacket \/ ReceiverDies \/ DropOldest \/ SendAgain
CloseStep == StopCurrent \/ CloseConn \/ CloseProvider \/ CloseDispatcher

VoiceNext ==
  \/ \E p \in Plays :
       PlayLock(p) \/ PlaySwap(p) \/ PlayReturn(p) \/ CancelPlay(p) \/ WatchCancelled(p)
  \/ SenderStep \/ ReceiverStep \/ ReceiveOpusFrame \/ Consume
  \/ HandshakeDone \/ OpenAgain \/ (\E n \in 1..MaxSockets : LingerEnds(n))
  \/ CloseLock \/ CloseStep

VoiceSpec == VoiceInit /\ [][VoiceNext]_voiceVars

-----------------------------------------------------------------------------
(* What a Session promises *)

\* A playback is in the slot, about to be stopped by the Play that displaced it, or
\* over: none is left behind for a pump to wait on (session.go 113-117).  After
\* Close all are over, and none is installed any more.
NoneForsaken ==
  \A p \in Plays : playback[p] = "open" =>
    /\ p \in {slot, displaced}
    /\ closing # "done"

\* Silence frames that poke the sender never reach the room (provider.go 110-114), and
\* a socket is not revived by a straggler Ready (udpconn.go 96-100).
QuietAfterClose ==
  /\ sender.poke /\ sender.at = "send" => sockets[sender.socket] = "closed"
  /\ udpClosed => keepalive = 0 /\ \A n \in 1..MaxSockets : sockets[n] # "open"

\* While the Session serves, a migration leaves it a sender, a keepalive loop on its
\* socket, and a receiver or an end of Inbound that ends the cycle: it is never mute
\* or deaf without anybody noticing, except that a dial that fails leaves it mute until
\* its receiver is woken (udpconn.go 277-288).
ServesWhileOpen ==
  /\ sender.at = "gone" => udpClosed \/ reopenFailed
  /\ ~udpClosed => keepalive = conn \/ reopenFailed
  /\ receiver.at = "gone" => inboundClosed

\* No frame is sent on a closed channel, and the newest always finds room, since the
\* receiver is the only producer (inbound.go 85-106).
InboundSafe ==
  /\ receiver.at \in {"full", "retry"} => ~inboundClosed
  /\ receiver.at = "retry" => frames < Buffer

VoiceInv ==
  VoiceTypeOK /\ NoneForsaken /\ QuietAfterClose /\ ServesWhileOpen /\ InboundSafe

\* After Close disgo's goroutines end (#579, #586).  A cancelled playback ends whether
\* or not anybody polls it, and one that may be sent ends by itself.  Since no Play
\* opens twice, to be pending for ever is never to come back to Settled.
Sendable == closing = "no" /\ Ready /\ sender.at # "gone"
VoiceSettled ==
  /\ closing = "done" => sender.at = "gone" /\ receiver.at = "gone"
  /\ \A p \in Plays : playback[p] = "open" => p \notin playCtx /\ ~Sendable
VoiceEnds == []<>VoiceSettled
=============================================================================
