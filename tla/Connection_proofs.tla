-------------------------- MODULE Connection_proofs ---------------------------
(*************************************************************************)
(* Proofs about a Session in a voice channel (VoiceSession) and the loop *)
(* that keeps one up (VoiceLink). For any number of playbacks, sockets   *)
(* and frames, and any stall window.                                     *)
(*************************************************************************)
EXTENDS SharedProps, TLAPS

-------------------------------------------------------------------------------
(*************************************************************************)
(* The Session. VoiceInv is not inductive: a Play, a Close and the       *)
(* sender are in the middle of what they do. CycleInv says what the      *)
(* holder of playMu does with it, that a playback that is not over is    *)
(* installed or being installed, how far Close has come, and what the    *)
(* sender has in its hands.                                              *)
(*************************************************************************)

\* Whoever holds playMu does what it holds it for, and has it to itself.
MutexHeld ==
  /\ \A p \in Plays : play[p] \in {"locked", "swapped"} <=> playMu = p
  /\ playMu = "close" <=> closing \in {"locked", "stopped", "left", "silenced"}
  /\ playMu \in Plays => closing = "no"
  /\ displaced # NoPlay => playMu \in Plays /\ play[playMu] = "swapped"

\* A playback that is not over is the one installed, or the one being displaced.
OpenIsInstalled ==
  /\ \A p \in Plays : playback[p] = "open" => p \in {slot, displaced}
  /\ closing \in {"silenced", "done"} => slot = NoPlay

\* What Close has torn down so far; one socket at most is open, the current one.
TornDown ==
  /\ udpClosed <=> closing \in {"left", "silenced", "done"}
  /\ silencing <=> closing \in {"silenced", "done"}
  /\ udpClosed => sockets[conn] = "closed"
  /\ ~udpClosed => sockets[conn] = "open" \/ reopenFailed
  /\ \A n \in 1..MaxSockets : sockets[n] = "open" => n = conn

\* The sender writes on a socket it has looked up, and pokes only once the UDP side is
\* closed.
SenderSound ==
  /\ sender.at = "frame" => sender.slot # NoPlay
  /\ sender.at = "send" => sender.socket # 0
  /\ sender.poke => sender.at = "send" /\ udpClosed
  /\ sender.at = "send" /\ ~udpClosed /\ ~reopenFailed =>
       sockets[sender.socket] \in {"open", "retired"}

\* VoiceInv, and what the mutex, the slot, Close and the sender do between two steps.
CycleInv == VoiceInv /\ MutexHeld /\ OpenIsInstalled /\ TornDown /\ SenderSound

USE VoiceSessionAssumption

\* What the sender's state may be.
Senders == [at : {"idle", "frame", "send", "gone"}, slot : Plays \cup {NoPlay},
            socket : 0..MaxSockets, poke : BOOLEAN]

\* An idle sender is at work on no playback and on no socket.
LEMMA IdleIsSender ==
  /\ SenderIdle \in Senders
  /\ SenderIdle.at = "idle" /\ SenderIdle.slot = NoPlay /\ SenderIdle.socket = 0
       /\ SenderIdle.poke = FALSE
  BY DEF SenderIdle, Senders

\* Play takes a mutex nobody holds, and its playback is not yet the one installed.
LEMMA PlayLockKeeps ==
  ASSUME CycleInv, NEW p \in Plays, PlayLock(p)
  PROVE  CycleInv'
<1> USE DEF CycleInv, VoiceInv
<1>0. /\ UNCHANGED <<playback, playCtx, framesLeft, displaced, slot, nowPlaying, silencing,
                     sender, receiver, dave, daveClosed, sockets, conn, udpClosed,
                     keepalive, reopenFailed, frames, inboundClosed, closing>>
      /\ play[p] = "idle" /\ playMu = NoPlay
      /\ \/ closing = "no" /\ playMu' = p /\ \A q \in Plays : play'[q] = IF q = p
              THEN "locked" ELSE play[q]
         \/ closing # "no" /\ playMu' = playMu /\ \A q \in Plays : play'[q] = IF q = p
              THEN "refused" ELSE play[q]
      /\ play' \in [Plays -> {"idle", "locked", "swapped", "returned", "refused"}]
  BY DEF PlayLock, voiceVars, playVars, daveVars, socketVars, inboundVars, VoiceTypeOK
<1>1. VoiceTypeOK'
  BY <1>0 DEF VoiceTypeOK, SenderIdle
<1>2. NoneForsaken'
  BY <1>0 DEF NoneForsaken, OpenIsInstalled, MutexHeld, VoiceTypeOK
<1>3. QuietAfterClose'
  BY <1>0 DEF QuietAfterClose, TornDown, SenderSound, VoiceTypeOK, SenderIdle
<1>4. ServesWhileOpen'
  BY <1>0 DEF ServesWhileOpen, TornDown, SenderSound, VoiceTypeOK, SenderIdle
<1>5. InboundSafe'
  BY <1>0 DEF InboundSafe, VoiceTypeOK
<1>6. MutexHeld'
  BY <1>0 DEF MutexHeld, VoiceTypeOK
<1>7. OpenIsInstalled'
  BY <1>0 DEF OpenIsInstalled, MutexHeld, NoneForsaken, VoiceTypeOK
<1>8. TornDown'
  BY <1>0 DEF TornDown, MutexHeld, SenderSound, VoiceTypeOK
<1>9. SenderSound'
  BY <1>0 DEF SenderSound, TornDown, VoiceTypeOK, SenderIdle
<1> QED BY <1>1, <1>2, <1>3, <1>4, <1>5, <1>6, <1>7, <1>8, <1>9

\* The swap installs the playback and hands what it displaced to the same Play.
LEMMA PlaySwapKeeps ==
  ASSUME CycleInv, NEW p \in Plays, PlaySwap(p)
  PROVE  CycleInv'
<1> USE DEF CycleInv, VoiceInv
<1>0. /\ UNCHANGED <<playMu, playCtx, framesLeft, nowPlaying, silencing, sender, receiver,
                     dave, daveClosed, sockets, conn, udpClosed, keepalive, reopenFailed,
                     frames, inboundClosed, closing>>
      /\ play[p] = "locked" /\ slot' = p /\ displaced' = slot
      /\ \A q \in Plays : play'[q] = IF q = p THEN "swapped" ELSE play[q]
      /\ \A q \in Plays : playback'[q] = IF q = p THEN "open" ELSE playback[q]
      /\ play' \in [Plays -> {"idle", "locked", "swapped", "returned", "refused"}]
      /\ playback' \in [Plays -> {"none", "open", "clean", "cut"}]
  BY DEF PlaySwap, voiceVars, playVars, daveVars, socketVars, inboundVars, VoiceTypeOK
<1>1. VoiceTypeOK'
  BY <1>0 DEF VoiceTypeOK, SenderIdle
<1>2. NoneForsaken'
  BY <1>0 DEF NoneForsaken, OpenIsInstalled, MutexHeld, VoiceTypeOK
<1>3. QuietAfterClose'
  BY <1>0 DEF QuietAfterClose, TornDown, SenderSound, VoiceTypeOK, SenderIdle
<1>4. ServesWhileOpen'
  BY <1>0 DEF ServesWhileOpen, TornDown, SenderSound, VoiceTypeOK, SenderIdle
<1>5. InboundSafe'
  BY <1>0 DEF InboundSafe, VoiceTypeOK
<1>6. MutexHeld'
  BY <1>0 DEF MutexHeld, VoiceTypeOK
<1>7. OpenIsInstalled'
  BY <1>0 DEF OpenIsInstalled, MutexHeld, NoneForsaken, VoiceTypeOK
<1>8. TornDown'
  BY <1>0 DEF TornDown, MutexHeld, SenderSound, VoiceTypeOK
<1>9. SenderSound'
  BY <1>0 DEF SenderSound, TornDown, VoiceTypeOK, SenderIdle
<1> QED BY <1>1, <1>2, <1>3, <1>4, <1>5, <1>6, <1>7, <1>8, <1>9

\* Play finishes what it displaced, and only then lets go of the mutex.
LEMMA PlayReturnKeeps ==
  ASSUME CycleInv, NEW p \in Plays, PlayReturn(p)
  PROVE  CycleInv'
<1> USE DEF CycleInv, VoiceInv
<1>0. /\ UNCHANGED <<framesLeft, slot, silencing, sender, receiver, dave, daveClosed,
                     sockets, conn, udpClosed, keepalive, reopenFailed, frames,
                     inboundClosed, closing>>
      /\ play[p] = "swapped" /\ nowPlaying' = p /\ displaced' = NoPlay /\ playMu' = NoPlay
      /\ \A q \in Plays : play'[q] = IF q = p THEN "returned" ELSE play[q]
      /\ playCtx' = playCtx \cup ({displaced} \ {NoPlay})
      /\ \A q \in Plays : playback'[q] = IF q = displaced /\ playback[q] = "open"
           THEN "cut" ELSE playback[q]
      /\ play' \in [Plays -> {"idle", "locked", "swapped", "returned", "refused"}]
      /\ playback' \in [Plays -> {"none", "open", "clean", "cut"}]
  BY DEF PlayReturn, voiceVars, playVars, daveVars, socketVars, inboundVars, VoiceTypeOK,
         Finished, VoiceSessionAssumption
<1>1. VoiceTypeOK'
  BY <1>0 DEF VoiceTypeOK, SenderIdle
<1>2. NoneForsaken'
  BY <1>0 DEF NoneForsaken, OpenIsInstalled, MutexHeld, VoiceTypeOK
<1>3. QuietAfterClose'
  BY <1>0 DEF QuietAfterClose, TornDown, SenderSound, VoiceTypeOK, SenderIdle
<1>4. ServesWhileOpen'
  BY <1>0 DEF ServesWhileOpen, TornDown, SenderSound, VoiceTypeOK, SenderIdle
<1>5. InboundSafe'
  BY <1>0 DEF InboundSafe, VoiceTypeOK
<1>6. MutexHeld'
  BY <1>0 DEF MutexHeld, VoiceTypeOK
<1>7. OpenIsInstalled'
  BY <1>0 DEF OpenIsInstalled, MutexHeld, NoneForsaken, VoiceTypeOK
<1>8. TornDown'
  BY <1>0 DEF TornDown, MutexHeld, SenderSound, VoiceTypeOK
<1>9. SenderSound'
  BY <1>0 DEF SenderSound, TornDown, VoiceTypeOK, SenderIdle
<1> QED BY <1>1, <1>2, <1>3, <1>4, <1>5, <1>6, <1>7, <1>8, <1>9

\* A cancelled context ends no playback by itself.
LEMMA CancelPlayKeeps ==
  ASSUME CycleInv, NEW p \in Plays, CancelPlay(p)
  PROVE  CycleInv'
<1> USE DEF CycleInv, VoiceInv
<1>0. /\ UNCHANGED <<playMu, play, playback, framesLeft, displaced, slot, nowPlaying,
                     silencing, sender, receiver, dave, daveClosed, sockets, conn,
                     udpClosed, keepalive, reopenFailed, frames, inboundClosed, closing>>
      /\ playCtx' = playCtx \cup {p}
  BY DEF CancelPlay, voiceVars, playVars, daveVars, socketVars, inboundVars
<1>1. VoiceTypeOK'
  BY <1>0 DEF VoiceTypeOK, SenderIdle
<1>2. NoneForsaken'
  BY <1>0 DEF NoneForsaken, OpenIsInstalled, MutexHeld, VoiceTypeOK
<1>3. QuietAfterClose'
  BY <1>0 DEF QuietAfterClose, TornDown, SenderSound, VoiceTypeOK, SenderIdle
<1>4. ServesWhileOpen'
  BY <1>0 DEF ServesWhileOpen, TornDown, SenderSound, VoiceTypeOK, SenderIdle
<1>5. InboundSafe'
  BY <1>0 DEF InboundSafe, VoiceTypeOK
<1>6. MutexHeld'
  BY <1>0 DEF MutexHeld, VoiceTypeOK
<1>7. OpenIsInstalled'
  BY <1>0 DEF OpenIsInstalled, MutexHeld, NoneForsaken, VoiceTypeOK
<1>8. TornDown'
  BY <1>0 DEF TornDown, MutexHeld, SenderSound, VoiceTypeOK
<1>9. SenderSound'
  BY <1>0 DEF SenderSound, TornDown, VoiceTypeOK, SenderIdle
<1> QED BY <1>1, <1>2, <1>3, <1>4, <1>5, <1>6, <1>7, <1>8, <1>9

\* The watcher ends the cancelled playback, installed or not.
LEMMA WatchCancelledKeeps ==
  ASSUME CycleInv, NEW p \in Plays, WatchCancelled(p)
  PROVE  CycleInv'
<1> USE DEF CycleInv, VoiceInv
<1>0. /\ UNCHANGED <<playMu, play, playCtx, framesLeft, displaced, slot, nowPlaying,
                     silencing, sender, receiver, dave, daveClosed, sockets, conn,
                     udpClosed, keepalive, reopenFailed, frames, inboundClosed, closing>>
      /\ \A q \in Plays : playback'[q] = IF q = p /\ playback[q] = "open" THEN "cut"
           ELSE playback[q]
      /\ playback' \in [Plays -> {"none", "open", "clean", "cut"}]
  BY DEF WatchCancelled, voiceVars, playVars, daveVars, socketVars, inboundVars,
         VoiceTypeOK, Finished
<1>1. VoiceTypeOK'
  BY <1>0 DEF VoiceTypeOK, SenderIdle
<1>2. NoneForsaken'
  BY <1>0 DEF NoneForsaken, OpenIsInstalled, MutexHeld, VoiceTypeOK
<1>3. QuietAfterClose'
  BY <1>0 DEF QuietAfterClose, TornDown, SenderSound, VoiceTypeOK, SenderIdle
<1>4. ServesWhileOpen'
  BY <1>0 DEF ServesWhileOpen, TornDown, SenderSound, VoiceTypeOK, SenderIdle
<1>5. InboundSafe'
  BY <1>0 DEF InboundSafe, VoiceTypeOK
<1>6. MutexHeld'
  BY <1>0 DEF MutexHeld, VoiceTypeOK
<1>7. OpenIsInstalled'
  BY <1>0 DEF OpenIsInstalled, MutexHeld, NoneForsaken, VoiceTypeOK
<1>8. TornDown'
  BY <1>0 DEF TornDown, MutexHeld, SenderSound, VoiceTypeOK
<1>9. SenderSound'
  BY <1>0 DEF SenderSound, TornDown, VoiceTypeOK, SenderIdle
<1> QED BY <1>1, <1>2, <1>3, <1>4, <1>5, <1>6, <1>7, <1>8, <1>9

\* A poll reads the slot and looks up the socket, or finds nothing to send.
LEMMA ProvideOpusFrameKeeps ==
  ASSUME CycleInv, ProvideOpusFrame
  PROVE  CycleInv'
<1> USE DEF CycleInv, VoiceInv
<1>0. /\ UNCHANGED <<playMu, play, playback, playCtx, framesLeft, displaced, slot,
                     nowPlaying, silencing, receiver, dave, daveClosed, sockets, conn,
                     udpClosed, keepalive, reopenFailed, frames, inboundClosed, closing>>
      /\ sender.at = "idle"
      /\ \/ silencing /\ sender'.at = "send" /\ sender'.slot = NoPlay
              /\ sender'.socket = conn /\ sender'.poke = TRUE /\ sender' \in Senders
         \/ slot # NoPlay /\ sender'.at = "frame" /\ sender'.slot = slot
              /\ sender'.socket = 0 /\ sender'.poke = FALSE /\ sender' \in Senders
  <2>0. slot \in Plays \cup {NoPlay} /\ conn \in 0..MaxSockets
    BY DEF VoiceTypeOK
  <2> HIDE DEF CycleInv, VoiceInv
  <2>1. CASE silencing /\ sender' = [at |-> "send", slot |-> NoPlay, socket |-> conn,
                                     poke |-> TRUE]
    <3>1. sender' \in Senders
      BY <2>0, <2>1 DEF Senders
    <3> QED BY <2>1, <3>1 DEF ProvideOpusFrame, voiceVars, playVars, daveVars, socketVars,
                   inboundVars
  <2>2. CASE slot # NoPlay /\ sender' = [SenderIdle EXCEPT !.at = "frame", !.slot = slot]
    <3>1. [SenderIdle EXCEPT !.at = "frame", !.slot = slot] \in Senders
      BY <2>0, IdleIsSender DEF Senders
    <3>2. /\ SenderIdle.socket = 0 /\ SenderIdle.poke = FALSE /\ SenderIdle \in Senders
      BY IdleIsSender
    <3>3. /\ sender'.at = "frame" /\ sender'.slot = slot /\ sender'.socket = 0
               /\ sender'.poke = FALSE
      BY <2>2, <3>2 DEF Senders
    <3> QED BY <2>2, <3>1, <3>3 DEF ProvideOpusFrame, voiceVars, playVars, daveVars,
                   socketVars, inboundVars
  <2> QED BY <2>1, <2>2 DEF ProvideOpusFrame
<1>1. VoiceTypeOK'
  BY <1>0 DEF VoiceTypeOK, Senders
<1>2. NoneForsaken'
  BY <1>0 DEF NoneForsaken, OpenIsInstalled, MutexHeld, VoiceTypeOK
<1>3. QuietAfterClose'
  BY <1>0 DEF QuietAfterClose, TornDown, SenderSound, VoiceTypeOK, SenderIdle
<1>4. ServesWhileOpen'
  BY <1>0 DEF ServesWhileOpen, TornDown, SenderSound, VoiceTypeOK, SenderIdle
<1>5. InboundSafe'
  BY <1>0 DEF InboundSafe, VoiceTypeOK
<1>6. MutexHeld'
  BY <1>0 DEF MutexHeld, VoiceTypeOK
<1>7. OpenIsInstalled'
  BY <1>0 DEF OpenIsInstalled, MutexHeld, NoneForsaken, VoiceTypeOK
<1>8. TornDown'
  BY <1>0 DEF TornDown, MutexHeld, SenderSound, VoiceTypeOK
<1>9. SenderSound'
  BY <1>0 DEF SenderSound, TornDown, VoiceTypeOK, SenderIdle
<1> QED BY <1>1, <1>2, <1>3, <1>4, <1>5, <1>6, <1>7, <1>8, <1>9

\* What the sender loaded gives a frame or has ended, and is cleared only if it is installed.
LEMMA NextFrameKeeps ==
  ASSUME CycleInv, NextFrame
  PROVE  CycleInv'
<1> USE DEF CycleInv, VoiceInv
<1>0. /\ UNCHANGED <<playMu, play, playCtx, displaced, nowPlaying, silencing, receiver,
                     dave, daveClosed, sockets, conn, udpClosed, keepalive, reopenFailed,
                     frames, inboundClosed, closing>>
      /\ sender.at = "frame" /\ sender.poke = FALSE /\ sender.slot \in Plays
      /\ \/ /\ sender'.at = "send" /\ sender'.slot = sender.slot /\ sender'.socket = conn
                 /\ sender'.poke = FALSE /\ sender' \in Senders
            /\ framesLeft' \subseteq framesLeft /\ UNCHANGED <<playback, slot>>
         \/ /\ sender'.at = "idle" /\ sender'.slot = NoPlay /\ sender'.socket = 0
                 /\ sender'.poke = FALSE /\ sender' \in Senders /\ UNCHANGED framesLeft
            /\ slot' = (IF slot = sender.slot THEN NoPlay ELSE slot)
            /\ \A q \in Plays : q # sender.slot \/ playback[q] # "open"
                 => playback'[q] = playback[q]
            /\ playback'[sender.slot] # "open" 
      /\ playback' \in [Plays -> {"none", "open", "clean", "cut"}]
  <2>0. /\ sender \in Senders /\ sender.poke = FALSE /\ sender.slot \in Plays
             /\ conn \in 0..MaxSockets
        /\ playback \in [Plays -> {"none", "open", "clean", "cut"}]
    BY DEF VoiceTypeOK, Senders, SenderSound, NextFrame
  <2> HIDE DEF CycleInv, VoiceInv
  <2>1. CASE sender.slot \notin playCtx /\ sender.slot \in framesLeft
    <3>1. /\ framesLeft' = framesLeft \ {sender.slot} /\ UNCHANGED <<playback, slot>>
          /\ sender' = [sender EXCEPT !.at = "send", !.socket = conn]
      BY <2>1 DEF NextFrame
    <3>2. sender' \in Senders
      BY <2>0, <3>1 DEF Senders
    <3>3. /\ sender'.at = "send" /\ sender'.slot = sender.slot /\ sender'.socket = conn
          /\ sender'.poke = FALSE
      BY <2>0, <3>1 DEF Senders
    <3> QED BY <2>0, <3>1, <3>2, <3>3 DEF NextFrame, voiceVars, playVars, daveVars,
                   socketVars, inboundVars
  <2>2. CASE ~(sender.slot \notin playCtx /\ sender.slot \in framesLeft)
    <3>1. /\ playback' = Finished(sender.slot, IF sender.slot \in playCtx THEN "cut"
                                  ELSE "clean")
          /\ slot' = Clear(sender.slot) /\ sender' = SenderIdle /\ UNCHANGED framesLeft
      BY <2>2 DEF NextFrame
    <3>2. /\ \A q \in Plays : q # sender.slot \/ playback[q] # "open"
               => playback'[q] = playback[q]
          /\ playback'[sender.slot] # "open"
          /\ playback' \in [Plays -> {"none", "open", "clean", "cut"}]
      BY <2>0, <3>1 DEF Finished
    <3> QED BY <2>0, <3>1, <3>2, IdleIsSender DEF NextFrame, Clear, voiceVars, playVars,
                   daveVars, socketVars, inboundVars
  <2> QED BY <2>1, <2>2
<1>1. VoiceTypeOK'
  <2>1. {displaced', slot', nowPlaying'} \subseteq Plays \cup {NoPlay}
        /\ framesLeft' \subseteq Plays
    BY <1>0 DEF VoiceTypeOK
  <2>2. sender' \in Senders
    BY <1>0
  <2> QED BY <1>0, <2>1, <2>2 DEF VoiceTypeOK, Senders
<1>2. NoneForsaken'
  BY <1>0 DEF NoneForsaken, OpenIsInstalled, MutexHeld, VoiceTypeOK
<1>3. QuietAfterClose'
  BY <1>0 DEF QuietAfterClose, TornDown, SenderSound, VoiceTypeOK, SenderIdle
<1>4. ServesWhileOpen'
  BY <1>0 DEF ServesWhileOpen, TornDown, SenderSound, VoiceTypeOK, SenderIdle
<1>5. InboundSafe'
  BY <1>0 DEF InboundSafe, VoiceTypeOK
<1>6. MutexHeld'
  BY <1>0 DEF MutexHeld, VoiceTypeOK
<1>7. OpenIsInstalled'
  BY <1>0 DEF OpenIsInstalled, MutexHeld, NoneForsaken, VoiceTypeOK
<1>8. TornDown'
  BY <1>0 DEF TornDown, MutexHeld, SenderSound, VoiceTypeOK
<1>9. SenderSound'
  BY <1>0 DEF SenderSound, TornDown, VoiceTypeOK, SenderIdle
<1> QED BY <1>1, <1>2, <1>3, <1>4, <1>5, <1>6, <1>7, <1>8, <1>9

\* The sender writes to the socket it looked up, or finds it closed and goes.
LEMMA WriteFrameKeeps ==
  ASSUME CycleInv, WriteFrame
  PROVE  CycleInv'
<1> USE DEF CycleInv, VoiceInv
<1>0. /\ UNCHANGED <<playMu, play, playback, playCtx, framesLeft, displaced, slot,
                     nowPlaying, silencing, receiver, dave, daveClosed, sockets, conn,
                     udpClosed, keepalive, reopenFailed, frames, inboundClosed, closing>>
      /\ sender.at = "send"
      /\ IF sockets[sender.socket] = "closed" THEN sender'.at = "gone"
           /\ sender'.slot = NoPlay /\ sender'.socket = 0 /\ sender'.poke = FALSE
                /\ sender' \in Senders
         ELSE sender'.at = "idle" /\ sender'.slot = NoPlay /\ sender'.socket = 0
           /\ sender'.poke = FALSE /\ sender' \in Senders
  <2> HIDE DEF CycleInv, VoiceInv
  <2>1. [SenderIdle EXCEPT !.at = "gone"] \in Senders
    BY IdleIsSender DEF Senders
  <2>2. LET new == [SenderIdle EXCEPT !.at = "gone"] IN
        new.at = "gone" /\ new.slot = NoPlay /\ new.socket = 0 /\ new.poke = FALSE
    BY IdleIsSender DEF Senders
  <2> QED BY <2>1, <2>2, IdleIsSender DEF WriteFrame, voiceVars, playVars, daveVars,
                 socketVars, inboundVars
<1>1. VoiceTypeOK'
  BY <1>0 DEF VoiceTypeOK, Senders
<1>2. NoneForsaken'
  BY <1>0 DEF NoneForsaken, OpenIsInstalled, MutexHeld, VoiceTypeOK
<1>3. QuietAfterClose'
  BY <1>0 DEF QuietAfterClose, TornDown, SenderSound, VoiceTypeOK, SenderIdle
<1>4. ServesWhileOpen'
  BY <1>0 DEF ServesWhileOpen, TornDown, SenderSound, VoiceTypeOK, SenderIdle
<1>5. InboundSafe'
  BY <1>0 DEF InboundSafe, VoiceTypeOK
<1>6. MutexHeld'
  BY <1>0 DEF MutexHeld, VoiceTypeOK
<1>7. OpenIsInstalled'
  BY <1>0 DEF OpenIsInstalled, MutexHeld, NoneForsaken, VoiceTypeOK
<1>8. TornDown'
  BY <1>0 DEF TornDown, MutexHeld, SenderSound, VoiceTypeOK
<1>9. SenderSound'
  BY <1>0 DEF SenderSound, TornDown, VoiceTypeOK, SenderIdle
<1> QED BY <1>1, <1>2, <1>3, <1>4, <1>5, <1>6, <1>7, <1>8, <1>9

\* A packet wakes the receiver.
LEMMA ReadPacketKeeps ==
  ASSUME CycleInv, ReadPacket
  PROVE  CycleInv'
<1> USE DEF CycleInv, VoiceInv
<1>0. /\ UNCHANGED <<playMu, play, playback, playCtx, framesLeft, displaced, slot,
                     nowPlaying, silencing, sender, dave, daveClosed, sockets, conn,
                     udpClosed, keepalive, reopenFailed, frames, inboundClosed, closing>>
      /\ receiver' = [at |-> "parked", socket |-> conn]
  BY DEF ReadPacket, voiceVars, playVars, daveVars, socketVars, inboundVars
<1>1. VoiceTypeOK'
  BY <1>0 DEF VoiceTypeOK, SenderIdle
<1>2. NoneForsaken'
  BY <1>0 DEF NoneForsaken, OpenIsInstalled, MutexHeld, VoiceTypeOK
<1>3. QuietAfterClose'
  BY <1>0 DEF QuietAfterClose, TornDown, SenderSound, VoiceTypeOK, SenderIdle
<1>4. ServesWhileOpen'
  BY <1>0 DEF ServesWhileOpen, TornDown, SenderSound, VoiceTypeOK, SenderIdle
<1>5. InboundSafe'
  BY <1>0 DEF InboundSafe, VoiceTypeOK
<1>6. MutexHeld'
  BY <1>0 DEF MutexHeld, VoiceTypeOK
<1>7. OpenIsInstalled'
  BY <1>0 DEF OpenIsInstalled, MutexHeld, NoneForsaken, VoiceTypeOK
<1>8. TornDown'
  BY <1>0 DEF TornDown, MutexHeld, SenderSound, VoiceTypeOK
<1>9. SenderSound'
  BY <1>0 DEF SenderSound, TornDown, VoiceTypeOK, SenderIdle
<1> QED BY <1>1, <1>2, <1>3, <1>4, <1>5, <1>6, <1>7, <1>8, <1>9

\* A receiver that finds its socket closed closes the dispatcher as it goes.
LEMMA ReceiverDiesKeeps ==
  ASSUME CycleInv, ReceiverDies
  PROVE  CycleInv'
<1> USE DEF CycleInv, VoiceInv
<1>0. /\ UNCHANGED <<playMu, play, playback, playCtx, framesLeft, displaced, slot,
                     nowPlaying, silencing, sender, dave, daveClosed, sockets, conn,
                     udpClosed, keepalive, reopenFailed, frames, closing>>
      /\ receiver.at = "parked"
      /\ receiver' = [at |-> "gone", socket |-> 0] /\ inboundClosed' = TRUE
  BY DEF ReceiverDies, voiceVars, playVars, daveVars, socketVars, inboundVars
<1>1. VoiceTypeOK'
  BY <1>0 DEF VoiceTypeOK, SenderIdle
<1>2. NoneForsaken'
  BY <1>0 DEF NoneForsaken, OpenIsInstalled, MutexHeld, VoiceTypeOK
<1>3. QuietAfterClose'
  BY <1>0 DEF QuietAfterClose, TornDown, SenderSound, VoiceTypeOK, SenderIdle
<1>4. ServesWhileOpen'
  BY <1>0 DEF ServesWhileOpen, TornDown, SenderSound, VoiceTypeOK, SenderIdle
<1>5. InboundSafe'
  BY <1>0 DEF InboundSafe, VoiceTypeOK
<1>6. MutexHeld'
  BY <1>0 DEF MutexHeld, VoiceTypeOK
<1>7. OpenIsInstalled'
  BY <1>0 DEF OpenIsInstalled, MutexHeld, NoneForsaken, VoiceTypeOK
<1>8. TornDown'
  BY <1>0 DEF TornDown, MutexHeld, SenderSound, VoiceTypeOK
<1>9. SenderSound'
  BY <1>0 DEF SenderSound, TornDown, VoiceTypeOK, SenderIdle
<1> QED BY <1>1, <1>2, <1>3, <1>4, <1>5, <1>6, <1>7, <1>8, <1>9

\* The dispatcher puts a frame into a channel that is open, or finds it full.
LEMMA ReceiveOpusFrameKeeps ==
  ASSUME CycleInv, ReceiveOpusFrame
  PROVE  CycleInv'
<1> USE DEF CycleInv, VoiceInv
<1>0. /\ UNCHANGED <<playMu, play, playback, playCtx, framesLeft, displaced, slot,
                     nowPlaying, silencing, sender, dave, daveClosed, sockets, conn,
                     udpClosed, keepalive, reopenFailed, inboundClosed, closing>>
      /\ receiver' = [at |-> IF inboundClosed \/ frames < Buffer THEN "gate" ELSE "full",
                      socket |-> 0]
      /\ frames' = IF ~inboundClosed /\ frames < Buffer THEN frames + 1 ELSE frames
  BY DEF ReceiveOpusFrame, voiceVars, playVars, daveVars, socketVars, inboundVars
<1>1. VoiceTypeOK'
  BY <1>0 DEF VoiceTypeOK, SenderIdle
<1>2. NoneForsaken'
  BY <1>0 DEF NoneForsaken, OpenIsInstalled, MutexHeld, VoiceTypeOK
<1>3. QuietAfterClose'
  BY <1>0 DEF QuietAfterClose, TornDown, SenderSound, VoiceTypeOK, SenderIdle
<1>4. ServesWhileOpen'
  BY <1>0 DEF ServesWhileOpen, TornDown, SenderSound, VoiceTypeOK, SenderIdle
<1>5. InboundSafe'
  BY <1>0 DEF InboundSafe, VoiceTypeOK
<1>6. MutexHeld'
  BY <1>0 DEF MutexHeld, VoiceTypeOK
<1>7. OpenIsInstalled'
  BY <1>0 DEF OpenIsInstalled, MutexHeld, NoneForsaken, VoiceTypeOK
<1>8. TornDown'
  BY <1>0 DEF TornDown, MutexHeld, SenderSound, VoiceTypeOK
<1>9. SenderSound'
  BY <1>0 DEF SenderSound, TornDown, VoiceTypeOK, SenderIdle
<1> QED BY <1>1, <1>2, <1>3, <1>4, <1>5, <1>6, <1>7, <1>8, <1>9

\* The oldest frame makes room.
LEMMA DropOldestKeeps ==
  ASSUME CycleInv, DropOldest
  PROVE  CycleInv'
<1> USE DEF CycleInv, VoiceInv
<1>0. /\ UNCHANGED <<playMu, play, playback, playCtx, framesLeft, displaced, slot,
                     nowPlaying, silencing, sender, dave, daveClosed, sockets, conn,
                     udpClosed, keepalive, reopenFailed, inboundClosed, closing>>
      /\ receiver.at = "full" /\ receiver' = [receiver EXCEPT !.at = "retry"]
      /\ frames' = IF frames = 0 THEN 0 ELSE frames - 1
  BY DEF DropOldest, voiceVars, playVars, daveVars, socketVars, inboundVars
<1>1. VoiceTypeOK'
  BY <1>0 DEF VoiceTypeOK, SenderIdle
<1>2. NoneForsaken'
  BY <1>0 DEF NoneForsaken, OpenIsInstalled, MutexHeld, VoiceTypeOK
<1>3. QuietAfterClose'
  BY <1>0 DEF QuietAfterClose, TornDown, SenderSound, VoiceTypeOK, SenderIdle
<1>4. ServesWhileOpen'
  BY <1>0 DEF ServesWhileOpen, TornDown, SenderSound, VoiceTypeOK, SenderIdle
<1>5. InboundSafe'
  BY <1>0 DEF InboundSafe, VoiceTypeOK
<1>6. MutexHeld'
  BY <1>0 DEF MutexHeld, VoiceTypeOK
<1>7. OpenIsInstalled'
  BY <1>0 DEF OpenIsInstalled, MutexHeld, NoneForsaken, VoiceTypeOK
<1>8. TornDown'
  BY <1>0 DEF TornDown, MutexHeld, SenderSound, VoiceTypeOK
<1>9. SenderSound'
  BY <1>0 DEF SenderSound, TornDown, VoiceTypeOK, SenderIdle
<1> QED BY <1>1, <1>2, <1>3, <1>4, <1>5, <1>6, <1>7, <1>8, <1>9

\* The newest finds room, since nobody else sends.
LEMMA SendAgainKeeps ==
  ASSUME CycleInv, SendAgain
  PROVE  CycleInv'
<1> USE DEF CycleInv, VoiceInv
<1>0. /\ UNCHANGED <<playMu, play, playback, playCtx, framesLeft, displaced, slot,
                     nowPlaying, silencing, sender, dave, daveClosed, sockets, conn,
                     udpClosed, keepalive, reopenFailed, inboundClosed, closing>>
      /\ receiver.at = "retry" /\ receiver' = [receiver EXCEPT !.at = "gate"]
      /\ frames' = IF frames < Buffer THEN frames + 1 ELSE frames
  BY DEF SendAgain, voiceVars, playVars, daveVars, socketVars, inboundVars
<1>1. VoiceTypeOK'
  BY <1>0 DEF VoiceTypeOK, SenderIdle
<1>2. NoneForsaken'
  BY <1>0 DEF NoneForsaken, OpenIsInstalled, MutexHeld, VoiceTypeOK
<1>3. QuietAfterClose'
  BY <1>0 DEF QuietAfterClose, TornDown, SenderSound, VoiceTypeOK, SenderIdle
<1>4. ServesWhileOpen'
  BY <1>0 DEF ServesWhileOpen, TornDown, SenderSound, VoiceTypeOK, SenderIdle
<1>5. InboundSafe'
  BY <1>0 DEF InboundSafe, VoiceTypeOK
<1>6. MutexHeld'
  BY <1>0 DEF MutexHeld, VoiceTypeOK
<1>7. OpenIsInstalled'
  BY <1>0 DEF OpenIsInstalled, MutexHeld, NoneForsaken, VoiceTypeOK
<1>8. TornDown'
  BY <1>0 DEF TornDown, MutexHeld, SenderSound, VoiceTypeOK
<1>9. SenderSound'
  BY <1>0 DEF SenderSound, TornDown, VoiceTypeOK, SenderIdle
<1> QED BY <1>1, <1>2, <1>3, <1>4, <1>5, <1>6, <1>7, <1>8, <1>9

\* The pipeline takes a frame.
LEMMA ConsumeKeeps ==
  ASSUME CycleInv, Consume
  PROVE  CycleInv'
<1> USE DEF CycleInv, VoiceInv
<1>0. /\ UNCHANGED <<playMu, play, playback, playCtx, framesLeft, displaced, slot,
                     nowPlaying, silencing, sender, receiver, dave, daveClosed, sockets,
                     conn, udpClosed, keepalive, reopenFailed, inboundClosed, closing>>
      /\ frames > 0 /\ frames' = frames - 1
  BY DEF Consume, voiceVars, playVars, daveVars, socketVars, inboundVars
<1>1. VoiceTypeOK'
  BY <1>0 DEF VoiceTypeOK, SenderIdle
<1>2. NoneForsaken'
  BY <1>0 DEF NoneForsaken, OpenIsInstalled, MutexHeld, VoiceTypeOK
<1>3. QuietAfterClose'
  BY <1>0 DEF QuietAfterClose, TornDown, SenderSound, VoiceTypeOK, SenderIdle
<1>4. ServesWhileOpen'
  BY <1>0 DEF ServesWhileOpen, TornDown, SenderSound, VoiceTypeOK, SenderIdle
<1>5. InboundSafe'
  BY <1>0 DEF InboundSafe, VoiceTypeOK
<1>6. MutexHeld'
  BY <1>0 DEF MutexHeld, VoiceTypeOK
<1>7. OpenIsInstalled'
  BY <1>0 DEF OpenIsInstalled, MutexHeld, NoneForsaken, VoiceTypeOK
<1>8. TornDown'
  BY <1>0 DEF TornDown, MutexHeld, SenderSound, VoiceTypeOK
<1>9. SenderSound'
  BY <1>0 DEF SenderSound, TornDown, VoiceTypeOK, SenderIdle
<1> QED BY <1>1, <1>2, <1>3, <1>4, <1>5, <1>6, <1>7, <1>8, <1>9

\* The DAVE handshake is done.
LEMMA HandshakeDoneKeeps ==
  ASSUME CycleInv, HandshakeDone
  PROVE  CycleInv'
<1> USE DEF CycleInv, VoiceInv
<1>0. /\ UNCHANGED <<playMu, play, playback, playCtx, framesLeft, displaced, slot,
                     nowPlaying, silencing, sender, receiver, daveClosed, sockets, conn,
                     udpClosed, keepalive, reopenFailed, frames, inboundClosed, closing>>
      /\ dave' = "active"
  BY DEF HandshakeDone, voiceVars, playVars, daveVars, socketVars, inboundVars
<1>1. VoiceTypeOK'
  BY <1>0 DEF VoiceTypeOK, SenderIdle
<1>2. NoneForsaken'
  BY <1>0 DEF NoneForsaken, OpenIsInstalled, MutexHeld, VoiceTypeOK
<1>3. QuietAfterClose'
  BY <1>0 DEF QuietAfterClose, TornDown, SenderSound, VoiceTypeOK, SenderIdle
<1>4. ServesWhileOpen'
  BY <1>0 DEF ServesWhileOpen, TornDown, SenderSound, VoiceTypeOK, SenderIdle
<1>5. InboundSafe'
  BY <1>0 DEF InboundSafe, VoiceTypeOK
<1>6. MutexHeld'
  BY <1>0 DEF MutexHeld, VoiceTypeOK
<1>7. OpenIsInstalled'
  BY <1>0 DEF OpenIsInstalled, MutexHeld, NoneForsaken, VoiceTypeOK
<1>8. TornDown'
  BY <1>0 DEF TornDown, MutexHeld, SenderSound, VoiceTypeOK
<1>9. SenderSound'
  BY <1>0 DEF SenderSound, TornDown, VoiceTypeOK, SenderIdle
<1> QED BY <1>1, <1>2, <1>3, <1>4, <1>5, <1>6, <1>7, <1>8, <1>9

\* A voice gateway Ready opens the next socket and retires the one before, never once the
\* transport is closed.
LEMMA OpenAgainKeeps ==
  ASSUME CycleInv, OpenAgain
  PROVE  CycleInv'
<1> USE DEF CycleInv, VoiceInv
<1>0. /\ UNCHANGED <<playMu, play, playback, playCtx, framesLeft, displaced, slot,
                     nowPlaying, silencing, sender, receiver, dave, daveClosed, udpClosed,
                     frames, inboundClosed, closing>>
      /\ ~udpClosed /\ conn < MaxSockets
      /\ \/ /\ conn' = conn + 1 /\ keepalive' = conn + 1 /\ UNCHANGED reopenFailed
            /\ \A n \in 1..MaxSockets : sockets'[n] =
                 IF n = conn + 1 THEN "open" ELSE IF n = conn /\ sockets[n] = "open"
                   THEN "retired" ELSE sockets[n]
         \/ /\ UNCHANGED conn /\ keepalive' = 0 /\ reopenFailed' = TRUE
            /\ \A n \in 1..MaxSockets : sockets'[n] = IF n = conn /\ sockets[n] = "open"
                 THEN "retired" ELSE sockets[n]
      /\ sockets' \in [1..MaxSockets -> {"none", "open", "retired", "closed"}]
  BY DEF OpenAgain, voiceVars, playVars, daveVars, socketVars, inboundVars, VoiceTypeOK,
         OpenAllowed, Retired
<1>1. VoiceTypeOK'
  <2>0. conn \in 1..MaxSockets /\ keepalive \in 0..MaxSockets /\ reopenFailed \in BOOLEAN
    BY DEF VoiceTypeOK
  <2>1. (conn' = conn + 1 /\ keepalive' = conn + 1 /\ conn < MaxSockets) \/ (conn' = conn
        /\ keepalive' = 0)
    BY <1>0
  <2>2. reopenFailed' \in BOOLEAN
    BY <1>0, <2>0
  <2> HIDE DEF CycleInv, VoiceInv
  <2>3. conn' \in 1..MaxSockets /\ keepalive' \in 0..MaxSockets
    BY <2>0, <2>1
  <2> QED BY <1>0, <2>2, <2>3 DEF CycleInv, VoiceInv, VoiceTypeOK
<1>2. NoneForsaken'
  BY <1>0 DEF NoneForsaken, OpenIsInstalled, MutexHeld, VoiceTypeOK
<1>3. QuietAfterClose'
  BY <1>0 DEF QuietAfterClose, TornDown, SenderSound, VoiceTypeOK, SenderIdle
<1>4. ServesWhileOpen'
  BY <1>0 DEF ServesWhileOpen, TornDown, SenderSound, VoiceTypeOK, SenderIdle
<1>5. InboundSafe'
  BY <1>0 DEF InboundSafe, VoiceTypeOK
<1>6. MutexHeld'
  BY <1>0 DEF MutexHeld, VoiceTypeOK
<1>7. OpenIsInstalled'
  BY <1>0 DEF OpenIsInstalled, MutexHeld, NoneForsaken, VoiceTypeOK
<1>8. TornDown'
  BY <1>0 DEF TornDown, MutexHeld, SenderSound, VoiceTypeOK
<1>9. SenderSound'
  BY <1>0 DEF SenderSound, TornDown, VoiceTypeOK, SenderIdle
<1> QED BY <1>1, <1>2, <1>3, <1>4, <1>5, <1>6, <1>7, <1>8, <1>9

\* A retired socket is closed after the linger, and no other.
LEMMA LingerEndsKeeps ==
  ASSUME CycleInv, NEW n \in 1..MaxSockets, LingerEnds(n)
  PROVE  CycleInv'
<1> USE DEF CycleInv, VoiceInv
<1>0. /\ UNCHANGED <<playMu, play, playback, playCtx, framesLeft, displaced, slot,
                     nowPlaying, silencing, sender, receiver, dave, daveClosed, conn,
                     udpClosed, keepalive, reopenFailed, frames, inboundClosed, closing>>
      /\ sockets[n] = "retired" /\ ~(sender.at = "send" /\ sender.socket = n)
      /\ \A k \in 1..MaxSockets : sockets'[k] = IF k = n THEN "closed" ELSE sockets[k]
      /\ sockets' \in [1..MaxSockets -> {"none", "open", "retired", "closed"}]
  BY DEF LingerEnds, voiceVars, playVars, daveVars, socketVars, inboundVars, VoiceTypeOK
<1>1. VoiceTypeOK'
  BY <1>0 DEF VoiceTypeOK, SenderIdle
<1>2. NoneForsaken'
  BY <1>0 DEF NoneForsaken, OpenIsInstalled, MutexHeld, VoiceTypeOK
<1>3. QuietAfterClose'
  BY <1>0 DEF QuietAfterClose, TornDown, SenderSound, VoiceTypeOK, SenderIdle
<1>4. ServesWhileOpen'
  BY <1>0 DEF ServesWhileOpen, TornDown, SenderSound, VoiceTypeOK, SenderIdle
<1>5. InboundSafe'
  BY <1>0 DEF InboundSafe, VoiceTypeOK
<1>6. MutexHeld'
  BY <1>0 DEF MutexHeld, VoiceTypeOK
<1>7. OpenIsInstalled'
  BY <1>0 DEF OpenIsInstalled, MutexHeld, NoneForsaken, VoiceTypeOK
<1>8. TornDown'
  BY <1>0 DEF TornDown, MutexHeld, SenderSound, VoiceTypeOK
<1>9. SenderSound'
  BY <1>0 DEF SenderSound, TornDown, VoiceTypeOK, SenderIdle
<1> QED BY <1>1, <1>2, <1>3, <1>4, <1>5, <1>6, <1>7, <1>8, <1>9

\* Close takes the mutex no Play holds.
LEMMA CloseLockKeeps ==
  ASSUME CycleInv, CloseLock
  PROVE  CycleInv'
<1> USE DEF CycleInv, VoiceInv
<1>0. /\ UNCHANGED <<play, playback, playCtx, framesLeft, displaced, slot, nowPlaying,
                     silencing, sender, receiver, dave, daveClosed, sockets, conn,
                     udpClosed, keepalive, reopenFailed, frames, inboundClosed>>
      /\ closing = "no" /\ playMu = NoPlay /\ closing' = "locked" /\ playMu' = "close"
  BY DEF CloseLock, voiceVars, playVars, daveVars, socketVars, inboundVars, CloseMayBegin
<1>1. VoiceTypeOK'
  BY <1>0 DEF VoiceTypeOK, SenderIdle
<1>2. NoneForsaken'
  BY <1>0 DEF NoneForsaken, OpenIsInstalled, MutexHeld, VoiceTypeOK
<1>3. QuietAfterClose'
  BY <1>0 DEF QuietAfterClose, TornDown, SenderSound, VoiceTypeOK, SenderIdle
<1>4. ServesWhileOpen'
  BY <1>0 DEF ServesWhileOpen, TornDown, SenderSound, VoiceTypeOK, SenderIdle
<1>5. InboundSafe'
  BY <1>0 DEF InboundSafe, VoiceTypeOK
<1>6. MutexHeld'
  BY <1>0 DEF MutexHeld, VoiceTypeOK
<1>7. OpenIsInstalled'
  BY <1>0 DEF OpenIsInstalled, MutexHeld, NoneForsaken, VoiceTypeOK
<1>8. TornDown'
  BY <1>0 DEF TornDown, MutexHeld, SenderSound, VoiceTypeOK
<1>9. SenderSound'
  BY <1>0 DEF SenderSound, TornDown, VoiceTypeOK, SenderIdle
<1> QED BY <1>1, <1>2, <1>3, <1>4, <1>5, <1>6, <1>7, <1>8, <1>9

\* Close finishes the playback in the slot: no other is left open.
LEMMA StopCurrentKeeps ==
  ASSUME CycleInv, StopCurrent
  PROVE  CycleInv'
<1> USE DEF CycleInv, VoiceInv
<1>0. /\ UNCHANGED <<playMu, play, framesLeft, displaced, slot, nowPlaying, silencing,
                     sender, receiver, dave, daveClosed, sockets, conn, udpClosed,
                     keepalive, reopenFailed, frames, inboundClosed>>
      /\ closing = "locked" /\ closing' = "stopped"
      /\ playCtx' = playCtx \cup ({nowPlaying} \ {NoPlay})
      /\ \A q \in Plays : playback'[q] = IF q = nowPlaying /\ playback[q] = "open"
           THEN "cut" ELSE playback[q]
      /\ playback' \in [Plays -> {"none", "open", "clean", "cut"}]
  BY DEF StopCurrent, voiceVars, playVars, daveVars, socketVars, inboundVars, VoiceTypeOK,
         Finished, VoiceSessionAssumption
<1>1. VoiceTypeOK'
  BY <1>0 DEF VoiceTypeOK, SenderIdle
<1>2. NoneForsaken'
  BY <1>0 DEF NoneForsaken, OpenIsInstalled, MutexHeld, VoiceTypeOK
<1>3. QuietAfterClose'
  BY <1>0 DEF QuietAfterClose, TornDown, SenderSound, VoiceTypeOK, SenderIdle
<1>4. ServesWhileOpen'
  BY <1>0 DEF ServesWhileOpen, TornDown, SenderSound, VoiceTypeOK, SenderIdle
<1>5. InboundSafe'
  BY <1>0 DEF InboundSafe, VoiceTypeOK
<1>6. MutexHeld'
  BY <1>0 DEF MutexHeld, VoiceTypeOK
<1>7. OpenIsInstalled'
  BY <1>0 DEF OpenIsInstalled, MutexHeld, NoneForsaken, VoiceTypeOK
<1>8. TornDown'
  BY <1>0 DEF TornDown, MutexHeld, SenderSound, VoiceTypeOK
<1>9. SenderSound'
  BY <1>0 DEF SenderSound, TornDown, VoiceTypeOK, SenderIdle
<1> QED BY <1>1, <1>2, <1>3, <1>4, <1>5, <1>6, <1>7, <1>8, <1>9

\* Leaving the channel closes the socket and DAVE.
LEMMA CloseConnKeeps ==
  ASSUME CycleInv, CloseConn
  PROVE  CycleInv'
<1> USE DEF CycleInv, VoiceInv
<1>0. /\ UNCHANGED <<playMu, play, playback, playCtx, framesLeft, displaced, slot,
                     nowPlaying, silencing, sender, receiver, dave, conn, reopenFailed,
                     frames, inboundClosed>>
      /\ closing = "stopped" /\ closing' = "left" /\ udpClosed' = TRUE /\ keepalive' = 0
           /\ daveClosed' = TRUE
      /\ \A n \in 1..MaxSockets : sockets'[n] = IF n = conn THEN "closed" ELSE sockets[n]
      /\ sockets' \in [1..MaxSockets -> {"none", "open", "retired", "closed"}]
  BY DEF CloseConn, voiceVars, playVars, daveVars, socketVars, inboundVars, VoiceTypeOK
<1>1. VoiceTypeOK'
  BY <1>0 DEF VoiceTypeOK, SenderIdle
<1>2. NoneForsaken'
  BY <1>0 DEF NoneForsaken, OpenIsInstalled, MutexHeld, VoiceTypeOK
<1>3. QuietAfterClose'
  BY <1>0 DEF QuietAfterClose, TornDown, SenderSound, VoiceTypeOK, SenderIdle
<1>4. ServesWhileOpen'
  BY <1>0 DEF ServesWhileOpen, TornDown, SenderSound, VoiceTypeOK, SenderIdle
<1>5. InboundSafe'
  BY <1>0 DEF InboundSafe, VoiceTypeOK
<1>6. MutexHeld'
  BY <1>0 DEF MutexHeld, VoiceTypeOK
<1>7. OpenIsInstalled'
  BY <1>0 DEF OpenIsInstalled, MutexHeld, NoneForsaken, VoiceTypeOK
<1>8. TornDown'
  BY <1>0 DEF TornDown, MutexHeld, SenderSound, VoiceTypeOK
<1>9. SenderSound'
  BY <1>0 DEF SenderSound, TornDown, VoiceTypeOK, SenderIdle
<1> QED BY <1>1, <1>2, <1>3, <1>4, <1>5, <1>6, <1>7, <1>8, <1>9

\* The provider gives silence from now on and forgets the slot.
LEMMA CloseProviderKeeps ==
  ASSUME CycleInv, CloseProvider
  PROVE  CycleInv'
<1> USE DEF CycleInv, VoiceInv
<1>0. /\ UNCHANGED <<playMu, play, playCtx, framesLeft, displaced, nowPlaying, sender,
                     receiver, dave, daveClosed, sockets, conn, udpClosed, keepalive,
                     reopenFailed, frames, inboundClosed>>
      /\ closing = "left" /\ closing' = "silenced" /\ silencing' = TRUE /\ slot' = NoPlay
      /\ \A q \in Plays : playback'[q] = IF q = slot /\ playback[q] = "open" THEN "cut"
           ELSE playback[q]
      /\ playback' \in [Plays -> {"none", "open", "clean", "cut"}]
  BY DEF CloseProvider, voiceVars, playVars, daveVars, socketVars, inboundVars,
         VoiceTypeOK, Finished, VoiceSessionAssumption
<1>1. VoiceTypeOK'
  BY <1>0 DEF VoiceTypeOK, SenderIdle
<1>2. NoneForsaken'
  BY <1>0 DEF NoneForsaken, OpenIsInstalled, MutexHeld, VoiceTypeOK
<1>3. QuietAfterClose'
  BY <1>0 DEF QuietAfterClose, TornDown, SenderSound, VoiceTypeOK, SenderIdle
<1>4. ServesWhileOpen'
  BY <1>0 DEF ServesWhileOpen, TornDown, SenderSound, VoiceTypeOK, SenderIdle
<1>5. InboundSafe'
  BY <1>0 DEF InboundSafe, VoiceTypeOK
<1>6. MutexHeld'
  BY <1>0 DEF MutexHeld, VoiceTypeOK
<1>7. OpenIsInstalled'
  BY <1>0 DEF OpenIsInstalled, MutexHeld, NoneForsaken, VoiceTypeOK
<1>8. TornDown'
  BY <1>0 DEF TornDown, MutexHeld, SenderSound, VoiceTypeOK
<1>9. SenderSound'
  BY <1>0 DEF SenderSound, TornDown, VoiceTypeOK, SenderIdle
<1> QED BY <1>1, <1>2, <1>3, <1>4, <1>5, <1>6, <1>7, <1>8, <1>9

\* Inbound is closed once, after a receive in flight.
LEMMA CloseDispatcherKeeps ==
  ASSUME CycleInv, CloseDispatcher
  PROVE  CycleInv'
<1> USE DEF CycleInv, VoiceInv
<1>0. /\ UNCHANGED <<play, playback, playCtx, framesLeft, displaced, slot, nowPlaying,
                     silencing, sender, receiver, dave, daveClosed, sockets, conn,
                     udpClosed, keepalive, reopenFailed, frames>>
      /\ closing = "silenced" /\ receiver.at \notin {"full", "retry"} /\ closing' = "done"
           /\ inboundClosed' = TRUE /\ playMu' = NoPlay
  BY DEF CloseDispatcher, voiceVars, playVars, daveVars, socketVars, inboundVars
<1>1. VoiceTypeOK'
  BY <1>0 DEF VoiceTypeOK, SenderIdle
<1>2. NoneForsaken'
  BY <1>0 DEF NoneForsaken, OpenIsInstalled, MutexHeld, VoiceTypeOK
<1>3. QuietAfterClose'
  BY <1>0 DEF QuietAfterClose, TornDown, SenderSound, VoiceTypeOK, SenderIdle
<1>4. ServesWhileOpen'
  BY <1>0 DEF ServesWhileOpen, TornDown, SenderSound, VoiceTypeOK, SenderIdle
<1>5. InboundSafe'
  BY <1>0 DEF InboundSafe, VoiceTypeOK
<1>6. MutexHeld'
  BY <1>0 DEF MutexHeld, VoiceTypeOK
<1>7. OpenIsInstalled'
  BY <1>0 DEF OpenIsInstalled, MutexHeld, NoneForsaken, VoiceTypeOK
<1>8. TornDown'
  BY <1>0 DEF TornDown, MutexHeld, SenderSound, VoiceTypeOK
<1>9. SenderSound'
  BY <1>0 DEF SenderSound, TornDown, VoiceTypeOK, SenderIdle
<1> QED BY <1>1, <1>2, <1>3, <1>4, <1>5, <1>6, <1>7, <1>8, <1>9

\* A step that changes nothing of the Session keeps it.
LEMMA SessionStutters ==
  ASSUME CycleInv, UNCHANGED voiceVars
  PROVE  CycleInv'
<1> USE DEF CycleInv, VoiceInv, voiceVars, playVars, daveVars, socketVars, inboundVars
<1>1. VoiceTypeOK'
  BY DEF VoiceTypeOK
<1>2. NoneForsaken'
  BY DEF NoneForsaken
<1>3. QuietAfterClose'
  BY DEF QuietAfterClose
<1>4. ServesWhileOpen'
  BY DEF ServesWhileOpen
<1>5. InboundSafe'
  BY DEF InboundSafe
<1>6. MutexHeld'
  BY DEF MutexHeld
<1>7. OpenIsInstalled'
  BY DEF OpenIsInstalled
<1>8. TornDown'
  BY DEF TornDown
<1>9. SenderSound'
  BY DEF SenderSound
<1> QED BY <1>1, <1>2, <1>3, <1>4, <1>5, <1>6, <1>7, <1>8, <1>9

\* Every step of a Session keeps it.
LEMMA SessionStepKeeps == CycleInv /\ [VoiceNext]_voiceVars => CycleInv'
<1> SUFFICES ASSUME CycleInv, [VoiceNext]_voiceVars PROVE CycleInv'
  OBVIOUS
<1>1. ASSUME NEW p \in Plays, PlayLock(p) PROVE CycleInv'
  BY <1>1, PlayLockKeeps
<1>2. ASSUME NEW p \in Plays, PlaySwap(p) PROVE CycleInv'
  BY <1>2, PlaySwapKeeps
<1>3. ASSUME NEW p \in Plays, PlayReturn(p) PROVE CycleInv'
  BY <1>3, PlayReturnKeeps
<1>4. ASSUME NEW p \in Plays, CancelPlay(p) PROVE CycleInv'
  BY <1>4, CancelPlayKeeps
<1>5. ASSUME NEW p \in Plays, WatchCancelled(p) PROVE CycleInv'
  BY <1>5, WatchCancelledKeeps
<1>6. CASE ProvideOpusFrame
  BY <1>6, ProvideOpusFrameKeeps
<1>7. CASE NextFrame
  BY <1>7, NextFrameKeeps
<1>8. CASE WriteFrame
  BY <1>8, WriteFrameKeeps
<1>9. CASE ReadPacket
  BY <1>9, ReadPacketKeeps
<1>10. CASE ReceiverDies
  BY <1>10, ReceiverDiesKeeps
<1>11. CASE ReceiveOpusFrame
  BY <1>11, ReceiveOpusFrameKeeps
<1>12. CASE DropOldest
  BY <1>12, DropOldestKeeps
<1>13. CASE SendAgain
  BY <1>13, SendAgainKeeps
<1>14. CASE Consume
  BY <1>14, ConsumeKeeps
<1>15. CASE HandshakeDone
  BY <1>15, HandshakeDoneKeeps
<1>16. CASE OpenAgain
  BY <1>16, OpenAgainKeeps
<1>17. ASSUME NEW n \in 1..MaxSockets, LingerEnds(n) PROVE CycleInv'
  BY <1>17, LingerEndsKeeps
<1>18. CASE CloseLock
  BY <1>18, CloseLockKeeps
<1>19. CASE StopCurrent
  BY <1>19, StopCurrentKeeps
<1>20. CASE CloseConn
  BY <1>20, CloseConnKeeps
<1>21. CASE CloseProvider
  BY <1>21, CloseProviderKeeps
<1>22. CASE CloseDispatcher
  BY <1>22, CloseDispatcherKeeps
<1>23. CASE UNCHANGED voiceVars
  BY <1>23, SessionStutters
<1> QED BY <1>1, <1>2, <1>3, <1>4, <1>5, <1>6, <1>7, <1>8, <1>9, <1>10, <1>11, <1>12,
             <1>13, <1>14, <1>15, <1>16, <1>17, <1>18, <1>19, <1>20, <1>21, <1>22, <1>23
             DEF VoiceNext, SenderStep, ReceiverStep, CloseStep

\* A Session is created so.
LEMMA CycleStarts == VoiceInit => CycleInv
<1> SUFFICES ASSUME VoiceInit PROVE CycleInv
  OBVIOUS
<1> USE DEF VoiceInit
<1>1. VoiceTypeOK
  <2>1. sockets \in [1..MaxSockets -> {"none", "open", "retired", "closed"}]
    OBVIOUS
  <2>2. sender \in [at : {"idle", "frame", "send", "gone"}, slot : Plays \cup {NoPlay},
                    socket : 0..MaxSockets, poke : BOOLEAN]
    BY DEF SenderIdle
  <2>3. {displaced, slot, nowPlaying} \subseteq Plays \cup {NoPlay}
    OBVIOUS
  <2>4. receiver \in [at : {"gate", "parked", "full", "retry", "gone"},
                      socket : 0..MaxSockets]
    OBVIOUS
  <2>5. conn \in 1..MaxSockets /\ keepalive \in 0..MaxSockets /\ frames \in 0..Buffer
    OBVIOUS
  <2>6. playMu \in Plays \cup {"close", NoPlay} /\ playCtx \subseteq Plays
        /\ framesLeft \subseteq Plays
    OBVIOUS
  <2>7. /\ play \in [Plays -> {"idle", "locked", "swapped", "returned", "refused"}]
        /\ playback \in [Plays -> {"none", "open", "clean", "cut"}]
    OBVIOUS
  <2>8. /\ silencing \in BOOLEAN /\ daveClosed \in BOOLEAN /\ udpClosed \in BOOLEAN
        /\ reopenFailed \in BOOLEAN /\ inboundClosed \in BOOLEAN
    OBVIOUS
  <2> QED BY <2>1, <2>2, <2>3, <2>4, <2>5, <2>6, <2>7, <2>8 DEF VoiceTypeOK
<1>2. NoneForsaken /\ QuietAfterClose /\ ServesWhileOpen /\ InboundSafe
  BY DEF NoneForsaken, QuietAfterClose, ServesWhileOpen, InboundSafe, SenderIdle
<1>3. MutexHeld /\ OpenIsInstalled /\ TornDown /\ SenderSound
  BY DEF MutexHeld, OpenIsInstalled, TornDown, SenderSound, SenderIdle
<1> QED BY <1>1, <1>2, <1>3 DEF CycleInv, VoiceInv

\* The invariant of a Session holds in every state of every behaviour (disgovoice/session.go).
THEOREM CycleKept == VoiceSpec => []CycleInv
<1>1. VoiceInit => CycleInv
  BY CycleStarts
<1>2. CycleInv /\ [VoiceNext]_voiceVars => CycleInv'
  BY SessionStepKeeps
<1> QED BY <1>1, <1>2, PTL DEF VoiceSpec

\* No playback is forsaken, nothing is heard after Close, an open Session is never deaf or
\* mute unnoticed, and no frame is sent on a closed channel, for any number of playbacks,
\* sockets and frames.
THEOREM VoiceSafe == VoiceSpec => []VoiceInv
<1>1. CycleInv => VoiceInv
  BY DEF CycleInv
<1> QED BY <1>1, CycleKept, PTL

HIDE VoiceSessionAssumption
-------------------------------------------------------------------------------
(*************************************************************************)
(* The loop. LinkInv speaks of the moments between two cycles; LoopInv   *)
(* says which parts of a cycle are up at each of its steps, and what the *)
(* watchdog's counters can be on a path that carries audio.              *)
(*************************************************************************)

\* Where each part of a cycle may stand.
PartsInStep ==
  /\ step = "joining" => up \subseteq {"gateway"}
  /\ step = "building" => "session" \in up

\* What the watchdog has counted is of this server, and an announcement it remembers on
\* a path that carries audio is one whose first packet is still to be counted.
CountsSound ==
  /\ echoes > 0 => echoing
  /\ path = "up" /\ told /\ moved => tardy

\* LinkInv, and where the parts of a cycle and its watchdog stand.
LoopInv == LinkInv /\ PartsInStep /\ CountsSound

USE VoiceLinkAssumption

\* A Stop is only asked for; the loop finds it where it stands.
LEMMA AskStopKeeps ==
  ASSUME LoopInv, AskStop
  PROVE  LoopInv'
<1> USE DEF LoopInv, LinkInv
<1>0. /\ UNCHANGED <<standing, step, err, stalled, cycles, delay, age, up, present, shown,
                     notices, path, echoing, tardy, since, idle, moved, echoes, told,
                     verdict>>
      /\ stopAsked' = TRUE /\ step \notin {"clean", "failed"}
  BY DEF AskStop, linkVars, cycleState, roomVars, watchVars
<1>1. LinkTypeOK'
  BY <1>0 DEF LinkTypeOK, LinkSteps
<1>2. NothingLeft'
  BY <1>0 DEF NothingLeft, PartsInStep, LinkTypeOK
<1>3. FatalEnds'
  BY <1>0 DEF FatalEnds
<1>4. OneNotice'
  BY <1>0 DEF OneNotice
<1>5. QuietNeverConvicted'
  BY <1>0 DEF QuietNeverConvicted
<1>6. PartsInStep'
  BY <1>0 DEF PartsInStep
<1>7. CountsSound'
  BY <1>0 DEF CountsSound
<1> QED BY <1>1, <1>2, <1>3, <1>4, <1>5, <1>6, <1>7

\* The loop takes the standing client or opens its own gateway, and closes that if it fails.
LEMMA AcquireClientKeeps ==
  ASSUME LoopInv, AcquireClient
  PROVE  LoopInv'
<1> USE DEF LoopInv, LinkInv
<1>0. /\ UNCHANGED <<stopAsked, standing, stalled, cycles, delay, age, present, shown,
                     notices, path, echoing, tardy, since, idle, moved, echoes, told,
                     verdict>>
      /\ step = "connecting"
      /\ \/ /\ step' = "joining" /\ err' = err /\ up' = IF standing THEN {} ELSE {"gateway"}
         \/ step' = "judging" /\ err' \in {"transient", "fatal", "canceled"} /\ up' = up
  BY DEF AcquireClient, linkVars, cycleState, roomVars, watchVars, Failures, CycleOver
<1>1. LinkTypeOK'
  BY <1>0 DEF LinkTypeOK, LinkSteps
<1>2. NothingLeft'
  BY <1>0 DEF NothingLeft, PartsInStep, LinkTypeOK
<1>3. FatalEnds'
  BY <1>0 DEF FatalEnds
<1>4. OneNotice'
  BY <1>0 DEF OneNotice
<1>5. QuietNeverConvicted'
  BY <1>0 DEF QuietNeverConvicted
<1>6. PartsInStep'
  BY <1>0 DEF PartsInStep
<1>7. CountsSound'
  BY <1>0 DEF CountsSound
<1> QED BY <1>1, <1>2, <1>3, <1>4, <1>5, <1>6, <1>7

\* A join that fails leaves no ghost in the channel.
LEMMA JoinVoiceChannelKeeps ==
  ASSUME LoopInv, JoinVoiceChannel
  PROVE  LoopInv'
<1> USE DEF LoopInv, LinkInv
<1>0. /\ UNCHANGED <<stopAsked, standing, stalled, cycles, delay, notices, path, echoing,
                     tardy, since, idle, moved, echoes, told, verdict>>
      /\ step = "joining"
      /\ \/ /\ step' = "building" /\ present' = TRUE /\ up' = up \cup {"session"}
            /\ age' = "young" /\ shown' = "connected" /\ err' = err
         \/ /\ step' = "unwinding" /\ present' = FALSE /\ err' \in {"transient", "fatal",
                   "canceled"}
            /\ UNCHANGED <<up, age, shown>>
  BY DEF JoinVoiceChannel, linkVars, cycleState, roomVars, watchVars, LeaveFailed,
         Failures, CycleOver
<1>1. LinkTypeOK'
  BY <1>0 DEF LinkTypeOK, LinkSteps
<1>2. NothingLeft'
  BY <1>0 DEF NothingLeft, PartsInStep, LinkTypeOK
<1>3. FatalEnds'
  BY <1>0 DEF FatalEnds
<1>4. OneNotice'
  BY <1>0 DEF OneNotice
<1>5. QuietNeverConvicted'
  BY <1>0 DEF QuietNeverConvicted
<1>6. PartsInStep'
  BY <1>0 DEF PartsInStep
<1>7. CountsSound'
  BY <1>0 DEF CountsSound
<1> QED BY <1>1, <1>2, <1>3, <1>4, <1>5, <1>6, <1>7

\* The pump is up after the Session, and the notice is posted by the first cycle only.
LEMMA BuildConversationKeeps ==
  ASSUME LoopInv, BuildConversation
  PROVE  LoopInv'
<1> USE DEF LoopInv, LinkInv
<1>0. /\ UNCHANGED <<stopAsked, standing, stalled, cycles, delay, age, present, shown,
                     path, echoing, tardy, since, idle, moved, echoes, told, verdict>>
      /\ step = "building" /\ up' = up \cup {"pump"}
      /\ \/ step' = "serving" /\ notices' = (IF notices = 0 THEN 1 ELSE notices)
              /\ err' = err
         \/ step' = "unwinding" /\ err' = "transient" /\ notices' = notices
  BY DEF BuildConversation, linkVars, cycleState, roomVars, watchVars
<1>1. LinkTypeOK'
  BY <1>0 DEF LinkTypeOK, LinkSteps
<1>2. NothingLeft'
  BY <1>0 DEF NothingLeft, PartsInStep, LinkTypeOK
<1>3. FatalEnds'
  BY <1>0 DEF FatalEnds
<1>4. OneNotice'
  BY <1>0 DEF OneNotice
<1>5. QuietNeverConvicted'
  BY <1>0 DEF QuietNeverConvicted
<1>6. PartsInStep'
  BY <1>0 DEF PartsInStep
<1>7. CountsSound'
  BY <1>0 DEF CountsSound
<1> QED BY <1>1, <1>2, <1>3, <1>4, <1>5, <1>6, <1>7

\* A cycle that has held for long enough counts as healthy.
LEMMA AgesKeeps ==
  ASSUME LoopInv, Ages
  PROVE  LoopInv'
<1> USE DEF LoopInv, LinkInv
<1>0. /\ UNCHANGED <<stopAsked, standing, step, err, stalled, cycles, delay, up, present,
                     shown, notices, path, echoing, tardy, since, idle, moved, echoes,
                     told, verdict>>
      /\ age' = "healthy"
  BY DEF Ages, linkVars, cycleState, roomVars, watchVars
<1>1. LinkTypeOK'
  BY <1>0 DEF LinkTypeOK, LinkSteps
<1>2. NothingLeft'
  BY <1>0 DEF NothingLeft, PartsInStep, LinkTypeOK
<1>3. FatalEnds'
  BY <1>0 DEF FatalEnds
<1>4. OneNotice'
  BY <1>0 DEF OneNotice
<1>5. QuietNeverConvicted'
  BY <1>0 DEF QuietNeverConvicted
<1>6. PartsInStep'
  BY <1>0 DEF PartsInStep
<1>7. CountsSound'
  BY <1>0 DEF CountsSound
<1> QED BY <1>1, <1>2, <1>3, <1>4, <1>5, <1>6, <1>7

\* The pipeline returns with what ended it; only a cancellation is renamed to a stall.
LEMMA RunReturnsKeeps ==
  ASSUME LoopInv, RunReturns
  PROVE  LoopInv'
<1> USE DEF LoopInv, LinkInv
<1>0. /\ UNCHANGED <<stopAsked, standing, stalled, cycles, delay, age, up, present, shown,
                     notices, path, echoing, tardy, since, idle, moved, echoes, told,
                     verdict>>
      /\ step = "serving" /\ step' = "unwinding"
      /\ err' \in {"none", "transient", "canceled"} \/ (err' = "stall" /\ stalled)
  BY DEF RunReturns, linkVars, cycleState, roomVars, watchVars, ResolveStallCause, CycleOver
<1>1. LinkTypeOK'
  BY <1>0 DEF LinkTypeOK, LinkSteps
<1>2. NothingLeft'
  BY <1>0 DEF NothingLeft, PartsInStep, LinkTypeOK
<1>3. FatalEnds'
  BY <1>0 DEF FatalEnds
<1>4. OneNotice'
  BY <1>0 DEF OneNotice
<1>5. QuietNeverConvicted'
  BY <1>0 DEF QuietNeverConvicted
<1>6. PartsInStep'
  BY <1>0 DEF PartsInStep
<1>7. CountsSound'
  BY <1>0 DEF CountsSound
<1> QED BY <1>1, <1>2, <1>3, <1>4, <1>5, <1>6, <1>7

\* The defers take the parts down last in, first out.
LEMMA UnwindKeeps ==
  ASSUME LoopInv, Unwind
  PROVE  LoopInv'
<1> USE DEF LoopInv, LinkInv
<1>0. /\ UNCHANGED <<stopAsked, standing, err, stalled, cycles, delay, age, shown, notices,
                     path, echoing, tardy, since, idle, moved, echoes, told, verdict>>
      /\ step = "unwinding"
      /\ \/ up = {} /\ step' = "judging" /\ UNCHANGED <<up, present>>
         \/ up # {} /\ step' = step /\ "pump" \in up /\ up' = up \ {"pump"}
              /\ present' = present
         \/ up # {} /\ step' = step /\ "pump" \notin up /\ "session" \in up
              /\ up' = up \ {"session"} /\ present' = FALSE
         \/ up # {} /\ step' = step /\ "pump" \notin up /\ "session" \notin up
              /\ up' = up \ {"gateway"} /\ present' = present
  BY DEF Unwind, linkVars, cycleState, roomVars, watchVars, NextDown, LinkTypeOK
<1>1. LinkTypeOK'
  BY <1>0 DEF LinkTypeOK, LinkSteps
<1>2. NothingLeft'
  <2>1. CASE up = {}
    BY <1>0, <2>1 DEF NothingLeft
  <2>2. CASE up # {} /\ step' = step
    <3>1. "pump" \in up' => "session" \in up'
      BY <1>0, <2>2 DEF NothingLeft
    <3>2. "session" \in up' <=> present'
      BY <1>0, <2>2 DEF NothingLeft
    <3> QED BY <1>0, <2>2, <3>1, <3>2 DEF NothingLeft
  <2> QED BY <1>0, <2>1, <2>2
<1>3. FatalEnds'
  BY <1>0 DEF FatalEnds
<1>4. OneNotice'
  BY <1>0 DEF OneNotice
<1>5. QuietNeverConvicted'
  BY <1>0 DEF QuietNeverConvicted
<1>6. PartsInStep'
  BY <1>0 DEF PartsInStep
<1>7. CountsSound'
  BY <1>0 DEF CountsSound
<1> QED BY <1>1, <1>2, <1>3, <1>4, <1>5, <1>6, <1>7

\* The loop ends on a Stop or a fatal error and goes round again on all else.
LEMMA JudgeKeeps ==
  ASSUME LoopInv, Judge
  PROVE  LoopInv'
<1> USE DEF LoopInv, LinkInv
<1>0. /\ UNCHANGED <<stopAsked, standing, err, cycles, age, up, present, notices>>
      /\ step = "judging"
      /\ step' = (IF stopAsked THEN "clean" ELSE IF err = "fatal" THEN "failed"
                  ELSE "backoff")
      /\ shown' = (IF step' = "failed" THEN "failed" ELSE shown) /\ delay' \in {1, delay}
      /\ stalled' = FALSE /\ path' = "up" /\ echoing' \in BOOLEAN /\ tardy' = FALSE
      /\ since' = 0 /\ idle' = 0 /\ moved' = FALSE /\ echoes' = 0 /\ told' = FALSE
           /\ verdict' = "none"
  BY DEF Judge, linkVars, cycleState, roomVars, watchVars, Over
<1>1. LinkTypeOK'
  <2>1. {stopAsked, standing, stalled, present, echoing, tardy, moved,
         told} \subseteq BOOLEAN
    BY DEF LinkTypeOK
  <2>2. {stopAsked', standing', stalled', present', echoing', tardy', moved',
         told'} \subseteq BOOLEAN
    <3> HIDE DEF LoopInv, LinkInv
    <3> QED BY <1>0, <2>1
  <2> QED BY <1>0, <2>2 DEF LinkTypeOK, LinkSteps
<1>2. NothingLeft'
  BY <1>0 DEF NothingLeft, PartsInStep, LinkTypeOK
<1>3. FatalEnds'
  BY <1>0 DEF FatalEnds
<1>4. OneNotice'
  BY <1>0 DEF OneNotice
<1>5. QuietNeverConvicted'
  BY <1>0 DEF QuietNeverConvicted
<1>6. PartsInStep'
  BY <1>0 DEF PartsInStep
<1>7. CountsSound'
  BY <1>0 DEF CountsSound
<1> QED BY <1>1, <1>2, <1>3, <1>4, <1>5, <1>6, <1>7

\* The backoff ends with the delay or the Stop.
LEMMA BackoffKeeps ==
  ASSUME LoopInv, Backoff
  PROVE  LoopInv'
<1> USE DEF LoopInv, LinkInv
<1>0. /\ UNCHANGED <<stopAsked, standing, stalled, up, present, notices, path, echoing,
                     tardy, since, idle, moved, echoes, told, verdict>>
      /\ step = "backoff"
      /\ \/ stopAsked /\ step' = "clean" /\ UNCHANGED <<err, age, delay, cycles, shown>>
         \/ /\ cycles < MaxCycles /\ step' = "connecting" /\ cycles' = cycles + 1
                 /\ err' = "none"
            /\ age' = "no" /\ shown' = "connecting" /\ delay' = IF delay = MaxDelay
                 THEN MaxDelay ELSE delay + 1
  BY DEF Backoff, linkVars, cycleState, roomVars, watchVars
<1>1. LinkTypeOK'
  BY <1>0 DEF LinkTypeOK, LinkSteps
<1>2. NothingLeft'
  BY <1>0 DEF NothingLeft, PartsInStep, LinkTypeOK
<1>3. FatalEnds'
  BY <1>0 DEF FatalEnds
<1>4. OneNotice'
  BY <1>0 DEF OneNotice
<1>5. QuietNeverConvicted'
  BY <1>0 DEF QuietNeverConvicted
<1>6. PartsInStep'
  BY <1>0 DEF PartsInStep
<1>7. CountsSound'
  BY <1>0 DEF CountsSound
<1> QED BY <1>1, <1>2, <1>3, <1>4, <1>5, <1>6, <1>7

\* A dead path carries nothing from now on.
LEMMA PathDiesKeeps ==
  ASSUME LoopInv, PathDies
  PROVE  LoopInv'
<1> USE DEF LoopInv, LinkInv
<1>0. /\ UNCHANGED <<stopAsked, standing, step, err, stalled, cycles, delay, age, up,
                     present, shown, notices, echoing, since, idle, moved, echoes, told,
                     verdict>>
      /\ path' = "dead" /\ tardy' = FALSE
  BY DEF PathDies, linkVars, cycleState, roomVars, watchVars
<1>1. LinkTypeOK'
  BY <1>0 DEF LinkTypeOK, LinkSteps
<1>2. NothingLeft'
  BY <1>0 DEF NothingLeft, PartsInStep, LinkTypeOK
<1>3. FatalEnds'
  BY <1>0 DEF FatalEnds
<1>4. OneNotice'
  BY <1>0 DEF OneNotice
<1>5. QuietNeverConvicted'
  BY <1>0 DEF QuietNeverConvicted
<1>6. PartsInStep'
  BY <1>0 DEF PartsInStep
<1>7. CountsSound'
  BY <1>0 DEF CountsSound
<1> QED BY <1>1, <1>2, <1>3, <1>4, <1>5, <1>6, <1>7

\* A check counts the quiet, and convicts a path only if it is dead, or its first packet is
\* still to be counted.
LEMMA CheckKeeps ==
  ASSUME LoopInv, Check
  PROVE  LoopInv'
<1> USE DEF LoopInv, LinkInv
<1>0. /\ UNCHANGED <<stopAsked, standing, step, err, cycles, delay, age, up, present,
                     shown, notices, path, echoing>>
      /\ step = "serving" /\ ~stalled
      /\ since' \in 0..(2 * Window) /\ idle' \in 0..Window /\ echoes' \in 0..EchoArm
      /\ told' \in BOOLEAN /\ moved' \in BOOLEAN /\ tardy' \in BOOLEAN
           /\ stalled' \in BOOLEAN
      /\ verdict' \in {"none", "dead", "tardy", "unheard"}
      /\ echoes' > 0 => echoing
      /\ path = "up" /\ told' /\ moved' => tardy'
  <2>1. /\ since \in 0..(2 * Window) /\ idle \in 0..Window /\ echoes \in 0..EchoArm
             /\ echoing \in BOOLEAN
        /\ moved \in BOOLEAN /\ tardy \in BOOLEAN /\ told \in BOOLEAN /\ path \in {"up",
               "dead"}
        /\ Window \in Nat \ {0} /\ EchoArm \in Nat \ {0}
    BY DEF LinkTypeOK
  <2>2. (echoes > 0 => echoing) /\ (path = "up" /\ told /\ moved => tardy)
    BY DEF CountsSound
  <2> HIDE DEF LoopInv, LinkInv
  <2> DEFINE packets(a, b) == path = "up" /\ (tardy \/ (a /\ ~b))
             echo == path = "up" /\ echoing
             s(a, b) == IF packets(a, b) THEN 0 ELSE Tick1(since, 2 * Window)
             i(a, b) == IF packets(a, b) \/ echo THEN 0 ELSE Tick1(idle, Window)
             e == IF echo THEN Tick1(echoes, EchoArm) ELSE echoes
             t(a, b) == ~packets(a, b) /\ (told \/ (a /\ since > 0))
             convicted(a, b) == Convicts(s(a, b), i(a, b), moved \/ packets(a, b), e, t(a,
                   b))
  <2>3. PICK a \in BOOLEAN, b \in BOOLEAN :
          /\ b => a /\ path = "up"
          /\ since' = s(a, b) /\ idle' = i(a, b) /\ echoes' = e /\ told' = t(a, b)
          /\ moved' = (moved \/ packets(a, b)) /\ tardy' = b
          /\ stalled' = convicted(a, b)
          /\ verdict' = IF ~convicted(a, b) THEN "none" ELSE IF path = "dead" THEN "dead"
                        ELSE IF b THEN "tardy" ELSE IF moved THEN "quiet" ELSE "unheard"
    BY DEF Check
  <2>4. s(a, b) \in 0..(2 * Window) /\ i(a, b) \in 0..Window /\ e \in 0..EchoArm
    BY <2>1 DEF Tick1
  <2>5. e > 0 => echoing
    BY <2>1, <2>2 DEF Tick1
  <2>6. t(a, b) \in BOOLEAN /\ packets(a, b) \in BOOLEAN /\ convicted(a, b) \in BOOLEAN
    BY <2>1 DEF Convicts
  <2>7. path = "up" /\ t(a, b) /\ (moved \/ packets(a, b)) => b
    BY <2>1, <2>2, <2>3
  <2>8. ASSUME path = "up", ~b, moved, convicted(a, b) PROVE FALSE
    <3>1. ~t(a, b)
      BY <2>7, <2>8
    <3>2. e = EchoArm /\ i(a, b) = Window
      BY <2>8, <3>1 DEF Convicts
    <3>3. ~echo
      BY <2>1, <3>2
    <3> QED BY <2>1, <2>5, <2>8, <3>2, <3>3
  <2>9. verdict' \in {"none", "dead", "tardy", "unheard"}
    BY <2>1, <2>3, <2>8
  <2>10. /\ UNCHANGED <<stopAsked, standing, step, err, cycles, delay, age, up, present,
                        shown, notices, path, echoing>>
         /\ step = "serving" /\ ~stalled
    BY DEF Check, CycleOver, cycleState
  <2> HIDE DEF packets, echo, s, i, e, t, convicted
  <2> QED BY <2>1, <2>3, <2>4, <2>5, <2>6, <2>7, <2>9, <2>10
<1>1. LinkTypeOK'
  BY <1>0 DEF LinkTypeOK, LinkSteps
<1>2. NothingLeft'
  BY <1>0 DEF NothingLeft, PartsInStep, LinkTypeOK
<1>3. FatalEnds'
  BY <1>0 DEF FatalEnds
<1>4. OneNotice'
  BY <1>0 DEF OneNotice
<1>5. QuietNeverConvicted'
  BY <1>0 DEF QuietNeverConvicted
<1>6. PartsInStep'
  BY <1>0 DEF PartsInStep
<1>7. CountsSound'
  BY <1>0 DEF CountsSound
<1> QED BY <1>1, <1>2, <1>3, <1>4, <1>5, <1>6, <1>7

\* A check over a reopened transport starts its grace again when its counters moved.
LEMMA CheckReopenedKeeps ==
  ASSUME LoopInv, CheckReopened
  PROVE  LoopInv'
<1> USE DEF LoopInv, LinkInv
<1>0. /\ UNCHANGED <<stopAsked, standing, step, err, cycles, delay, age, up, present,
                     shown, notices>>
      /\ step = "serving" /\ ~stalled
      /\ path' = "up" /\ echoing' \in BOOLEAN /\ tardy' = FALSE /\ moved' = FALSE
           /\ echoes' = 0
      /\ since' \in 0..(2 * Window) /\ idle' \in 0..Window /\ told' \in BOOLEAN
           /\ stalled' \in BOOLEAN
      /\ verdict' \in {"none", "dead"}
  BY DEF CheckReopened, linkVars, cycleState, roomVars, watchVars, Tick1, CycleOver,
         Convicts, LinkTypeOK
<1>1. LinkTypeOK'
  <2>1. {stopAsked, standing, stalled, present, echoing, tardy, moved,
         told} \subseteq BOOLEAN
    BY DEF LinkTypeOK
  <2>2. {stopAsked', standing', stalled', present', echoing', tardy', moved',
         told'} \subseteq BOOLEAN
    <3> HIDE DEF LoopInv, LinkInv
    <3> QED BY <1>0, <2>1
  <2> QED BY <1>0, <2>2 DEF LinkTypeOK, LinkSteps
<1>2. NothingLeft'
  BY <1>0 DEF NothingLeft, PartsInStep, LinkTypeOK
<1>3. FatalEnds'
  BY <1>0 DEF FatalEnds
<1>4. OneNotice'
  BY <1>0 DEF OneNotice
<1>5. QuietNeverConvicted'
  BY <1>0 DEF QuietNeverConvicted
<1>6. PartsInStep'
  BY <1>0 DEF PartsInStep
<1>7. CountsSound'
  BY <1>0 DEF CountsSound
<1> QED BY <1>1, <1>2, <1>3, <1>4, <1>5, <1>6, <1>7

\* A step that changes nothing of the loop keeps it.
LEMMA LoopStutters ==
  ASSUME LoopInv, UNCHANGED linkVars
  PROVE  LoopInv'
<1> USE DEF LoopInv, LinkInv, linkVars, cycleState, roomVars, watchVars
<1>1. LinkTypeOK'
  BY DEF LinkTypeOK
<1>2. NothingLeft'
  BY DEF NothingLeft
<1>3. FatalEnds'
  BY DEF FatalEnds
<1>4. OneNotice'
  BY DEF OneNotice
<1>5. QuietNeverConvicted'
  BY DEF QuietNeverConvicted
<1>6. PartsInStep'
  BY DEF PartsInStep
<1>7. CountsSound'
  BY DEF CountsSound
<1> QED BY <1>1, <1>2, <1>3, <1>4, <1>5, <1>6, <1>7

\* Every step of the loop, of the room and of the watchdog keeps it.
LEMMA LoopStep == LoopInv /\ [LinkNext]_linkVars => LoopInv'
<1> SUFFICES ASSUME LoopInv, [LinkNext]_linkVars PROVE LoopInv'
  OBVIOUS
<1>1. CASE AskStop
  BY <1>1, AskStopKeeps
<1>2. CASE AcquireClient
  BY <1>2, AcquireClientKeeps
<1>3. CASE JoinVoiceChannel
  BY <1>3, JoinVoiceChannelKeeps
<1>4. CASE BuildConversation
  BY <1>4, BuildConversationKeeps
<1>5. CASE Ages
  BY <1>5, AgesKeeps
<1>6. CASE RunReturns
  BY <1>6, RunReturnsKeeps
<1>7. CASE Unwind
  BY <1>7, UnwindKeeps
<1>8. CASE Judge
  BY <1>8, JudgeKeeps
<1>9. CASE Backoff
  BY <1>9, BackoffKeeps
<1>10. CASE PathDies
  BY <1>10, PathDiesKeeps
<1>11. CASE Check
  BY <1>11, CheckKeeps
<1>12. CASE CheckReopened
  BY <1>12, CheckReopenedKeeps
<1>13. CASE UNCHANGED linkVars
  BY <1>13, LoopStutters
<1> QED BY <1>1, <1>2, <1>3, <1>4, <1>5, <1>6, <1>7, <1>8, <1>9, <1>10, <1>11, <1>12, <1>13
             DEF LinkNext, CycleStep

\* The loop begins so.
LEMMA LoopStarts == LinkInit => LoopInv
<1> SUFFICES ASSUME LinkInit PROVE LoopInv
  OBVIOUS
<1> USE DEF LinkInit
<1>1. {stopAsked, standing, stalled, present, echoing, tardy, moved, told} \subseteq BOOLEAN
  OBVIOUS
<1>2. LinkTypeOK
  BY <1>1 DEF LinkTypeOK, LinkSteps
<1>3. NothingLeft /\ FatalEnds /\ OneNotice /\ QuietNeverConvicted /\ PartsInStep
      /\ CountsSound
  BY DEF NothingLeft, FatalEnds, OneNotice, QuietNeverConvicted, PartsInStep, CountsSound
<1> QED BY <1>2, <1>3 DEF LoopInv, LinkInv

\* The invariant of the loop holds in every state of every behaviour (connect.go, mediawatch.go).
THEOREM LoopKept == LinkSpec => []LoopInv
<1>1. LinkInit => LoopInv
  BY LoopStarts
<1>2. LoopInv /\ [LinkNext]_linkVars => LoopInv'
  BY LoopStep
<1> QED BY <1>1, <1>2, PTL DEF LinkSpec

\* Nothing of a cycle is left between cycles, only the fatal fails a Session, the disclosure
\* is posted once, and a quiet room is never convicted, for any Window.
THEOREM LinkSafe == LinkSpec => []LinkInv
<1>1. LoopInv => LinkInv
  BY DEF LoopInv
<1> QED BY <1>1, LoopKept, PTL

-------------------------------------------------------------------------------

\* A connection keeps both promises at every step: no playback forsaken and nothing heard
\* after Close, no ghost of the Bot between cycles, and a quiet room kept.
THEOREM ConnectionSafe == VoiceSpec /\ LinkSpec => []ConnectionInv
<1>1. VoiceInv /\ LinkInv => ConnectionInv
  BY DEF ConnectionInv
<1> QED BY <1>1, VoiceSafe, LinkSafe, PTL
===============================================================================
