---------------------------- MODULE SharedProps ----------------------------
(***************************************************************************)
(* What two protocols promise together: a turn, by the pipeline that       *)
(* speaks its sentences and the coordinator that adds a Reaction; and a    *)
(* voice connection, by its Session and the loop that keeps one up.        *)
(***************************************************************************)
EXTENDS SpeechPipeline, CrossTalk, VoiceSession, VoiceLink

\* A turn spoken, safe at every step: no sentence out of order or committed unheard
\* (PipelineInv), no Reaction before its Lead or left unsettled (CrossTalkInv).
TurnInv == PipelineInv /\ CrossTalkInv

\* A Session in a voice channel and the loop that keeps one up: no playback forsaken,
\* no speech after the Close, nobody mute or deaf unnoticed (VoiceInv); no ghost of the
\* Bot between cycles, one disclosure, only the fatal fails, a quiet room kept (LinkInv).
ConnectionInv == VoiceInv /\ LinkInv
=============================================================================
