------------------------------- MODULE Player -------------------------------
(***************************************************************************)
(* What a listener is promised of the player in                            *)
(* src/src/dsp/yt_stream_plugin.c, whatever resolvers, pipelines and locks *)
(* it takes: only the present track sounds; from the moment a track is     *)
(* skipped until the next one is there, nothing does; nothing begins by    *)
(* itself while it is paused or ended or after a stop; and it gives up     *)
(* when a track had to be begun twice.                                     *)
(***************************************************************************)
EXTENDS Integers

CONSTANTS Tracks, NoTrack

VARIABLES track,      \* the present track
          playing,    \* the track that sounds, or would if it were not paused
          paused, ended,
          moving,     \* on the way to another track
          starts      \* how often the track was begun since the last command

vars == <<track, playing, paused, ended, moving, starts>>

Silent == playing = NoTrack
Waiting == track # NoTrack /\ Silent /\ ~paused /\ ~ended /\ ~moving

Init ==
  /\ track = NoTrack /\ playing = NoTrack /\ starts = 0
  /\ paused = FALSE /\ ended = FALSE /\ moving = FALSE

(* A track, another one or the same again, from its beginning. *)
Load(t) ==
  /\ track' = t /\ paused' = FALSE /\ moving' = FALSE
  /\ \/ playing' = t /\ ended' = FALSE /\ starts' = 1
     \/ playing' = NoTrack /\ ended' \in BOOLEAN /\ starts' = 0

Stop ==
  /\ ~moving
  /\ track' = NoTrack /\ playing' = NoTrack /\ starts' = 0
  /\ paused' = FALSE /\ ended' = FALSE /\ moving' = FALSE

(* Pause, or go on; a track that has ended does neither. *)
Pause ==
  /\ track # NoTrack /\ ~ended /\ ~moving
  /\ paused' = ~paused
  /\ UNCHANGED <<track, playing, ended, moving, starts>>

(* The present track is left for another; an end is forgotten at the latest *)
(* when that is loaded.                                                     *)
Skip ==
  /\ ~moving
  /\ moving' = TRUE /\ playing' = NoTrack /\ ended' \in {ended, FALSE}
  /\ UNCHANGED <<track, paused, starts>>

(* A download takes the stream away, until the listener goes on. *)
Yield ==
  /\ track # NoTrack /\ ~moving
  /\ playing' = NoTrack /\ paused' = TRUE /\ starts' = 0
  /\ UNCHANGED <<track, ended, moving>>

(* The present track begins, *)
Begin ==
  /\ Waiting /\ starts < 2
  /\ playing' = track /\ starts' = starts + 1
  /\ UNCHANGED <<track, paused, ended, moving>>

(* or is given up on.  *)
GiveUp ==
  /\ Waiting
  /\ ended' = TRUE
  /\ UNCHANGED <<track, playing, paused, moving, starts>>

(* It comes to an end, or breaks off and may begin once more. *)
Cease ==
  /\ ~Silent /\ ~paused /\ ~ended /\ ~moving
  /\ playing' = NoTrack
  /\ ended' \/ starts < 2
  /\ ended' \in BOOLEAN
  /\ UNCHANGED <<track, paused, moving, starts>>

Next ==
  \/ \E t \in Tracks : Load(t)
  \/ Stop \/ Pause \/ Skip \/ Yield \/ Begin \/ GiveUp \/ Cease

Spec == Init /\ [][Next]_vars
=============================================================================
