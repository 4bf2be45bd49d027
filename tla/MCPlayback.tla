----------------------------- MODULE MCPlayback -----------------------------
(* Instances of Playback for TLC: two tracks of a youtube or cratedig search  *)
(* and one of a soundcloud search.                                          *)
EXTENDS Playback

CONSTANTS a, b, c

Tracks == {a, b, c}
Names == {"youtube", "soundcloud", "archive"}

(* a names youtube, c soundcloud; b (an http url of another site) nothing. *)
Sites == [u \in Tracks |-> CASE u = a -> "youtube" [] u = b -> Unknown [] u = c -> "soundcloud"]
SomeProviders == {"soundcloud", "archive"}
SomeLists == {<<>>, <<a, b>>, <<b, a>>, <<c>>}

(* A client of the soundcloud search. *)
NoProviders == {}
CloudTracks == {b, c}
AllSoundcloud == [u \in CloudTracks |-> "soundcloud"]
CloudLists == {<<>>, <<b, c>>}
=============================================================================
