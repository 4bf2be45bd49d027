---------------------------- MODULE MCStreamRing ----------------------------
(* Instances of StreamRing for TLC: a ring of six frames that reads two at  *)
(* a time and stops reading when four are buffered.                         *)
EXTENDS StreamRing

Reads == {1, 3, 4, 7, 8}
Seeks == {-6, -2, 6}
=============================================================================
