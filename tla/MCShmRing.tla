----------------------------- MODULE MCShmRing -----------------------------
(* A ring of four slots; blocks of one and of three frames, so that a block *)
(* fits, fits in part, or does not fit, and the positions wrap.             *)
EXTENDS ShmRing

MCBlocks == {1, 3}
=============================================================================
