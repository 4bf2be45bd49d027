----------------------------- MODULE MCDownload -----------------------------
(* Instances of Download for TLC.                                            *)
EXTENDS Download

CONSTANTS a, b
TwoTitles == {a, b}
=============================================================================
