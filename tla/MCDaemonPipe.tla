---------------------------- MODULE MCDaemonPipe ----------------------------
(* Instances of DaemonPipe for TLC.                                          *)
EXTENDS DaemonPipe
=============================================================================
