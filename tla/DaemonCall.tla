----------------------------- MODULE DaemonCall -----------------------------
(***************************************************************************)
(* What the engine may rely on when it asks its helper process something   *)
(* (run_search_command_daemon, resolve_stream_url_daemon and the warm-up   *)
(* thread of src/src/dsp/yt_stream_plugin.c): one question at a time, and  *)
(* what comes back is the whole answer to it, or that there is none.  An   *)
(* answer to something else comes back only from a process that is not to  *)
(* be trusted, and only a session that is opened or a filter that is set   *)
(* can make it so: both are asked without need of the answer.              *)
(*                                                                         *)
(* Playback and SearchEngine take the daemon for this, while trusted.      *)
(***************************************************************************)
VARIABLES
  asked,      \* the question in hand, or "none"
  verdict,    \* what came of the last one
  trusted     \* the process owes no answer

vars == <<asked, verdict, trusted>>

Questions == {"warmup", "init", "search", "resolve"}

Init == asked = "none" /\ verdict = "none" /\ trusted = TRUE

Ask(question) ==
  /\ asked = "none"
  /\ asked' = question /\ verdict' = "none"
  /\ UNCHANGED trusted

Returns(v) == asked # "none" /\ asked' = "none" /\ verdict' = v

Answers == Returns("own") /\ UNCHANGED trusted
Strays == ~trusted /\ Returns("foreign") /\ UNCHANGED trusted

(* A search or a resolve without an answer costs the process its life, so    *)
(* that the next one can be trusted; the opening of a session does not.      *)
Fails ==
  /\ Returns("failed")
  /\ IF asked = "init" THEN trusted' \in {trusted, FALSE} ELSE trusted' = TRUE

(* The filter of a search is not acknowledged in time. *)
Lapses == asked = "search" /\ trusted' = FALSE /\ UNCHANGED <<asked, verdict>>

(* Another process takes over, which owes nothing. *)
Renews ==
  /\ asked \in Questions \ {"init"}
  /\ trusted' = TRUE /\ UNCHANGED <<asked, verdict>>

Next ==
  \/ \E question \in Questions : Ask(question)
  \/ Answers \/ Strays \/ Fails \/ Lapses \/ Renews

Spec == Init /\ [][Next]_vars
=============================================================================
