----------------------------- MODULE SearchDesk -----------------------------
(***************************************************************************)
(* What a client is promised of the asynchronous search in                 *)
(* src/src/dsp/yt_stream_plugin.c, whatever threads, daemons, time limits  *)
(* and second attempts it takes: one search at a time and one that waits,  *)
(* the last that was asked for; an answer is listed as the answer to the   *)
(* query in hand, or not at all, and is dropped only when a client changed *)
(* something under the search; what waits is begun when a search ends.     *)
(*                                                                         *)
(* A set with one member or none stands for what may be missing.           *)
(***************************************************************************)
CONSTANTS Queries, NoQuery

VARIABLES
  hand,       \* the query begun last, if it was not cleared
  status,     \* what the client is told of it
  listed,     \* the query whose results are listed
  waiting,    \* the query that waits
  taken,      \* the query that waited, between the search before it and its own
  working,    \* a search is under way, or the next is about to be
  intact      \* nothing was changed under the search

vars == <<hand, status, listed, waiting, taken, working, intact>>

Init ==
  /\ hand = NoQuery /\ status = "idle"
  /\ listed = {} /\ waiting = {} /\ taken = {}
  /\ working = FALSE /\ intact = TRUE

(* The search for q begins, or cannot. *)
Opens(q) ==
  /\ hand' = q /\ listed' = {} /\ intact' = TRUE
  /\ \/ status' = "searching" /\ working' = TRUE
     \/ status' = "error" /\ working' = FALSE

Ask(q) ==
  \/ ~working /\ Opens(q) /\ UNCHANGED <<waiting, taken>>
  \/ /\ working
     /\ waiting' = {q} /\ status' = "queued" /\ intact' \in BOOLEAN
     /\ UNCHANGED <<hand, listed, taken, working>>

(* What is listed and what waits goes; what is under way goes on. *)
Clear ==
  /\ hand' = NoQuery /\ status' = "idle" /\ listed' = {} /\ waiting' = {}
  /\ intact' \in BOOLEAN
  /\ UNCHANGED <<taken, working>>

(* Another provider is set under the search. *)
Change ==
  /\ working /\ intact' \in BOOLEAN
  /\ UNCHANGED <<hand, status, listed, waiting, taken, working>>

(* A search ends: with results, with none, or badly. *)
Shows ==
  \/ status' = "done" /\ listed' = {hand}
  \/ status' \in {"no_results", "error"} /\ listed' = {}

Ends ==
  /\ working /\ taken = {}
  /\ IF intact THEN Shows ELSE UNCHANGED <<status, listed>>
  /\ taken' = waiting /\ waiting' = {} /\ working' = (waiting # {})
  /\ intact' = TRUE /\ UNCHANGED hand

Turns ==
  /\ \E q \in taken : Opens(q)
  /\ taken' = {} /\ UNCHANGED waiting

Next ==
  \/ \E q \in Queries : Ask(q)
  \/ Clear \/ Change \/ Ends \/ Turns

Spec == Init /\ [][Next]_vars
=============================================================================
