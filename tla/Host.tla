-------------------------------- MODULE Host --------------------------------
(***************************************************************************)
(* The host process of src/src/cratedigger_host.cpp: its main thread, its  *)
(* render thread and its control server, which share the engine under      *)
(* g_lock, and the threads of the engine for a search and a download,      *)
(* which do not take that lock.                                            *)
(*                                                                         *)
(* The control server reads a row of the result list field by field, plays *)
(* it, and names it in a file that other programs read.  The list may be   *)
(* published or hidden by a search between two fields.  A step of a thread *)
(* that holds g_lock throughout is one action; playing a row is three,     *)
(* with the lock held between them.                                        *)
(***************************************************************************)
EXTENDS Integers, Sequences, FiniteSets

CONSTANTS
  Tracks,     (* the tracks: each stands for its URL and its title          *)
  Untitled,   (* the tracks whose title is empty                            *)
  Lists,      (* the non-empty result lists a search may find               *)
  None,       (* no track: no stream, no file, an empty title               *)
  Styles,     (* Styles[g]: how many styles the g-th genre has, "any" first *)
  Countries,  (* Countries[r]: how many countries the r-th region has       *)
  Decades,    (* how many decades there are, "any" first                    *)
  Rows,       (* bound: the row numbers and filter indices of the clients   *)
  Retries,    (* how often play_pause_step tries again: 5 in the code       *)
  MaxConns    (* bound: the connections of one behaviour                    *)

ASSUME HostAssumption ==
  /\ Untitled \subseteq Tracks /\ None \notin Tracks
  /\ Lists \subseteq Seq(Tracks) /\ <<>> \notin Lists
  /\ Styles \in Seq(Nat \ {0}) /\ Styles # <<>>
  /\ Countries \in Seq(Nat \ {0}) /\ Countries # <<>>
  /\ Decades \in Nat \ {0} /\ Rows \subseteq Int
  /\ Retries \in Nat /\ MaxConns \in Nat

VARIABLES
  results,         \* the visible result list: search_results up to search_count
  search, queued,  \* the search thread, and whether a search waits for it
  url, index,      \* stream_url, cratedig_result_index
  auto,            \* cratedig_auto_advance
  name,            \* the track in the now-playing file
  chosen,          \* g_cd_*_idx: the filter of the page
  picked,          \* history: the last style and country, with genre and region
  ctl,             \* the control server and what it has read of a row
  download,        \* the download thread, and whether it is asked to end
  timer, main,     \* the render thread and the main thread
  run, listening,  \* g_run, and whether accept() waits on the socket
  drift,           \* history: what moved without the other ("name", "row"),
                   \* and "list": the list changed since a row was read
  conns

engine == <<results, search, queued, index>>
playing == <<url, auto, name>>
filter == <<chosen, picked>>
process == <<download, timer, main, run, listening>>
vars == <<engine, playing, filter, ctl, process, drift, conns>>

Fields == {"genre", "style", "decade", "region", "country"}
Places == {"check", "accept", "recv", "title", "play", "nap", "stop", "gone"}
Servers == [pc : Places, row : Nat, url : Tracks \cup {None},
            title : (Tracks \ Untitled) \cup {None}, mixed : BOOLEAN, tries : 0..Retries]

(* The state type. *)
TypeOK ==
  /\ results \in Lists \cup {<<>>}
  /\ search \in {"none", "runs", "spawns"} /\ queued \in BOOLEAN
  /\ url \in Tracks \cup {None} /\ index \in Nat /\ auto \in BOOLEAN
  /\ name \in (Tracks \ Untitled) \cup {None}
  /\ chosen \in [Fields -> Nat]
  /\ picked \in [{"style", "country"} -> (Nat \X Nat) \cup {None}]
  /\ ctl \in Servers
  /\ download \in {"none", "runs", "cancelled"}
  /\ timer \in {"check", "render", "push", "gone"}
  /\ main \in {"serve", "joins", "joinsCtl", "clears", "frees", "freed", "exit"}
  /\ run \in BOOLEAN /\ listening \in BOOLEAN
  /\ drift \subseteq {"name", "row", "list"}
  /\ conns \in 0..MaxConns

Server(pc) == [pc |-> pc, row |-> 0, url |-> None, title |-> None,
               mixed |-> FALSE, tries |-> 0]

Init ==
  /\ results = <<>> /\ search = "none" /\ queued = FALSE
  /\ url = None /\ index = 0 /\ auto = FALSE /\ name = None
  /\ chosen = [f \in Fields |-> 0]
  /\ picked = [f \in {"style", "country"} |-> None]
  /\ ctl = Server("check") /\ timer = "check" /\ main = "serve"
  /\ download = "none" /\ run = TRUE /\ listening = TRUE
  /\ drift = {} /\ conns = 0

-----------------------------------------------------------------------------
(* The search thread of the engine, under search_mutex only.               *)

(* search_thread_main: the results are published; a failed search finds none. *)
Publish ==
  /\ search = "runs"
  /\ results' \in Lists \cup {<<>>}
  /\ search' = IF queued THEN "spawns" ELSE "none"
  /\ queued' = FALSE
  /\ drift' = drift \cup {"row", "list"}
  /\ UNCHANGED <<index, playing, filter, ctl, process, conns>>

(* The search that was queued starts, and hides the list again. *)
SpawnQueued ==
  /\ search = "spawns" /\ search' = "runs"
  /\ results' = <<>>
  /\ drift' = drift \cup {"row", "list"}
  /\ UNCHANGED <<queued, index, playing, filter, ctl, process, conns>>

-----------------------------------------------------------------------------
(* The control server: one connection, one line, one answer.               *)

(* ctrl_server_loop: while (g_run). *)
CtlChecks ==
  /\ ctl.pc = "check"
  /\ ctl' = Server(IF run THEN "accept" ELSE "gone")
  /\ UNCHANGED <<engine, playing, filter, process, drift, conns>>

Accept ==
  /\ ctl.pc = "accept" /\ listening
  /\ conns < MaxConns /\ conns' = conns + 1
  /\ ctl' = Server("recv")
  /\ UNCHANGED <<engine, playing, filter, process, drift>>

(* accept() fails once the socket is shut down. *)
AcceptFails ==
  /\ ctl.pc = "accept" /\ ~listening
  /\ ctl' = Server("check")
  /\ UNCHANGED <<engine, playing, filter, process, drift, conns>>

(* A line of the client arrives; pc is where it leaves the server. *)
Line(pc) == ctl.pc = "recv" /\ ctl' = Server(pc) /\ UNCHANGED <<process, conns>>

(* The client closes without a line, or its line only asks for a value, or *)
(* for a download that cannot start or a cancel of one that does not run.   *)
NothingToDo ==
  /\ Line("check")
  /\ UNCHANGED <<engine, playing, filter, drift>>

(* handle_play_result_index_locked takes g_lock and reads the URL of a row.  *)
(* Without that row the client is told so, or after a nap it is tried again; *)
(* tries counts the naps taken.                                              *)
OnceMore(tries) == tries <= Retries                          \* mutant
MayRetry(tries) == tries < Retries
ReadsRow(i, tries, fallback) ==
  /\ \/ /\ i \in 0..(Len(results) - 1)
        /\ ctl' = [Server("title") EXCEPT !.row = i, !.url = results[i + 1]]
        /\ drift' = drift \ {"list"}
     \/ /\ i \notin 0..(Len(results) - 1)
        /\ ctl' = IF fallback /\ MayRetry(tries)
                  THEN [Server("nap") EXCEPT !.row = i, !.tries = tries + 1]
                  ELSE Server("check")
        /\ UNCHANGED drift
  /\ UNCHANGED <<engine, playing, filter, process, conns>>

(* SET play_result_index i. *)
PlayResult(i) == ctl.pc = "recv" /\ ReadsRow(i, 0, FALSE)

(* SET play_pause_step: with nothing loaded it plays the highlighted row. *)
PlayPauseStep ==
  \/ url = None /\ ctl.pc = "recv" /\ ReadsRow(index, 0, TRUE)
  \/ url # None /\ Line("check") /\ UNCHANGED <<engine, playing, filter, drift>>

NapEnds == ctl.pc = "nap" /\ ReadsRow(ctl.row, ctl.tries, TRUE)

(* The title is read from the list of that moment: it may be another one. *)
ReadsTitle ==
  /\ ctl.pc = "title"
  /\ LET here == {i \in {ctl.row} : i < Len(results)}
         titles == {results[i + 1] : i \in here} \ Untitled
     IN  ctl' = [ctl EXCEPT !.pc = "play", !.mixed = "list" \in drift,
                            !.title = IF titles = {} THEN None
                                      ELSE results[ctl.row + 1]]
  /\ UNCHANGED <<engine, playing, filter, process, drift, conns>>

(* stream_url and cratedig_result_index are set, then the file is written; *)
(* a row without a title leaves the file as it is.                         *)
IndexStays == index' = index                                 \* mutant
IndexFollows == index' = ctl.row
Plays ==
  /\ ctl.pc = "play"
  /\ url' = ctl.url /\ IndexFollows
  /\ name' = IF ctl.title = None THEN name ELSE ctl.title
  /\ drift' = (IF ctl.mixed \/ ctl.title = None THEN {"name"} ELSE {})
                 \cup (IF "list" \in drift THEN {"row"} ELSE {})
  /\ ctl' = Server("check")
  /\ UNCHANGED <<results, search, queued, auto, filter, process, conns>>

(* SET stop, stop_step: the file is removed first, without g_lock. *)
Forgets == name' = None
Stop ==
  /\ Line("stop")
  /\ Forgets /\ drift' = drift \ {"name"}
  /\ UNCHANGED <<engine, url, auto, filter>>

(* stop_everything, unless the step is debounced. *)
Stops ==
  /\ ctl.pc = "stop" /\ ctl' = Server("check")
  /\ url' \in {url, None}
  /\ UNCHANGED <<engine, auto, name, filter, process, drift, conns>>

(* SET stream_url t. *)
SetStreamUrl(t) ==
  /\ Line("check")
  /\ url' = t /\ drift' = drift \cup {"name", "row"}
  /\ UNCHANGED <<engine, auto, name, filter>>

(* The engine goes on to the i-th row; the file stays as it is. *)
Advance(i) ==
  /\ i \in 0..(Len(results) - 1)
  /\ index' = i /\ url' = results[i + 1]
  /\ drift' = (drift \ {"row"}) \cup {"name"}
  /\ UNCHANGED <<results, search, queued, auto, name, filter, conns>>

(* SET next_track_step; it wraps, and a debounced step does nothing. *)
NextTrackStep ==
  /\ ctl.pc = "recv" /\ ctl' = Server("check")
  /\ Advance(IF index + 1 >= Len(results) THEN 0 ELSE index + 1)
  /\ UNCHANGED process

(* SET cratedig_result_index i: the page highlights a row. *)
SetResultIndex(i) ==
  /\ Line("check")
  /\ i >= 0 /\ index' = i
  /\ drift' = drift \cup {"row"}
  /\ UNCHANGED <<results, search, queued, playing, filter>>

(* SET cratedig_auto_advance. *)
SetAutoAdvance ==
  /\ Line("check") /\ auto' = ~auto
  /\ UNCHANGED <<engine, url, name, filter, drift>>

(* SET download_wav starts the thread when something is loaded and none runs; *)
(* SET download_cancel asks it to end, which it does, ffmpeg killed.  Left    *)
(* alone it ends with ffmpeg, which has no time limit.  See Download.         *)
Downloads(from, to) == download = from /\ download' = to
                       /\ UNCHANGED <<engine, playing, filter, timer, main, run,
                                      listening, drift, conns>>

DownloadWav == ctl.pc = "recv" /\ ctl' = Server("check") /\ url # None
               /\ Downloads("none", "runs")
DownloadCancel == ctl.pc = "recv" /\ ctl' = Server("check")
                  /\ Downloads("runs", "cancelled")

DownloadEnds == Downloads("runs", "none") /\ UNCHANGED ctl
CancelledEnds == Downloads("cancelled", "none") /\ UNCHANGED ctl

-----------------------------------------------------------------------------
(* The filter of the page: five tables, two of them chosen by another index. *)

Entries ==
  [genre |-> Len(Styles), style |-> Styles[chosen.genre + 1],
   decade |-> Decades,
   region |-> Len(Countries), country |-> Countries[chosen.region + 1]]

(* A genre or a region starts its own list of styles or countries at "any". *)
NoStarts(f) == {}                                            \* mutant
Starts(f) == IF f = "genre" THEN {"style"}
             ELSE IF f = "region" THEN {"country"} ELSE {}

Under(f) == IF f = "style" THEN chosen.genre ELSE chosen.region

(* SET cratedig_<f>_index i; an index outside the table is refused. *)
SetFilterIndex(f, i) ==
  /\ Line("check")
  /\ i >= 0 /\ i < Entries[f]
  /\ chosen' = [g \in Fields |-> IF g = f THEN i
                                 ELSE IF g \in Starts(f) THEN 0 ELSE chosen[g]]
  /\ picked' = [g \in DOMAIN picked |-> IF g = f THEN <<Under(f), i>> ELSE picked[g]]
  /\ UNCHANGED <<engine, playing, drift>>

(* send_cratedig_filter_from_shadow_state_locked: a style or a country is a  *)
(* name in the table of the genre or the region; "any" is the empty string.  *)
Entry(f) == IF chosen[f] = 0 \/ chosen[f] >= Entries[f] THEN None
            ELSE <<Under(f), chosen[f]>>
Sent == [genre |-> chosen.genre, style |-> Entry("style"),
         decade |-> chosen.decade, country |-> Entry("country")]

(* SET cratedig_search_go: the engine starts a search for Sent, which hides *)
(* the list, or queues it behind the one that runs.                         *)
SearchGo ==
  /\ Line("check")
  /\ index' = 0
  /\ \/ /\ search = "none" /\ search' = "runs"
        /\ results' = <<>> /\ UNCHANGED queued
     \/ /\ search # "none" /\ queued' = TRUE
        /\ UNCHANGED <<results, search>>
  /\ drift' = drift \cup {"row"}
  /\ UNCHANGED <<playing, filter>>

-----------------------------------------------------------------------------
(* timer_loop.                                                             *)

(* while (g_run). *)
TimerChecks ==
  /\ timer = "check"
  /\ timer' = IF run THEN "render" ELSE "gone"
  /\ UNCHANGED <<engine, playing, filter, ctl, download, main, run, listening, drift, conns>>

(* g_lock is held between the fields of a row. *)
LockFree == ctl.pc \notin {"title", "play"}

(* render_block under g_lock. *)
Render ==
  /\ timer = "render" /\ LockFree
  /\ timer' = "push"
  /\ UNCHANGED <<engine, playing, filter, ctl, download, main, run, listening, drift, conns>>

(* The stream has ended, and render_block goes on to the next row. *)
RenderAdvances ==
  /\ timer = "render" /\ LockFree
  /\ auto /\ url # None /\ Advance(index + 1)
  /\ timer' = "push"
  /\ UNCHANGED <<ctl, download, main, run, listening>>

(* ring_push: the shared ring is a module of its own. *)
Pushes ==
  /\ timer = "push" /\ timer' = "check"
  /\ UNCHANGED <<engine, playing, filter, ctl, download, main, run, listening, drift, conns>>

-----------------------------------------------------------------------------
(* main.                                                                   *)

Signal ==
  /\ run /\ run' = FALSE
  /\ UNCHANGED <<engine, playing, filter, ctl, download, timer, main, listening, drift, conns>>

MainGoes(from, to) ==
  /\ main = from /\ main' = to
  /\ UNCHANGED <<engine, url, auto, filter, ctl, download, timer, run, drift, conns>>

(* while (g_run) sleep. *)
MainWakes ==
  /\ ~run
  /\ MainGoes("serve", "joins") /\ UNCHANGED <<name, listening>>

(* timer.join, shutdown(lfd). *)
OnlyCloses == MainGoes("joins", "joinsCtl") /\ timer = "gone"
              /\ UNCHANGED <<name, listening>>               \* mutant
ShutsDown ==
  /\ timer = "gone"
  /\ MainGoes("joins", "joinsCtl")
  /\ listening' = FALSE /\ UNCHANGED name

(* ctrl.join. *)
JoinsNothing == MainGoes("joinsCtl", "clears")
                /\ UNCHANGED <<name, listening>>             \* mutant
JoinsCtl ==
  /\ ctl.pc = "gone"
  /\ MainGoes("joinsCtl", "clears") /\ UNCHANGED <<name, listening>>

(* clear_nowplaying_file, destroy_instance, munmap and the end.  The engine's *)
(* destruction waits for the download thread and does not ask it to end; its  *)
(* other threads have time limits.                                            *)
ClearsFile ==
  /\ MainGoes("clears", "frees")
  /\ name' = None /\ UNCHANGED listening
Destroys ==
  /\ download = "none"
  /\ MainGoes("frees", "freed") /\ UNCHANGED <<name, listening>>
Exits == MainGoes("freed", "exit") /\ UNCHANGED <<name, listening>>

-----------------------------------------------------------------------------
(* The engine of a destroyed instance runs no search. *)
SearchThread == main \notin {"freed", "exit"} /\ (Publish \/ SpawnQueued)

Client ==
  \/ NothingToDo \/ PlayPauseStep \/ Stop \/ NextTrackStep \/ SetAutoAdvance \/ SearchGo
  \/ DownloadWav \/ DownloadCancel
  \/ \E i \in Rows : \/ PlayResult(i) \/ SetResultIndex(i)
                     \/ \E f \in Fields : SetFilterIndex(f, i)
  \/ \E t \in Tracks : SetStreamUrl(t)

Ctl == CtlChecks \/ AcceptFails \/ NapEnds \/ ReadsTitle \/ Plays \/ Stops
Timer == TimerChecks \/ Render \/ RenderAdvances \/ Pushes
Main == MainWakes \/ ShutsDown \/ JoinsCtl \/ ClearsFile \/ Destroys \/ Exits

Next == SearchThread \/ DownloadEnds \/ CancelledEnds \/ Accept \/ Client \/ Ctl \/ Timer \/ Main \/ Signal

Spec == Init /\ [][Next]_vars

(* The threads of the host go on, and a cancelled download ends (CancelEnds  *)
(* of Download); another need not, nor need a client send or anyone signal.  *)
FairSpec == Spec /\ WF_vars(Ctl) /\ WF_vars(Timer) /\ WF_vars(Main)
                 /\ WF_vars(CancelledEnds)

-----------------------------------------------------------------------------
(* Between two plays the now-playing file names the track that is loaded, or *)
(* is absent, and the highlighted row is the one that plays, unless what is  *)
(* known to part them came in between: the engine advanced or was given a    *)
(* URL (the file is written by play_result only, host 765-769), a title was  *)
(* missing or read from a list published meanwhile, a search replaced or hid *)
(* the list, or a client moved the highlight.                                *)
InStep == LockFree =>
  /\ "name" \notin drift => name \in {url, None}
  /\ "row" \notin drift /\ url # None =>
       index < Len(results) /\ results[index + 1] = url

(* The filter a search is started with holds no style picked for another     *)
(* genre and no country picked for another region: the indices are shared by *)
(* tables of different lengths (host 831-875), so a stale one would name an  *)
(* entry nobody picked.                                                      *)
FilterAsPicked ==
  /\ Sent.style \in {None, picked["style"]}
  /\ Sent.country \in {None, picked["country"]}

(* When the engine is destroyed and the ring unmapped no thread of the host  *)
(* can use them any more, nor does the download thread use the engine, and   *)
(* no now-playing file outlives the process, even if a client played a row   *)
(* while the signal arrived (host 1293-1318).                                *)
CleanExit ==
  /\ main \in {"freed", "exit"} =>
       timer = "gone" /\ ctl.pc = "gone" /\ download = "none"
  /\ main \in {"frees", "freed", "exit"} => name = None

(* Once the host is told to stop it exits, although its server waits in      *)
(* accept() with no timeout (host 1294-1310), unless a client that has       *)
(* connected stays silent for ever, recv() having no timeout either, or      *)
(* ffmpeg never ends in a download nobody cancelled, for which the engine's  *)
(* destruction waits (yt 2107).                                              *)
ShutdownEnds == <>~run => \/ <>(main = "exit")
                          \/ <>[](ctl.pc = "recv")
                          \/ <>[](main = "frees" /\ download = "runs")
=============================================================================
