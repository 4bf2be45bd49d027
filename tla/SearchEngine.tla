---------------------------- MODULE SearchEngine ----------------------------
(***************************************************************************)
(* Asynchronous search in src/src/dsp/yt_stream_plugin.c: a request starts *)
(* a search thread or, while one runs, is queued in a single slot; the     *)
(* thread asks the daemon process over its pipe, publishes its results or  *)
(* discards them, and starts what is queued.                               *)
(*                                                                         *)
(* Requests come in under g_lock, one at a time; they meet the thread in   *)
(* search_mutex.  Each action below is one search_mutex section, or what   *)
(* the thread does to the daemon between two of them under daemon_mutex.   *)
(* The daemon keeps the crate-dig filter in its memory only: a new process *)
(* knows no filter.                                                        *)
(***************************************************************************)
EXTENDS Integers, FiniteSets

CONSTANTS
  Providers,    (* the normalised provider names                            *)
  Queries,      (* non-empty query strings; "cratedig" is one               *)
  Filters,      (* the crate-dig filters clients send                       *)
  None,         (* no string: an empty query, no filter, nothing queued     *)
  LoneProviders,(* the providers a client sets without a search             *)
  ThreadsFail,  (* pthread_create may fail                                  *)
  MaxCmds,      (* bound: the requests of one behaviour                     *)
  MaxLosses     (* bound: how often the daemon process is lost              *)

ASSUME SearchAssumption ==
  /\ "cratedig" \in Queries /\ {"youtube", "cratedig"} \subseteq Providers
  /\ None \notin Queries \cup Filters \cup [prov : Providers, query : Queries]
  /\ LoneProviders \subseteq Providers /\ ThreadsFail \in BOOLEAN
  /\ MaxCmds \in Nat /\ MaxLosses \in Nat

VARIABLES
  prov, query,      \* search_provider, search_query: the request in hand
  queued,           \* the one queued request
  status,           \* search_status
  count, shown,     \* search_count > 0; what search_results holds
  running,          \* search_thread_running
  threads,          \* the search threads that have not exited
  pending,          \* cratedig_pending_filter
  daemon,           \* the daemon process: up, down, or dead and not yet noticed
  filter,           \* the filter the daemon process holds
  want, latest,     \* history: the last filter and the last request of a client
  down,             \* how far v2_destroy_instance has come
  successor,        \* history: a search was started after its handle was read
  stranded,         \* history: a queued request was left without a thread
  cmds, losses

request == <<prov, query, queued>>
answer == <<status, count, shown>>
remote == <<daemon, filter, losses>>
asked == <<want, latest, cmds>>
teardown == <<down, successor>>
vars == <<request, answer, running, threads, pending, remote, asked, teardown, stranded>>

Request == [prov : Providers, query : Queries]
Shown == [prov : Providers, query : Queries \cup {None}, filter : Filters \cup {None}]
Statuses == {"idle", "searching", "queued", "done", "no_results", "error"}
Thread == [pc : {"read", "connect", "filter", "search", "publish", "spawn"},
           prov : Providers, query : Queries \cup {None}, attempt : 1..2,
           found : Shown \cup {None}, rc : {"ok", "error"}]

(* The state type. *)
TypeOK ==
  /\ prov \in Providers /\ query \in Queries \cup {None}
  /\ queued \in Request \cup {None}
  /\ status \in Statuses
  /\ count \in BOOLEAN /\ shown \in Shown \cup {None}
  /\ running \in BOOLEAN
  /\ threads \subseteq Thread
  /\ pending \in Filters \cup {None}
  /\ daemon \in {"up", "down", "dead"} /\ filter \in Filters \cup {None}
  /\ want \in Filters \cup {None} /\ latest \in Request \cup {None}
  /\ down \in {"up", "joining", "joined", "freed"} /\ successor \in BOOLEAN
  /\ stranded \in BOOLEAN
  /\ cmds \in 0..MaxCmds /\ losses \in 0..MaxLosses

(* The host sets search_provider to "cratedig" before it serves a client.    *)
Init ==
  /\ prov = "cratedig" /\ query = None /\ queued = None
  /\ status = "idle" /\ count = FALSE /\ shown = None
  /\ running = FALSE /\ threads = {}
  /\ pending = None
  /\ daemon = "down" /\ filter = None
  /\ want = None /\ latest = None
  /\ down = "up" /\ successor = FALSE /\ stranded = FALSE
  /\ cmds = 0 /\ losses = 0

-----------------------------------------------------------------------------
NewThread(p) == [pc |-> "read", prov |-> p, query |-> None, attempt |-> 1,
                 found |-> None, rc |-> "ok"]

(* spawn_search_thread_locked: the request is in hand, and its thread starts *)
(* or cannot be created.  others are the threads that stay.                  *)
(* (A definition marked "mutant" is a bug this code could have had: the      *)
(* properties are checked to notice it.)                                     *)
Spawn(r, others) ==
  /\ prov' = r.prov /\ query' = r.query
  /\ count' = FALSE /\ UNCHANGED shown
  /\ \/ /\ status' = "searching"
        /\ running' = TRUE
        /\ threads' = others \cup {NewThread(r.prov)}
     \/ /\ ThreadsFail
        /\ status' = "error"
        /\ running' = FALSE
        /\ threads' = others

SlotIfEmpty(r) == queued' = IF queued = None THEN r ELSE queued  \* mutant
Slot(r) == queued' = r

(* start_search_async: the slot holds the last request made meanwhile. *)
StartSearch(r) ==
  /\ latest' = r
  /\ \/ /\ running
        /\ Slot(r) /\ status' = "queued"
        /\ prov' = r.prov
        /\ UNCHANGED <<query, count, shown, running, threads>>
     \/ /\ ~running
        /\ Spawn(r, threads)
        /\ UNCHANGED queued

-----------------------------------------------------------------------------
(* v2_set_param; the host makes no call once it destroys the engine. *)
Command == down = "up" /\ cmds < MaxCmds /\ cmds' = cmds + 1
           /\ UNCHANGED <<teardown, stranded>>

(* cratedig_filter = f: one section stashes the filter and starts the search. *)
SetFilter(f) ==
  /\ Command
  /\ pending' = f /\ want' = f
  /\ StartSearch([prov |-> "cratedig", query |-> "cratedig"])
  /\ UNCHANGED remote

(* search_query = q, with the provider that is set. *)
SetQuery(q) ==
  /\ Command
  /\ StartSearch([prov |-> prov, query |-> q])
  /\ UNCHANGED <<pending, want, remote>>

(* search_query = "": clear_search_locked. *)
ClearQuery ==
  /\ Command
  /\ query' = None /\ queued' = None
  /\ status' = "idle" /\ count' = FALSE /\ shown' = None
  /\ latest' = None
  /\ UNCHANGED <<prov, running, threads, pending, want, remote>>

(* search_provider = p: with another provider in its place the request in    *)
(* hand is nobody's any more.                                                *)
SetProvider(p) ==
  /\ Command
  /\ prov' = p
  /\ latest' = IF p = prov THEN latest ELSE None
  /\ UNCHANGED <<query, queued, answer, running, threads, pending, want, remote>>

-----------------------------------------------------------------------------
(* search_thread_main and run_search_command_daemon *)
Becomes(t, new) == threads' = (threads \ {t}) \cup {new}
Quiet == UNCHANGED <<request, answer, running, asked>>

(* The thread copies the request in hand. *)
Reads(t) ==
  /\ t.pc = "read"
  /\ Becomes(t, [t EXCEPT !.pc = "connect", !.prov = prov, !.query = query])
  /\ Quiet /\ UNCHANGED <<pending, remote>>

(* start_daemon_locked: a daemon that is up, or is dead and looks up, is     *)
(* used; else a new process starts, or fails to.                             *)
IsCrateDig(t) == t.prov = "cratedig"
Connected(t) == [t EXCEPT !.pc = IF IsCrateDig(t) THEN "filter" ELSE "search"]
Failed(t) == [t EXCEPT !.pc = "publish", !.rc = "error", !.found = None]

Connects(t) ==
  /\ t.pc = "connect"
  /\ \/ /\ daemon # "down"
        /\ Becomes(t, Connected(t))
        /\ UNCHANGED remote
     \/ /\ daemon = "down"
        /\ daemon' = "up" /\ filter' = None
        /\ Becomes(t, Connected(t))
        /\ UNCHANGED losses
     \/ /\ daemon = "down"
        /\ Becomes(t, Failed(t))
        /\ UNCHANGED remote
  /\ Quiet /\ UNCHANGED pending

(* The pending filter is taken under search_mutex and sent; the daemon works *)
(* through its requests in order, so it holds the filter when it searches.   *)
(* The reply, its absence and a failed write are ignored.                    *)
FirstFilterStays(t) ==  \* mutant: a daemon that holds a filter is sent no other
  /\ t.pc = "filter"
  /\ pending' = None
  /\ filter' = IF pending # None /\ daemon = "up" /\ filter = None THEN pending ELSE filter
  /\ Becomes(t, [t EXCEPT !.pc = "search"])
  /\ Quiet /\ UNCHANGED <<daemon, losses>>

SendsFilter(t) ==
  /\ t.pc = "filter"
  /\ pending' = None
  /\ filter' = IF pending # None /\ daemon = "up" THEN pending ELSE filter
  /\ Becomes(t, [t EXCEPT !.pc = "search"])
  /\ Quiet /\ UNCHANGED <<daemon, losses>>

(* The search request and the lines that answer it: results, none, or an     *)
(* ERROR line.                                                               *)
Found(t) == [prov |-> t.prov, query |-> t.query,
             filter |-> IF IsCrateDig(t) THEN filter ELSE None]

Searches(t) ==
  /\ t.pc = "search" /\ daemon = "up"
  /\ \E f \in {Found(t), None}, rc \in {"ok", "error"} :
       /\ rc = "error" => f = None
       /\ Becomes(t, [t EXCEPT !.pc = "publish", !.rc = rc, !.found = f])
  /\ Quiet /\ UNCHANGED <<pending, remote>>

(* The write fails: no retry. *)
SearchWriteFails(t) ==
  /\ t.pc = "search" /\ daemon = "dead"
  /\ daemon' = "down" /\ filter' = None
  /\ Becomes(t, Failed(t))
  /\ Quiet /\ UNCHANGED <<pending, losses>>

(* No line in time, or none any more: the daemon is stopped, and the request *)
(* made a second time, or given up.                                          *)
RetriesTwice(t) == t.attempt <= 2  \* mutant
Retries(t) == t.attempt = 1

SearchTimesOut(t) ==
  /\ t.pc = "search"
  /\ \/ daemon = "dead" /\ UNCHANGED losses
     \/ daemon = "up" /\ losses < MaxLosses /\ losses' = losses + 1
  /\ daemon' = "down" /\ filter' = None
  /\ Becomes(t, IF Retries(t) THEN [t EXCEPT !.pc = "connect", !.attempt = @ + 1]
                ELSE Failed(t))
  /\ Quiet /\ UNCHANGED pending

(* The section that ends a search: the answer is published if the request in *)
(* hand is still the thread's, and discarded else; the queued request is     *)
(* taken over, or the thread exits.                                          *)
StillSameProvider(t) == prov = t.prov  \* mutant
StillAsked(t) == query = t.query /\ prov = t.prov

TakesQueueIfAsked(t) == queued # None /\ StillAsked(t)  \* mutant: not behind an answer that is dropped
TakesQueue(t) == queued # None

RunningEnds == running' = FALSE  \* mutant: the flag falls between two searches
RunningGoesOn == UNCHANGED running

Publishes(t) ==
  /\ t.pc = "publish"
  /\ \/ /\ StillAsked(t)
        /\ count' = (t.found # None)
        /\ shown' = IF t.found # None THEN t.found ELSE shown
        /\ status' = CASE t.rc = "error" -> "error"
                       [] t.rc = "ok" /\ t.found # None -> "done"
                       [] OTHER -> "no_results"
     \/ ~StillAsked(t) /\ UNCHANGED answer
  /\ \/ /\ TakesQueue(t)
        /\ Becomes(t, [t EXCEPT !.pc = "spawn", !.prov = queued.prov, !.query = queued.query])
        /\ queued' = None
        /\ RunningGoesOn
     \/ /\ ~TakesQueue(t)
        /\ threads' = threads \ {t}
        /\ running' = FALSE
        /\ UNCHANGED queued
  /\ UNCHANGED <<prov, query, pending, remote, asked>>

(* A section of its own starts the search that was queued, and the thread    *)
(* exits.                                                                    *)
SpawnsQueued(t) ==
  /\ t.pc = "spawn"
  /\ Spawn([prov |-> t.prov, query |-> t.query], threads \ {t})
  /\ successor' = (down = "joining" \/ successor)
  /\ stranded' = (stranded \/ (~running' /\ queued # None))
  /\ UNCHANGED <<queued, pending, remote, asked, down>>

(* The process dies, or a resolve that ran out of time stops it.  Both wait  *)
(* for daemon_mutex or go unnoticed by its owner.                            *)
InDaemon == \E t \in threads : t.pc \in {"filter", "search"}

DaemonLost ==
  /\ daemon = "up" /\ losses < MaxLosses
  /\ losses' = losses + 1
  /\ \/ daemon' = "dead" /\ UNCHANGED filter
     \/ ~InDaemon /\ daemon' = "down" /\ filter' = None
  /\ UNCHANGED <<request, answer, running, threads, pending, asked, teardown, stranded>>

-----------------------------------------------------------------------------
(* v2_destroy_instance: the daemon is killed under no lock; the search thread *)
(* whose handle is seen then is joined; the daemon, or one a thread started   *)
(* meanwhile, is stopped under daemon_mutex; the memory is freed.             *)
Destroy ==
  /\ down = "up" /\ down' = "joining"
  /\ daemon' = IF daemon = "up" THEN "dead" ELSE daemon
  /\ latest' = None
  /\ UNCHANGED <<request, answer, running, threads, pending, filter, losses>>
  /\ UNCHANGED <<want, cmds, successor, stranded>>

JoinsNothing ==  \* mutant: the search thread is not joined
  /\ down = "joining" /\ down' = "joined"
  /\ UNCHANGED <<request, answer, running, threads, pending, remote, asked, successor, stranded>>

JoinsSearch ==
  /\ down = "joining" /\ (threads = {} \/ successor)
  /\ down' = "joined" /\ running' = FALSE
  /\ UNCHANGED <<request, answer, threads, pending, remote, asked, successor, stranded>>

Frees ==
  /\ down = "joined" /\ ~InDaemon
  /\ down' = "freed"
  /\ daemon' = "down" /\ filter' = None
  /\ UNCHANGED <<request, answer, running, threads, pending, losses, asked, successor, stranded>>

-----------------------------------------------------------------------------
Client ==
  \/ \E f \in Filters : SetFilter(f)
  \/ \E q \in Queries : SetQuery(q)
  \/ ClearQuery
  \/ \E p \in LoneProviders : SetProvider(p)

Step(t) ==
  \/ /\ \/ Reads(t) \/ Connects(t) \/ SendsFilter(t) \/ Searches(t)
        \/ SearchWriteFails(t) \/ SearchTimesOut(t) \/ Publishes(t)
     /\ UNCHANGED <<teardown, stranded>>
  \/ SpawnsQueued(t)

(* In freed memory nothing is known of a thread's steps. *)
SearchThread == down # "freed" /\ \E t \in threads : Step(t)

Teardown == Destroy \/ JoinsSearch \/ Frees

Next == Client \/ SearchThread \/ DaemonLost \/ Teardown

Spec == Init /\ [][Next]_vars

(* Every read from the daemon has a time limit and every section ends, so a  *)
(* search thread goes on.  Clients and losses are under no obligation.       *)
FairSpec == Spec /\ WF_vars(SearchThread)

-----------------------------------------------------------------------------
Settled == status \in {"done", "no_results", "error"}

(* The flag that admits requests counts the threads: two searches never run  *)
(* at once, and no request is queued behind a thread that is gone; only the  *)
(* teardown lowers the flag of a thread it did not join.                     *)
FlagCountsThreads ==
  Cardinality(threads) = (IF running \/ (successor /\ threads # {}) THEN 1 ELSE 0)

(* When the status is done, the result list is not empty and answers the     *)
(* query in hand: the answer to an earlier query is never shown for a later  *)
(* one, and results are hidden while a search is under way.                  *)
DoneShowsQuery ==
  /\ status = "done" => count /\ shown.query = query
  /\ status = "searching" => ~count

(* Crate-dig results shown after the last filter was handed over come from   *)
(* that filter, or from no filter at all if the daemon was lost: never from  *)
(* one that a later filter has replaced.                                     *)
NeverStaleFilter ==
  status = "done" /\ shown.prov = "cratedig" /\ pending = None
    => shown.filter \in {want, None}

(* "Send pending filter before searching": crate-dig results shown after the *)
(* last filter was handed over come from that filter.                        *)
FilterApplied ==
  status = "done" /\ shown.prov = "cratedig" /\ pending = None => shown.filter = want

(* A request is answered, well or badly, unless a later one replaces or      *)
(* clears it, a client changes the provider under it, or the engine goes:    *)
(* no order of requests, answers, failed threads and daemon losses leaves a  *)
(* client waiting at "searching" or "queued", or at the answer to an earlier *)
(* request.  The exception is a thread that cannot be created while another  *)
(* request comes in between the two sections of the thread before it: that   *)
(* request stays in the slot, and runs after, and over, some later one.      *)
LatestRequestSettles ==
  \A r \in Request :
    latest = r ~> \/ latest # r
                  \/ Settled /\ query = r.query /\ prov = r.prov
                  \/ stranded

(* What a client can tell of the search. *)
Listed == IF count THEN {shown.query} ELSE {}
Waiting == IF queued = None THEN {} ELSE {queued.query}
Taken == {t.query : t \in {u \in threads : u.pc = "spawn"}}
Intact ==
  \A t \in threads : t.pc \in {"read", "spawn"} \/ (t.prov = prov /\ t.query = query)

Desk == INSTANCE SearchDesk WITH
  NoQuery <- None, hand <- query, listed <- Listed, waiting <- Waiting,
  taken <- Taken, working <- threads # {}, intact <- Intact

(* Threads, their successors, the daemon and its losses, the second attempt, *)
(* filters and the teardown do not show: to a client the search is a desk    *)
(* with one slot, which answers for the query in hand only, and drops an     *)
(* answer only if the client changed or cleared the request under it.        *)
ImplementsDesk == Desk!Spec

(* v2_destroy_instance frees the instance when no search thread is left that *)
(* could touch it, a search that was started from the queue while it joined  *)
(* the thread before it apart (that one it does not know of).                *)
FreedIsQuiet == down = "freed" /\ threads # {} => successor
=============================================================================
