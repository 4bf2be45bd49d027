------------------------------ MODULE Playback ------------------------------
(***************************************************************************)
(* How one track is resolved, spawned, replaced and stopped: the part of   *)
(* src/src/dsp/yt_stream_plugin.c that v2_set_param and v2_render_block    *)
(* share with the resolve thread and the prefetch thread.                  *)
(*                                                                         *)
(* The host calls v2_set_param and v2_render_block under one lock          *)
(* (g_lock), so the two never interleave with each other.  The resolve and *)
(* prefetch threads do not take it: they meet a handler only in            *)
(* resolve_mutex and prefetch_mutex sections.  A handler is therefore cut  *)
(* at those sections: ctl holds what the owner of g_lock still has to do,  *)
(* and the threads may run wherever ctl stands.  Assignments to fields     *)
(* that no thread reads are merged with the nearest section.               *)
(*                                                                         *)
(* stream_url is written outside resolve_mutex and read inside it (a data  *)
(* race), so while a write is under way a reader may see the old text, the *)
(* new one or a mixture (Torn).  Audio data is the subject of StreamRing.  *)
(***************************************************************************)
EXTENDS Integers, Sequences, FiniteSets

CONSTANTS
  Urls,          (* the track urls                                          *)
  NoUrl,         (* the empty string, as a url or a media url               *)
  Torn,          (* a mixture of two urls                                   *)
  NoPipe,        (* pipe == NULL                                            *)
  Providers,     (* the normalised provider names                           *)
  Unknown,       (* what a url that names no provider infers                *)
  ProviderOf,    (* the provider each url infers, or Unknown                *)
  ResultLists,   (* the result lists a search can publish                   *)
  SetProviders,  (* the providers a client sets on their own                *)
  MaxResults,    (* SEARCH_MAX_RESULTS                                      *)
  MaxCmds        (* bound: the commands of one behaviour                    *)

ASSUME UrlAssumption ==
  /\ NoUrl \notin Urls /\ Torn \notin Urls /\ NoUrl # Torn
  /\ NoPipe \notin [src : Urls, how : {"resolved", "legacy"}]

ASSUME ProviderAssumption ==
  /\ {"youtube", "soundcloud"} \subseteq Providers
  /\ Unknown \notin Providers
  /\ SetProviders \subseteq Providers
  /\ ProviderOf \in [Urls -> Providers \cup {Unknown}]

ASSUME ListAssumption ==
  /\ MaxResults \in Nat \ {0} /\ MaxCmds \in Nat
  /\ \A l \in ResultLists : l \in Seq(Urls) /\ Len(l) <= MaxResults

VARIABLES
  url, provider,                     \* stream_url, stream_provider
  pipe,                              \* the stream process and what it plays
  eof, paused,                       \* stream_eof, paused
  resume,                            \* the track resume_offset_sec was measured on
  fellBack,                          \* resolved_fallback_attempted
  spawns,                            \* history: processes started since the last command
  resolve, resolveRunning, resolvers,
  prefetch, prefetchRunning, prefetchers,
  results, idx, autoAdvance,         \* search_results, cratedig_result_index
  dl, downloading,                   \* what download_wav captured
  ctl, cmds

track == <<url, provider>>
stream == <<pipe, eof, paused, resume, fellBack, spawns>>
resolving == <<resolve, resolveRunning, resolvers>>
prefetching == <<prefetch, prefetchRunning, prefetchers>>
list == <<results, idx, autoAdvance>>
download == <<dl, downloading>>
vars == <<track, stream, resolving, prefetching, list, download, ctl, cmds>>

Pipe == [src : Urls, how : {"resolved", "legacy"}]
Pc == {"idle", "load", "next", "clear", "start", "stop",
       "failed", "legacy", "pick", "prefetch"}

(* The state type: one record per group of fields under one mutex. *)
TypeOK ==
  /\ url \in Urls \cup {NoUrl}
  /\ provider \in Providers
  /\ pipe \in Pipe \cup {NoPipe}
  /\ eof \in BOOLEAN /\ paused \in BOOLEAN /\ fellBack \in BOOLEAN
  /\ resume \in Urls \cup {NoUrl}
  /\ spawns \in Nat
  /\ resolve \in [ready : BOOLEAN, failed : BOOLEAN, media : Urls \cup {NoUrl, Torn}]
  /\ resolveRunning \in BOOLEAN
  /\ resolvers \subseteq [pc : {"read", "work"}, url : Urls \cup {NoUrl, Torn}, prov : Providers]
  /\ prefetch \in [src : Urls \cup {NoUrl}, media : Urls \cup {NoUrl}, ready : BOOLEAN]
  /\ prefetchRunning \in BOOLEAN
  /\ prefetchers \subseteq [pc : {"read", "work"}, url : Urls \cup {NoUrl}]
  /\ results \in ResultLists \cup {<<>>}
  /\ idx \in 0..(MaxResults - 1)
  /\ autoAdvance \in BOOLEAN
  /\ dl \in [src : Urls \cup {NoUrl}, media : Urls \cup {NoUrl, Torn}]
  /\ downloading \in BOOLEAN
  /\ ctl \in [pc : Pc, target : Urls \cup {NoUrl}]
  /\ cmds \in 0..MaxCmds

-----------------------------------------------------------------------------
Cleared == [ready |-> FALSE, failed |-> FALSE, media |-> NoUrl]
Idle == [pc |-> "idle", target |-> NoUrl]
Goto(pc) == ctl' = [pc |-> pc, target |-> NoUrl]

Init ==
  /\ url = NoUrl /\ provider = "youtube"
  /\ pipe = NoPipe /\ eof = FALSE /\ paused = FALSE /\ resume = NoUrl
  /\ fellBack = FALSE /\ spawns = 0
  /\ resolve = Cleared /\ resolveRunning = FALSE /\ resolvers = {}
  /\ prefetch = [src |-> NoUrl, media |-> NoUrl, ready |-> FALSE]
  /\ prefetchRunning = FALSE /\ prefetchers = {}
  /\ results = <<>> /\ idx = 0 /\ autoAdvance = FALSE
  /\ dl = [src |-> NoUrl, media |-> NoUrl] /\ downloading = FALSE
  /\ ctl = Idle /\ cmds = 0

(* infer_provider_from_url: the provider a url names, else the given one. *)
Infer(u, p) ==
  IF u \in Urls /\ ProviderOf[u] # Unknown THEN ProviderOf[u] ELSE p

SupportsLegacyFallback == provider \in {"youtube", "soundcloud"}
PreferLegacy(p) == p = "soundcloud"

(* What a thread can read from stream_url while a write may be under way. *)
Writing == ctl.pc \in {"load", "next"}
Readable == IF Writing THEN {url, ctl.target, Torn} ELSE {url}

(* restart_stream_from_beginning, which a command or an advance runs.       *)
(* (A definition marked "mutant" is a bug this code could have had: the     *)
(* properties are checked to notice it.  RestartedKeepsOffset and           *)
(* NotStartedYetRunning are mutants.)                                       *)
RestartedKeepsOffset == paused' = FALSE /\ fellBack' = FALSE /\ UNCHANGED resume
Restarted == paused' = FALSE /\ resume' = NoUrl /\ fellBack' = FALSE
NotStartedYetRunning == eof' = FALSE /\ spawns' = 0 /\ UNCHANGED pipe
NotStarted == pipe' = NoPipe /\ eof' = FALSE /\ spawns' = 0

(* spawn_stream_command: the process starts and becomes the pipe. *)
Spawned(src, how) == pipe' = [src |-> src, how |-> how] /\ spawns' = spawns + 1

(* start_stream_legacy from a command, where its failure is end of stream. *)
LegacyFromCommand(u) ==
  \/ pipe' = [src |-> u, how |-> "legacy"] /\ eof' = FALSE /\ spawns' = 1
  \/ pipe' = NoPipe /\ eof' = TRUE /\ spawns' = 0

-----------------------------------------------------------------------------
(* start_resolve_async, one resolve_mutex section.  Only the owner of       *)
(* g_lock starts resolvers; one that still runs keeps its place.            *)
ResolverStartsAnyway ==  \* mutant: the running flag is not looked at
  /\ resolve' = Cleared
  /\ resolveRunning' = TRUE
  /\ resolvers' = resolvers \cup {[pc |-> "read", url |-> NoUrl, prov |-> provider]}

ResolverStarts ==
  /\ ~resolveRunning
  /\ resolve' = Cleared
  /\ resolveRunning' = TRUE
  /\ resolvers' = resolvers \cup {[pc |-> "read", url |-> NoUrl, prov |-> provider]}

ResolverNotCreated ==
  /\ ~resolveRunning
  /\ resolve' = [Cleared EXCEPT !.failed = TRUE]
  /\ UNCHANGED <<resolveRunning, resolvers>>

StartResolve ==
  /\ ctl.pc = "start"
  /\ \/ ResolverStarts
     \/ ResolverNotCreated
     \/ resolveRunning /\ UNCHANGED resolving
  /\ ctl' = Idle
  /\ UNCHANGED <<track, stream, prefetching, list, download, cmds>>

-----------------------------------------------------------------------------
(* v2_set_param.  A command takes g_lock, which no one may hold. *)
Command == ctl.pc = "idle" /\ cmds < MaxCmds /\ cmds' = cmds + 1

(* stream_url = u begins: the url is being copied over the old one. *)
SetUrl(u) ==
  /\ Command
  /\ ctl' = [pc |-> "load", target |-> u]
  /\ UNCHANGED <<track, stream, resolving, prefetching, list, download>>

(* stream_url = u, the rest up to start_resolve_async: the provider and the *)
(* resolve answer change in one section, then the stream is restarted and a *)
(* soundcloud track goes to the legacy pipeline at once.                    *)
UrlWritten ==
  LET u == ctl.target
      p == Infer(u, provider)
  IN /\ ctl.pc = "load"
     /\ url' = u /\ provider' = p
     /\ resolve' = Cleared
     /\ Restarted
     /\ \/ PreferLegacy(p) /\ LegacyFromCommand(u) /\ ctl' = Idle
        \/ ~PreferLegacy(p) /\ NotStarted /\ Goto("start")
     /\ UNCHANGED <<resolveRunning, resolvers, prefetching, list, download, cmds>>

(* stream_provider = p. *)
SetProvider(p) ==
  /\ Command
  /\ provider' = p
  /\ UNCHANGED <<url, stream, resolving, prefetching, list, download, ctl>>

(* play_pause_toggle and play_pause_step. *)
TogglePause ==
  /\ Command
  /\ url # NoUrl /\ ~eof
  /\ paused' = ~paused
  /\ UNCHANGED <<track, pipe, eof, resume, fellBack, spawns, resolving,
                 prefetching, list, download, ctl>>

(* restart and restart_step. *)
Restart ==
  /\ Command
  /\ url # NoUrl
  /\ Restarted
  /\ \/ PreferLegacy(provider) /\ LegacyFromCommand(url) /\ UNCHANGED ctl
     \/ ~PreferLegacy(provider) /\ NotStarted /\ Goto("start")
  /\ UNCHANGED <<track, resolving, prefetching, list, download>>

(* stop, stop_step and an empty stream_url: stop_everything up to its       *)
(* resolve_mutex section.  Clearing the first byte cannot tear.             *)
Stop ==
  /\ Command
  /\ url' = NoUrl
  /\ NotStarted /\ paused' = FALSE /\ fellBack' = FALSE
  /\ Goto("stop")
  /\ UNCHANGED <<provider, resume, resolving, prefetching, list, download>>

StopKeepsAnswer ==  \* mutant: stop leaves the resolve answer alone
  /\ ctl.pc = "stop"
  /\ ctl' = Idle
  /\ UNCHANGED <<track, stream, resolving, prefetching, list, download, cmds>>

StopClears ==
  /\ ctl.pc = "stop"
  /\ resolve' = Cleared
  /\ ctl' = Idle
  /\ UNCHANGED <<track, stream, resolveRunning, resolvers, prefetching, list, download, cmds>>

(* cratedig_result_index = i; cratedig_filter also sets it, to 0. *)
InRangeNoFloor(i) == i < MaxResults  \* mutant
InRange(i) == i >= 0 /\ i < MaxResults

SetIndex(i) ==
  /\ Command
  /\ InRange(i)
  /\ idx' = i
  /\ UNCHANGED <<track, stream, resolving, prefetching, results, autoAdvance, download, ctl>>

SetAutoAdvance ==
  /\ Command
  /\ autoAdvance' = ~autoAdvance
  /\ UNCHANGED <<track, stream, resolving, prefetching, results, idx, download, ctl>>

(* The move to result i + 1 of the list, up to the copy of its url. *)
Advance(i) ==
  /\ idx' = i
  /\ provider' = "youtube"
  /\ pipe' = NoPipe
  /\ ctl' = [pc |-> "next", target |-> results[i + 1]]
  /\ UNCHANGED <<url, paused, resume, fellBack, spawns, resolving,
                 prefetching, results, autoAdvance, download>>

(* next_track_step wraps to the first result. *)
NextTrack ==
  /\ Command
  /\ results # <<>>
  /\ Advance(IF idx + 1 >= Len(results) THEN 0 ELSE idx + 1)
  /\ UNCHANGED eof

(* The advance goes on: the url is written and the stream restarted; a      *)
(* prefetched answer for this very url is taken over, else the old one is   *)
(* cleared and a resolver started, each in a section of its own.            *)
PrefetchHitAnyUrl == prefetch.ready  \* mutant
PrefetchHit == prefetch.ready /\ prefetch.src = ctl.target

AdvanceWritten ==
  /\ ctl.pc = "next"
  /\ url' = ctl.target
  /\ Restarted /\ NotStarted
  /\ \/ /\ PrefetchHit
        /\ resolve' = [ready |-> TRUE, failed |-> FALSE, media |-> prefetch.media]
        /\ prefetch' = [prefetch EXCEPT !.ready = FALSE, !.src = NoUrl]
        /\ ctl' = Idle
     \/ /\ ~PrefetchHit
        /\ UNCHANGED <<resolve, prefetch>>
        /\ Goto("clear")
  /\ UNCHANGED <<provider, resolveRunning, resolvers, prefetchRunning, prefetchers,
                 list, download, cmds>>

AdvanceClears ==
  /\ ctl.pc = "clear"
  /\ resolve' = Cleared
  /\ Goto("start")
  /\ UNCHANGED <<track, stream, resolveRunning, resolvers, prefetching, list, download, cmds>>

(* download_wav: the track and its media are captured, the stream stops. *)
DownloadWav ==
  /\ Command
  /\ url # NoUrl /\ ~downloading
  /\ dl' = [src |-> url, media |-> resolve.media]
  /\ downloading' = TRUE
  /\ pipe' = NoPipe /\ paused' = TRUE /\ spawns' = 0
  /\ UNCHANGED <<track, eof, resume, fellBack, resolving, prefetching, list, ctl>>

DownloadEnds ==
  /\ downloading /\ downloading' = FALSE
  /\ UNCHANGED <<track, stream, resolving, prefetching, list, dl, ctl, cmds>>

(* The search thread replaces the result list under search_mutex. *)
ResultsPublished(l) ==
  /\ l # results /\ results' = l
  /\ UNCHANGED <<track, stream, resolving, prefetching, idx, autoAdvance, download, ctl, cmds>>

-----------------------------------------------------------------------------
(* v2_render_block, which the timer thread calls under g_lock. *)

(* The track has ended: advance to the next result, never wrapping. *)
AutoAdvance ==
  /\ ctl.pc = "idle" /\ url # NoUrl /\ eof
  /\ autoAdvance /\ idx + 1 < Len(results)
  /\ Advance(idx + 1)
  /\ eof' = FALSE
  /\ UNCHANGED cmds

NoStream == ctl.pc = "idle" /\ url # NoUrl /\ ~eof /\ ~paused /\ pipe = NoPipe

(* An answer is ready: start_stream_resolved with the media url copied in   *)
(* the section that read the flags.                                         *)
OpenResolved ==
  /\ NoStream /\ resolve.ready
  /\ \/ /\ Spawned(resolve.media, "resolved")
        /\ resume' = NoUrl
        /\ Goto("pick")
     \/ /\ resume' \in {resume, NoUrl}  \* a bad media url fails before the offset is used up
        /\ Goto("failed")
        /\ UNCHANGED <<pipe, spawns>>
  /\ UNCHANGED <<track, eof, paused, fellBack, resolving, prefetching, list, download, cmds>>

OpenResolvedFails ==
  /\ ctl.pc = "failed"
  /\ resolve' = [resolve EXCEPT !.ready = FALSE, !.failed = TRUE]
  /\ Goto("legacy")
  /\ UNCHANGED <<track, stream, resolveRunning, resolvers, prefetching, list, download, cmds>>

(* The resolve failed: on to the legacy pipeline. *)
OpenAfterFailure ==
  /\ NoStream /\ ~resolve.ready /\ resolve.failed
  /\ Goto("legacy")
  /\ UNCHANGED <<track, stream, resolving, prefetching, list, download, cmds>>

(* No answer and no resolver: one is started, or its failure is final. *)
OpenResolves ==
  /\ NoStream /\ ~resolve.ready /\ ~resolve.failed
  /\ \/ ResolverStarts /\ UNCHANGED ctl
     \/ ResolverNotCreated /\ Goto("legacy")
  /\ UNCHANGED <<track, stream, prefetching, list, download, cmds>>

(* start_stream_legacy; its success withdraws the failure. *)
OpenLegacy ==
  /\ ctl.pc = "legacy"
  /\ resume' = NoUrl
  /\ \/ /\ Spawned(url, "legacy")
        /\ eof' = FALSE
        /\ resolve' = [resolve EXCEPT !.failed = FALSE]
     \/ /\ eof' = TRUE
        /\ UNCHANGED <<pipe, spawns, resolve>>
  /\ ctl' = Idle
  /\ UNCHANGED <<track, paused, fellBack, resolveRunning, resolvers, prefetching,
                 list, download, cmds>>

(* start_prefetch_next: first the url of the next result ... *)
PrefetchPicks ==
  /\ ctl.pc = "pick"
  /\ ctl' = IF autoAdvance /\ idx + 1 < Len(results)
            THEN [pc |-> "prefetch", target |-> results[idx + 2]]
            ELSE Idle
  /\ UNCHANGED <<track, stream, resolving, prefetching, list, download, cmds>>

(* ... then, unless that url is or was fetched or a prefetcher runs, a new  *)
(* prefetcher.                                                              *)
PrefetchBusy == prefetch.src = ctl.target \/ prefetchRunning

NewPrefetchKeepsReady(u) == [prefetch EXCEPT !.src = u]  \* mutant
NewPrefetch(u) == [src |-> u, media |-> NoUrl, ready |-> FALSE]

PrefetchStarts ==
  /\ ctl.pc = "prefetch"
  /\ \/ PrefetchBusy /\ UNCHANGED prefetching
     \/ /\ ~PrefetchBusy
        /\ prefetch' = NewPrefetch(ctl.target)
        /\ \/ /\ prefetchRunning' = TRUE
              /\ prefetchers' = prefetchers \cup {[pc |-> "read", url |-> NoUrl]}
           \/ UNCHANGED <<prefetchRunning, prefetchers>>
  /\ ctl' = Idle
  /\ UNCHANGED <<track, stream, resolving, list, download, cmds>>

(* pump_pipe reads end of stream or an error.  The first end of a resolved  *)
(* stream is taken for a failure and goes to the legacy pipeline, from the  *)
(* played position; an offset of at most a second is no offset.             *)
FallsBack == pipe.how = "resolved" /\ ~fellBack /\ SupportsLegacyFallback

PipeEnds ==
  /\ ctl.pc = "idle" /\ url # NoUrl /\ ~eof /\ ~paused /\ pipe # NoPipe
  /\ pipe' = NoPipe
  /\ \/ /\ FallsBack
        /\ resume' \in {url, NoUrl}
        /\ resolve' = [resolve EXCEPT !.ready = FALSE, !.failed = TRUE]
        /\ fellBack' = TRUE
        /\ UNCHANGED eof
     \/ /\ ~FallsBack
        /\ eof' = TRUE
        /\ UNCHANGED <<resume, resolve, fellBack>>
  /\ UNCHANGED <<track, paused, spawns, resolveRunning, resolvers, prefetching,
                 list, download, ctl, cmds>>

-----------------------------------------------------------------------------
(* resolve_thread_main: read the track, ask the daemon, publish the answer  *)
(* if stream_provider and stream_url are still those of the question.       *)
ResolverReads(t) ==
  /\ t.pc = "read"
  /\ \E u \in Readable :
       resolvers' = (resolvers \ {t})
                      \cup {[pc |-> "work", url |-> u, prov |-> Infer(u, provider)]}
  /\ UNCHANGED <<track, stream, resolve, resolveRunning, prefetching, list, download, ctl, cmds>>

StillSameProvider(t, seen) == provider = t.prov /\ t.url # NoUrl  \* mutant
StillAsked(t, seen) == seen = t.url /\ provider = t.prov /\ t.url # NoUrl

Answer(t, seen) ==
  \/ StillAsked(t, seen) /\ resolve' = [ready |-> TRUE, failed |-> FALSE, media |-> t.url]
  \/ StillAsked(t, seen) /\ resolve' = [resolve EXCEPT !.ready = FALSE, !.failed = TRUE]
  \/ ~StillAsked(t, seen) /\ UNCHANGED resolve

ResolverEndsBusy(t) ==  \* mutant: a discarded answer leaves the flag set
  /\ t.pc = "work"
  /\ \E seen \in Readable : /\ Answer(t, seen)
                             /\ resolveRunning' = ~StillAsked(t, seen)
  /\ resolvers' = resolvers \ {t}
  /\ UNCHANGED <<track, stream, prefetching, list, download, ctl, cmds>>

ResolverEnds(t) ==
  /\ t.pc = "work"
  /\ \E seen \in Readable : Answer(t, seen)
  /\ resolveRunning' = FALSE
  /\ resolvers' = resolvers \ {t}
  /\ UNCHANGED <<track, stream, prefetching, list, download, ctl, cmds>>

(* prefetch_thread_main, likewise keyed by prefetch_source_url. *)
PrefetcherReads(t) ==
  /\ t.pc = "read"
  /\ prefetchers' = (prefetchers \ {t}) \cup {[pc |-> "work", url |-> prefetch.src]}
  /\ UNCHANGED <<track, stream, resolving, prefetch, prefetchRunning, list, download, ctl, cmds>>

PrefetcherEnds(t) ==
  /\ t.pc = "work"
  /\ \/ prefetch.src = t.url /\ prefetch' = [prefetch EXCEPT !.media = t.url, !.ready = TRUE]
     \/ UNCHANGED prefetch
  /\ prefetchRunning' = FALSE
  /\ prefetchers' = prefetchers \ {t}
  /\ UNCHANGED <<track, stream, resolving, list, download, ctl, cmds>>

-----------------------------------------------------------------------------
Client ==
  \/ \E u \in Urls : SetUrl(u)
  \/ \E p \in SetProviders : SetProvider(p)
  \/ TogglePause \/ Restart \/ Stop \/ SetAutoAdvance \/ NextTrack \/ DownloadWav
  \/ \E i \in -1..MaxResults : SetIndex(i)

(* What the owner of g_lock still has to do. *)
Handler ==
  \/ UrlWritten \/ StopClears \/ AdvanceWritten \/ AdvanceClears \/ StartResolve
  \/ OpenResolvedFails \/ OpenLegacy \/ PrefetchPicks \/ PrefetchStarts

(* What v2_render_block does on its own account. *)
Render == AutoAdvance \/ OpenResolved \/ OpenAfterFailure \/ OpenResolves

Resolver == \E t \in resolvers : ResolverReads(t) \/ ResolverEnds(t)
Prefetcher == \E t \in prefetchers : PrefetcherReads(t) \/ PrefetcherEnds(t)

Next ==
  \/ Client \/ Handler \/ Render \/ PipeEnds \/ Resolver \/ Prefetcher
  \/ DownloadEnds
  \/ \E l \in ResultLists : ResultsPublished(l)

Spec == Init /\ [][Next]_vars

(* The timer thread renders for ever, a handler finishes, and every daemon  *)
(* request ends within its time limit, so these steps cannot wait for ever. *)
(* Commands, searches and the end of a stream may never come.               *)
Fairness ==
  /\ WF_vars(Handler) /\ WF_vars(Render)
  /\ WF_vars(Resolver) /\ WF_vars(Prefetcher)

FairSpec == Spec /\ Fairness

-----------------------------------------------------------------------------
(* While a handler rewrites the track, its answer may lag behind.  Nothing  *)
(* is started before the handler has caught up.                             *)
CaughtUp == ctl.pc \notin {"load", "next", "clear", "stop"}

(* The answer on which a stream is started belongs to the current track: a  *)
(* resolver that was asked about an earlier track, or that read the url     *)
(* while it was being written, never leaves its answer to a later one.      *)
MediaIsOfTrack == CaughtUp => resolve.media \in {NoUrl, url}

(* The process whose output is played plays the track stream_url names,     *)
(* through every race of commands, late answers, fallbacks and prefetches.  *)
PipePlaysTrack == pipe # NoPipe => pipe.src = url

(* The player as a listener knows it: resolvers, prefetchers, pipelines and *)
(* the sections of a handler do not show.                                   *)
Playing == IF pipe = NoPipe THEN NoUrl ELSE pipe.src

Listener == INSTANCE Player WITH
  Tracks <- Urls, NoTrack <- NoUrl, track <- url, playing <- Playing,
  ended <- eof, moving <- (ctl.pc = "next"), starts <- spawns

(* Every race of commands, late answers, fallbacks and prefetches keeps the *)
(* promise of a Player: v2_set_param and v2_render_block begin only the     *)
(* track stream_url names, never one that is paused, has ended or was left, *)
(* and at most twice for one command.                                       *)
ImplementsPlayer == Listener!Spec

(* A prefetched answer is the answer for the url it is kept under, also     *)
(* when the result list changed while it was being fetched.                 *)
PrefetchIsKeyed == prefetch.ready => prefetch.media = prefetch.src /\ prefetch.src # NoUrl

(* The running flags count the threads: never two resolvers or two          *)
(* prefetchers, and none that the flag does not know of.                    *)
FlagsCountThreads ==
  /\ Cardinality(resolvers) = (IF resolveRunning THEN 1 ELSE 0)
  /\ Cardinality(prefetchers) = (IF prefetchRunning THEN 1 ELSE 0)

(* Once stop has returned nothing plays and nothing is ready to play,       *)
(* whatever a resolver that was still at work answers afterwards.           *)
StoppedIsQuiet ==
  url = NoUrl /\ CaughtUp => pipe = NoPipe /\ resolve = Cleared /\ ~eof /\ ~paused

(* download_wav captures url and media url of one and the same track.       *)
DownloadIsOneTrack == dl.media \in {NoUrl, dl.src}

(* A command or an advance starts at most two processes before the next     *)
(* one: the fallback cannot bounce between the two pipelines.               *)
BoundedRespawn == spawns <= 2

(* An offset saved at a fallback is used for the track it was measured on   *)
(* or not at all, whatever is loaded or stopped between the two.            *)
OffsetIsOfTrack == CaughtUp /\ url # NoUrl => resume \in {NoUrl, url}

(* stream_status is "loading": a track, no stream, not paused, not ended.   *)
Loading == url # NoUrl /\ pipe = NoPipe /\ ~eof /\ ~paused

(* Loading comes to an end: whatever the order of answers and commands, a   *)
(* stream starts or the track is reported as ended.                         *)
LoadingSettles == Loading ~> ~Loading

(* What is left of LoadingSettles: it does as long as the provider in force  *)
(* is the one the resolver infers, across all advances, lone changes of the  *)
(* provider, late answers and fallbacks.                                     *)
Agreed == url # NoUrl /\ Infer(url, provider) = provider
AgreedSettles == Loading /\ Agreed ~> ~Loading \/ ~Agreed
=============================================================================
