# Crate Digger: a verification project

This directory holds TLA+ models of the Crate Digger add-on, the TLC
configurations that check them on small instances, and theorems about them that
TLAPS proves for every value of their constants. Sources are named relative to
the repository; `yt:N` is line N of `src/dsp/yt_stream_plugin.c`, `host:N` of
`src/cratedigger_host.cpp`, `daemon:N` of `src/bin/yt_dlp_daemon.py`.

## 1. The system and its parts

Crate Digger plays tracks found by a Discogs "crate dig". A host process
(`cratedigger_host`) loads an engine (`yt_stream_plugin.c`, a C plugin), gives
it a clock and a control socket, and hands its audio to a shared-memory ring
that another program reads. The engine owns a helper process in Python (the
daemon) that searches and resolves, one ffmpeg process per stream, and several
threads of its own. A web page and the device's shadow page drive the socket.

| part | state it keeps | operations | talks to |
| --- | --- | --- | --- |
| Playback control (yt) | stream url and provider, pipe, resolve answer, prefetch answer, result index, fallback and resume fields | `v2_set_param` commands, `v2_render_block`, resolve thread, prefetch thread | daemon (resolve), ffmpeg or yt-dlp (streams), ring, result list |
| Audio ring (yt) | ring, write and play positions, pending bytes, prime level | `pump_pipe`, `ring_push`, `ring_pop`, `clear_ring`, seek | the stream's pipe, render |
| Asynchronous search (yt) | request in hand, one queued request, status, results, pending filter | `search_query`, `cratedig_filter`, `search_provider`, search thread | daemon (search), Playback control (result list) |
| Daemon line protocol (yt, daemon) | process, two pipes, a stdio buffer | start, stop, warm-up, one question at a time under `daemon_mutex` | the helper process |
| Download (yt) | status, path, cancel flag, ffmpeg process | `download_wav`, `download_cancel`, download thread | file system, ffmpeg |
| Teardown (yt) | handles of all threads | `v2_destroy_instance` | every thread |
| Crate-dig session (daemon) | filter, seen ids, pool sizes | set filter, draw releases | Discogs |
| Providers (daemon) | none | yt-dlp, archive.org, Freesound, SoundCloud | the network |
| Host control server (host) | `g_lock`, filter indices of the shadow page, status message, now-playing file | one connection, one line, one answer: `SET`, `GET`, `DESCRIBE`, intercepted keys | engine (under `g_lock`) |
| Host main thread (host) | `g_run`, the listening socket | start, signal, joins, end | render thread, control server, engine |
| Host render thread and shared ring (host) | head and tail in shared memory | timer loop, `ring_push` | engine (under `g_lock`), capture shim |
| Web server and page | polling state | a proxy to the socket | control server |
| Scripts, plugin header, gain | none worth modelling | | |

How they interact: every engine entry point of the host is called under
`g_lock`, so commands and renders never interleave with each other. The
engine's threads do not take `g_lock`. They meet the entry points in
`resolve_mutex`, `prefetch_mutex` and `search_mutex`, and each other in
`daemon_mutex`; some fields are shared with no lock at all (`stream_url`, the
running flags, `download_status`).

What is hard here:

- *Late answers.* A resolver, a prefetcher or a search answers for a track or a
  query that is not the current one any more. Every answer must be checked
  against the present when it is published.
- *Unlocked reads.* `stream_url` is copied by the resolve thread while a
  command rewrites it.
- *Threads that start threads.* A search thread starts the queued search; the
  flag, the slot and the handle change in sections that are not one.
- *Time limits and retries.* The daemon is killed when it is late, except in
  two places; a retry must not mix attempts, and takes the filter with it.
- *Fallbacks.* A resolved stream that ends is restarted through yt-dlp once;
  a resume offset travels with it.
- *Partial reads and wrap-around.* 16-bit stereo frames arrive in arbitrary
  pieces into a ring that keeps its past for rewinding.
- *Drawing at random.* What a search may draw, has drawn and remembers shrink and
  grow apart; there may be nothing left to draw.
- *Fields read apart.* The host plays a row by reading its fields one by one; a
  search may publish another list between two of them.
- *Ending.* A host that is told to stop waits for threads that wait for clients;
  an engine that is destroyed joins threads that start threads, and one that waits
  for ffmpeg without a limit.
- *No lock at all.* The audio leaves through shared memory, with two positions
  and no mutex, to a reader that may be late, absent or left with an old segment.
- *Cleaning up.* A cancelled or failing download must leave nothing, and must
  never cost an earlier recording, although an ffmpeg may outlive its kill.

What makes each part correct:

- Playback: what is played, prefetched, resumed or downloaded belongs to the
  current track; at most one resolver and one prefetcher; stop is final; a
  track does not stay at "loading" for ever.
- Ring: nothing that was not played is overwritten; every sample in reach is
  the one that was sent at that position; the play position is on a frame;
  seconds to rewind into stay reserved.
- Search: one search at a time; an answer is shown for its own query; a request
  is answered unless another replaces it; results follow the last filter.
- Line protocol: an answer is taken for its own question; a late daemon never
  holds the lock for ever; a daemon that has answered is not declared dead.
- Download: "done" means a file on disk that this download wrote and that holds
  more than a header; nothing else stays, and what was reported is not lost.
- Host: the file that names the track, the highlighted row and the stream stay in
  step but for known causes; the filter sent is the filter picked; the host ends
  with no thread of its own and no download left.
- Shared ring: what comes out is what went in, in order, whole and once.
- Teardown: no thread the engine knows of outlives it.
- Crate-dig session: no release is given again while it is remembered; a search
  calls Discogs no more often than its limits and the tries of a request allow, and
  ends.

## 2. The modules

| module | models | source |
| --- | --- | --- |
| `Playback` | commands, render, resolve and prefetch threads | yt:729-1111, 1718-2044, 2369-2669, 2949-3062 |
| `StreamRing` | the ring and its bytes | yt:669-725, 816-872, 1952-2044, 2949-3080 |
| `SearchEngine` | search thread, queue slot, filter, retry, the teardown under them | yt:1225-1567, 2073-2122, 2577-2606 |
| `DaemonPipe` | the protocol with the helper process | yt:243-439, 1225-1378, 1569-1632, daemon:1005-1054, 1138-1215 |
| `Download` | the download thread and its files | yt:2202-2367, 2608-2668 |
| `CrateDig` | the session that digs for releases | daemon:737-935, 1005-1036 |
| `Host` | control server, render loop, main thread and shutdown, with the search and download threads they meet | host:231-283, 676-1318, yt:2106-2109, 2608-2668 |
| `ShmRing` | the shared-memory ring between host and shim | host:105-180, `src/forceAudioInject.h` |
| `Player` | what a listener is promised of `Playback` | abstract |
| `SearchDesk` | what a client is promised of `SearchEngine` | abstract |
| `DaemonCall` | what the engine may rely on in `DaemonPipe` | abstract |
| `AudioFifo` | what the shared ring promises: a lossy queue | abstract |
| `MC...` | instances of these for TLC | |
| `PlaybackProofs`, `StreamRingProofs`, `SearchEngineProofs`, `DownloadProofs`, `CrateDigProofs`, `HostProofs`, `ShmRingProofs`, `DaemonPipeProofs` | theorems | |

Several definitions in the models are marked "mutant": the same definition with
a bug this code could plausibly have (a dropped check, a flag that is not
reset). They are used by no specification; each property has at least one that
breaks it, which shows that the property says something about the code.

### Playback

State: one variable per field or group of fields under one mutex. `resolve` and
`prefetch` are the two answer slots, `resolvers` and `prefetchers` the threads
themselves, `resolveRunning` and `prefetchRunning` the flags that are to count
them. `ctl` is what the owner of `g_lock` still has to do: a handler is cut at
its mutex sections, and threads may run wherever it stands; `ctl.pc = "idle"`
means `g_lock` is free. `Command` is that guard.

One action per command (`SetUrl`, `SetProvider`, `TogglePause`, `Restart`,
`Stop`, `SetIndex`, `SetAutoAdvance`, `NextTrack`, `DownloadWav`), per later
section of a handler (`UrlWritten`, `AdvanceWritten`, `AdvanceClears`,
`StartResolve`, `StopClears`, `OpenResolvedFails`, `OpenAfterFailure`,
`OpenLegacy`, `PrefetchPicks`, `PrefetchStarts`), per kind of render
(`AutoAdvance`, `OpenResolved`, `OpenResolves`, `PipeEnds`) and per section of a
thread (`ResolverReads`, `ResolverEnds`, `PrefetcherReads`, `PrefetcherEnds`).
While a handler writes `stream_url` the resolve thread may read the old text,
the new one or a mixture, `Torn`. Media urls are abstracted to the url they
resolve: the daemon is taken to answer the question it was asked, which is what
`DaemonPipe` is about (`DaemonCall`, as long as it is trusted). `OpenLegacy` stands
for all yt-dlp pipelines.

`Player` is the same seen by a listener: a track, what sounds, whether it is
paused or has ended, and how often the track was begun since the last command.
Only the present track sounds; from the moment it is left (`Skip`) nothing does
until the next one is there (`Load`); nothing begins that is paused, ended,
stopped or being left; and a track is begun twice at most. The mapping
forgets resolvers, prefetchers, the result list and the sections of the handlers:
what sounds is the source of `pipe`, and a track is being left at `ctl.pc = "next"`.

Left out: debouncing of commands (it only drops some), gain, `restart_countdown`
and `seek_discard_samples` (never set to anything but zero).

### StreamRing

Positions are absolute sample counts, as in the code, and `writePos` is the
index modulo the ring size, with its own update. The ring holds pairs of bytes;
the bytes of a stream are numbered, so that a sample is right when it holds the
two numbers that belong at its position. `PumpReads(n)` is one turn of
`pump_pipe` with a read of n bytes: merging the pending ones, pushing whole
frames and keeping the rest. `RenderPops` is `ring_pop` with priming.

### SearchEngine

`threads` are the search threads that have not exited, each with where it is,
its attempt and what it found; `running` is the flag. Each action is one
`search_mutex` section, or what the thread does to the daemon between two of
them. The daemon is up, down, or dead without anyone having noticed
(`daemon_ready` still true); its filter is in its memory only.

`down` is `v2_destroy_instance`: `Destroy` kills the daemon, `JoinsSearch` joins
the thread whose handle it sees, `Frees` takes `daemon_mutex`, stops the daemon
and frees the instance. A thread that starts the queued search is a `successor`
of the one joined, and is not joined.

`SearchDesk` is the same seen by a client: the query in hand, what is listed, one
query that waits, and whether anything was changed under the search (`intact`).
An answer is listed for the query in hand, or dropped because of such a
change; without one it must be shown. Threads, the daemon, retries, filters and
the teardown are forgotten. `taken` is the query between the two sections in which
a thread takes it from the slot and starts it: another may be queued
meanwhile. A query stands for a request here; what the provider has to do with it
is in `intact`.

`latest` is the request a client waits for, and `stranded` records that one was left
in the slot because the thread for the request before it could not be created. A
provider that is changed on its own while a search runs makes the request nobody's:
`SetProvider` sets `latest` back to nothing, and `LatestRequestSettles` says no more of it.

### DaemonPipe

The mutex holder is `job`, with what it is at. `requests` and `pipe` are the two
pipes, `buffer` the stdio buffer of `daemon_out`, `output` what the process has
still to write. A read (`ReadLine`) needs the *descriptor* to be readable, as
`poll` does, and takes the first line of the *buffer*, as `fgets` does. A read may
fail whenever the descriptor has nothing: that is the time limit. Lines carry the
job and attempt they answer, which the program cannot see and the properties
can. `forgotten` records that an answer was given up on and the process kept.

`DaemonCall` is the same seen by the rest of the engine: the question in hand,
what came of the last one (its own answer, another's, or none), and whether the
process is `trusted`, that is not `forgotten`. Lines, buffers, time limits, exits
and the second attempt do not show, except that a search or a resolve that fails
leaves the process renewed, and the opening of a session does not (`Fails`).

Left out: lines longer than the buffer, and a filter that another command makes
pending during the search (both attempts may or may not find one).

### Download

`files` maps names (a title and a number) to nothing or to a file, of which matters
who may have written to it (`by`) and whether it holds more than the 44 bytes of a
header (`long`). That is all the program looks at (yt:2333-2341): a whole recording and
one that was cut off are the same to it and to the model. The thread is `Probe`,
`Spawn`, `Reaped` or `Killed`, `Check`; ffmpeg opens and ends on its own, well with
whatever it wrote, since the input may end early and the pipe of the fallback
(yt:2291-2300) has the status of its last command, or badly.

`download_kill` signals the group, but kills and waits for the shell alone
(yt:2214-2221). So `Killed` may leave the ffmpeg of this download behind: a stray, in
`strays` with the name it was given. One that has its file open writes on into a
file without a name once that is removed, and does not show; one that has not may
create the file later (`StrayOpens`), also when a later download has that name by
then. `late` records those that did, `done` the downloads reported done; the
properties except the files a stray got to (`Spoiled`), and no others.

### CrateDig

The session is sequential: one request of the engine at a time. `at` is where it
is, from the first request to Discogs (`Probe`) over the random page that is
looked at first (`Second`) to the loop (`dig`), whose body is cut into drawing a
page (`DrawPage`; `DrawSeenPage` when the page was seen), and trying one entry
(`SkipEntry`, `NoVideo`, `Give`). `seen`, `lookups` and `exclude` are the
variables of the code. Discogs is a function from filters to pages; any request
to it may fail, a page may come back empty. `given` is history: what was given
under the present filter, in order, which the session remembers only in part.

Left out: titles (a result without one is dropped from the answer) and the rest
of what is shown of a result. `Request` counts every call to Discogs: `_request` tries
up to three times when Discogs answers 429 or cannot be reached (daemon:760-773).

### Host

`ctl` is the control server: where it is, and what it has read of the row it is
about to play. `CtlChecks`, `Accept` and `AcceptFails` are its loop; a connection
brings one line, and each line that changes something is an action (`PlayResult`,
`PlayPauseStep` with its retries `NapEnds`, `Stop` and `Stops`, `SetStreamUrl`,
`NextTrackStep`, `SetResultIndex`, `SetAutoAdvance`, `SetFilterIndex`, `SearchGo`).
`handle_play_result_index_locked` holds `g_lock` from reading the url of a row
to playing it; the search thread does not take `g_lock`, so it is cut into
`ReadsRow`, `ReadsTitle` and `Plays`, and the search may `Publish` or hide a list
in between. `LockFree` keeps the render thread out meanwhile. `main` goes
through the joins of the end one by one. A client may start a download
(`DownloadWav`) and cancel it; `download` is its thread, which the destruction of the
engine waits for and does not cancel (`Destroys`, yt:2107).

`chosen` are the five filter indices of the page; `Sent` is what a search is
started with, read from tables of different lengths. A track stands for its url
and its title; `drift` is history and records what moved without the other:
the file without the stream (`name`), the row without the stream (`row`), the
list since a row was read (`list`).

Left out: the provider and channel of a row (read as its url and title are), the
labels and JSON of the answers, `mix.*`, the tempo, the time a status message
is shown, the skipback trigger. The engine is reduced to its result list, its
stream and its index: the other modules are about the rest.

### ShmRing and AudioFifo

Every frame is copied in a step of its own, and `head` and `tail` are loaded and
stored in steps of their own. A frame is the number of its rendering. `head` and
`tail` are kept modulo the ring size, which is what the mask of the code
computes, since the size (2^16) divides the range of `uint32_t`. The shim is
not in the repository; it is modelled from the layout in `forceAudioInject.h`
and marked external. `Restart` may come at any point: `shm_setup` unlinks the
old segment first, so that a shim in the middle of a copy is left with it.

`AudioFifo` is the abstract queue: a block is accepted as far as there is room
when it is offered (`Accept`), becomes visible at once (`Publish`), and is taken
from the front (`Take`). `ShmRing` implements it with the queue being the slots
from `tail` to `head` and the batch what a push has accepted and not published.

## 3. What the runs check

| run | instance | result |
| --- | --- | --- |
| `playback_safety` | three tracks of youtube, soundcloud and no provider; four result lists; four commands; 694,564 states | passes: answers, prefetches, downloads and offsets are always of their own track; flags count threads; stop is final; it implements `Player`; `AgreedSettles`: a track does not stay at "loading" while the provider in force is the one its url infers |
| `playback_provider` | two soundcloud tracks | **violated**: the player resolves for ever |
| `search_safety` | two filters, two providers, one of them settable on its own, two queries, four requests, two daemon losses, failing threads, teardown at any moment; 615,200 states | passes: one search at a time; no answer shown for another request; no filter older than the last one; a request is answered unless it is replaced or stranded; no known thread outlives the engine; it implements `SearchDesk` |
| `search_retry` | one request, one loss | **violated**: a retry searches without the filter |
| `ring_safety` | six frames, two streams, 44 bytes, full, short and odd reads, seeks both ways; 381,239 states | passes: nothing unplayed is overwritten, the play position is on a frame inside the ring, every sample in reach is the one sent there, and what is reserved for rewinding stays |
| `pipe_safety` | answers of two items, three jobs, one exit; 316,491 states | passes: what is taken for an answer is the answer, and the pipe is quiet between two jobs, unless the process was forgotten an answer of; the lock is always let go of; it implements `DaemonCall` |
| `pipe_buffered` | the same | **violated**: a search whose whole answer has arrived waits until it times out |
| `download_safety` | two titles, three names each, four downloads, any of them a stray; 133,294 states | passes: what is reported done is on disk and of that download; nothing else stays; what was reported is kept while the numbers last; all but for files a stray opens; a cancel ends the download |
| `cratedig_safety` | filters with three, one and no pages, three searches for one or two results, two page fetches, three tries, memory of two; 238,594 states | passes: no release is given again too early, a search keeps to its calls, and ends unless it has seen all of a small pool |
| `cratedig_narrow` | the same | **violated**: a search of a small pool does not end |
| `host_safety` | two lists that share a track, one track without a title, filter tables of two lengths, row numbers from -1 to 2, four connections, a download at any time; 339,661 states | passes: file, row and stream in step but for the known causes; the filter sent is the one picked; the host ends, its threads and a download before it, unless a client is silent or a download lasts for ever |
| `shm_ring` | four slots, blocks of one and three frames, nine frames, one restart; 57,592 states | passes: the ring implements `AudioFifo` |

### Bounds, and why they are enough

*Playback.* The races are between one command, one late answer and one earlier
track. Four commands let a track be loaded, advanced, replaced and stopped with
a thread in flight throughout; three tracks tell "previous", "current" and
"next" apart; `MaxResults = 2` has an index at its end and below it. The proofs
remove the bounds for the safety properties.

*StreamRing.* The ring of six frames wraps several times in 44 bytes; the limit
leaves two frames to rewind, a block is one frame and a read two. The proofs
hold for every ring.

*SearchEngine.* Four requests: one running, one queued, one that overwrites it,
one more for the window in which the thread has let go of the slot but not
started it. Two losses use up both attempts of a search. The teardown comes once,
and anywhere.

*DaemonPipe.* Three jobs: one that is given up on, and two that follow. Answers
of up to two items tell a whole answer in order from a mixture.

*Download.* More downloads than names of a title, so that the numbers run out, and
a stray may meet one or two later downloads of its name. Five downloads pass as well
(1,683,480 states), in a longer run. The proofs remove the bounds.

*CrateDig.* One filter has more pages than a search fetches and a release on two
of them, one has fewer, one has none; four releases against a memory of two make
releases come again.

*Host.* Four connections let a list be searched for, a row be read while the list
is replaced, played, and moved away from. Two lists that share a track in
different rows tell "same row" from "same track"; `-1` and `2` are outside every
list and table; the tables `<<1, 2, 2>>` have a genre without styles and two whose
indices mean different names. `Retries` is 2 (the code has 5): one that succeeds
after failing, and giving up. The proofs remove these bounds.

*ShmRing.* Nine frames go round the four slots more than twice; blocks of three
and of one fit, fit in part and do not fit.

### Fairness

`Playback`: weak fairness of the handlers, of rendering, and of the two threads.
The timer thread renders for ever (host:250), a handler never waits, and every
daemon request has a time limit. Clients, searches and the end of a stream are
under no obligation. `SearchEngine`: weak fairness of search threads, for the
same time limits. `DaemonPipe`: weak fairness of the mutex holder, whose reads are
all limited; nothing is assumed of the helper process, which may be silent for
ever. `Download`: weak fairness of the thread, which wakes every 200 ms; nothing
is assumed of ffmpeg, nor of a stray. `CrateDig`: weak fairness of the session; that an unseen
page is drawn at last is what a uniform draw does with probability one. `Host`:
weak fairness of the control server where it does not wait for a client, of the
render thread and of the main thread, which only sleep for fixed times, and of the
end of a download that was cancelled, which `CancelEnds` of `Download` shows; none of
clients, signals, the search thread or a download that goes on. `g_lock` is held for a bounded number of
steps.

`LatestRequestSettles` has two exceptions, both listed as hazards. A request queued
while a thread could not be created stays in the slot until the next search:
`stranded`. And a lone `search_provider` makes the running search discard its results
with the status left at "searching" (neither page sends it: README.md, "neither GUI
exposes a provider picker"): no request is the `latest` one then. `CHECK_DEADLOCK` is off
where the system may really stop: no more commands come, the process has
exited, or the instance is freed.

## 4. Where the code and its text disagree

1. *Resolving for ever* (`playback_provider`). Advancing sets the provider to
   "youtube" (yt:2542, 2983) while the resolve thread accepts its answer only if
   the provider it inferred from the url is still the one in force (yt:1753).
   For a soundcloud url they never agree, and render starts the next resolver.
   Crate-dig results are youtube links, so the add-on's own pages do not get here.
2. *The retry loses the filter* (`search_retry`). The pending filter is cleared
   before the daemon has it (yt:1269), and the second attempt talks to a new
   process that knows no filter.
3. *Timed out with the answer in hand* (`pipe_buffered`). `poll` looks at the
   descriptor while the lines are already in the stdio buffer (yt:287-291).
   `cratedig_search` writes its lines in one burst (daemon:1034-1054), so that this
   needs no more than a reader that is a little slower than the writer; the price
   is 12 s, a killed daemon and, after the second attempt, a failed search.
4. *Digging for ever* (`cratedig_narrow`). A filter that Discogs answers with one
   or two pages, and not enough releases with a video on them, leaves
   `get_random_releases` drawing pages it has seen (daemon:858-862); the limits at
   daemon:849-850 do not end the loop. Run with one page of eight releases and no
   videos, the method makes eight requests and then spins. The engine waits 12 s,
   kills the process, and by 2 searches again without the filter.

Not a disagreement, but worth knowing: "Avoid overwriting" (yt:2239) holds for 99
recordings of one title; then the last one is overwritten, or removed by a cancel
or a failure. `KeepsWhileNamesLast` says that this is the only way.

Five more, covered by properties that pass because they name the case:

- *Pending bytes.* `download_wav` stops the stream without clearing the bytes of a
  frame that is half read (yt:2641); the next stream is put behind them and its
  samples are shifted. `PlaysWhatWasSent` speaks of the samples up to there.
- *The file lags.* The now-playing file is written by `play_result` only
  (host:765-769). When the engine advances by itself, is given a url, or plays a
  row without a title, the file goes on naming the earlier track. `InStep` says
  that there are no other ways, save a title read from a list published meanwhile.
- *Status and list.* A row is played after a wait that is explained by the status
  being "done" before the results are there (host:909-913). They are set in one
  section of `search_mutex`, and `DoneShowsQuery` shows that it cannot be seen; what
  can is that a queued search starts, and hides a list that was there.
- *A silent client.* A client that connects and sends nothing keeps the only
  server, and the end of the host waits for it. `ShutdownEnds` names this case and
  the next one, and shows that the threads of the model have no other.
- *An endless download.* `v2_destroy_instance` joins the download thread and does not
  set `download_cancel` (yt:2107), and ffmpeg has no time limit: a host that is told
  to stop during a download waits for all of it, for ever if it does not end.

Three more are weaknesses the properties leave room for, by name:

- *Done, and cut off.* "done" is said of any file above 44 bytes (yt:2339). When yt-dlp
  fails in the middle of the fallback's pipe, ffmpeg may end well with what it had.
- *A stray.* An ffmpeg that outlives `download_kill` may create its file after it was
  removed, and even write into that of a later download (yt:2214-2221, 2362). It takes
  a cancel between the start of the shell and the opening of the output.
- *Three tries.* A search may make 25 requests; Discogs grants 25 calls in a minute
  without a token (README.md:252). When it answers 429, or cannot be reached, every
  request is tried three times: 75 calls (`RequestBudget`).

A further consequence is covered by a property that passes: the answers to
`CRATEDIG_INIT` and `CRATEDIG_FILTER` are given up on without stopping the daemon
(yt:425, 1273). `OwnAnswer` says that answers and questions can come apart *only*
behind such a lapse; behind one, resolves may get the address of the source
asked before. `DaemonCall` has this as the only way out of `trusted` (`Lapses`, and
`Fails` at "init"); `Playback` and `SearchEngine` take the daemon for a `DaemonCall`
that is trusted.

## 5. What is proved

All proofs are checked by TLAPS with Z3, Zenon and LS4. Nothing is assumed but
the `ASSUME`s of the modules, which TLC evaluates on every run.

### StreamRing (`StreamRingProofs`)

For every ring size, limit, read size, block and seek distance (assumed: the
limit is at most the ring, and sizes and distances are whole frames):
`TypeOK`, `StaysInRing` (nothing is dropped, and the play position is inside the
ring and on a frame), `PlaysWhatWasSent`, and the action property `RewindReserved`.

`PlaysWhatWasSent` is not inductive: it speaks of the samples in reach only. The
invariant adds where the write position stands in the ring (`writePos` is
`writeAbs` modulo the size, though the two are updated apart), that bytes sent
are twice the samples written plus the pending ones and that the pending bytes
are the last ones sent, as long as no stream was put behind another. A push is
split into what it writes, what it leaves alone (distinct residues, by
the lemmas on remainders at the head of the module) and how the positions move.

### Playback (`PlaybackProofs`)

For every set of tracks, providers and result lists and any number of commands:
`TypeOK`, `MediaIsOfTrack`, `PipePlaysTrack`, `PrefetchIsKeyed`,
`FlagsCountThreads`, `StoppedIsQuiet`, `DownloadIsOneTrack`, `BoundedRespawn`,
`OffsetIsOfTrack`, and that `Playback` implements `Player` (`IsAPlayer`). No run checks
`PipePlaysTrack` and `BoundedRespawn` any more: `ImplementsPlayer` contains both.

The inductive invariant `IInv` has ten parts. `HandlerInv` says what a handler has
already done at each of its cuts. `AnswerInv` strengthens `MediaIsOfTrack`: an
answer that is *ready* is the current track's and the track is a real one. It is
preserved by a late resolver because the publishing section compares the url it
read with the present one, and a torn url is never equal to a track.
`PrefetchInv` strengthens `PrefetchIsKeyed` by what is true while the prefetcher
works: its slot is not reused. `ThreadsInv` gives the flags' meaning as sets, from
which the cardinalities follow. `SpawnInv` strengthens `BoundedRespawn`: it says how
many processes may have been started from whether one runs and whether the
fallback was used. The step lemmas take one part each, with one case per action
that touches it.

The refinement of `Player` is one lemma per action that shows. `UrlWritten`,
`Restart` and `AdvanceWritten` are a `Load`, `NextTrack` and `AutoAdvance` a `Skip`,
`PipeEnds` a `Cease`; whatever resolvers, prefetchers and searches do is a stutter.
Its content is in the guards of the abstract steps. A render that opens a
stream in a later section (`OpenLegacy`) is a `Begin` or `GiveUp` only if nothing was
paused or replaced since, which `HandlerInv` says; a `Begin` is the first or second
one, and a `Cease` is the track's end if it was the second, by `SpawnInv`; and the
stream that is opened is the present track's, by `AnswerInv`.

### Download (`DownloadProofs`)

For every set of titles, last number and any number of downloads: `TypeOK`,
`DoneIsOnDisk`, `NothingLeftBehind` and the action property `KeepsWhileNamesLast`.

The invariant adds to these where thread and process stand to one another
(`ThreadInv`), that no download is both reported and a stray, and the one that
runs is neither (`PastInv`), that under the chosen name there is no file but this
download's or one a stray got to, or it is the last of a title whose names are all
taken, also while ffmpeg writes there (`NameInv`), and that every other file was
reported or is `Spoiled` (`FilesInv`). A stray that opens a file spoils it and leaves
the others alone (`StraySpoils`), so that it breaks no part. `KeepsWhileNamesLast`
follows because any other step that touches a file touches the one under the chosen
name (`TouchesItsOwn`).

### CrateDig (`CrateDigProofs`)

For every catalogue, all limits and any number of searches: `TypeOK`,
`NotGivenAgain` and `RequestBudget`.

`NotGivenAgain` needs that what is remembered is the end of what was given, and
as long as there is room for (`MemoryInv`): an equal release at a distance the
memory spans would be in the memory, and was skipped. `BudgetInv` accounts for
every request as one of the first two, a page or a lookup, each with all its tries;
products of two constants are compared by `TriesBound` and `LookupsBound`.

### SearchEngine (`SearchEngineProofs`)

For every set of queries, filters and providers, any number of requests and of
losses: `TypeOK`, `FlagCountsThreads`, `FreedIsQuiet`, `DoneShowsQuery`,
`NeverStaleFilter`, and that `SearchEngine` implements `SearchDesk` (`IsADesk`).

`ThreadsInv` says that there is at most one thread (`OneThread`) and what the flag
tells of it, the teardown included (`FlagInv`). `DoneShowsQuery` is not inductive:
`AnswerInv` adds that what a thread has found is for its own query (`FoundInv`),
that nothing is shown as done before the thread has published (`BusyInv`), and,
for `NeverStaleFilter`, that a living daemon holds the last filter or none, unless
a later one waits to be sent (`SentInv`).

For the refinement the three are used together. With one thread `taken` and `intact`
are what that thread shows (`OneShows`); with the flag telling of it a request
that finds `running` is one that finds `working` (`StartAsks`); a thread that is on its
way to the daemon and back does not show (`GoesOnUnseen`); and the section that ends a
search lists the query in hand because what was found is for the thread's own
query, and a failed thread found nothing (`PassInv`).

### DaemonPipe (`DaemonPipeProofs`)

For answers of any length, any number of jobs and exits of the process at any
moment: `TypeOK`, `OwnAnswer`, `QuietBetweenJobs`, and that `DaemonPipe` implements
`DaemonCall` (`IsACall`).

The lines that are still to be read lie in three places: what the process has to
write, the pipe, the stdio buffer. Where they lie decides when a read can be made, not
what it gives, so the proofs speak of one sequence, `Flow`: a line written or
fetched leaves it as it is (`WritesFlow`), a read takes its first line (`ReadsFlow`), an
exit cuts it off at some place (`ExitsFlow`).

`OwnAnswer` speaks of an answer when it is complete; the search takes it line by line.
`PipeInv` therefore says for each place the holder may stand at what is under way, as
long as nothing was forgotten: nothing (`RestInv`); the question itself, or one line
that answers it, or no line any more (`ToldInv`, `ResolveInv`); and in the loop of
a search (`SearchInv`) the flow continues some answer to this attempt behind its
k-th line (`Continues`) while the items collected are the first k - 1. It continues,
and need not be complete: the process may have exited, and then the read fails.
`QuietBetweenJobs` is the part of `RestInv` at "free". Every way out of a job
either has read the last line, or stops the process, or sets `forgotten`; about a
process with `forgotten` nothing is claimed until it is replaced.

In the refinement reads and writes are stutters, a start of the process, and its end
before a second attempt, is `Renews`, and an end of a job is `Answers`, `Strays` or `Fails` by what it reports.
`Strays` needs `~trusted`: that is `OwnAnswer`.

### Host (`HostProofs`)

For every set of tracks and lists, all tables, any number of connections and
retries: `TypeOK`, `InStep`, `FilterAsPicked` and `CleanExit`.

`FilterAsPicked` needs that an index that is not "any" was picked under the
present genre or region (`FilterInv`): a change of either sets the index back.
`CleanExit` needs the order of the joins (`ExitInv`): behind each one the thread
is gone and does not come back; only the server could start a download. `InStep` speaks of the moments when `g_lock` is
free; in between, `ReadInv` says what has been read of a row is still in the list
unless `drift` has "list", and `StopInv` that a stream is stopped with its file
already removed.

### ShmRing (`ShmRingProofs`)

For every ring size, all block sizes and any number of frames and restarts:
`TypeOK`, and that `ShmRing` implements `AudioFifo` (`RingIsFifo`).

The inductive invariant says that a push writes only slots the reader does not
look at (those that were free when it began stay free, since only the reader
moves `tail`), that the slots written hold the frames accepted, and that
what the reader has copied is still the front of the queue. Then every step is
a step of the queue or a stutter: `PushBegin` accepts, `PushEnd` publishes,
`TakeEnd` takes, `Restart` empties, and copying changes nothing the queue shows.
The arithmetic of residues is in a few lemmas (`DistinctSlots`, `BehindUsed`,
`HeadMoves`, `TailMoves`).

### Only model-checked

Liveness (`AgreedSettles`, `LatestRequestSettles`, `MutexLetGo`, `CancelEnds`,
`EndsOrHasSeenAll`, `ShutdownEnds`): TLAPS does not do ENABLED or fairness here.
Every safety property that a run checks is also a theorem.

## 6. What is not modelled, and why

- *Providers of the daemon, the web server and page, scripts and packaging* are I/O
  and parsing: what reaches the engine is success or failure, and that is in the
  models. That the web server gives up on a request after a second while the host
  still executes it makes a client repeat a command, which every module admits. *The
  legacy one-shot commands* are defined in the engine and never called.
- *The other joins of `v2_destroy_instance`.* The resolve, prefetch and warm-up
  threads start no successor, and what they wait for is a request to the daemon,
  which has a time limit (`MutexLetGo`), so that joining them ends.
- *What is in a recording.* Whether a file above 44 bytes is whole is not told apart
  by the program, nor by `Download`.
- *A shell that is killed from outside* while its ffmpeg goes on: a failed download
  is taken to have ended with its processes; a cancelled one is not.
- *The tail of a track.* At the end of the stream `v2_render_block` returns before
  `ring_pop` although audio is buffered. `Playback` abstracts the audio and
  `StreamRing` states what is played, not how much.
- *Of the host:* labels and answers, `mix.*`, tempo, the life of a status message,
  the skipback trigger (a marker file), the conversion to float.
- *Gain* is a clamped number. *The plugin header* is types.

## 7. Plan

Done: all modules of section 2 with their runs; every safety property and all
four refinements (`AudioFifo`, `Player`, `SearchDesk`, `DaemonCall`) proved. Left, in
order:

1. An abstract shelf of recordings that `Download` implements, with its three
   safety properties as consequences; an abstract memory of what was given for
   `CrateDig`.
2. The joins of the resolve, prefetch and warm-up threads in the teardown.
3. The web page's polling against the status and the list, as far as what a
   viewer sees can be stated.
