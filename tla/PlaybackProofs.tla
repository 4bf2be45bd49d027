--------------------------- MODULE PlaybackProofs ---------------------------
(***************************************************************************)
(* The safety of Playback, for every set of tracks and providers, every    *)
(* result list and any number of commands.                                 *)
(***************************************************************************)
EXTENDS Playback, FiniteSetTheorems, TLAPS

(* The inductive invariant, part by part.  What a handler has still to do   *)
(* says what it has done already.                                           *)
HandlerInv ==
  /\ ctl.pc \in {"load", "next", "prefetch"} => ctl.target \in Urls
  /\ ctl.pc \in {"clear", "start", "failed", "legacy"} => url \in Urls
  /\ ctl.pc \in {"failed", "legacy"} => pipe = NoPipe /\ ~eof /\ ~paused
  /\ ctl.pc = "stop" => url = NoUrl /\ pipe = NoPipe /\ ~eof /\ ~paused

(* An answer that a stream may be started on is the current track's. *)
AnswerInv ==
  CaughtUp => /\ resolve.media \in {NoUrl, url}
              /\ resolve.ready => resolve.media = url /\ url \in Urls

(* A prefetched answer belongs to its url, and the slot of a prefetcher at  *)
(* work is not reused.                                                      *)
PrefetchInv ==
  /\ prefetch.ready => prefetch.media = prefetch.src /\ prefetchers = {}
  /\ prefetch.ready \/ prefetchers # {} => prefetch.src \in Urls
  /\ \A t \in prefetchers : t.pc = "work" => t.url \in Urls

OneIf(running, threads) ==
  IF running THEN \E t \in threads : threads = {t} ELSE threads = {}

ThreadsInv == OneIf(resolveRunning, resolvers) /\ OneIf(prefetchRunning, prefetchers)

OffsetInv ==
  ctl.pc \notin {"load", "next"} /\ url # NoUrl => resume \in {NoUrl, url}

(* How many processes may have been started says whether one more may be.   *)
SpawnInv ==
  /\ spawns <= 2
  /\ pipe # NoPipe => fellBack \/ spawns <= 1
  /\ pipe = NoPipe /\ ~eof /\ ctl.pc # "next" => spawns <= 1 /\ (fellBack \/ spawns = 0)

IInv ==
  /\ TypeOK /\ HandlerInv /\ AnswerInv /\ PipePlaysTrack /\ PrefetchInv /\ ThreadsInv
  /\ StoppedIsQuiet /\ DownloadIsOneTrack /\ OffsetInv /\ SpawnInv

(* The tuples of fields are opened everywhere. *)
USE DEF track, stream, resolving, prefetching, list, download, Goto, Command

(* Type correctness, one lemma per group of fields: the track,              *)
LEMMA TrackTypes ==
  ASSUME IInv, [Next]_vars
  PROVE  url' \in Urls \cup {NoUrl} /\ provider' \in Providers
<1>1. CASE UNCHANGED <<url, provider>>
  BY <1>1 DEF IInv, TypeOK
<1>2. CASE UrlWritten
  BY <1>2, ProviderAssumption DEF UrlWritten, IInv, TypeOK, Infer
<1>3. CASE AdvanceWritten
  BY <1>3 DEF AdvanceWritten, IInv, TypeOK
<1>4. ASSUME NEW p \in SetProviders, SetProvider(p) PROVE url' \in Urls \cup {NoUrl} /\ provider' \in Providers
  BY <1>4, ProviderAssumption DEF SetProvider, IInv, TypeOK
<1>5. CASE Stop
  BY <1>5 DEF Stop, IInv, TypeOK
<1>6. CASE NextTrack
  BY <1>6, ProviderAssumption DEF NextTrack, Advance, IInv, TypeOK
<1>7. CASE AutoAdvance
  BY <1>7, ProviderAssumption DEF AutoAdvance, Advance, IInv, TypeOK
<1>8. QED
  BY <1>1, <1>2, <1>3, <1>4, <1>5, <1>6, <1>7
     DEF Next, Client, Handler, Render, Resolver, Prefetcher, vars, SetUrl,
         TogglePause, Restart, SetAutoAdvance, DownloadWav, SetIndex,
         StopClears, AdvanceClears, StartResolve, OpenResolvedFails,
         OpenLegacy, PrefetchPicks, PrefetchStarts, OpenResolved,
         OpenAfterFailure, OpenResolves, PipeEnds, ResolverReads, ResolverEnds,
         PrefetcherReads, PrefetcherEnds, DownloadEnds, ResultsPublished

(* the stream process (a resolved stream is started on a real url),         *)
LEMMA PipeTypes ==
  ASSUME IInv, [Next]_vars
  PROVE  pipe' \in Pipe \cup {NoPipe} /\ spawns' \in Nat
<1>1. CASE UNCHANGED <<pipe, spawns>>
  BY <1>1 DEF IInv, TypeOK
<1>2. CASE UrlWritten
  BY <1>2 DEF UrlWritten, NotStarted, LegacyFromCommand, IInv, HandlerInv, Pipe
<1>3. CASE AdvanceWritten
  BY <1>3 DEF AdvanceWritten, NotStarted
<1>4. CASE OpenLegacy
  BY <1>4 DEF OpenLegacy, Spawned, IInv, TypeOK, HandlerInv, Pipe
<1>5. CASE AutoAdvance
  BY <1>5 DEF AutoAdvance, Advance, IInv, TypeOK
<1>6. CASE OpenResolved
  BY <1>6
     DEF OpenResolved, NoStream, Spawned, IInv, TypeOK, Pipe, AnswerInv,
         CaughtUp
<1>7. CASE PipeEnds
  BY <1>7 DEF PipeEnds, IInv, TypeOK
<1>8. CASE Restart
  BY <1>8 DEF Restart, NotStarted, LegacyFromCommand, IInv, TypeOK, Pipe
<1>9. CASE Stop
  BY <1>9 DEF Stop, NotStarted
<1>10. CASE NextTrack
  BY <1>10 DEF NextTrack, Advance, IInv, TypeOK
<1>11. CASE DownloadWav
  BY <1>11 DEF DownloadWav
<1>12. QED
  BY <1>1, <1>2, <1>3, <1>4, <1>5, <1>6, <1>7, <1>8, <1>9, <1>10, <1>11
     DEF Next, Client, Handler, Render, Resolver, Prefetcher, vars, SetUrl,
         SetProvider, TogglePause, SetAutoAdvance, SetIndex, StopClears,
         AdvanceClears, StartResolve, OpenResolvedFails, PrefetchPicks,
         PrefetchStarts, OpenAfterFailure, OpenResolves, ResolverReads,
         ResolverEnds, PrefetcherReads, PrefetcherEnds, DownloadEnds,
         ResultsPublished

(* the flags of playback,                                                   *)
LEMMA FlagTypes ==
  ASSUME IInv, [Next]_vars
  PROVE  eof' \in BOOLEAN /\ paused' \in BOOLEAN /\ fellBack' \in BOOLEAN
<1>1. CASE UNCHANGED <<eof, paused, fellBack>>
  BY <1>1 DEF IInv, TypeOK
<1>2. CASE UrlWritten
  BY <1>2 DEF UrlWritten, Restarted, NotStarted, LegacyFromCommand
<1>3. CASE AdvanceWritten
  BY <1>3 DEF AdvanceWritten, Restarted, NotStarted
<1>4. CASE OpenLegacy
  BY <1>4 DEF OpenLegacy, IInv, TypeOK
<1>5. CASE AutoAdvance
  BY <1>5 DEF AutoAdvance, Advance, IInv, TypeOK
<1>6. CASE PipeEnds
  BY <1>6 DEF PipeEnds, IInv, TypeOK
<1>7. CASE TogglePause
  BY <1>7 DEF TogglePause, IInv, TypeOK
<1>8. CASE Restart
  BY <1>8 DEF Restart, Restarted, NotStarted, LegacyFromCommand
<1>9. CASE Stop
  BY <1>9 DEF Stop, NotStarted
<1>10. CASE DownloadWav
  BY <1>10 DEF DownloadWav, IInv, TypeOK
<1>11. QED
  BY <1>1, <1>2, <1>3, <1>4, <1>5, <1>6, <1>7, <1>8, <1>9, <1>10
     DEF Next, Client, Handler, Render, Resolver, Prefetcher, vars, SetUrl,
         SetProvider, SetAutoAdvance, NextTrack, Advance, SetIndex, StopClears,
         AdvanceClears, StartResolve, OpenResolvedFails, PrefetchPicks,
         PrefetchStarts, OpenResolved, OpenAfterFailure, OpenResolves,
         ResolverReads, ResolverEnds, PrefetcherReads, PrefetcherEnds,
         DownloadEnds, ResultsPublished

(* the resume offset,                                                       *)
LEMMA ResumeType ==
  ASSUME IInv, [Next]_vars
  PROVE  resume' \in Urls \cup {NoUrl}
<1>1. CASE UNCHANGED <<resume>>
  BY <1>1 DEF IInv, TypeOK
<1>2. CASE UrlWritten
  BY <1>2 DEF UrlWritten, Restarted
<1>3. CASE AdvanceWritten
  BY <1>3 DEF AdvanceWritten, Restarted
<1>4. CASE OpenLegacy
  BY <1>4 DEF OpenLegacy
<1>5. CASE OpenResolved
  BY <1>5 DEF OpenResolved, IInv, TypeOK
<1>6. CASE PipeEnds
  BY <1>6 DEF PipeEnds, IInv, TypeOK
<1>7. CASE Restart
  BY <1>7 DEF Restart, Restarted
<1>8. QED
  BY <1>1, <1>2, <1>3, <1>4, <1>5, <1>6, <1>7
     DEF Next, Client, Handler, Render, Resolver, Prefetcher, vars, SetUrl,
         SetProvider, TogglePause, Stop, SetAutoAdvance, NextTrack, Advance,
         DownloadWav, SetIndex, StopClears, AdvanceClears, StartResolve,
         OpenResolvedFails, PrefetchPicks, PrefetchStarts, AutoAdvance,
         OpenAfterFailure, OpenResolves, ResolverReads, ResolverEnds,
         PrefetcherReads, PrefetcherEnds, DownloadEnds, ResultsPublished

(* the resolve answer,                                                      *)
LEMMA ResolveType ==
  ASSUME IInv, [Next]_vars
  PROVE  resolve' \in [ready : BOOLEAN, failed : BOOLEAN, media : Urls \cup {NoUrl, Torn}]
<1>1. CASE UNCHANGED <<resolve>>
  BY <1>1 DEF IInv, TypeOK
<1>2. CASE UrlWritten
  BY <1>2 DEF UrlWritten, Cleared
<1>3. CASE StopClears
  BY <1>3 DEF StopClears, Cleared
<1>4. CASE AdvanceWritten
  <2>1. CASE UNCHANGED resolve BY <2>1 DEF IInv, TypeOK
  <2>2. CASE resolve' = [ready |-> TRUE, failed |-> FALSE, media |-> prefetch.media]
    <3>1. prefetch.media \in Urls \cup {NoUrl} BY DEF IInv, TypeOK
    <3> QED BY <2>2, <3>1
  <2> QED BY <1>4, <2>1, <2>2 DEF AdvanceWritten
<1>5. CASE AdvanceClears
  BY <1>5 DEF AdvanceClears, Cleared
<1>6. CASE StartResolve
  <2>1. CASE ResolverStarts
    BY <1>6, <2>1 DEF StartResolve, ResolverStarts, Cleared
  <2>2. CASE ResolverNotCreated
    BY <1>6, <2>2 DEF StartResolve, ResolverNotCreated, Cleared
  <2>3. CASE resolveRunning /\ UNCHANGED resolving
    BY <1>6, <2>3 DEF StartResolve, IInv, TypeOK
  <2> QED BY <1>6, <2>1, <2>2, <2>3 DEF StartResolve
<1>7. CASE OpenResolvedFails
  BY <1>7 DEF OpenResolvedFails, IInv, TypeOK
<1>8. CASE OpenLegacy
  BY <1>8 DEF OpenLegacy, IInv, TypeOK
<1>9. CASE OpenResolves
  <2>1. CASE ResolverStarts /\ UNCHANGED ctl
    BY <1>9, <2>1 DEF OpenResolves, ResolverStarts, Cleared
  <2>2. CASE ResolverNotCreated /\ Goto("legacy")
    BY <1>9, <2>2 DEF OpenResolves, ResolverNotCreated, Cleared
  <2> QED BY <1>9, <2>1, <2>2 DEF OpenResolves
<1>10. CASE PipeEnds
  BY <1>10 DEF PipeEnds, IInv, TypeOK
<1>11. ASSUME NEW t \in resolvers, ResolverEnds(t) PROVE resolve' \in [ready : BOOLEAN, failed : BOOLEAN, media : Urls \cup {NoUrl, Torn}]
  <2>1. PICK seen \in Readable : Answer(t, seen) BY <1>11 DEF ResolverEnds
  <2>2. CASE UNCHANGED resolve BY <2>2 DEF IInv, TypeOK
  <2>3. CASE resolve' = [resolve EXCEPT !.ready = FALSE, !.failed = TRUE]
    BY <2>3 DEF IInv, TypeOK
  <2>4. CASE resolve' = [ready |-> TRUE, failed |-> FALSE, media |-> t.url]
    <3>1. t.url \in Urls \cup {NoUrl, Torn} BY <1>11 DEF IInv, TypeOK
    <3> QED BY <2>4, <3>1
  <2> QED BY <2>1, <2>2, <2>3, <2>4 DEF Answer
<1>12. QED
  BY <1>1, <1>2, <1>3, <1>4, <1>5, <1>6, <1>7, <1>8, <1>9, <1>10, <1>11
     DEF Next, Client, Handler, Render, Resolver, Prefetcher, vars, SetUrl,
         SetProvider, TogglePause, Restart, Stop, SetAutoAdvance, NextTrack,
         Advance, DownloadWav, SetIndex, PrefetchPicks, PrefetchStarts,
         AutoAdvance, OpenResolved, OpenAfterFailure, ResolverReads,
         PrefetcherReads, PrefetcherEnds, DownloadEnds, ResultsPublished

(* the resolve threads,                                                     *)
LEMMA ResolverTypes ==
  ASSUME IInv, [Next]_vars
  PROVE  resolveRunning' \in BOOLEAN /\ resolvers' \subseteq [pc : {"read", "work"}, url : Urls \cup {NoUrl, Torn}, prov : Providers]
<1>1. CASE UNCHANGED <<resolveRunning, resolvers>>
  BY <1>1 DEF IInv, TypeOK
<1>2. CASE StartResolve
  <2>1. CASE ResolverStarts
    BY <1>2, <2>1 DEF StartResolve, ResolverStarts, IInv, TypeOK
  <2>2. CASE ResolverNotCreated
    BY <1>2, <2>2 DEF StartResolve, ResolverNotCreated, IInv, TypeOK
  <2>3. CASE resolveRunning /\ UNCHANGED resolving
    BY <1>2, <2>3 DEF StartResolve, IInv, TypeOK
  <2> QED BY <1>2, <2>1, <2>2, <2>3 DEF StartResolve
<1>3. CASE OpenResolves
  <2>1. CASE ResolverStarts /\ UNCHANGED ctl
    BY <1>3, <2>1 DEF OpenResolves, ResolverStarts, IInv, TypeOK
  <2>2. CASE ResolverNotCreated /\ Goto("legacy")
    BY <1>3, <2>2 DEF OpenResolves, ResolverNotCreated, IInv, TypeOK
  <2> QED BY <1>3, <2>1, <2>2 DEF OpenResolves
<1>4. ASSUME NEW t \in resolvers, ResolverReads(t) PROVE resolveRunning' \in BOOLEAN /\ resolvers' \subseteq [pc : {"read", "work"}, url : Urls \cup {NoUrl, Torn}, prov : Providers]
  BY <1>4, ProviderAssumption DEF ResolverReads, Readable, IInv, TypeOK, Infer
<1>5. ASSUME NEW t \in resolvers, ResolverEnds(t) PROVE resolveRunning' \in BOOLEAN /\ resolvers' \subseteq [pc : {"read", "work"}, url : Urls \cup {NoUrl, Torn}, prov : Providers]
  BY <1>5 DEF ResolverEnds, IInv, TypeOK
<1>6. QED
  BY <1>1, <1>2, <1>3, <1>4, <1>5
     DEF Next, Client, Handler, Render, Resolver, Prefetcher, vars, SetUrl,
         SetProvider, TogglePause, Restart, Stop, SetAutoAdvance, NextTrack,
         Advance, DownloadWav, SetIndex, UrlWritten, StopClears,
         AdvanceWritten, AdvanceClears, OpenResolvedFails, OpenLegacy,
         PrefetchPicks, PrefetchStarts, AutoAdvance, OpenResolved,
         OpenAfterFailure, PipeEnds, PrefetcherReads, PrefetcherEnds,
         DownloadEnds, ResultsPublished

(* the prefetch slot,                                                       *)
LEMMA PrefetchType ==
  ASSUME IInv, [Next]_vars
  PROVE  prefetch' \in [src : Urls \cup {NoUrl}, media : Urls \cup {NoUrl}, ready : BOOLEAN]
<1>1. CASE UNCHANGED <<prefetch>>
  BY <1>1 DEF IInv, TypeOK
<1>2. CASE AdvanceWritten
  BY <1>2 DEF AdvanceWritten, IInv, TypeOK
<1>3. CASE PrefetchStarts
  <2>1. CASE UNCHANGED prefetching BY <2>1 DEF IInv, TypeOK
  <2>2. CASE prefetch' = NewPrefetch(ctl.target)
    <3>1. ctl.target \in Urls \cup {NoUrl} BY DEF IInv, TypeOK
    <3> QED BY <2>2, <3>1 DEF NewPrefetch
  <2> QED BY <1>3, <2>1, <2>2 DEF PrefetchStarts
<1>4. ASSUME NEW t \in prefetchers, PrefetcherEnds(t) PROVE prefetch' \in [src : Urls \cup {NoUrl}, media : Urls \cup {NoUrl}, ready : BOOLEAN]
  BY <1>4 DEF PrefetcherEnds, IInv, TypeOK
<1>5. QED
  BY <1>1, <1>2, <1>3, <1>4
     DEF Next, Client, Handler, Render, Resolver, Prefetcher, vars, SetUrl,
         SetProvider, TogglePause, Restart, Stop, SetAutoAdvance, NextTrack,
         Advance, DownloadWav, SetIndex, UrlWritten, StopClears, AdvanceClears,
         StartResolve, OpenResolvedFails, OpenLegacy, PrefetchPicks,
         AutoAdvance, OpenResolved, OpenAfterFailure, OpenResolves, PipeEnds,
         ResolverReads, ResolverEnds, PrefetcherReads, DownloadEnds,
         ResultsPublished

(* the prefetch threads,                                                    *)
LEMMA PrefetcherTypes ==
  ASSUME IInv, [Next]_vars
  PROVE  prefetchRunning' \in BOOLEAN /\ prefetchers' \subseteq [pc : {"read", "work"}, url : Urls \cup {NoUrl}]
<1>1. CASE UNCHANGED <<prefetchRunning, prefetchers>>
  BY <1>1 DEF IInv, TypeOK
<1>2. CASE PrefetchStarts
  <2>1. CASE UNCHANGED <<prefetchRunning, prefetchers>>
    BY <2>1 DEF IInv, TypeOK
  <2>2. CASE /\ prefetchRunning' = TRUE
             /\ prefetchers' = prefetchers \cup {[pc |-> "read", url |-> NoUrl]}
    BY <2>2 DEF IInv, TypeOK
  <2>3. CASE UNCHANGED prefetching
    BY <2>3 DEF IInv, TypeOK
  <2> QED BY <1>2, <2>1, <2>2, <2>3 DEF PrefetchStarts
<1>3. ASSUME NEW t \in prefetchers, PrefetcherReads(t) PROVE prefetchRunning' \in BOOLEAN /\ prefetchers' \subseteq [pc : {"read", "work"}, url : Urls \cup {NoUrl}]
  BY <1>3 DEF PrefetcherReads, IInv, TypeOK
<1>4. ASSUME NEW t \in prefetchers, PrefetcherEnds(t) PROVE prefetchRunning' \in BOOLEAN /\ prefetchers' \subseteq [pc : {"read", "work"}, url : Urls \cup {NoUrl}]
  BY <1>4 DEF PrefetcherEnds, IInv, TypeOK
<1>5. QED
  BY <1>1, <1>2, <1>3, <1>4
     DEF Next, Client, Handler, Render, Resolver, Prefetcher, vars, SetUrl,
         SetProvider, TogglePause, Restart, Stop, SetAutoAdvance, NextTrack,
         Advance, DownloadWav, SetIndex, UrlWritten, StopClears,
         AdvanceWritten, AdvanceClears, StartResolve, OpenResolvedFails,
         OpenLegacy, PrefetchPicks, AutoAdvance, OpenResolved,
         OpenAfterFailure, OpenResolves, PipeEnds, ResolverReads, ResolverEnds,
         DownloadEnds, ResultsPublished

(* the result list and the index into it (an advance stays below            *)
(* MaxResults),                                                             *)
LEMMA ListTypes ==
  ASSUME IInv, [Next]_vars
  PROVE  results' \in ResultLists \cup {<<>>} /\ idx' \in 0..(MaxResults - 1) /\ autoAdvance' \in BOOLEAN
<1>1. CASE UNCHANGED <<results, idx, autoAdvance>>
  BY <1>1 DEF IInv, TypeOK
<1>2. CASE AutoAdvance
  BY <1>2, ListAssumption DEF AutoAdvance, Advance, IInv, TypeOK
<1>3. CASE NextTrack
  BY <1>3, ListAssumption DEF NextTrack, Advance, IInv, TypeOK
<1>4. ASSUME NEW i \in -1..MaxResults, SetIndex(i) PROVE results' \in ResultLists \cup {<<>>} /\ idx' \in 0..(MaxResults - 1) /\ autoAdvance' \in BOOLEAN
  BY <1>4, ListAssumption DEF SetIndex, InRange, IInv, TypeOK
<1>5. CASE SetAutoAdvance
  BY <1>5 DEF SetAutoAdvance, IInv, TypeOK
<1>6. ASSUME NEW l \in ResultLists, ResultsPublished(l) PROVE results' \in ResultLists \cup {<<>>} /\ idx' \in 0..(MaxResults - 1) /\ autoAdvance' \in BOOLEAN
  BY <1>6 DEF ResultsPublished, IInv, TypeOK
<1>7. QED
  BY <1>1, <1>2, <1>3, <1>4, <1>5, <1>6
     DEF Next, Client, Handler, Render, Resolver, Prefetcher, vars, SetUrl,
         SetProvider, TogglePause, Restart, Stop, DownloadWav, UrlWritten,
         StopClears, AdvanceWritten, AdvanceClears, StartResolve,
         OpenResolvedFails, OpenLegacy, PrefetchPicks, PrefetchStarts,
         OpenResolved, OpenAfterFailure, OpenResolves, PipeEnds, ResolverReads,
         ResolverEnds, PrefetcherReads, PrefetcherEnds, DownloadEnds

(* what download_wav captured,                                              *)
LEMMA DownloadTypes ==
  ASSUME IInv, [Next]_vars
  PROVE  dl' \in [src : Urls \cup {NoUrl}, media : Urls \cup {NoUrl, Torn}] /\ downloading' \in BOOLEAN
<1>1. CASE UNCHANGED <<dl, downloading>>
  BY <1>1 DEF IInv, TypeOK
<1>2. CASE DownloadWav
  BY <1>2 DEF DownloadWav, IInv, TypeOK
<1>3. CASE DownloadEnds
  BY <1>3 DEF DownloadEnds, IInv, TypeOK
<1>4. QED
  BY <1>1, <1>2, <1>3
     DEF Next, Client, Handler, Render, Resolver, Prefetcher, vars, SetUrl,
         SetProvider, TogglePause, Restart, Stop, SetAutoAdvance, NextTrack,
         Advance, SetIndex, UrlWritten, StopClears, AdvanceWritten,
         AdvanceClears, StartResolve, OpenResolvedFails, OpenLegacy,
         PrefetchPicks, PrefetchStarts, AutoAdvance, OpenResolved,
         OpenAfterFailure, OpenResolves, PipeEnds, ResolverReads, ResolverEnds,
         PrefetcherReads, PrefetcherEnds, ResultsPublished

(* what the handler has still to do (only a url of the list is advanced     *)
(* to),                                                                     *)
LEMMA CtlType ==
  ASSUME IInv, [Next]_vars
  PROVE  ctl' \in [pc : Pc, target : Urls \cup {NoUrl}]
<1>1. CASE UNCHANGED <<ctl>>
  BY <1>1 DEF IInv, TypeOK
<1>2. CASE UrlWritten
  BY <1>2 DEF UrlWritten, Idle, Pc
<1>3. CASE StopClears
  BY <1>3 DEF StopClears, Idle, Pc
<1>4. CASE AdvanceWritten
  BY <1>4 DEF AdvanceWritten, Idle, Pc
<1>5. CASE AdvanceClears
  BY <1>5 DEF AdvanceClears, Pc
<1>6. CASE StartResolve
  BY <1>6 DEF StartResolve, Idle, Pc
<1>7. CASE OpenResolvedFails
  BY <1>7 DEF OpenResolvedFails, Pc
<1>8. CASE OpenLegacy
  BY <1>8 DEF OpenLegacy, Idle, Pc
<1>9. CASE PrefetchPicks
  BY <1>9, ListAssumption DEF PrefetchPicks, Idle, IInv, TypeOK, Pc
<1>10. CASE PrefetchStarts
  BY <1>10 DEF PrefetchStarts, Idle, Pc
<1>11. CASE AutoAdvance
  BY <1>11, ListAssumption DEF AutoAdvance, Advance, IInv, TypeOK, Pc
<1>12. CASE OpenResolved
  BY <1>12 DEF OpenResolved, Pc
<1>13. CASE OpenAfterFailure
  BY <1>13 DEF OpenAfterFailure, Pc
<1>14. CASE OpenResolves
  BY <1>14 DEF OpenResolves, IInv, TypeOK, Pc
<1>15. ASSUME NEW u \in Urls, SetUrl(u) PROVE ctl' \in [pc : Pc, target : Urls \cup {NoUrl}]
  BY <1>15 DEF SetUrl, Pc
<1>16. CASE Restart
  BY <1>16 DEF Restart, IInv, TypeOK, Pc
<1>17. CASE Stop
  BY <1>17 DEF Stop, Pc
<1>18. CASE NextTrack
  BY <1>18, ListAssumption DEF NextTrack, Advance, IInv, TypeOK, Pc
<1>19. QED
  BY <1>1, <1>2, <1>3, <1>4, <1>5, <1>6, <1>7, <1>8, <1>9, <1>10, <1>11, <1>12,
     <1>13, <1>14, <1>15, <1>16, <1>17, <1>18
     DEF Next, Client, Handler, Render, Resolver, Prefetcher, vars,
         SetProvider, TogglePause, SetAutoAdvance, DownloadWav, SetIndex,
         PipeEnds, ResolverReads, ResolverEnds, PrefetcherReads,
         PrefetcherEnds, DownloadEnds, ResultsPublished

(* and the bound on commands.                                               *)
LEMMA CmdsType ==
  ASSUME IInv, [Next]_vars
  PROVE  cmds' \in 0..MaxCmds
<1>1. CASE UNCHANGED <<cmds>>
  BY <1>1 DEF IInv, TypeOK
<1>2. ASSUME NEW u \in Urls, SetUrl(u) PROVE cmds' \in 0..MaxCmds
  BY <1>2, ListAssumption DEF SetUrl, IInv, TypeOK
<1>3. ASSUME NEW p \in SetProviders, SetProvider(p) PROVE cmds' \in 0..MaxCmds
  BY <1>3, ListAssumption DEF SetProvider, IInv, TypeOK
<1>4. CASE TogglePause
  BY <1>4, ListAssumption DEF TogglePause, IInv, TypeOK
<1>5. CASE Restart
  BY <1>5, ListAssumption DEF Restart, IInv, TypeOK
<1>6. CASE Stop
  BY <1>6, ListAssumption DEF Stop, IInv, TypeOK
<1>7. CASE SetAutoAdvance
  BY <1>7, ListAssumption DEF SetAutoAdvance, IInv, TypeOK
<1>8. CASE NextTrack
  BY <1>8, ListAssumption DEF NextTrack, IInv, TypeOK
<1>9. CASE DownloadWav
  BY <1>9, ListAssumption DEF DownloadWav, IInv, TypeOK
<1>10. ASSUME NEW i \in -1..MaxResults, SetIndex(i) PROVE cmds' \in 0..MaxCmds
  BY <1>10, ListAssumption DEF SetIndex, IInv, TypeOK
<1>11. QED
  BY <1>1, <1>2, <1>3, <1>4, <1>5, <1>6, <1>7, <1>8, <1>9, <1>10
     DEF Next, Client, Handler, Render, Resolver, Prefetcher, vars, UrlWritten,
         StopClears, AdvanceWritten, AdvanceClears, StartResolve,
         OpenResolvedFails, OpenLegacy, PrefetchPicks, PrefetchStarts,
         AutoAdvance, OpenResolved, OpenAfterFailure, OpenResolves, PipeEnds,
         ResolverReads, ResolverEnds, PrefetcherReads, PrefetcherEnds,
         DownloadEnds, ResultsPublished

(* Every step keeps the types.                                              *)
LEMMA TypeStep ==
  ASSUME IInv, [Next]_vars
  PROVE  TypeOK'
BY TrackTypes, PipeTypes, FlagTypes, ResumeType, ResolveType, ResolverTypes,
   PrefetchType, PrefetcherTypes, ListTypes, DownloadTypes, CtlType, CmdsType
   DEF TypeOK

(* What a handler has done already stays true until it has done the rest.   *)
LEMMA HandlerStep ==
  ASSUME IInv, [Next]_vars
  PROVE  HandlerInv'
<1>1. CASE UNCHANGED <<ctl, url, pipe, eof, paused>>
  BY <1>1 DEF IInv, HandlerInv
<1>2. CASE UrlWritten
  BY <1>2 DEF UrlWritten, Idle, IInv, HandlerInv
<1>3. CASE StopClears
  BY <1>3 DEF StopClears, Idle, HandlerInv
<1>4. CASE AdvanceWritten
  BY <1>4 DEF AdvanceWritten, Idle, IInv, HandlerInv
<1>5. CASE AdvanceClears
  BY <1>5 DEF AdvanceClears, IInv, HandlerInv
<1>6. CASE StartResolve
  BY <1>6 DEF StartResolve, Idle, HandlerInv
<1>7. CASE OpenResolvedFails
  BY <1>7 DEF OpenResolvedFails, IInv, HandlerInv
<1>8. CASE OpenLegacy
  BY <1>8 DEF OpenLegacy, Idle, HandlerInv
<1>9. CASE PrefetchPicks
  BY <1>9, ListAssumption DEF PrefetchPicks, Idle, IInv, HandlerInv, TypeOK
<1>10. CASE PrefetchStarts
  BY <1>10 DEF PrefetchStarts, Idle, HandlerInv
<1>11. CASE AutoAdvance
  BY <1>11, ListAssumption DEF AutoAdvance, Advance, IInv, HandlerInv, TypeOK
<1>12. CASE OpenResolved
  BY <1>12 DEF OpenResolved, NoStream, IInv, HandlerInv, TypeOK
<1>13. CASE OpenAfterFailure
  BY <1>13 DEF OpenAfterFailure, NoStream, IInv, HandlerInv, TypeOK
<1>14. CASE OpenResolves
  BY <1>14 DEF OpenResolves, NoStream, IInv, HandlerInv, TypeOK
<1>15. CASE PipeEnds
  BY <1>15 DEF PipeEnds, HandlerInv
<1>16. ASSUME NEW u \in Urls, SetUrl(u) PROVE HandlerInv'
  BY <1>16 DEF SetUrl, HandlerInv
<1>17. CASE TogglePause
  BY <1>17 DEF TogglePause, HandlerInv
<1>18. CASE Restart
  BY <1>18 DEF Restart, IInv, HandlerInv, TypeOK
<1>19. CASE Stop
  BY <1>19 DEF Stop, NotStarted, HandlerInv
<1>20. CASE NextTrack
  BY <1>20, ListAssumption DEF NextTrack, Advance, IInv, HandlerInv, TypeOK
<1>21. CASE DownloadWav
  BY <1>21 DEF DownloadWav, HandlerInv
<1>22. QED
  BY <1>1, <1>2, <1>3, <1>4, <1>5, <1>6, <1>7, <1>8, <1>9, <1>10, <1>11, <1>12,
     <1>13, <1>14, <1>15, <1>16, <1>17, <1>18, <1>19, <1>20, <1>21
     DEF Next, Client, Handler, Render, Resolver, Prefetcher, vars,
         SetProvider, SetAutoAdvance, SetIndex, ResolverReads, ResolverEnds,
         PrefetcherReads, PrefetcherEnds, DownloadEnds, ResultsPublished

(* A resolver that saw the url torn or replaced leaves no answer; one that  *)
(* answers answers for the current track.                                   *)
LEMMA AnswerStep ==
  ASSUME IInv, [Next]_vars
  PROVE  AnswerInv'
<1>1. CASE UNCHANGED <<ctl, url, resolve>>
  BY <1>1 DEF IInv, AnswerInv, CaughtUp
<1>2. CASE UrlWritten
  BY <1>2 DEF UrlWritten, AnswerInv, Cleared
<1>3. CASE StopClears
  BY <1>3 DEF StopClears, AnswerInv, Cleared
<1>4. CASE AdvanceWritten
  BY <1>4
     DEF AdvanceWritten, PrefetchHit, IInv, AnswerInv, CaughtUp, PrefetchInv
<1>5. CASE AdvanceClears
  BY <1>5 DEF AdvanceClears, AnswerInv, Cleared
<1>6. CASE StartResolve
  BY <1>6
     DEF StartResolve, ResolverStarts, ResolverNotCreated, IInv, AnswerInv,
         CaughtUp, Cleared
<1>7. CASE OpenResolvedFails
  BY <1>7 DEF OpenResolvedFails, IInv, AnswerInv, CaughtUp
<1>8. CASE OpenLegacy
  BY <1>8 DEF OpenLegacy, IInv, AnswerInv, CaughtUp, TypeOK
<1>9. CASE PrefetchPicks
  BY <1>9 DEF PrefetchPicks, IInv, AnswerInv, CaughtUp
<1>10. CASE PrefetchStarts
  BY <1>10 DEF PrefetchStarts, IInv, AnswerInv, CaughtUp
<1>11. CASE AutoAdvance
  BY <1>11 DEF AutoAdvance, Advance, AnswerInv, CaughtUp
<1>12. CASE OpenResolved
  BY <1>12 DEF OpenResolved, NoStream, IInv, AnswerInv, CaughtUp
<1>13. CASE OpenAfterFailure
  BY <1>13 DEF OpenAfterFailure, NoStream, IInv, AnswerInv, CaughtUp
<1>14. CASE OpenResolves
  BY <1>14
     DEF OpenResolves, ResolverStarts, ResolverNotCreated, AnswerInv, Cleared
<1>15. CASE PipeEnds
  BY <1>15 DEF PipeEnds, IInv, AnswerInv, CaughtUp, TypeOK
<1>16. ASSUME NEW t \in resolvers, ResolverEnds(t) PROVE AnswerInv'
  <2>1. PICK seen \in Readable : Answer(t, seen) BY <1>16 DEF ResolverEnds
  <2>2. UNCHANGED <<url, ctl>> BY <1>16 DEF ResolverEnds
  <2>3. CASE UNCHANGED resolve BY <2>2, <2>3 DEF IInv, AnswerInv, CaughtUp
  <2>4. CASE StillAsked(t, seen) /\ resolve' = [resolve EXCEPT !.ready = FALSE, !.failed = TRUE]
    BY <2>2, <2>4 DEF IInv, AnswerInv, CaughtUp
  <2>5. CASE StillAsked(t, seen) /\ resolve' = [ready |-> TRUE, failed |-> FALSE, media |-> t.url]
    <3>1. CaughtUp => seen = url BY DEF CaughtUp, Readable, Writing
    <3>2. CaughtUp => t.url = url /\ url \in Urls
      BY <2>5, <3>1 DEF StillAsked, IInv, TypeOK
    <3> QED BY <2>2, <2>5, <3>2 DEF AnswerInv, CaughtUp
  <2> QED BY <2>1, <2>3, <2>4, <2>5 DEF Answer
<1>17. ASSUME NEW u \in Urls, SetUrl(u) PROVE AnswerInv'
  BY <1>17 DEF SetUrl, AnswerInv, CaughtUp
<1>18. CASE Restart
  BY <1>18 DEF Restart, IInv, AnswerInv, CaughtUp
<1>19. CASE Stop
  BY <1>19 DEF Stop, AnswerInv, CaughtUp
<1>20. CASE NextTrack
  BY <1>20 DEF NextTrack, Advance, AnswerInv, CaughtUp
<1>21. QED
  BY <1>1, <1>2, <1>3, <1>4, <1>5, <1>6, <1>7, <1>8, <1>9, <1>10, <1>11, <1>12,
     <1>13, <1>14, <1>15, <1>16, <1>17, <1>18, <1>19, <1>20
     DEF Next, Client, Handler, Render, Resolver, Prefetcher, vars,
         SetProvider, TogglePause, SetAutoAdvance, DownloadWav, SetIndex,
         ResolverReads, PrefetcherReads, PrefetcherEnds, DownloadEnds,
         ResultsPublished

(* The process that plays is started on the current track and ended before  *)
(* the track changes.                                                       *)
LEMMA PipeStep ==
  ASSUME IInv, [Next]_vars
  PROVE  PipePlaysTrack'
<1>1. CASE UNCHANGED <<url, pipe>>
  BY <1>1 DEF IInv, PipePlaysTrack
<1>2. CASE UrlWritten
  BY <1>2 DEF UrlWritten, NotStarted, LegacyFromCommand, PipePlaysTrack
<1>3. CASE AdvanceWritten
  BY <1>3 DEF AdvanceWritten, NotStarted, PipePlaysTrack
<1>4. CASE OpenLegacy
  BY <1>4 DEF OpenLegacy, Spawned, IInv, PipePlaysTrack
<1>5. CASE AutoAdvance
  BY <1>5 DEF AutoAdvance, Advance, PipePlaysTrack
<1>6. CASE OpenResolved
  BY <1>6
     DEF OpenResolved, NoStream, Spawned, IInv, PipePlaysTrack, AnswerInv,
         CaughtUp
<1>7. CASE PipeEnds
  BY <1>7 DEF PipeEnds, PipePlaysTrack
<1>8. CASE Restart
  BY <1>8 DEF Restart, NotStarted, LegacyFromCommand, PipePlaysTrack
<1>9. CASE Stop
  BY <1>9 DEF Stop, NotStarted, PipePlaysTrack
<1>10. CASE NextTrack
  BY <1>10 DEF NextTrack, Advance, PipePlaysTrack
<1>11. CASE DownloadWav
  BY <1>11 DEF DownloadWav, PipePlaysTrack
<1>12. QED
  BY <1>1, <1>2, <1>3, <1>4, <1>5, <1>6, <1>7, <1>8, <1>9, <1>10, <1>11
     DEF Next, Client, Handler, Render, Resolver, Prefetcher, vars, SetUrl,
         SetProvider, TogglePause, SetAutoAdvance, SetIndex, StopClears,
         AdvanceClears, StartResolve, OpenResolvedFails, PrefetchPicks,
         PrefetchStarts, OpenAfterFailure, OpenResolves, ResolverReads,
         ResolverEnds, PrefetcherReads, PrefetcherEnds, DownloadEnds,
         ResultsPublished

(* The prefetch slot keeps its url until its prefetcher has answered.       *)
LEMMA PrefetchStep ==
  ASSUME IInv, [Next]_vars
  PROVE  PrefetchInv'
<1>1. CASE UNCHANGED <<prefetch, prefetchers>>
  BY <1>1 DEF IInv, PrefetchInv
<1>2. CASE AdvanceWritten
  BY <1>2 DEF AdvanceWritten, PrefetchHit, IInv, PrefetchInv, TypeOK
<1>3. CASE PrefetchStarts
  BY <1>3 DEF PrefetchStarts, NewPrefetch, IInv, PrefetchInv, HandlerInv
<1>4. ASSUME NEW t \in prefetchers, PrefetcherReads(t) PROVE PrefetchInv'
  BY <1>4 DEF PrefetcherReads, IInv, PrefetchInv
<1>5. ASSUME NEW t \in prefetchers, PrefetcherEnds(t) PROVE PrefetchInv'
  <2>1. prefetchers = {t} BY DEF IInv, ThreadsInv, OneIf
  <2>2. prefetchers' = {} BY <1>5, <2>1 DEF PrefetcherEnds
  <2>3. t.pc = "work" /\ t.url \in Urls /\ ~prefetch.ready /\ prefetch.src \in Urls
    BY <1>5, <2>1 DEF IInv, PrefetchInv, PrefetcherEnds
  <2>4. CASE UNCHANGED prefetch BY <2>2, <2>3, <2>4 DEF PrefetchInv
  <2>5. CASE prefetch.src = t.url /\ prefetch' = [prefetch EXCEPT !.media = t.url, !.ready = TRUE]
    BY <2>2, <2>3, <2>5 DEF PrefetchInv
  <2> QED BY <1>5, <2>4, <2>5 DEF PrefetcherEnds
<1>6. QED
  BY <1>1, <1>2, <1>3, <1>4, <1>5
     DEF Next, Client, Handler, Render, Resolver, Prefetcher, vars, SetUrl,
         SetProvider, TogglePause, Restart, Stop, SetAutoAdvance, NextTrack,
         Advance, DownloadWav, SetIndex, UrlWritten, StopClears, AdvanceClears,
         StartResolve, OpenResolvedFails, OpenLegacy, PrefetchPicks,
         AutoAdvance, OpenResolved, OpenAfterFailure, OpenResolves, PipeEnds,
         ResolverReads, ResolverEnds, DownloadEnds, ResultsPublished

(* A thread is started only when the flag says that none runs.              *)
LEMMA ThreadsStep ==
  ASSUME IInv, [Next]_vars
  PROVE  ThreadsInv'
<1>1. CASE UNCHANGED <<resolveRunning, resolvers, prefetchRunning, prefetchers>>
  BY <1>1 DEF IInv, ThreadsInv
<1>2. CASE StartResolve
  <2>1. CASE ResolverStarts
    BY <1>2, <2>1 DEF StartResolve, ResolverStarts, IInv, ThreadsInv, OneIf
  <2>2. CASE ResolverNotCreated
    BY <1>2, <2>2 DEF StartResolve, ResolverNotCreated, IInv, ThreadsInv
  <2>3. CASE resolveRunning /\ UNCHANGED resolving
    BY <1>2, <2>3 DEF StartResolve, IInv, ThreadsInv
  <2> QED BY <1>2, <2>1, <2>2, <2>3 DEF StartResolve
<1>3. CASE OpenResolves
  <2>1. CASE ResolverStarts /\ UNCHANGED ctl
    BY <1>3, <2>1 DEF OpenResolves, ResolverStarts, IInv, ThreadsInv, OneIf
  <2>2. CASE ResolverNotCreated /\ Goto("legacy")
    BY <1>3, <2>2 DEF OpenResolves, ResolverNotCreated, IInv, ThreadsInv
  <2> QED BY <1>3, <2>1, <2>2 DEF OpenResolves
<1>4. CASE PrefetchStarts
  <2>1. CASE PrefetchBusy /\ UNCHANGED prefetching
    BY <1>4, <2>1 DEF PrefetchStarts, IInv, ThreadsInv
  <2>2. CASE ~PrefetchBusy /\ prefetchRunning' = TRUE
    BY <1>4, <2>2 DEF PrefetchStarts, PrefetchBusy, IInv, ThreadsInv, OneIf
  <2>3. CASE ~PrefetchBusy /\ UNCHANGED <<prefetchRunning, prefetchers>>
    BY <1>4, <2>3 DEF PrefetchStarts, IInv, ThreadsInv
  <2> QED BY <1>4, <2>1, <2>2, <2>3 DEF PrefetchStarts
<1>5. ASSUME NEW t \in resolvers, ResolverReads(t) PROVE ThreadsInv'
  BY <1>5 DEF ResolverReads, IInv, ThreadsInv, OneIf
<1>6. ASSUME NEW t \in resolvers, ResolverEnds(t) PROVE ThreadsInv'
  BY <1>6 DEF ResolverEnds, IInv, ThreadsInv, OneIf
<1>7. ASSUME NEW t \in prefetchers, PrefetcherReads(t) PROVE ThreadsInv'
  BY <1>7 DEF PrefetcherReads, IInv, ThreadsInv, OneIf
<1>8. ASSUME NEW t \in prefetchers, PrefetcherEnds(t) PROVE ThreadsInv'
  BY <1>8 DEF PrefetcherEnds, IInv, ThreadsInv, OneIf
<1>9. QED
  BY <1>1, <1>2, <1>3, <1>4, <1>5, <1>6, <1>7, <1>8
     DEF Next, Client, Handler, Render, Resolver, Prefetcher, vars, SetUrl,
         SetProvider, TogglePause, Restart, Stop, SetAutoAdvance, NextTrack,
         Advance, DownloadWav, SetIndex, UrlWritten, StopClears,
         AdvanceWritten, AdvanceClears, OpenResolvedFails, OpenLegacy,
         PrefetchPicks, AutoAdvance, OpenResolved, OpenAfterFailure, PipeEnds,
         DownloadEnds, ResultsPublished

(* A stopped player stays quiet, since an answer to a url that is gone is   *)
(* not accepted.                                                            *)
LEMMA QuietStep ==
  ASSUME IInv, [Next]_vars
  PROVE  StoppedIsQuiet'
<1>1. CASE UNCHANGED <<ctl, url, pipe, resolve, eof, paused>>
  BY <1>1 DEF IInv, StoppedIsQuiet, CaughtUp
<1>2. CASE UrlWritten
  BY <1>2, UrlAssumption DEF UrlWritten, IInv, StoppedIsQuiet, HandlerInv
<1>3. CASE StopClears
  BY <1>3 DEF StopClears, IInv, StoppedIsQuiet, HandlerInv
<1>4. CASE AdvanceWritten
  BY <1>4, UrlAssumption DEF AdvanceWritten, IInv, StoppedIsQuiet, HandlerInv
<1>5. CASE AdvanceClears
  BY <1>5, UrlAssumption DEF AdvanceClears, IInv, StoppedIsQuiet, HandlerInv
<1>6. CASE StartResolve
  BY <1>6, UrlAssumption DEF StartResolve, IInv, StoppedIsQuiet, HandlerInv
<1>7. CASE OpenResolvedFails
  BY <1>7, UrlAssumption
     DEF OpenResolvedFails, IInv, StoppedIsQuiet, HandlerInv
<1>8. CASE OpenLegacy
  BY <1>8, UrlAssumption DEF OpenLegacy, IInv, StoppedIsQuiet, HandlerInv
<1>9. CASE PrefetchPicks
  BY <1>9 DEF PrefetchPicks, IInv, StoppedIsQuiet, CaughtUp
<1>10. CASE PrefetchStarts
  BY <1>10 DEF PrefetchStarts, IInv, StoppedIsQuiet, CaughtUp
<1>11. CASE AutoAdvance
  BY <1>11 DEF AutoAdvance, Advance, StoppedIsQuiet
<1>12. CASE OpenResolved
  BY <1>12 DEF OpenResolved, NoStream, StoppedIsQuiet
<1>13. CASE OpenAfterFailure
  BY <1>13 DEF OpenAfterFailure, NoStream, StoppedIsQuiet
<1>14. CASE OpenResolves
  BY <1>14 DEF OpenResolves, NoStream, StoppedIsQuiet
<1>15. CASE PipeEnds
  BY <1>15 DEF PipeEnds, StoppedIsQuiet
<1>16. ASSUME NEW t \in resolvers, ResolverEnds(t) PROVE StoppedIsQuiet'
  BY <1>16
     DEF ResolverEnds, Answer, StillAsked, Readable, Writing, IInv,
         StoppedIsQuiet, CaughtUp
<1>17. ASSUME NEW u \in Urls, SetUrl(u) PROVE StoppedIsQuiet'
  BY <1>17 DEF SetUrl, StoppedIsQuiet, CaughtUp
<1>18. CASE TogglePause
  BY <1>18 DEF TogglePause, StoppedIsQuiet
<1>19. CASE Restart
  BY <1>19 DEF Restart, StoppedIsQuiet
<1>20. CASE Stop
  BY <1>20 DEF Stop, StoppedIsQuiet, CaughtUp
<1>21. CASE NextTrack
  BY <1>21 DEF NextTrack, Advance, StoppedIsQuiet, CaughtUp
<1>22. CASE DownloadWav
  BY <1>22 DEF DownloadWav, StoppedIsQuiet
<1>23. QED
  BY <1>1, <1>2, <1>3, <1>4, <1>5, <1>6, <1>7, <1>8, <1>9, <1>10, <1>11, <1>12,
     <1>13, <1>14, <1>15, <1>16, <1>17, <1>18, <1>19, <1>20, <1>21, <1>22
     DEF Next, Client, Handler, Render, Resolver, Prefetcher, vars,
         SetProvider, SetAutoAdvance, SetIndex, ResolverReads, PrefetcherReads,
         PrefetcherEnds, DownloadEnds, ResultsPublished

(* A download starts only when url and answer agree.                        *)
LEMMA DownloadStep ==
  ASSUME IInv, [Next]_vars
  PROVE  DownloadIsOneTrack'
<1>1. CASE UNCHANGED <<dl>>
  BY <1>1 DEF IInv, DownloadIsOneTrack
<1>2. CASE DownloadWav
  BY <1>2 DEF DownloadWav, IInv, DownloadIsOneTrack, AnswerInv, CaughtUp
<1>3. QED
  BY <1>1, <1>2
     DEF Next, Client, Handler, Render, Resolver, Prefetcher, vars, SetUrl,
         SetProvider, TogglePause, Restart, Stop, SetAutoAdvance, NextTrack,
         Advance, SetIndex, UrlWritten, StopClears, AdvanceWritten,
         AdvanceClears, StartResolve, OpenResolvedFails, OpenLegacy,
         PrefetchPicks, PrefetchStarts, AutoAdvance, OpenResolved,
         OpenAfterFailure, OpenResolves, PipeEnds, ResolverReads, ResolverEnds,
         PrefetcherReads, PrefetcherEnds, DownloadEnds, ResultsPublished

(* A change of track drops the resume offset before the track counts as     *)
(* current.                                                                 *)
LEMMA OffsetStep ==
  ASSUME IInv, [Next]_vars
  PROVE  OffsetInv'
<1>1. CASE UNCHANGED <<ctl, url, resume>>
  BY <1>1 DEF IInv, OffsetInv
<1>2. CASE UrlWritten
  BY <1>2 DEF UrlWritten, Restarted, OffsetInv
<1>3. CASE StopClears
  BY <1>3 DEF StopClears, IInv, OffsetInv
<1>4. CASE AdvanceWritten
  BY <1>4 DEF AdvanceWritten, Restarted, OffsetInv
<1>5. CASE AdvanceClears
  BY <1>5 DEF AdvanceClears, IInv, OffsetInv
<1>6. CASE StartResolve
  BY <1>6 DEF StartResolve, IInv, OffsetInv
<1>7. CASE OpenResolvedFails
  BY <1>7 DEF OpenResolvedFails, IInv, OffsetInv
<1>8. CASE OpenLegacy
  BY <1>8 DEF OpenLegacy, OffsetInv
<1>9. CASE PrefetchPicks
  BY <1>9 DEF PrefetchPicks, IInv, OffsetInv
<1>10. CASE PrefetchStarts
  BY <1>10 DEF PrefetchStarts, IInv, OffsetInv
<1>11. CASE AutoAdvance
  BY <1>11 DEF AutoAdvance, Advance, OffsetInv
<1>12. CASE OpenResolved
  BY <1>12 DEF OpenResolved, NoStream, IInv, OffsetInv
<1>13. CASE OpenAfterFailure
  BY <1>13 DEF OpenAfterFailure, NoStream, IInv, OffsetInv
<1>14. CASE OpenResolves
  BY <1>14 DEF OpenResolves, NoStream, IInv, OffsetInv
<1>15. CASE PipeEnds
  BY <1>15 DEF PipeEnds, IInv, OffsetInv
<1>16. CASE Restart
  BY <1>16 DEF Restart, Restarted, OffsetInv
<1>17. CASE Stop
  BY <1>17 DEF Stop, OffsetInv
<1>18. CASE NextTrack
  BY <1>18 DEF NextTrack, Advance, OffsetInv
<1>19. ASSUME NEW u \in Urls, SetUrl(u) PROVE OffsetInv'
  BY <1>19 DEF SetUrl, OffsetInv
<1>20. QED
  BY <1>1, <1>2, <1>3, <1>4, <1>5, <1>6, <1>7, <1>8, <1>9, <1>10, <1>11, <1>12,
     <1>13, <1>14, <1>15, <1>16, <1>17, <1>18, <1>19
     DEF Next, Client, Handler, Render, Resolver, Prefetcher, vars,
         SetProvider, TogglePause, SetAutoAdvance, DownloadWav, SetIndex,
         ResolverReads, ResolverEnds, PrefetcherReads, PrefetcherEnds,
         DownloadEnds, ResultsPublished

(* A second process is started only after the fallback, which happens once. *)
LEMMA SpawnStep ==
  ASSUME IInv, [Next]_vars
  PROVE  SpawnInv'
<1>1. CASE UNCHANGED <<ctl, pipe, eof, fellBack, spawns>>
  BY <1>1 DEF IInv, SpawnInv
<1>2. CASE UrlWritten
  BY <1>2, UrlAssumption
     DEF UrlWritten, NotStarted, LegacyFromCommand, IInv, SpawnInv, HandlerInv
<1>3. CASE StopClears
  BY <1>3 DEF StopClears, IInv, SpawnInv
<1>4. CASE AdvanceWritten
  BY <1>4 DEF AdvanceWritten, NotStarted, SpawnInv
<1>5. CASE AdvanceClears
  BY <1>5 DEF AdvanceClears, IInv, SpawnInv
<1>6. CASE StartResolve
  BY <1>6 DEF StartResolve, IInv, SpawnInv
<1>7. CASE OpenResolvedFails
  BY <1>7 DEF OpenResolvedFails, IInv, SpawnInv
<1>8. CASE OpenLegacy
  BY <1>8, UrlAssumption
     DEF OpenLegacy, Spawned, IInv, SpawnInv, TypeOK, HandlerInv
<1>9. CASE PrefetchPicks
  BY <1>9 DEF PrefetchPicks, IInv, SpawnInv
<1>10. CASE PrefetchStarts
  BY <1>10 DEF PrefetchStarts, IInv, SpawnInv
<1>11. CASE AutoAdvance
  BY <1>11 DEF AutoAdvance, Advance, IInv, SpawnInv
<1>12. CASE OpenResolved
  <2>1. spawns \in Nat /\ spawns <= 1 /\ (fellBack \/ spawns = 0)
    BY <1>12 DEF OpenResolved, NoStream, IInv, TypeOK, SpawnInv
  <2>2. UNCHANGED <<fellBack, eof>> BY <1>12 DEF OpenResolved
  <2>3. CASE Spawned(resolve.media, "resolved")
    <3>1. pipe' # NoPipe
      BY <1>12, <2>3, UrlAssumption
         DEF OpenResolved, NoStream, Spawned, IInv, AnswerInv, CaughtUp
    <3>2. spawns' = spawns + 1 BY <2>3 DEF Spawned
    <3> QED BY <2>1, <2>2, <3>1, <3>2 DEF SpawnInv
  <2>4. CASE UNCHANGED <<pipe, spawns>>
    BY <2>1, <2>2, <2>4 DEF SpawnInv
  <2> QED BY <1>12, <2>3, <2>4 DEF OpenResolved
<1>13. CASE OpenAfterFailure
  BY <1>13 DEF OpenAfterFailure, NoStream, IInv, SpawnInv
<1>14. CASE OpenResolves
  BY <1>14 DEF OpenResolves, NoStream, IInv, SpawnInv
<1>15. CASE PipeEnds
  BY <1>15 DEF PipeEnds, FallsBack, IInv, SpawnInv
<1>16. ASSUME NEW u \in Urls, SetUrl(u) PROVE SpawnInv'
  BY <1>16 DEF SetUrl, IInv, SpawnInv
<1>17. CASE Restart
  BY <1>17, UrlAssumption
     DEF Restart, NotStarted, LegacyFromCommand, IInv, SpawnInv, TypeOK
<1>18. CASE Stop
  BY <1>18 DEF Stop, NotStarted, SpawnInv
<1>19. CASE NextTrack
  BY <1>19 DEF NextTrack, Advance, IInv, SpawnInv
<1>20. CASE DownloadWav
  BY <1>20 DEF DownloadWav, SpawnInv
<1>21. QED
  BY <1>1, <1>2, <1>3, <1>4, <1>5, <1>6, <1>7, <1>8, <1>9, <1>10, <1>11, <1>12,
     <1>13, <1>14, <1>15, <1>16, <1>17, <1>18, <1>19, <1>20
     DEF Next, Client, Handler, Render, Resolver, Prefetcher, vars,
         SetProvider, TogglePause, SetAutoAdvance, SetIndex, ResolverReads,
         ResolverEnds, PrefetcherReads, PrefetcherEnds, DownloadEnds,
         ResultsPublished

(* The invariant holds when the instance is created.                        *)
LEMMA InitHolds == Init => IInv
<1> SUFFICES ASSUME Init PROVE IInv OBVIOUS
<1>1. TypeOK
  <2>1. 0 \in 0..(MaxResults - 1) /\ 0 \in 0..MaxCmds BY ListAssumption
  <2>2. "youtube" \in Providers BY ProviderAssumption
  <2>3. cmds \in 0..MaxCmds /\ idx \in 0..(MaxResults - 1) /\ spawns \in Nat
    BY <2>1 DEF Init
  <2> QED BY <2>2, <2>3 DEF Init, TypeOK, Pc, Cleared, Idle
<1>2. HandlerInv /\ AnswerInv /\ PipePlaysTrack /\ StoppedIsQuiet /\ DownloadIsOneTrack
  BY DEF Init, HandlerInv, AnswerInv, PipePlaysTrack, StoppedIsQuiet,
         DownloadIsOneTrack, Cleared, Idle
<1>3. PrefetchInv /\ ThreadsInv /\ OffsetInv
  BY DEF Init, PrefetchInv, ThreadsInv, OneIf, OffsetInv
<1>4. SpawnInv
  BY DEF Init, SpawnInv
<1> QED BY <1>1, <1>2, <1>3, <1>4 DEF IInv

(* Every step keeps the invariant.                                          *)
LEMMA NextKeeps == IInv /\ [Next]_vars => IInv'
BY TypeStep, HandlerStep, AnswerStep, PipeStep, PrefetchStep, ThreadsStep,
   QuietStep, DownloadStep, OffsetStep, SpawnStep
   DEF IInv

(* The inductive invariant holds in every reachable state.                  *)
THEOREM Invariance == Spec => []IInv
BY InitHolds, NextKeeps, PTL DEF Spec

(* Every field keeps its type; cratedig_result_index in particular stays an *)
(* index into search_results whatever is set and however often the player   *)
(* advances.                                                                *)
THEOREM TypeCorrect == Spec => []TypeOK
<1>1. IInv => TypeOK BY DEF IInv
<1> QED BY <1>1, Invariance, PTL

(* No late answer of a resolver is ever used for another track than the one *)
(* it was asked about.                                                      *)
THEOREM MediaFollowsTrack == Spec => []MediaIsOfTrack
<1>1. IInv => MediaIsOfTrack BY DEF IInv, AnswerInv, MediaIsOfTrack
<1> QED BY <1>1, Invariance, PTL

(* What plays is what stream_url names.                                     *)
THEOREM PipeFollowsTrack == Spec => []PipePlaysTrack
<1>1. IInv => PipePlaysTrack BY DEF IInv
<1> QED BY <1>1, Invariance, PTL

(* A prefetched answer is the one for its url.                              *)
THEOREM PrefetchFollowsUrl == Spec => []PrefetchIsKeyed
<1>1. IInv => PrefetchIsKeyed
  BY UrlAssumption DEF IInv, PrefetchInv, PrefetchIsKeyed
<1> QED BY <1>1, Invariance, PTL

(* Nothing plays or becomes ready after stop.                               *)
THEOREM StopIsFinal == Spec => []StoppedIsQuiet
<1>1. IInv => StoppedIsQuiet BY DEF IInv
<1> QED BY <1>1, Invariance, PTL

(* A download never mixes two tracks.                                       *)
THEOREM DownloadFollowsTrack == Spec => []DownloadIsOneTrack
<1>1. IInv => DownloadIsOneTrack BY DEF IInv
<1> QED BY <1>1, Invariance, PTL

(* At most two processes are started for one command or advance.            *)
THEOREM FallbackOnce == Spec => []BoundedRespawn
<1>1. IInv => BoundedRespawn BY DEF IInv, SpawnInv, BoundedRespawn
<1> QED BY <1>1, Invariance, PTL

(* A resume offset is never applied to another track.                       *)
THEOREM OffsetFollowsTrack == Spec => []OffsetIsOfTrack
<1>1. IInv => OffsetIsOfTrack BY DEF IInv, OffsetInv, OffsetIsOfTrack, CaughtUp
<1> QED BY <1>1, Invariance, PTL

(* The running flags count the threads: at most one of either kind.         *)
THEOREM ThreadsCounted == Spec => []FlagsCountThreads
<1>1. ASSUME NEW S, NEW b \in BOOLEAN, OneIf(b, S)
      PROVE  Cardinality(S) = (IF b THEN 1 ELSE 0)
  <2>1. CASE b
    <3>1. PICK t \in S : S = {t} BY <1>1, <2>1 DEF OneIf
    <3> QED BY <2>1, <3>1, FS_Singleton
  <2>2. CASE ~b
    <3>1. S = {} BY <1>1, <2>2 DEF OneIf
    <3> QED BY <2>2, <3>1, FS_EmptySet
  <2> QED BY <1>1, <2>1, <2>2
<1>2. IInv => FlagsCountThreads
  BY <1>1 DEF IInv, TypeOK, ThreadsInv, FlagsCountThreads
<1> QED BY <1>2, Invariance, PTL

-----------------------------------------------------------------------------
(* The refinement of Player: each step is one of its steps, or does not show. *)

LEMMA PlayerStarts == Init => Listener!Init
  BY DEF Init, Idle, Playing, Listener!Init

LEMMA Sounds ==
  ASSUME IInv
  PROVE  /\ pipe = NoPipe <=> Playing = NoUrl
         /\ pipe # NoPipe => Playing = url
<1>1. pipe # NoPipe => pipe.src \in Urls BY DEF IInv, TypeOK, Pipe
<1> QED BY <1>1, UrlAssumption DEF Playing, IInv, PipePlaysTrack

(* The commands and the sections of theirs that show. *)
LEMMA CommandRefines ==
  ASSUME IInv, IInv', UrlWritten \/ Restart \/ AdvanceWritten
  PROVE  \E t \in Urls : Listener!Load(t)
<1>1. PICK t \in Urls : t = url'
  BY DEF UrlWritten, Restart, AdvanceWritten, IInv, HandlerInv, TypeOK
<1>2. paused' = FALSE BY DEF UrlWritten, Restart, AdvanceWritten, Restarted
<1>3. ctl'.pc # "next" BY DEF UrlWritten, Restart, AdvanceWritten, Idle
<1>4. \/ pipe' = [src |-> url', how |-> "legacy"] /\ eof' = FALSE /\ spawns' = 1
      \/ pipe' = NoPipe /\ eof' \in BOOLEAN /\ spawns' = 0
  BY DEF UrlWritten, Restart, AdvanceWritten, LegacyFromCommand, NotStarted
<1>5. \/ Playing' = t /\ eof' = FALSE /\ spawns' = 1
      \/ Playing' = NoUrl /\ eof' \in BOOLEAN /\ spawns' = 0
  BY <1>1, <1>4, UrlAssumption DEF Playing, Pipe
<1>6. Listener!Load(t) BY <1>1, <1>2, <1>3, <1>5 DEF Listener!Load
<1> QED BY <1>6

LEMMA StopRefines == Stop => Listener!Stop
  BY DEF Stop, NotStarted, Playing, Listener!Stop

LEMMA PauseRefines == TogglePause => Listener!Pause
  BY DEF TogglePause, Playing, Listener!Pause

LEMMA SkipRefines == NextTrack \/ AutoAdvance => Listener!Skip
<1> SUFFICES ASSUME NextTrack \/ AutoAdvance PROVE Listener!Skip
  OBVIOUS
<1>1. /\ ctl.pc = "idle" /\ ctl'.pc = "next" /\ pipe' = NoPipe
      /\ eof' = eof \/ eof' = FALSE
      /\ url' = url /\ paused' = paused /\ spawns' = spawns
  BY DEF NextTrack, AutoAdvance, Advance
<1>2. Playing' = NoUrl BY <1>1 DEF Playing
<1> QED BY <1>1, <1>2 DEF Listener!Skip

LEMMA YieldRefines == DownloadWav => Listener!Yield
  BY DEF DownloadWav, Playing, Listener!Yield

(* A render that begins the track finds a player that waits. *)
LEMMA Waits ==
  ASSUME IInv, url \in Urls, pipe = NoPipe, ~eof, ~paused, ctl.pc # "next"
  PROVE  Listener!Waiting /\ spawns < 2
<1>1. Playing = NoUrl /\ url # NoUrl BY UrlAssumption DEF Playing
<1>2. spawns < 2 BY DEF IInv, SpawnInv, TypeOK
<1> QED BY <1>1, <1>2 DEF Listener!Waiting, Listener!Silent

LEMMA BeginRefines ==
  ASSUME Listener!Waiting, spawns < 2, NEW how \in {"resolved", "legacy"}, Spawned(url, how), url \in Urls,
         ctl'.pc # "next", ctl.pc # "next", UNCHANGED <<url, paused, eof>>
  PROVE  Listener!Begin
<1>1. pipe' = [src |-> url, how |-> how] /\ spawns' = spawns + 1 BY DEF Spawned
<1>2. Playing' = url
  BY <1>1, UrlAssumption DEF Playing, Pipe
<1> QED BY <1>1, <1>2 DEF Listener!Begin

LEMMA ResolvedRefines ==
  ASSUME IInv, OpenResolved
  PROVE  Listener!Begin \/ UNCHANGED Listener!vars
<1>1. /\ url \in Urls /\ pipe = NoPipe /\ ~eof /\ ~paused /\ ctl.pc = "idle"
      /\ resolve.media = url
  BY DEF OpenResolved, NoStream, IInv, TypeOK, AnswerInv, CaughtUp
<1>2. UNCHANGED <<url, paused, eof>> /\ ctl'.pc # "next" BY DEF OpenResolved
<1>3. CASE Spawned(resolve.media, "resolved")
  BY <1>1, <1>2, <1>3, Waits, BeginRefines
<1>4. CASE UNCHANGED <<pipe, spawns>>
  BY <1>1, <1>2, <1>4 DEF Playing, Listener!vars
<1> QED BY <1>3, <1>4 DEF OpenResolved

LEMMA LegacyRefines ==
  ASSUME IInv, OpenLegacy
  PROVE  Listener!Begin \/ Listener!GiveUp
<1>1. url \in Urls /\ pipe = NoPipe /\ ~eof /\ ~paused /\ ctl.pc = "legacy"
  BY DEF OpenLegacy, IInv, HandlerInv
<1>2. Listener!Waiting /\ spawns < 2 BY <1>1, Waits
<1>3. url' = url /\ paused' = paused /\ ctl'.pc = "idle" BY DEF OpenLegacy, Idle
<1>4. CASE Spawned(url, "legacy") /\ eof' = FALSE
  <2>1. eof' = eof BY <1>1, <1>4 DEF IInv, TypeOK
  <2> QED BY <1>1, <1>2, <1>3, <1>4, <2>1, BeginRefines
<1>5. CASE eof' = TRUE /\ UNCHANGED <<pipe, spawns>>
  BY <1>1, <1>2, <1>3, <1>5 DEF Playing, Listener!GiveUp
<1> QED BY <1>4, <1>5 DEF OpenLegacy

(* The end of a stream is the end of the track only if it fell back before,  *)
(* or was started by the pipeline behind which there is no other.           *)
LEMMA EndRefines ==
  ASSUME IInv, PipeEnds
  PROVE  Listener!Cease
<1>1. /\ ctl.pc = "idle" /\ ctl' = ctl /\ ~eof /\ ~paused /\ pipe # NoPipe
      /\ pipe' = NoPipe /\ UNCHANGED <<url, paused, spawns>>
  BY DEF PipeEnds
<1>2. Playing # NoUrl /\ Playing' = NoUrl BY <1>1, Sounds DEF Playing
<1>3. \/ eof' = eof /\ spawns <= 1
      \/ eof' = TRUE
  BY <1>1 DEF PipeEnds, FallsBack, IInv, SpawnInv, TypeOK
<1>4. (eof' \/ spawns < 2) /\ eof' \in BOOLEAN
  <2>1. eof \in BOOLEAN /\ spawns \in Nat BY DEF IInv, TypeOK
  <2>2. CASE eof' = TRUE BY <2>2
  <2>3. CASE eof' = eof /\ spawns <= 1 BY <2>1, <2>3
  <2> QED BY <1>3, <2>2, <2>3
<1> QED BY <1>1, <1>2, <1>4 DEF Listener!Cease, Listener!Silent

(* Everything else does not show. *)
LEMMA Unseen ==
  ASSUME UNCHANGED <<url, pipe, eof, paused, spawns>>, ctl.pc # "next", ctl'.pc # "next"
  PROVE  UNCHANGED Listener!vars
  BY DEF Playing, Listener!vars

LEMMA StepRefines == IInv /\ IInv' /\ [Next]_vars => [Listener!Next]_Listener!vars
<1> SUFFICES ASSUME IInv, IInv', [Next]_vars PROVE [Listener!Next]_Listener!vars
  OBVIOUS
<1>1. CASE UrlWritten \/ Restart \/ AdvanceWritten
  BY <1>1, CommandRefines DEF Listener!Next
<1>2. CASE Stop \/ TogglePause \/ NextTrack \/ AutoAdvance \/ DownloadWav
  BY <1>2, StopRefines, PauseRefines, SkipRefines, YieldRefines DEF Listener!Next
<1>3. CASE OpenResolved \/ OpenLegacy \/ PipeEnds
  BY <1>3, ResolvedRefines, LegacyRefines, EndRefines DEF Listener!Next
<1>4. CASE UNCHANGED <<url, pipe, eof, paused, spawns, ctl>>
  BY <1>4 DEF Playing, Listener!vars
<1>5. CASE AdvanceClears \/ StartResolve \/ StopClears \/ PrefetchPicks \/ PrefetchStarts
  BY <1>5, Unseen DEF AdvanceClears, StartResolve, StopClears, PrefetchPicks, PrefetchStarts, Idle
<1>6. CASE OpenResolvedFails \/ OpenAfterFailure \/ OpenResolves
  BY <1>6, Unseen DEF OpenResolvedFails, OpenAfterFailure, OpenResolves, NoStream
<1>7. ASSUME NEW u \in Urls, SetUrl(u) PROVE UNCHANGED Listener!vars
  BY <1>7, Unseen DEF SetUrl
<1> QED
  BY <1>1, <1>2, <1>3, <1>4, <1>5, <1>6, <1>7
  DEF Next, Client, Handler, Render, Resolver, Prefetcher, vars, SetProvider, SetAutoAdvance,
      SetIndex, ResolverReads, ResolverEnds, PrefetcherReads, PrefetcherEnds, DownloadEnds,
      ResultsPublished

(* For all tracks, providers and result lists, and any number of commands:   *)
(* v2_set_param and v2_render_block, with the resolve and prefetch threads   *)
(* at work, are a Player.  In particular the player begins nothing while it  *)
(* is between two tracks, paused, ended or stopped.                         *)
THEOREM IsAPlayer == Spec => ImplementsPlayer
<1>1. IInv /\ [Next]_vars => IInv' BY NextKeeps
<1> QED
  BY <1>1, InitHolds, PlayerStarts, StepRefines, PTL DEF Spec, ImplementsPlayer, Listener!Spec
=============================================================================
