----------------------------- MODULE HostProofs -----------------------------
(* Theorems about Host, for all tracks, lists, filter tables and bounds. *)
EXTENDS Host, TLAPS

(* What the assumption says of the constants, fact by fact. *)
LEMMA Bounds == Retries \in Nat /\ MaxConns \in Nat /\ None \notin Tracks
  BY HostAssumption

LEMMA ListType == ASSUME TypeOK PROVE results \in Seq(Tracks)
<1>1. Lists \subseteq Seq(Tracks)
  BY HostAssumption
<1>2. <<>> \in Seq(Tracks)
  OBVIOUS
<1> QED
  BY <1>1, <1>2, Zenon DEF TypeOK

LEMMA RowType == ASSUME TypeOK, NEW i \in 0..(Len(results) - 1)
                 PROVE  results[i + 1] \in Tracks /\ i \in Nat
  BY ListType

LEMMA ServerType == \A pc \in Places : Server(pc) \in Servers
  BY Bounds DEF Server, Servers

LEMMA ServerRow == ASSUME NEW c \in Servers, NEW r \in Nat, NEW v \in Tracks
                   PROVE  [c EXCEPT !.row = r, !.url = v] \in Servers
  BY DEF Servers

LEMMA PlacesAre == {"check", "accept", "recv", "title", "play", "nap", "stop", "gone"} \subseteq Places
  BY DEF Places

-----------------------------------------------------------------------------
(* The parts of the state type that a step of a kind leaves alone. *)
EngineType ==
  /\ results \in Lists \cup {<<>>}
  /\ search \in {"none", "runs", "spawns"} /\ queued \in BOOLEAN /\ index \in Nat
PlayingType == url \in Tracks \cup {None} /\ auto \in BOOLEAN
               /\ name \in (Tracks \ Untitled) \cup {None}
FilterType == /\ chosen \in [Fields -> Nat]
              /\ picked \in [{"style", "country"} -> (Nat \X Nat) \cup {None}]
ProcessType ==
  /\ download \in {"none", "runs", "cancelled"}
  /\ timer \in {"check", "render", "push", "gone"}
  /\ main \in {"serve", "joins", "joinsCtl", "clears", "frees", "freed", "exit"}
  /\ run \in BOOLEAN /\ listening \in BOOLEAN
RestType == drift \subseteq {"name", "row", "list"} /\ conns \in 0..MaxConns

LEMMA TypeParts == TypeOK <=> /\ EngineType /\ PlayingType /\ FilterType
                              /\ ctl \in Servers /\ ProcessType /\ RestType
  BY DEF TypeOK, EngineType, PlayingType, FilterType, ProcessType, RestType
LEMMA TypePartsAfter == TypeOK' <=> /\ EngineType' /\ PlayingType' /\ FilterType'
                                    /\ (ctl \in Servers)' /\ ProcessType' /\ RestType'
  BY TypeParts, PTL

LEMMA SameEngine == EngineType /\ UNCHANGED engine => EngineType'
  BY DEF EngineType, engine
LEMMA SamePlaying == PlayingType /\ UNCHANGED playing => PlayingType'
  BY DEF PlayingType, playing
LEMMA SameFilter == FilterType /\ UNCHANGED filter => FilterType'
  BY DEF FilterType, filter
LEMMA SameProcess == ProcessType /\ UNCHANGED process => ProcessType'
  BY DEF ProcessType, process

(* A step of a download is about nothing else, but for the line that asks.  *)
DownloadStep == DownloadWav \/ DownloadCancel \/ DownloadEnds \/ CancelledEnds

LEMMA DownloadAlone ==
  ASSUME DownloadStep
  PROVE  /\ UNCHANGED <<engine, playing, filter, timer, main, run, listening, drift, conns>>
         /\ download' \in {"none", "runs", "cancelled"}
         /\ \/ UNCHANGED ctl /\ download # "none"
            \/ ctl.pc = "recv" /\ ctl' = Server("check")
  BY DEF DownloadStep, DownloadWav, DownloadCancel, DownloadEnds, CancelledEnds, Downloads

LEMMA TypeInit == Init => TypeOK
<1> SUFFICES ASSUME Init PROVE TypeOK
  OBVIOUS
<1>1. EngineType
  BY DEF Init, EngineType
<1>5. RestType
  BY Bounds DEF Init, RestType
<1>4. PlayingType /\ ProcessType
  BY DEF Init, PlayingType, ProcessType
<1>2. FilterType
  BY DEF Init, FilterType
<1>3. ctl \in Servers
  BY ServerType, PlacesAre DEF Init
<1> QED
  BY <1>1, <1>2, <1>3, <1>4, <1>5, TypeParts

LEMMA TypeSearchThread == TypeOK /\ SearchThread => TypeOK'
<1> SUFFICES ASSUME TypeOK, SearchThread PROVE TypeOK'
  OBVIOUS
<1>1. EngineType'
  BY TypeParts DEF SearchThread, Publish, SpawnQueued, EngineType
<1>2. RestType'
  BY TypeParts DEF SearchThread, Publish, SpawnQueued, RestType
<1>3. UNCHANGED <<playing, filter, ctl, process>>
  BY DEF SearchThread, Publish, SpawnQueued
<1> QED
  BY <1>1, <1>2, <1>3, TypeParts, TypePartsAfter, SamePlaying, SameFilter, SameProcess

LEMMA TypeReadsRow ==
  ASSUME TypeOK, NEW i \in Int, NEW tries \in 0..Retries, NEW fallback \in BOOLEAN,
         fallback => i \in Nat, ReadsRow(i, tries, fallback)
  PROVE  TypeOK'
<1>1. UNCHANGED <<engine, playing, filter, process, conns>> /\ drift' \subseteq drift
  BY DEF ReadsRow
<1>2. ctl' \in Servers
  <2>1. CASE i \in 0..(Len(results) - 1)
    <3>1. ctl' = [Server("title") EXCEPT !.row = i, !.url = results[i + 1]]
      BY <2>1 DEF ReadsRow
    <3>2. results[i + 1] \in Tracks /\ i \in Nat
      BY <2>1, RowType
    <3> QED
      <4>1. Server("title") \in Servers
        BY ServerType, PlacesAre
      <4> QED
        BY <3>1, <3>2, <4>1, ServerRow
  <2>2. CASE i \notin 0..(Len(results) - 1)
    <3>1. CASE fallback /\ tries < Retries
      <4>1. ctl' = [Server("nap") EXCEPT !.row = i, !.tries = tries + 1]
        BY <2>2, <3>1 DEF ReadsRow, MayRetry
      <4>2. i \in Nat /\ tries + 1 \in 0..Retries
        BY <3>1, Bounds
      <4> QED
        BY <4>1, <4>2, ServerType, PlacesAre DEF Servers
    <3>2. CASE ~(fallback /\ tries < Retries)
      BY <2>2, <3>2, ServerType, PlacesAre DEF ReadsRow, MayRetry
    <3> QED
      BY <3>1, <3>2
  <2> QED
    BY <2>1, <2>2
<1>3. RestType'
  BY <1>1, TypeParts DEF RestType
<1> QED
  BY <1>1, <1>2, <1>3, TypeParts, TypePartsAfter, SameEngine, SamePlaying, SameFilter,
     SameProcess

(* A line that leaves the server at pc. *)
LEMMA TypeLine == ASSUME TypeOK, NEW pc \in Places, Line(pc)
                  PROVE  (ctl \in Servers)' /\ UNCHANGED <<process, conns>>
  BY ServerType DEF Line

LEMMA TypeAdvance ==
  ASSUME TypeOK, NEW i \in Int, Advance(i)
  PROVE  EngineType' /\ PlayingType' /\ FilterType' /\ RestType'
<1>1. results[i + 1] \in Tracks /\ i \in Nat
  BY RowType DEF Advance
<1>2. EngineType' /\ PlayingType'
  BY <1>1, TypeParts DEF Advance, EngineType, PlayingType
<1>3. FilterType'
  BY TypeParts, SameFilter DEF Advance
<1>4. RestType'
  BY TypeParts DEF Advance, RestType
<1> QED
  BY <1>2, <1>3, <1>4

LEMMA TypeFilterIndex ==
  ASSUME TypeOK, NEW f \in Fields, NEW i \in Int, SetFilterIndex(f, i)
  PROVE  FilterType'
<1>1. i \in Nat
  BY DEF SetFilterIndex
<1>2. chosen' \in [Fields -> Nat]
  BY <1>1, TypeParts DEF SetFilterIndex, FilterType
<1>3. Under(f) \in Nat
  BY TypeParts DEF Under, FilterType, Fields
<1>4. picked' \in [{"style", "country"} -> (Nat \X Nat) \cup {None}]
  BY <1>1, <1>3, TypeParts DEF SetFilterIndex, FilterType
<1> QED
  BY <1>2, <1>4 DEF FilterType

LEMMA TypeDownload == TypeOK /\ DownloadStep => TypeOK'
<1> SUFFICES ASSUME TypeOK, DownloadStep PROVE TypeOK'
  OBVIOUS
<1>1. ctl' \in Servers
  BY DownloadAlone, TypeParts, ServerType, PlacesAre
<1>2. ProcessType' /\ RestType'
  BY DownloadAlone, TypeParts DEF ProcessType, RestType
<1> QED
  BY <1>1, <1>2, DownloadAlone, TypeParts, TypePartsAfter, SameEngine, SamePlaying, SameFilter

LEMMA TypeClient == TypeOK /\ Client /\ Rows \subseteq Int => TypeOK'
<1> SUFFICES ASSUME TypeOK, Client, Rows \subseteq Int PROVE TypeOK'
  OBVIOUS
<1> USE TypeParts
<1>0. index \in Nat /\ Retries \in Nat /\ 0 \in 0..Retries
  BY Bounds DEF EngineType
<1>1. CASE NothingToDo
  BY <1>1, TypeLine, PlacesAre, TypePartsAfter, SameEngine, SamePlaying, SameFilter, SameProcess
     DEF NothingToDo, RestType
<1>2. CASE PlayPauseStep
  <2>1. CASE ReadsRow(index, 0, TRUE)
    <3>1. index \in Int /\ index \in Nat /\ TRUE \in BOOLEAN
      BY <1>0
    <3> QED
      BY <2>1, <1>0, <3>1, TypeReadsRow, Zenon
  <2>2. CASE Line("check") /\ UNCHANGED <<engine, playing, filter, drift>>
    BY <2>2, TypeLine, PlacesAre, TypePartsAfter, SameEngine, SamePlaying, SameFilter, SameProcess
       DEF RestType
  <2> QED
    BY <1>2, <2>1, <2>2 DEF PlayPauseStep
<1>3. CASE Stop
  <2>1. (ctl \in Servers)' /\ UNCHANGED <<process, conns>>
    BY <1>3, TypeLine, PlacesAre DEF Stop
  <2>2. PlayingType' /\ RestType'
    BY <1>3, <2>1 DEF Stop, Forgets, PlayingType, RestType
  <2> QED
    BY <1>3, <2>1, <2>2, TypePartsAfter, SameEngine, SameFilter, SameProcess DEF Stop
<1>4. CASE NextTrackStep
  <2>1. PICK i \in Int : Advance(i)
    BY <1>4, <1>0 DEF NextTrackStep
  <2>2. (ctl \in Servers)' /\ UNCHANGED process
    BY <1>4, ServerType, PlacesAre DEF NextTrackStep
  <2> QED
    BY <2>1, <2>2, TypeAdvance, TypePartsAfter, SameProcess
<1>5. CASE SetAutoAdvance
  <2>1. (ctl \in Servers)' /\ UNCHANGED <<process, conns>>
    BY <1>5, TypeLine, PlacesAre DEF SetAutoAdvance
  <2>2. PlayingType' /\ RestType'
    BY <1>5, <2>1 DEF SetAutoAdvance, PlayingType, RestType
  <2> QED
    BY <1>5, <2>1, <2>2, TypePartsAfter, SameEngine, SameFilter, SameProcess
       DEF SetAutoAdvance
<1>6. CASE SearchGo
  <2>1. (ctl \in Servers)' /\ UNCHANGED <<process, conns>>
    BY <1>6, TypeLine, PlacesAre DEF SearchGo
  <2>2. EngineType' /\ RestType'
    BY <1>6, <2>1 DEF SearchGo, EngineType, RestType
  <2> QED
    BY <1>6, <2>1, <2>2, TypePartsAfter, SamePlaying, SameFilter, SameProcess
       DEF SearchGo
<1>7. ASSUME NEW i \in Rows, PlayResult(i) PROVE TypeOK'
  BY <1>7, <1>0, TypeReadsRow DEF PlayResult
<1>8. ASSUME NEW i \in Rows, SetResultIndex(i) PROVE TypeOK'
  <2>1. (ctl \in Servers)' /\ UNCHANGED <<process, conns>>
    BY <1>8, TypeLine, PlacesAre DEF SetResultIndex
  <2>2. EngineType' /\ RestType'
    BY <1>8, <2>1 DEF SetResultIndex, EngineType, RestType
  <2> QED
    BY <1>8, <2>1, <2>2, TypePartsAfter, SamePlaying, SameFilter, SameProcess
       DEF SetResultIndex
<1>9. ASSUME NEW i \in Rows, NEW f \in Fields, SetFilterIndex(f, i) PROVE TypeOK'
  <2>1. (ctl \in Servers)' /\ UNCHANGED <<process, conns>>
    BY <1>9, TypeLine, PlacesAre DEF SetFilterIndex
  <2>2. FilterType'
    BY <1>9, TypeFilterIndex
  <2> QED
    BY <1>9, <2>1, <2>2, TypePartsAfter, SameEngine, SamePlaying, SameProcess
       DEF SetFilterIndex, RestType
<1>10. ASSUME NEW t \in Tracks, SetStreamUrl(t) PROVE TypeOK'
  <2>1. (ctl \in Servers)' /\ UNCHANGED <<process, conns>>
    BY <1>10, TypeLine, PlacesAre DEF SetStreamUrl
  <2>2. PlayingType' /\ RestType'
    BY <1>10, <2>1 DEF SetStreamUrl, PlayingType, RestType
  <2> QED
    BY <1>10, <2>1, <2>2, TypePartsAfter, SameEngine, SameFilter, SameProcess
       DEF SetStreamUrl
<1>11. CASE DownloadWav \/ DownloadCancel
  BY <1>11, TypeDownload DEF DownloadStep
<1> QED
  BY <1>1, <1>2, <1>3, <1>4, <1>5, <1>6, <1>7, <1>8, <1>9, <1>10, <1>11 DEF Client

LEMMA TypeCtl == TypeOK /\ Ctl => TypeOK'
<1> SUFFICES ASSUME TypeOK, Ctl PROVE TypeOK'
  OBVIOUS
<1> USE TypeParts
<1>0. Retries \in Nat
  BY Bounds
<1>1. CASE CtlChecks \/ AcceptFails
  <2>1. ctl' \in Servers
    BY <1>1, ServerType, PlacesAre DEF CtlChecks, AcceptFails
  <2> QED
    BY <1>1, <2>1, TypePartsAfter, SameEngine, SamePlaying, SameFilter, SameProcess
       DEF CtlChecks, AcceptFails, RestType
<1>2. CASE NapEnds
  <2>1. ctl.row \in Nat /\ ctl.row \in Int /\ ctl.tries \in 0..Retries /\ TRUE \in BOOLEAN
    BY DEF Servers
  <2>2. ReadsRow(ctl.row, ctl.tries, TRUE)
    BY <1>2 DEF NapEnds
  <2> QED
    BY <2>1, <2>2, TypeReadsRow, Zenon
<1>3. CASE ReadsTitle
  <2> DEFINE here == {i \in {ctl.row} : i < Len(results)}
             titles == {results[i + 1] : i \in here} \ Untitled
             title == IF titles = {} THEN None ELSE results[ctl.row + 1]
  <2>1. title \in (Tracks \ Untitled) \cup {None}
    <3>1. CASE titles = {}
      BY <3>1
    <3>2. CASE titles # {}
      <4>1. ctl.row < Len(results)
        BY <3>2
      <4>2. ctl.row \in Nat /\ Len(results) \in Nat
        BY ListType DEF Servers
      <4>3. ctl.row \in 0..(Len(results) - 1)
        BY <4>1, <4>2
      <4> QED
        BY <3>2, <4>3, RowType
    <3> QED
      BY <3>1, <3>2, Zenon
  <2>2. ctl' = [ctl EXCEPT !.pc = "play", !.mixed = "list" \in drift, !.title = title]
    BY <1>3, Zenon DEF ReadsTitle
  <2>3. ctl' \in Servers
    <3>1. ("list" \in drift) \in BOOLEAN
      <4>1. CASE "list" \in drift
        <5>1. ("list" \in drift) = TRUE
          BY <4>1
        <5> QED
          BY <5>1, Zenon
      <4>2. CASE "list" \notin drift
        <5>1. ("list" \in drift) = FALSE
          BY <4>2
        <5> QED
          BY <5>1, Zenon
      <4> QED
        BY <4>1, <4>2, Zenon
    <3> DEFINE mixed == "list" \in drift
    <3> HIDE DEF title, mixed
    <3>2. ctl' = [ctl EXCEPT !.pc = "play", !.mixed = mixed, !.title = title]
      BY <2>2 DEF mixed
    <3>3. mixed \in BOOLEAN
      BY <3>1 DEF mixed
    <3> QED
      BY <2>1, <3>2, <3>3, PlacesAre DEF Servers
  <2> QED
    BY <1>3, <2>3, TypePartsAfter, SameEngine, SamePlaying, SameFilter, SameProcess
       DEF ReadsTitle, RestType
<1>4. CASE Plays
  <2>1. ctl' \in Servers
    BY <1>4, ServerType, PlacesAre DEF Plays
  <2>2. EngineType'
    BY <1>4 DEF Plays, IndexFollows, EngineType, Servers
  <2>3. RestType'
    BY <1>4 DEF Plays, RestType
  <2> QED
    BY <1>4, <2>1, <2>2, <2>3, TypePartsAfter, SameFilter, SameProcess
       DEF Plays, PlayingType, Servers
<1>5. CASE Stops
  <2>1. ctl' \in Servers
    BY <1>5, ServerType, PlacesAre DEF Stops
  <2>2. PlayingType'
    BY <1>5 DEF Stops, PlayingType
  <2> QED
    BY <1>5, <2>1, <2>2, TypePartsAfter, SameEngine, SameFilter, SameProcess
       DEF Stops, RestType
<1> QED
  BY <1>1, <1>2, <1>3, <1>4, <1>5 DEF Ctl

LEMMA TypeTimer == TypeOK /\ Timer => TypeOK'
<1> SUFFICES ASSUME TypeOK, Timer PROVE TypeOK'
  OBVIOUS
<1> USE TypeParts
<1>1. CASE TimerChecks \/ Render \/ Pushes
  <2>1. ProcessType'
    BY <1>1 DEF TimerChecks, Render, Pushes, ProcessType
  <2> QED
    BY <1>1, <2>1, TypePartsAfter, SameEngine, SamePlaying, SameFilter
       DEF TimerChecks, Render, Pushes, RestType
<1>2. CASE RenderAdvances
  <2>1. index + 1 \in Int /\ Advance(index + 1)
    BY <1>2 DEF RenderAdvances, EngineType
  <2>2. ProcessType' /\ ctl' \in Servers
    BY <1>2 DEF RenderAdvances, ProcessType
  <2> QED
    BY <2>1, <2>2, TypeAdvance, TypePartsAfter
<1> QED
  BY <1>1, <1>2 DEF Timer

LEMMA TypeMain == TypeOK /\ (Main \/ Signal) => TypeOK'
<1> SUFFICES ASSUME TypeOK, Main \/ Signal PROVE TypeOK'
  OBVIOUS
<1> USE TypeParts
<1>1. UNCHANGED <<engine, filter, ctl, drift, conns>>
  BY DEF Main, Signal, MainWakes, ShutsDown, JoinsCtl, ClearsFile, Destroys, Exits, MainGoes
<1>2. ProcessType'
  BY DEF Main, Signal, MainWakes, ShutsDown, JoinsCtl, ClearsFile, Destroys, Exits, MainGoes,
         ProcessType
<1>3. PlayingType'
  BY DEF Main, Signal, MainWakes, ShutsDown, JoinsCtl, ClearsFile, Destroys, Exits, MainGoes,
         PlayingType, playing
<1> QED
  BY <1>1, <1>2, <1>3, TypePartsAfter, SameEngine, SameFilter DEF RestType

LEMMA TypeStep == TypeOK /\ [Next]_vars => TypeOK'
<1> SUFFICES ASSUME TypeOK, [Next]_vars PROVE TypeOK'
  OBVIOUS
<1>0. Rows \subseteq Int
  BY HostAssumption
<1>1. CASE UNCHANGED vars
  BY <1>1, TypeParts, TypePartsAfter, SameEngine, SamePlaying, SameFilter, SameProcess
     DEF vars, RestType
<1>2. CASE Accept
  <2>1. ctl' \in Servers
    BY <1>2, ServerType, PlacesAre DEF Accept
  <2>2. RestType'
    BY <1>2, Bounds, TypeParts DEF Accept, RestType
  <2> QED
    BY <1>2, <2>1, <2>2, TypeParts, TypePartsAfter, SameEngine, SamePlaying, SameFilter,
       SameProcess DEF Accept
<1> QED
  BY <1>0, <1>1, <1>2, TypeSearchThread, TypeClient, TypeCtl, TypeTimer, TypeMain,
     TypeDownload DEF Next, DownloadStep

(* Every state of every behaviour has the state type: in particular the      *)
(* fallback of play_pause_step naps no more often than it may (host 921-925).  *)
THEOREM TypeCorrect == Spec => []TypeOK
  BY TypeInit, TypeStep, PTL DEF Spec

-----------------------------------------------------------------------------
(* A style or a country that is chosen was picked under the genre or the     *)
(* region that is chosen with it.                                            *)
FilterInv ==
  /\ chosen["style"] # 0 => picked["style"] = <<chosen["genre"], chosen["style"]>>
  /\ chosen["country"] # 0 => picked["country"] = <<chosen["region"], chosen["country"]>>

LEMMA FilterInvStep == FilterType /\ FilterInv /\ [Next]_vars => FilterInv'
<1> SUFFICES ASSUME FilterType, FilterInv, [Next]_vars PROVE FilterInv'
  OBVIOUS
<1>1. CASE UNCHANGED filter
  BY <1>1 DEF filter, FilterInv
<1>2. ASSUME NEW f \in Fields, NEW i \in Rows, SetFilterIndex(f, i) PROVE FilterInv'
  BY <1>2 DEF SetFilterIndex, Starts, Under, FilterInv, FilterType, Fields
<1>3. CASE DownloadStep
  BY <1>1, <1>3, DownloadAlone
<1> QED
  BY <1>1, <1>2, <1>3 DEF Next, DownloadStep, vars, SearchThread, Publish, SpawnQueued, Accept, Client,
     NothingToDo, PlayPauseStep, ReadsRow, Stop, NextTrackStep, Advance, SetAutoAdvance,
     SearchGo, PlayResult, SetResultIndex, SetStreamUrl, Ctl, CtlChecks, AcceptFails,
     NapEnds, ReadsTitle, Plays, Stops, Timer, TimerChecks, Render, RenderAdvances, Pushes,
     Main, MainWakes, ShutsDown, JoinsCtl, ClearsFile, Destroys, Exits, MainGoes, Signal

(* No search is ever started for a style of another genre or a country of    *)
(* another region, whatever the tables hold and however often the client     *)
(* goes back and forth (host 831-875 and 798-810).                           *)
THEOREM FilterPicked == Spec => []FilterAsPicked
<1>1. Init => FilterInv
  BY DEF Init, FilterInv, Fields
<1>2. TypeOK => FilterType
  BY TypeParts
<1>3. FilterInv => FilterAsPicked
  BY DEF FilterInv, FilterAsPicked, Sent, Entry, Under
<1> QED
  BY <1>1, <1>2, <1>3, FilterInvStep, TypeCorrect, PTL DEF Spec

-----------------------------------------------------------------------------
(* How far main has come says which threads are gone; the loops end only     *)
(* after the signal, and a thread that is gone does nothing.                 *)
ExitInv ==
  /\ main \in {"joinsCtl", "clears", "frees", "freed", "exit"} => timer = "gone"
  /\ main \in {"clears", "frees", "freed", "exit"} => ctl.pc = "gone"
  /\ main \in {"frees", "freed", "exit"} => name = None
  /\ main \in {"freed", "exit"} => download = "none"

LEMMA ExitInvStep == ExitInv /\ [Next]_vars => ExitInv'
<1> SUFFICES ASSUME ExitInv, [Next]_vars PROVE ExitInv'
  OBVIOUS
<1>1. CASE UNCHANGED <<main, timer, ctl, name, download>>
  BY <1>1 DEF ExitInv
<1>2. CASE SearchThread
  BY <1>2, <1>1 DEF SearchThread, Publish, SpawnQueued, playing, process
<1>3. CASE ctl.pc # "gone" /\ UNCHANGED <<timer, main>>
  BY <1>3 DEF ExitInv
<1>9. CASE DownloadStep
  <2>1. CASE UNCHANGED ctl /\ download # "none"
    BY <1>9, <2>1, DownloadAlone DEF ExitInv, playing
  <2>2. CASE ctl.pc = "recv"
    BY <1>9, <2>2, <1>3, DownloadAlone
  <2> QED
    BY <1>9, <2>1, <2>2, DownloadAlone
<1>4. CASE (Accept \/ Client \/ Ctl) /\ ~DownloadStep
  <2>1. ctl.pc # "gone"
    BY <1>4 DEF Accept, Client, NothingToDo, Line, PlayPauseStep, Stop, NextTrackStep,
       SetAutoAdvance, SearchGo, PlayResult, SetResultIndex, SetFilterIndex, SetStreamUrl,
       Ctl, CtlChecks, AcceptFails, NapEnds, ReadsTitle, Plays, Stops, DownloadStep
  <2>2. UNCHANGED <<timer, main>>
    BY <1>4 DEF Accept, Client, NothingToDo, Line, PlayPauseStep, ReadsRow, Stop,
       NextTrackStep, SetAutoAdvance, SearchGo, PlayResult, SetResultIndex, SetFilterIndex,
       SetStreamUrl, Ctl, CtlChecks, AcceptFails, NapEnds, ReadsTitle, Plays, Stops,
       DownloadStep, process
  <2> QED
    BY <1>3, <2>1, <2>2
<1>5. CASE Timer
  BY <1>5 DEF Timer, TimerChecks, Render, RenderAdvances, Advance, Pushes, ExitInv, playing
<1>6. CASE Main
  BY <1>6 DEF Main, MainWakes, ShutsDown, JoinsCtl, ClearsFile, Destroys, Exits, MainGoes,
              ExitInv
<1>7. CASE Signal
  BY <1>7, <1>1 DEF Signal, playing
<1>8. CASE UNCHANGED vars
  BY <1>8, <1>1 DEF vars, process, playing
<1> QED
  BY <1>2, <1>4, <1>5, <1>6, <1>7, <1>8, <1>9 DEF Next, DownloadStep

(* When the engine is destroyed and the ring unmapped, the render thread and *)
(* the control server have ended, and so has a download, and the now-playing *)
(* file is removed after the last client that could write it (1293-1318).    *)
THEOREM ExitIsClean == Spec => []CleanExit
<1>1. Init => ExitInv
  BY DEF Init, ExitInv
<1>2. ExitInv => CleanExit
  BY DEF ExitInv, CleanExit
<1> QED
  BY <1>1, <1>2, ExitInvStep, PTL DEF Spec

-----------------------------------------------------------------------------
(* While a row is read, its URL is the row's as long as the list stays, and  *)
(* so is the title if the list had not changed by the time it was read.      *)
ReadInv ==
  /\ ~LockFree /\ "list" \notin drift =>
       ctl.row < Len(results) /\ results[ctl.row + 1] = ctl.url
  /\ ctl.pc = "play" /\ ~ctl.mixed /\ ctl.title # None => ctl.title = ctl.url

(* A stream is stopped with its file already removed. *)
StopInv == ctl.pc = "stop" => name = None

StepInv == InStep /\ ReadInv /\ StopInv

LEMMA StepSearchThread == StepInv /\ SearchThread => StepInv'
  BY DEF StepInv, InStep, ReadInv, StopInv, LockFree, SearchThread, Publish, SpawnQueued, playing

LEMMA StepReadsRow ==
  ASSUME StepInv, LockFree, NEW i \in Int, NEW tries, NEW fallback,
         results \in Seq(Tracks), ReadsRow(i, tries, fallback)
  PROVE  StepInv'
<1>1. UNCHANGED <<results, url, index, name>> /\ drift \ {"list"} \subseteq drift'
  BY DEF ReadsRow, engine, playing
<1>2. CASE i \in 0..(Len(results) - 1)
  <2>1. ctl'.pc = "title" /\ ctl'.row = i /\ ctl'.url = results[i + 1]
    BY <1>2 DEF ReadsRow, Server
  <2> QED
    BY <1>1, <1>2, <2>1 DEF StepInv, InStep, ReadInv, StopInv, LockFree
<1>3. CASE i \notin 0..(Len(results) - 1)
  <2>1. ctl'.pc \in {"nap", "check"} /\ drift' = drift
    <3>1. ctl' = [Server("nap") EXCEPT !.row = i, !.tries = tries + 1]
          \/ ctl' = Server("check")
      BY <1>3, Zenon DEF ReadsRow
    <3>2. Server("nap").pc = "nap" /\ Server("check").pc = "check"
      BY DEF Server
    <3>3. [Server("nap") EXCEPT !.row = i, !.tries = tries + 1].pc = "nap"
      BY DEF Server
    <3>4. drift' = drift
      BY <1>3, Zenon DEF ReadsRow
    <3> QED
      BY <3>1, <3>2, <3>3, <3>4
  <2> QED
    BY <1>1, <2>1 DEF StepInv, InStep, ReadInv, StopInv, LockFree
<1> QED
  BY <1>2, <1>3

LEMMA StepAdvance ==
  ASSUME StepInv, LockFree, NEW i \in Int, Advance(i), ctl'.pc \notin {"title", "play"},
         ctl'.pc = "stop" => ctl.pc = "stop"
  PROVE  StepInv'
  BY DEF StepInv, InStep, ReadInv, StopInv, LockFree, Advance

LEMMA StepDownload == StepInv /\ DownloadStep => StepInv'
<1> SUFFICES ASSUME StepInv, DownloadStep PROVE StepInv'
  OBVIOUS
<1>1. UNCHANGED <<engine, playing, drift>>
  BY DownloadAlone
<1>2. UNCHANGED ctl \/ (ctl.pc = "recv" /\ ctl'.pc = "check")
  BY DownloadAlone DEF Server
<1> QED
  BY <1>1, <1>2 DEF StepInv, InStep, ReadInv, StopInv, LockFree, engine, playing

LEMMA StepClient == TypeOK /\ StepInv /\ (Client \/ Accept) /\ Rows \subseteq Int => StepInv'
<1> SUFFICES ASSUME TypeOK, StepInv, Client \/ Accept, Rows \subseteq Int PROVE StepInv'
  OBVIOUS
<1>0. results \in Seq(Tracks) /\ index \in Int
  BY ListType, TypeParts DEF EngineType
<1>1. ASSUME NEW pc \in {"check", "recv"}, ctl' = Server(pc)
      PROVE  ctl'.pc \notin {"title", "play", "stop"}
  BY <1>1 DEF Server
<1>2. CASE ctl.pc \in {"recv", "accept"} /\ ctl'.pc \notin {"title", "play", "stop"}
           /\ UNCHANGED <<engine, playing>> /\ drift \ {"list"} \subseteq drift'
  BY <1>2 DEF StepInv, InStep, ReadInv, StopInv, LockFree, engine, playing
<1>3. CASE NothingToDo \/ SetAutoAdvance \/ Accept
  BY <1>3, <1>1 DEF NothingToDo, SetAutoAdvance, Accept, Line, StepInv, InStep, ReadInv, StopInv,
     LockFree, engine, playing
<1>4. CASE PlayPauseStep
  <2>1. CASE ctl.pc = "recv" /\ ReadsRow(index, 0, TRUE)
    BY <2>1, <1>0, StepReadsRow DEF LockFree
  <2>2. CASE Line("check") /\ UNCHANGED <<engine, playing, filter, drift>>
    BY <2>2, <1>1, <1>2 DEF Line
  <2> QED
    BY <1>4, <2>1, <2>2 DEF PlayPauseStep
<1>5. CASE Stop
  BY <1>5 DEF Stop, Forgets, Line, Server, StepInv, InStep, ReadInv, StopInv, LockFree, engine
<1>6. CASE NextTrackStep
  <2>1. PICK i \in Int : Advance(i)
    BY <1>6, <1>0 DEF NextTrackStep
  <2>2. LockFree /\ ctl'.pc \notin {"title", "play", "stop"}
    BY <1>6, <1>1 DEF NextTrackStep, LockFree
  <2> QED
    BY <2>1, <2>2, StepAdvance
<1>7. CASE SearchGo
  BY <1>7, <1>1 DEF SearchGo, Line, StepInv, InStep, ReadInv, StopInv, LockFree, playing
<1>8. ASSUME NEW i \in Rows, PlayResult(i) PROVE StepInv'
  BY <1>8, <1>0, StepReadsRow DEF PlayResult, LockFree
<1>9. ASSUME NEW i \in Rows, SetResultIndex(i) PROVE StepInv'
  BY <1>9, <1>1 DEF SetResultIndex, Line, StepInv, InStep, ReadInv, StopInv, LockFree, playing
<1>10. ASSUME NEW i \in Rows, NEW f \in Fields, SetFilterIndex(f, i) PROVE StepInv'
  BY <1>10, <1>1, <1>2 DEF SetFilterIndex, Line
<1>11. ASSUME NEW t \in Tracks, SetStreamUrl(t) PROVE StepInv'
  BY <1>11, <1>1 DEF SetStreamUrl, Line, StepInv, InStep, ReadInv, StopInv, LockFree, engine
<1>12. CASE DownloadWav \/ DownloadCancel
  BY <1>12, StepDownload DEF DownloadStep
<1> QED
  BY <1>3, <1>4, <1>5, <1>6, <1>7, <1>8, <1>9, <1>10, <1>11, <1>12 DEF Client

LEMMA StepCtl == TypeOK /\ StepInv /\ Ctl => StepInv'
<1> SUFFICES ASSUME TypeOK, StepInv, Ctl PROVE StepInv'
  OBVIOUS
<1>0. results \in Seq(Tracks) /\ ctl \in Servers
  BY ListType, TypeParts
<1>1. ASSUME NEW pc \in {"check", "accept", "gone"}, ctl' = Server(pc)
      PROVE  ctl'.pc \notin {"title", "play", "stop"}
  BY <1>1 DEF Server
<1>2. CASE CtlChecks \/ AcceptFails
  BY <1>2, <1>1 DEF CtlChecks, AcceptFails, StepInv, InStep, ReadInv, StopInv, LockFree, engine, playing
<1>3. CASE NapEnds
  <2>1. LockFree /\ ReadsRow(ctl.row, ctl.tries, TRUE)
    BY <1>3 DEF NapEnds, LockFree
  <2>2. ctl.row \in Int
    BY <1>0 DEF Servers
  <2> QED
    BY <1>0, <2>1, <2>2, StepReadsRow, Zenon
<1>4. CASE ReadsTitle
  <2>1. /\ ctl'.pc = "play" /\ ctl'.row = ctl.row /\ ctl'.url = ctl.url
        /\ ctl'.mixed = ("list" \in drift)
        /\ ctl'.title \in {None, results[ctl.row + 1]}
    BY <1>4, <1>0 DEF ReadsTitle, Servers
  <2>2. UNCHANGED <<engine, playing, drift>>
    BY <1>4 DEF ReadsTitle
  <2> QED
    BY <1>4, <2>1, <2>2 DEF ReadsTitle, StepInv, InStep, ReadInv, StopInv, LockFree, engine, playing
<1>5. CASE Plays
  BY <1>5, <1>1 DEF Plays, IndexFollows, StepInv, InStep, ReadInv, StopInv, LockFree
<1>6. CASE Stops
  BY <1>6, <1>1 DEF Stops, StepInv, InStep, ReadInv, StopInv, LockFree, engine
<1> QED
  BY <1>2, <1>3, <1>4, <1>5, <1>6 DEF Ctl

LEMMA StepOthers == TypeOK /\ StepInv /\ (Timer \/ Main \/ Signal) => StepInv'
<1> SUFFICES ASSUME TypeOK, StepInv, Timer \/ Main \/ Signal PROVE StepInv'
  OBVIOUS
<1>1. CASE RenderAdvances
  <2>1. index + 1 \in Int
    BY TypeParts DEF EngineType
  <2>2. LockFree /\ ctl' = ctl /\ Advance(index + 1)
    BY <1>1 DEF RenderAdvances
  <2> QED
    BY <2>1, <2>2, StepAdvance DEF LockFree
<1>2. CASE ClearsFile
  BY <1>2 DEF ClearsFile, MainGoes, StepInv, InStep, ReadInv, StopInv, LockFree, engine
<1>3. CASE UNCHANGED <<engine, playing, ctl, drift>>
  BY <1>3 DEF StepInv, InStep, ReadInv, StopInv, LockFree, engine, playing
<1> QED
  BY <1>1, <1>2, <1>3 DEF Timer, TimerChecks, Render, Pushes, Main, MainWakes, ShutsDown,
     JoinsCtl, Destroys, Exits, MainGoes, Signal, playing

LEMMA StepInvStep == TypeOK /\ StepInv /\ [Next]_vars => StepInv'
<1> SUFFICES ASSUME TypeOK, StepInv, [Next]_vars PROVE StepInv'
  OBVIOUS
<1>1. Rows \subseteq Int
  BY HostAssumption
<1>2. CASE UNCHANGED vars
  BY <1>2 DEF vars, StepInv, InStep, ReadInv, StopInv, LockFree, engine, playing
<1> QED
  BY <1>1, <1>2, StepSearchThread, StepClient, StepCtl, StepOthers, StepDownload
  DEF Next, DownloadStep

(* Whatever lists a search publishes while a row is read, the file names the *)
(* track that is loaded and the highlighted row is the one that plays,       *)
(* unless one of the known causes parted them (host 725-771, 952-967).       *)
THEOREM NameAndRowInStep == Spec => []InStep
<1>1. Init => StepInv
  BY DEF Init, StepInv, InStep, ReadInv, StopInv, LockFree, Server
<1>2. StepInv => InStep
  BY DEF StepInv
<1> QED
  BY <1>1, <1>2, StepInvStep, TypeCorrect, PTL DEF Spec
=============================================================================
