--------------------------- MODULE DownloadProofs ---------------------------
(***************************************************************************)
(* The safety of Download, for every set of titles, every last number and  *)
(* any number of downloads.                                                *)
(***************************************************************************)
EXTENDS Download, TLAPS

USE DEF reported, request, loose, Exists

(* What the assumption says of the numbers and of names.                    *)
LEMMA Bounds ==
  /\ LastNumber \in Nat /\ LastNumber >= 2 /\ MaxDownloads \in Nat
  /\ LastNumber \in Numbers
  BY DownloadAssumption DEF Numbers
LEMMA NoNameIsNone == NoName \notin Names
  BY DownloadAssumption DEF Names, Numbers
LEMMA NoFileIsNone == NoFile \notin Content
  BY DownloadAssumption DEF Content, Downloads

(* The inductive invariant, part by part.  The thread and its process.      *)
ThreadInv ==
  /\ running <=> pc # "none"
  /\ pc \in {"none", "probe", "spawn"} => ffmpeg = "none"
  /\ pc = "check" => ffmpeg \in {"succeeded", "failed"}
  /\ running => title \in Titles /\ id \in Downloads /\ path = NoName
                /\ status = "downloading"

(* No download is both reported and killed, and the one that runs neither.  *)
PastInv ==
  /\ \A d \in done : d <= id /\ d \notin late
  /\ \A d \in late : d <= id
  /\ \A s \in strays : s[1] <= id /\ s[1] \notin done
  /\ running => id \notin done /\ id \notin late /\ \A s \in strays : s[1] # id

HasName == pc \in {"spawn", "wait", "check"}
Opened == ffmpeg \in {"writing", "succeeded", "failed"}
Own(n) == files[n].by = {id}

(* The name is one of the title's; there is no file under it but this       *)
(* download's or a stray's, or there was no other name; and there is one    *)
(* once ffmpeg has opened it.                                               *)
NameInv ==
  HasName => /\ \E n \in Numbers : out = <<title, n>>
             /\ ffmpeg \in {"writing", "succeeded"} => Exists(out) /\ (Own(out) \/ Spoiled(out))
             /\ \/ Exists(out) => Own(out) \/ Spoiled(out)
                \/ out = <<title, LastNumber>> /\ AllTaken(title)

(* A file was reported done, or a stray got to it, or it is being written.  *)
Kept(n) == \E d \in done : files[n] = [by |-> {d}, long |-> TRUE]
FilesInv ==
  \A n \in Names : Exists(n) => Kept(n) \/ Spoiled(n) \/ (HasName /\ n = out /\ Opened)

IInv == TypeOK /\ ThreadInv /\ PastInv /\ NameInv /\ FilesInv /\ DoneIsOnDisk

(* Before a command nothing is loaded and no file exists.                   *)
LEMMA InitHolds == Init => IInv
<1> SUFFICES ASSUME Init PROVE IInv OBVIOUS
<1>1. TypeOK
  <2>1. title \in Titles \cup {NoName} /\ id \in 0..MaxDownloads BY Bounds DEF Init
  <2>2. files \in [Names -> Content \cup {NoFile}] BY DEF Init
  <2> QED BY <2>1, <2>2 DEF Init, TypeOK
<1>2. FilesInv /\ PastInv BY DEF Init, FilesInv, PastInv
<1>3. ThreadInv /\ NameInv /\ DoneIsOnDisk BY DEF Init, ThreadInv, NameInv, HasName, DoneIsOnDisk
<1> QED BY <1>1, <1>2, <1>3 DEF IInv

(* The name a download has is a name.                                       *)
LEMMA OutIsName == ASSUME IInv, HasName PROVE out \in Names /\ out # NoName /\ running
  BY NoNameIsNone DEF IInv, ThreadInv, NameInv, HasName, Names, Numbers

(* What was written to a file are downloads.                                *)
LEMMA WritersAre == ASSUME TypeOK, NEW n \in Names PROVE WrittenBy(n) \subseteq Downloads
  BY DEF TypeOK, Content, WrittenBy

(* Every step keeps the types.                                              *)
LEMMA TypeStep == ASSUME IInv, [Next]_vars PROVE TypeOK'
<1> USE DEF IInv, TypeOK
<1>1. CASE Command
  <2>1. CASE \E t \in Titles : DownloadWav(t)
    <3>1. title' \in Titles \cup {NoName} BY <2>1 DEF DownloadWav
    <3>2. id' \in 0..MaxDownloads BY <2>1, Bounds DEF DownloadWav
    <3>3. pc' \in {pc, "probe"} /\ status' \in {"downloading", "error"} BY <2>1 DEF DownloadWav
    <3> QED BY <2>1, <3>1, <3>2, <3>3 DEF DownloadWav
  <2>2. CASE NothingPlaying BY <2>2 DEF NothingPlaying
  <2>3. CASE DownloadCancel BY <2>3 DEF DownloadCancel
  <2> QED BY <1>1, <2>1, <2>2, <2>3 DEF Command
<1>2. CASE Probe
  <2>1. title \in Titles /\ title' = title BY <1>2 DEF Probe, ThreadInv
  <2>2. LastLookedAt \in Numbers BY Bounds DEF LastLookedAt
  <2>3. out' \in Names BY <1>2, <2>1, <2>2 DEF Probe, Names
  <2> QED BY <1>2, <2>3 DEF Probe
<1>3. CASE Spawn BY <1>3, OutIsName DEF Spawn, Cancelled, Ends, Removed, HasName
<1>4. CASE Reaped BY <1>4 DEF Reaped
<1>5. CASE Killed
  <2>1. <<id, out>> \in Downloads \X Names
    BY <1>5, OutIsName DEF Killed, HasName, ThreadInv
  <2> QED BY <1>5, <2>1, OutIsName DEF Killed, Cancelled, Ends, Removed, HasName
<1>6. CASE Check
  <2>1. id \in Downloads /\ out \in Names BY <1>6, OutIsName DEF Check, HasName, ThreadInv
  <2> QED BY <1>6, <2>1 DEF Check, Cancelled, Success, Failure, Ends, Removed
<1>7. CASE FfmpegOpens \/ FfmpegEnds
  <2>1. id \in Downloads /\ out \in Names
    BY <1>7, OutIsName DEF FfmpegOpens, FfmpegEnds, ThreadInv, HasName
  <2>2. \A w \in SUBSET Downloads, l \in BOOLEAN : [by |-> w, long |-> l] \in Content
    BY DEF Content
  <2>3. {id} \cup (WrittenBy(out) \cap late) \in SUBSET Downloads /\ WrittenBy(out) \in SUBSET Downloads
    BY <2>1, WritersAre
  <2>4. ASSUME NEW w \in SUBSET Downloads, NEW l \in BOOLEAN, Holds(out, w, l)
        PROVE  files' \in [Names -> Content \cup {NoFile}]
    <3>1. [by |-> w, long |-> l] \in Content BY <2>2
    <3> QED BY <2>1, <2>4, <3>1 DEF Holds
  <2>5. files' \in [Names -> Content \cup {NoFile}]
    <3>1. CASE FfmpegOpens BY <2>3, <2>4, <3>1 DEF FfmpegOpens
    <3>2. CASE FfmpegEnds BY <2>3, <2>4, <3>2 DEF FfmpegEnds
    <3> QED BY <1>7, <3>1, <3>2
  <2> QED BY <1>7, <2>5 DEF FfmpegOpens, FfmpegEnds
<1>8. CASE StrayOpens
  <2>1. PICK s \in strays, l \in BOOLEAN :
          /\ Holds(s[2], {s[1]} \cup Writing(s[2]), l)
          /\ strays' = strays \ {s} /\ late' = late \cup {s[1]}
    BY <1>8 DEF StrayOpens
  <2>2. s[1] \in Downloads /\ s[2] \in Names BY <2>1
  <2>3. ffmpeg = "writing" => id \in Downloads BY DEF ThreadInv
  <2>4. {s[1]} \cup Writing(s[2]) \in SUBSET Downloads BY <2>2, <2>3, WritersAre DEF Writing
  <2>5. [by |-> {s[1]} \cup Writing(s[2]), long |-> l] \in Content BY <2>4 DEF Content
  <2>6. files' \in [Names -> Content \cup {NoFile}] BY <2>1, <2>5 DEF Holds
  <2> QED BY <1>8, <2>1, <2>2, <2>6 DEF StrayOpens
<1>9. CASE UNCHANGED vars BY <1>9 DEF vars
<1> QED BY <1>1, <1>2, <1>3, <1>4, <1>5, <1>6, <1>7, <1>8, <1>9 DEF Next, Thread, Ffmpeg

(* Every step keeps thread, process and status in step.                     *)
LEMMA ThreadStep == ASSUME IInv, [Next]_vars PROVE ThreadInv'
<1> USE DEF IInv, TypeOK, ThreadInv, Downloads
<1>1. CASE Command
  BY <1>1, Bounds DEF Command, NothingPlaying, DownloadWav, DownloadCancel
<1>2. CASE Thread
  BY <1>2 DEF Thread, Probe, Spawn, Reaped, Killed, Check, Exited, Cancelled, Success, Failure, Ends
<1>3. CASE Ffmpeg
  <2>1. UNCHANGED <<running, pc, title, id, path, status>>
    BY <1>3 DEF Ffmpeg, FfmpegOpens, FfmpegEnds, StrayOpens
  <2>2. ffmpeg' = ffmpeg \/ (ffmpeg \in {"started", "writing"} /\ ffmpeg' # "none")
    BY <1>3 DEF Ffmpeg, FfmpegOpens, FfmpegEnds, StrayOpens
  <2> QED BY <2>1, <2>2
<1>4. CASE UNCHANGED vars BY <1>4 DEF vars
<1> QED BY <1>1, <1>2, <1>3, <1>4 DEF Next

(* Every step keeps those that were reported and those that were killed     *)
(* apart.                                                                   *)
LEMMA PastStep == ASSUME IInv, [Next]_vars PROVE PastInv'
<1> USE DEF IInv, PastInv
<1>0. id \in Nat /\ done \subseteq Nat /\ late \subseteq Nat /\ \A s \in strays : s[1] \in Nat
  BY Bounds DEF TypeOK, Downloads
<1>1. CASE \E t \in Titles : DownloadWav(t)
  BY <1>0, <1>1 DEF DownloadWav
<1>2. CASE NothingPlaying \/ DownloadCancel \/ Probe \/ Reaped \/ UNCHANGED vars
  BY <1>2 DEF NothingPlaying, DownloadCancel, Probe, Reaped, vars
<1>3. CASE Spawn BY <1>3 DEF Spawn, Cancelled, Ends
<1>4. CASE Killed
  <2>1. running BY <1>4, OutIsName DEF Killed, HasName
  <2>2. ~running' /\ UNCHANGED <<id, late, done>> BY <1>4 DEF Killed, Cancelled, Ends
  <2>3. \A s \in strays' : s \in strays \/ s = <<id, out>> BY <1>4 DEF Killed
  <2> QED BY <1>0, <2>1, <2>2, <2>3
<1>5. CASE Check
  <2>1. running BY <1>5, OutIsName DEF Check, HasName
  <2>2. ~running' /\ UNCHANGED <<id, late, strays>> /\ done' \subseteq done \cup {id}
    BY <1>5 DEF Check, Cancelled, Success, Failure, Ends
  <2> QED BY <1>0, <2>1, <2>2
<1>6. CASE FfmpegOpens \/ FfmpegEnds
  <2>1. UNCHANGED <<strays, late, done, id, running>> BY <1>6 DEF FfmpegOpens, FfmpegEnds
  <2> QED BY <2>1
<1>7. CASE StrayOpens
  <2>1. PICK s \in strays : strays' = strays \ {s} /\ late' = late \cup {s[1]}
    BY <1>7 DEF StrayOpens
  <2>2. UNCHANGED <<id, done, running>> BY <1>7 DEF StrayOpens
  <2> QED BY <1>0, <2>1, <2>2
<1> QED BY <1>1, <1>2, <1>3, <1>4, <1>5, <1>6, <1>7 DEF Next, Command, Thread, Ffmpeg

(* Opening or writing a file keeps it this download's, or a stray's.        *)
LEMMA WritingKeepsName ==
  ASSUME IInv, HasName, NEW l \in BOOLEAN, NEW w,
         w = {id} \cup (WrittenBy(out) \cap late)
           \/ (w = WrittenBy(out) /\ Exists(out) /\ (Own(out) \/ Spoiled(out))),
         Holds(out, w, l), UNCHANGED <<title, id, out, late>>
  PROVE  Exists(out)' /\ (Own(out)' \/ Spoiled(out)') /\ NameInv'
<1>1. out \in Names BY OutIsName
<1>2. files'[out] = [by |-> w, long |-> l] BY <1>1 DEF Holds, IInv, TypeOK
<1>3. w \in SUBSET Downloads
  <2>1. id \in Downloads BY OutIsName DEF IInv, ThreadInv
  <2> QED BY <1>1, <2>1, WritersAre DEF IInv
<1>4. Exists(out)' BY <1>2, <1>3, NoFileIsNone, OutIsName DEF Content
<1>5. files'[out].by = w BY <1>2
<1>6. Own(out)' \/ Spoiled(out)'
  <2>1. CASE w = {id} \cup (WrittenBy(out) \cap late)
    BY <1>5, <2>1 DEF Own, Spoiled
  <2>2. CASE w = files[out].by /\ (Own(out) \/ Spoiled(out))
    BY <1>5, <2>2 DEF Own, Spoiled
  <2> QED BY <2>1, <2>2 DEF WrittenBy
<1> QED BY <1>4, <1>6 DEF NameInv, IInv, HasName

(* A stray that opens a file spoils it and leaves the others as they are.   *)
LEMMA StraySpoils ==
  ASSUME IInv, StrayOpens
  PROVE  \E m \in Names : /\ \E s \in strays \ strays' : s[2] = m
                          /\ Exists(m)' /\ Spoiled(m)'
                          /\ \A n \in Names \ {m} : files'[n] = files[n]
                          /\ late \subseteq late'
<1>1. PICK s \in strays, l \in BOOLEAN :
        /\ Holds(s[2], {s[1]} \cup Writing(s[2]), l)
        /\ strays' = strays \ {s} /\ late' = late \cup {s[1]}
  BY DEF StrayOpens
<1>2. s[2] \in Names /\ s[1] \in Downloads BY <1>1 DEF IInv, TypeOK
<1>3. files'[s[2]] = [by |-> {s[1]} \cup Writing(s[2]), long |-> l]
  BY <1>1, <1>2 DEF Holds, IInv, TypeOK
<1>4. ffmpeg = "writing" => id \in Downloads BY DEF IInv, ThreadInv
<1>5. {s[1]} \cup Writing(s[2]) \in SUBSET Downloads
  BY <1>2, <1>4, WritersAre DEF Writing, IInv
<1>6. files'[s[2]] # NoFile BY <1>3, <1>5, NoFileIsNone DEF Content
<1>7. s[1] \in files'[s[2]].by /\ s[1] \in late' BY <1>1, <1>3
<1>8. \A n \in Names \ {s[2]} : files'[n] = files[n] BY <1>1 DEF Holds, IInv, TypeOK
<1> QED BY <1>1, <1>2, <1>6, <1>7, <1>8 DEF Spoiled

(* Every step keeps the name with its download.                             *)
LEMMA NameStep == ASSUME IInv, [Next]_vars PROVE NameInv'
<1> USE DEF IInv, TypeOK
<1>1. CASE Command
  BY <1>1 DEF Command, NothingPlaying, DownloadWav, DownloadCancel, NameInv, HasName, ThreadInv,
              AllTaken, Own, Spoiled
<1>2. CASE Probe
  <2>1. CASE \E n \in Numbers : FirstFree(title, n) /\ out' = <<title, n>>
    BY <1>2, <2>1 DEF Probe, FirstFree, NameInv, HasName, ThreadInv
  <2>2. CASE AllTaken(title) /\ out' = <<title, LastLookedAt>>
    BY <1>2, <2>2, Bounds DEF Probe, AllTaken, LastLookedAt, NameInv, HasName, ThreadInv
  <2> QED BY <1>2, <2>1, <2>2 DEF Probe
<1>3. CASE Spawn BY <1>3 DEF Spawn, Cancelled, Ends, NameInv, HasName, AllTaken, Own, Spoiled
<1>4. CASE Reaped BY <1>4 DEF Reaped, NameInv, HasName, AllTaken, Own, Spoiled
<1>5. CASE Killed BY <1>5 DEF Killed, Cancelled, Ends, NameInv, HasName
<1>6. CASE Check BY <1>6 DEF Check, Cancelled, Success, Failure, Ends, NameInv, HasName
<1>7. CASE FfmpegOpens
  <2>1. HasName BY <1>7 DEF FfmpegOpens, HasName, ThreadInv
  <2> QED BY <1>7, <2>1, WritingKeepsName DEF FfmpegOpens
<1>8. CASE FfmpegEnds
  <2>1. HasName BY <1>8 DEF FfmpegEnds, HasName, ThreadInv
  <2>2. CASE ffmpeg' = "failed" /\ UNCHANGED files
    BY <1>8, <2>1, <2>2 DEF FfmpegEnds, NameInv, HasName, AllTaken, Own, Spoiled
  <2>3. CASE ffmpeg = "writing" /\ \E l \in BOOLEAN : Holds(out, WrittenBy(out), l)
    BY <1>8, <2>1, <2>3, WritingKeepsName DEF FfmpegEnds, NameInv
  <2> QED BY <1>8, <2>2, <2>3 DEF FfmpegEnds
<1>9. CASE StrayOpens
  <2>1. PICK m \in Names : /\ Exists(m)' /\ Spoiled(m)' /\ late \subseteq late'
                           /\ \A n \in Names \ {m} : files'[n] = files[n]
    BY <1>9, StraySpoils
  <2>2. UNCHANGED <<pc, title, out, id, ffmpeg>> BY <1>9 DEF StrayOpens
  <2>3. ASSUME HasName PROVE NameInv'
    <3>1. out \in Names BY <2>3, OutIsName
    <3>2. AllTaken(title) => AllTaken(title)'
      BY <2>1, <2>2, <2>3 DEF AllTaken, ThreadInv, HasName, Names
    <3>3. CASE out = m BY <2>1, <2>2, <2>3, <3>3 DEF NameInv, HasName
    <3>4. CASE out # m
      <4>1. files'[out] = files[out] BY <2>1, <3>1, <3>4
      <4>2. (Own(out) => Own(out)') /\ (Spoiled(out) => Spoiled(out)')
        BY <2>1, <2>2, <4>1 DEF Own, Spoiled
      <4> QED BY <2>2, <2>3, <3>2, <4>1, <4>2 DEF NameInv, HasName
    <3> QED BY <3>3, <3>4
  <2> QED BY <2>2, <2>3 DEF NameInv, HasName
<1>10. CASE UNCHANGED vars BY <1>10 DEF vars, NameInv, HasName, AllTaken, Own, Spoiled
<1> QED BY <1>1, <1>2, <1>3, <1>4, <1>5, <1>6, <1>7, <1>8, <1>9, <1>10 DEF Next, Thread, Ffmpeg

(* Every step leaves nothing on disk but what was reported, the file being  *)
(* written and what a stray got to.                                         *)
LEMMA FilesStep == ASSUME IInv, [Next]_vars PROVE FilesInv'
<1> USE DEF IInv, TypeOK
<1>1. CASE \E t \in Titles : DownloadWav(t)
  BY <1>1 DEF DownloadWav, HasName, ThreadInv, FilesInv, Kept, Spoiled
<1>2. CASE NothingPlaying \/ DownloadCancel
  BY <1>2 DEF NothingPlaying, DownloadCancel, FilesInv, HasName, Opened, Kept, Spoiled
<1>3. CASE Probe \/ Reaped
  BY <1>3 DEF Probe, Reaped, FilesInv, HasName, Opened, ThreadInv, Kept, Spoiled
<1>4. ASSUME Removed(out), HasName, UNCHANGED <<late, done>> PROVE FilesInv'
  BY <1>4, OutIsName DEF Removed, FilesInv, Kept, Spoiled
<1>5. CASE Spawn
  BY <1>5, <1>4 DEF Spawn, Cancelled, Ends, FilesInv, HasName, Opened, ThreadInv, Kept, Spoiled
<1>6. CASE Killed
  BY <1>6, <1>4 DEF Killed, Cancelled, Ends, HasName
<1>7. CASE Check
  <2>1. HasName BY <1>7 DEF Check, HasName
  <2>2. CASE Cancelled \/ Failure BY <2>1, <2>2, <1>4 DEF Cancelled, Failure, Ends
  <2>3. CASE IsRecording /\ Success
    <3>1. out \in Names /\ files[out] \in Content BY <2>1, <2>3, OutIsName DEF IsRecording
    <3>2. Spoiled(out) \/ files[out] = [by |-> {id}, long |-> TRUE]
      BY <2>1, <2>3, <3>1 DEF IsRecording, NameInv, Own, Content
    <3>3. UNCHANGED <<files, late>> /\ done' = done \cup {id} BY <2>3 DEF Success, Ends
    <3> QED BY <3>2, <3>3 DEF FilesInv, Kept, Spoiled
  <2> QED BY <1>7, <2>2, <2>3 DEF Check
<1>8. CASE FfmpegOpens \/ FfmpegEnds
  <2>1. HasName BY <1>8 DEF FfmpegOpens, FfmpegEnds, HasName, ThreadInv
  <2>2. UNCHANGED <<pc, out, late, done>> /\ Opened'
    BY <1>8 DEF FfmpegOpens, FfmpegEnds, Opened
  <2>3. \A n \in Names \ {out} : files'[n] = files[n]
    BY <1>8 DEF FfmpegOpens, FfmpegEnds, Holds
  <2> QED BY <2>1, <2>2, <2>3 DEF FilesInv, HasName, Kept, Spoiled
<1>9. CASE StrayOpens
  <2>1. PICK m \in Names : /\ Exists(m)' /\ Spoiled(m)' /\ late \subseteq late'
                           /\ \A n \in Names \ {m} : files'[n] = files[n]
    BY <1>9, StraySpoils
  <2>2. UNCHANGED <<pc, out, ffmpeg, done>> BY <1>9 DEF StrayOpens
  <2>3. ASSUME NEW n \in Names, Exists(n)'
        PROVE  Kept(n)' \/ Spoiled(n)' \/ (HasName' /\ n = out' /\ Opened')
    <3>1. CASE n = m BY <2>1, <3>1
    <3>2. CASE n # m
      <4>1. files'[n] = files[n] BY <2>1, <3>2
      <4>2. Kept(n) \/ Spoiled(n) \/ (HasName /\ n = out /\ Opened) BY <2>3, <4>1 DEF FilesInv
      <4> QED BY <2>1, <2>2, <4>1, <4>2 DEF Kept, Spoiled, HasName, Opened
    <3> QED BY <3>1, <3>2
  <2> QED BY <2>3 DEF FilesInv
<1>10. CASE UNCHANGED vars BY <1>10 DEF vars, FilesInv, HasName, Opened, Kept, Spoiled
<1> QED BY <1>1, <1>2, <1>3, <1>5, <1>6, <1>7, <1>8, <1>9, <1>10 DEF Next, Command, Thread, Ffmpeg

(* Every step keeps a reported path true: while one is reported no download *)
(* runs, and the one that reports it has just looked at the file.           *)
LEMMA DoneStep == ASSUME IInv, [Next]_vars PROVE DoneIsOnDisk'
<1> USE DEF IInv, TypeOK
<1>1. CASE Command
  BY <1>1 DEF Command, NothingPlaying, DownloadWav, DownloadCancel, DoneIsOnDisk, ThreadInv, Spoiled
<1>2. CASE Probe \/ Reaped
  BY <1>2 DEF Probe, Reaped, DoneIsOnDisk, ThreadInv
<1>3. CASE Spawn
  BY <1>3 DEF Spawn, Cancelled, Ends, DoneIsOnDisk, ThreadInv
<1>4. CASE Killed
  BY <1>4 DEF Killed, Cancelled, Ends, DoneIsOnDisk, ThreadInv
<1>5. CASE Check
  <2>1. HasName BY <1>5 DEF Check, HasName
  <2>2. CASE (cancel /\ Cancelled) \/ Failure
    BY <1>5, <2>2 DEF Check, Cancelled, Failure, Ends, DoneIsOnDisk, ThreadInv
  <2>3. CASE IsRecording /\ Success
    <3>1. out \in Names /\ files[out] \in Content BY <2>1, <2>3, OutIsName DEF IsRecording
    <3>2. Spoiled(out) \/ files[out] = [by |-> {id}, long |-> TRUE]
      BY <2>1, <2>3, <3>1 DEF IsRecording, NameInv, Own, Content
    <3>3. Exists(out) BY <2>3 DEF IsRecording
    <3>4. UNCHANGED <<files, late, id>> /\ path' = out BY <2>3 DEF Success, Ends
    <3> QED BY <2>1, <3>2, <3>3, <3>4, OutIsName DEF DoneIsOnDisk, Spoiled
  <2> QED BY <1>5, <2>2, <2>3 DEF Check
<1>6. CASE FfmpegOpens \/ FfmpegEnds
  BY <1>6 DEF FfmpegOpens, FfmpegEnds, DoneIsOnDisk, ThreadInv
<1>7. CASE StrayOpens
  <2>1. PICK m \in Names : /\ Exists(m)' /\ Spoiled(m)' /\ late \subseteq late'
                           /\ \A n \in Names \ {m} : files'[n] = files[n]
    BY <1>7, StraySpoils
  <2>2. UNCHANGED <<status, path, id>> BY <1>7 DEF StrayOpens
  <2>3. CASE path = m BY <2>1, <2>2, <2>3 DEF DoneIsOnDisk
  <2>4. CASE path # m BY <2>1, <2>2, <2>4 DEF DoneIsOnDisk, Spoiled
  <2> QED BY <2>3, <2>4
<1>8. CASE UNCHANGED vars BY <1>8 DEF vars, DoneIsOnDisk, Spoiled
<1> QED BY <1>1, <1>2, <1>3, <1>4, <1>5, <1>6, <1>7, <1>8 DEF Next, Thread, Ffmpeg

(* The invariant is inductive.                                              *)
LEMMA NextKeeps == IInv /\ [Next]_vars => IInv'
  BY TypeStep, ThreadStep, PastStep, NameStep, FilesStep, DoneStep DEF IInv
(* It holds in every reachable state.                                       *)
LEMMA Invariance == Spec => []IInv
<1> QED BY InitHolds, NextKeeps, PTL DEF Spec

(* Every variable keeps its type: a name is never numbered past the last.   *)
THEOREM TypeCorrect == Spec => []TypeOK
<1>1. IInv => TypeOK BY DEF IInv
<1> QED BY <1>1, Invariance, PTL

(* A path that is reported leads to a file of more than a header, written   *)
(* by the download that reports it, and by a stray if anything else.        *)
THEOREM DoneMeansOnDisk == Spec => []DoneIsOnDisk
<1>1. IInv => DoneIsOnDisk BY DEF IInv
<1> QED BY <1>1, Invariance, PTL

(* When no download runs, what is on disk was reported done, unless a stray *)
(* opened it after its download had been cancelled.                         *)
THEOREM LeavesNothing == Spec => []NothingLeftBehind
<1>1. IInv => NothingLeftBehind
  BY DEF IInv, ThreadInv, FilesInv, NothingLeftBehind, HasName, Kept
<1> QED BY <1>1, Invariance, PTL

(* A step that touches a file touches the one the download is named after,  *)
(* or is a stray's.                                                         *)
LEMMA TouchesItsOwn ==
  ASSUME IInv, [Next]_vars, ~StrayOpens
  PROVE  files' = files \/ (HasName /\ \E x : files' = [files EXCEPT ![out] = x])
<1>1. CASE Command \/ Probe \/ Reaped \/ UNCHANGED vars
  BY <1>1 DEF Command, NothingPlaying, DownloadWav, DownloadCancel, Probe, Reaped, vars
<1>2. CASE Spawn \/ Killed \/ Check
  BY <1>2 DEF Spawn, Killed, Check, Success, Failure, Cancelled, Removed, Ends, HasName
<1>3. CASE FfmpegOpens \/ FfmpegEnds
  <2>1. HasName BY <1>3 DEF FfmpegOpens, FfmpegEnds, HasName, IInv, ThreadInv, TypeOK
  <2> QED BY <1>3, <2>1 DEF FfmpegOpens, FfmpegEnds, Holds
<1> QED BY <1>1, <1>2, <1>3 DEF Next, Thread, Ffmpeg

(* A file that was reported done is lost only when all numbers of its title *)
(* are taken and it has the last, or to a stray that opens it now.          *)
THEOREM RecordingsKept == Spec => KeepsWhileNamesLast
<1>1. ASSUME IInv, [Next]_vars
      PROVE  \A n \in Recordings :
               \/ files'[n] = files[n]
               \/ n = <<title, LastNumber>> /\ AllTaken(title)
               \/ \E s \in strays \ strays' : s[2] = n
  <2> SUFFICES ASSUME NEW n \in Recordings, files'[n] # files[n]
               PROVE  \/ n = <<title, LastNumber>> /\ AllTaken(title)
                      \/ \E s \in strays \ strays' : s[2] = n
    OBVIOUS
  <2>1. n \in Names /\ Exists(n) /\ files[n].by \subseteq done BY DEF Recordings
  <2>2. CASE StrayOpens BY <1>1, <2>1, <2>2, StraySpoils
  <2>3. CASE ~StrayOpens
    <3>1. HasName /\ n = out BY <2>1, <2>3, TouchesItsOwn, <1>1 DEF IInv, TypeOK
    <3>2. ~Own(out) /\ ~Spoiled(out)
      BY <1>1, <2>1, <3>1, OutIsName DEF IInv, PastInv, Own, Spoiled
    <3> QED BY <2>1, <3>1, <3>2, <1>1 DEF IInv, NameInv
  <2> QED BY <2>2, <2>3
<1> QED BY <1>1, Invariance, PTL DEF Spec, KeepsWhileNamesLast
=============================================================================
