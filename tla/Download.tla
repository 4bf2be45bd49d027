------------------------------ MODULE Download ------------------------------
(***************************************************************************)
(* The WAV download of src/src/dsp/yt_stream_plugin.c: download_wav starts *)
(* a thread that picks a free file name, has ffmpeg write the track there, *)
(* waits for it while looking for a cancel request, and removes what is    *)
(* not a recording.  What download_wav captures of the player is in        *)
(* Playback; here a download is its title and its number.                  *)
(*                                                                         *)
(* Commands come under g_lock, one at a time; the thread and ffmpeg run    *)
(* beside them, with no lock.  ffmpeg is what the shell runs: ffmpeg alone *)
(* or at the end of a pipe.  download_kill asks the whole group to end but *)
(* waits for the shell only, so that ffmpeg may outlive it: a stray.  Once *)
(* its file is removed a stray writes on into a file without a name, which *)
(* nobody sees; one that had not opened the file yet may still create it.  *)
(* A definition marked "mutant" is a bug this code could have had: the     *)
(* properties are checked to notice it.                                    *)
(***************************************************************************)
EXTENDS Integers

CONSTANTS
  Titles,       (* the titles, as sanitize_filename leaves them             *)
  LastNumber,   (* the last number put behind a title: 99                   *)
  MaxDownloads, (* bound: the downloads begun                               *)
  NoFile,       (* no file of that name                                     *)
  NoName        (* the empty string, as a path or a title                   *)

ASSUME DownloadAssumption ==
  /\ LastNumber \in Nat /\ LastNumber >= 2 /\ MaxDownloads \in Nat
  /\ NoFile \notin [by : SUBSET (1..MaxDownloads), long : BOOLEAN]
  /\ NoName \notin Titles \X (1..LastNumber)

VARIABLES
  files,        \* the files of DOWNLOAD_DIR
  status,       \* download_status
  path,         \* download_path
  running,      \* download_thread_running
  cancel,       \* download_cancel
  pc,           \* where download_thread_main is
  title,        \* download_title
  out,          \* out_path
  ffmpeg,       \* the process download_pid
  id,           \* the number of the download
  strays,       \* downloads whose ffmpeg outlived its kill, with the names
                \* they have still to open
  late,         \* history: those that have opened them since
  done          \* history: the downloads reported done

request == <<title, id>>
reported == <<status, path>>
loose == <<strays, late>>
vars == <<files, reported, running, cancel, pc, request, out, ffmpeg, loose, done>>

(* A name is a title and a number; 1 is the plain title.                     *)
Numbers == 1..LastNumber
Names == Titles \X Numbers

(* Of a file matters who may have written to it, and whether there is more   *)
(* than the 44 bytes of a header: the program looks at nothing else, and     *)
(* does not tell a whole recording from one that was cut off.                *)
Downloads == 1..MaxDownloads
Content == [by : SUBSET Downloads, long : BOOLEAN]

(* The state type. *)
TypeOK ==
  /\ files \in [Names -> Content \cup {NoFile}]
  /\ status \in {"idle", "downloading", "done", "error", "cancelled"}
  /\ path \in Names \cup {NoName} /\ out \in Names \cup {NoName}
  /\ running \in BOOLEAN /\ cancel \in BOOLEAN
  /\ pc \in {"none", "probe", "spawn", "wait", "check"}
  /\ title \in Titles \cup {NoName} /\ id \in 0..MaxDownloads
  /\ ffmpeg \in {"none", "started", "writing", "succeeded", "failed"}
  /\ strays \subseteq Downloads \X Names /\ late \subseteq Downloads
  /\ done \subseteq Downloads

Init ==
  /\ files = [n \in Names |-> NoFile]
  /\ status = "idle" /\ path = NoName /\ running = FALSE /\ cancel = FALSE
  /\ pc = "none" /\ title = NoName /\ out = NoName /\ ffmpeg = "none" /\ id = 0
  /\ strays = {} /\ late = {} /\ done = {}

Exists(name) == files[name] # NoFile
WrittenBy(name) == IF Exists(name) THEN files[name].by ELSE {}
Holds(name, by, long) == files' = [files EXCEPT ![name] = [by |-> by, long |-> long]]
Removed(name) == files' = [files EXCEPT ![name] = NoFile]

-----------------------------------------------------------------------------
(* download_wav, while nothing is loaded: an error, whatever went before.    *)
NothingPlaying ==
  /\ ~running /\ status' = "error"
  /\ UNCHANGED <<files, path, running, cancel, pc, request, out, ffmpeg, loose, done>>

(* download_wav: the thread starts, or cannot be created.                    *)
DownloadWav(t) ==
  /\ ~running /\ id < MaxDownloads
  /\ title' = t /\ id' = id + 1 /\ path' = NoName /\ cancel' = FALSE
  /\ ffmpeg' = "none"
  /\ \/ running' = TRUE /\ status' = "downloading" /\ pc' = "probe"
     \/ running' = FALSE /\ status' = "error" /\ pc' = pc
  /\ UNCHANGED <<files, out, loose, done>>

DownloadCancel ==
  /\ running /\ cancel' = TRUE
  /\ UNCHANGED <<files, reported, running, pc, request, out, ffmpeg, loose, done>>

-----------------------------------------------------------------------------
(* The end of download_thread_main.                                          *)
Ends(st, p) ==
  /\ status' = st /\ path' = p /\ running' = FALSE /\ pc' = "none"
  /\ UNCHANGED <<cancel, request, out, late>>
Cancelled == Removed(out) /\ Ends("cancelled", path) /\ UNCHANGED done

(* The name: the plain title if there is no such file, else the first number *)
(* that is free; when all are taken, the name that was looked at last.       *)
FirstFree(t, n) == ~Exists(<<t, n>>) /\ \A m \in 1..(n - 1) : Exists(<<t, m>>)
AllTaken(t) == \A n \in Numbers : Exists(<<t, n>>)

LastLookedAtPastEnd == LastNumber + 1  \* mutant: the number is counted on
LastLookedAt == LastNumber

ProbesNothing ==  \* mutant: the file is not looked for
  /\ pc = "probe"
  /\ out' = <<title, 1>> /\ pc' = "spawn"
  /\ UNCHANGED <<files, reported, running, cancel, request, ffmpeg, loose, done>>

Probe ==
  /\ pc = "probe" /\ pc' = "spawn"
  /\ \/ \E n \in Numbers : FirstFree(title, n) /\ out' = <<title, n>>
     \/ AllTaken(title) /\ out' = <<title, LastLookedAt>>
  /\ UNCHANGED <<files, reported, running, cancel, request, ffmpeg, loose, done>>

Spawn ==
  /\ pc = "spawn" /\ UNCHANGED <<strays, done>>
  /\ \/ cancel /\ Cancelled /\ UNCHANGED ffmpeg
     \/ /\ ~cancel
        /\ \/ ffmpeg' = "started" /\ pc' = "wait"
              /\ UNCHANGED <<files, reported, running, cancel, request, out, late>>
           \/ Ends("error", path) /\ UNCHANGED <<files, ffmpeg>>   \* fork fails

(* One turn of the wait: an end of the process is seen before a cancel.      *)
Exited == ffmpeg \in {"succeeded", "failed"}
Reaped ==
  /\ pc = "wait" /\ Exited /\ pc' = "check"
  /\ UNCHANGED <<files, reported, running, cancel, request, out, ffmpeg, loose, done>>

KillsAfterTheEnd ==  \* mutant: a cancel is looked at when the process has ended
  /\ pc = "wait" /\ Exited /\ cancel /\ ffmpeg' = "none" /\ Cancelled /\ UNCHANGED strays

(* SIGTERM to the group, SIGKILL to the shell and a wait for the shell; then *)
(* the file is removed.  ffmpeg ends with its shell, or outlives it.         *)
Killed ==
  /\ pc = "wait" /\ ~Exited /\ cancel
  /\ ffmpeg' = "none" /\ Cancelled
  /\ \/ UNCHANGED strays
     \/ ffmpeg = "started" /\ strays' = strays \cup {<<id, out>>}

(* After the wait: only a file of more than a header's size stays.           *)
FailureKeepsFile ==  \* mutant: the file of a failed download stays
  /\ UNCHANGED <<files, done>> /\ Ends("error", path)
Failure == Removed(out) /\ Ends("error", path) /\ UNCHANGED done

IsRecordingOfAnySize == ffmpeg = "succeeded" /\ Exists(out)  \* mutant: no size check
IsRecording == ffmpeg = "succeeded" /\ Exists(out) /\ files[out].long

Success == Ends("done", out) /\ done' = done \cup {id} /\ UNCHANGED files

Check ==
  /\ pc = "check" /\ ffmpeg' = "none" /\ UNCHANGED strays
  /\ \/ cancel /\ Cancelled
     \/ ~cancel /\ IsRecording /\ Success
     \/ ~cancel /\ ~IsRecording /\ Failure

-----------------------------------------------------------------------------
(* ffmpeg -y: the file is opened, and emptied if there is one, although a    *)
(* stray may have it open too.  The process ends badly, or well whatever it  *)
(* wrote: the input may have been cut off, and of a pipe only the last       *)
(* command's status counts.                                                  *)
FfmpegOpens ==
  /\ ffmpeg = "started" /\ ffmpeg' = "writing"
  /\ Holds(out, {id} \cup (WrittenBy(out) \cap late), FALSE)
  /\ UNCHANGED <<reported, running, cancel, pc, request, out, loose, done>>

FfmpegEnds ==
  /\ \/ /\ ffmpeg = "writing" /\ ffmpeg' = "succeeded"
        /\ \E long \in BOOLEAN : Holds(out, WrittenBy(out), long)
     \/ /\ ffmpeg \in {"started", "writing"} /\ ffmpeg' = "failed"
        /\ UNCHANGED files
  /\ UNCHANGED <<reported, running, cancel, pc, request, out, loose, done>>

(* A stray opens its file after all, also if the name is another's by now.   *)
Writing(name) ==
  (IF name = out /\ ffmpeg = "writing" THEN {id} ELSE {}) \cup (WrittenBy(name) \cap late)

StrayOpens ==
  /\ \E s \in strays, long \in BOOLEAN :
       /\ Holds(s[2], {s[1]} \cup Writing(s[2]), long)
       /\ strays' = strays \ {s} /\ late' = late \cup {s[1]}
  /\ UNCHANGED <<reported, running, cancel, pc, request, out, ffmpeg, done>>

Command == (\E t \in Titles : DownloadWav(t)) \/ NothingPlaying \/ DownloadCancel
Thread == Probe \/ Spawn \/ Reaped \/ Killed \/ Check
Ffmpeg == FfmpegOpens \/ FfmpegEnds \/ StrayOpens

Next == Command \/ Thread \/ Ffmpeg
Spec == Init /\ [][Next]_vars

(* The thread looks every 200 ms; ffmpeg may wait for the network for ever,  *)
(* and no command needs to come.                                             *)
FairSpec == Spec /\ WF_vars(Thread)

-----------------------------------------------------------------------------
(* What a stray may have had a hand in.                                      *)
Spoiled(name) == files[name].by \cap late # {}

Recordings == {n \in Names : Exists(n) /\ files[n].by \subseteq done}

(* "Avoid overwriting": a file that was reported done is not lost to another *)
(* download of the same title, neither overwritten nor removed by its        *)
(* failure or its cancel, unless all the numbers of the title are taken and  *)
(* it is the one with the last number, or a stray opens it in this step.     *)
KeepsWhileNamesLast ==
  [][\A n \in Recordings :
       \/ files'[n] = files[n]
       \/ n = <<title, LastNumber>> /\ AllTaken(title)
       \/ \E s \in strays \ strays' : s[2] = n]_vars

(* "done" is said of a file with more than a header in it, at the path that  *)
(* is reported, and from this very download, unless a stray got to the same  *)
(* file; and a path is reported for nothing else.                            *)
DoneIsOnDisk ==
  /\ status = "done" => path # NoName
  /\ path # NoName =>
       Exists(path) /\ (files[path] = [by |-> {id}, long |-> TRUE] \/ Spoiled(path))

(* When no download runs, every file on disk was reported done and is that   *)
(* download's alone, or a stray got to it: a cancelled or failed download    *)
(* leaves nothing behind in any other way.                                   *)
NothingLeftBehind ==
  ~running => \A n \in Names : Exists(n) =>
    (\E d \in done : files[n] = [by |-> {d}, long |-> TRUE]) \/ Spoiled(n)

(* A cancel is honoured, even if ffmpeg never ends by itself.                *)
CancelEnds == (running /\ cancel) ~> ~running
=============================================================================
