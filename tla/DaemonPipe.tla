----------------------------- MODULE DaemonPipe -----------------------------
(***************************************************************************)
(* The pipe between the engine and its helper process, bin/                *)
(* yt_dlp_daemon.py, in src/src/dsp/yt_stream_plugin.c: one line out for a *)
(* question, one or more lines back, no number on either.  The thread that *)
(* holds daemon_mutex asks; a line is awaited with poll on the descriptor  *)
(* and then taken with fgets from a stdio buffer, and the wait has a time  *)
(* limit.  What keeps answers with their questions is that a question that *)
(* is not answered in time costs the process its life, except for the two  *)
(* whose answer nobody needs.                                              *)
(*                                                                         *)
(* A definition marked "mutant" is a bug this code could have had: the     *)
(* properties are checked to notice it.                                    *)
(*                                                                         *)
(* Every step of the holder is one read, write, fork or kill.  A read may  *)
(* run out of time whenever the descriptor has nothing to offer: no answer *)
(* is promised within the limit.                                           *)
(***************************************************************************)
EXTENDS Integers, Sequences

CONSTANTS
  MaxResults,   (* SEARCH_MAX_RESULTS, and the most items an answer holds   *)
  MaxJobs,      (* bound: how often daemon_mutex is taken                   *)
  MaxExits      (* bound: how often the process ends by itself              *)

ASSUME PipeAssumption ==
  MaxResults \in Nat \ {0} /\ MaxJobs \in Nat /\ MaxExits \in Nat

VARIABLES
  ready,        \* daemon_ready
  proc,         \* daemon_pid: no process, a running one, one that has exited
  requests,     \* the lines in the pipe to the process (daemon_in)
  output,       \* the lines the process has still to write for its request
  pipe,         \* the lines in the pipe from the process
  buffer,       \* the lines in the stdio buffer of daemon_out
  job,          \* what the holder of daemon_mutex is at
  items,        \* results[0..count-1] of the search under way
  result,       \* what the last job came to, until the next begins
  warmup,       \* the next step of warmup_thread_main
  forgotten,    \* history: this process owes an answer nobody waits for
  jobs, exits

wire == <<requests, output, pipe, buffer>>
process == <<ready, proc, forgotten>>
vars == <<wire, process, job, items, result, warmup, jobs, exits>>

Kinds == {"none", "warmup", "init", "search", "resolve"}
Pcs == {"free", "start", "greet", "init", "tell", "told", "ask", "search", "resolve"}
Words == {"READY", "CRATEDIG_OK", "SEARCH_BEGIN", "SEARCH_ITEM", "SEARCH_END",
          "RESOLVE_OK", "ERROR"}
Outcomes == {"none", "ok", "error", "strange", "timeout", "broken"}
Stamp == (0..MaxJobs) \X (1..2)     \* a job and its attempt
Line == [word : Words, of : Stamp, nth : 0..MaxResults]
Request == [cmd : {"INIT", "FILTER", "SEARCH", "RESOLVE"}, of : Stamp]
Job == [kind : Kinds, pc : Pcs, id : 0..MaxJobs, try : 1..2]
Result == [kind : Kinds, of : Stamp, rc : Outcomes, lines : Seq(Line), doubt : BOOLEAN]

(* The state type. *)
TypeOK ==
  /\ ready \in BOOLEAN /\ proc \in {"none", "alive", "exited"}
  /\ requests \in Seq(Request)
  /\ output \in Seq(Line) /\ pipe \in Seq(Line) /\ buffer \in Seq(Line)
  /\ job \in Job /\ items \in Seq(Line) /\ result \in Result
  /\ warmup \in {"start", "init", "done"}
  /\ forgotten \in BOOLEAN
  /\ jobs \in 0..MaxJobs /\ exits \in 0..MaxExits

NoJob == [kind |-> "none", pc |-> "free", id |-> 0, try |-> 1]
NoResult == [kind |-> "none", of |-> <<0, 1>>, rc |-> "none", lines |-> <<>>,
             doubt |-> FALSE]

Init ==
  /\ ready = FALSE /\ proc = "none" /\ forgotten = FALSE
  /\ requests = <<>> /\ output = <<>> /\ pipe = <<>> /\ buffer = <<>>
  /\ job = NoJob /\ items = <<>> /\ result = NoResult /\ warmup = "start"
  /\ jobs = 0 /\ exits = 0

-----------------------------------------------------------------------------
(* The process: it takes a request, and writes its answer line by line.      *)
MyStamp == <<job.id, job.try>>
Says(word, of, nth) == [word |-> word, of |-> of, nth |-> nth]

Found(of, n) ==
  <<Says("SEARCH_BEGIN", of, 0)>> \o [i \in 1..n |-> Says("SEARCH_ITEM", of, i)]

(* What the process may answer: an exception is an ERROR line wherever it    *)
(* was raised, also behind items already written.                            *)
Failure(of) == <<Says("ERROR", of, 0)>>
InitAnswers(of) == {<<Says("CRATEDIG_OK", of, 0)>>}
FilterAnswers(of) == {<<Says("CRATEDIG_OK", of, 0)>>, Failure(of)}
ResolveAnswers(of) == {<<Says("RESOLVE_OK", of, 0)>>, Failure(of)}
SearchAnswers(of) ==
  {Failure(of)}
  \cup {Found(of, n) \o <<Says("SEARCH_END", of, n)>> : n \in 0..MaxResults}
  \cup {Found(of, n) \o Failure(of) : n \in 0..MaxResults}

Answers(r) ==
  CASE r.cmd = "INIT" -> InitAnswers(r.of)
    [] r.cmd = "FILTER" -> FilterAnswers(r.of)
    [] r.cmd = "RESOLVE" -> ResolveAnswers(r.of)
    [] r.cmd = "SEARCH" -> SearchAnswers(r.of)

(* main: the next request line.                                              *)
TakeRequest ==
  /\ proc = "alive" /\ output = <<>> /\ requests # <<>>
  /\ output' \in Answers(Head(requests))
  /\ requests' = Tail(requests)
  /\ UNCHANGED <<pipe, buffer, process, job, items, result, warmup, jobs, exits>>

(* write_fields: one line, flushed.                                          *)
WriteLine ==
  /\ proc = "alive" /\ output # <<>>
  /\ pipe' = Append(pipe, Head(output)) /\ output' = Tail(output)
  /\ UNCHANGED <<requests, buffer, process, job, items, result, warmup, jobs, exits>>

(* The process ends by itself: a crash, or the system kills it.  What it has *)
(* written stays in the pipe.                                                *)
ProcessExits ==
  /\ proc = "alive" /\ exits < MaxExits
  /\ proc' = "exited" /\ output' = <<>> /\ requests' = <<>> /\ exits' = exits + 1
  /\ UNCHANGED <<pipe, buffer, ready, forgotten, job, items, result, warmup, jobs>>

-----------------------------------------------------------------------------
(* stop_daemon_locked: both pipes are closed and the process is killed; with *)
(* the pipes and the stdio buffer go the lines they held.                    *)
StopDaemon ==
  /\ ready' = FALSE /\ proc' = "none" /\ forgotten' = FALSE
  /\ requests' = <<>> /\ output' = <<>> /\ pipe' = <<>> /\ buffer' = <<>>

KeepDaemon == UNCHANGED process

(* fputs and fflush: SIGPIPE is ignored, so that a write to a process that   *)
(* has exited fails.                                                         *)
Write(cmd) ==
  /\ proc = "alive"
  /\ requests' = Append(requests, [cmd |-> cmd, of |-> MyStamp])
  /\ UNCHANGED <<output, pipe, buffer>>

WriteFails == proc # "alive"

(* read_daemon_line_locked.  poll looks at the descriptor alone; fgets takes *)
(* the first line of its buffer, or, when that is empty, first fills it with *)
(* what the descriptor has (all of it: a few lines are less than a buffer).  *)
Readable == pipe # <<>>
NextLine == IF buffer # <<>> THEN Head(buffer) ELSE Head(pipe)

ReadLine ==
  /\ Readable
  /\ IF buffer # <<>>
       THEN buffer' = Tail(buffer) /\ pipe' = pipe
       ELSE buffer' = Tail(pipe) /\ pipe' = <<>>
  /\ UNCHANGED <<requests, output>>

ReadFails == ~Readable      \* the time is up, or the pipe was hung up

-----------------------------------------------------------------------------
(* The holder lets go of daemon_mutex with what it has come to.              *)
Finish(rc, lines) ==
  /\ job' = NoJob /\ items' = <<>>
  /\ result' = [kind |-> job.kind, of |-> MyStamp, rc |-> rc, lines |-> lines,
                doubt |-> forgotten]
Enter(pc) == job' = [job EXCEPT !.pc = pc] /\ UNCHANGED <<items, result>>
At(pc) == job.pc = pc
Bounded == UNCHANGED <<jobs, exits>>

(* Where a started daemon leads.                                             *)
AfterStart == IF job.kind = "search" THEN "tell" ELSE "ask"

(* Taking daemon_mutex: the warm-up thread starts the process and, having    *)
(* let go, takes it again to open the crate-dig session; the search thread   *)
(* and the resolving and prefetching threads come at any time.               *)
Take(kind, pc) ==
  /\ At("free") /\ jobs < MaxJobs /\ jobs' = jobs + 1
  /\ job' = [kind |-> kind, pc |-> pc, id |-> jobs + 1, try |-> 1]
  /\ result' = NoResult
  /\ UNCHANGED <<wire, process, items, exits>>

TakeWarmup == warmup = "start" /\ Take("warmup", "start") /\ UNCHANGED warmup
TakeInit == warmup = "init" /\ Take("init", "init") /\ UNCHANGED warmup
TakeJob == \E kind \in {"search", "resolve"} :
             Take(kind, "start") /\ UNCHANGED warmup

(* start_daemon_locked, when the daemon is taken to be there.  warm-up has   *)
(* nothing more to do under this lock.                                       *)
Started ==
  IF job.kind = "warmup"
    THEN Finish("ok", <<>>) /\ warmup' = "init"
    ELSE Enter(AfterStart) /\ UNCHANGED warmup

NotStarted ==
  /\ Finish("broken", <<>>)
  /\ warmup' = IF job.kind = "warmup" THEN "done" ELSE warmup

AlreadyStarted ==
  /\ At("start") /\ ready
  /\ Started /\ KeepDaemon /\ UNCHANGED wire /\ Bounded

(* start_daemon_locked, a new process: its first line is to be READY.        *)
Fork ==
  /\ At("start") /\ ~ready
  /\ proc' = "alive" /\ ready' = FALSE /\ forgotten' = FALSE
  /\ requests' = <<>> /\ pipe' = <<>> /\ buffer' = <<>>
  /\ output' = <<Says("READY", <<0, 1>>, 0)>>
  /\ Enter("greet") /\ UNCHANGED warmup /\ Bounded

ForkFails ==
  /\ At("start") /\ ~ready
  /\ StopDaemon /\ NotStarted /\ Bounded

Greeted ==
  /\ At("greet") /\ ReadLine /\ NextLine.word = "READY"
  /\ ready' = TRUE /\ UNCHANGED <<proc, forgotten>>
  /\ Started /\ Bounded

NotGreeted ==
  /\ At("greet")
  /\ ReadFails \/ (Readable /\ NextLine.word # "READY")
  /\ StopDaemon /\ NotStarted /\ Bounded

-----------------------------------------------------------------------------
(* warmup_thread_main, CRATEDIG_INIT: any line is its answer, and none is    *)
(* waited for longer than its limit; the process lives on in either case.    *)
AskInit ==
  /\ At("init")
  /\ \/ ready /\ Write("INIT") /\ Enter("told") /\ UNCHANGED warmup
     \/ /\ ~ready \/ WriteFails
        /\ Finish("error", <<>>) /\ warmup' = "done" /\ UNCHANGED wire
  /\ KeepDaemon /\ Bounded

InitAnswered ==
  /\ At("told") /\ job.kind = "init" /\ ReadLine
  /\ Finish("ok", <<NextLine>>) /\ warmup' = "done"
  /\ KeepDaemon /\ Bounded

InitForgotten ==
  /\ At("told") /\ job.kind = "init" /\ ReadFails
  /\ forgotten' = TRUE /\ UNCHANGED <<ready, proc, wire>>
  /\ Finish("timeout", <<>>) /\ warmup' = "done" /\ Bounded

(* run_search_command_daemon, the filter of a crate-dig search, if one is    *)
(* pending: its answer, too, may be any line or none.                        *)
TellFilter ==
  /\ At("tell") /\ UNCHANGED warmup /\ KeepDaemon /\ Bounded
  /\ \/ Write("FILTER") /\ Enter("told")
     \/ Enter("ask") /\ UNCHANGED wire     \* none is pending, or WriteFails

FilterAnswered ==
  /\ At("told") /\ job.kind = "search" /\ ReadLine
  /\ Enter("ask") /\ KeepDaemon /\ UNCHANGED warmup /\ Bounded

FilterForgotten ==
  /\ At("told") /\ job.kind = "search" /\ ReadFails
  /\ forgotten' = TRUE /\ UNCHANGED <<ready, proc, wire>>
  /\ Enter("ask") /\ UNCHANGED warmup /\ Bounded

(* run_search_command_daemon, resolve_stream_url_daemon: the question.       *)
Ask ==
  /\ At("ask") /\ UNCHANGED warmup /\ Bounded
  /\ \/ /\ KeepDaemon
        /\ IF job.kind = "resolve"
             THEN Write("RESOLVE") /\ Enter("resolve")
             ELSE Write("SEARCH") /\ Enter("search")
     \/ WriteFails /\ StopDaemon /\ Finish("broken", <<>>)

(* run_search_command_daemon, one turn of its loop: results are kept while   *)
(* there is room; what is neither a result nor an end is skipped.            *)
SearchLine ==
  /\ At("search") /\ ReadLine
  /\ KeepDaemon /\ UNCHANGED warmup /\ Bounded
  /\ LET line == NextLine IN
     CASE line.word = "SEARCH_END" -> Finish("ok", Append(items, line))
       [] line.word = "ERROR" -> Finish("error", <<line>>)
       [] line.word = "SEARCH_ITEM" /\ Len(items) < MaxResults ->
            items' = Append(items, line) /\ UNCHANGED <<job, result>>
       [] OTHER -> UNCHANGED <<job, items, result>>

(* No line: the daemon is stopped, and the search begun again once, from     *)
(* nothing, with another process.                                            *)
Retry == job' = [job EXCEPT !.pc = "start", !.try = 2] /\ UNCHANGED result

SearchKeepsItems ==  \* mutant: count is not reset for the second attempt
  /\ At("search") /\ ReadFails
  /\ StopDaemon /\ UNCHANGED warmup /\ Bounded
  /\ IF job.try = 1 THEN Retry /\ items' = items ELSE Finish("timeout", <<>>)

SearchRetriesAgain ==  \* mutant: the attempts are not counted out
  /\ At("search") /\ ReadFails
  /\ StopDaemon /\ UNCHANGED <<warmup, result>> /\ Bounded
  /\ job' = [job EXCEPT !.pc = "start", !.try = @ + 1] /\ items' = <<>>

SearchWaitsOn ==  \* mutant: a line that does not come is waited for again
  /\ At("search") /\ ReadFails /\ UNCHANGED vars

SearchTimesOut ==
  /\ At("search") /\ ReadFails
  /\ StopDaemon /\ UNCHANGED warmup /\ Bounded
  /\ IF job.try = 1 THEN Retry /\ items' = <<>> ELSE Finish("timeout", <<>>)

(* resolve_stream_url_daemon: exactly one line is the answer.                *)
ResolveLine ==
  /\ At("resolve") /\ ReadLine
  /\ KeepDaemon /\ UNCHANGED warmup /\ Bounded
  /\ CASE NextLine.word = "RESOLVE_OK" -> Finish("ok", <<NextLine>>)
       [] NextLine.word = "ERROR" -> Finish("error", <<NextLine>>)
       [] OTHER -> Finish("strange", <<NextLine>>)

ResolveAbandons ==  \* mutant: the daemon is not stopped
  /\ At("resolve") /\ ReadFails
  /\ KeepDaemon /\ UNCHANGED wire /\ Finish("timeout", <<>>) /\ UNCHANGED warmup /\ Bounded

ResolveTimesOut ==
  /\ At("resolve") /\ ReadFails
  /\ StopDaemon /\ Finish("timeout", <<>>) /\ UNCHANGED warmup /\ Bounded

Process == TakeRequest \/ WriteLine \/ ProcessExits
Starts == AlreadyStarted \/ Fork \/ ForkFails \/ Greeted \/ NotGreeted
WarmsUp == AskInit \/ InitAnswered \/ InitForgotten
Searches == TellFilter \/ FilterAnswered \/ FilterForgotten \/ SearchLine \/ SearchTimesOut
Resolves == ResolveLine \/ ResolveTimesOut
Holder == Starts \/ WarmsUp \/ Searches \/ Ask \/ Resolves

Next == TakeWarmup \/ TakeInit \/ TakeJob \/ Holder \/ Process
Spec == Init /\ [][Next]_vars

(* The holder is never stuck: each of its waits has a time limit.  Nothing   *)
(* is assumed of the process, nor that anyone wants the lock.                *)
FairSpec == Spec /\ WF_vars(Holder)

-----------------------------------------------------------------------------
Whole(lines, of) ==
  \E n \in 0..MaxResults :
    lines = Tail(Found(of, n)) \o <<Says("SEARCH_END", of, n)>>

(* An answer that is taken for one is the answer to the question: a resolve  *)
(* that succeeds got the address of its own source, a search that succeeds   *)
(* got all the results of its own query in their order, and none of an       *)
(* attempt before; an error is the question's own, and a line that is no     *)
(* answer ("daemon resolve failed") is never met.  Only a process that was   *)
(* forgotten an answer of may answer one question with another's line.       *)
OwnAnswer ==
  ~result.doubt =>
    /\ result.kind = "resolve" /\ result.rc = "ok" =>
         result.lines = <<Says("RESOLVE_OK", result.of, 0)>>
    /\ result.kind = "search" /\ result.rc = "ok" =>
         Whole(result.lines, result.of)
    /\ result.rc = "error" /\ result.lines # <<>> =>
         result.lines = <<Says("ERROR", result.of, 0)>>
    /\ result.rc # "strange"

(* Between two jobs a daemon that is ready owes nothing and has nothing in   *)
(* its pipes, unless it was forgotten an answer of: the next question finds  *)
(* its own answer first.                                                     *)
QuietBetweenJobs ==
  At("free") /\ ready /\ ~forgotten =>
    requests = <<>> /\ output = <<>> /\ pipe = <<>> /\ buffer = <<>>

(* What the last job came to, as far as it concerns its question. *)
Own(r) ==
  \/ r.kind = "warmup" /\ r.rc = "ok"
  \/ r.kind = "init" /\ r.lines = <<Says("CRATEDIG_OK", r.of, 0)>>
  \/ r.kind = "search" /\ r.rc = "ok" /\ Whole(r.lines, r.of)
  \/ r.kind = "resolve" /\ r.rc = "ok" /\ r.lines = <<Says("RESOLVE_OK", r.of, 0)>>
  \/ r.kind \in {"search", "resolve"} /\ r.rc = "error" /\ r.lines = Failure(r.of)

Verdict ==
  CASE result.rc = "none" -> "none"
    [] result.rc # "none" /\ Own(result) -> "own"
    [] result.rc \in {"error", "timeout", "broken"} /\ result.lines = <<>> -> "failed"
    [] OTHER -> "foreign"

Asked == IF At("free") THEN "none" ELSE job.kind

Call == INSTANCE DaemonCall WITH
  asked <- Asked, verdict <- Verdict, trusted <- ~forgotten

(* What the rest of the engine may rely on: lines, buffers, exits, time      *)
(* limits and the second attempt of a search do not show.  A search or a     *)
(* resolve returns its own answer or none, and leaves the daemon such that   *)
(* the next does; only CRATEDIG_INIT and CRATEDIG_FILTER can spoil it.       *)
ImplementsCall == Call!Spec

(* The holder never waits for a process that has said all it has to say: a   *)
(* search that is given up as timed out was not answered.                    *)
NeverWaitsInVain ==
  At("search") /\ proc = "alive" /\ requests = <<>> /\ output = <<>> => Readable

(* daemon_mutex is let go of: no answer, late or lost, holds it for ever.    *)
MutexLetGo == (job.pc # "free") ~> (job.pc = "free")
=============================================================================
