-------------------------- MODULE DaemonPipeProofs --------------------------
(***************************************************************************)
(* For any number of jobs, process exits and results of a search: what the  *)
(* holder of daemon_mutex takes for an answer is the answer to its own      *)
(* question, and a daemon that is ready is quiet between two jobs, as long  *)
(* as the process was not forgotten an answer of.                           *)
(*                                                                         *)
(* The lines a process has yet to be heard of lie in three places.  Where   *)
(* they lie decides when the holder can read, not what it reads: the proofs *)
(* speak of the three as one sequence.                                     *)
(***************************************************************************)
EXTENDS DaemonPipe, SequenceTheorems, TLAPS

(* The lines still to be read, in their order. *)
Flow == buffer \o (pipe \o output)

(* An answer to a search, line by line; last is its last line, of n + 2. *)
AnswerLine(of, n, last, i) ==
  IF i = 1 THEN Says("SEARCH_BEGIN", of, 0)
  ELSE IF i <= n + 1 THEN Says("SEARCH_ITEM", of, i - 1)
  ELSE last
Lasts(of, n) == {Says("SEARCH_END", of, n), Says("ERROR", of, 0)}

(* The items among its first k lines. *)
ItemsIn(of, k) == [i \in 1..(k - 1) |-> Says("SEARCH_ITEM", of, i)]

(* What is to be read continues an answer behind its k-th line; the process  *)
(* may have exited before it wrote all of it.                                *)
Continues(of, n, last, k) ==
  /\ Len(Flow) <= n + 2 - k
  /\ \A i \in 1..Len(Flow) : Flow[i] = AnswerLine(of, n, last, k + i)

Unanswered(cmd) == requests = <<[cmd |-> cmd, of |-> MyStamp]>> /\ Flow = <<>>
Quiet == requests = <<>> /\ Flow = <<>>

-----------------------------------------------------------------------------
(* The inductive invariant, by where the holder stands. *)

HolderInv ==
  /\ job.pc \in {"tell", "told", "ask", "search", "resolve"} => ready
  /\ job.pc \in {"tell", "search"} => job.kind = "search"
  /\ job.pc = "resolve" => job.kind = "resolve"
  /\ job.pc = "init" => job.kind = "init"
  /\ job.pc = "told" => job.kind \in {"init", "search"}
  /\ job.pc = "ask" => job.kind \in {"search", "resolve"}
  /\ job.pc \in {"start", "greet"} => job.kind \in {"warmup", "search", "resolve"}
  /\ job.pc # "search" => items = <<>>

(* Outside a question a ready daemon that owes nothing has nothing to say. *)
RestInv ==
  /\ At("greet") => ~forgotten /\ ~ready /\ requests = <<>> /\ Len(Flow) <= 1
  /\ job.pc \in {"free", "start", "init", "tell", "ask"} /\ ready /\ ~forgotten => Quiet

(* A question is in the pipe, or its answer, which is one line. *)
ToldAnswers ==
  IF job.kind = "init" THEN InitAnswers(MyStamp) ELSE FilterAnswers(MyStamp)

ToldInv ==
  At("told") /\ ~forgotten =>
    \/ Unanswered(IF job.kind = "init" THEN "INIT" ELSE "FILTER")
    \/ requests = <<>> /\ (Flow = <<>> \/ Flow \in ToldAnswers)

ResolveInv ==
  At("resolve") /\ ~forgotten =>
    \/ Unanswered("RESOLVE")
    \/ requests = <<>> /\ (Flow = <<>> \/ Flow \in ResolveAnswers(MyStamp))

(* A search is in the pipe; or its failure; or a part of its answer is.    *)
SearchInv ==
  At("search") /\ ~forgotten =>
    \/ Unanswered("SEARCH") /\ items = <<>>
    \/ requests = <<>> /\ (Flow = <<>> \/ Flow = Failure(MyStamp)) /\ items = <<>>
    \/ /\ requests = <<>>
       /\ \E n \in 0..MaxResults : \E last \in Lasts(MyStamp, n), k \in 0..(n + 1) :
            Continues(MyStamp, n, last, k) /\ items = ItemsIn(MyStamp, k)

PipeInv == HolderInv /\ RestInv /\ ToldInv /\ ResolveInv /\ SearchInv

-----------------------------------------------------------------------------
(* Lines and sequences of them. *)

LEMMA Bounds == MaxResults \in Nat /\ MaxResults >= 1 /\ MaxJobs \in Nat /\ MaxExits \in Nat
  BY PipeAssumption

LEMMA StampType == ASSUME TypeOK PROVE MyStamp \in Stamp
  BY DEF TypeOK, Job, MyStamp, Stamp

LEMMA SaysType ==
  ASSUME NEW of \in Stamp, NEW word \in Words, NEW nth \in 0..MaxResults
  PROVE  Says(word, of, nth) \in Line
  BY DEF Says, Line

LEMMA FlowType ==
  ASSUME TypeOK
  PROVE  /\ Flow \in Seq(Line) /\ Len(Flow) \in Nat
         /\ Flow = <<>> <=> buffer = <<>> /\ pipe = <<>> /\ output = <<>>
<1>1. buffer \in Seq(Line) /\ pipe \in Seq(Line) /\ output \in Seq(Line) BY DEF TypeOK
<1>2. pipe \o output \in Seq(Line) /\ (pipe \o output = <<>> <=> pipe = <<>> /\ output = <<>>)
  BY <1>1, ConcatProperties, ConcatEqualIffEmpty
<1>3. Flow \in Seq(Line) /\ (Flow = <<>> <=> buffer = <<>> /\ pipe \o output = <<>>)
  BY <1>1, <1>2, ConcatProperties, ConcatEqualIffEmpty DEF Flow
<1> QED BY <1>2, <1>3, LenProperties

LEMMA EmptyFlow ==
  ASSUME buffer = <<>>, pipe = <<>>, output = <<>>
  PROVE  Flow = <<>>
  BY DEF Flow

LEMMA EmptyFlowAfter ==
  ASSUME buffer' = <<>>, pipe' = <<>>, output' = <<>>
  PROVE  Flow' = <<>>
  BY DEF Flow

(* The first line of two parts is that of the first, and the rest follows. *)
LEMMA FirstOfConcat ==
  ASSUME NEW S, NEW s \in Seq(S), NEW t \in Seq(S), s # <<>>
  PROVE  Tail(s \o t) = Tail(s) \o t /\ (s \o t)[1] = s[1]
<1>1. Len(s) \in Nat /\ Len(s) >= 1 /\ Len(t) \in Nat BY EmptySeq, LenProperties
<1>2. /\ s \o t \in Seq(S) /\ Len(s \o t) = Len(s) + Len(t)
      /\ \A i \in 1..(Len(s) + Len(t)) :
           (s \o t)[i] = IF i <= Len(s) THEN s[i] ELSE t[i - Len(s)]
  BY ConcatProperties
<1>3. /\ Tail(s) \in Seq(S) /\ Len(Tail(s)) = Len(s) - 1
      /\ \A i \in 1..(Len(s) - 1) : Tail(s)[i] = s[i + 1]
  BY HeadTailProperties
<1>4. s \o t # <<>> BY <1>1, <1>2
<1>5. /\ Tail(s \o t) \in Seq(S) /\ Len(Tail(s \o t)) = Len(s) + Len(t) - 1
      /\ \A i \in 1..(Len(s) + Len(t) - 1) : Tail(s \o t)[i] = (s \o t)[i + 1]
  BY <1>2, <1>4, HeadTailProperties
<1>6. /\ Tail(s) \o t \in Seq(S) /\ Len(Tail(s) \o t) = Len(s) - 1 + Len(t)
      /\ \A i \in 1..(Len(s) - 1 + Len(t)) :
           (Tail(s) \o t)[i] = IF i <= Len(s) - 1 THEN Tail(s)[i] ELSE t[i - (Len(s) - 1)]
  BY <1>3, ConcatProperties
<1>7. ASSUME NEW i \in 1..(Len(s) + Len(t) - 1)
      PROVE  Tail(s \o t)[i] = (Tail(s) \o t)[i]
  <2>1. Tail(s \o t)[i] = IF i + 1 <= Len(s) THEN s[i + 1] ELSE t[(i + 1) - Len(s)]
    <3>1. i + 1 \in 1..(Len(s) + Len(t)) BY <1>1
    <3>2. (s \o t)[i + 1] = IF i + 1 <= Len(s) THEN s[i + 1] ELSE t[(i + 1) - Len(s)]
      BY <1>2, <3>1
    <3> QED BY <1>5, <3>2
  <2>2. (Tail(s) \o t)[i] = IF i <= Len(s) - 1 THEN s[i + 1] ELSE t[i - (Len(s) - 1)]
    BY <1>1, <1>3, <1>6
  <2>3. (i + 1) - Len(s) = i - (Len(s) - 1) BY <1>1
  <2> QED BY <1>1, <2>1, <2>2, <2>3
<1>8. Tail(s \o t) = Tail(s) \o t BY <1>1, <1>5, <1>6, <1>7, SeqEqual
<1> QED BY <1>1, <1>2, <1>8

(* Reading takes the first line of the flow, wherever it lies. *)
LEMMA ReadsFlow ==
  ASSUME TypeOK, ReadLine
  PROVE  /\ Flow # <<>> /\ NextLine = Flow[1] /\ NextLine \in Line
         /\ Flow' = Tail(Flow) /\ requests' = requests
<1>1. buffer \in Seq(Line) /\ pipe \in Seq(Line) /\ output \in Seq(Line) /\ pipe # <<>>
  BY DEF TypeOK, ReadLine, Readable
<1>2. requests' = requests /\ output' = output BY DEF ReadLine
<1>3. Flow # <<>> BY <1>1, FlowType
<1>4. CASE buffer # <<>>
  <2>1. NextLine = Head(buffer) /\ buffer' = Tail(buffer) /\ pipe' = pipe
    BY <1>4 DEF NextLine, ReadLine
  <2>2. pipe \o output \in Seq(Line) BY <1>1, ConcatProperties
  <2>3. Flow' = Tail(buffer) \o (pipe \o output) BY <1>2, <2>1 DEF Flow
  <2>4. Tail(Flow) = Tail(buffer) \o (pipe \o output) /\ Flow[1] = buffer[1]
    BY <1>1, <1>4, <2>2, FirstOfConcat DEF Flow
  <2>5. Head(buffer) \in Line BY <1>1, <1>4, HeadTailProperties
  <2>6. Head(buffer) = buffer[1] OBVIOUS
  <2> QED BY <1>2, <1>3, <2>1, <2>3, <2>4, <2>5, <2>6
<1>5. CASE buffer = <<>>
  <2>1. NextLine = Head(pipe) /\ buffer' = Tail(pipe) /\ pipe' = <<>>
    BY <1>5 DEF NextLine, ReadLine
  <2>2. Flow = pipe \o output
    BY <1>1, <1>5, ConcatProperties, ConcatEmptySeq DEF Flow
  <2>3. Flow' = Tail(pipe) \o output
    <3>1. <<>> \o output = output BY <1>1, ConcatEmptySeq
    <3> QED BY <1>2, <2>1, <3>1 DEF Flow
  <2>4. Tail(Flow) = Tail(pipe) \o output /\ Flow[1] = pipe[1]
    BY <1>1, <2>2, FirstOfConcat
  <2>5. Head(pipe) \in Line BY <1>1, HeadTailProperties
  <2>6. Head(pipe) = pipe[1] OBVIOUS
  <2> QED BY <1>2, <1>3, <2>1, <2>2, <2>3, <2>4, <2>5, <2>6
<1> QED BY <1>4, <1>5

LEMMA RestOfFlow ==
  ASSUME TypeOK, Flow # <<>>, Flow' = Tail(Flow)
  PROVE  /\ Len(Flow) >= 1 /\ Len(Flow') = Len(Flow) - 1
         /\ \A i \in 1..(Len(Flow) - 1) : Flow'[i] = Flow[i + 1]
         /\ Len(Flow) = 1 => Flow' = <<>>
<1>1. Flow \in Seq(Line) /\ Len(Flow) \in Nat /\ Len(Flow) >= 1 BY FlowType, EmptySeq
<1>2. /\ Flow' \in Seq(Line) /\ Len(Flow') = Len(Flow) - 1
      /\ \A i \in 1..(Len(Flow) - 1) : Flow'[i] = Flow[i + 1]
  BY <1>1, HeadTailProperties
<1>3. Len(Flow') = 0 => Flow' = <<>> BY <1>2, EmptySeq
<1> QED BY <1>1, <1>2, <1>3

(* Writing moves a line on, and changes nothing in the flow. *)
LEMMA WritesFlow ==
  ASSUME TypeOK, WriteLine
  PROVE  Flow' = Flow
<1>1. buffer \in Seq(Line) /\ pipe \in Seq(Line) /\ output \in Seq(Line) /\ output # <<>>
  BY DEF TypeOK, WriteLine
<1>2. buffer' = buffer /\ pipe' = Append(pipe, Head(output)) /\ output' = Tail(output)
  BY DEF WriteLine
<1>3. Head(output) \in Line /\ Tail(output) \in Seq(Line) /\ <<Head(output)>> \in Seq(Line)
  BY <1>1, HeadTailProperties
<1>4. Append(pipe, Head(output)) = pipe \o <<Head(output)>> BY <1>1, <1>3, AppendIsConcat
<1>5. (pipe \o <<Head(output)>>) \o Tail(output) = pipe \o (<<Head(output)>> \o Tail(output))
  BY <1>1, <1>3, ConcatAssociative
<1>6. <<Head(output)>> \o Tail(output) = output
  <2>1. Len(output) \in Nat /\ Len(output) >= 1 BY <1>1, EmptySeq
  <2>2. SubSeq(output, 1, Len(output)) = output BY <1>1, SubSeqFull
  <2>3. SubSeq(output, 1, Len(output)) = <<output[1]>> \o SubSeq(output, 2, Len(output))
    <3>1. 1 \in 1..Len(output) /\ Len(output) \in 1..Len(output) BY <2>1
    <3>2. SubSeq(output, 1, Len(output)) = <<output[1]>> \o SubSeq(output, 1 + 1, Len(output))
      BY <1>1, <3>1, SubSeqRecursiveFirst
    <3> QED BY <3>2
  <2>4. Tail(output) = SubSeq(output, 2, Len(output)) BY <1>1, TailIsSubSeq
  <2>5. Head(output) = output[1] OBVIOUS
  <2> QED BY <2>2, <2>3, <2>4, <2>5
<1> QED BY <1>2, <1>4, <1>5, <1>6 DEF Flow

(* An answer to a request that finds the flow empty is the flow.           *)
LEMMA AnswersFlow ==
  ASSUME TypeOK, TakeRequest, Flow = <<>>, output' \in Seq(Line)
  PROVE  Flow' = output'
<1>1. buffer' = <<>> /\ pipe' = <<>> BY FlowType DEF TakeRequest
<1>2. <<>> \o output' = output' BY ConcatEmptySeq
<1> QED BY <1>1, <1>2 DEF Flow

(* The exit of the process cuts the flow off. *)
LEMMA ExitsFlow ==
  ASSUME TypeOK, ProcessExits
  PROVE  /\ Len(Flow') \in Nat /\ Len(Flow') <= Len(Flow) /\ Flow' \in Seq(Line)
         /\ \A i \in 1..Len(Flow') : Flow'[i] = Flow[i]
<1>1. buffer \in Seq(Line) /\ pipe \in Seq(Line) /\ output \in Seq(Line) BY DEF TypeOK
<1>2. buffer' = buffer /\ pipe' = pipe /\ output' = <<>> BY DEF ProcessExits
<1> DEFINE said == buffer \o pipe
<1>3. said \in Seq(Line) /\ Len(said) \in Nat /\ Len(output) \in Nat
  BY <1>1, ConcatProperties, LenProperties
<1>4. Flow' = said
  <2>1. pipe \o <<>> = pipe BY <1>1, ConcatEmptySeq
  <2> QED BY <1>2, <2>1 DEF Flow
<1>5. Flow = said \o output BY <1>1, ConcatAssociative DEF Flow
<1> HIDE DEF said
<1>6. /\ Len(said \o output) = Len(said) + Len(output)
      /\ \A i \in 1..(Len(said) + Len(output)) :
           (said \o output)[i] = IF i <= Len(said) THEN said[i] ELSE output[i - Len(said)]
  BY <1>1, <1>3, ConcatProperties
<1> QED BY <1>3, <1>4, <1>5, <1>6

-----------------------------------------------------------------------------
(* What the process answers. *)

LEMMA FoundLines ==
  ASSUME NEW of \in Stamp, NEW n \in 0..MaxResults, NEW last \in Line
  PROVE  LET a == Found(of, n) \o <<last>>
         IN  /\ a \in Seq(Line) /\ Len(a) = n + 2
             /\ \A i \in 1..(n + 2) : a[i] = AnswerLine(of, n, last, i)
<1> DEFINE begin == Says("SEARCH_BEGIN", of, 0)
           found == [i \in 1..n |-> Says("SEARCH_ITEM", of, i)]
           a == (<<begin>> \o found) \o <<last>>
<1>1. n \in Nat /\ \A i \in 1..n : i \in 0..MaxResults BY Bounds
<1>2. begin \in Line BY SaysType, Bounds DEF Words
<1>3. \A i \in 1..n : Says("SEARCH_ITEM", of, i) \in Line BY <1>1, SaysType DEF Words
<1>4. found \in Seq(Line) /\ Len(found) = n /\ \A i \in 1..n : found[i] = Says("SEARCH_ITEM", of, i)
  BY <1>1, <1>3
<1> HIDE DEF begin, found
<1>5. <<begin>> \in Seq(Line) /\ <<last>> \in Seq(Line) /\ Len(<<begin>>) = 1 /\ Len(<<last>>) = 1
      /\ <<begin>>[1] = begin /\ <<last>>[1] = last
  BY <1>2
<1>6. /\ <<begin>> \o found \in Seq(Line) /\ Len(<<begin>> \o found) = 1 + n
      /\ \A i \in 1..(1 + n) :
           (<<begin>> \o found)[i] = IF i <= 1 THEN <<begin>>[i] ELSE found[i - 1]
  BY <1>4, <1>5, ConcatProperties
<1> DEFINE front == <<begin>> \o found
<1> HIDE DEF front
<1>7. /\ front \o <<last>> \in Seq(Line) /\ Len(front \o <<last>>) = (1 + n) + 1
      /\ \A i \in 1..((1 + n) + 1) :
           (front \o <<last>>)[i] = IF i <= 1 + n THEN front[i] ELSE <<last>>[i - (1 + n)]
  BY <1>5, <1>6, ConcatProperties DEF front
<1>8. ASSUME NEW i \in 1..(n + 2)
      PROVE  (front \o <<last>>)[i] = AnswerLine(of, n, last, i)
  <2>1. CASE i = 1
    <3>1. (front \o <<last>>)[i] = front[i] BY <2>1, <1>1, <1>7
    <3>2. front[i] = begin BY <2>1, <1>1, <1>5, <1>6 DEF front
    <3> QED BY <2>1, <3>1, <3>2 DEF AnswerLine, begin
  <2>2. CASE i # 1 /\ i <= n + 1
    <3>1. (front \o <<last>>)[i] = front[i] BY <2>2, <1>1, <1>7
    <3>2. front[i] = found[i - 1] BY <2>2, <1>1, <1>6 DEF front
    <3>3. found[i - 1] = Says("SEARCH_ITEM", of, i - 1) BY <2>2, <1>1, <1>4
    <3> QED BY <2>2, <3>1, <3>2, <3>3 DEF AnswerLine
  <2>3. CASE i = n + 2
    <3>1. (front \o <<last>>)[i] = <<last>>[i - (1 + n)] /\ i - (1 + n) = 1 BY <2>3, <1>1, <1>7
    <3>2. i # 1 /\ ~(i <= n + 1) BY <2>3, <1>1
    <3> QED BY <3>1, <3>2, <1>5 DEF AnswerLine
  <2>4. i = 1 \/ (i # 1 /\ i <= n + 1) \/ i = n + 2 BY <1>1
  <2> QED BY <2>1, <2>2, <2>3, <2>4, Zenon
<1> QED BY <1>1, <1>7, <1>8 DEF Found, front, begin, found

LEMMA LastsType ==
  ASSUME NEW of \in Stamp, NEW n \in 0..MaxResults
  PROVE  Lasts(of, n) \subseteq Line
  BY SaysType, Bounds DEF Lasts, Words

LEMMA AnswersAre ==
  ASSUME NEW of \in Stamp
  PROVE  /\ Failure(of) \in Seq(Line) /\ Len(Failure(of)) = 1
         /\ \A a \in InitAnswers(of) \cup FilterAnswers(of) \cup ResolveAnswers(of) :
              a \in Seq(Line) /\ Len(a) = 1
         /\ \A a \in SearchAnswers(of) :
              \/ a = Failure(of)
              \/ \E n \in 0..MaxResults : \E last \in Lasts(of, n) : a = Found(of, n) \o <<last>>
         /\ SearchAnswers(of) \subseteq Seq(Line)
<1>1. \A word \in Words : Says(word, of, 0) \in Line BY SaysType, Bounds
<1>2. Failure(of) \in Seq(Line) /\ Len(Failure(of)) = 1 BY <1>1 DEF Failure, Words
<1>3. \A a \in InitAnswers(of) \cup FilterAnswers(of) \cup ResolveAnswers(of) :
        a \in Seq(Line) /\ Len(a) = 1
  BY <1>1, <1>2 DEF InitAnswers, FilterAnswers, ResolveAnswers, Words
<1>4. \A a \in SearchAnswers(of) :
        \/ a = Failure(of)
        \/ \E n \in 0..MaxResults : \E last \in Lasts(of, n) : a = Found(of, n) \o <<last>>
  BY Zenon DEF SearchAnswers, Lasts, Failure
<1>5. \A n \in 0..MaxResults : \A last \in Lasts(of, n) : Found(of, n) \o <<last>> \in Seq(Line)
  BY FoundLines, LastsType
<1>6. SearchAnswers(of) \subseteq Seq(Line)
  BY <1>2, <1>4, <1>5, Zenon
<1> QED BY <1>2, <1>3, <1>4, <1>6, Zenon

-----------------------------------------------------------------------------
(* Type correctness, in parts that most actions leave alone. *)

WireType == /\ requests \in Seq(Request) /\ output \in Seq(Line)
            /\ pipe \in Seq(Line) /\ buffer \in Seq(Line)
ProcessType == /\ ready \in BOOLEAN /\ proc \in {"none", "alive", "exited"}
               /\ forgotten \in BOOLEAN
JobType == job \in Job /\ items \in Seq(Line) /\ result \in Result
WarmupType == warmup \in {"start", "init", "done"}
CountType == jobs \in 0..MaxJobs /\ exits \in 0..MaxExits

LEMMA NoLines == <<>> \in Seq(Line) /\ <<>> \in Seq(Request)
  BY EmptySeq

LEMMA TypeParts ==
  TypeOK <=> WireType /\ ProcessType /\ JobType /\ WarmupType /\ CountType
  BY DEF TypeOK, WireType, ProcessType, JobType, WarmupType, CountType
LEMMA TypePartsAfter ==
  TypeOK' <=> WireType' /\ ProcessType' /\ JobType' /\ WarmupType' /\ CountType'
  BY DEF TypeOK, WireType, ProcessType, JobType, WarmupType, CountType

LEMMA SameWire == WireType /\ UNCHANGED wire => WireType'
  BY DEF WireType, wire
LEMMA SameProcess == ProcessType /\ KeepDaemon => ProcessType'
  BY DEF ProcessType, KeepDaemon, process
LEMMA SameCount == CountType /\ Bounded => CountType'
  BY DEF CountType, Bounded
LEMMA SameWarmup == WarmupType /\ UNCHANGED warmup => WarmupType'
  BY DEF WarmupType

LEMMA TypeInit == Init => TypeOK
<1> SUFFICES ASSUME Init PROVE TypeOK
  OBVIOUS
<1>1. WireType BY NoLines DEF Init, WireType
<1>3. ProcessType /\ WarmupType BY DEF Init, ProcessType, WarmupType
<1>4. CountType BY Bounds DEF Init, CountType
<1>2. JobType
  BY Bounds, NoLines DEF Init, JobType, NoJob, NoResult, Job, Result, Stamp, Kinds, Pcs, Outcomes
<1> QED BY <1>1, <1>2, <1>3, <1>4, TypeParts

LEMMA TypeWrite ==
  ASSUME TypeOK, NEW cmd \in {"INIT", "FILTER", "SEARCH", "RESOLVE"}, Write(cmd)
  PROVE  WireType'
<1>1. [cmd |-> cmd, of |-> MyStamp] \in Request BY StampType DEF Request
<1>2. requests \in Seq(Request) BY DEF TypeOK
<1>3. Append(requests, [cmd |-> cmd, of |-> MyStamp]) \in Seq(Request)
  BY <1>1, <1>2, AppendProperties
<1> QED BY <1>3 DEF Write, WireType, TypeOK

LEMMA TypeRead ==
  ASSUME TypeOK, ReadLine
  PROVE  WireType' /\ NextLine \in Line /\ <<NextLine>> \in Seq(Line)
<1>1. NextLine \in Line /\ <<NextLine>> \in Seq(Line) BY ReadsFlow
<1>2. WireType'
  <2>1. buffer # <<>> => Tail(buffer) \in Seq(Line) BY HeadTailProperties DEF TypeOK
  <2>2. pipe # <<>> => Tail(pipe) \in Seq(Line) BY HeadTailProperties DEF TypeOK
  <2> QED BY <2>1, <2>2 DEF ReadLine, Readable, WireType, TypeOK
<1> QED BY <1>1, <1>2

LEMMA TypeStop == StopDaemon => WireType' /\ ProcessType'
  BY NoLines DEF StopDaemon, WireType, ProcessType

LEMMA TypeFinish ==
  ASSUME TypeOK, NEW rc \in Outcomes, NEW lines \in Seq(Line), Finish(rc, lines)
  PROVE  JobType'
<1>1. result' \in Result BY StampType DEF Finish, Result, TypeOK, Job
<1>2. job' \in Job /\ items' \in Seq(Line) BY Bounds, NoLines DEF Finish, NoJob, Job, Kinds, Pcs
<1> QED BY <1>1, <1>2 DEF JobType

LEMMA TypeEnter ==
  ASSUME TypeOK, NEW pc \in Pcs, Enter(pc)
  PROVE  JobType'
  BY DEF Enter, JobType, TypeOK, Job

LEMMA TypeTake ==
  ASSUME TypeOK, NEW kind \in Kinds, NEW pc \in Pcs, Take(kind, pc)
  PROVE  WireType' /\ ProcessType' /\ JobType' /\ CountType'
<1>1. WireType' /\ ProcessType'
  BY SameWire, SameProcess, TypeParts DEF Take, KeepDaemon
<1>2. jobs + 1 \in 0..MaxJobs /\ exits' = exits /\ jobs' = jobs + 1
  BY Bounds DEF Take, TypeOK
<1>3. job' \in Job BY <1>2 DEF Take, Job
<1>4. result' \in Result
  BY Bounds, NoLines DEF Take, NoResult, Result, Stamp, Kinds, Outcomes
<1>5. items' \in Seq(Line) BY DEF Take, TypeOK
<1> QED BY <1>1, <1>2, <1>3, <1>4, <1>5 DEF JobType, CountType, TypeOK

LEMMA TypeStarted ==
  ASSUME TypeOK, Started
  PROVE  JobType' /\ WarmupType'
<1>1. CASE job.kind = "warmup"
  <2>1. Finish("ok", <<>>) /\ warmup' = "init" BY <1>1 DEF Started
  <2> QED BY <2>1, TypeFinish, NoLines DEF Outcomes, WarmupType
<1>2. CASE job.kind # "warmup"
  <2>1. Enter(AfterStart) /\ UNCHANGED warmup BY <1>2 DEF Started
  <2>2. AfterStart \in Pcs BY DEF AfterStart, Pcs
  <2> QED BY <2>1, <2>2, TypeEnter, SameWarmup, TypeParts
<1> QED BY <1>1, <1>2

LEMMA TypeNotStarted ==
  ASSUME TypeOK, NotStarted
  PROVE  JobType' /\ WarmupType'
<1>1. Finish("broken", <<>>) BY DEF NotStarted
<1>2. JobType' BY <1>1, TypeFinish, NoLines DEF Outcomes
<1>3. WarmupType' BY DEF NotStarted, WarmupType, TypeOK
<1> QED BY <1>2, <1>3

LEMMA TypeStarts == TypeOK /\ Starts => TypeOK'
<1> SUFFICES ASSUME TypeOK, Starts PROVE TypeOK'
  OBVIOUS
<1>1. CASE AlreadyStarted
  <2>1. Started /\ KeepDaemon /\ UNCHANGED wire /\ Bounded BY <1>1 DEF AlreadyStarted
  <2> QED BY <2>1, TypeStarted, SameWire, SameProcess, SameCount, TypeParts, TypePartsAfter
<1>2. CASE Fork
  <2>1. Enter("greet") /\ UNCHANGED warmup /\ Bounded BY <1>2 DEF Fork
  <2>2. JobType' BY <2>1, TypeEnter DEF Pcs
  <2>3. <<0, 1>> \in Stamp BY Bounds DEF Stamp
  <2>4. Says("READY", <<0, 1>>, 0) \in Line BY <2>3, SaysType, Bounds DEF Words
  <2>5. <<Says("READY", <<0, 1>>, 0)>> \in Seq(Line) BY <2>4
  <2>6. WireType' BY <1>2, <2>5, NoLines, Zenon DEF Fork, WireType
  <2>7. ProcessType' BY <1>2 DEF Fork, ProcessType
  <2> QED BY <2>1, <2>2, <2>6, <2>7, SameCount, SameWarmup, TypeParts, TypePartsAfter
<1>3. CASE ForkFails \/ NotGreeted
  <2>1. StopDaemon /\ NotStarted /\ Bounded BY <1>3 DEF ForkFails, NotGreeted
  <2> QED BY <2>1, TypeStop, TypeNotStarted, SameCount, TypeParts, TypePartsAfter
<1>4. CASE Greeted
  <2>1. ReadLine /\ Started /\ Bounded BY <1>4 DEF Greeted
  <2>2. ProcessType' BY <1>4 DEF Greeted, ProcessType, TypeOK
  <2> QED BY <2>1, <2>2, TypeRead, TypeStarted, SameCount, TypeParts, TypePartsAfter
<1> QED BY <1>1, <1>2, <1>3, <1>4 DEF Starts

LEMMA TypeWarmsUp == TypeOK /\ WarmsUp => TypeOK'
<1> SUFFICES ASSUME TypeOK, WarmsUp PROVE TypeOK'
  OBVIOUS
<1>1. CASE AskInit
  <2>1. KeepDaemon /\ Bounded BY <1>1 DEF AskInit
  <2>2. CASE Write("INIT") /\ Enter("told") /\ UNCHANGED warmup
    <3>1. WireType' /\ JobType' BY <2>2, TypeWrite, TypeEnter DEF Pcs
    <3> QED BY <2>1, <2>2, <3>1, SameProcess, SameCount, SameWarmup, TypeParts, TypePartsAfter
  <2>3. CASE Finish("error", <<>>) /\ warmup' = "done" /\ UNCHANGED wire
    <3>1. JobType' /\ WarmupType' BY <2>3, TypeFinish, NoLines DEF Outcomes, WarmupType
    <3> QED BY <2>1, <2>3, <3>1, SameWire, SameProcess, SameCount, TypeParts, TypePartsAfter
  <2> QED BY <1>1, <2>2, <2>3 DEF AskInit
<1>2. CASE InitAnswered
  <2>1. ReadLine /\ Finish("ok", <<NextLine>>) /\ KeepDaemon /\ Bounded /\ warmup' = "done"
    BY <1>2 DEF InitAnswered
  <2>2. WireType' /\ JobType' /\ WarmupType'
    BY <2>1, TypeRead, TypeFinish, NoLines DEF Outcomes, WarmupType
  <2> QED BY <2>1, <2>2, SameProcess, SameCount, TypeParts, TypePartsAfter
<1>3. CASE InitForgotten
  <2>1. Finish("timeout", <<>>) /\ Bounded /\ warmup' = "done" /\ UNCHANGED wire
    BY <1>3 DEF InitForgotten
  <2>2. JobType' /\ WarmupType' BY <2>1, TypeFinish, NoLines DEF Outcomes, WarmupType
  <2>3. ProcessType' BY <1>3 DEF InitForgotten, ProcessType, TypeOK
  <2> QED BY <2>1, <2>2, <2>3, SameWire, SameCount, TypeParts, TypePartsAfter
<1> QED BY <1>1, <1>2, <1>3 DEF WarmsUp

LEMMA TypeSearches == TypeOK /\ Searches => TypeOK'
<1> SUFFICES ASSUME TypeOK, Searches PROVE TypeOK'
  OBVIOUS
<1>1. CASE TellFilter
  <2>1. UNCHANGED warmup /\ KeepDaemon /\ Bounded BY <1>1 DEF TellFilter
  <2>2. WireType' /\ JobType'
    BY <1>1, TypeWrite, TypeEnter, SameWire, TypeParts DEF TellFilter, Pcs
  <2> QED BY <2>1, <2>2, SameProcess, SameCount, SameWarmup, TypeParts, TypePartsAfter
<1>2. CASE FilterAnswered
  <2>1. ReadLine /\ Enter("ask") /\ KeepDaemon /\ UNCHANGED warmup /\ Bounded
    BY <1>2 DEF FilterAnswered
  <2>2. WireType' /\ JobType' BY <2>1, TypeRead, TypeEnter DEF Pcs
  <2> QED BY <2>1, <2>2, SameProcess, SameCount, SameWarmup, TypeParts, TypePartsAfter
<1>3. CASE FilterForgotten
  <2>1. Enter("ask") /\ UNCHANGED warmup /\ Bounded /\ UNCHANGED wire
    BY <1>3 DEF FilterForgotten
  <2>2. JobType' BY <2>1, TypeEnter DEF Pcs
  <2>3. ProcessType' BY <1>3 DEF FilterForgotten, ProcessType, TypeOK
  <2> QED BY <2>1, <2>2, <2>3, SameWire, SameCount, SameWarmup, TypeParts, TypePartsAfter
<1>4. CASE SearchLine
  <2>1. ReadLine /\ KeepDaemon /\ UNCHANGED warmup /\ Bounded BY <1>4 DEF SearchLine
  <2>2. WireType' /\ NextLine \in Line /\ <<NextLine>> \in Seq(Line) BY <2>1, TypeRead
  <2>3. items \in Seq(Line) /\ Append(items, NextLine) \in Seq(Line)
    BY <2>2, AppendProperties DEF TypeOK
  <2>4. JobType'
    <3>1. CASE NextLine.word = "SEARCH_END"
      <4>1. Finish("ok", Append(items, NextLine)) BY <1>4, <3>1 DEF SearchLine
      <4> QED BY <4>1, <2>3, TypeFinish, NoLines DEF Outcomes
    <3>2. CASE NextLine.word = "ERROR"
      <4>1. Finish("error", <<NextLine>>) BY <1>4, <3>2 DEF SearchLine
      <4> QED BY <4>1, <2>2, TypeFinish, NoLines DEF Outcomes
    <3>3. CASE NextLine.word \notin {"SEARCH_END", "ERROR"}
      <4>1. items' \in {items, Append(items, NextLine)} /\ UNCHANGED <<job, result>>
        BY <1>4, <3>3 DEF SearchLine
      <4> QED BY <4>1, <2>3 DEF JobType, TypeOK
    <3> QED BY <3>1, <3>2, <3>3
  <2> QED BY <2>1, <2>2, <2>4, SameProcess, SameCount, SameWarmup, TypeParts, TypePartsAfter
<1>5. CASE SearchTimesOut
  <2>1. StopDaemon /\ UNCHANGED warmup /\ Bounded BY <1>5 DEF SearchTimesOut
  <2>2. JobType'
    <3>1. CASE job.try = 1
      <4>1. job' = [job EXCEPT !.pc = "start", !.try = 2] /\ items' = <<>> /\ result' = result
        BY <1>5, <3>1 DEF SearchTimesOut, Retry
      <4>2. job \in Job BY DEF TypeOK
      <4>3. "start" \in Pcs /\ 2 \in 1..2 BY DEF Pcs
      <4>4. [job EXCEPT !.pc = "start", !.try = 2] \in Job BY <4>2, <4>3 DEF Job
      <4> QED BY <4>1, <4>4, NoLines DEF JobType, TypeOK
    <3>2. CASE job.try # 1
      <4>1. Finish("timeout", <<>>) BY <1>5, <3>2 DEF SearchTimesOut
      <4> QED BY <4>1, TypeFinish, NoLines DEF Outcomes
    <3> QED BY <3>1, <3>2
  <2> QED BY <2>1, <2>2, TypeStop, SameCount, SameWarmup, TypeParts, TypePartsAfter
<1> QED BY <1>1, <1>2, <1>3, <1>4, <1>5 DEF Searches

LEMMA TypeAsks == TypeOK /\ (Ask \/ Resolves) => TypeOK'
<1> SUFFICES ASSUME TypeOK, Ask \/ Resolves PROVE TypeOK'
  OBVIOUS
<1>1. CASE Ask
  <2>1. UNCHANGED warmup /\ Bounded BY <1>1 DEF Ask
  <2>2. CASE KeepDaemon /\ IF job.kind = "resolve" THEN Write("RESOLVE") /\ Enter("resolve")
                                                   ELSE Write("SEARCH") /\ Enter("search")
    <3>1. WireType' /\ JobType' BY <2>2, TypeWrite, TypeEnter DEF Pcs
    <3> QED BY <2>1, <2>2, <3>1, SameProcess, SameCount, SameWarmup, TypeParts, TypePartsAfter
  <2>3. CASE StopDaemon /\ Finish("broken", <<>>)
    <3>1. JobType' BY <2>3, TypeFinish, NoLines DEF Outcomes
    <3> QED BY <2>1, <2>3, <3>1, TypeStop, SameCount, SameWarmup, TypeParts, TypePartsAfter
  <2> QED BY <1>1, <2>2, <2>3 DEF Ask
<1>2. CASE ResolveLine
  <2>1. ReadLine /\ KeepDaemon /\ UNCHANGED warmup /\ Bounded BY <1>2 DEF ResolveLine
  <2>2. \E rc \in {"ok", "error", "strange"} : Finish(rc, <<NextLine>>)
    BY <1>2 DEF ResolveLine
  <2>3. WireType' /\ JobType' BY <2>1, <2>2, TypeRead, TypeFinish, NoLines DEF Outcomes
  <2> QED BY <2>1, <2>3, SameProcess, SameCount, SameWarmup, TypeParts, TypePartsAfter
<1>3. CASE ResolveTimesOut
  <2>1. StopDaemon /\ Finish("timeout", <<>>) /\ UNCHANGED warmup /\ Bounded
    BY <1>3 DEF ResolveTimesOut
  <2>2. JobType' BY <2>1, TypeFinish, NoLines DEF Outcomes
  <2> QED BY <2>1, <2>2, TypeStop, SameCount, SameWarmup, TypeParts, TypePartsAfter
<1> QED BY <1>1, <1>2, <1>3 DEF Resolves

LEMMA AnswerType ==
  ASSUME TypeOK, TakeRequest
  PROVE  output' \in Seq(Line)
<1>1. requests \in Seq(Request) /\ requests # <<>> BY DEF TypeOK, TakeRequest
<1>2. Head(requests) \in Request BY <1>1, HeadTailProperties
<1>3. output' \in Answers(Head(requests)) BY DEF TakeRequest
<1> QED BY <1>2, <1>3, AnswersAre DEF Answers, Request

LEMMA TypeProcess == TypeOK /\ Process => TypeOK'
<1> SUFFICES ASSUME TypeOK, Process PROVE TypeOK'
  OBVIOUS
<1>1. UNCHANGED <<job, items, result, warmup, jobs>>
  BY DEF Process, TakeRequest, WriteLine, ProcessExits
<1>2. JobType' /\ WarmupType' BY <1>1 DEF JobType, WarmupType, TypeOK
<1>3. CASE TakeRequest
  <2>1. Tail(requests) \in Seq(Request) BY <1>3, HeadTailProperties DEF TakeRequest, TypeOK
  <2>2. WireType' /\ ProcessType' /\ CountType'
    BY <1>3, <2>1, AnswerType DEF TakeRequest, WireType, ProcessType, CountType, TypeOK, process
  <2> QED BY <1>2, <2>2, TypePartsAfter
<1>4. CASE WriteLine
  <2>1. Head(output) \in Line /\ Tail(output) \in Seq(Line)
    BY <1>4, HeadTailProperties DEF WriteLine, TypeOK
  <2>2. Append(pipe, Head(output)) \in Seq(Line) BY <2>1, AppendProperties DEF TypeOK
  <2>3. WireType' /\ ProcessType' /\ CountType'
    BY <1>4, <2>1, <2>2 DEF WriteLine, WireType, ProcessType, CountType, TypeOK, process
  <2> QED BY <1>2, <2>3, TypePartsAfter
<1>5. CASE ProcessExits
  <2>1. exits + 1 \in 0..MaxExits BY <1>5, Bounds DEF ProcessExits, TypeOK
  <2>2. WireType' /\ ProcessType' /\ CountType'
    BY <1>5, <2>1 DEF ProcessExits, WireType, ProcessType, CountType, TypeOK
  <2> QED BY <1>2, <2>2, TypePartsAfter
<1> QED BY <1>3, <1>4, <1>5 DEF Process

LEMMA TypeTakes == TypeOK /\ (TakeWarmup \/ TakeInit \/ TakeJob) => TypeOK'
<1> SUFFICES ASSUME TypeOK, TakeWarmup \/ TakeInit \/ TakeJob PROVE TypeOK'
  OBVIOUS
<1>1. UNCHANGED warmup BY DEF TakeWarmup, TakeInit, TakeJob
<1>2. \E kind \in Kinds : \E pc \in Pcs : Take(kind, pc)
  BY DEF TakeWarmup, TakeInit, TakeJob, Kinds, Pcs
<1> QED BY <1>1, <1>2, TypeTake, SameWarmup, TypeParts, TypePartsAfter

LEMMA TypeStep == TypeOK /\ [Next]_vars => TypeOK'
<1>1. TypeOK /\ UNCHANGED vars => TypeOK'
  BY DEF TypeOK, vars, wire, process
<1> QED BY <1>1, TypeTakes, TypeStarts, TypeWarmsUp, TypeSearches, TypeAsks, TypeProcess
        DEF Next, Holder

(* Requests, lines, the holder and what it reports have the values the code *)
(* gives them, in every behaviour.                                         *)
THEOREM TypeCorrect == Spec => []TypeOK
  BY TypeInit, TypeStep, PTL DEF Spec

-----------------------------------------------------------------------------
(* The pieces the actions are made of. *)

LEMMA FinishIs ==
  ASSUME NEW rc, NEW lines, Finish(rc, lines)
  PROVE  /\ job'.pc = "free" /\ items' = <<>>
         /\ result'.kind = job.kind /\ result'.of = MyStamp /\ result'.rc = rc
         /\ result'.lines = lines /\ result'.doubt = forgotten
  BY DEF Finish, NoJob

LEMMA EnterIs ==
  ASSUME TypeOK, NEW pc \in Pcs, Enter(pc)
  PROVE  /\ job'.pc = pc /\ job'.kind = job.kind /\ MyStamp' = MyStamp
         /\ items' = items /\ result' = result
<1>1. job \in Job BY DEF TypeOK
<1>2. job' = [job EXCEPT !.pc = pc] BY DEF Enter
<1>3. job'.pc = pc /\ job'.kind = job.kind /\ job'.id = job.id /\ job'.try = job.try
  BY <1>1, <1>2 DEF Job
<1> QED BY <1>3 DEF Enter, MyStamp

LEMMA WireIs ==
  ASSUME UNCHANGED wire
  PROVE  requests' = requests /\ Flow' = Flow
  BY DEF wire, Flow

LEMMA KeepIs == KeepDaemon => UNCHANGED <<ready, forgotten>>
  BY DEF KeepDaemon, process

LEMMA StopIs ==
  ASSUME StopDaemon
  PROVE  ready' = FALSE /\ forgotten' = FALSE /\ requests' = <<>> /\ Flow' = <<>>
  BY EmptyFlowAfter DEF StopDaemon

(* A question that is put to a quiet daemon is the only one. *)
LEMMA WriteIs ==
  ASSUME NEW cmd, Write(cmd), MyStamp' = MyStamp
  PROVE  Quiet => Unanswered(cmd)'
<1>1. requests' = Append(requests, [cmd |-> cmd, of |-> MyStamp]) /\ Flow' = Flow
  BY DEF Write, Flow
<1>2. Append(<<>>, [cmd |-> cmd, of |-> MyStamp]) = <<[cmd |-> cmd, of |-> MyStamp]>>
  OBVIOUS
<1> QED BY <1>1, <1>2 DEF Quiet, Unanswered

(* Where no question is open the invariant asks for quiet only. *)
LEMMA Rests ==
  ASSUME job'.pc \in {"free", "start", "init", "tell", "ask"}, HolderInv',
         ready' /\ ~forgotten' => Quiet'
  PROVE  PipeInv'
  BY DEF PipeInv, RestInv, ToldInv, ResolveInv, SearchInv, At

LEMMA FreeRests ==
  ASSUME job'.pc = "free", items' = <<>>, ready' /\ ~forgotten' => Quiet'
  PROVE  PipeInv'
<1>1. HolderInv' BY DEF HolderInv
<1> QED BY <1>1, Rests

(* Reading the answer to a question that has one line leaves nothing.      *)
LEMMA OneLine ==
  ASSUME TypeOK, ReadLine, Len(Flow) <= 1
  PROVE  Len(Flow) = 1 /\ Flow' = <<>>
<1>1. Flow # <<>> /\ Flow' = Tail(Flow) BY ReadsFlow
<1>2. Len(Flow) >= 1 /\ (Len(Flow) = 1 => Flow' = <<>>) BY <1>1, RestOfFlow
<1> QED BY <1>2, FlowType

-----------------------------------------------------------------------------
(* A line that is read in the loop of a search is the failure of this search, *)
(* or the end of its whole answer, or continues it.                          *)

LEMMA ItemsGrow ==
  ASSUME NEW of \in Stamp, NEW k \in Nat
  PROVE  /\ Len(ItemsIn(of, 0)) = 0
         /\ k >= 1 => /\ Len(ItemsIn(of, k)) = k - 1
                      /\ Append(ItemsIn(of, k), Says("SEARCH_ITEM", of, k)) = ItemsIn(of, k + 1)
         /\ k = 0 => ItemsIn(of, k + 1) = ItemsIn(of, k)
<1>1. Len(ItemsIn(of, 0)) = 0 BY DEF ItemsIn
<1>2. ASSUME k >= 1
      PROVE  /\ Len(ItemsIn(of, k)) = k - 1
             /\ Append(ItemsIn(of, k), Says("SEARCH_ITEM", of, k)) = ItemsIn(of, k + 1)
  <2> DEFINE e(i) == Says("SEARCH_ITEM", of, i)
             S == {e(i) : i \in Nat}
             s == [i \in 1..(k - 1) |-> e(i)]
             t == [i \in 1..k |-> e(i)]
  <2>1. k \in Nat /\ k - 1 \in Nat BY <1>2
  <2>2. s \in Seq(S) /\ Len(s) = k - 1 /\ \A i \in 1..(k - 1) : s[i] = e(i) BY <2>1
  <2>3. t \in Seq(S) /\ Len(t) = k /\ \A i \in 1..k : t[i] = e(i) BY <2>1
  <2>4. e(k) \in S BY <2>1
  <2> HIDE DEF s, t, S
  <2>5. /\ Append(s, e(k)) \in Seq(S) /\ Len(Append(s, e(k))) = (k - 1) + 1
        /\ \A i \in 1..(k - 1) : Append(s, e(k))[i] = s[i]
        /\ Append(s, e(k))[(k - 1) + 1] = e(k)
    BY <2>2, <2>4, AppendProperties
  <2>6. ASSUME NEW i \in 1..k PROVE Append(s, e(k))[i] = t[i]
    <3>1. CASE i = k BY <3>1, <2>1, <2>3, <2>5
    <3>2. CASE i # k
      <4>1. i \in 1..(k - 1) BY <3>2, <2>1
      <4> QED BY <4>1, <2>2, <2>3, <2>5
    <3> QED BY <3>1, <3>2
  <2>7. Append(s, e(k)) = t BY <2>1, <2>3, <2>5, <2>6, SeqEqual
  <2>8. ItemsIn(of, k) = s /\ ItemsIn(of, k + 1) = t
    <3>1. (k + 1) - 1 = k BY <2>1
    <3> QED BY <3>1 DEF ItemsIn, s, t
  <2> QED BY <2>2, <2>7, <2>8
<1>3. k = 0 => ItemsIn(of, k + 1) = ItemsIn(of, k) BY DEF ItemsIn
<1> QED BY <1>1, <1>2, <1>3

(* The items of a whole answer and its last line are the answer that counts. *)
LEMMA WholeAnswer ==
  ASSUME NEW of \in Stamp, NEW n \in 0..MaxResults
  PROVE  Whole(Append(ItemsIn(of, n + 1), Says("SEARCH_END", of, n)), of)
<1>1. n \in Nat BY Bounds
<1> DEFINE begin == Says("SEARCH_BEGIN", of, 0)
           found == [i \in 1..n |-> Says("SEARCH_ITEM", of, i)]
           last == Says("SEARCH_END", of, n)
<1>2. begin \in Line /\ last \in Line /\ \A i \in 1..n : Says("SEARCH_ITEM", of, i) \in Line
  BY <1>1, SaysType, Bounds DEF Words
<1>3. found \in Seq(Line) BY <1>1, <1>2
<1>4. ItemsIn(of, n + 1) = found
  <2>1. (n + 1) - 1 = n BY <1>1
  <2> QED BY <2>1 DEF ItemsIn
<1> HIDE DEF begin, found, last
<1>5. <<begin>> \in Seq(Line) /\ <<begin>> # <<>> /\ Tail(<<begin>>) = <<>> BY <1>2
<1>6. Tail(<<begin>> \o found) = <<>> \o found BY <1>3, <1>5, FirstOfConcat
<1>7. <<>> \o found = found BY <1>3, ConcatEmptySeq
<1>8. Append(found, last) = found \o <<last>> BY <1>2, <1>3, AppendIsConcat
<1>9. Append(ItemsIn(of, n + 1), last) = Tail(Found(of, n)) \o <<last>>
  BY <1>4, <1>6, <1>7, <1>8 DEF Found, begin, found
<1> QED BY <1>9 DEF Whole, last

Ends(of) ==
  \/ NextLine = Says("ERROR", of, 0)
  \/ \E n \in 0..MaxResults : /\ NextLine = Says("SEARCH_END", of, n)
                              /\ Whole(Append(items, NextLine), of)

(* The line is the first one, or the item behind the k - 1 that are there. *)
GoesOn(of, k) ==
  \/ NextLine = Says("SEARCH_BEGIN", of, 0) /\ items = ItemsIn(of, k + 1)
  \/ /\ NextLine.word = "SEARCH_ITEM" /\ Len(items) < MaxResults
     /\ ItemsIn(of, k + 1) = Append(items, NextLine)

LEMMA ReadsSearch ==
  ASSUME TypeOK, SearchInv, At("search"), ~forgotten, ReadLine,
         NEW of \in Stamp, MyStamp = of
  PROVE  /\ requests' = <<>>
         /\ \/ Ends(of) /\ Flow' = <<>>
            \/ \E n \in 0..MaxResults : \E last \in Lasts(of, n), k \in 0..n :
                 Continues(of, n, last, k + 1)' /\ GoesOn(of, k)
<1>1. /\ Flow # <<>> /\ NextLine = Flow[1] /\ Flow' = Tail(Flow) /\ requests' = requests
  BY ReadsFlow
<1>2. /\ Len(Flow) \in Nat /\ Len(Flow) >= 1 /\ Len(Flow') = Len(Flow) - 1
      /\ \A i \in 1..(Len(Flow) - 1) : Flow'[i] = Flow[i + 1]
      /\ Len(Flow) = 1 => Flow' = <<>>
  BY <1>1, FlowType, RestOfFlow
<1>4. ~Unanswered("SEARCH") BY <1>1 DEF Unanswered
<1>5. CASE requests = <<>> /\ Flow = Failure(of)
  <2>1. Len(Flow) = 1 /\ Flow[1] = Says("ERROR", of, 0) BY <1>5 DEF Failure
  <2> QED BY <1>1, <1>2, <1>5, <2>1 DEF Ends
<1>6. ASSUME requests = <<>>,
             NEW n \in 0..MaxResults, NEW last \in Lasts(of, n), NEW k \in 0..(n + 1),
             Continues(of, n, last, k), items = ItemsIn(of, k)
      PROVE  \/ Ends(of) /\ Flow' = <<>>
             \/ k \in 0..n /\ Continues(of, n, last, k + 1)' /\ GoesOn(of, k)
  <2>1. n \in Nat /\ k \in Nat /\ n <= MaxResults /\ k <= n + 1 BY Bounds
  <2>2. NextLine = AnswerLine(of, n, last, k + 1) BY <1>1, <1>2, <1>6 DEF Continues
  <2>3. CASE k = n + 1
    <3>1. NextLine = last
      <4>1. k + 1 # 1 /\ ~(k + 1 <= n + 1) BY <2>1, <2>3
      <4> QED BY <2>2, <4>1 DEF AnswerLine
    <3>2. Len(Flow) = 1 BY <1>2, <1>6, <2>1, <2>3 DEF Continues
    <3>3. CASE last = Says("ERROR", of, 0) BY <1>2, <3>1, <3>2, <3>3 DEF Ends
    <3>4. CASE last = Says("SEARCH_END", of, n)
      <4>1. Whole(Append(items, NextLine), of)
        BY <1>6, <2>3, <3>1, <3>4, WholeAnswer
      <4> QED BY <1>2, <3>1, <3>2, <3>4, <4>1 DEF Ends
    <3> QED BY <3>3, <3>4 DEF Lasts
  <2>4. CASE k <= n
    <3>1. k \in 0..n BY <2>1, <2>4
    <3>2. Continues(of, n, last, k + 1)'
      <4>1. Len(Flow') <= n + 2 - (k + 1) BY <1>2, <1>6, <2>1 DEF Continues
      <4>2. ASSUME NEW i \in 1..Len(Flow')
            PROVE  Flow'[i] = AnswerLine(of, n, last, k + 1 + i)
        <5>1. i + 1 \in 1..Len(Flow) /\ Flow'[i] = Flow[i + 1] BY <1>2
        <5>2. Flow[i + 1] = AnswerLine(of, n, last, k + (i + 1)) BY <1>6, <5>1 DEF Continues
        <5>3. k + (i + 1) = k + 1 + i BY <2>1, <1>2
        <5> QED BY <5>1, <5>2, <5>3
      <4> QED BY <4>1, <4>2 DEF Continues
    <3>3. CASE k = 0
      <4>1. NextLine = Says("SEARCH_BEGIN", of, 0) BY <2>2, <3>3 DEF AnswerLine
      <4>2. ItemsIn(of, k + 1) = items BY <1>6, <2>1, <3>3, ItemsGrow
      <4> QED BY <3>1, <3>2, <4>1, <4>2 DEF GoesOn
    <3>4. CASE k >= 1
      <4>1. NextLine = Says("SEARCH_ITEM", of, k)
        <5>1. k + 1 # 1 /\ k + 1 <= n + 1 /\ (k + 1) - 1 = k BY <2>1, <2>4, <3>4
        <5> QED BY <2>2, <5>1 DEF AnswerLine
      <4>2. Len(items) = k - 1 /\ ItemsIn(of, k + 1) = Append(items, NextLine)
        BY <1>6, <2>1, <3>4, <4>1, ItemsGrow
      <4>3. Len(items) < MaxResults BY <2>1, <2>4, <4>2, Bounds
      <4>4. NextLine.word = "SEARCH_ITEM" BY <4>1 DEF Says
      <4> QED BY <3>1, <3>2, <4>2, <4>3, <4>4 DEF GoesOn
    <3> QED BY <2>1, <3>3, <3>4
  <2> QED BY <2>1, <2>3, <2>4
<1>7. requests = <<>> /\ Flow # <<>>
  BY <1>1, <1>4 DEF SearchInv
<1> QED BY <1>1, <1>4, <1>5, <1>6, <1>7 DEF SearchInv

-----------------------------------------------------------------------------
(* Every step keeps the invariant, and what it reports is the question's own. *)

Good == PipeInv /\ OwnAnswer

(* A job that ends with a time limit, a broken pipe or no answer at all, or  *)
(* that asked for none, claims nothing.                                      *)
LEMMA ClaimsNothing ==
  ASSUME NEW rc, NEW lines, Finish(rc, lines),
         \/ rc \in {"timeout", "broken"}
         \/ rc = "ok" /\ job.kind \in {"warmup", "init"}
         \/ rc = "error" /\ lines = <<>>
  PROVE  OwnAnswer'
<1>1. /\ result'.kind = job.kind /\ result'.rc = rc /\ result'.lines = lines
  BY FinishIs
<1> QED BY <1>1 DEF OwnAnswer

LEMMA SameResult == OwnAnswer /\ result' = result => OwnAnswer'
  BY DEF OwnAnswer

LEMMA GoodInit == Init => Good
<1> SUFFICES ASSUME Init PROVE Good
  OBVIOUS
<1>1. Flow = <<>> BY EmptyFlow DEF Init
<1>2. PipeInv
  BY <1>1 DEF Init, NoJob, PipeInv, HolderInv, RestInv, ToldInv, ResolveInv, SearchInv, At, Quiet
<1>3. OwnAnswer BY DEF Init, NoResult, OwnAnswer
<1> QED BY <1>2, <1>3 DEF Good

LEMMA GoodTake ==
  ASSUME TypeOK, Good, NEW kind, NEW pc, Take(kind, pc),
         pc \in {"start", "init"}, pc = "init" <=> kind = "init",
         kind \in {"warmup", "init", "search", "resolve"}
  PROVE  Good'
<1>1. /\ job'.pc = pc /\ job'.kind = kind /\ items' = items /\ At("free")
      /\ UNCHANGED wire /\ UNCHANGED process /\ result' = NoResult
  BY DEF Take
<1>2. ready' = ready /\ forgotten' = forgotten /\ requests' = requests /\ Flow' = Flow
  BY <1>1, WireIs DEF process
<1>3. items' = <<>> BY <1>1 DEF Good, PipeInv, HolderInv, At
<1>4. HolderInv' BY <1>1, <1>3 DEF HolderInv
<1>5. ready' /\ ~forgotten' => Quiet' BY <1>1, <1>2 DEF Good, PipeInv, RestInv, At, Quiet
<1>6. OwnAnswer' BY <1>1 DEF OwnAnswer, NoResult
<1> QED BY <1>1, <1>4, <1>5, <1>6, Rests DEF Good

LEMMA GoodTakes == TypeOK /\ Good /\ (TakeWarmup \/ TakeInit \/ TakeJob) => Good'
  BY GoodTake DEF TakeWarmup, TakeInit, TakeJob

(* A daemon that has started: the question is next. *)
LEMMA GoodStarted ==
  ASSUME TypeOK, Good, Started, job.kind \in {"warmup", "search", "resolve"},
         items = <<>>, ready', ~forgotten' => Quiet'
  PROVE  Good'
<1>1. CASE job.kind = "warmup"
  <2>1. Finish("ok", <<>>) BY <1>1 DEF Started
  <2>2. job'.pc = "free" /\ items' = <<>> BY <2>1, FinishIs
  <2> QED BY <1>1, <2>1, <2>2, FreeRests, ClaimsNothing DEF Good
<1>2. CASE job.kind # "warmup"
  <2>1. Enter(AfterStart) /\ AfterStart \in Pcs BY <1>2 DEF Started, AfterStart, Pcs
  <2>2. job'.pc = AfterStart /\ job'.kind = job.kind /\ items' = <<>> /\ result' = result
    BY <2>1, EnterIs
  <2>3. HolderInv' BY <1>2, <2>2 DEF HolderInv, AfterStart
  <2>4. AfterStart \in {"tell", "ask"} BY DEF AfterStart
  <2> QED BY <2>2, <2>3, <2>4, Rests, SameResult DEF Good
<1> QED BY <1>1, <1>2

LEMMA GoodStarts == TypeOK /\ Good /\ Starts => Good'
<1> SUFFICES ASSUME TypeOK, Good, Starts PROVE Good'
  OBVIOUS
<1>0. HolderInv /\ RestInv BY DEF Good, PipeInv
<1>1. CASE AlreadyStarted
  <2>1. job.pc = "start" /\ ready /\ Started BY <1>1 DEF AlreadyStarted, At
  <2>2. ready' = ready /\ forgotten' = forgotten /\ requests' = requests /\ Flow' = Flow
    BY <1>1, KeepIs, WireIs DEF AlreadyStarted
  <2>3. items = <<>> /\ job.kind \in {"warmup", "search", "resolve"}
    BY <1>0, <2>1 DEF HolderInv
  <2>4. ~forgotten' => Quiet' BY <1>0, <2>1, <2>2 DEF RestInv, Quiet
  <2> QED BY <2>1, <2>2, <2>3, <2>4, GoodStarted
<1>2. CASE Fork
  <2>1. Enter("greet") /\ "greet" \in Pcs /\ At("start") BY <1>2 DEF Fork, Pcs
  <2>2. job'.pc = "greet" /\ job'.kind = job.kind /\ items' = items /\ result' = result
    BY <2>1, EnterIs
  <2>3. items = <<>> /\ job.kind \in {"warmup", "search", "resolve"}
    BY <1>0, <2>1 DEF HolderInv, At
  <2>4. ready' = FALSE /\ forgotten' = FALSE /\ requests' = <<>> BY <1>2 DEF Fork
  <2>5. Len(Flow') = 1
    <3> DEFINE s == <<Says("READY", <<0, 1>>, 0)>>
    <3>1. buffer' = <<>> /\ pipe' = <<>> /\ output' = s BY <1>2 DEF Fork
    <3>2. s \in Seq({Says("READY", <<0, 1>>, 0)}) /\ Len(s) = 1 OBVIOUS
    <3> HIDE DEF s
    <3>3. <<>> \o s = s BY <3>2, ConcatEmptySeq
    <3> QED BY <3>1, <3>2, <3>3 DEF Flow
  <2>6. PipeInv'
    BY <2>2, <2>3, <2>4, <2>5
    DEF PipeInv, HolderInv, RestInv, ToldInv, ResolveInv, SearchInv, At
  <2> QED BY <2>2, <2>6, SameResult DEF Good
<1>3. CASE ForkFails \/ NotGreeted
  <2>1. StopDaemon /\ Finish("broken", <<>>) BY <1>3 DEF ForkFails, NotGreeted, NotStarted
  <2> QED BY <2>1, StopIs, FinishIs, FreeRests, ClaimsNothing DEF Good
<1>4. CASE Greeted
  <2>1. job.pc = "greet" /\ ReadLine /\ Started /\ ready' = TRUE /\ forgotten' = forgotten
    BY <1>4 DEF Greeted, At
  <2>2. items = <<>> /\ Len(Flow) <= 1 /\ requests = <<>>
    BY <1>0, <2>1 DEF HolderInv, RestInv, At
  <2>3. requests' = <<>> /\ Flow' = <<>> BY <2>1, <2>2, OneLine, ReadsFlow
  <2>4. job.kind \in {"warmup", "search", "resolve"} BY <1>0, <2>1 DEF HolderInv
  <2> QED BY <2>1, <2>2, <2>3, <2>4, GoodStarted DEF Quiet
<1> QED BY <1>1, <1>2, <1>3, <1>4 DEF Starts

(* The session and the filter: an answer that nobody needs.                *)
LEMMA GoodTells ==
  ASSUME TypeOK, Good, NEW cmd, Write(cmd), KeepDaemon, Enter("told"), Quiet \/ forgotten,
         ready, items = <<>>,
         \/ job.kind = "init" /\ cmd = "INIT"
         \/ job.kind = "search" /\ cmd = "FILTER"
  PROVE  Good'
<1>1. /\ job'.pc = "told" /\ job'.kind = job.kind /\ MyStamp' = MyStamp /\ items' = <<>>
      /\ result' = result
  BY EnterIs DEF Pcs
<1>2. ready' = ready /\ forgotten' = forgotten BY KeepIs
<1>3. ~forgotten' => Unanswered(cmd)' BY <1>1, <1>2, WriteIs
<1>4. cmd = IF job'.kind = "init" THEN "INIT" ELSE "FILTER" BY <1>1
<1>5. ToldInv' BY <1>3, <1>4 DEF ToldInv
<1>6. HolderInv' /\ RestInv' /\ ResolveInv' /\ SearchInv'
  BY <1>1, <1>2 DEF HolderInv, RestInv, ResolveInv, SearchInv, At
<1> QED BY <1>1, <1>5, <1>6, SameResult DEF Good, PipeInv

(* What may be answered to one of the two has one line. *)
LEMMA OneOfTold == ASSUME TypeOK, NEW a \in ToldAnswers PROVE Len(a) = 1
<1>1. MyStamp \in Stamp BY StampType
<1>2. a \in InitAnswers(MyStamp) \cup FilterAnswers(MyStamp) \cup ResolveAnswers(MyStamp)
  BY DEF ToldAnswers
<1> QED BY <1>1, <1>2, AnswersAre, Zenon

LEMMA ToldIsRead ==
  ASSUME TypeOK, ToldInv, At("told"), ReadLine, ~forgotten
  PROVE  requests' = <<>> /\ Flow' = <<>> /\ Flow \in ToldAnswers
<1>1. Flow # <<>> /\ requests' = requests BY ReadsFlow
<1>2. requests = <<>> /\ Flow \in ToldAnswers BY <1>1 DEF ToldInv, Unanswered
<1>3. Len(Flow) <= 1 BY <1>2, OneOfTold
<1> QED BY <1>1, <1>2, <1>3, OneLine

LEMMA GoodWarmsUp == TypeOK /\ Good /\ WarmsUp => Good'
<1> SUFFICES ASSUME TypeOK, Good, WarmsUp PROVE Good'
  OBVIOUS
<1>0. HolderInv /\ RestInv /\ ToldInv BY DEF Good, PipeInv
<1>1. CASE AskInit
  <2>1. job.pc = "init" /\ KeepDaemon BY <1>1 DEF AskInit, At
  <2>2. job.kind = "init" /\ items = <<>> /\ (ready => Quiet \/ forgotten)
    BY <1>0, <2>1 DEF HolderInv, RestInv
  <2>3. CASE ready /\ Write("INIT") /\ Enter("told")
    BY <2>1, <2>2, <2>3, GoodTells
  <2>4. CASE Finish("error", <<>>) /\ UNCHANGED wire
    <3>1. ready' = ready /\ forgotten' = forgotten /\ requests' = requests /\ Flow' = Flow
      BY <2>1, <2>4, KeepIs, WireIs
    <3>2. ready' /\ ~forgotten' => Quiet' BY <2>2, <3>1 DEF Quiet
    <3> QED BY <2>4, <3>2, FinishIs, FreeRests, ClaimsNothing DEF Good
  <2> QED BY <1>1, <2>3, <2>4 DEF AskInit
<1>2. CASE InitAnswered
  <2>1. At("told") /\ job.kind = "init" /\ ReadLine /\ Finish("ok", <<NextLine>>) /\ KeepDaemon
    BY <1>2 DEF InitAnswered
  <2>2. ~forgotten' => Quiet' BY <1>0, <2>1, KeepIs, ToldIsRead DEF Quiet
  <2> QED BY <2>1, <2>2, FinishIs, FreeRests, ClaimsNothing DEF Good
<1>3. CASE InitForgotten
  <2>1. Finish("timeout", <<>>) /\ forgotten' = TRUE BY <1>3 DEF InitForgotten
  <2> QED BY <2>1, FinishIs, FreeRests, ClaimsNothing DEF Good
<1> QED BY <1>1, <1>2, <1>3 DEF WarmsUp

(* On to the question, with the daemon quiet or forgotten.                 *)
LEMMA GoodAsks ==
  ASSUME TypeOK, Good, Enter("ask"), job.kind = "search", items = <<>>, ready',
         ~forgotten' => Quiet'
  PROVE  Good'
<1>1. job'.pc = "ask" /\ job'.kind = job.kind /\ items' = items /\ result' = result
  BY EnterIs DEF Pcs
<1>2. HolderInv' BY <1>1 DEF HolderInv
<1> QED BY <1>1, <1>2, Rests, SameResult DEF Good

LEMMA GoodSearchLine == TypeOK /\ Good /\ SearchLine => Good'
<1> SUFFICES ASSUME TypeOK, Good, SearchLine PROVE Good'
  OBVIOUS
<1>0. HolderInv /\ SearchInv BY DEF Good, PipeInv
<1>6. PICK of \in Stamp : MyStamp = of BY StampType
<1>1. At("search") /\ ReadLine /\ KeepDaemon BY DEF SearchLine
<1>2. job.kind = "search" /\ ready BY <1>0, <1>1 DEF HolderInv, At
<1>3. ready' = ready /\ forgotten' = forgotten BY <1>1, KeepIs
<1>4. CASE NextLine.word \in {"SEARCH_END", "ERROR"}
  <2>1. PICK rc \in {"ok", "error"} :
          /\ Finish(rc, IF rc = "ok" THEN Append(items, NextLine) ELSE <<NextLine>>)
          /\ rc = "ok" <=> NextLine.word = "SEARCH_END"
    BY <1>4 DEF SearchLine
  <2>2. /\ job'.pc = "free" /\ items' = <<>> /\ result'.kind = "search" /\ result'.rc = rc
        /\ result'.of = MyStamp /\ result'.doubt = forgotten
        /\ result'.lines = IF rc = "ok" THEN Append(items, NextLine) ELSE <<NextLine>>
    BY <1>2, <2>1, FinishIs
  <2>3. ASSUME ~forgotten PROVE Ends(of) /\ Quiet'
    <3>1. NextLine # Says("SEARCH_BEGIN", of, 0) /\ NextLine.word # "SEARCH_ITEM"
      BY <1>4 DEF Says
    <3>2. Ends(of) /\ Flow' = <<>> /\ requests' = <<>>
      BY <1>0, <1>1, <1>6, <2>3, <3>1, ReadsSearch DEF GoesOn
    <3> QED BY <3>2 DEF Quiet
  <2>4. PipeInv' BY <1>3, <2>2, <2>3, FreeRests
  <2>5. OwnAnswer' BY <1>6, <2>1, <2>2, <2>3 DEF OwnAnswer, Ends, Says
  <2> QED BY <2>4, <2>5 DEF Good
<1>5. CASE NextLine.word \notin {"SEARCH_END", "ERROR"}
  <2>1. /\ job' = job /\ result' = result
        /\ items' = IF NextLine.word = "SEARCH_ITEM" /\ Len(items) < MaxResults
                    THEN Append(items, NextLine) ELSE items
    BY <1>5 DEF SearchLine
  <2>2. MyStamp' = MyStamp BY <2>1 DEF MyStamp
  <2>3. SearchInv'
    <3> SUFFICES ASSUME ~forgotten' PROVE SearchInv'
      BY DEF SearchInv
    <3>1. ~Ends(of) BY <1>5 DEF Ends, Says
    <3>2. requests' = <<>> BY <1>0, <1>1, <1>3, <1>6, ReadsSearch
    <3>3. PICK n \in 0..MaxResults : \E last \in Lasts(of, n), k \in 0..n :
                 Continues(of, n, last, k + 1)' /\ GoesOn(of, k)
      BY <1>0, <1>1, <1>3, <1>6, <3>1, ReadsSearch
    <3>4. PICK last \in Lasts(of, n), k \in 0..n :
                 Continues(of, n, last, k + 1)' /\ GoesOn(of, k)
      BY <3>3
    <3>5. items' = ItemsIn(of, k + 1)
      <4>1. CASE NextLine = Says("SEARCH_BEGIN", of, 0) /\ ItemsIn(of, k + 1) = items
        <5>1. NextLine.word # "SEARCH_ITEM" BY <4>1 DEF Says
        <5> QED BY <2>1, <4>1, <5>1
      <4>2. CASE /\ NextLine.word = "SEARCH_ITEM" /\ Len(items) < MaxResults
                 /\ ItemsIn(of, k + 1) = Append(items, NextLine)
        BY <2>1, <4>2
      <4> QED BY <3>4, <4>1, <4>2 DEF GoesOn
    <3>6. k + 1 \in 0..(n + 1) /\ MyStamp' = of BY <1>6, <2>2, Bounds
    <3> QED BY <3>2, <3>4, <3>5, <3>6 DEF SearchInv, Continues
  <2>4. HolderInv' /\ RestInv' /\ ToldInv' /\ ResolveInv'
    BY <1>0, <1>1, <1>3, <2>1 DEF HolderInv, RestInv, ToldInv, ResolveInv, At
  <2> QED BY <2>1, <2>3, <2>4, SameResult DEF Good, PipeInv
<1> QED BY <1>4, <1>5

LEMMA GoodSearches == TypeOK /\ Good /\ Searches => Good'
<1> SUFFICES ASSUME TypeOK, Good, Searches PROVE Good'
  OBVIOUS
<1>0. HolderInv /\ RestInv /\ ToldInv BY DEF Good, PipeInv
<1>1. CASE TellFilter
  <2>1. job.pc = "tell" /\ KeepDaemon BY <1>1 DEF TellFilter, At
  <2>2. job.kind = "search" /\ items = <<>> /\ ready /\ (Quiet \/ forgotten)
    BY <1>0, <2>1 DEF HolderInv, RestInv
  <2>3. CASE Write("FILTER") /\ Enter("told")
    BY <2>1, <2>2, <2>3, GoodTells
  <2>4. CASE Enter("ask") /\ UNCHANGED wire
    <3>1. ready' = ready /\ forgotten' = forgotten /\ requests' = requests /\ Flow' = Flow
      BY <2>1, <2>4, KeepIs, WireIs
    <3> QED BY <2>2, <2>4, <3>1, GoodAsks DEF Quiet
  <2> QED BY <1>1, <2>3, <2>4 DEF TellFilter
<1>2. CASE FilterAnswered
  <2>1. At("told") /\ job.kind = "search" /\ ReadLine /\ Enter("ask") /\ KeepDaemon
    BY <1>2 DEF FilterAnswered
  <2>2. ~forgotten' => Quiet' BY <1>0, <2>1, KeepIs, ToldIsRead DEF Quiet
  <2>3. ready' /\ items = <<>> BY <1>0, <2>1, KeepIs DEF HolderInv, At
  <2> QED BY <2>1, <2>2, <2>3, GoodAsks
<1>3. CASE FilterForgotten
  <2>1. At("told") /\ job.kind = "search" /\ Enter("ask") /\ forgotten' = TRUE /\ ready' = ready
    BY <1>3 DEF FilterForgotten
  <2>2. ready' /\ items = <<>> BY <1>0, <2>1 DEF HolderInv, At
  <2> QED BY <2>1, <2>2, GoodAsks
<1>4. CASE SearchTimesOut
  <2>1. StopDaemon /\ job.pc = "search" BY <1>4 DEF SearchTimesOut, At
  <2>2. CASE job.try = 1
    <3>1. job' = [job EXCEPT !.pc = "start", !.try = 2] /\ items' = <<>> /\ result' = result
      BY <1>4, <2>2 DEF SearchTimesOut, Retry
    <3>2. job'.pc = "start" /\ job'.kind = "search"
      BY <1>0, <2>1, <3>1 DEF HolderInv, TypeOK, Job
    <3>3. HolderInv' BY <3>1, <3>2 DEF HolderInv
    <3> QED BY <2>1, <3>1, <3>2, <3>3, StopIs, Rests, SameResult DEF Good
  <2>3. CASE job.try # 1
    <3>1. Finish("timeout", <<>>) BY <1>4, <2>3 DEF SearchTimesOut
    <3> QED BY <2>1, <3>1, StopIs, FinishIs, FreeRests, ClaimsNothing DEF Good
  <2> QED BY <2>2, <2>3
<1> QED BY <1>1, <1>2, <1>3, <1>4, GoodSearchLine DEF Searches

LEMMA GoodAsk == TypeOK /\ Good /\ Ask => Good'
<1> SUFFICES ASSUME TypeOK, Good, Ask PROVE Good'
  OBVIOUS
<1>0. HolderInv /\ RestInv BY DEF Good, PipeInv
<1>1. job.pc = "ask" BY DEF Ask, At
<1>2. ready /\ items = <<>> /\ job.kind \in {"search", "resolve"} /\ (Quiet \/ forgotten)
  BY <1>0, <1>1 DEF HolderInv, RestInv
<1>3. CASE KeepDaemon /\ job.kind = "resolve" /\ Write("RESOLVE") /\ Enter("resolve")
  <2>1. /\ job'.pc = "resolve" /\ job'.kind = "resolve" /\ MyStamp' = MyStamp /\ items' = <<>>
        /\ result' = result
    BY <1>2, <1>3, EnterIs DEF Pcs
  <2>2. ready' = ready /\ forgotten' = forgotten BY <1>3, KeepIs
  <2>3. ~forgotten' => Unanswered("RESOLVE")' BY <1>2, <1>3, <2>1, <2>2, WriteIs
  <2>4. ResolveInv' BY <2>3 DEF ResolveInv
  <2>5. HolderInv' /\ RestInv' /\ ToldInv' /\ SearchInv'
    BY <1>2, <2>1, <2>2 DEF HolderInv, RestInv, ToldInv, SearchInv, At
  <2> QED BY <2>1, <2>4, <2>5, SameResult DEF Good, PipeInv
<1>4. CASE KeepDaemon /\ job.kind # "resolve" /\ Write("SEARCH") /\ Enter("search")
  <2>1. /\ job'.pc = "search" /\ job'.kind = "search" /\ MyStamp' = MyStamp /\ items' = <<>>
        /\ result' = result
    BY <1>2, <1>4, EnterIs DEF Pcs
  <2>2. ready' = ready /\ forgotten' = forgotten BY <1>4, KeepIs
  <2>3. ~forgotten' => Unanswered("SEARCH")' BY <1>2, <1>4, <2>1, <2>2, WriteIs
  <2>4. SearchInv' BY <2>1, <2>3 DEF SearchInv
  <2>5. HolderInv' /\ RestInv' /\ ToldInv' /\ ResolveInv'
    BY <1>2, <2>1, <2>2 DEF HolderInv, RestInv, ToldInv, ResolveInv, At
  <2> QED BY <2>1, <2>4, <2>5, SameResult DEF Good, PipeInv
<1>5. CASE StopDaemon /\ Finish("broken", <<>>)
  BY <1>5, StopIs, FinishIs, FreeRests, ClaimsNothing DEF Good
<1> QED BY <1>3, <1>4, <1>5 DEF Ask

LEMMA GoodResolves == TypeOK /\ Good /\ Resolves => Good'
<1> SUFFICES ASSUME TypeOK, Good, Resolves PROVE Good'
  OBVIOUS
<1>0. HolderInv /\ ResolveInv BY DEF Good, PipeInv
<1>1. CASE ResolveLine
  <2>1. At("resolve") /\ ReadLine /\ KeepDaemon BY <1>1 DEF ResolveLine
  <2>2. PICK rc \in {"ok", "error", "strange"} :
          /\ Finish(rc, <<NextLine>>)
          /\ rc = "ok" <=> NextLine.word = "RESOLVE_OK"
          /\ rc = "error" <=> NextLine.word = "ERROR"
    BY <1>1 DEF ResolveLine
  <2>3. /\ job'.pc = "free" /\ items' = <<>> /\ result'.kind = "resolve" /\ result'.rc = rc
        /\ result'.of = MyStamp /\ result'.lines = <<NextLine>> /\ result'.doubt = forgotten
    BY <1>0, <2>1, <2>2, FinishIs DEF HolderInv, At
  <2>4. ASSUME ~forgotten
        PROVE  /\ NextLine \in {Says("RESOLVE_OK", MyStamp, 0), Says("ERROR", MyStamp, 0)}
               /\ Quiet'
    <3>1. Flow # <<>> /\ NextLine = Flow[1] /\ requests' = requests BY <2>1, ReadsFlow
    <3>2. requests = <<>> /\ Flow \in ResolveAnswers(MyStamp)
      BY <1>0, <2>1, <2>4, <3>1 DEF ResolveInv, Unanswered
    <3>3. Len(Flow) <= 1
      <4>1. MyStamp \in Stamp BY StampType
      <4>2. Flow \in InitAnswers(MyStamp) \cup FilterAnswers(MyStamp) \cup ResolveAnswers(MyStamp)
        BY <3>2
      <4>3. Len(Flow) = 1 BY <4>1, <4>2, AnswersAre, Zenon
      <4> QED BY <4>3
    <3>4. Flow' = <<>> BY <2>1, <3>3, OneLine
    <3> QED BY <3>1, <3>2, <3>4 DEF ResolveAnswers, Failure, Quiet
  <2>5. ready' /\ ~forgotten' => Quiet' BY <2>1, <2>4, KeepIs
  <2>6. OwnAnswer' BY <2>2, <2>3, <2>4 DEF OwnAnswer, Says
  <2> QED BY <2>3, <2>5, <2>6, FreeRests DEF Good
<1>2. CASE ResolveTimesOut
  <2>1. StopDaemon /\ Finish("timeout", <<>>) BY <1>2 DEF ResolveTimesOut
  <2> QED BY <2>1, StopIs, FinishIs, FreeRests, ClaimsNothing DEF Good
<1> QED BY <1>1, <1>2 DEF Resolves


(* An answer that is taken up is the flow, and it is one to the question.   *)
LEMMA GoodTakeRequest == TypeOK /\ Good /\ TakeRequest => Good'
<1> SUFFICES ASSUME TypeOK, Good, TakeRequest PROVE Good'
  OBVIOUS
<1>0. HolderInv /\ RestInv /\ ToldInv /\ ResolveInv /\ SearchInv BY DEF Good, PipeInv
<1>1. /\ requests # <<>> /\ requests' = Tail(requests) /\ output' \in Answers(Head(requests))
      /\ job' = job /\ items' = items /\ result' = result
      /\ ready' = ready /\ forgotten' = forgotten
  BY DEF TakeRequest, process
<1>2. PICK of \in Stamp : MyStamp = of BY StampType
<1>3. MyStamp' = of BY <1>1, <1>2 DEF MyStamp
<1>4. HolderInv' BY <1>0, <1>1 DEF HolderInv
<1>5. RestInv' BY <1>0, <1>1 DEF RestInv, At, Quiet
<1>6. ASSUME NEW cmd, Unanswered(cmd)
      PROVE  /\ requests' = <<>> /\ Flow = <<>> /\ Head(requests) = [cmd |-> cmd, of |-> of]
             /\ output' \in Answers([cmd |-> cmd, of |-> of])
  BY <1>1, <1>2, <1>6 DEF Unanswered
<1>7. ToldInv'
  <2> DEFINE cmd == IF job.kind = "init" THEN "INIT" ELSE "FILTER"
  <2> SUFFICES ASSUME At("told"), ~forgotten
               PROVE  requests' = <<>> /\ Flow' \in ToldAnswers
    BY <1>1, <1>2, <1>3 DEF ToldInv, At, ToldAnswers
  <2>1. Unanswered(cmd) BY <1>0, <1>1 DEF ToldInv
  <2>2. Answers([cmd |-> cmd, of |-> of]) = ToldAnswers BY <1>2 DEF Answers, ToldAnswers
  <2>3. output' \in ToldAnswers BY <1>6, <2>1, <2>2
  <2>4. output' \in InitAnswers(of) \cup FilterAnswers(of) \cup ResolveAnswers(of)
    BY <1>2, <2>3 DEF ToldAnswers
  <2>5. output' \in Seq(Line) BY <2>4, AnswersAre, Zenon
  <2>6. Flow' = output' BY <1>6, <2>1, <2>5, AnswersFlow
  <2>7. requests' = <<>> BY <1>6, <2>1
  <2> QED BY <2>3, <2>6, <2>7
<1>8. ResolveInv'
  <2> SUFFICES ASSUME At("resolve"), ~forgotten
               PROVE  requests' = <<>> /\ Flow' \in ResolveAnswers(of)
    BY <1>1, <1>3 DEF ResolveInv, At
  <2>1. Unanswered("RESOLVE") BY <1>0, <1>1 DEF ResolveInv
  <2>2. output' \in ResolveAnswers(of) BY <1>6, <2>1 DEF Answers
  <2>3. output' \in InitAnswers(of) \cup FilterAnswers(of) \cup ResolveAnswers(of) BY <2>2
  <2>4. output' \in Seq(Line) BY <2>3, AnswersAre, Zenon
  <2>5. Flow' = output' BY <1>6, <2>1, <2>4, AnswersFlow
  <2> QED BY <1>6, <2>1, <2>2, <2>5
<1>9. SearchInv'
  <2> SUFFICES ASSUME At("search"), ~forgotten PROVE SearchInv'
    BY <1>1 DEF SearchInv, At
  <2>1. Unanswered("SEARCH") /\ items = <<>> BY <1>0, <1>1 DEF SearchInv
  <2>2. output' \in SearchAnswers(of) BY <1>6, <2>1 DEF Answers
  <2>3. Flow' = output' BY <1>6, <2>1, <2>2, AnswersAre, AnswersFlow
  <2>4. requests' = <<>> BY <1>6, <2>1
  <2>5. CASE output' = Failure(of)
    BY <1>1, <1>3, <2>1, <2>3, <2>4, <2>5 DEF SearchInv
  <2>6. ASSUME NEW n \in 0..MaxResults, NEW last \in Lasts(of, n),
               output' = Found(of, n) \o <<last>>
        PROVE  SearchInv'
    <3>1. n \in Nat BY Bounds
    <3>2. /\ Len(Flow') = n + 2
          /\ \A i \in 1..(n + 2) : Flow'[i] = AnswerLine(of, n, last, i)
      BY <2>3, <2>6, LastsType, FoundLines
    <3>3. Continues(of, n, last, 0)'
      <4>1. ASSUME NEW i \in 1..(n + 2) PROVE Flow'[i] = AnswerLine(of, n, last, 0 + i)
        <5>1. 0 + i = i BY <3>1
        <5> QED BY <3>2, <5>1
      <4> QED BY <3>1, <3>2, <4>1 DEF Continues
    <3>4. ItemsIn(of, 0) = <<>> BY DEF ItemsIn
    <3>5. 0 \in 0..(n + 1) BY <3>1
    <3> QED BY <1>1, <1>3, <2>1, <2>4, <3>3, <3>4, <3>5 DEF SearchInv, Continues
  <2> QED BY <2>2, <2>5, <2>6, AnswersAre, Zenon
<1> QED BY <1>1, <1>4, <1>5, <1>7, <1>8, <1>9, SameResult DEF Good, PipeInv

(* The process writes a line of an answer: the flow is the same. *)
LEMMA GoodWriteLine == TypeOK /\ Good /\ WriteLine => Good'
<1> SUFFICES ASSUME TypeOK, Good, WriteLine PROVE Good'
  OBVIOUS
<1>1. Flow' = Flow BY WritesFlow
<1>2. /\ requests' = requests /\ job' = job /\ items' = items /\ result' = result
      /\ ready' = ready /\ forgotten' = forgotten
  BY DEF WriteLine, process
<1>3. MyStamp' = MyStamp BY <1>2 DEF MyStamp
<1> QED
  BY <1>1, <1>2, <1>3, SameResult
  DEF Good, PipeInv, HolderInv, RestInv, ToldInv, ResolveInv, SearchInv, At, Quiet, Unanswered,
      ToldAnswers, Continues

(* The process exits: a question that it has not taken up stays without an   *)
(* answer, and of an answer the beginning is left.                          *)
LEMMA GoodProcessExits == TypeOK /\ Good /\ ProcessExits => Good'
<1> SUFFICES ASSUME TypeOK, Good, ProcessExits PROVE Good'
  OBVIOUS
<1>0. HolderInv /\ RestInv /\ ToldInv /\ ResolveInv /\ SearchInv BY DEF Good, PipeInv
<1>1. /\ requests' = <<>> /\ job' = job /\ items' = items /\ result' = result
      /\ ready' = ready /\ forgotten' = forgotten
  BY DEF ProcessExits
<1>2. MyStamp' = MyStamp BY <1>1 DEF MyStamp
<1>3. /\ Len(Flow') \in Nat /\ Len(Flow') <= Len(Flow) /\ Flow' \in Seq(Line)
      /\ \A i \in 1..Len(Flow') : Flow'[i] = Flow[i]
  BY ExitsFlow
<1>4. Flow \in Seq(Line) /\ Len(Flow) \in Nat /\ (Len(Flow') = 0 => Flow' = <<>>)
  BY <1>3, FlowType, EmptySeq
<1>5. Flow = <<>> => Flow' = <<>> BY <1>3, <1>4, EmptySeq
<1>6. Len(Flow) = 1 => Flow' = <<>> \/ Flow' = Flow
  <2>1. CASE Len(Flow') = 0 BY <1>4, <2>1
  <2>2. CASE Len(Flow') = Len(Flow)
    <3>1. Flow' = Flow BY <1>3, <1>4, <2>2, SeqEqual
    <3> QED BY <3>1
  <2> QED BY <1>3, <1>4, <2>1, <2>2
<1>7. HolderInv' BY <1>0, <1>1 DEF HolderInv
<1>8. RestInv' BY <1>0, <1>1, <1>3, <1>4, <1>5 DEF RestInv, At, Quiet
<1>9. ToldInv'
  <2> SUFFICES ASSUME At("told"), ~forgotten
               PROVE  requests' = <<>> /\ (Flow' = <<>> \/ Flow' \in ToldAnswers)
    BY <1>1, <1>2 DEF ToldInv, At, ToldAnswers
  <2>1. Flow = <<>> \/ Flow \in ToldAnswers BY <1>0 DEF ToldInv, Unanswered
  <2>2. Flow \in ToldAnswers => Len(Flow) = 1 BY OneOfTold
  <2> QED BY <1>1, <1>5, <1>6, <2>1, <2>2
<1>10. ResolveInv'
  <2> SUFFICES ASSUME At("resolve"), ~forgotten
               PROVE  requests' = <<>> /\ (Flow' = <<>> \/ Flow' \in ResolveAnswers(MyStamp))
    BY <1>1, <1>2 DEF ResolveInv, At
  <2>1. Flow = <<>> \/ Flow \in ResolveAnswers(MyStamp) BY <1>0 DEF ResolveInv, Unanswered
  <2>2. CASE Flow \in ResolveAnswers(MyStamp)
    <3>1. MyStamp \in Stamp BY StampType
    <3>2. Flow \in InitAnswers(MyStamp) \cup FilterAnswers(MyStamp) \cup ResolveAnswers(MyStamp)
      BY <2>2
    <3>3. Len(Flow) = 1 BY <3>1, <3>2, AnswersAre, Zenon
    <3> QED BY <1>1, <1>6, <2>2, <3>3
  <2> QED BY <1>1, <1>5, <2>1, <2>2
<1>11. SearchInv'
  <2> SUFFICES ASSUME At("search"), ~forgotten PROVE SearchInv'
    BY <1>1 DEF SearchInv, At
  <2>1. CASE (Flow = <<>> \/ Flow = Failure(MyStamp)) /\ items = <<>>
    <3>1. Flow = Failure(MyStamp) => Len(Flow) = 1 BY DEF Failure
    <3>2. Flow' = <<>> \/ Flow' = Failure(MyStamp) BY <1>5, <1>6, <2>1, <3>1
    <3> QED BY <1>1, <1>2, <2>1, <3>2 DEF SearchInv
  <2>2. ASSUME NEW n \in 0..MaxResults, NEW last \in Lasts(MyStamp, n), NEW k \in 0..(n + 1),
               Continues(MyStamp, n, last, k), items = ItemsIn(MyStamp, k)
        PROVE  SearchInv'
    <3>1. PICK of \in Stamp : MyStamp = of BY StampType
    <3>3. MyStamp' = of BY <1>2, <3>1
    <3>4. n \in Nat /\ k \in Nat BY Bounds
    <3>5. Len(Flow') <= n + 2 - k BY <1>3, <1>4, <2>2, <3>4 DEF Continues
    <3>6. ASSUME NEW i \in 1..Len(Flow') PROVE Flow'[i] = AnswerLine(of, n, last, k + i)
      <4>1. i \in 1..Len(Flow) /\ Flow'[i] = Flow[i] BY <1>3, <1>4
      <4> QED BY <2>2, <3>1, <4>1 DEF Continues
    <3> QED BY <1>1, <2>2, <3>1, <3>3, <3>5, <3>6 DEF SearchInv, Continues
  <2>3. \/ (Flow = <<>> \/ Flow = Failure(MyStamp)) /\ items = <<>>
        \/ \E n \in 0..MaxResults : \E last \in Lasts(MyStamp, n), k \in 0..(n + 1) :
             Continues(MyStamp, n, last, k) /\ items = ItemsIn(MyStamp, k)
    BY <1>0 DEF SearchInv, Unanswered
  <2> QED BY <2>1, <2>2, <2>3
<1> QED BY <1>1, <1>7, <1>8, <1>9, <1>10, <1>11, SameResult DEF Good, PipeInv

LEMMA GoodStep == TypeOK /\ Good /\ [Next]_vars => Good'
<1> SUFFICES ASSUME TypeOK, Good, [Next]_vars PROVE Good'
  OBVIOUS
<1>1. CASE UNCHANGED vars
  <2>1. UNCHANGED wire /\ UNCHANGED <<ready, forgotten, job, items, result>>
    BY <1>1 DEF vars, process
  <2>2. Flow' = Flow /\ requests' = requests /\ MyStamp' = MyStamp
    BY <2>1, WireIs DEF MyStamp
  <2> QED
    BY <2>1, <2>2, SameResult
    DEF Good, PipeInv, HolderInv, RestInv, ToldInv, ResolveInv, SearchInv, At, Quiet, Unanswered,
        ToldAnswers, Continues
<1>2. CASE Process
  BY <1>2, GoodTakeRequest, GoodWriteLine, GoodProcessExits DEF Process
<1>3. CASE Holder
  BY <1>3, GoodStarts, GoodWarmsUp, GoodSearches, GoodAsk, GoodResolves DEF Holder
<1>4. CASE TakeWarmup \/ TakeInit \/ TakeJob
  BY <1>4, GoodTakes
<1> QED BY <1>1, <1>2, <1>3, <1>4 DEF Next

(* What the engine takes for an answer is the answer to its question         *)
(* (run_search_command_daemon, resolve_stream_url_daemon), for any number of *)
(* jobs, exits and results: it never succeeds with the lines of another      *)
(* question, nor with a part of its own, and no error is another's, unless   *)
(* the process was forgotten an answer of.                                  *)
THEOREM AnswersAreOwn == Spec => []OwnAnswer
<1>1. Init => TypeOK /\ Good BY TypeInit, GoodInit
<1>2. TypeOK /\ Good /\ [Next]_vars => (TypeOK /\ Good)' BY TypeStep, GoodStep
<1>3. TypeOK /\ Good => OwnAnswer BY DEF Good
<1> QED BY <1>1, <1>2, <1>3, PTL DEF Spec

(* Whoever takes daemon_mutex finds both pipes, the stdio buffer and the      *)
(* process without a line of anyone else, if the daemon is ready and owes    *)
(* nothing (start_daemon_locked returns at once).                           *)
THEOREM DaemonIsQuiet == Spec => []QuietBetweenJobs
<1>1. Init => TypeOK /\ Good BY TypeInit, GoodInit
<1>2. TypeOK /\ Good /\ [Next]_vars => (TypeOK /\ Good)' BY TypeStep, GoodStep
<1>3. TypeOK /\ Good => QuietBetweenJobs
  <2> SUFFICES ASSUME TypeOK, Good, At("free"), ready, ~forgotten
               PROVE  requests = <<>> /\ output = <<>> /\ pipe = <<>> /\ buffer = <<>>
    BY DEF QuietBetweenJobs
  <2>1. requests = <<>> /\ Flow = <<>> BY DEF Good, PipeInv, RestInv, At, Quiet
  <2> QED BY <2>1, FlowType
<1> QED BY <1>1, <1>2, <1>3, PTL DEF Spec

-----------------------------------------------------------------------------
(* The refinement of DaemonCall: each step is one of its steps, or does not   *)
(* show.                                                                     *)

LEMMA CallStarts == Init => Call!Init
  BY DEF Init, NoJob, NoResult, Asked, Verdict, At, Call!Init

(* Whoever holds the lock has a question. *)
LEMMA HolderAsks ==
  ASSUME TypeOK, Good, job.pc # "free"
  PROVE  Asked = job.kind /\ Asked \in {"warmup", "init", "search", "resolve"} /\ Asked # "none"
<1>1. job.pc \in Pcs BY DEF TypeOK, Job
<1>2. HolderInv /\ (job.pc = "greet" => job.kind \in {"warmup", "search", "resolve"})
  BY DEF Good, PipeInv, HolderInv
<1> QED BY <1>1, <1>2 DEF Pcs, HolderInv, Asked, At

(* A job that goes on shows what it does to the trust in the daemon only. *)
LEMMA GoesOnUnseen ==
  ASSUME job.pc # "free", job'.pc # "free", job'.kind = job.kind, result' = result
  PROVE  Asked' = Asked /\ Verdict' = Verdict
  BY DEF Asked, Verdict, Own, At

LEMMA EntersUnseen ==
  ASSUME TypeOK, NEW pc \in Pcs, Enter(pc), job.pc # "free", pc # "free",
         forgotten' = forgotten
  PROVE  UNCHANGED Call!vars
<1>1. Asked' = Asked /\ Verdict' = Verdict BY EnterIs, GoesOnUnseen
<1> QED BY <1>1 DEF Call!vars

LEMMA FailsRefines ==
  ASSUME TypeOK, Good, job.pc # "free",
         NEW rc \in {"error", "timeout", "broken"}, Finish(rc, <<>>),
         IF job.kind = "init" THEN forgotten' \in {forgotten, TRUE} ELSE forgotten' = FALSE
  PROVE  Call!Fails
<1>1. Asked = job.kind /\ Asked # "none" BY HolderAsks
<1>2. Asked' = "none" BY FinishIs DEF Asked, At
<1>3. result'.rc = rc /\ result'.lines = <<>> BY FinishIs
<1>4. ~Own(result')
  <2>1. \A line : <<line>> # <<>> OBVIOUS
  <2>2. \A of : Failure(of) # <<>> BY DEF Failure
  <2> QED BY <1>3, <2>1, <2>2 DEF Own
<1>5. Verdict' = "failed" BY <1>3, <1>4 DEF Verdict
<1>6. Call!Returns("failed") BY <1>1, <1>2, <1>5 DEF Call!Returns
<1>7. CASE job.kind = "init"
  <2>1. (~forgotten)' = (~forgotten) \/ (~forgotten)' = FALSE BY <1>7
  <2> QED BY <1>1, <1>6, <1>7, <2>1 DEF Call!Fails
<1>8. CASE job.kind # "init"
  <2>1. (~forgotten)' = TRUE BY <1>8
  <2> QED BY <1>1, <1>6, <1>8, <2>1 DEF Call!Fails
<1> QED BY <1>7, <1>8

LEMMA AnswersRefines ==
  ASSUME TypeOK, Good, job.pc # "free",
         NEW rc \in {"ok", "error", "strange"}, NEW lines, Finish(rc, lines),
         rc = "error" => lines # <<>>,
         forgotten' = forgotten, ~forgotten => Own(result')
  PROVE  Call!Answers \/ Call!Strays
<1>1. Asked # "none" BY HolderAsks
<1>2. Asked' = "none" BY FinishIs DEF Asked, At
<1>3. result'.rc = rc /\ result'.lines = lines BY FinishIs
<1>4. CASE Own(result')
  <2>1. Verdict' = "own" BY <1>3, <1>4 DEF Verdict
  <2> QED BY <1>1, <1>2, <2>1 DEF Call!Answers, Call!Returns
<1>5. CASE ~Own(result')
  <2>1. Verdict' = "foreign" BY <1>3, <1>5 DEF Verdict
  <2>2. forgotten BY <1>5
  <2> QED BY <1>1, <1>2, <2>1, <2>2 DEF Call!Strays, Call!Returns
<1> QED BY <1>4, <1>5

(* What a search or a resolve took for an answer is its own, by the invariant. *)
LEMMA OwnByInvariant ==
  ASSUME Good', NEW rc \in {"ok", "error", "strange"}, NEW lines, Finish(rc, lines),
         job.kind \in {"search", "resolve"}, rc = "error" => lines # <<>>, ~forgotten
  PROVE  Own(result')
<1>1. /\ result'.kind = job.kind /\ result'.rc = rc /\ result'.lines = lines
      /\ result'.doubt = FALSE
  BY FinishIs DEF Finish
<1>2. OwnAnswer' BY DEF Good
<1> QED BY <1>1, <1>2 DEF OwnAnswer, Own, Failure

LEMMA TakeRefines ==
  TypeOK /\ Good /\ (TakeWarmup \/ TakeInit \/ TakeJob) => Call!Next
<1> SUFFICES ASSUME TypeOK, Good, TakeWarmup \/ TakeInit \/ TakeJob PROVE Call!Next
  OBVIOUS
<1>1. PICK kind \in {"warmup", "init", "search", "resolve"}, pc \in {"start", "init"} :
        Take(kind, pc)
  BY DEF TakeWarmup, TakeInit, TakeJob
<1>2. Asked = "none" /\ Asked' = kind /\ Verdict' = "none" /\ forgotten' = forgotten
  BY <1>1 DEF Take, Asked, Verdict, NoResult, At, process
<1>3. Call!Ask(kind) BY <1>2 DEF Call!Ask
<1> QED BY <1>3 DEF Call!Next, Call!Questions

LEMMA StartedRefines ==
  ASSUME TypeOK, Good, Started, job.pc # "free", forgotten' = forgotten
  PROVE  [Call!Next]_Call!vars
<1>1. CASE job.kind = "warmup"
  <2>1. Finish("ok", <<>>) BY <1>1 DEF Started
  <2>2. Own(result') BY <1>1, <2>1, FinishIs DEF Own
  <2>3. Call!Answers \/ Call!Strays BY <2>1, <2>2, AnswersRefines
  <2> QED BY <2>3 DEF Call!Next
<1>2. CASE job.kind # "warmup"
  <2>1. Enter(AfterStart) /\ AfterStart \in Pcs /\ AfterStart # "free"
    BY <1>2 DEF Started, AfterStart, Pcs
  <2> QED BY <2>1, EntersUnseen
<1> QED BY <1>1, <1>2

LEMMA StartsRefine == TypeOK /\ Good /\ Starts => [Call!Next]_Call!vars
<1> SUFFICES ASSUME TypeOK, Good, Starts PROVE [Call!Next]_Call!vars
  OBVIOUS
<1>1. CASE AlreadyStarted \/ Greeted
  <2>1. Started /\ job.pc # "free" /\ forgotten' = forgotten
    BY <1>1, KeepIs DEF AlreadyStarted, Greeted, At
  <2> QED BY <2>1, StartedRefines
<1>2. CASE Fork
  <2>1. Enter("greet") /\ job.pc = "start" /\ forgotten' = FALSE BY <1>2 DEF Fork, At
  <2>2. job.kind \in {"warmup", "search", "resolve"} BY <2>1 DEF Good, PipeInv, HolderInv
  <2>3. Asked = job.kind BY <2>1 DEF Asked, At
  <2>4. job'.pc = "greet" /\ job'.kind = job.kind /\ result' = result
    BY <2>1, EnterIs DEF Pcs
  <2>5. Asked' = Asked /\ Verdict' = Verdict BY <2>1, <2>4, GoesOnUnseen
  <2>6. Call!Renews BY <2>1, <2>2, <2>3, <2>5 DEF Call!Renews, Call!Questions
  <2> QED BY <2>6 DEF Call!Next
<1>3. CASE ForkFails \/ NotGreeted
  <2>1. StopDaemon /\ Finish("broken", <<>>) /\ job.pc \in {"start", "greet"}
    BY <1>3 DEF ForkFails, NotGreeted, NotStarted, At
  <2>2. job.kind # "init" BY <2>1 DEF Good, PipeInv, HolderInv
  <2>3. Call!Fails BY <2>1, <2>2, StopIs, FailsRefines
  <2> QED BY <2>3 DEF Call!Next
<1> QED BY <1>1, <1>2, <1>3 DEF Starts

LEMMA WarmsUpRefines == TypeOK /\ Good /\ WarmsUp => [Call!Next]_Call!vars
<1> SUFFICES ASSUME TypeOK, Good, WarmsUp PROVE [Call!Next]_Call!vars
  OBVIOUS
<1>1. CASE AskInit
  <2>1. job.pc = "init" /\ forgotten' = forgotten BY <1>1, KeepIs DEF AskInit, At
  <2>2. job.kind = "init" BY <2>1 DEF Good, PipeInv, HolderInv
  <2>3. CASE Enter("told") BY <2>1, <2>3, EntersUnseen DEF Pcs
  <2>4. CASE Finish("error", <<>>)
    <3>1. Call!Fails BY <2>1, <2>2, <2>4, FailsRefines
    <3> QED BY <3>1 DEF Call!Next
  <2> QED BY <1>1, <2>3, <2>4 DEF AskInit
<1>2. CASE InitAnswered
  <2>1. /\ job.pc = "told" /\ job.kind = "init" /\ ReadLine /\ Finish("ok", <<NextLine>>)
        /\ forgotten' = forgotten
    BY <1>2, KeepIs DEF InitAnswered, At
  <2>2. ASSUME ~forgotten PROVE Own(result')
    <3>1. Flow \in InitAnswers(MyStamp)
      BY <2>1, <2>2, ToldIsRead DEF Good, PipeInv, At, ToldAnswers
    <3>2. NextLine = Says("CRATEDIG_OK", MyStamp, 0)
      BY <2>1, <3>1, ReadsFlow DEF InitAnswers
    <3>3. result'.kind = "init" /\ result'.of = MyStamp /\ result'.lines = <<NextLine>>
      BY <2>1, FinishIs
    <3> QED BY <3>2, <3>3 DEF Own
  <2>3. Call!Answers \/ Call!Strays BY <2>1, <2>2, AnswersRefines
  <2> QED BY <2>3 DEF Call!Next
<1>3. CASE InitForgotten
  <2>1. /\ job.pc = "told" /\ job.kind = "init" /\ Finish("timeout", <<>>)
        /\ forgotten' = TRUE
    BY <1>3 DEF InitForgotten, At
  <2>2. Call!Fails BY <2>1, FailsRefines
  <2> QED BY <2>2 DEF Call!Next
<1> QED BY <1>1, <1>2, <1>3 DEF WarmsUp

LEMMA SearchesRefine == TypeOK /\ Good /\ Good' /\ Searches => [Call!Next]_Call!vars
<1> SUFFICES ASSUME TypeOK, Good, Good', Searches PROVE [Call!Next]_Call!vars
  OBVIOUS
<1>1. CASE TellFilter \/ FilterAnswered
  <2>1. job.pc # "free" /\ (Enter("told") \/ Enter("ask")) /\ forgotten' = forgotten
    BY <1>1, KeepIs DEF TellFilter, FilterAnswered, At
  <2> QED BY <2>1, EntersUnseen DEF Pcs
<1>2. CASE FilterForgotten
  <2>1. /\ job.pc = "told" /\ job.kind = "search" /\ Enter("ask") /\ forgotten' = TRUE
    BY <1>2 DEF FilterForgotten, At
  <2>2. job'.pc = "ask" /\ job'.kind = job.kind /\ result' = result
    BY <2>1, EnterIs DEF Pcs
  <2>3. Asked' = Asked /\ Verdict' = Verdict BY <2>1, <2>2, GoesOnUnseen
  <2>4. Asked = "search" BY <2>1 DEF Asked, At
  <2>5. Call!Lapses BY <2>1, <2>3, <2>4 DEF Call!Lapses
  <2> QED BY <2>5 DEF Call!Next
<1>3. CASE SearchLine
  <2>1. job.pc = "search" /\ forgotten' = forgotten BY <1>3, KeepIs DEF SearchLine, At
  <2>2. job.kind = "search" BY <2>1 DEF Good, PipeInv, HolderInv
  <2>3. CASE NextLine.word \in {"SEARCH_END", "ERROR"}
    <3> DEFINE lines(rc) == IF rc = "ok" THEN Append(items, NextLine) ELSE <<NextLine>>
    <3>1. PICK rc \in {"ok", "error"} : Finish(rc, lines(rc))
      BY <1>3, <2>3 DEF SearchLine
    <3>2. rc = "error" => lines(rc) # <<>> OBVIOUS
    <3> HIDE DEF lines
    <3>3. ~forgotten => Own(result') BY <2>2, <3>1, <3>2, OwnByInvariant
    <3>4. Call!Answers \/ Call!Strays BY <2>1, <3>1, <3>2, <3>3, AnswersRefines
    <3> QED BY <3>4 DEF Call!Next
  <2>4. CASE NextLine.word \notin {"SEARCH_END", "ERROR"}
    <3>1. job' = job /\ result' = result BY <1>3, <2>4 DEF SearchLine
    <3>2. Asked' = Asked /\ Verdict' = Verdict BY <2>1, <3>1, GoesOnUnseen
    <3> QED BY <2>1, <3>2 DEF Call!vars
  <2> QED BY <2>3, <2>4
<1>4. CASE SearchTimesOut
  <2>1. StopDaemon /\ job.pc = "search" /\ forgotten' = FALSE
    BY <1>4, StopIs DEF SearchTimesOut, At
  <2>2. job.kind = "search" BY <2>1 DEF Good, PipeInv, HolderInv
  <2>3. CASE job.try = 1
    <3>1. job' = [job EXCEPT !.pc = "start", !.try = 2] /\ result' = result
      BY <1>4, <2>3 DEF SearchTimesOut, Retry
    <3>2. job'.pc = "start" /\ job'.kind = job.kind BY <3>1 DEF TypeOK, Job
    <3>3. Asked' = Asked /\ Verdict' = Verdict BY <2>1, <3>1, <3>2, GoesOnUnseen
    <3>4. Asked = "search" BY <2>1, <2>2 DEF Asked, At
    <3>5. Call!Renews BY <2>1, <3>3, <3>4 DEF Call!Renews, Call!Questions
    <3> QED BY <3>5 DEF Call!Next
  <2>4. CASE job.try # 1
    <3>1. Finish("timeout", <<>>) BY <1>4, <2>4 DEF SearchTimesOut
    <3>2. Call!Fails BY <2>1, <2>2, <3>1, FailsRefines
    <3> QED BY <3>2 DEF Call!Next
  <2> QED BY <2>3, <2>4
<1> QED BY <1>1, <1>2, <1>3, <1>4 DEF Searches

LEMMA QuestionsRefine ==
  TypeOK /\ Good /\ Good' /\ (Ask \/ Resolves) => [Call!Next]_Call!vars
<1> SUFFICES ASSUME TypeOK, Good, Good', Ask \/ Resolves PROVE [Call!Next]_Call!vars
  OBVIOUS
<1>1. CASE Ask
  <2>1. job.pc = "ask" /\ job.kind # "init"
    BY <1>1 DEF Ask, At, Good, PipeInv, HolderInv
  <2>2. CASE KeepDaemon /\ (Enter("resolve") \/ Enter("search"))
    BY <2>1, <2>2, KeepIs, EntersUnseen DEF Pcs
  <2>3. CASE StopDaemon /\ Finish("broken", <<>>)
    <3>1. Call!Fails BY <2>1, <2>3, StopIs, FailsRefines
    <3> QED BY <3>1 DEF Call!Next
  <2> QED BY <1>1, <2>2, <2>3 DEF Ask
<1>2. CASE ResolveLine
  <2>1. job.pc = "resolve" /\ forgotten' = forgotten BY <1>2, KeepIs DEF ResolveLine, At
  <2>2. job.kind = "resolve" BY <2>1 DEF Good, PipeInv, HolderInv
  <2>3. PICK rc \in {"ok", "error", "strange"} : Finish(rc, <<NextLine>>)
    BY <1>2 DEF ResolveLine
  <2>4. <<NextLine>> # <<>> OBVIOUS
  <2>5. ~forgotten => Own(result') BY <2>2, <2>3, <2>4, OwnByInvariant
  <2>6. Call!Answers \/ Call!Strays BY <2>1, <2>3, <2>4, <2>5, AnswersRefines
  <2> QED BY <2>6 DEF Call!Next
<1>3. CASE ResolveTimesOut
  <2>1. StopDaemon /\ Finish("timeout", <<>>) /\ job.pc = "resolve"
    BY <1>3 DEF ResolveTimesOut, At
  <2>2. job.kind = "resolve" BY <2>1 DEF Good, PipeInv, HolderInv
  <2>3. Call!Fails BY <2>1, <2>2, StopIs, FailsRefines
  <2> QED BY <2>3 DEF Call!Next
<1> QED BY <1>1, <1>2, <1>3 DEF Resolves

LEMMA StepRefines == TypeOK /\ Good /\ Good' /\ [Next]_vars => [Call!Next]_Call!vars
<1> SUFFICES ASSUME TypeOK, Good, Good', [Next]_vars PROVE [Call!Next]_Call!vars
  OBVIOUS
<1>1. CASE UNCHANGED vars \/ Process
  <2>1. job' = job /\ result' = result /\ forgotten' = forgotten
    BY <1>1 DEF vars, process, Process, TakeRequest, WriteLine, ProcessExits
  <2> QED BY <2>1 DEF Asked, Verdict, At, Call!vars
<1>2. CASE TakeWarmup \/ TakeInit \/ TakeJob
  BY <1>2, TakeRefines
<1>3. CASE Holder
  BY <1>3, StartsRefine, WarmsUpRefines, SearchesRefine, QuestionsRefine DEF Holder
<1> QED BY <1>1, <1>2, <1>3 DEF Next

(* The engine's side of the pipe is a DaemonCall, for any number of jobs,    *)
(* exits and results.  In particular a search or a resolve that comes back   *)
(* without an answer leaves a daemon that can be trusted.                    *)
THEOREM IsACall == Spec => ImplementsCall
<1>1. Init => TypeOK /\ Good BY TypeInit, GoodInit
<1>2. TypeOK /\ Good /\ [Next]_vars => (TypeOK /\ Good)' BY TypeStep, GoodStep
<1>3. TypeOK /\ Good /\ (TypeOK /\ Good)' /\ [Next]_vars => [Call!Next]_Call!vars
  BY StepRefines
<1> QED BY <1>1, <1>2, <1>3, CallStarts, PTL DEF Spec, ImplementsCall, Call!Spec
=============================================================================
