------------------------- MODULE SearchEngineProofs -------------------------
(* Theorems about SearchEngine, for all providers, queries, filters and    *)
(* bounds, whether or not threads can always be created.                   *)
EXTENDS SearchEngine, FiniteSetTheorems, TLAPS

LEMMA Bounds ==
  /\ "cratedig" \in Queries /\ {"youtube", "cratedig"} \subseteq Providers
  /\ LoneProviders \subseteq Providers /\ MaxCmds \in Nat /\ MaxLosses \in Nat
  BY SearchAssumption

LEMMA NoneIsNothing == None \notin Queries /\ None \notin Filters /\ None \notin Request
  BY SearchAssumption DEF Request

-----------------------------------------------------------------------------
(* The state type, in the parts a step leaves alone or not. *)
RequestType == prov \in Providers /\ query \in Queries \cup {None}
               /\ queued \in Request \cup {None}
AnswerType == status \in Statuses /\ count \in BOOLEAN /\ shown \in Shown \cup {None}
RemoteType == daemon \in {"up", "down", "dead"} /\ filter \in Filters \cup {None}
              /\ losses \in 0..MaxLosses
AskedType == want \in Filters \cup {None} /\ latest \in Request \cup {None}
             /\ cmds \in 0..MaxCmds
TeardownType == down \in {"up", "joining", "joined", "freed"}
                /\ successor \in BOOLEAN /\ stranded \in BOOLEAN
ThreadType == running \in BOOLEAN /\ threads \subseteq Thread
PendingType == pending \in Filters \cup {None}

LEMMA TypeParts == TypeOK <=> /\ RequestType /\ AnswerType /\ RemoteType /\ AskedType
                              /\ TeardownType /\ ThreadType /\ PendingType
  BY DEF TypeOK, RequestType, AnswerType, RemoteType, AskedType, TeardownType, ThreadType,
         PendingType
LEMMA TypePartsAfter ==
  TypeOK' <=> /\ RequestType' /\ AnswerType' /\ RemoteType' /\ AskedType'
              /\ TeardownType' /\ ThreadType' /\ PendingType'
  BY TypeParts, PTL

LEMMA SameRequest == RequestType /\ UNCHANGED request => RequestType'
  BY DEF RequestType, request
LEMMA SameAnswer == AnswerType /\ UNCHANGED answer => AnswerType'
  BY DEF AnswerType, answer
LEMMA SameRemote == RemoteType /\ UNCHANGED remote => RemoteType'
  BY DEF RemoteType, remote
LEMMA SameAsked == AskedType /\ UNCHANGED asked => AskedType'
  BY DEF AskedType, asked
LEMMA SameTeardown == TeardownType /\ UNCHANGED <<teardown, stranded>> => TeardownType'
  BY DEF TeardownType, teardown

LEMMA NewThreadType == \A p \in Providers : NewThread(p) \in Thread
  BY DEF NewThread, Thread

LEMMA TypeSpawn ==
  ASSUME TypeOK, NEW r \in Request, NEW others \in SUBSET threads, Spawn(r, others)
  PROVE  prov' \in Providers /\ query' \in Queries /\ AnswerType' /\ ThreadType'
<1>1. r.prov \in Providers /\ r.query \in Queries
  BY DEF Request
<1>2. AnswerType'
  BY TypeParts DEF Spawn, AnswerType, Statuses
<1>3. ThreadType'
  BY <1>1, TypeParts, NewThreadType DEF Spawn, ThreadType
<1> QED
  BY <1>1, <1>2, <1>3 DEF Spawn

LEMMA TypeStartSearch ==
  ASSUME TypeOK, NEW r \in Request, StartSearch(r)
  PROVE  RequestType' /\ AnswerType' /\ ThreadType' /\ latest' = r
<1>1. CASE running /\ Slot(r) /\ status' = "queued" /\ prov' = r.prov
           /\ UNCHANGED <<query, count, shown, running, threads>>
  <2>1. r.prov \in Providers
    BY DEF Request
  <2>2. RequestType'
    BY <1>1, <2>1, TypeParts DEF RequestType, Slot
  <2>3. AnswerType' /\ ThreadType'
    BY <1>1, TypeParts DEF AnswerType, Statuses, ThreadType
  <2> QED
    BY <2>2, <2>3 DEF StartSearch
<1>2. CASE ~running /\ Spawn(r, threads) /\ UNCHANGED queued
  <2>1. prov' \in Providers /\ query' \in Queries /\ AnswerType' /\ ThreadType'
    BY <1>2, TypeSpawn
  <2> QED
    BY <1>2, <2>1, TypeParts DEF RequestType, StartSearch
<1> QED
  BY <1>1, <1>2 DEF StartSearch

LEMMA TypeClient == TypeOK /\ Client => TypeOK'
<1> SUFFICES ASSUME TypeOK, Client PROVE TypeOK'
  OBVIOUS
<1> USE TypeParts
<1>0. Command => cmds' \in 0..MaxCmds /\ UNCHANGED <<teardown, stranded>>
  BY Bounds DEF Command, AskedType
<1>1. ASSUME NEW f \in Filters, SetFilter(f) PROVE TypeOK'
  <2>1. [prov |-> "cratedig", query |-> "cratedig"] \in Request
    BY Bounds DEF Request
  <2>2. RequestType' /\ AnswerType' /\ ThreadType' /\ latest' \in Request
    BY <1>1, <2>1, TypeStartSearch DEF SetFilter
  <2>3. AskedType' /\ PendingType'
    BY <1>0, <1>1, <2>2 DEF SetFilter, AskedType, PendingType
  <2> QED
    BY <1>0, <1>1, <2>2, <2>3, TypePartsAfter, SameRemote, SameTeardown DEF SetFilter
<1>2. ASSUME NEW q \in Queries, SetQuery(q) PROVE TypeOK'
  <2>1. [prov |-> prov, query |-> q] \in Request
    BY DEF Request, RequestType
  <2>2. RequestType' /\ AnswerType' /\ ThreadType' /\ latest' \in Request
    BY <1>2, <2>1, TypeStartSearch DEF SetQuery
  <2>3. AskedType' /\ PendingType'
    BY <1>0, <1>2, <2>2 DEF SetQuery, AskedType, PendingType
  <2> QED
    BY <1>0, <1>2, <2>2, <2>3, TypePartsAfter, SameRemote, SameTeardown DEF SetQuery
<1>3. CASE ClearQuery
  <2>1. RequestType' /\ AnswerType' /\ ThreadType' /\ PendingType'
    BY <1>3 DEF ClearQuery, RequestType, AnswerType, Statuses, ThreadType, PendingType
  <2>2. AskedType'
    BY <1>0, <1>3 DEF ClearQuery, AskedType
  <2> QED
    BY <1>0, <1>3, <2>1, <2>2, TypePartsAfter, SameRemote, SameTeardown DEF ClearQuery
<1>4. ASSUME NEW p \in LoneProviders, SetProvider(p) PROVE TypeOK'
  <2>1. RequestType' /\ ThreadType' /\ PendingType'
    BY <1>4, Bounds DEF SetProvider, RequestType, ThreadType, PendingType
  <2>2. AskedType'
    BY <1>0, <1>4 DEF SetProvider, AskedType
  <2> QED
    BY <1>0, <1>4, <2>1, <2>2, TypePartsAfter, SameAnswer, SameRemote, SameTeardown
       DEF SetProvider
<1> QED
  BY <1>1, <1>2, <1>3, <1>4 DEF Client

(* What the steps of a thread make of it is a thread. *)
LEMMA ThreadFields ==
  ASSUME NEW t \in Thread
  PROVE  /\ t.prov \in Providers /\ t.query \in Queries \cup {None}
         /\ t.attempt \in 1..2 /\ t.found \in Shown \cup {None}
         /\ Connected(t) \in Thread /\ Failed(t) \in Thread
         /\ [t EXCEPT !.pc = "search"] \in Thread
         /\ t.attempt = 1 => [t EXCEPT !.pc = "connect", !.attempt = @ + 1] \in Thread
         /\ \A p \in Providers, q \in Queries \cup {None} :
              /\ [t EXCEPT !.pc = "connect", !.prov = p, !.query = q] \in Thread
              /\ [t EXCEPT !.pc = "spawn", !.prov = p, !.query = q] \in Thread
         /\ \A f \in Shown \cup {None}, rc \in {"ok", "error"} :
              [t EXCEPT !.pc = "publish", !.rc = rc, !.found = f] \in Thread
<1>1. t.prov \in Providers /\ t.query \in Queries \cup {None}
      /\ t.attempt \in 1..2 /\ t.found \in Shown \cup {None}
  BY DEF Thread
<1>2. Connected(t) \in Thread /\ Failed(t) \in Thread
      /\ [t EXCEPT !.pc = "search"] \in Thread
  BY DEF Connected, Failed, Thread
<1>3. t.attempt = 1 => [t EXCEPT !.pc = "connect", !.attempt = @ + 1] \in Thread
  <2>1. \A a \in 1..2 : [t EXCEPT !.pc = "connect", !.attempt = a] \in Thread
    BY DEF Thread
  <2>2. ASSUME t.attempt = 1 PROVE t.attempt + 1 \in 1..2
    BY <2>2
  <2> QED
    BY <2>1, <2>2, Zenon
<1>4. ASSUME NEW p \in Providers, NEW q \in Queries \cup {None}
      PROVE  /\ [t EXCEPT !.pc = "connect", !.prov = p, !.query = q] \in Thread
             /\ [t EXCEPT !.pc = "spawn", !.prov = p, !.query = q] \in Thread
  BY DEF Thread
<1>5. ASSUME NEW f \in Shown \cup {None}, NEW rc \in {"ok", "error"}
      PROVE  [t EXCEPT !.pc = "publish", !.rc = rc, !.found = f] \in Thread
  BY DEF Thread
<1> QED
  BY <1>1, <1>2, <1>3, <1>4, <1>5

LEMMA TypeBecomes == ASSUME TypeOK, NEW t \in threads, NEW new \in Thread, Becomes(t, new)
                     PROVE  threads' \subseteq Thread
  BY TypeParts DEF Becomes, ThreadType

LEMMA TypeStep ==
  ASSUME TypeOK, NEW t \in threads, Step(t)
  PROVE  TypeOK'
<1> USE TypeParts
<1>0. t \in Thread
  BY DEF ThreadType
<1>1. Quiet => RequestType' /\ AnswerType' /\ AskedType' /\ UNCHANGED running
  BY SameRequest, SameAnswer, SameAsked DEF Quiet
<1>2. ASSUME UNCHANGED <<teardown, stranded>>, Quiet, threads' \subseteq Thread,
             PendingType', RemoteType'
      PROVE  TypeOK'
  BY <1>1, <1>2, TypePartsAfter, SameTeardown DEF ThreadType
<1>3. UNCHANGED pending => PendingType'
  BY DEF PendingType
<1>4. CASE Reads(t) /\ UNCHANGED <<teardown, stranded>>
  <2>1. threads' \subseteq Thread
    BY <1>0, <1>4, ThreadFields, TypeBecomes DEF Reads, RequestType
  <2> QED
    BY <1>2, <1>3, <1>4, <2>1, SameRemote DEF Reads
<1>5. CASE Connects(t) /\ UNCHANGED <<teardown, stranded>>
  <2>1. threads' \subseteq Thread
    BY <1>0, <1>5, ThreadFields, TypeBecomes DEF Connects
  <2>2. RemoteType'
    BY <1>5 DEF Connects, remote, RemoteType
  <2> QED
    BY <1>2, <1>3, <1>5, <2>1, <2>2 DEF Connects
<1>6. CASE SendsFilter(t) /\ UNCHANGED <<teardown, stranded>>
  <2>1. threads' \subseteq Thread
    BY <1>0, <1>6, ThreadFields, TypeBecomes DEF SendsFilter
  <2>2. RemoteType' /\ PendingType'
    BY <1>6 DEF SendsFilter, RemoteType, PendingType
  <2> QED
    BY <1>2, <1>6, <2>1, <2>2 DEF SendsFilter
<1>7. CASE Searches(t) /\ UNCHANGED <<teardown, stranded>>
  <2>1. Found(t) \in Shown
    BY <1>0, ThreadFields DEF Found, Shown, RemoteType
  <2>2. PICK f \in Shown \cup {None}, rc \in {"ok", "error"} :
          Becomes(t, [t EXCEPT !.pc = "publish", !.rc = rc, !.found = f])
    BY <1>7, <2>1 DEF Searches
  <2>3. threads' \subseteq Thread
    BY <1>0, <2>2, ThreadFields, TypeBecomes
  <2> QED
    BY <1>2, <1>3, <1>7, <2>3, SameRemote DEF Searches
<1>8. CASE SearchWriteFails(t) /\ UNCHANGED <<teardown, stranded>>
  <2>1. threads' \subseteq Thread
    BY <1>0, <1>8, ThreadFields, TypeBecomes DEF SearchWriteFails
  <2>2. RemoteType'
    BY <1>8 DEF SearchWriteFails, RemoteType
  <2> QED
    BY <1>2, <1>3, <1>8, <2>1, <2>2 DEF SearchWriteFails
<1>9. CASE SearchTimesOut(t) /\ UNCHANGED <<teardown, stranded>>
  <2>1. threads' \subseteq Thread
    <3>1. CASE t.attempt = 1
      BY <1>0, <1>9, <3>1, ThreadFields, TypeBecomes DEF SearchTimesOut, Retries
    <3>2. CASE t.attempt # 1
      BY <1>0, <1>9, <3>2, ThreadFields, TypeBecomes DEF SearchTimesOut, Retries
    <3> QED
      BY <3>1, <3>2
  <2>2. RemoteType'
    BY <1>9, Bounds DEF SearchTimesOut, RemoteType
  <2> QED
    BY <1>2, <1>3, <1>9, <2>1, <2>2 DEF SearchTimesOut
<1>10. CASE Publishes(t) /\ UNCHANGED <<teardown, stranded>>
  <2>1. threads' \subseteq Thread /\ running' \in BOOLEAN
    <3>1. CASE TakesQueue(t)
      <4>1. queued.prov \in Providers /\ queued.query \in Queries \cup {None}
        BY <3>1 DEF TakesQueue, RequestType, Request
      <4> QED
        BY <1>0, <1>10, <3>1, <4>1, ThreadFields, TypeBecomes
           DEF Publishes, RunningGoesOn, ThreadType
    <3>2. CASE ~TakesQueue(t)
      BY <1>10, <3>2 DEF Publishes, ThreadType
    <3> QED
      BY <3>1, <3>2
  <2>2. AnswerType'
    <3>1. CASE StillAsked(t)
      <4>1. count' = (t.found # None)
        BY <1>10, <3>1 DEF Publishes
      <4>2. count' \in BOOLEAN
        BY <4>1, Zenon
      <4>3. shown' \in Shown \cup {None}
        BY <1>0, <1>10, <3>1, ThreadFields DEF Publishes, AnswerType
      <4>4. status' \in {"error", "done", "no_results"}
        BY <1>10, <3>1 DEF Publishes
      <4> QED
        BY <4>2, <4>3, <4>4 DEF AnswerType, Statuses
    <3>2. CASE ~StillAsked(t)
      BY <1>10, <3>2, SameAnswer DEF Publishes
    <3> QED
      BY <3>1, <3>2
  <2>3. RequestType' /\ PendingType'
    BY <1>10 DEF Publishes, RequestType, PendingType
  <2> QED
    BY <1>10, <2>1, <2>2, <2>3, TypePartsAfter, SameRemote, SameAsked, SameTeardown
       DEF Publishes, ThreadType
<1>11. CASE SpawnsQueued(t)
  <2>0. t.pc = "spawn" /\ Spawn([prov |-> t.prov, query |-> t.query], threads \ {t})
    BY <1>11 DEF SpawnsQueued
  <2>1. prov' \in Providers /\ query' \in Queries \cup {None} /\ AnswerType' /\ ThreadType'
    <3>1. t.prov \in Providers /\ t.query \in Queries \cup {None}
      BY <1>0, ThreadFields
    <3>2. AnswerType'
      BY <2>0 DEF Spawn, AnswerType, Statuses
    <3>3. NewThread(t.prov) \in Thread
      BY <3>1, NewThreadType
    <3>4. ThreadType'
      BY <2>0, <3>3 DEF Spawn, ThreadType
    <3> QED
      BY <2>0, <3>1, <3>2, <3>4 DEF Spawn
  <2>2. RequestType' /\ PendingType'
    BY <1>11, <2>1 DEF SpawnsQueued, RequestType, PendingType
  <2>3. TeardownType'
    <3>1. successor' \in BOOLEAN
      <4>1. successor' = (down = "joining" \/ successor)
        BY <1>11 DEF SpawnsQueued
      <4> QED
        BY <4>1 DEF TeardownType
    <3>2. stranded' \in BOOLEAN
      <4>1. stranded' = (stranded \/ (~running' /\ queued # None))
        BY <1>11 DEF SpawnsQueued
      <4> QED
        BY <4>1 DEF TeardownType
    <3> QED
      BY <1>11, <3>1, <3>2 DEF SpawnsQueued, TeardownType
  <2> QED
    BY <1>11, <2>1, <2>2, <2>3, TypePartsAfter, SameRemote, SameAsked DEF SpawnsQueued
<1> QED
  BY <1>4, <1>5, <1>6, <1>7, <1>8, <1>9, <1>10, <1>11 DEF Step

LEMMA TypeOthers == TypeOK /\ (DaemonLost \/ Teardown \/ UNCHANGED vars) => TypeOK'
<1> SUFFICES ASSUME TypeOK, DaemonLost \/ Teardown \/ UNCHANGED vars PROVE TypeOK'
  OBVIOUS
<1> USE TypeParts
<1>1. CASE DaemonLost
  <2>1. RemoteType' /\ ThreadType' /\ PendingType'
    BY <1>1, Bounds DEF DaemonLost, RemoteType, ThreadType, PendingType
  <2> QED
    BY <1>1, <2>1, TypePartsAfter, SameRequest, SameAnswer, SameAsked, SameTeardown
       DEF DaemonLost
<1>2. CASE Destroy
  <2>1. RemoteType' /\ AskedType'
    BY <1>2 DEF Destroy, RemoteType, AskedType
  <2>2. ThreadType' /\ PendingType' /\ TeardownType'
    BY <1>2 DEF Destroy, ThreadType, PendingType, TeardownType
  <2> QED
    BY <1>2, <2>1, <2>2, TypePartsAfter, SameRequest, SameAnswer DEF Destroy
<1>3. CASE JoinsSearch
  <2>1. ThreadType' /\ PendingType' /\ TeardownType'
    BY <1>3 DEF JoinsSearch, ThreadType, PendingType, TeardownType
  <2> QED
    BY <1>3, <2>1, TypePartsAfter, SameRequest, SameAnswer, SameAsked, SameRemote
       DEF JoinsSearch
<1>4. CASE Frees
  <2>1. RemoteType' /\ ThreadType' /\ PendingType' /\ TeardownType'
    BY <1>4 DEF Frees, RemoteType, ThreadType, PendingType, TeardownType
  <2> QED
    BY <1>4, <2>1, TypePartsAfter, SameRequest, SameAnswer, SameAsked DEF Frees
<1>5. CASE UNCHANGED vars
  BY <1>5, TypePartsAfter, SameRequest, SameAnswer, SameAsked, SameRemote, SameTeardown
     DEF vars, ThreadType, PendingType
<1> QED
  BY <1>1, <1>2, <1>3, <1>4, <1>5 DEF Teardown

LEMMA TypeNext == TypeOK /\ [Next]_vars => TypeOK'
  BY TypeClient, TypeStep, TypeOthers DEF Next, SearchThread

(* The state type holds throughout; with it, no search asks the daemon more  *)
(* than twice (yt 1362-1373), or leaves an unknown status.                   *)
THEOREM TypeCorrect == Spec => []TypeOK
<1>1. Init => TypeOK
  <2> SUFFICES ASSUME Init PROVE TypeOK
    OBVIOUS
  <2>1. RequestType /\ AnswerType
    BY Bounds DEF Init, RequestType, AnswerType, Statuses
  <2>4. AskedType
    BY Bounds DEF Init, AskedType
  <2>2. RemoteType
    BY Bounds DEF Init, RemoteType
  <2>3. TeardownType /\ ThreadType /\ PendingType
    BY DEF Init, TeardownType, ThreadType, PendingType
  <2> QED
    BY <2>1, <2>2, <2>3, <2>4, TypeParts
<1> QED
  BY <1>1, TypeNext, PTL DEF Spec

-----------------------------------------------------------------------------
(* There is one thread at most.  Before the teardown the flag tells whether  *)
(* there is one; later it may be down only for a thread that was started     *)
(* while the one before it was joined.                                       *)
OneThread == \A t, u \in threads : t = u
FlagInv ==
  /\ running => threads # {}
  /\ threads # {} => running \/ (successor /\ down \in {"joined", "freed"})
  /\ down \in {"joined", "freed"} /\ threads # {} => successor
ThreadsInv == OneThread /\ FlagInv

LEMMA BecomesOne == ASSUME OneThread, NEW t \in threads, NEW new, Becomes(t, new)
                    PROVE  threads' = {new}
  BY DEF OneThread, Becomes

LEMMA StepGoesOn ==
  ASSUME OneThread, NEW t \in threads, Step(t)
  PROVE  \/ threads' = {} /\ running' = FALSE
         \/ /\ \E new : threads' = {new}
            /\ running' = running \/ (running' = TRUE /\ t.pc = "spawn")
<1>1. CASE Reads(t) \/ Connects(t) \/ SendsFilter(t) \/ SearchWriteFails(t)
           \/ SearchTimesOut(t) \/ Searches(t)
  <2>1. PICK new : Becomes(t, new)
    BY <1>1 DEF Reads, Connects, SendsFilter, SearchWriteFails, SearchTimesOut, Searches
  <2>2. running' = running
    BY <1>1 DEF Reads, Connects, SendsFilter, SearchWriteFails, SearchTimesOut, Searches, Quiet
  <2> QED
    BY <2>1, <2>2, BecomesOne
<1>2. CASE Publishes(t)
  <2>1. CASE TakesQueue(t)
    BY <1>2, <2>1, BecomesOne DEF Publishes, RunningGoesOn
  <2>2. CASE ~TakesQueue(t)
    BY <1>2, <2>2 DEF Publishes, OneThread
  <2> QED
    BY <2>1, <2>2
<1>3. CASE SpawnsQueued(t)
  <2>1. threads \ {t} = {}
    BY DEF OneThread
  <2> QED
    BY <1>3, <2>1 DEF SpawnsQueued, Spawn
<1> QED
  BY <1>1, <1>2, <1>3 DEF Step

LEMMA ThreadsInvStep == ThreadsInv /\ [Next]_vars => ThreadsInv'
<1> SUFFICES ASSUME ThreadsInv, [Next]_vars PROVE ThreadsInv'
  OBVIOUS
<1>1. CASE Client
  <2>1. down = "up" /\ UNCHANGED teardown
    BY <1>1 DEF Client, SetFilter, SetQuery, ClearQuery, SetProvider, Command
  <2>2. running => threads # {}
    BY DEF ThreadsInv, FlagInv
  <2>3. threads # {} => running
    BY <2>1 DEF ThreadsInv, FlagInv
  <2>4. CASE UNCHANGED <<running, threads>>
    BY <2>1, <2>4 DEF ThreadsInv, OneThread, FlagInv, teardown
  <2>5. ASSUME NEW r, ~running, Spawn(r, threads) PROVE ThreadsInv'
    BY <2>1, <2>3, <2>5 DEF Spawn, ThreadsInv, OneThread, FlagInv, teardown
  <2> QED
    BY <1>1, <2>4, <2>5 DEF Client, SetFilter, SetQuery, ClearQuery, SetProvider, StartSearch
<1>2. ASSUME NEW t \in threads, Step(t) PROVE ThreadsInv'
  <2>1. /\ down' = down
        /\ successor => successor'
        /\ down = "joined" /\ threads # {} => successor
    BY <1>2 DEF Step, SpawnsQueued, teardown, ThreadsInv, FlagInv
  <2>2. CASE threads' = {} /\ running' = FALSE
    BY <2>2 DEF ThreadsInv, OneThread, FlagInv
  <2>3. CASE (\E new : threads' = {new}) /\ (running' = running \/ running' = TRUE)
    <3>1. OneThread' /\ threads' # {}
      BY <2>3 DEF OneThread
    <3>2. running \/ (successor /\ down \in {"joined", "freed"})
      BY <1>2, Zenon DEF ThreadsInv, FlagInv
    <3>3. running' \/ (successor' /\ down' \in {"joined", "freed"})
      BY <2>1, <2>3, <3>2
    <3>4. down' \in {"joined", "freed"} => successor'
      BY <1>2, <2>1 DEF ThreadsInv, FlagInv
    <3> QED
      BY <3>1, <3>3, <3>4, Zenon DEF ThreadsInv, FlagInv
  <2> QED
    BY <1>2, <2>2, <2>3, StepGoesOn DEF ThreadsInv
<1>3. CASE DaemonLost \/ UNCHANGED vars
  BY <1>3 DEF DaemonLost, vars, teardown, ThreadsInv, OneThread, FlagInv
<1>4. CASE Teardown
  BY <1>4 DEF Teardown, Destroy, JoinsSearch, Frees, ThreadsInv, OneThread, FlagInv
<1> QED
  BY <1>1, <1>2, <1>3, <1>4 DEF Next, SearchThread

LEMMA ThreadsInvHolds == Spec => []ThreadsInv
<1>1. Init => ThreadsInv
  BY DEF Init, ThreadsInv, OneThread, FlagInv
<1> QED
  BY <1>1, ThreadsInvStep, PTL DEF Spec

(* search_thread_running admits one search at a time and never outlives it:  *)
(* no order of requests, ends of searches and failed threads starts a second *)
(* thread or queues a request behind none (yt 1513-1541, 1555-1567).         *)
THEOREM FlagIsRight == Spec => []FlagCountsThreads
<1>1. ThreadsInv /\ TypeOK => FlagCountsThreads
  <2> SUFFICES ASSUME ThreadsInv, TypeOK PROVE FlagCountsThreads
    OBVIOUS
  <2>1. CASE threads = {}
    BY <2>1, FS_EmptySet DEF FlagCountsThreads, ThreadsInv, FlagInv
  <2>2. CASE threads # {}
    <3>1. PICK t : threads = {t}
      BY <2>2 DEF ThreadsInv, OneThread
    <3>2. Cardinality(threads) = 1
      BY <3>1, FS_Singleton
    <3> QED
      BY <2>2, <3>2 DEF FlagCountsThreads, ThreadsInv, FlagInv
  <2> QED
    BY <2>1, <2>2
<1> QED
  BY <1>1, ThreadsInvHolds, TypeCorrect, PTL

(* The instance is freed with no search thread left, one that was started    *)
(* from the queue while its predecessor was joined apart (yt 2096-2121).     *)
THEOREM FreeIsQuiet == Spec => []FreedIsQuiet
<1>1. ThreadsInv => FreedIsQuiet
  BY DEF ThreadsInv, FlagInv, FreedIsQuiet
<1> QED
  BY <1>1, ThreadsInvHolds, PTL

-----------------------------------------------------------------------------
(* What a thread has found answers its query; under a filter that is still   *)
(* the last one, unless a later one waits to be sent.                        *)
FoundInv ==
  \A t \in threads : t.pc = "publish" /\ t.found # None =>
    /\ t.found.query = t.query
    /\ t.found.prov = "cratedig" /\ pending = None => t.found.filter \in {want, None}

(* Until a thread has published no answer is shown as done. *)
BusyInv == \A t \in threads : t.pc # "spawn" => status \in {"searching", "queued", "idle"}

(* A process that is up holds the last filter, or none, or is about to be    *)
(* sent the last one.                                                        *)
SentInv ==
  /\ pending \in {None, want}
  /\ daemon = "up" /\ pending = None => filter \in {want, None}

AnswerInv == DoneShowsQuery /\ NeverStaleFilter /\ FoundInv /\ BusyInv /\ SentInv

LEMMA AnswerSpawn ==
  ASSUME AnswerInv, NEW r, NEW others, others = {}, Spawn(r, others),
         pending' \in {None, want'}, pending' = None => UNCHANGED <<pending, want>>,
         UNCHANGED <<daemon, filter>>
  PROVE  AnswerInv'
<1>1. /\ status' \in {"searching", "error"}
      /\ count' = FALSE
      /\ \A t \in threads' : t.pc = "read" /\ status' = "searching"
  BY DEF Spawn, NewThread
<1>2. DoneShowsQuery' /\ NeverStaleFilter'
  BY <1>1 DEF DoneShowsQuery, NeverStaleFilter
<1>3. FoundInv' /\ BusyInv'
  BY <1>1 DEF FoundInv, BusyInv
<1>4. SentInv'
  BY DEF AnswerInv, SentInv
<1> QED
  BY <1>2, <1>3, <1>4 DEF AnswerInv

LEMMA AnswerStartSearch ==
  ASSUME AnswerInv, ThreadsInv, down = "up", NEW r, StartSearch(r),
         pending' \in {None, want'}, pending' = None => UNCHANGED <<pending, want>>,
         UNCHANGED <<daemon, filter>>
  PROVE  AnswerInv'
<1>1. CASE running
  <2>1. status' = "queued" /\ UNCHANGED <<query, count, shown, threads>>
    BY <1>1 DEF StartSearch
  <2>2. DoneShowsQuery' /\ NeverStaleFilter' /\ BusyInv'
    BY <2>1 DEF DoneShowsQuery, NeverStaleFilter, BusyInv
  <2>3. FoundInv' /\ SentInv'
    BY <2>1 DEF AnswerInv, FoundInv, SentInv
  <2> QED
    BY <2>2, <2>3 DEF AnswerInv
<1>2. CASE ~running
  <2>1. threads = {}
    BY <1>2 DEF ThreadsInv, FlagInv
  <2>2. Spawn(r, threads)
    BY <1>2 DEF StartSearch
  <2> QED
    BY <2>1, <2>2, AnswerSpawn
<1> QED
  BY <1>1, <1>2

LEMMA AnswerClient == AnswerInv /\ ThreadsInv /\ Client => AnswerInv'
<1> SUFFICES ASSUME AnswerInv, ThreadsInv, Client PROVE AnswerInv'
  OBVIOUS
<1>0. down = "up"
  BY DEF Client, SetFilter, SetQuery, ClearQuery, SetProvider, Command
<1>1. ASSUME NEW f \in Filters, SetFilter(f) PROVE AnswerInv'
  <2>1. pending' = f /\ want' = f /\ f # None /\ UNCHANGED <<daemon, filter>>
    BY <1>1, NoneIsNothing DEF SetFilter, remote
  <2>2. StartSearch([prov |-> "cratedig", query |-> "cratedig"])
    BY <1>1 DEF SetFilter
  <2> QED
    BY <1>0, <2>1, <2>2, AnswerStartSearch
<1>2. ASSUME NEW q \in Queries, SetQuery(q) PROVE AnswerInv'
  <2>1. UNCHANGED <<pending, want, daemon, filter>>
    BY <1>2 DEF SetQuery, remote
  <2>2. StartSearch([prov |-> prov, query |-> q])
    BY <1>2 DEF SetQuery
  <2>3. pending' \in {None, want'}
    BY <2>1 DEF AnswerInv, SentInv
  <2> QED
    BY <1>0, <2>1, <2>2, <2>3, AnswerStartSearch
<1>3. CASE ClearQuery
  <2>1. status' = "idle" /\ UNCHANGED <<threads, pending, want, daemon, filter>>
    BY <1>3 DEF ClearQuery, remote
  <2> QED
    BY <2>1 DEF AnswerInv, DoneShowsQuery, NeverStaleFilter, FoundInv, BusyInv, SentInv
<1>4. ASSUME NEW p \in LoneProviders, SetProvider(p) PROVE AnswerInv'
  BY <1>4 DEF SetProvider, answer, remote, AnswerInv, DoneShowsQuery, NeverStaleFilter,
     FoundInv, BusyInv, SentInv
<1> QED
  BY <1>1, <1>2, <1>3, <1>4 DEF Client

(* A thread that goes on towards its answer. *)
LEMMA AnswerGoesOn ==
  ASSUME AnswerInv, ThreadsInv, NEW t \in threads, NEW new, Becomes(t, new),
         t.pc # "spawn", UNCHANGED <<query, status, count, shown, want>>, SentInv',
         pending' = pending \/ (pending' = None /\ new.pc # "publish"),
         new.pc = "publish" /\ new.found # None =>
           /\ new.found.query = new.query
           /\ new.found.prov = "cratedig" /\ pending = None => new.found.filter \in {want, None}
  PROVE  AnswerInv'
<1>1. threads' = {new}
  BY BecomesOne DEF ThreadsInv
<1>2. status' = status /\ status \in {"searching", "queued", "idle"}
  BY DEF AnswerInv, BusyInv
<1>3. BusyInv'
  BY <1>1, <1>2 DEF BusyInv
<1>4. DoneShowsQuery' /\ NeverStaleFilter'
  BY <1>2 DEF AnswerInv, DoneShowsQuery, NeverStaleFilter
<1>5. FoundInv'
  BY <1>1 DEF FoundInv
<1> QED
  BY <1>3, <1>4, <1>5 DEF AnswerInv

LEMMA AnswerStep ==
  ASSUME AnswerInv, ThreadsInv, TypeOK, NEW t \in threads, Step(t)
  PROVE  AnswerInv'
<1>0. t \in Thread
  BY TypeParts DEF ThreadType
<1>1. Quiet => UNCHANGED <<query, status, count, shown, want>>
  BY DEF Quiet, request, answer, asked
<1>2. SentInv
  BY DEF AnswerInv
<1>3. Failed(t).found = None
  BY <1>0 DEF Failed, Thread
<1>4. CASE Reads(t)
  <2>1. PICK new : Becomes(t, new) /\ new.pc = "connect"
    <3>1. [t EXCEPT !.pc = "connect", !.prov = prov, !.query = query].pc = "connect"
      BY <1>0 DEF Thread
    <3> QED
      BY <1>4, <3>1, Zenon DEF Reads
  <2>2. SentInv' /\ pending' = pending
    BY <1>1, <1>2, <1>4 DEF Reads, SentInv, remote
  <2> QED
    BY <1>1, <1>4, <2>1, <2>2, AnswerGoesOn DEF Reads
<1>5. CASE Connects(t)
  <2>1. PICK new \in {Connected(t), Failed(t)} : Becomes(t, new)
    BY <1>5 DEF Connects
  <2>2. new.pc = "publish" => new.found = None
    BY <1>0, <1>3 DEF Connected, Thread
  <2>3. SentInv' /\ pending' = pending
    BY <1>1, <1>2, <1>5 DEF Connects, SentInv, remote
  <2> QED
    BY <1>1, <1>5, <2>1, <2>2, <2>3, AnswerGoesOn DEF Connects
<1>6. CASE SendsFilter(t)
  <2>1. PICK new : Becomes(t, new) /\ new.pc = "search"
    BY <1>0, <1>6 DEF SendsFilter, Thread
  <2>2. SentInv' /\ pending' = None
    BY <1>1, <1>2, <1>6 DEF SendsFilter, SentInv
  <2> QED
    BY <1>1, <1>6, <2>1, <2>2, AnswerGoesOn DEF SendsFilter
<1>7. CASE Searches(t)
  <2>1. PICK f \in {Found(t), None}, rc \in {"ok", "error"} :
          Becomes(t, [t EXCEPT !.pc = "publish", !.rc = rc, !.found = f])
    BY <1>7 DEF Searches
  <2> DEFINE new == [t EXCEPT !.pc = "publish", !.rc = rc, !.found = f]
  <2>2. new.pc = "publish" /\ new.found = f /\ new.query = t.query
    BY <1>0 DEF Thread
  <2>3. /\ Found(t).query = t.query
        /\ Found(t).prov = "cratedig" => Found(t).filter = filter
    BY DEF Found, IsCrateDig
  <2>4. pending = None => filter \in {want, None}
    BY <1>2, <1>7 DEF Searches, SentInv
  <2>5. SentInv' /\ pending' = pending
    BY <1>1, <1>2, <1>7 DEF Searches, SentInv, remote
  <2>6. Becomes(t, new)
    BY <2>1
  <2>7. t.pc # "spawn" /\ UNCHANGED <<query, status, count, shown, want>>
    BY <1>1, <1>7 DEF Searches
  <2> HIDE DEF new
  <2> QED
    BY <2>2, <2>3, <2>4, <2>5, <2>6, <2>7, AnswerGoesOn
<1>8. CASE SearchWriteFails(t) \/ SearchTimesOut(t)
  <2>1. PICK new : Becomes(t, new) /\ (new.pc = "publish" => new.found = None)
    <3>1. [t EXCEPT !.pc = "connect", !.attempt = @ + 1].pc = "connect"
      BY <1>0 DEF Thread
    <3> QED
      BY <1>3, <1>8, <3>1, Zenon DEF SearchWriteFails, SearchTimesOut
  <2>2. SentInv' /\ pending' = pending
    BY <1>1, <1>2, <1>8 DEF SearchWriteFails, SearchTimesOut, SentInv
  <2>3. t.pc # "spawn" /\ UNCHANGED <<query, status, count, shown, want>>
    BY <1>1, <1>8 DEF SearchWriteFails, SearchTimesOut
  <2> QED
    BY <2>1, <2>2, <2>3, AnswerGoesOn
<1>9. CASE Publishes(t)
  <2>1. UNCHANGED <<query, pending, want, daemon, filter>> /\ t.pc = "publish"
    BY <1>9 DEF Publishes, remote, asked
  <2>2. SentInv'
    BY <1>2, <2>1 DEF SentInv
  <2>3. \A u \in threads' : u.pc = "spawn"
    <3>1. CASE TakesQueue(t)
      <4>1. threads' = {[t EXCEPT !.pc = "spawn", !.prov = queued.prov,
                                  !.query = queued.query]}
        BY <1>9, <3>1, BecomesOne DEF Publishes, ThreadsInv
      <4> QED
        BY <1>0, <4>1 DEF Thread
    <3>2. CASE ~TakesQueue(t)
      BY <1>9, <3>2 DEF Publishes, ThreadsInv, OneThread
    <3> QED
      BY <3>1, <3>2
  <2>4. FoundInv' /\ BusyInv'
    BY <2>3 DEF FoundInv, BusyInv
  <2>5. DoneShowsQuery' /\ NeverStaleFilter'
    <3>1. CASE ~StillAsked(t)
      <4>1. UNCHANGED <<status, count, shown>>
        BY <1>9, <3>1 DEF Publishes, answer
      <4> QED
        BY <2>1, <4>1 DEF AnswerInv, DoneShowsQuery, NeverStaleFilter
    <3>2. CASE StillAsked(t)
      <4>1. /\ count' = (t.found # None)
            /\ shown' = IF t.found # None THEN t.found ELSE shown
            /\ status' = CASE t.rc = "error" -> "error"
                           [] t.rc = "ok" /\ t.found # None -> "done"
                           [] OTHER -> "no_results"
        BY <1>9, <3>2, Zenon DEF Publishes
      <4>2. status' # "searching" /\ (status' = "done" => t.found # None)
        BY <4>1
      <4>3. CASE status' = "done"
        <5>1. count' /\ shown' = t.found
          BY <4>1, <4>2, <4>3
        <5>2. t.found.query = query
          BY <2>1, <3>2, <4>2, <4>3 DEF StillAsked, AnswerInv, FoundInv
        <5>3. t.found.prov = "cratedig" /\ pending = None => t.found.filter \in {want, None}
          BY <2>1, <4>2, <4>3 DEF AnswerInv, FoundInv
        <5> QED
          BY <2>1, <4>2, <5>1, <5>2, <5>3 DEF DoneShowsQuery, NeverStaleFilter
      <4>4. CASE status' # "done"
        BY <4>2, <4>4 DEF DoneShowsQuery, NeverStaleFilter
      <4> QED
        BY <4>3, <4>4
    <3> QED
      BY <3>1, <3>2
  <2> QED
    BY <2>2, <2>4, <2>5 DEF AnswerInv
<1>10. CASE SpawnsQueued(t)
  <2>1. threads \ {t} = {}
    BY DEF ThreadsInv, OneThread
  <2>2. UNCHANGED <<pending, want, daemon, filter>>
    BY <1>10 DEF SpawnsQueued, remote, asked
  <2>3. Spawn([prov |-> t.prov, query |-> t.query], threads \ {t})
    BY <1>10 DEF SpawnsQueued
  <2>4. pending' \in {None, want'}
    BY <1>2, <2>2 DEF SentInv
  <2> QED
    BY <2>1, <2>2, <2>3, <2>4, AnswerSpawn
<1> QED
  BY <1>4, <1>5, <1>6, <1>7, <1>8, <1>9, <1>10 DEF Step

LEMMA AnswerOthers == AnswerInv /\ (DaemonLost \/ Teardown \/ UNCHANGED vars) => AnswerInv'
<1> SUFFICES ASSUME AnswerInv, DaemonLost \/ Teardown \/ UNCHANGED vars PROVE AnswerInv'
  OBVIOUS
<1>1. UNCHANGED <<query, status, count, shown, threads, pending, want>>
  BY DEF DaemonLost, Teardown, Destroy, JoinsSearch, Frees, vars, request, answer, asked
<1>2. daemon' # "up" \/ UNCHANGED <<daemon, filter>>
  BY DEF DaemonLost, Teardown, Destroy, JoinsSearch, Frees, vars, remote
<1> QED
  BY <1>1, <1>2 DEF AnswerInv, DoneShowsQuery, NeverStaleFilter, FoundInv, BusyInv, SentInv

LEMMA AnswerInvHolds == Spec => []AnswerInv
<1>1. Init => AnswerInv
  BY DEF Init, AnswerInv, DoneShowsQuery, NeverStaleFilter, FoundInv, BusyInv, SentInv
<1>2. AnswerInv /\ ThreadsInv /\ TypeOK /\ [Next]_vars => AnswerInv'
  BY AnswerClient, AnswerStep, AnswerOthers DEF Next, SearchThread
<1> QED
  BY <1>1, <1>2, ThreadsInvHolds, TypeCorrect, PTL DEF Spec

(* Results that are shown as done answer the query in hand, and are hidden   *)
(* while a search for it runs, whatever was asked, cleared, queued or lost   *)
(* while the thread was on its way (yt 1455-1528).                           *)
THEOREM DoneIsForQuery == Spec => []DoneShowsQuery
<1>1. AnswerInv => DoneShowsQuery
  BY DEF AnswerInv
<1> QED
  BY <1>1, AnswerInvHolds, PTL

(* A crate-dig result never comes from a filter that a later one replaced:   *)
(* the daemon process may have been lost, restarted and asked again between  *)
(* the filter and the search (yt 1262-1277).                                 *)
THEOREM FilterIsNeverStale == Spec => []NeverStaleFilter
<1>1. AnswerInv => NeverStaleFilter
  BY DEF AnswerInv
<1> QED
  BY <1>1, AnswerInvHolds, PTL

-----------------------------------------------------------------------------
(* The refinement of SearchDesk.  A thread that has failed found nothing,    *)
(* and one that has taken what waited has a query to begin.                  *)
Passes(t) ==
  /\ t.rc = "error" => t.found = None
  /\ t.pc = "spawn" => t.query # None
PassInv == \A t \in threads : Passes(t)

LEMMA PassStep == PassInv /\ ThreadsInv /\ TypeOK /\ [Next]_vars => PassInv'
<1> SUFFICES ASSUME PassInv, ThreadsInv, TypeOK, [Next]_vars PROVE PassInv'
  OBVIOUS
<1>0. \A p : Passes(NewThread(p))
  BY DEF NewThread, Passes
<1>1. CASE Client
  BY <1>0, <1>1 DEF Client, SetFilter, SetQuery, ClearQuery, SetProvider, StartSearch, Spawn,
     answer, PassInv
<1>2. ASSUME NEW t \in threads, Step(t) PROVE PassInv'
  <2>1. t \in Thread /\ Passes(t)
    BY TypeParts DEF ThreadType, PassInv
  <2>2. ASSUME NEW new, Becomes(t, new), Passes(new) PROVE PassInv'
    BY <2>2, BecomesOne DEF PassInv, ThreadsInv
  <2>3. CASE Reads(t)
    <3>1. Passes([t EXCEPT !.pc = "connect", !.prov = prov, !.query = query])
      BY <2>1 DEF Thread, Passes
    <3> QED
      BY <2>2, <2>3, <3>1 DEF Reads
  <2>4. Passes(Failed(t)) /\ Passes(Connected(t))
    BY <2>1 DEF Failed, Connected, Thread, Passes
  <2>5. CASE Connects(t)
    BY <2>2, <2>4, <2>5 DEF Connects
  <2>6. CASE SendsFilter(t)
    <3>1. Passes([t EXCEPT !.pc = "search"])
      BY <2>1 DEF Thread, Passes
    <3> QED
      BY <2>2, <2>6, <3>1 DEF SendsFilter
  <2>7. CASE Searches(t)
    <3>1. PICK f \in {Found(t), None}, rc \in {"ok", "error"} :
            /\ rc = "error" => f = None
            /\ Becomes(t, [t EXCEPT !.pc = "publish", !.rc = rc, !.found = f])
      BY <2>7 DEF Searches
    <3>2. Passes([t EXCEPT !.pc = "publish", !.rc = rc, !.found = f])
      BY <2>1, <3>1 DEF Thread, Passes
    <3> QED
      BY <2>2, <3>1, <3>2
  <2>8. CASE SearchWriteFails(t)
    BY <2>2, <2>4, <2>8 DEF SearchWriteFails
  <2>9. CASE SearchTimesOut(t)
    <3>1. Passes([t EXCEPT !.pc = "connect", !.attempt = @ + 1])
      BY <2>1 DEF Thread, Passes
    <3> QED
      BY <2>2, <2>4, <2>9, <3>1 DEF SearchTimesOut
  <2>10. CASE Publishes(t)
    <3>1. queued # None
            => Passes([t EXCEPT !.pc = "spawn", !.prov = queued.prov, !.query = queued.query])
      BY <2>1, TypeParts, NoneIsNothing DEF Thread, Passes, RequestType, Request
    <3>2. CASE threads' = threads \ {t}
      BY <3>2 DEF PassInv
    <3> QED
      BY <2>2, <2>10, <3>1, <3>2 DEF Publishes, TakesQueue
  <2>11. CASE SpawnsQueued(t)
    <3>1. \A u \in threads' : u \in threads \/ Passes(u)
      BY <1>0, <2>11 DEF SpawnsQueued, Spawn
    <3> QED
      BY <3>1 DEF PassInv
  <2> QED
    BY <1>2, <2>3, <2>5, <2>6, <2>7, <2>8, <2>9, <2>10, <2>11 DEF Step
<1>3. CASE DaemonLost \/ Teardown \/ UNCHANGED vars
  BY <1>3 DEF DaemonLost, Teardown, Destroy, JoinsSearch, Frees, vars, PassInv
<1> QED
  BY <1>1, <1>2, <1>3 DEF Next, SearchThread

LEMMA PassInvHolds == Spec => []PassInv
<1>1. Init => PassInv
  BY DEF Init, PassInv
<1> QED
  BY <1>1, PassStep, ThreadsInvHolds, TypeCorrect, PTL DEF Spec

LEMMA IntactType == Intact \in BOOLEAN /\ Intact' \in BOOLEAN
  BY DEF Intact

(* With one thread, or none, what shows of the threads is what shows of it.  *)
LEMMA OneShows ==
  ASSUME NEW t, threads = {t}
  PROVE  /\ Intact <=> t.pc \in {"read", "spawn"} \/ (t.prov = prov /\ t.query = query)
         /\ t.pc = "spawn" => Taken = {t.query}
         /\ t.pc # "spawn" => Taken = {}
  BY DEF Intact, Taken

LEMMA NoneShows == threads = {} => Intact /\ Taken = {}
  BY DEF Intact, Taken

LEMMA OneShowsAfter ==
  ASSUME NEW t, threads' = {t}
  PROVE  /\ Intact' <=> t.pc \in {"read", "spawn"} \/ (t.prov = prov' /\ t.query = query')
         /\ t.pc = "spawn" => Taken' = {t.query}
         /\ t.pc # "spawn" => Taken' = {}
  BY DEF Intact, Taken

LEMMA NoneShowsAfter == threads' = {} => Intact' /\ Taken' = {}
  BY DEF Intact, Taken

LEMMA DeskOpensAtInit == Init => Desk!Init
  BY DEF Init, Desk!Init, Listed, Waiting, Taken, Intact

(* A search that is spawned is a query that is opened. *)
LEMMA SpawnOpens ==
  ASSUME NEW r \in Request, NEW others, others = {}, Spawn(r, others)
  PROVE  Desk!Opens(r.query) /\ Taken' = {}
<1>1. threads' = {} \/ threads' = {NewThread(r.prov)}
  BY DEF Spawn
<1>2. Intact' /\ Taken' = {}
  BY <1>1, NoneShowsAfter, OneShowsAfter DEF NewThread
<1>5. Listed' = {}
  BY DEF Spawn, Listed
<1>3. query' = r.query
  BY DEF Spawn
<1>4. \/ status' = "searching" /\ (threads # {})' = TRUE
      \/ status' = "error" /\ (threads # {})' = FALSE
  BY DEF Spawn
<1> QED
  BY <1>2, <1>3, <1>4, <1>5, IntactType DEF Desk!Opens

LEMMA StartAsks ==
  ASSUME ThreadsInv, down = "up", NEW r \in Request, StartSearch(r)
  PROVE  Desk!Ask(r.query)
<1>1. running <=> threads # {}
  BY DEF ThreadsInv, FlagInv
<1>3. CASE running
  <2>1. UNCHANGED <<query, count, shown, threads>> /\ queued' = r /\ status' = "queued"
    BY <1>3 DEF StartSearch, Slot
  <2>2. UNCHANGED <<Listed, Taken>> /\ Waiting' = {r.query}
    BY <2>1, NoneIsNothing DEF Listed, Taken, Waiting
  <2> QED
    BY <1>1, <1>3, <2>1, <2>2, IntactType DEF Desk!Ask
<1>4. CASE ~running
  <2>1. threads = {} /\ Spawn(r, threads) /\ UNCHANGED queued
    BY <1>1, <1>4 DEF StartSearch
  <2>2. Desk!Opens(r.query) /\ Taken' = {}
    BY <2>1, SpawnOpens
  <2>3. Taken = {} /\ UNCHANGED Waiting
    BY <2>1 DEF Taken, Waiting
  <2> QED
    BY <2>1, <2>2, <2>3 DEF Desk!Ask
<1> QED
  BY <1>3, <1>4

LEMMA ClientRefines ==
  ASSUME ThreadsInv, TypeOK, Client
  PROVE  [Desk!Next]_Desk!vars
<1>0. down = "up"
  BY DEF Client, SetFilter, SetQuery, ClearQuery, SetProvider, Command
<1>1. ASSUME NEW f \in Filters, SetFilter(f) PROVE Desk!Next
  <2>1. [prov |-> "cratedig", query |-> "cratedig"] \in Request
    BY Bounds DEF Request
  <2>2. Desk!Ask("cratedig")
    BY <1>0, <1>1, <2>1, StartAsks DEF SetFilter
  <2> QED
    BY <2>2, Bounds DEF Desk!Next
<1>2. ASSUME NEW q \in Queries, SetQuery(q) PROVE Desk!Next
  <2>1. [prov |-> prov, query |-> q] \in Request
    BY TypeParts DEF Request, RequestType
  <2>2. Desk!Ask(q)
    BY <1>0, <1>2, <2>1, StartAsks DEF SetQuery
  <2> QED
    BY <2>2 DEF Desk!Next
<1>3. CASE ClearQuery
  <2>1. Desk!Clear
    BY <1>3 DEF ClearQuery, Desk!Clear, Listed, Waiting, Taken, Intact
  <2> QED
    BY <2>1 DEF Desk!Next
<1>4. ASSUME NEW p \in LoneProviders, SetProvider(p) PROVE [Desk!Next]_Desk!vars
  <2>1. UNCHANGED <<query, status, Listed, Waiting, Taken, threads # {}>>
    BY <1>4 DEF SetProvider, answer, Listed, Waiting, Taken
  <2>2. CASE threads # {}
    BY <2>1, <2>2, IntactType DEF Desk!Change, Desk!Next
  <2>3. CASE threads = {}
    <3>1. UNCHANGED Intact
      BY <1>4, <2>3 DEF SetProvider, Intact
    <3> QED
      BY <2>1, <3>1 DEF Desk!vars
  <2> QED
    BY <2>2, <2>3
<1> QED
  BY <1>1, <1>2, <1>3, <1>4 DEF Client

(* What the thread does about the daemon does not show. *)
LEMMA GoesOnUnseen ==
  ASSUME ThreadsInv, NEW t \in threads, NEW new, Becomes(t, new), Quiet,
         t.pc \notin {"spawn"}, new.pc # "spawn",
         \/ new.prov = prov /\ new.query = query /\ t.pc = "read"
         \/ new.prov = t.prov /\ new.query = t.query /\ t.pc # "read" /\ new.pc # "read"
  PROVE  UNCHANGED Desk!vars
<1>1. threads = {t} /\ threads' = {new}
  BY BecomesOne DEF ThreadsInv, OneThread
<1>2. UNCHANGED <<prov, query, queued, status, count, shown>>
  BY DEF Quiet, request, answer
<1>3. Taken = {} /\ Taken' = {}
  BY <1>1, OneShows, OneShowsAfter
<1>4. Intact' <=> Intact
  BY <1>1, <1>2, OneShows, OneShowsAfter
<1>5. Intact' = Intact
  BY <1>4, IntactType
<1> QED
  BY <1>1, <1>2, <1>3, <1>5 DEF Desk!vars, Listed, Waiting

LEMMA ThreadUnseen ==
  ASSUME ThreadsInv, TypeOK, NEW t \in threads,
         \/ Reads(t) \/ Connects(t) \/ SendsFilter(t) \/ Searches(t)
         \/ SearchWriteFails(t) \/ SearchTimesOut(t)
  PROVE  UNCHANGED Desk!vars
<1>0. t \in Thread
  BY TypeParts DEF ThreadType
<1>1. /\ Failed(t).pc = "publish" /\ Failed(t).prov = t.prov /\ Failed(t).query = t.query
      /\ Connected(t).pc \in {"filter", "search"}
      /\ Connected(t).prov = t.prov /\ Connected(t).query = t.query
  BY <1>0 DEF Failed, Connected, Thread
<1>2. CASE Reads(t)
  <2> DEFINE new == [t EXCEPT !.pc = "connect", !.prov = prov, !.query = query]
  <2>1. new.pc = "connect" /\ new.prov = prov /\ new.query = query
    BY <1>0 DEF Thread
  <2>2. Becomes(t, new) /\ Quiet /\ t.pc = "read"
    BY <1>2 DEF Reads
  <2> HIDE DEF new
  <2> QED
    BY <2>1, <2>2, GoesOnUnseen
<1>3. CASE Connects(t)
  <2>1. Quiet /\ t.pc = "connect" /\ (Becomes(t, Connected(t)) \/ Becomes(t, Failed(t)))
    BY <1>3 DEF Connects
  <2> QED
    BY <1>1, <2>1, GoesOnUnseen
<1>4. CASE SendsFilter(t)
  <2> DEFINE new == [t EXCEPT !.pc = "search"]
  <2>1. new.pc = "search" /\ new.prov = t.prov /\ new.query = t.query
    BY <1>0 DEF Thread
  <2>2. Becomes(t, new) /\ Quiet /\ t.pc = "filter"
    BY <1>4 DEF SendsFilter
  <2> HIDE DEF new
  <2> QED
    BY <2>1, <2>2, GoesOnUnseen
<1>5. CASE Searches(t)
  <2>1. PICK f, rc : Becomes(t, [t EXCEPT !.pc = "publish", !.rc = rc, !.found = f])
    BY <1>5 DEF Searches
  <2> DEFINE new == [t EXCEPT !.pc = "publish", !.rc = rc, !.found = f]
  <2>2. new.pc = "publish" /\ new.prov = t.prov /\ new.query = t.query
    BY <1>0 DEF Thread
  <2>3. Becomes(t, new) /\ Quiet /\ t.pc = "search"
    BY <1>5, <2>1 DEF Searches
  <2> HIDE DEF new
  <2> QED
    BY <2>2, <2>3, GoesOnUnseen
<1>6. CASE SearchWriteFails(t)
  <2>1. Becomes(t, Failed(t)) /\ Quiet /\ t.pc = "search"
    BY <1>6 DEF SearchWriteFails
  <2> QED
    BY <1>1, <2>1, GoesOnUnseen
<1>7. CASE SearchTimesOut(t)
  <2> DEFINE new == [t EXCEPT !.pc = "connect", !.attempt = @ + 1]
  <2>1. new.pc = "connect" /\ new.prov = t.prov /\ new.query = t.query
    BY <1>0 DEF Thread
  <2>2. (Becomes(t, new) \/ Becomes(t, Failed(t))) /\ Quiet /\ t.pc = "search"
    BY <1>7 DEF SearchTimesOut
  <2> HIDE DEF new
  <2> QED
    BY <1>1, <2>1, <2>2, GoesOnUnseen
<1> QED
  BY <1>2, <1>3, <1>4, <1>5, <1>6, <1>7

(* The section that publishes or drops an answer ends a search. *)
LEMMA PublishEnds ==
  ASSUME ThreadsInv, AnswerInv, PassInv, TypeOK, NEW t \in threads, Publishes(t)
  PROVE  Desk!Ends
<1>0. threads = {t} /\ t \in Thread /\ t.pc = "publish"
  BY TypeParts DEF ThreadsInv, OneThread, ThreadType, Publishes
<1>1. Taken = {} /\ (Intact <=> StillAsked(t))
  BY <1>0, OneShows DEF StillAsked
<1>2. ASSUME StillAsked(t) PROVE Desk!Shows
  <2>1. t.pc = "publish" /\ t.found # None => t.found.query = t.query
    BY DEF AnswerInv, FoundInv
  <2>2. t.query = query /\ t.rc \in {"ok", "error"} /\ (t.rc = "error" => t.found = None)
    BY <1>0, <1>2 DEF StillAsked, PassInv, Passes, Thread
  <2>3. ASSUME t.found # None PROVE Desk!Shows
    <3>1. count' = TRUE /\ shown' = t.found /\ status' = "done"
      BY <1>2, <2>2, <2>3 DEF Publishes
    <3>2. Listed' = {query}
      BY <1>0, <2>1, <2>2, <2>3, <3>1 DEF Listed
    <3> QED
      BY <3>1, <3>2 DEF Desk!Shows
  <2>4. ASSUME t.found = None PROVE Desk!Shows
    <3>1. count' = FALSE /\ status' \in {"error", "no_results"}
      BY <1>2, <2>2, <2>4 DEF Publishes
    <3> QED
      BY <3>1 DEF Desk!Shows, Listed
  <2> QED
    BY <2>3, <2>4
<1>3. ASSUME ~StillAsked(t) PROVE UNCHANGED <<status, Listed>>
  BY <1>3 DEF Publishes, answer, Listed
<1>4. query' = query
  BY DEF Publishes
<1>5. /\ Taken' = Waiting /\ Waiting' = {} /\ Intact'
      /\ (threads # {})' = (Waiting # {})
  <2>1. CASE TakesQueue(t)
    <3> DEFINE new == [t EXCEPT !.pc = "spawn", !.prov = queued.prov, !.query = queued.query]
    <3>1. new.pc = "spawn" /\ new.query = queued.query
      BY <1>0 DEF Thread
    <3>2. Becomes(t, new) /\ queued' = None /\ queued # None
      BY <2>1 DEF Publishes, TakesQueue
    <3> HIDE DEF new
    <3>3. threads' = {new}
      BY <3>2, BecomesOne DEF ThreadsInv
    <3> QED
      BY <3>1, <3>2, <3>3, OneShowsAfter DEF Waiting
  <2>2. CASE ~TakesQueue(t)
    <3>1. threads' = {} /\ queued = None /\ queued' = None
      BY <1>0, <2>2 DEF Publishes, TakesQueue
    <3> QED
      BY <3>1, NoneShowsAfter DEF Waiting
  <2> QED
    BY <2>1, <2>2
<1>6. IF Intact THEN Desk!Shows ELSE UNCHANGED <<status, Listed>>
  BY <1>1, <1>2, <1>3
<1> QED
  BY <1>0, <1>1, <1>4, <1>5, <1>6, IntactType DEF Desk!Ends

(* The section behind it begins what waited. *)
LEMMA SpawnTurns ==
  ASSUME ThreadsInv, PassInv, TypeOK, NEW t \in threads, SpawnsQueued(t)
  PROVE  Desk!Turns
<1> DEFINE r == [prov |-> t.prov, query |-> t.query]
<1>0. threads = {t} /\ t \in Thread /\ t.pc = "spawn"
  BY TypeParts DEF ThreadsInv, OneThread, ThreadType, SpawnsQueued
<1>1. r \in Request /\ r.query = t.query
  BY <1>0 DEF Thread, Request, PassInv, Passes
<1>2. Spawn(r, threads \ {t}) /\ threads \ {t} = {} /\ UNCHANGED queued
  BY <1>0 DEF SpawnsQueued
<1> HIDE DEF r
<1>3. Desk!Opens(t.query) /\ Taken' = {}
  BY <1>1, <1>2, SpawnOpens
<1>4. t.query \in Taken /\ UNCHANGED Waiting
  BY <1>0, <1>2 DEF Taken, Waiting
<1> QED
  BY <1>3, <1>4 DEF Desk!Turns

LEMMA DeskStep ==
  ThreadsInv /\ AnswerInv /\ PassInv /\ TypeOK /\ [Next]_vars => [Desk!Next]_Desk!vars
<1> SUFFICES ASSUME ThreadsInv, AnswerInv, PassInv, TypeOK, [Next]_vars
             PROVE  [Desk!Next]_Desk!vars
  OBVIOUS
<1>1. CASE Client
  BY <1>1, ClientRefines
<1>2. ASSUME NEW t \in threads, Step(t) PROVE [Desk!Next]_Desk!vars
  BY <1>2, ThreadUnseen, PublishEnds, SpawnTurns DEF Step, Desk!Next
<1>3. CASE DaemonLost \/ Teardown \/ UNCHANGED vars
  <2>1. UNCHANGED <<prov, query, queued, status, count, shown, threads>>
    BY <1>3 DEF DaemonLost, Teardown, Destroy, JoinsSearch, Frees, vars, request, answer
  <2>2. UNCHANGED <<Listed, Waiting, Taken, Intact>>
    BY <2>1 DEF Listed, Waiting, Taken, Intact
  <2> QED
    BY <2>1, <2>2 DEF Desk!vars
<1> QED
  BY <1>1, <1>2, <1>3 DEF Next, SearchThread

(* To a client the search is a desk with one slot: an answer is listed for   *)
(* the query in hand or dropped, and dropped only if the client changed      *)
(* something under it; what waits is begun next (yt 1391-1567).              *)
THEOREM IsADesk == Spec => ImplementsDesk
BY DeskOpensAtInit, DeskStep, ThreadsInvHolds, AnswerInvHolds, PassInvHolds, TypeCorrect, PTL
   DEF Spec, ImplementsDesk, Desk!Spec
=============================================================================
