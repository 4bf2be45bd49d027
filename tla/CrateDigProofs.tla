--------------------------- MODULE CrateDigProofs ---------------------------
(***************************************************************************)
(* The safety of CrateDig, for every catalogue and all limits.             *)
(***************************************************************************)
EXTENDS CrateDig, FiniteSetTheorems, TLAPS

USE DEF memory, search

(* The inductive invariant.  What is remembered is the end of what was      *)
(* given, as much of it as there is room for.                               *)
MemoryInv ==
  /\ Len(exclude) = IF Len(given) > MAX_EXCLUDE_IDS THEN MAX_EXCLUDE_IDS ELSE Len(given)
  /\ \A i \in 1..Len(exclude) : exclude[i] = given[Len(given) - Len(exclude) + i]

(* Every request of a search is one of the first two, a page or a lookup,   *)
(* and has at most as many tries as a request may have.                     *)
MaxLookups == LookupsPerItem * count
BudgetInv ==
  /\ IsFiniteSet(seen) /\ Cardinality(seen) <= MaxPageFetches
  /\ lookups <= MaxLookups
  /\ at = "probe" => requests = 0 /\ seen = {} /\ lookups = 0
  /\ at = "second" => requests <= MaxTries /\ seen = {} /\ lookups = 0
  /\ requests <= MaxTries * (2 + Cardinality(seen) + lookups)

(* What a search is about: a page that exists, releases of the catalogue.   *)
SearchInv ==
  /\ at = "second" => page \in 1..Size
  /\ at \in {"second", "dig"} => pool[filter] \in Nat
  /\ at # "idle" /\ at # "dig" => left = {}
  /\ \A f \in Filters : pool[f] # NoPool => pool[f] <= Len(Pages[f])

IInv == TypeOK /\ MemoryInv /\ NotGivenAgain /\ BudgetInv /\ SearchInv

(* What the assumption says of numbers and pages.                           *)
LEMMA Limits ==
  /\ MaxPool \in Nat /\ MaxCount \in Nat \ {0} /\ LookupsPerItem \in Nat \ {0}
  /\ MAX_EXCLUDE_IDS \in Nat \ {0} /\ MaxPageFetches \in Nat /\ MaxPageFetches >= 2
  /\ MaxSearches \in Nat /\ Asked \subseteq Int /\ MaxTries \in Nat \ {0}
  BY CrateDigAssumption

(* A search looks up no more than one for all the results would.            *)
LEMMA LookupsBound ==
  ASSUME NEW n \in 1..MaxCount
  PROVE  LookupsPerItem * n \in Nat /\ LookupsPerItem * n <= LookupsPerItem * MaxCount
  BY Limits

(* The tries of n requests, of one more, and of no fewer.                   *)
LEMMA TriesBound ==
  ASSUME NEW n \in Nat
  PROVE  /\ MaxTries * n \in Nat /\ MaxTries * (n + 1) = MaxTries * n + MaxTries
         /\ \A m \in Nat : n <= m => MaxTries * n <= MaxTries * m
<1>1. MaxTries \in Nat BY Limits
<1>2. ASSUME NEW m \in Nat, n <= m PROVE MaxTries * n <= MaxTries * m
  <2>1. m - n \in Nat /\ m = n + (m - n) BY <1>2
  <2>2. MaxTries * (m - n) \in Nat BY <1>1, <2>1
  <2>3. MaxTries * m = MaxTries * n + MaxTries * (m - n) BY <1>1, <2>1
  <2> QED BY <1>1, <2>2, <2>3
<1> QED BY <1>1, <1>2

(* A session knows nothing and has given nothing.                           *)
LEMMA InitHolds == Init => IInv
<1> SUFFICES ASSUME Init PROVE IInv OBVIOUS
<1>1. TypeOK
  <2>1. filter \in Filters /\ pool \in [Filters -> 0..MaxPool \cup {NoPool}]
    BY CrateDigAssumption DEF Init, NoPools
  <2>2. lookups \in 0..(LookupsPerItem * MaxCount) /\ count \in 1..MaxCount
    BY Limits, LookupsBound DEF Init
  <2> QED BY <2>1, <2>2, Limits DEF Init, TypeOK
<1>2. MemoryInv BY Limits DEF Init, MemoryInv
<1>3. NotGivenAgain BY DEF Init, NotGivenAgain
<1>4. BudgetInv
  <2>1. MaxTries * (2 + 0 + 0) \in Nat /\ MaxTries \in Nat BY Limits
  <2> QED BY <2>1, Limits, FS_EmptySet, LookupsBound DEF Init, BudgetInv, MaxLookups
<1>5. SearchInv BY DEF Init, SearchInv, NoPools
<1> QED BY <1>1, <1>2, <1>3, <1>4, <1>5 DEF IInv

(* Giving a release that is not remembered keeps what was given apart.      *)
LEMMA GiveKeepsMemory ==
  ASSUME IInv, NEW r \in left, Give(r)
  PROVE  MemoryInv' /\ NotGivenAgain' /\ given' \in Seq(Releases)
         /\ exclude' \in Seq(Releases) /\ Len(exclude') <= MAX_EXCLUDE_IDS
<1> DEFINE m == Len(exclude)
           n == Len(given)
           more == Append(exclude, r)
<1>1. /\ exclude \in Seq(Releases) /\ given \in Seq(Releases)
      /\ r \in Releases /\ ~InMemory(r) /\ m \in Nat /\ n \in Nat
  BY DEF Give, Lookup, IInv, TypeOK
<1>2. /\ given' = Append(given, r) /\ given' \in Seq(Releases) /\ Len(given') = n + 1
      /\ \A i \in 1..n : given'[i] = given[i]
      /\ given'[n + 1] = r
  BY <1>1 DEF Give
<1>3. /\ more \in Seq(Releases) /\ Len(more) = m + 1
      /\ \A i \in 1..m : more[i] = exclude[i]
      /\ more[m + 1] = r
  BY <1>1
<1>4. exclude' = Remembered(more) BY DEF Give
<1>5. /\ m = IF n > MAX_EXCLUDE_IDS THEN MAX_EXCLUDE_IDS ELSE n
      /\ \A i \in 1..m : exclude[i] = given[n - m + i]
  BY DEF IInv, MemoryInv
<1>6. \A i \in 1..(m + 1) : more[i] = given'[n - m + i]
  <2> SUFFICES ASSUME NEW i \in 1..(m + 1) PROVE more[i] = given'[n - m + i] OBVIOUS
  <2>1. CASE i = m + 1
    <3>1. n - m + i = n + 1 BY <1>1, <2>1
    <3> QED BY <1>2, <1>3, <2>1, <3>1
  <2>2. CASE i \in 1..m
    <3>1. n - m + i \in 1..n BY <1>1, <1>5, <2>2, Limits
    <3> QED BY <1>2, <1>3, <1>5, <2>2, <3>1
  <2> QED BY <1>1, <2>1, <2>2
<1> HIDE DEF more
<1>7. ASSUME m + 1 > MAX_EXCLUDE_IDS
      PROVE  MemoryInv' /\ exclude' \in Seq(Releases) /\ Len(exclude') <= MAX_EXCLUDE_IDS
  <2>1. m = MAX_EXCLUDE_IDS /\ n >= m BY <1>1, <1>5, <1>7, Limits
  <2>2. exclude' = SubSeq(more, 2, m + 1) BY <1>1, <1>3, <1>4, <2>1, Limits DEF Remembered
  <2>3. /\ exclude' \in Seq(Releases) /\ Len(exclude') = m
        /\ \A i \in 1..m : exclude'[i] = more[i + 1]
    BY <1>1, <1>3, <2>1, <2>2, Limits
  <2>4. \A i \in 1..m : exclude'[i] = given'[n + 1 - m + i]
    <3> SUFFICES ASSUME NEW i \in 1..m PROVE exclude'[i] = given'[n + 1 - m + i] OBVIOUS
    <3>1. i + 1 \in 1..(m + 1) /\ n - m + (i + 1) = n + 1 - m + i BY <1>1
    <3> QED BY <1>6, <2>3, <3>1
  <2> QED BY <1>1, <1>2, <2>1, <2>3, <2>4, Limits DEF MemoryInv
<1>8. ASSUME m + 1 <= MAX_EXCLUDE_IDS
      PROVE  MemoryInv' /\ exclude' \in Seq(Releases) /\ Len(exclude') <= MAX_EXCLUDE_IDS
  <2>1. m = n BY <1>1, <1>5, <1>8, Limits
  <2>2. exclude' = more BY <1>1, <1>3, <1>4, <1>8, Limits DEF Remembered
  <2>3. \A i \in 1..(m + 1) : exclude'[i] = given'[n + 1 - (m + 1) + i]
    BY <1>1, <1>6, <2>1, <2>2
  <2>4. Len(exclude') = m + 1 /\ exclude' \in Seq(Releases) BY <1>3, <2>2
  <2>5. Len(given') = m + 1 BY <1>2, <2>1
  <2>6. ~(m + 1 > MAX_EXCLUDE_IDS) BY <1>1, <1>8, Limits
  <2>7. \A i \in 1..Len(exclude') : exclude'[i] = given'[Len(given') - Len(exclude') + i]
    BY <1>1, <2>1, <2>3, <2>4, <2>5
  <2> QED BY <1>8, <2>4, <2>5, <2>6, <2>7 DEF MemoryInv
<1>9. NotGivenAgain'
  <2> SUFFICES ASSUME NEW i \in 1..(n + 1), NEW j \in 1..(n + 1), i < j, given'[i] = given'[j]
               PROVE  j - i > MAX_EXCLUDE_IDS
    BY <1>2 DEF NotGivenAgain
  <2>1. CASE j <= n BY <1>1, <1>2, <2>1 DEF IInv, NotGivenAgain
  <2>2. CASE j = n + 1
    <3>1. given[i] = r /\ i \in 1..n BY <1>1, <1>2, <2>2
    <3>2. ASSUME j - i <= MAX_EXCLUDE_IDS PROVE FALSE
      <4>1. i > n - m BY <1>1, <1>5, <2>2, <3>1, <3>2, Limits
      <4>2. i - (n - m) \in 1..m BY <1>1, <3>1, <4>1
      <4>3. exclude[i - (n - m)] = given[n - m + (i - (n - m))] BY <1>5, <4>2
      <4>4. n - m + (i - (n - m)) = i BY <1>1
      <4> QED BY <1>1, <3>1, <4>2, <4>3, <4>4 DEF InMemory
    <3> QED BY <1>1, <2>2, <3>1, <3>2, Limits
  <2> QED BY <1>1, <2>1, <2>2
<1> QED BY <1>1, <1>2, <1>9, <1>7, <1>8, Limits

(* Every step keeps memory and what was given in step.                      *)
LEMMA MemoryStep == ASSUME IInv, [Next]_vars PROVE MemoryInv' /\ NotGivenAgain'
<1>1. CASE \E f \in Filters : SetFilter(f)
  <2>1. CASE UNCHANGED <<exclude, given>> BY <2>1 DEF IInv, MemoryInv, NotGivenAgain
  <2>2. CASE exclude' = <<>> /\ given' = <<>> BY <2>2, Limits DEF MemoryInv, NotGivenAgain
  <2> QED BY <1>1, <2>1, <2>2 DEF SetFilter
<1>2. CASE \E r \in left : Give(r) BY <1>2, GiveKeepsMemory
<1>3. CASE UNCHANGED <<exclude, given>> BY <1>3 DEF IInv, MemoryInv, NotGivenAgain
<1>4. CASE UNCHANGED vars BY <1>4, <1>3 DEF vars
<1>5. CASE \E n \in Asked : CrateDigSearch(n) BY <1>5, <1>3 DEF CrateDigSearch
<1>6. CASE Session
  BY <1>6, <1>2, <1>3
  DEF Session, ProbeFails, Probe, SecondFails, Second, DrawPage, DrawSeenPage, vars, SkipEntry,
      NoVideo, Lookup, Answer
<1> QED BY <1>1, <1>4, <1>5, <1>6 DEF Next

(* Every step of a search counts what it asks for.                          *)
LEMMA BudgetStep == ASSUME IInv, [Next]_vars PROVE BudgetInv'
<1> USE DEF BudgetInv
<1>a. /\ BudgetInv /\ count \in 1..MaxCount /\ lookups \in Nat /\ requests \in Nat
      /\ at \in {"idle", "probe", "second", "dig"}
  BY DEF IInv, TypeOK
<1>b. Cardinality(seen) \in Nat BY <1>a, FS_CardinalityType
<1>c. MaxLookups \in Nat BY <1>a, LookupsBound DEF MaxLookups
<1>d. IsFiniteSet({}) /\ Cardinality({}) = 0 BY FS_EmptySet
<1>e. MaxTries \in Nat \ {0} /\ \A n \in Nat : MaxTries * n \in Nat BY Limits, TriesBound
<1>f. ASSUME Request PROVE requests' \in Nat /\ requests' <= requests + MaxTries
  BY <1>a, <1>e, <1>f DEF Request
<1> DEFINE allowed == 2 + Cardinality(seen) + lookups
<1>g. ASSUME Request, allowed' = allowed + 1 PROVE requests' <= MaxTries * allowed'
  <2>1. allowed \in Nat BY <1>a, <1>b
  <2>2. MaxTries * (allowed + 1) = MaxTries * allowed + MaxTries BY <2>1, TriesBound
  <2>3. requests <= MaxTries * allowed BY <1>a DEF BudgetInv
  <2>4. MaxTries * allowed \in Nat BY <1>e, <2>1
  <2> HIDE DEF allowed
  <2> QED BY <1>a, <1>e, <1>f, <1>g, <2>2, <2>3, <2>4
<1> USE <1>a
<1>1. CASE \E f \in Filters : SetFilter(f) BY <1>1 DEF SetFilter, MaxLookups
<1>2. CASE \E n \in Asked : CrateDigSearch(n)
  <2>1. count' \in 1..MaxCount BY <1>2, Limits DEF CrateDigSearch, Clamped
  <2>2. MaxLookups' \in Nat BY <2>1, LookupsBound DEF MaxLookups
  <2>3. MaxTries * (2 + 0 + 0) \in Nat BY <1>e
  <2> QED BY <1>2, <1>d, <2>2, <2>3, Limits DEF CrateDigSearch
<1>3. CASE ProbeFails \/ SecondFails
  <2>1. /\ at' = "idle" /\ UNCHANGED <<count, seen, lookups>> /\ Request
        /\ requests <= MaxTries /\ seen = {} /\ lookups = 0
    BY <1>3, <1>e DEF ProbeFails, SecondFails, Ends
  <2>2. requests' <= MaxTries * (2 + Cardinality(seen') + lookups')
    <3>1. MaxTries * (2 + 0 + 0) = MaxTries + MaxTries BY <1>e
    <3> QED BY <1>d, <1>e, <1>f, <2>1, <3>1
  <2> QED BY <2>1, <2>2 DEF MaxLookups
<1>4. CASE Probe \/ Second
  <2>1. /\ lookups = 0 /\ requests <= MaxTries /\ seen = {} /\ (at = "probe" => requests = 0)
        /\ Request
    BY <1>4, <1>e DEF Probe, Second
  <2>2. /\ lookups' = lookups /\ MaxLookups' = MaxLookups
        /\ at' \in {"idle", "second", "dig"} /\ (at' = "second" => at = "probe" /\ seen' = seen)
    BY <1>4 DEF Probe, Second, Ends, FirstPage, MaxLookups
  <2>3. seen' = {} \/ \E p : seen' = {p}
    BY <1>4, <2>1 DEF Probe, Second, Ends, FirstPage
  <2>4. IsFiniteSet(seen') /\ Cardinality(seen') \in {0, 1}
    <3>1. \A p : IsFiniteSet({p}) /\ Cardinality({p}) = 1 BY FS_Singleton
    <3> QED BY <1>d, <2>3, <3>1
  <2>5. requests' <= MaxTries * (2 + Cardinality(seen') + lookups')
    <3>1. MaxTries * (2 + 0 + 0) = MaxTries + MaxTries
          /\ MaxTries * (2 + 1 + 0) = MaxTries + MaxTries + MaxTries BY <1>e
    <3>2. requests' <= MaxTries + MaxTries /\ requests' \in Nat BY <1>e, <1>f, <2>1
    <3>3. lookups' = 0 BY <2>1, <2>2
    <3> QED BY <1>e, <2>4, <3>1, <3>2, <3>3
  <2>6. at' = "second" => requests' <= MaxTries /\ seen' = {}
    BY <1>e, <1>f, <2>1, <2>2
  <2> QED BY <1>c, <1>d, <2>1, <2>2, <2>4, <2>5, <2>6, Limits
<1>5. CASE DrawPage
  <2>1. PICK p \in 1..pool[filter] \ seen : seen' = seen \cup {p} BY <1>5 DEF DrawPage, Sees
  <2>2. IsFiniteSet(seen') /\ Cardinality(seen') = Cardinality(seen) + 1
    BY <2>1, FS_AddElement
  <2>3. Request /\ UNCHANGED <<at, count, lookups>> /\ at = "dig" /\ ~DrawsNoMore
    BY <1>5 DEF DrawPage, Digs
  <2>4. allowed' = allowed + 1 BY <1>b, <2>2, <2>3
  <2>5. requests' <= MaxTries * allowed' BY <1>g, <2>3, <2>4
  <2> QED BY <1>b, <2>2, <2>3, <2>5, Limits DEF DrawsNoMore, MaxLookups
<1>6. CASE \E r \in left : NoVideo(r) \/ Give(r)
  <2>1. /\ at = "dig" /\ at' = at /\ seen' = seen /\ MaxLookups' = MaxLookups
        /\ lookups' = lookups + 1 /\ Request /\ ~Full
    BY <1>6 DEF NoVideo, Give, Lookup, Digs, MaxLookups
  <2>2. lookups + 1 <= MaxLookups BY <1>c, <2>1 DEF Full, MaxLookups
  <2>3. allowed' = allowed + 1 BY <1>b, <2>1
  <2>4. requests' <= MaxTries * allowed' BY <1>g, <2>1, <2>3
  <2> QED BY <1>b, <1>c, <2>1, <2>2, <2>4
<1>7. CASE SkipEntry BY <1>7 DEF SkipEntry, MaxLookups
<1>8. CASE Answer BY <1>8 DEF Answer, Ends, MaxLookups
<1>9. CASE DrawSeenPage \/ UNCHANGED vars BY <1>9 DEF DrawSeenPage, vars, MaxLookups
<1> QED BY <1>1, <1>2, <1>3, <1>4, <1>5, <1>6, <1>7, <1>8, <1>9 DEF Next, Session

(* Every step keeps the search with the catalogue.                          *)
LEMMA SearchStep == ASSUME IInv, [Next]_vars PROVE SearchInv'
<1> USE DEF SearchInv
<1>a. SearchInv /\ filter \in Filters /\ pool \in [Filters -> 0..MaxPool \cup {NoPool}]
  BY DEF IInv, TypeOK
<1>b. Size \in Nat /\ Size <= Len(Pages[filter]) /\ Size <= MaxPool
  BY <1>a, CrateDigAssumption, Limits DEF Size
<1> USE <1>a
<1>1. CASE \E f \in Filters : SetFilter(f) BY <1>1 DEF SetFilter, NoPools
<1>2. CASE \E n \in Asked : CrateDigSearch(n)
  BY <1>2, Limits DEF CrateDigSearch
<1>3. CASE ProbeFails \/ SecondFails BY <1>3 DEF ProbeFails, SecondFails, Ends
<1>4. CASE Probe
  <2>1. pool' = [pool EXCEPT ![filter] = Size] /\ filter' = filter BY <1>4 DEF Probe
  <2>2. pool'[filter] = Size /\ \A f \in Filters : f # filter => pool'[f] = pool[f]
    BY <2>1
  <2> QED BY <1>4, <1>b, <2>1, <2>2, Limits DEF Probe, Ends, FirstPage, Size
<1>5. CASE Second
  BY <1>5 DEF Second, FirstPage
<1>6. CASE Session /\ ~(ProbeFails \/ SecondFails \/ Probe \/ Second)
  BY <1>6 DEF Session, DrawPage, DrawSeenPage, vars, SkipEntry, NoVideo, Give, Lookup, Digs, Answer, Ends
<1>7. CASE UNCHANGED vars BY <1>7 DEF vars, Size
<1> QED BY <1>1, <1>2, <1>3, <1>4, <1>5, <1>6, <1>7 DEF Next

(* Every step keeps the types; what is drawn is a page that exists.         *)
LEMMA TypeStep == ASSUME IInv, [Next]_vars PROVE TypeOK'
<1>a. TypeOK /\ SearchInv BY DEF IInv
<1>b. \A f \in Filters : \A p \in 1..Len(Pages[f]) : Pages[f][p] \subseteq Releases
  BY CrateDigAssumption
<1>c. Size \in 0..MaxPool /\ Size <= Len(Pages[filter])
  BY <1>a, CrateDigAssumption, Limits DEF Size, TypeOK
<1>d. Request => requests' \in Nat BY <1>a, Limits DEF Request, TypeOK
<1> USE <1>a DEF TypeOK
<1>1. CASE \E f \in Filters : SetFilter(f)
  <2>1. NoPools \in [Filters -> 0..MaxPool \cup {NoPool}] BY DEF NoPools
  <2>2. exclude' \in Seq(Releases) /\ Len(exclude') <= MAX_EXCLUDE_IDS /\ given' \in Seq(Releases)
    <3>1. PICK f \in Filters : SetFilter(f) BY <1>1
    <3>2. <<>> \in Seq(Releases) /\ Len(<<>>) = 0 /\ 0 <= MAX_EXCLUDE_IDS BY Limits
    <3>3. CASE f = filter BY <3>1, <3>3 DEF SetFilter
    <3>4. CASE f # filter BY <3>1, <3>2, <3>4 DEF SetFilter
    <3> QED BY <3>3, <3>4
  <2>3. pool' \in [Filters -> 0..MaxPool \cup {NoPool}] BY <1>1, <2>1 DEF SetFilter
  <2> QED BY <1>1, <2>2, <2>3 DEF SetFilter
<1>2. CASE \E n \in Asked : CrateDigSearch(n)
  <2>1. count' \in 1..MaxCount
    <3>1. PICK n \in Asked : count' = Clamped(n) BY <1>2 DEF CrateDigSearch
    <3>2. n \in Int /\ MaxCount \in Nat \ {0} BY Limits
    <3> QED BY <3>1, <3>2 DEF Clamped
  <2>2. LookupsPerItem * MaxCount \in Nat BY Limits
  <2>3. at' \in {"idle", "probe", "dig"} BY <1>2 DEF CrateDigSearch
  <2>4. 0 \in 0..(LookupsPerItem * MaxCount) /\ 0 \in 0..MaxPool /\ 0 \in Nat BY <2>2, Limits
  <2>5. searches' \in 0..MaxSearches
    <3>1. searches < MaxSearches /\ searches' = searches + 1 BY <1>2 DEF CrateDigSearch
    <3> QED BY <3>1, Limits
  <2>6. found' \in Seq(Releases) /\ Len(found') <= count'
    <3>1. found' = <<>> BY <1>2 DEF CrateDigSearch
    <3> QED BY <2>1, <3>1, Limits
  <2>7. left' \subseteq Releases /\ seen' \subseteq 1..MaxPool BY <1>2 DEF CrateDigSearch
  <2> QED BY <1>2, <2>1, <2>3, <2>4, <2>5, <2>6, <2>7 DEF CrateDigSearch
<1>3. CASE ProbeFails \/ SecondFails
  <2>1. at' = "idle" /\ requests' \in Nat /\ UNCHANGED <<memory, search, given, searches>>
    BY <1>3, <1>d DEF ProbeFails, SecondFails, Ends
  <2> QED BY <2>1
<1>4. ASSUME NEW p \in 1..Size, \E entries \in Entries(p) : FirstPage(p, entries)
      PROVE  at' = "dig" /\ left' \subseteq Releases /\ seen' \subseteq 1..MaxPool
  <2>1. PICK entries \in Entries(p) : FirstPage(p, entries) BY <1>4
  <2>2. p \in 1..MaxPool /\ Pages[filter][p] \subseteq Releases BY <1>b, <1>c, Limits
  <2>3. entries \subseteq Releases BY <2>1, <2>2 DEF Entries
  <2> QED BY <2>1, <2>2, <2>3 DEF FirstPage
<1>5. CASE Probe
  <2>1. pool' \in [Filters -> 0..MaxPool \cup {NoPool}] BY <1>5, <1>c DEF Probe
  <2>2. CASE Size = 0 /\ Ends BY <1>5, <1>d, <2>1, <2>2 DEF Probe, Ends
  <2>3. CASE Size > 0 /\ \E entries \in Entries(1) : FirstPage(1, entries)
    <3>1. at' = "dig" /\ left' \subseteq Releases /\ seen' \subseteq 1..MaxPool
      BY <2>3, <1>c, <1>4
    <3> QED BY <1>5, <1>d, <2>1, <2>3, <3>1 DEF Probe, FirstPage
  <2>4. CASE \E p \in 2..Size : at' = "second" /\ page' = p
                                /\ UNCHANGED <<count, found, seen, lookups, left>>
    <3>1. page' \in 0..MaxPool BY <1>c, <2>4, Limits
    <3> QED BY <1>5, <1>d, <2>1, <2>4, <3>1 DEF Probe
  <2> QED BY <1>5, <2>2, <2>3, <2>4 DEF Probe
<1>6. CASE Second
  <2>1. page \in 1..Size BY <1>6 DEF Second, SearchInv
  <2>2. at' = "dig" /\ left' \subseteq Releases /\ seen' \subseteq 1..MaxPool
    BY <1>6, <1>4, <2>1 DEF Second
  <2> QED BY <1>6, <1>d, <2>2 DEF Second, FirstPage
<1>7. CASE DrawPage
  <2>1. PICK p \in 1..pool[filter] \ seen : /\ seen' = seen \cup {p}
                                           /\ left' \in Entries(p) \cup {{}}
    BY <1>7 DEF DrawPage, Sees
  <2>2. pool[filter] \in Nat /\ pool[filter] <= MaxPool /\ pool[filter] <= Len(Pages[filter])
    BY <1>7, CrateDigAssumption, Limits DEF DrawPage, Digs, SearchInv
  <2>3. p \in 1..MaxPool /\ p \in 1..Len(Pages[filter]) /\ filter \in Filters
    <3>1. MaxPool \in Nat /\ Len(Pages[filter]) \in Nat BY Limits, CrateDigAssumption
    <3> QED BY <2>1, <2>2, <3>1
  <2>4. left' \subseteq Releases BY <1>b, <2>1, <2>3 DEF Entries
  <2> QED BY <1>7, <1>d, <2>1, <2>3, <2>4 DEF DrawPage
<1>8. ASSUME NEW r \in left, Lookup(r)
      PROVE  lookups' \in 0..(LookupsPerItem * MaxCount) /\ requests' \in Nat
             /\ left' \subseteq Releases /\ Len(found) < count
  <2>1. LookupsPerItem * count \in Nat /\ LookupsPerItem * count <= LookupsPerItem * MaxCount
    BY LookupsBound
  <2>2. LookupsPerItem * MaxCount \in Nat BY Limits
  <2> QED BY <1>8, <1>d, <2>1, <2>2 DEF Lookup, Digs, Full
<1>9. CASE \E r \in left : NoVideo(r) BY <1>9, <1>8 DEF NoVideo, Lookup
<1>10. CASE \E r \in left : Give(r)
  <2>1. PICK r \in left : Give(r) BY <1>10
  <2>2. r \in Releases /\ Lookup(r) BY <2>1 DEF Give
  <2>3. found' \in Seq(Releases) /\ Len(found') <= count
    BY <2>1, <2>2, <1>8 DEF Give
  <2>4. given' \in Seq(Releases) /\ exclude' \in Seq(Releases) /\ Len(exclude') <= MAX_EXCLUDE_IDS
    BY <2>1, GiveKeepsMemory
  <2> QED BY <1>8, <2>2, <2>3, <2>4 DEF Lookup
<1>11. CASE SkipEntry BY <1>11 DEF SkipEntry
<1>12. CASE Answer BY <1>12 DEF Answer, Ends
<1>13. CASE DrawSeenPage \/ UNCHANGED vars BY <1>13 DEF DrawSeenPage, vars
<1> QED
  BY <1>1, <1>2, <1>3, <1>5, <1>6, <1>7, <1>9, <1>10, <1>11, <1>12, <1>13 DEF Next, Session

(* The invariant is inductive.                                              *)
LEMMA NextKeeps == IInv /\ [Next]_vars => IInv'
  BY TypeStep, MemoryStep, BudgetStep, SearchStep DEF IInv
(* It holds in every reachable state.                                       *)
LEMMA Invariance == Spec => []IInv
<1> QED BY InitHolds, NextKeeps, PTL DEF Spec

(* Every variable keeps its type: pages drawn exist, counts stay in bounds. *)
THEOREM TypeCorrect == Spec => []TypeOK
<1>1. IInv => TypeOK BY DEF IInv
<1> QED BY <1>1, Invariance, PTL

(* A release is not given again before as many others were as are           *)
(* remembered, within a search and across searches.                         *)
THEOREM NoneAgain == Spec => []NotGivenAgain
<1>1. IInv => NotGivenAgain BY DEF IInv
<1> QED BY <1>1, Invariance, PTL

(* A search calls Discogs at most as often as all the tries of the requests *)
(* its limits add up to.                                                    *)
THEOREM KeepsToBudget == Spec => []RequestBudget
<1>1. IInv => RequestBudget
  <2> SUFFICES ASSUME IInv PROVE RequestBudget OBVIOUS
  <2>1. Cardinality(seen) \in Nat BY FS_CardinalityType DEF IInv, BudgetInv
  <2>2. MaxLookups \in Nat BY LookupsBound DEF IInv, TypeOK, MaxLookups
  <2>3. requests \in Nat /\ lookups \in Nat BY DEF IInv, TypeOK
  <2>4. 2 + Cardinality(seen) + lookups <= 2 + MaxPageFetches + MaxLookups
    BY <2>1, <2>2, <2>3, Limits DEF IInv, BudgetInv
  <2>5. MaxTries * (2 + Cardinality(seen) + lookups) <= MaxTries * (2 + MaxPageFetches + MaxLookups)
    <3>1. 2 + Cardinality(seen) + lookups \in Nat /\ 2 + MaxPageFetches + MaxLookups \in Nat
      BY <2>1, <2>2, <2>3, Limits
    <3> QED BY <2>4, <3>1, TriesBound
  <2>6. /\ MaxTries * (2 + Cardinality(seen) + lookups) \in Nat
        /\ MaxTries * (2 + MaxPageFetches + MaxLookups) \in Nat
    BY <2>1, <2>2, <2>3, Limits, TriesBound
  <2> QED BY <2>3, <2>5, <2>6 DEF IInv, BudgetInv, RequestBudget, MaxLookups
<1> QED BY <1>1, Invariance, PTL
=============================================================================
