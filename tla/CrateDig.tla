------------------------------ MODULE CrateDig ------------------------------
(***************************************************************************)
(* The crate-dig session of src/src/bin/yt_dlp_daemon.py: CrateDigSession  *)
(* draws random pages of the releases that Discogs has for a filter, looks *)
(* the releases up one by one for a video, and remembers those it gave.    *)
(*                                                                         *)
(* The process serves one request at a time.  Discogs is outside: any      *)
(* request to it may fail, after up to three tries, a page may come empty, *)
(* and a release may have no video.  Shuffles are choices.                 *)
(* A definition marked "mutant" is a bug this code could have had: the     *)
(* properties are checked to notice it.                                    *)
(***************************************************************************)
EXTENDS Integers, FiniteSets, Sequences

CONSTANTS
  Releases,       (* what Discogs has                                       *)
  Filters,        (* genre, style, decade and country                       *)
  NoFilter,       (* the filter a session starts with; one of them          *)
  Pages,          (* for each filter its pages, each a set of releases      *)
  NoPool,         (* no number of pages is known                            *)
  MaxPool,        (* the pages Discogs gives access to: 100                 *)
  MaxCount,       (* the results of one search: 5                           *)
  MaxPageFetches, (* max_page_fetches: 3                                    *)
  MaxTries,       (* the tries of one request: 3                            *)
  LookupsPerItem, (* lookups for each result that is wanted: 4              *)
  MAX_EXCLUDE_IDS,(* releases remembered: 200                               *)
  Asked,          (* the numbers of results clients ask for                 *)
  MaxSearches     (* bound: the searches of one behaviour                   *)

ASSUME CrateDigAssumption ==
  /\ NoFilter \in Filters
  /\ Pages \in [Filters -> Seq(SUBSET Releases)]
  /\ NoPool \notin Nat /\ Asked \subseteq Int
  /\ {MaxPool, MaxCount, MaxTries, LookupsPerItem, MAX_EXCLUDE_IDS} \subseteq Nat \ {0}
  /\ MaxPageFetches \in Nat \ {0, 1} /\ MaxSearches \in Nat

VARIABLES
  filter,       \* filter_genre, filter_style, filter_decade, filter_country
  exclude,      \* exclude_ids
  pool,         \* pool_size_cache
  at,           \* what the session is at
  count, found, seen, lookups,  \* get_random_releases: seen is seen_pages
  page, left,   \* the page asked for; its entries not yet tried
  given,        \* history: the releases given under this filter, in order
  requests,     \* history: the calls of this search to Discogs
  searches

memory == <<filter, exclude, pool>>
search == <<count, found, seen, lookups, page, left>>
vars == <<memory, at, search, given, requests, searches>>

(* The state type. *)
TypeOK ==
  /\ filter \in Filters
  /\ exclude \in Seq(Releases) /\ Len(exclude) <= MAX_EXCLUDE_IDS
  /\ pool \in [Filters -> 0..MaxPool \cup {NoPool}]
  /\ at \in {"idle", "probe", "second", "dig"}
  /\ count \in 1..MaxCount /\ found \in Seq(Releases) /\ Len(found) <= count
  /\ seen \subseteq 1..MaxPool /\ lookups \in 0..(LookupsPerItem * MaxCount)
  /\ page \in 0..MaxPool /\ left \subseteq Releases
  /\ given \in Seq(Releases) /\ requests \in Nat /\ searches \in 0..MaxSearches

NoPools == [f \in Filters |-> NoPool]

Init ==
  /\ filter = NoFilter /\ exclude = <<>> /\ pool = NoPools
  /\ at = "idle"
  /\ count = 1 /\ found = <<>> /\ seen = {} /\ lookups = 0 /\ page = 0 /\ left = {}
  /\ given = <<>> /\ requests = 0 /\ searches = 0

-----------------------------------------------------------------------------
(* set_filter: another filter forgets what was given and the page counts.    *)
ForgetsAlways(f) ==  \* mutant: the same filter, sent again, forgets them too
  /\ at = "idle" /\ filter' = f /\ exclude' = <<>> /\ pool' = NoPools
  /\ given' = IF f # filter THEN <<>> ELSE given
  /\ UNCHANGED <<at, search, requests, searches>>

SetFilter(f) ==
  /\ at = "idle" /\ filter' = f
  /\ IF f # filter THEN exclude' = <<>> /\ pool' = NoPools /\ given' = <<>>
     ELSE UNCHANGED <<exclude, pool, given>>
  /\ UNCHANGED <<at, search, requests, searches>>

Clamped(n) == IF n < 1 THEN 1 ELSE IF n > MaxCount THEN MaxCount ELSE n

(* cratedig_search, up to the first request.  No page means no result.       *)
CrateDigSearch(n) ==
  /\ at = "idle" /\ searches < MaxSearches /\ searches' = searches + 1
  /\ count' = Clamped(n)
  /\ found' = <<>> /\ seen' = {} /\ lookups' = 0 /\ page' = 0 /\ left' = {}
  /\ requests' = 0
  /\ at' = CASE pool[filter] = NoPool -> "probe"
             [] pool[filter] = 0 -> "idle"
             [] OTHER -> "dig"
  /\ UNCHANGED <<memory, given>>

-----------------------------------------------------------------------------
(* _request: Discogs is called again when it answers 429 or cannot be        *)
(* reached; an answer, or another error, ends it.                            *)
Request == \E tries \in 1..MaxTries : requests' = requests + tries

(* _get_pool_size_and_first_page: page 1 tells how many there are, and a     *)
(* random one is looked at first.  A failure ends the search with an error.  *)
Entries(p) == {Pages[filter][p], {}}
Ends == at' = "idle" /\ UNCHANGED search

FirstPage(p, entries) ==
  /\ at' = "dig" /\ left' = entries
  /\ seen' = IF entries = {} THEN {} ELSE {p}
  /\ UNCHANGED <<count, found, lookups, page>>

Size == IF Len(Pages[filter]) > MaxPool THEN MaxPool ELSE Len(Pages[filter])

ProbeFails == at = "probe" /\ Request /\ Ends /\ UNCHANGED <<memory, given, searches>>

Probe ==
  /\ at = "probe" /\ Request
  /\ pool' = [pool EXCEPT ![filter] = Size]
  /\ \/ Size = 0 /\ Ends
     \/ Size > 0 /\ \E entries \in Entries(1) : FirstPage(1, entries)
     \/ \E p \in 2..Size :
          /\ at' = "second" /\ page' = p
          /\ UNCHANGED <<count, found, seen, lookups, left>>
  /\ UNCHANGED <<filter, exclude, given, searches>>

SecondFails == at = "second" /\ Request /\ Ends /\ UNCHANGED <<memory, given, searches>>

Second ==
  /\ at = "second" /\ Request
  /\ \E entries \in Entries(page) : FirstPage(page, entries)
  /\ UNCHANGED <<memory, given, searches>>

-----------------------------------------------------------------------------
(* The loop of get_random_releases.                                          *)
Full == Len(found) >= count \/ lookups >= LookupsPerItem * count

Digs == at = "dig" /\ ~Full
DrawsNoMore == Cardinality(seen) >= MaxPageFetches

(* A page that was not seen is asked for; one that was is drawn again.       *)
SeesWhatAnswers(p, answers) ==  \* mutant: a page that fails is not counted
  seen' = IF answers THEN seen \cup {p} ELSE seen
Sees(p, answers) == seen' = seen \cup {p}

DrawPage ==
  /\ Digs /\ left = {} /\ ~DrawsNoMore /\ Request
  /\ \E p \in 1..pool[filter] \ seen, answers \in BOOLEAN :
       /\ Sees(p, answers)
       /\ IF answers THEN left' \in Entries(p) ELSE left' = {}
  /\ UNCHANGED <<memory, at, count, found, lookups, page, given, searches>>

DrawSeenPage ==
  /\ Digs /\ left = {} /\ ~DrawsNoMore /\ seen # {}
  /\ UNCHANGED vars

(* An entry of the page: skipped, or looked up and given, or of no use.      *)
InMemory(r) == \E i \in 1..Len(exclude) : exclude[i] = r

SkipEntry ==
  /\ Digs
  /\ \E r \in left : InMemory(r) /\ left' = left \ {r}
  /\ UNCHANGED <<memory, at, count, found, seen, lookups, page, given, requests, searches>>

Lookup(r) ==
  /\ Digs /\ r \in left /\ ~InMemory(r)
  /\ left' = left \ {r} /\ lookups' = lookups + 1 /\ Request
  /\ UNCHANGED <<filter, pool, at, count, seen, page, searches>>

RemembersAll(s) == s  \* mutant: the list is not cut
Remembered(s) ==
  IF Len(s) > MAX_EXCLUDE_IDS THEN SubSeq(s, Len(s) - MAX_EXCLUDE_IDS + 1, Len(s)) ELSE s
NoVideo(r) == Lookup(r) /\ UNCHANGED <<exclude, found, given>>
Give(r) ==
  /\ Lookup(r)
  /\ found' = Append(found, r) /\ given' = Append(given, r)
  /\ exclude' = Remembered(Append(exclude, r))

(* What was found is the answer.                                             *)
AnswersWhenFull ==  \* mutant: to run out of pages is no end
  /\ at = "dig" /\ Full
  /\ Ends /\ UNCHANGED <<memory, given, requests, searches>>

Answer ==
  /\ at = "dig" /\ (Full \/ (left = {} /\ DrawsNoMore))
  /\ Ends /\ UNCHANGED <<memory, given, requests, searches>>

-----------------------------------------------------------------------------
Session ==
  \/ ProbeFails \/ Probe \/ SecondFails \/ Second
  \/ DrawPage \/ DrawSeenPage \/ SkipEntry \/ Answer
  \/ \E r \in left : NoVideo(r) \/ Give(r)

Next == \/ \E f \in Filters : SetFilter(f)
        \/ \E n \in Asked : CrateDigSearch(n)
        \/ Session

Spec == Init /\ [][Next]_vars

(* A request has a time limit and three tries, and a page that was not seen  *)
(* is drawn at last: random.randint does not miss it for ever.               *)
FairSpec == Spec /\ WF_vars(Session)

-----------------------------------------------------------------------------
(* A release is not given again, under the same filter, before               *)
(* MAX_EXCLUDE_IDS others were: not in one answer, and not over several.     *)
NotGivenAgain ==
  \A i, j \in 1..Len(given) : i < j /\ given[i] = given[j] => j - i > MAX_EXCLUDE_IDS

(* A search calls Discogs no more often than its caps allow, the tries of a  *)
(* request included: 75 times with their values, three times the 25 that     *)
(* Discogs grants a device without a token in a minute.                      *)
RequestBudget == requests <= MaxTries * (2 + MaxPageFetches + LookupsPerItem * count)

(* A search ends: "max_page_fetches = 3 # 100 entries/page, 3 pages = 300    *)
(* candidates" limits the pages, the number of lookups the rest.             *)
SearchEnds == at # "idle" ~> at = "idle"

(* What is left of SearchEnds: it does unless it has seen all the pages      *)
(* there are, they are fewer than it may fetch, and it wants more.           *)
AllSeen == Digs /\ left = {} /\ ~DrawsNoMore /\ seen = 1..pool[filter]
EndsOrHasSeenAll == at # "idle" ~> at = "idle" \/ AllSeen
=============================================================================
