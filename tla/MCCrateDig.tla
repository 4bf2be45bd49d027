----------------------------- MODULE MCCrateDig -----------------------------
(* Instances of CrateDig for TLC: a filter with more pages than are fetched,  *)
(* one with a single page, and one with none.                                 *)
EXTENDS CrateDig

CONSTANTS r1, r2, r3, r4, wide, narrow, nothing

AllReleases == {r1, r2, r3, r4}
AllFilters == {wide, narrow, nothing}
Catalogue ==
  [f \in AllFilters |->
     CASE f = wide -> << {r1, r2}, {r2, r3}, {r4} >>
       [] f = narrow -> << {r1, r2} >>
       [] f = nothing -> <<>>]
Counts == {0, 20}
=============================================================================
