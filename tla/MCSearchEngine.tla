--------------------------- MODULE MCSearchEngine ---------------------------
(* Instances of SearchEngine for TLC: crate-dig filters f and g, and a       *)
(* search by words on another provider.                                      *)
EXTENDS SearchEngine

CONSTANTS f, g

DigFilters == {f, g}
OneFilter == {f}
Words == {"cratedig", "jazz"}
DigOnly == {"cratedig"}
Names == {"youtube", "cratedig"}
NoProviders == {}
OtherProvider == {"youtube"}
=============================================================================
