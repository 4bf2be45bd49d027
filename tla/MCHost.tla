------------------------------- MODULE MCHost -------------------------------
(* Model values and small tables for Host. *)
EXTENDS Host

CONSTANTS a, b, u

TwoLists == {<<a, b>>, <<b, u>>}
StyleTable == <<1, 2, 2>>
CountryTable == <<1, 2, 2>>
RowNumbers == -1..2
=============================================================================
