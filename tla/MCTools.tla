------------------------------ MODULE MCTools ------------------------------
(* Four symbols; the walk starts at 1, so edges back to 1 matter only as   *)
(* cycles and one of them is enough.  2 may call itself.                   *)
EXTENDS Tools

FourSyms == 1..4
Edges ==
    {e \in FourSyms \X FourSyms : e[1] # e[2] /\ e[2] # 1} \cup {<<3, 1>>, <<2, 2>>}
TwoTargets == {{1, 2, 4}, {2, 3}}
FromOne == [start : {1}, end : {1, 2, 3}, depth : {0, 1, 3, 4}]

(* SourceSearch, IndexQueries and SourceDrift.                             *)
Find == INSTANCE MCSearchInputs
SmallIndexes == Find!SmallIndexes
SmallSearches == Find!SmallSearches

Ask == INSTANCE MCQueryInputs
SmallCatalogs == Ask!SmallCatalogs
SmallQuestions == Ask!SmallQuestions

TwoPaths == <<"a.c", "b.c">>
=============================================================================
