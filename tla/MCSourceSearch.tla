--------------------------- MODULE MCSourceSearch ---------------------------
(* SourceSearch on the indexes and the requests of MCSearchInputs.         *)
EXTENDS SourceSearch

Given == INSTANCE MCSearchInputs
SmallIndexes == Given!SmallIndexes
SmallSearches == Given!SmallSearches
=============================================================================
