--------------------------- MODULE MCIndexQueries ---------------------------
(* IndexQueries on the indexes and the questions of MCQueryInputs.         *)
EXTENDS IndexQueries

Given == INSTANCE MCQueryInputs
SmallCatalogs == Given!SmallCatalogs
SmallQuestions == Given!SmallQuestions
=============================================================================
