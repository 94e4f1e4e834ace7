----------------------------- MODULE MCCallSites -----------------------------
(* CallSites on the calls of MCCallInputs.                                 *)
EXTENDS CallSites

Given == INSTANCE MCCallInputs

MCSites == Given!MCSites
TwoSections == Given!TwoSections
ThreeFunctions == Given!ThreeFunctions
=============================================================================
