----------------------------- MODULE MCCollect -----------------------------
(* Instances of Collect for TLC.                                           *)
EXTENDS Collect, TLC

CONSTANTS c1, c2

\* A first-time collect racing one of the agent loop.
ReplaceSecond == c1 :> FALSE @@ c2 :> TRUE

\* Two collects that must not overwrite anything.
ReplaceNone == c1 :> FALSE @@ c2 :> FALSE
=============================================================================
