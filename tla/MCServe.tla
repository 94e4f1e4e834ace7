------------------------------ MODULE MCServe ------------------------------
(* An instance of Serve for TLC: files are published in any order.         *)
EXTENDS Serve, TLC

CONSTANTS good1, good2, upgraded

\* Two indexes of this schema and one of a newer herbarium.  That a path is
\* refused earlier is covered by removing the file.
VerdictSmall ==
    good1 :> "ok" @@ good2 :> "ok" @@ upgraded :> "schema"
=============================================================================
