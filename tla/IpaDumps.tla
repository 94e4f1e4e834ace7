------------------------------ MODULE IpaDumps ------------------------------
(***************************************************************************)
(* ParseICF (internal/gccdump/icf.go) and ParseOptRecord (optrecord.go):   *)
(* what GCC folded and what it inlined, each told from text that names two *)
(* functions without saying which is which.                                *)
(*                                                                         *)
(* GCC is the environment.  It knows the function every function was made  *)
(* a wrapper of (wraps, 0 for none) and, of every inlining decision, the   *)
(* caller and the callee; it shows the parser one line or record at a      *)
(* time, in any order, and as often as it likes.                           *)
(***************************************************************************)
EXTENDS Naturals, Sequences, FiniteSets, SequencesExt

CONSTANTS
    Functions,   \* a set of numbers without 0
    MaxIcfLines, MaxDecisions  \* bounds: lines of an .icf dump, optimization records

VARIABLES
    file,      \* "icf" or "opt"
    wraps,     \* what GCC folded
    format,    \* the format key of an optimization record
    shown,     \* what GCC wrote so far
    currentFn, winners, losersOf,  \* of ParseICF
    inlineRecords,                 \* of ParseOptRecord
    result     \* "reading", "ok" or "error"

vars == <<file, wraps, format, shown, currentFn, winners, losersOf, inlineRecords, result>>

Init ==
    /\ file \in {"icf", "opt"}
    /\ wraps \in {w \in [Functions -> Functions \cup {0}] : \A f \in Functions : w[f] # f}
    /\ format \in {"1", "2"}
    /\ file = "icf" => format = "1"
    /\ file = "opt" => wraps = [f \in Functions |-> 0]
    /\ shown = <<>> /\ currentFn = 0 /\ winners = {}
    /\ losersOf = [w \in Functions |-> {}] /\ inlineRecords = {} /\ result = "reading"

Show(item) ==
    /\ result = "reading"
    /\ Len(shown) < IF file = "icf" THEN MaxIcfLines ELSE MaxDecisions
    /\ shown' = Append(shown, item)
    /\ UNCHANGED <<file, wraps, format, result>>

-----------------------------------------------------------------------------
(* The .icf dump.                                                          *)

\* "Introduced new external node (w.localalias/n)": only for a function that
\* others were folded into.
Introduced(w) ==
    /\ file = "icf" /\ (\E f \in Functions : wraps[f] = w)
    /\ Show([line |-> "introduced", fn |-> w])
    /\ winners' = winners \cup {w}
    /\ UNCHANGED <<currentFn, losersOf, inlineRecords>>

\* "Analyzing function: f/n": what follows is about f.
Analyzing(f) ==
    /\ file = "icf" /\ Show([line |-> "analyzing", fn |-> f])
    /\ currentFn' = f
    /\ UNCHANGED <<winners, losersOf, inlineRecords>>

\* The function GCC is writing about: the one analyzed last.
Subject ==
    LET heads == {k \in DOMAIN shown : shown[k].line = "analyzing"}
    IN  IF heads = {} THEN 0
        ELSE shown[CHOOSE k \in heads : \A m \in heads : m <= k].fn

\* Who is noted for a call of w's alias.
Attributed(w) == IF currentFn \in {0, w} THEN {} ELSE {currentFn}

\* A line with a call of w.localalias: in the body of a wrapper of w, or, of
\* w itself, anywhere in what is printed of it.
AliasCall(w) ==
    /\ file = "icf" /\ Subject # 0 /\ (Subject = w \/ wraps[Subject] = w)
    /\ Show([line |-> "alias", fn |-> w])
    /\ losersOf' = [losersOf EXCEPT ![w] = @ \cup Attributed(w)]
    /\ UNCHANGED <<currentFn, winners, inlineRecords>>

\* Groups with a winner that was announced and at least one loser.
Groups ==
    {[winner |-> w, losers |-> losersOf[w]] : w \in {w \in winners : losersOf[w] # {}}}

-----------------------------------------------------------------------------
(* The optimization record.                                                *)

\* The wordings of a decision, by what stands between the two functions; the
\* last two are messages about one function, or with other text.
Wordings == {"->", " into ", " to ", "one", "other"}

OptRecords ==
    [inline : BOOLEAN,      \* the record's pass is in the inline group
     kind : {"success", "failure", "note"},
     wording : Wordings, caller : Functions, callee : Functions]

\* The functions in the order in which GCC's message has them.
Nodes(r) ==
    CASE r.wording = "one" -> <<r.callee>>
      [] r.wording = "->"  -> <<r.caller, r.callee>>
      [] OTHER             -> <<r.callee, r.caller>>

\* Mutant of FromMessage: the first function is the callee, as in a success.
FromMessageByPosition(kind, nodes, sep) ==
    IF Len(nodes) < 2 \/ sep \notin {"->", " into ", " to "} THEN {}
    ELSE {[caller |-> nodes[2], callee |-> nodes[1], inlined |-> kind = "success"]}

\* recordFromMessage: which is which is read off the separator.
FromMessage(kind, nodes, sep) ==
    IF Len(nodes) < 2 THEN {}
    ELSE IF sep = "->"
    THEN {[caller |-> nodes[1], callee |-> nodes[2], inlined |-> kind = "success"]}
    ELSE IF sep \in {" into ", " to "}
    THEN {[caller |-> nodes[2], callee |-> nodes[1], inlined |-> kind = "success"]}
    ELSE {}

\* The loop of ParseOptRecord.  A record like an earlier one adds nothing.
Record(r) ==
    /\ file = "opt" /\ format = "1" /\ Show(r)
    /\ inlineRecords' =
          IF r.inline /\ r.kind \in {"success", "failure"}
          THEN inlineRecords \cup FromMessage(r.kind, Nodes(r), r.wording)
          ELSE inlineRecords
    /\ UNCHANGED <<currentFn, winners, losersOf>>

\* The end of the dump; a format other than the supported one is refused at once.
Finish ==
    /\ result = "reading"
    /\ result' = IF file = "opt" /\ format # "1" THEN "error" ELSE "ok"
    /\ UNCHANGED <<file, wraps, format, shown, currentFn, winners, losersOf, inlineRecords>>

Done == result # "reading" /\ UNCHANGED vars

Next ==
    \/ \E f \in Functions : Introduced(f) \/ Analyzing(f) \/ AliasCall(f)
    \/ \E r \in OptRecords : Record(r)
    \/ Finish \/ Done

Spec == Init /\ [][Next]_vars

-----------------------------------------------------------------------------
ShownOf(line) == {i.fn : i \in {i \in ToSet(shown) : i.line = line}}

\* A function is told to have been folded exactly if GCC folded it, into that
\* winner, and showed both signs of it (icf.go: "partial signals are dropped"); and
\* an inlining decision is kept exactly if it is one of an inline pass whose wording
\* is known, never the wrong way round (optrecord.go: "a reversed inline edge would
\* be worse than a missing one").
DecisionsExact ==
    result = "ok" =>
        /\ file = "icf" =>
              /\ \A g \in Groups : \A f \in g.losers : wraps[f] = g.winner
              /\ \A f \in Functions :
                    wraps[f] \in ShownOf("introduced")
                    /\ (\E k \in DOMAIN shown :
                           /\ k > 1 /\ shown[k] = [line |-> "alias", fn |-> wraps[f]]
                           /\ shown[k - 1] = [line |-> "analyzing", fn |-> f])
                    => \E g \in Groups : g.winner = wraps[f] /\ f \in g.losers
        /\ file = "opt" =>
              inlineRecords =
                  {[caller |-> r.caller, callee |-> r.callee, inlined |-> r.kind = "success"] :
                      r \in {r \in ToSet(shown) : r.inline /\ r.kind # "note"
                                                  /\ r.wording \notin {"one", "other"}}}
=============================================================================
