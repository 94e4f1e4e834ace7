---------------------------- MODULE MCPassInputs ----------------------------
(* Inputs for TLC: what the compiler pass and the source pass may find.    *)
EXTENDS Naturals, Sequences, SequencesExt, TLC

(* The compiler pass: every ordered pair drawn from a family of units.     *)

\* "10" sorts before "9".
StringOrder == <<"1", "10", "2", "9">>

Node(name, vis, addr, body, cloneOf, calls) ==
    [name |-> name, asm |-> name, kind |-> "function", vis |-> vis, addr |-> addr,
     body |-> body, loc |-> <<>>, cloneOf |-> cloneOf, calls |-> calls]

Call(id, inl) == [target |-> id, inlined |-> inl]

\* A caller f/1: with and without a body, calling h/2 or a node the dump lost.
Callers ==
    {Node("f", vis, FALSE, body, "", calls) :
        vis \in {"public", "static"}, body \in BOOLEAN,
        calls \in {<<>>, <<Call("2", TRUE)>>, <<Call("2", FALSE), Call("9", FALSE)>>}}

\* A helper h/2: an unused header inline, a used one, a weak or strong definition.
Helpers == {Node("h", vis, addr, body, "", <<>>) :
               vis \in {"public", "weak", "static"}, addr \in {FALSE}, body \in BOOLEAN}
           \cup {Node("h", "static", TRUE, FALSE, "", <<>>)}

\* A clone of the helper, or of a function that is not in the dump.
Clone(parent) == Node("h.part.0", "static", TRUE, TRUE, parent, <<Call("2", FALSE)>>)

Unit(src, nodes, recs, grps) ==
    [source |-> src, nodes |-> nodes, records |-> recs, groups |-> grps]

Records == {{}, {[caller |-> "1", callee |-> "2"]}}
Groups == {{}} \cup {{[winner |-> "f", losers |-> ls]} : ls \in {{"h"}, {"h", "gone"}}}

FirstUnits ==
    {Unit(src, "1" :> f @@ "2" :> h, recs, grps) :
        src \in {"a.c", "b.c"}, f \in Callers, h \in Helpers,
        recs \in Records, grps \in Groups}

CloneUnits ==
    {Unit("a.c", "1" :> Node("f", "public", FALSE, TRUE, "", <<Call("9", TRUE)>>)
                 @@ "2" :> h @@ "9" :> Clone(parent), {}, grps) :
        h \in Helpers, parent \in {"2", "10"},
        grps \in {{}, {[winner |-> "f", losers |-> {"h", "h.part.0"}]}}}

\* A clone whose parent is a clone that sorts after it.
NestedUnits ==
    {Unit("a.c", "2" :> h @@ "9" :> Clone("2")
                 @@ "10" :> Node("h.part.0.isra.0", "static", addr, TRUE, "9", <<Call("2", FALSE)>>),
          {}, {}) :
        h \in Helpers, addr \in BOOLEAN}

\* A unit without a .cgraph.
EmptyUnit == Unit("c.c", <<>>, {}, {})

\* The first unit of a pair varies freely, the second over the plain callers.
SecondUnits ==
    {u \in FirstUnits : u.records = {} /\ u.groups = {} /\ u.source = "a.c"
                        /\ u.nodes["1"].calls # <<>> /\ u.nodes["1"].vis = "public"}

UnitBuilds ==
    {<<u, v>> : u \in FirstUnits, v \in SecondUnits}
    \cup {<<v, u>> : u \in CloneUnits \cup NestedUnits, v \in SecondUnits \cup {EmptyUnit}}

(* The source pass.  Two units m.c and n.c share p.h; m.c also includes a  *)
(* configured header and a system header.  Contents coincide across the    *)
(* three tables, and n.o is older than m.o.                                *)

AllPaths == <<"cfg.h", "m.c", "m.o", "n.c", "n.o", "p.h", "sys.h">>

Place(cfg) == [f \in ToSet(AllPaths) |->
    CASE f = "cfg.h" -> cfg
      [] f = "sys.h" -> "outside"
      [] f \in {"m.o", "n.o"} -> "builddir"
      [] OTHER -> "project"]

\* p.h may already have been edited after n.o was built.
Disk(pTime) == [f \in ToSet(AllPaths) |->
    CASE f = "m.o" -> [content |-> "obj", mtime |-> 6]
      [] f = "n.o" -> [content |-> "obj", mtime |-> 3]
      [] f = "p.h" -> [content |-> "x", mtime |-> pTime]
      [] f = "m.c" -> [content |-> "y", mtime |-> 1]
      [] OTHER     -> [content |-> "x", mtime |-> 1]]

Usr == [raw |-> "/usr/**", files |-> {"sys.h"}]
Sys == [raw |-> "/usr/sys.h", files |-> {"sys.h"}]
Nil == [raw |-> "/opt/**", files |-> {}]

Uses == "m.o" :> {"m.c", "p.h", "cfg.h", "sys.h"} @@ "n.o" :> {"n.c", "p.h"}

\* Where the configured header lies and how Meson lists it.
Configured == {<<"inTree", "source">>, <<"inTree", "generated">>, <<"inTree", "header">>,
               <<"builddir", "generated">>, <<"builddir", "header">>,
               <<"outside", "generated">>, <<"builddir", "source">>}

Build(cfg, log, nDeps, globs, strict, pTime) ==
    [sources   |-> {"m.c", "n.c"} \cup (IF cfg[2] = "source" THEN {"cfg.h"} ELSE {}),
     generated |-> IF cfg[2] = "generated" THEN {"cfg.h"} ELSE {},
     log       |-> log,
     deps      |-> [Uses EXCEPT !["n.o"] = IF nDeps THEN @ ELSE {}],
     place     |-> Place(cfg[1]),
     globs     |-> globs,
     strict    |-> strict,
     disk      |-> Disk(pTime)]

\* Everything combined; then a log torn before n.o's record, and two globs for
\* one header.
PackBuilds ==
    {Build(cfg, log, TRUE, globs, strict, pTime) :
        cfg \in Configured, log \in BOOLEAN, globs \in {<<>>, <<Usr>>, <<Usr, Usr>>, <<Nil>>},
        strict \in BOOLEAN, pTime \in {1, 5}}
    \cup {Build(<<"inTree", "header">>, TRUE, FALSE, <<Usr, Sys>>, strict, 5) : strict \in BOOLEAN}
=============================================================================
