---------------------------- MODULE MCLinkInputs ----------------------------
(***************************************************************************)
(* A build of two executables: app1 links a.o, b.o and w.o, app2 links c.o *)
(* and w.o, and w.o is bundled in libw.a.  Each object defines f strong,   *)
(* weak, static, as a static the optimizer left no code for, or not at     *)
(* all; main calls every f of its binary and puts through the PLT, and     *)
(* jumps inside itself.                                                    *)
(***************************************************************************)
EXTENDS Naturals, Sequences, SequencesExt, FiniteSets, TLC

Objs == <<"a.o", "b.o", "c.o", "w.o">>
Index(o) == CHOOSE i \in DOMAIN Objs : Objs[i] = o

App1 == {"a.o", "b.o", "w.o"}
App2 == {"c.o", "w.o"}

Globals == {"T", "W"}

\* The linker takes the strong definition, or else the first weak one.
LinkersChoice(def, objs) ==
    LET strong == {o \in objs : def[o] = "T"}
        weak   == {o \in objs : def[o] = "W"}
    IN  IF strong # {} THEN strong
        ELSE {o \in weak : \A p \in weak : Index(o) <= Index(p)}

Defs ==
    {[o \in ToSet(Objs) |-> IF o = "w.o" THEN w ELSE d[o]] :
        d \in [{"a.o", "b.o", "c.o"} -> {"T", "W", "t", "inlined", "none"}],
        w \in {"W", "none"}}

\* A second strong definition in one binary does not link.
Linkable(def) ==
    \A objs \in {App1, App2} : Cardinality({o \in objs : def[o] = "T"}) <= 1

Sources(first) == [o \in ToSet(Objs) |->
    CASE o = "a.o" -> first [] o = "b.o" -> "b.c" [] o = "c.o" -> "c.c" [] OTHER -> "w.c"]

Row(path, name, hasDef) ==
    [usr |-> <<path, "function", name>>, names |-> {name}, hasDef |-> hasDef]

StaticRows(def, src, objs) ==
    FoldLeft(LAMBDA acc, o : IF def[o] \in {"t", "inlined"}
                             THEN Append(acc, Row(src[o], "f", TRUE)) ELSE acc, <<>>, objs)

\* ids follow sort.Strings of the USRs: "c:3rd/a.c@F@f" sorts before "c:@F@f".
Rows(def, src, declared) ==
    LET defined == \E o \in ToSet(Objs) : def[o] \in Globals
        extern  == IF defined \/ declared THEN <<Row("", "f", defined)>> ELSE <<>>
        early   == IF src["a.o"] = "3rd/a.c" THEN <<"a.o">> ELSE <<>>
        late    == IF early = <<>> THEN Objs ELSE <<"b.o", "c.o", "w.o">>
    IN  StaticRows(def, src, early) \o extern
          \o <<Row("", "main", TRUE), Row("", "puts", FALSE)>> \o StaticRows(def, src, late)

Syms(def, main, objs) ==
    LET f(o) == [name |-> "f", kind |-> def[o], addr |-> 10 + Index(o), from |-> o]
        taken == {o \in objs : def[o] = "t"} \cup LinkersChoice(def, objs)
    IN  SelectSeq([i \in DOMAIN Objs |-> f(Objs[i])], LAMBDA s : s.from \in taken)
          \o <<[name |-> "main", kind |-> "T", addr |-> 1, from |-> main]>>

Calls(syms) ==
    [i \in DOMAIN syms |-> [caller |-> "main", callerAddr |-> 1, callee |-> <<syms[i].name>>,
                            calleeAddr |-> syms[i].addr]]
      \o <<[caller |-> "main", callerAddr |-> 1, callee |-> <<"puts", "@plt">>, calleeAddr |-> 90],
            [caller |-> "main", callerAddr |-> 1, callee |-> <<"main+0x8">>, calleeAddr |-> 9]>>

\* What ReadMap gets of a map, which lists the globals: all of them; none, when
\* ld pulled no archive member and so printed no load list; all but those of the
\* member w.o; or those of w.o under the contribution before, main's.
Origin(syms, main, map) ==
    LET globals == {s \in ToSet(syms) : s.kind # "t"}
        named   == CASE map \in {"none", "unread"} -> {}
                     [] map = "members"            -> {s \in globals : s.from # "w.o"}
                     [] OTHER                      -> globals
        object(s) == IF map = "slips" /\ s.from = "w.o" THEN main ELSE s.from
    IN  [n \in {s.name : s \in named} |-> object(CHOOSE s \in named : s.name = n)]

Exe(name, def, main, objs, map) ==
    LET syms == Syms(def, main, objs)
    IN  [name |-> name, kind |-> "executable", built |-> TRUE, hasMap |-> map # "none",
         origin |-> Origin(syms, main, map), syms |-> syms, calls |-> Calls(syms)]

LibW == [name |-> "libw", kind |-> "static_library", built |-> TRUE, hasMap |-> FALSE,
         origin |-> <<>>, syms |-> <<>>, calls |-> <<>>]

ObjectSyms(def, o) ==
    (IF def[o] \in {"T", "W", "t"} THEN <<[name |-> "f", kind |-> def[o]]>> ELSE <<>>)
      \o (IF o \in {"a.o", "c.o"} THEN <<[name |-> "main", kind |-> "T"]>> ELSE <<>>)

Build(def, first, declared, map) ==
    LET src == Sources(first) IN
    [rows    |-> Rows(def, src, declared),
     objects |-> [i \in DOMAIN Objs |-> [object |-> Objs[i], syms |-> ObjectSyms(def, Objs[i])]],
     source  |-> src,
     archive |-> "w.o" :> "libw.a",
     targets |-> <<Exe("app1", def, "a.o", App1, map), Exe("app2", def, "c.o", App2, map), LibW>>]

LinkBuilds ==
    {Build(def, first, declared, map) :
        def \in {d \in Defs : Linkable(d)}, first \in {"3rd/a.c", "a.c"},
        declared \in BOOLEAN, map \in {"none", "whole", "unread", "members", "slips"}}
=============================================================================
