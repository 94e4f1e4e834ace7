---------------------------- MODULE MCQueryInputs ----------------------------
(* Three symbols, aux (1), main (2) and zed (3); two executables and a     *)
(* static library, each executable with a main of its own.                 *)
EXTENDS Naturals, Sequences

D(file, weak) == [file |-> file, weak |-> weak]

E(a, b) == [caller |-> a, callee |-> b]
R(a, b, pass, yes) == [caller |-> a, callee |-> b, pass |-> pass, inlined |-> yes]
B(a, b, depth) == [caller |-> a, callee |-> b, depth |-> depth]
H(name, kind) == [name |-> name, kind |-> kind]

\* Forms of a symbol: its linkage and its definitions.
Form(linkage, defs) == [linkage |-> linkage, defs |-> defs]
Undefineds == {Form("external", <<>>), Form("weak", <<>>)}
Statics == {Form("internal", <<D("a.c", FALSE)>>)}
Strong == {Form("external", <<D("c.c", FALSE)>>)}
Both == {Form("external", <<D("a.c", TRUE), D("b.c", FALSE)>>)}
Weaks == {Form("weak", <<D("a.c", TRUE)>>), Form("weak", <<D("b.c", TRUE), D("a.c", TRUE)>>)}
Mains == {Form("external", <<D("a.c", FALSE)>>),
          Form("external", <<D("b.c", FALSE), D("a.c", FALSE)>>)}

\* The linker resolves no static.
Linkable(form, here) == form.linkage = "internal" => ~here

Catalog(aux, main, zed, inApp, cg, od) ==
    [linkage |-> <<aux.linkage, main.linkage, zed.linkage>>,
     defs    |-> <<aux.defs, main.defs, zed.defs>>,
     kind    |-> [app |-> "executable", other |-> "executable", lib |-> "static_library"],
     files   |-> [app |-> {"a.c", "c.c"}, other |-> {"b.c"}, lib |-> {"c.c"}],
     linked  |-> [app |-> inApp, other |-> {2}, lib |-> {}],
     cgraph  |-> cg,
     objdump |-> [app |-> od, other |-> {}, lib |-> {}],
     folded  |-> {[winner |-> 1, losers |-> {3}]},
     taken   |-> {1, 3},
     sites   |-> <<3, 1, 3, 2>>,
     remarks |-> <<R(2, 1, "einline", FALSE), R(2, 1, "inline", TRUE), R(1, 3, "inline", TRUE),
                   R(2, 3, "inline", FALSE)>>,
     bodies  |-> <<B(2, 1, 1), B(2, 3, 1), B(1, 3, 2)>>,
     decisions |-> IF cg = {} THEN <<>> ELSE <<E(2, 1), E(1, 3), E(2, 3)>>,
     types   |-> IF cg = {} THEN <<>> ELSE <<H(1, "struct"), H(1, "typedef"), H(2, "struct")>>,
     constants |-> IF od = {<<2, 3>>} THEN <<>> ELSE <<H(3, "enum_constant"), H(4, "enum_constant")>>]

SmallCatalogs ==
    {Catalog(x[1], x[2], x[3], x[4], x[5], x[6]) :
        x \in {y \in (Undefineds \cup Statics \cup Strong \cup Both \cup Weaks) \X Mains
                       \X (Undefineds \cup Statics \cup Both \cup Weaks) \X (SUBSET (1..3))
                       \X {{}, {<<2, 1>>, <<2, 3>>, <<1, 3>>}}
                       \X {{<<2, 3>>}, {<<2, 3>>, <<1, 3>>, <<2, 1>>}} :
                 Linkable(y[1], 1 \in y[4]) /\ Linkable(y[3], 3 \in y[4])}}

SmallQuestions ==
    [target : {"app"}, limit : {1, 2, 3}, match : {{1, 2, 3}}]
        \cup [target : {"other", "lib", "nosuch"}, limit : {1}, match : {{1, 3}}]
=============================================================================
