---------------------------- MODULE MCCallInputs ----------------------------
(* Indirect calls of a function that lies at 4..12 of the first of two     *)
(* sections, or at the start of the second: through every parameter of     *)
(* every short list of parameters, and through every place of a table.     *)
EXTENDS Integers, Sequences, TLC

TwoSections == <<12, 8>>

Classes == {"fn", "int", "float", "int128", "pair", "memory"}
ShortParams == UNION {[1..n -> Classes] : n \in 1..3}
\* Eight parameters: the registers run out.
LongParams == {[k \in 1..8 |-> IF k \in F THEN "fn" ELSE IF k = odd THEN c ELSE "int"] :
                  F \in {{6}, {7}, {5, 6, 7}}, odd \in 1..3, c \in {"int", "float", "int128"}}

\* A member: its offset, and the signature it points to if it is such a pointer.
M(name, off, type) == [name |-> name, off |-> off, fn |-> type # "", type |-> type]
Param(k) == [kind |-> "param", k |-> k]
Member(v, m, off) == [kind |-> "member", var |-> v, name |-> m, off |-> off]
Untold == [kind |-> "untold"]

\* Two signatures, with two address-taken functions of one of them.
Binary == "int (int, int)"
Nullary == "void (void)"
ThreeFunctions ==
    {[name |-> "add", signature |-> Binary], [name |-> "sub", signature |-> Binary],
     [name |-> "stop", signature |-> Nullary]}

\* A table, a bare pointer (its one place has the variable's name) and a union.
Ops == "ops" :> <<M("size", 0, ""), M("add", 8, Binary), M("stop", 16, Nullary)>>
          @@ "hook" :> <<M("hook", 0, Nullary)>>
          @@ "any" :> <<M("one", 0, Binary), M("two", 0, Nullary), M("n", 0, "")>>

Rbx == [form |-> "plain", reg |-> 3]
NoTarget == [form |-> "none"]

Base ==
    [section |-> 1, returnPC |-> 8, located |-> FALSE, machine |-> "amd64",
     params |-> <<"int", "fn">>, types |-> [k \in 1..8 |-> IF k % 2 = 0 THEN Binary ELSE Nullary],
     returns |-> "scalar", typed |-> TRUE,
     via |-> Untold, saved |-> NoTarget,
     home |-> "own", symbol |-> <<4, 12>>, alias |-> {}, vars |-> Ops, statics |-> {}]

ParamSites ==
    {[Base EXCEPT !.params = ps, !.via = Param(k), !.machine = m, !.returns = r, !.typed = t] :
        <<ps, k, m, r, t>> \in
            {y \in (ShortParams \cup LongParams) \X (1..8) \X {"amd64", "aarch64"}
                    \X {"scalar", "aggregate", "large"} \X BOOLEAN :
                y[2] \in DOMAIN y[1] /\ y[1][y[2]] = "fn"}}

\* Through a member or a bare pointer, at the end of the function too; the
\* type of "far" is not in this unit.
TableSites ==
    {[Base EXCEPT !.via = v, !.machine = m, !.returnPC = pc, !.located = l, !.statics = s] :
        v \in {Member("ops", "add", 8), Member("ops", "stop", 16), Member("hook", "hook", 0),
               Member("any", "two", 0), Member("far", "x", 8)},
        m \in {"amd64", "aarch64"}, pc \in {8, 12}, l \in BOOLEAN, s \in {{}, {"ops"}}}

\* A pointer that was computed, kept in a saved register or nowhere.
ComputedSites == {[Base EXCEPT !.saved = e] : e \in {Rbx, NoTarget}}

\* A call in a part of the function that lies elsewhere (.text.unlikely), or
\* in a clone that has the function's name and not its symbol.
FarSites ==
    {[Base EXCEPT !.section = 2, !.home = "elsewhere", !.returnPC = pc, !.via = v,
                  !.symbol = s, !.alias = a, !.located = l] :
        pc \in {4, 8}, v \in {Untold, Member("ops", "add", 8)}, s \in {<<>>, <<4, 12>>, <<9, 12>>},
        a \in {{}, {[sym |-> "hook", addend |-> 0 - 4]}, {[sym |-> "far", addend |-> 0]}},
        l \in BOOLEAN}

\* A function that lies in the second section, at its start.
StartupSites ==
    {[Base EXCEPT !.section = 2, !.symbol = <<0, 8>>, !.returnPC = pc, !.via = v, !.located = l] :
        pc \in {4, 8}, v \in {Untold, Member("ops", "add", 8), Param(2)}, l \in BOOLEAN}

MCSites == StartupSites \cup ParamSites \cup TableSites \cup ComputedSites \cup FarSites
=============================================================================
