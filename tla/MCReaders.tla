----------------------------- MODULE MCReaders -----------------------------
(* Inputs for TLC: what the other programs may have written.               *)
EXTENDS Readers, SequencesExt

(* NinjaDeps: whatever ninja may write, and a few damaged files: a wrong   *)
(* checksum, unregistered ids, a malformed size, an impossible size.       *)
P(n, id) == [kind |-> "path", name |-> n, id |-> id]
D(out, ins, ok) == [kind |-> "deps", out |-> out, ins |-> ins, ok |-> ok]

DamagedLogs ==
    {<<P("a.o", 1)>>,
     <<P("a.o", 0), D(1, <<0>>, TRUE), D(0, <<1, 0>>, TRUE), P("x.h", 1)>>,
     <<P("a.o", 0), D(0, <<>>, FALSE), P("x.h", 1)>>,
     <<P("a.o", 0), [kind |-> "torn"], P("x.h", 1)>>}

(* MapFile: three contributions of plain and of archived objects.  One     *)
(* without a symbol is a static's section or a discarded one.              *)
Contrib(o, m, s, syms) == [obj |-> o, member |-> m, split |-> s, syms |-> syms]

Gap == [gap |-> TRUE]

Plain == {Contrib(o, FALSE, s, syms) :
             o \in {"a.o", "b.o"}, s \in BOOLEAN, syms \in {<<>>, <<"f">>, <<"g">>, <<"f", "g">>}}

Member == {Contrib("m.o", TRUE, s, syms) : s \in BOOLEAN, syms \in {<<>>, <<"h">>}}

(* A load list of two: an entry the expressions read, members of an        *)
(* archive, one that is left pending, and one printed on a single line.    *)
Pull(o, m, s, bym) ==
    [obj |-> o, member |-> m, short |-> s, by |-> "a.o", byMember |-> bym, sym |-> "f"]

Pulled == {Pull("b.o", m, FALSE, bym) : m, bym \in BOOLEAN} \cup {Pull("b.o", FALSE, TRUE, FALSE)}

LoadLists == {<<>>} \cup {<<p, [q EXCEPT !.obj = "c.o", !.sym = "g"]>> : p, q \in Pulled}

SymsOf(c) == IF "gap" \in DOMAIN c THEN {} ELSE ToSet(c.syms)

\* A global symbol has one definition in a linked binary.
Distinct(cs) ==
    \A j, k \in DOMAIN cs : j # k => SymsOf(cs[j]) \cap SymsOf(cs[k]) = {}

ThreeOf(S) == {cs \in {<<c, d, e>> : c, d, e \in S} : Distinct(cs)}

LinkMaps ==
    {[load |-> <<>>, contribs |-> cs] : cs \in ThreeOf(Plain \cup Member \cup {Gap})}
    \cup {[load |-> <<Pull("b.o", FALSE, FALSE, FALSE)>>, contribs |-> cs] :
             cs \in ThreeOf(Plain \cup Member \cup {Gap})}
    \cup {[load |-> l, contribs |-> <<Contrib("a.o", FALSE, FALSE, <<"f">>)>>] : l \in LoadLists}

(* Cgraph: two symbols; lists of one call, tagged or not, and of two.      *)
TwoIds == {1, 2}
Direct == [to |-> 2, inlined |-> FALSE]
Inlined == [to |-> 2, inlined |-> TRUE]
ShortLists == {<<Direct>>, <<Inlined>>, <<Direct, Direct>>}

(* CallSites: the calls of MCCallInputs.                                   *)
Given == INSTANCE MCCallInputs
IndirectCalls == Given!MCSites
TwoSections == Given!TwoSections
ThreeFunctions == Given!ThreeFunctions
============================================================================
