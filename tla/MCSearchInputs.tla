--------------------------- MODULE MCSearchInputs ---------------------------
(* Up to four files over three tables and two directories; path 2 may name *)
(* a project file, generated in the tree or not, and one of the build tree.*)
EXTENDS Naturals, Sequences

F(p, d, hits, ext, gen, readable) ==
    [path |-> p, dir |-> d, hits |-> hits, ext |-> ext, generated |-> gen,
     readable |-> readable]

Hits == {<<>>, <<1>>, <<1, 1>>, <<1, 2, 2>>}

SmallIndexes ==
    {[sources |-> {F(1, 1, a, "source", FALSE, TRUE), F(2, 1, b, "header", gen, ok)},
      generated |-> {F(g, 1, c, "other", FALSE, TRUE)},
      external |-> {F(4, 2, d, "header", FALSE, TRUE)},
      targetFiles |-> t] :
        a \in Hits, b \in Hits, gen \in BOOLEAN, ok \in BOOLEAN, g \in {2, 3},
        c \in {<<>>, <<1, 2>>}, d \in {<<>>, <<1>>}, t \in {{}, {1, 2}}}

SmallSearches ==
    [target : BOOLEAN, external : BOOLEAN, kind : {"any", "generated", "header", "source"},
     prefix : {{1, 2, 3, 4}, {2, 3}}, limit : {1, 2, 4}]
=============================================================================
