----------------------------- MODULE DwarfPlane -----------------------------
(***************************************************************************)
(* The DWARF pass (internal/ingest/dwarf.go): object by object, in sorted  *)
(* order, inside one transaction, enrich the rows the Compiler pass wrote. *)
(* A symbol is <<name, 0>> when external and <<name, o>> when static in    *)
(* the translation unit of object o.  What a row was filled with is the    *)
(* object whose DWARF filled it, so that facts can be traced.              *)
(***************************************************************************)
EXTENDS Naturals, Sequences, FiniteSets, SequencesExt

CONSTANTS Objects, Names, Builds
    \* objects, in the order of their paths; function names; builds, each with
    \* what every object's DWARF says of every name and of one struct

ASSUME DwarfPlaneAssumption ==
    /\ Objects \subseteq Nat \ {0} /\ IsFiniteSet(Objects)
    /\ \A b \in Builds :
          /\ b.die \in [Objects -> [Names ->
                 [scope : {"external", "static"},
                  kind : {"absent", "declared", "body", "inlined", "both"}]]]
          /\ \A o \in Objects : \A l, m \in b.layout[o] : l = m /\ l.inProject \in BOOLEAN

VARIABLES
    die,      \* die[o][n]: the subprogram entry for n in object o
    layout,   \* layout[o]: the struct as object o saw it, none or one:
              \* its members, and whether its header is in the project
    ids,      \* idByUSR: symbols the Compiler pass kept
    todo,     \* objects not walked yet
    pc, obj,  \* step within the object, and the object
    tables,   \* what the transaction has written
    saved     \* what is in the database

vars == <<die, layout, ids, todo, pc, obj, tables, saved>>
build == <<die, layout, ids>>

\* The kinds: "inlined" has only an abstract instance root, "both" also kept
\* a body of its own.
Abstract == {"inlined", "both"}
Bodies == {"body", "both"}
Defines(d) == d.kind \in Abstract \cup Bodies
Owner(o, n) == <<n, IF die[o][n].scope = "external" THEN 0 ELSE o>>
Symbols == Names \X (Objects \cup {0})
Unset == 0

\* Rows of symbol_definitions after the Compiler pass: .ci has a node for
\* what reached the assembler; the others carry the TU and line 0.
Anchored(o, n) == die[o][n].kind \in Bodies
CompilerDefs ==
    UNION {{[sym |-> Owner(o, n), in |-> o, line0 |-> ~Anchored(o, n), at |-> Unset, decl |-> Unset] :
               n \in {m \in Names : Defines(die[o][m]) /\ Owner(o, m) \in ids}} : o \in Objects}

\* signature, symbol_definitions, indirect_call_sites, inline_instances,
\* types with type_fields and enum_constants, symbols_fts.
CompilerTables ==
    [sig |-> [s \in Symbols |-> Unset], defs |-> CompilerDefs,
     indirect |-> {}, inline |-> {}, types |-> {}, fields |-> {},
     fts |-> [s \in Symbols |-> Unset]]

Init ==
    /\ \E b \in Builds : die = b.die /\ layout = b.layout
    /\ ids \in {S \in SUBSET {Owner(o, n) : o \in Objects, n \in Names} :
                  \A o \in Objects, n \in Names :
                      die[o][n].scope = "external" /\ Defines(die[o][n]) => <<n, 0>> \in S}
    /\ todo = Objects /\ pc = "next" /\ obj = 0
    /\ tables = CompilerTables /\ saved = CompilerTables

\* Mutant of Resolve: a static is looked for in every translation unit.
ResolveAnyStatic(n, o) ==
    IF <<n, 0>> \in ids THEN {<<n, 0>>} ELSE {s \in ids : s[1] = n}

\* resolveSymbolID: the external form first, then this unit's static.
Resolve(n, o) ==
    IF <<n, 0>> \in ids THEN {<<n, 0>>} ELSE {<<n, o>>} \cap ids

NextObject == CHOOSE o \in todo : \A p \in todo : o <= p

\* dwarfingest.Read succeeds.
ReadObject ==
    /\ pc = "next" /\ todo # {}
    /\ obj' = NextObject /\ todo' = todo \ {NextObject}
    /\ pc' = "subprograms"
    /\ UNCHANGED <<build, tables, saved>>

\* Mutant of ReadFails: the deferred Rollback is missing.
ReadFailsNoRollback ==
    /\ pc = "next" /\ todo # {}
    /\ pc' = "failed" /\ saved' = tables
    /\ UNCHANGED <<build, todo, obj, tables>>

ReadFails ==
    /\ pc = "next" /\ todo # {}
    /\ pc' = "failed" /\ tables' = saved
    /\ UNCHANGED <<build, todo, obj, saved>>

\* What this object's names with an entry of one of these kinds resolve to.
Hits(kinds) == UNION {Resolve(n, obj) : n \in {n \in Names : die[obj][n].kind \in kinds}}

\* Mutant of MayRelocate: rows .ci anchored are moved too.
MayRelocateAny(row) == TRUE

\* WHERE line = 0.
MayRelocate(row) == row.line0

\* What the loop makes of a definition: its place, while it has none, and its prototype.
Update(row) ==
    [sym |-> row.sym, in |-> row.in,
     line0 |-> row.line0 /\ row.sym \notin Hits(Abstract),
     at |-> IF row.sym \in Hits(Abstract) /\ MayRelocate(row) THEN obj ELSE row.at,
     decl |-> IF row.sym \in Hits({"declared"}) /\ row.decl = Unset THEN obj ELSE row.decl]

\* The loop over info.Subprograms: signatures, locations, prototypes.
Subprograms ==
    /\ pc = "subprograms" /\ pc' = "callsites"
    /\ tables' = [tables EXCEPT
           !.sig = [s \in Symbols |-> IF s \in Hits(Abstract \cup Bodies) THEN obj ELSE @[s]],
           !.defs = {Update(row) : row \in @}]
    /\ UNCHANGED <<build, todo, obj, saved>>

\* Every body of this model's objects makes one indirect call.
CallSites ==
    /\ pc = "callsites" /\ pc' = "inlines"
    /\ tables' = [tables EXCEPT !.indirect = @ \cup
           {[caller |-> s, in |-> obj] : s \in Hits(Bodies)}]
    /\ UNCHANGED <<build, todo, obj, saved>>

\* Every body holds a copy of every other function that has an abstract root.
InlineInstances ==
    /\ pc = "inlines" /\ pc' = "types"
    /\ tables' = [tables EXCEPT !.inline = @ \cup
           UNION {[callee : Resolve(p[1], obj), caller : Resolve(p[2], obj),
                   names : {p}, in : {obj}] :
                      p \in {p \in Names \X Names :
                               /\ p[1] # p[2]
                               /\ die[obj][p[1]].kind \in Abstract
                               /\ die[obj][p[2]].kind \in Bodies}}]
    /\ UNCHANGED <<build, todo, obj, saved>>

\* Mutant of Fresh: members are added whether or not the row is new.
FreshAlways == TRUE

\* ON CONFLICT(usr) DO NOTHING inserted the row.
Fresh == tables.types = {}

\* insertType and its callers; a header outside the project is skipped.
Types ==
    /\ pc = "types" /\ pc' = "next"
    /\ LET seen == {l \in layout[obj] : l.inProject} IN
       tables' = [tables EXCEPT
           !.types = IF @ = {} /\ seen # {} THEN {obj} ELSE @,
           !.fields = IF Fresh THEN @ \cup {[member |-> m, in |-> obj] :
                                              m \in UNION {l.members : l \in seen}}
                      ELSE @]
    /\ UNCHANGED <<build, todo, obj, saved>>

\* Rebuild both search indexes and commit.
Commit ==
    /\ pc = "next" /\ todo = {}
    /\ pc' = "done"
    /\ tables' = [tables EXCEPT !.fts = tables.sig]
    /\ saved' = tables'
    /\ UNCHANGED <<build, todo, obj>>

Done == pc \in {"done", "failed"} /\ UNCHANGED vars

Next ==
    \/ ReadObject \/ ReadFails \/ Subprograms \/ CallSites \/ InlineInstances
    \/ Types \/ Commit \/ Done

Spec == Init /\ [][Next]_vars

-----------------------------------------------------------------------------
\* No static shares its name with an external symbol of the project.
NoCollision ==
    \A o \in Objects, n \in Names :
        die[o][n].kind # "absent" /\ die[o][n].scope = "static" => <<n, 0>> \notin ids

\* Object o's DWARF is about symbol s.
Speaks(o, s) == \E n \in Names : die[o][n].kind # "absent" /\ Owner(o, n) = s

\* Where no static shadows an external, what the pass writes on a symbol comes
\* from an object whose own symbol it is, and a copy or an indirect call is
\* filed under functions of that object: a static of one unit never takes the
\* signature, place or calls of its namesake in another.
FactsBelong ==
    NoCollision =>
        /\ \A s \in Symbols : tables.sig[s] # Unset => Speaks(tables.sig[s], s)
        /\ \A row \in tables.defs :
              /\ row.at # Unset => Speaks(row.at, row.sym)
              /\ row.decl # Unset => Speaks(row.decl, row.sym)
        /\ \A r \in tables.indirect : Speaks(r.in, r.caller)
        /\ \A r \in tables.inline : Speaks(r.in, r.callee) /\ Speaks(r.in, r.caller)

\* A row the .ci dump anchored keeps its place, and after the pass no row is
\* left at line 0 that an abstract root could have placed, unless a namesake
\* hides it: a second object or definition of the symbol does not move it.
PlacedOnce ==
    \A row \in tables.defs : \A n \in Names :
        row.sym = Owner(row.in, n) =>
            /\ Anchored(row.in, n) => row.at = Unset
            /\ pc = "done" /\ ~Anchored(row.in, n) /\ NoCollision => row.at # Unset

\* The members stored for a type are those one object saw, the first object
\* that uses it: units that compiled the header differently are not mixed.
TypeFromOneUnit ==
    \A f \in tables.fields :
        /\ tables.types = {f.in}
        /\ \A l \in layout[f.in] : f.member \in l.members
        /\ \A o \in Objects : o < f.in => \A l \in layout[o] : ~l.inProject

\* The pass writes everything or nothing: after an object that cannot be read
\* the database is what the Compiler pass left, and after the commit the search
\* index knows every signature.
AllOrNothing ==
    /\ pc # "done" => saved = CompilerTables
    /\ pc = "done" =>
          /\ saved.fts = saved.sig
          /\ \A o \in Objects, n \in Names :
                Defines(die[o][n]) /\ Owner(o, n) \in ids =>
                    saved.sig[Owner(o, n)] # Unset \/ <<n, 0>> \in ids
=============================================================================
