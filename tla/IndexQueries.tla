---------------------------- MODULE IndexQueries ----------------------------
(***************************************************************************)
(* The query tools of the server that must tell one story about a target:  *)
(* find_symbol and describe_symbol (internal/mcp/symbol_tools.go), the     *)
(* linkage tools (linkage_tools.go), describe_target (target_tools.go) and *)
(* the direct neighbours of a call graph (callgraph_source_tools.go,       *)
(* callgraph_runtime_tools.go), its views of inlining, the lists of        *)
(* indirect_tools.go, and find_type (type_tools.go).                       *)
(*                                                                         *)
(* An agent asks them one after the other about one target of one index.   *)
(* A symbol is its place in the order of names, and its USR.  An index has *)
(*   linkage   symbol -> "external", "internal" or "weak";                 *)
(*   defs      symbol -> its rows of symbol_definitions, as SQLite finds   *)
(*             them, [file, weak];                                         *)
(*   kind      target -> "executable", "shared_library", "static_library"; *)
(*   files     target -> its rows of target_sources;                       *)
(*   linked    target -> the symbols link_resolutions has for it;          *)
(*   cgraph    caller-callee pairs of source compiler_cgraph;              *)
(*   objdump   target -> caller-callee pairs of source objdump;            *)
(*   folded    ICF groups, [winner, losers];                               *)
(*   taken     the functions with address_taken = 1;                       *)
(*   sites     the callers of indirect_call_sites, in the order of places; *)
(*   remarks, bodies, decisions                                            *)
(*             inline_records, inline_instances and inline_decisions, in   *)
(*             the order the queries ask for, each with caller and callee; *)
(*   types, constants                                                      *)
(*             what a query of types and of enumeration constants hits, in *)
(*             order, each with its kind.                                  *)
(***************************************************************************)
EXTENDS Naturals, Sequences, FiniteSets, SequencesExt, Ordered

CONSTANTS
    NameCount,      \* symbols are 1..NameCount
    Main,           \* the symbol called main
    Catalogs,       \* the indexes
    Questions,      \* [target, limit, match], match the names a query hits
    FindLimit,      \* findSymbolLimit
    NeighborLimit   \* callGraphNeighborLimit

VARIABLES
    cat,      \* the index
    q,        \* what is asked
    told      \* the answers so far, in the order of Dialogue

vars == <<cat, q, told>>

Symbols == 1..NameCount
Known == DOMAIN cat.kind

\* The order in which the agent asks.
Dialogue == <<"find_symbol", "describe_symbol", "describe_link_resolution", "list_weak_symbols",
             "list_undefined_symbols", "list_unreachable_symbols", "list_entry_points",
             "list_icf_groups", "describe_target", "list_callers", "list_callees",
             "list_linked_callers", "list_linked_callees",
             "list_indirect_call_sites", "list_address_taken_functions",
             "describe_inlining", "list_inline_instances", "find_type">>
ToolAt(k) == Dialogue[k]

Init == cat \in Catalogs /\ q \in Questions /\ told = <<>>

Refused == [refused |-> TRUE]

Tell(tool, answer) ==
    /\ Len(told) < Len(Dialogue) /\ ToolAt(Len(told) + 1) = tool
    /\ told' = Append(told, answer)
    /\ UNCHANGED <<cat, q>>

\* targetIDByName: most tools refuse a target they do not know.
TellAbout(tool, answer) == Tell(tool, IF q.target \in Known THEN answer ELSE Refused)

\* symbol_reachability, a view of link_resolutions: reachable in the target.
Reachable(t) == IF t \in Known THEN cat.linked[t] ELSE {}
TargetsOf(s) == {t \in Known : s \in cat.linked[t]}

\* Symbols in the order of their names.
Sorted(S) == Selected(S, [s \in S |-> s])
UpTo(seq, n) == SubSeq(seq, 1, IF Len(seq) < n THEN Len(seq) ELSE n)

\* Mutant of Page: the query itself is limited to the page.
PageWithoutPeek(seq, limit) ==
    LET rows == UpTo(seq, limit)
    IN  [refused |-> FALSE, rows |-> UpTo(rows, limit), truncated |-> Len(rows) > limit]

\* A query with LIMIT limit+1, cut to limit; the row too many is the flag.
Page(seq, limit) ==
    LET rows == UpTo(seq, limit + 1)
    IN  [refused |-> FALSE, rows |-> UpTo(rows, limit), truncated |-> Len(rows) > limit]

-----------------------------------------------------------------------------
(* symbol_tools.go.                                                        *)

\* The target filter is a join: an unknown target just matches nothing.
FindSymbol ==
    Tell("find_symbol", Page(Sorted(q.match \cap Reachable(q.target)), FindLimit))

\* describe_symbol of every symbol: its definitions, and where it is linked.
DescribeSymbol ==
    Tell("describe_symbol",
         [s \in Symbols |-> [linkage |-> cat.linkage[s], defs |-> ToSet(cat.defs[s]),
                             targets |-> TargetsOf(s)]])

-----------------------------------------------------------------------------
(* linkage_tools.go.                                                       *)

\* describe_link_resolution of every symbol: an error without a row.
DescribeLinkResolution ==
    TellAbout("describe_link_resolution",
              [s \in Symbols |-> IF s \in Reachable(q.target)
                                 THEN [refused |-> FALSE, reachable |-> s \in Reachable(q.target)]
                                 ELSE Refused])

WeakDefs(s) == {d \in ToSet(cat.defs[s]) : d.weak}

\* The condition is A OR B AND C: with a target, only the symbols whose
\* linkage is weak are restricted to it.
IsWeak(s, scoped) ==
    \/ WeakDefs(s) # {}
    \/ cat.linkage[s] = "weak" /\ (scoped => s \in Reachable(q.target))

\* list_weak_symbols, without and with the target.
ListWeakSymbols ==
    Tell("list_weak_symbols",
         [scoped \in BOOLEAN |->
             {[sym |-> s, defs |-> WeakDefs(s), resolutions |-> TargetsOf(s)] :
                 s \in {s \in Symbols : IsWeak(s, scoped)}}])

\* Mutant of Undefined: a definition counts only in this target.
UndefinedHere(s) == s \notin Reachable(q.target)

Undefined(s) == cat.defs[s] = <<>>

CallersIn(t, s) == {e[1] : e \in {e \in cat.objdump[t] : e[2] = s}}

ListUndefinedSymbols ==
    TellAbout("list_undefined_symbols",
        {[sym |-> s, calls |-> Cardinality(CallersIn(q.target, s))] :
            s \in {s \in Symbols : Undefined(s) /\ CallersIn(q.target, s) # {}}})

\* Every symbol without a row of link_resolutions, for a linked kind of target.
ListUnreachableSymbols ==
    TellAbout("list_unreachable_symbols",
        Page(IF cat.kind[q.target] \in {"executable", "shared_library"}
             THEN Sorted(Symbols \ cat.linked[q.target]) ELSE <<>>, q.limit))

\* The rows of list_entry_points' query: one for each definition of a symbol, one
\* for a symbol without any, main's first.
DefRows(s) ==
    IF cat.defs[s] = <<>> THEN <<[sym |-> s, file |-> ""]>>
    ELSE [k \in DOMAIN cat.defs[s] |-> [sym |-> s, file |-> cat.defs[s][k].file]]

EntrySymbols(t) == {s \in cat.linked[t] : s = Main \/ cat.linkage[s] = "external"}

MainFirst(S) == (IF Main \in S THEN <<Main>> ELSE <<>>) \o Sorted(S \ {Main})

EntryRows(t) ==
    LET syms == MainFirst(EntrySymbols(t))
    IN  Joined([k \in DOMAIN syms |-> DefRows(syms[k])])

\* The rows that are the first with their symbol, or with their file.
FirstRows(rows, field) ==
    {k \in DOMAIN rows : \A j \in DOMAIN rows : j < k => rows[j][field] # rows[k][field]}

\* Mutant of Distinct: the page is full before it is known whether there is more.
DistinctToLimit(rows, limit) == UpTo(Selected(FirstRows(rows, "sym"), rows), limit)

\* The loop: a symbol is taken with its first row, until one more than the page.
Distinct(rows, limit) == UpTo(Selected(FirstRows(rows, "sym"), rows), limit + 1)

ListEntryPoints ==
    TellAbout("list_entry_points",
        LET out == Distinct(EntryRows(q.target), q.limit)
        IN  [refused |-> FALSE, rows |-> UpTo(out, q.limit), truncated |-> Len(out) > q.limit])

ListICFGroups ==
    TellAbout("list_icf_groups", {g \in cat.folded : g.winner \in cat.linked[q.target]})

-----------------------------------------------------------------------------
(* target_tools.go.                                                        *)

\* targetEntryPoints: one entry for each file that defines main, those of the
\* target's own sources first.
MainFiles ==
    LET rows == DefRows(Main)
        files == [k \in DOMAIN rows |-> rows[k].file]
        firsts == FirstRows(rows, "file")
        own == {k \in firsts : files[k] \in cat.files[q.target]}
    IN  IF Main \notin cat.linked[q.target] THEN <<>>
        ELSE Selected(own, files) \o Selected(firsts \ own, files)

DescribeTarget ==
    TellAbout("describe_target",
        [refused |-> FALSE, linked |-> Cardinality(cat.linked[q.target]),
         reachable |-> Cardinality(Reachable(q.target)), mains |-> MainFiles])

-----------------------------------------------------------------------------
(* callgraph_source_tools.go and callgraph_runtime_tools.go, for every     *)
(* symbol.  The compiler's edges are filtered by the neighbour's target.   *)

ListCallers ==
    Tell("list_callers", [s \in Symbols |->
        Page(Sorted({c \in Reachable(q.target) : <<c, s>> \in cat.cgraph}), NeighborLimit)])

ListCallees ==
    Tell("list_callees", [s \in Symbols |->
        Page(Sorted({c \in Reachable(q.target) : <<s, c>> \in cat.cgraph}), NeighborLimit)])

ListLinkedCallers ==
    TellAbout("list_linked_callers", [s \in Symbols |-> CallersIn(q.target, s)])

ListLinkedCallees ==
    TellAbout("list_linked_callees",
        [s \in Symbols |-> {e[2] : e \in {e \in cat.objdump[q.target] : e[1] = s}}])

-----------------------------------------------------------------------------
(* indirect_tools.go, with the target; here too one that is unknown just   *)
(* matches nothing.                                                        *)

ListIndirectCallSites ==
    Tell("list_indirect_call_sites",
         Page(Selected({k \in DOMAIN cat.sites : cat.sites[k] \in Reachable(q.target)}, cat.sites),
              q.limit))

ListAddressTakenFunctions ==
    Tell("list_address_taken_functions",
         {[sym |-> s, targets |-> TargetsOf(s)] : s \in cat.taken \cap Reachable(q.target)})

-----------------------------------------------------------------------------
(* The views of inlining of callgraph_runtime_tools.go: the rows of one    *)
(* caller, and the rows of one callee.                                     *)

RowsOf(table, role, s) == Selected({k \in DOMAIN table : table[k][role] = s}, table)

\* inliningSummary: counted over all rows, by groups.
Summary(role, s) ==
    LET records == RowsOf(cat.remarks, role, s)
        instances == RowsOf(cat.bodies, role, s)
    IN  [records |-> Len(records), instances |-> Len(instances),
         inlined |-> Len(RowsOf(records, "inlined", TRUE)),
         declined |-> Len(RowsOf(records, "inlined", FALSE)),
         byPass |-> [p \in {r.pass : r \in ToSet(records)} |-> Len(RowsOf(records, "pass", p))],
         byDepth |-> [d \in {r.depth : r \in ToSet(instances)} |->
                         Len(RowsOf(instances, "depth", d))],
         edges |-> Len(RowsOf(cat.decisions, role, s))]

\* Every array has its own limit, and the flag is about any of them.
InliningOf(role, s) ==
    LET records == Page(RowsOf(cat.remarks, role, s), q.limit)
        instances == Page(RowsOf(cat.bodies, role, s), q.limit)
    IN  [summary |-> Summary(role, s), records |-> records.rows, instances |-> instances.rows,
         truncated |-> records.truncated \/ instances.truncated]

DescribeInlining ==
    Tell("describe_inlining", [s \in Symbols |->
        LET edges == Page(RowsOf(cat.decisions, "caller", s), q.limit)
            rest == InliningOf("caller", s)
        IN  [rest |-> rest, edges |-> edges.rows,
             truncated |-> rest.truncated \/ edges.truncated]])

ListInlineInstances ==
    Tell("list_inline_instances", [s \in Symbols |-> InliningOf("callee", s)])

-----------------------------------------------------------------------------
(* type_tools.go.                                                          *)
Kinds == {"", "struct", "enum_constant"}

\* Two queries, each with one row more than the page, and the page over both.
TypeHits(kind, limit) ==
    (IF kind = "enum_constant" THEN <<>>
     ELSE UpTo(Selected({k \in DOMAIN cat.types : kind \in {"", cat.types[k].kind}}, cat.types), limit + 1))
    \o (IF kind \in {"", "enum_constant"} THEN UpTo(cat.constants, limit + 1) ELSE <<>>)

FindType ==
    Tell("find_type", [kind \in Kinds |->
        LET hits == TypeHits(kind, q.limit)
        IN  [rows |-> UpTo(hits, q.limit), truncated |-> Len(hits) > q.limit]])

Done == Len(told) = Len(Dialogue) /\ UNCHANGED vars

Next ==
    \/ FindSymbol \/ DescribeSymbol \/ DescribeLinkResolution
    \/ ListWeakSymbols \/ ListUndefinedSymbols \/ ListUnreachableSymbols
    \/ ListEntryPoints \/ ListICFGroups \/ DescribeTarget
    \/ ListCallers \/ ListCallees \/ ListLinkedCallers \/ ListLinkedCallees
    \/ ListIndirectCallSites \/ ListAddressTakenFunctions
    \/ DescribeInlining \/ ListInlineInstances \/ FindType
    \/ Done

Spec == Init /\ [][Next]_vars

-----------------------------------------------------------------------------
Told(tool) == told[CHOOSE k \in DOMAIN Dialogue : ToolAt(k) = tool]
InPage(page) == ToSet(page.rows)

\* A page is the first of what there is, and says whether there is more.
PageOf(page, S, limit) ==
    /\ InPage(page) \subseteq S /\ Len(page.rows) = Cardinality(InPage(page))
    /\ Len(page.rows) = IF Cardinality(S) < limit THEN Cardinality(S) ELSE limit
    /\ \A s \in InPage(page), u \in S \ InPage(page) : s < u
    /\ page.truncated <=> Cardinality(S) > limit

\* The entry points without their locations.
EntryPage ==
    LET page == Told("list_entry_points")
    IN  [page EXCEPT !.rows = [k \in DOMAIN page.rows |-> page.rows[k].sym]]

\* What the arrays of an answer about inlining leave out shows in its summary, and
\* the callers' view and the callees' view are the same rows.
InliningAgrees ==
    LET of == Told("describe_inlining")
        into == Told("list_inline_instances")
        Short(v) == Len(v.records) < v.summary.records \/ Len(v.instances) < v.summary.instances
    IN  /\ \A s \in Symbols :
              /\ of[s].truncated <=> Short(of[s].rest) \/ Len(of[s].edges) < of[s].rest.summary.edges
              /\ into[s].truncated <=> Short(into[s])
              /\ \A v \in {of[s].rest, into[s]} :
                    v.summary.records = v.summary.inlined + v.summary.declined
        /\ \A a, b \in Symbols : ~of[a].truncated /\ ~into[b].truncated =>
              /\ RowsOf(of[a].rest.records, "callee", b) = RowsOf(into[b].records, "caller", a)
              /\ RowsOf(of[a].rest.instances, "callee", b) = RowsOf(into[b].instances, "caller", a)

\* find_type without a kind is what it finds with each, types first, cut to its
\* page, and it says truly whether hits are missing.
TypesAgree ==
    LET whole == cat.types \o cat.constants
        found == Told("find_type")
    IN  /\ found[""].rows = UpTo(whole, q.limit)
        /\ found[""].truncated <=> Len(whole) > q.limit
        /\ \A k \in Kinds \ {""} : ~found[k].truncated =>
              \A h \in ToSet(found[""].rows) : h.kind = k => h \in ToSet(found[k].rows)

\* The tools tell one story of a target they know.  A symbol is in the target by
\* describe_symbol exactly if describe_link_resolution finds it there, and then it
\* is not unreachable; a linked target's defined symbols are either one or the
\* other, and so may those without a definition be: the query of
\* list_unreachable_symbols has them, its description, "Symbols with a definition",
\* has not, and neither is required.
\* Entry points, ICF winners, found symbols, indirect calls and address-taken
\* functions are in the target; undefined symbols have no definition anywhere and
\* as many callers as list_linked_callers names; a symbol is weak if
\* describe_symbol shows a reason; the main shown first is the target's own if it
\* has one; callers and callees mirror each other, inlined ones too; and every
\* page is the first part of its whole, once each, with a truthful flag
\* (linkage_tools.go, symbol_tools.go, target_tools.go, callgraph_*_tools.go,
\* indirect_tools.go, type_tools.go).
AnswersAgree ==
    Len(told) = Len(Dialogue) /\ q.target \in Known =>
        LET about == Told("describe_symbol")
            here == {s \in Symbols : q.target \in about[s].targets}
            rootsWithoutMain == {s \in here : about[s].linkage = "external"} \ {Main}
            hasMain == Main \in here
            linked == cat.kind[q.target] \in {"executable", "shared_library"}
        IN
        /\ InliningAgrees /\ TypesAgree
        /\ \A s \in Symbols :
              /\ Told("describe_link_resolution")[s].refused <=> s \notin here
              /\ (\E w \in Told("list_weak_symbols")[FALSE] : w.sym = s)
                    <=> about[s].linkage = "weak" \/ \E d \in about[s].defs : d.weak
        /\ PageOf(Told("find_symbol"), q.match \cap here, FindLimit)
        /\ \E U \in SUBSET (IF linked THEN Symbols \ here ELSE {}) :
              /\ linked => {s \in Symbols \ here : about[s].defs # {}} \subseteq U
              /\ PageOf(Told("list_unreachable_symbols"), U, q.limit)
        /\ hasMain => /\ Head(EntryPage.rows) = Main
                      /\ EntryPage.truncated <=> Cardinality(rootsWithoutMain) + 1 > q.limit
                      /\ q.limit > 1 => PageOf([EntryPage EXCEPT !.rows = Tail(@)],
                                               rootsWithoutMain, q.limit - 1)
        /\ ~hasMain => PageOf(EntryPage, rootsWithoutMain, q.limit)
        /\ \A u \in Told("list_undefined_symbols") :
              /\ about[u.sym].defs = {}
              /\ u.calls = Cardinality(Told("list_linked_callers")[u.sym])
        /\ \A g \in Told("list_icf_groups") : g.winner \in here
        /\ LET page == Told("list_indirect_call_sites")
               whole == Cardinality({k \in DOMAIN cat.sites : cat.sites[k] \in here})
           IN  /\ InPage(page) \subseteq here
               /\ Len(page.rows) = IF whole < q.limit THEN whole ELSE q.limit
               /\ page.truncated <=> whole > Len(page.rows)
        /\ \A f \in Told("list_address_taken_functions") :
              f.sym \in here /\ f.targets = about[f.sym].targets
        /\ LET t == Told("describe_target") IN
              /\ t.linked = Cardinality(here) /\ t.reachable = t.linked
              /\ hasMain /\ (\E d \in about[Main].defs : d.file \in cat.files[q.target])
                    => Head(t.mains) \in cat.files[q.target]
        /\ \A a, b \in Symbols :
              /\ a \in Told("list_linked_callers")[b] <=> b \in Told("list_linked_callees")[a]
              /\ LET up == Told("list_callers")[b]
                     down == Told("list_callees")[a]
                 IN  ~up.truncated /\ ~down.truncated /\ a \in here /\ b \in here
                        => (a \in InPage(up) <=> b \in InPage(down))

\* list_weak_symbols describes its target argument as "Restrict to weak symbols
\* reachable in this target."
WeakInTarget ==
    Len(told) = Len(Dialogue) =>
        \A w \in Told("list_weak_symbols")[TRUE] : w.sym \in Reachable(q.target)
=============================================================================
