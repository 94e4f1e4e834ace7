--------------------------- MODULE CompilerPlane ---------------------------
(***************************************************************************)
(* ingest.Compiler (internal/ingest/ingest.go): fold the compiler dumps of *)
(* every translation unit into one symbol table, prune the rows nothing    *)
(* will point at, then write symbols, call edges, inline decisions, inline *)
(* records and ICF groups.                                                 *)
(*                                                                         *)
(* The pass is sequential; what is hard is that four later loops must      *)
(* resolve names exactly as the prune predicted, and that the table must   *)
(* not depend on the order in which units are read.  A USR is the triple   *)
(* it encodes.  Node identifiers are the strings of the dump, in the order *)
(* sort.Strings gives them.                                                *)
(***************************************************************************)
EXTENDS Naturals, Sequences

CONSTANTS
    Ids,      \* local ids, in the order of sort.Strings
    Inputs    \* the builds to ingest: sequences of translation units

(***************************************************************************)
(* A unit is [source, nodes, records, groups]: its .ci title, its cgraph   *)
(* (a function from some ids to nodes), its optimization record's inline   *)
(* decisions and its .icf groups.  A node is                               *)
(*   [name, asm, kind, vis, addr, body, loc, cloneOf, calls]:              *)
(* vis is "public", "weak" or "static"; body is Analyzed && !BodyRemoved;  *)
(* loc is the .ci node's <<file, line>>, or <<>>; cloneOf is an id or "";  *)
(* calls is the sequence of [target, inlined].                             *)
(***************************************************************************)
VARIABLES
    tus,       \* the parsed units, in builddir order
    pc,        \* which loop of Compiler runs
    at,        \* the unit it is at
    left,      \* ids of that unit that aggregateSymbols has yet to visit
    symbols,   \* symbols: USR -> record, then the rows of the symbols table
    resolves,  \* resolves[k]: local id -> USR
    edges,     \* call_edges
    inlineOf,  \* seen.inlineFlag, then inline_decisions
    records,   \* inline_records, without their detail columns
    groups     \* icf_groups with their members

vars == <<tus, pc, at, left, symbols, resolves, edges, inlineOf, records, groups>>

Linkages == {"internal", "weak", "external"}

\* The nodes of unit k, if there is one.
NodesOf(k) == IF k \in DOMAIN tus THEN DOMAIN tus[k].nodes ELSE {}

Init ==
    /\ tus \in Inputs
    /\ pc = "aggregate" /\ at = 1 /\ left = NodesOf(1)
    /\ symbols = <<>> /\ resolves = [k \in DOMAIN tus |-> <<>>]
    /\ edges = {} /\ inlineOf = <<>> /\ records = {} /\ groups = {}

-----------------------------------------------------------------------------
(* recordFor and mergeSymbol.                                              *)

Linkage(node) == CASE node.vis = "weak"   -> "weak"
                   [] node.vis = "public" -> "external"
                   [] OTHER               -> "internal"

\* usr.Function and usr.Variable: only internal symbols carry the unit's path.
USR(tu, node) ==
    <<IF Linkage(node) = "internal" THEN tu.source ELSE "", node.kind, node.name>>

Def(tu, node) ==
    [file |-> IF node.loc = <<>> THEN tu.source ELSE node.loc[1],
     line |-> IF node.loc = <<>> THEN 0 ELSE node.loc[2],
     link |-> node.asm,
     weak |-> node.vis = "weak"]

RecordFor(tu, node) ==
    [linkage |-> Linkage(node),
     addr    |-> node.addr,
     names   |-> {node.asm, node.name},
     defs    |-> IF node.body THEN {Def(tu, node)} ELSE {}]

Rank == [external |-> 3, weak |-> 2, internal |-> 1]

\* Mutant of StrongerLinkage: the comparison is the wrong way round.
WeakerLinkage(a, b) == IF Rank[a] >= Rank[b] THEN b ELSE a

StrongerLinkage(a, b) == IF Rank[a] >= Rank[b] THEN a ELSE b

HasDef(defs, d) ==
    \E e \in defs : e.file = d.file /\ e.line = d.line /\ e.link = d.link

\* mergeSymbol's rule per field, for a USR already seen.
Fold(rec, obs) ==
    [linkage |-> StrongerLinkage(rec.linkage, obs.linkage),
     addr    |-> rec.addr \/ obs.addr,
     names   |-> rec.names \cup obs.names,
     defs    |-> rec.defs \cup {d \in obs.defs : ~HasDef(rec.defs, d)}]

\* f with x mapped to v.
With(f, x, v) == [y \in DOMAIN f \cup {x} |-> IF y = x THEN v ELSE f[y]]

MergeSymbol(syms, usr, obs) ==
    With(syms, usr, IF usr \in DOMAIN syms THEN Fold(syms[usr], obs) ELSE obs)

-----------------------------------------------------------------------------
(* aggregateSymbols: non-clones first, then clones, each in id order.      *)

Position(id) == CHOOSE i \in DOMAIN Ids : Ids[i] = id

IsClone(k, id) == tus[k].nodes[id].cloneOf # ""

NoLater(i, j) ==
    \/ ~IsClone(at, i) /\ IsClone(at, j)
    \/ IsClone(at, i) = IsClone(at, j) /\ Position(i) <= Position(j)

IsNext(id) == \A j \in left : NoLater(id, j)

\* The node becomes, or is merged into, the row of its own USR.
Observe(id) ==
    LET node == tus[at].nodes[id]
        usr  == USR(tus[at], node)
    IN  /\ symbols' = MergeSymbol(symbols, usr, RecordFor(tus[at], node))
        /\ resolves' = [resolves EXCEPT ![at] = With(@, id, usr)]

AddSymbol ==
    /\ pc = "aggregate"
    /\ \E id \in left :
          IsNext(id) /\ ~IsClone(at, id) /\ Observe(id) /\ left' = left \ {id}
    /\ UNCHANGED <<tus, pc, at, edges, inlineOf, records, groups>>

Parent(id) == tus[at].nodes[id].cloneOf

\* A clone whose parent has no USR yet gets one synthesized for the parent.
SynthesizeParent ==
    /\ pc = "aggregate"
    /\ \E id \in left :
          /\ IsNext(id) /\ IsClone(at, id)
          /\ Parent(id) \notin DOMAIN resolves[at] /\ Parent(id) \in NodesOf(at)
          /\ Observe(Parent(id))
    /\ UNCHANGED <<tus, pc, at, left, edges, inlineOf, records, groups>>

\* What a clone adds to the row of its parent.
Attributed(rec, node) ==
    [linkage |-> rec.linkage,
     addr    |-> rec.addr \/ node.addr,
     names   |-> rec.names \cup {node.name, node.asm},
     defs    |-> rec.defs]

AddClone ==
    /\ pc = "aggregate"
    /\ \E id \in left :
          /\ IsNext(id) /\ IsClone(at, id) /\ Parent(id) \in DOMAIN resolves[at]
          /\ LET usr == resolves[at][Parent(id)]
             IN  /\ symbols' = With(symbols, usr, Attributed(symbols[usr], tus[at].nodes[id]))
                 /\ resolves' = [resolves EXCEPT ![at] = With(@, id, usr)]
          /\ left' = left \ {id}
    /\ UNCHANGED <<tus, pc, at, edges, inlineOf, records, groups>>

\* A clone of a function that is not in the dump.
SkipClone ==
    /\ pc = "aggregate"
    /\ \E id \in left :
          /\ IsNext(id) /\ IsClone(at, id)
          /\ Parent(id) \notin DOMAIN resolves[at] \cup NodesOf(at)
          /\ left' = left \ {id}
    /\ UNCHANGED <<tus, pc, at, symbols, resolves, edges, inlineOf, records, groups>>

NextUnit ==
    /\ pc = "aggregate" /\ at <= Len(tus) /\ left = {}
    /\ at' = at + 1 /\ left' = NodesOf(at + 1)
    /\ UNCHANGED <<tus, pc, symbols, resolves, edges, inlineOf, records, groups>>

-----------------------------------------------------------------------------
(* referencedUSRs and pruneUnreferenced.                                   *)

Resolved(k, id) == id \in DOMAIN resolves[k]

\* buildNameToUSR: of the ids that share a name, the first that resolves.
NameToUSR(k) ==
    LET ids == {id \in NodesOf(k) : Resolved(k, id)}
        named(name) == {id \in ids : tus[k].nodes[id].name = name}
        first(name) == CHOOSE i \in named(name) : \A j \in named(name) : Position(i) <= Position(j)
    IN  [name \in {tus[k].nodes[id].name : id \in ids} |-> resolves[k][first(name)]]

\* The USRs a group would be written with; fewer than two writes nothing.
GroupUSRs(k, g) ==
    LET n2u == NameToUSR(k)
        usrs == {n2u[l] : l \in g.losers \cap DOMAIN n2u} \ {n2u[g.winner]}
    IN  IF g.winner \notin DOMAIN n2u THEN {}
        ELSE IF usrs = {} THEN {} ELSE usrs \cup {n2u[g.winner]}

CallPairs(k) ==
    UNION {{<<id, j>> : j \in DOMAIN tus[k].nodes[id].calls} : id \in DOMAIN tus[k].nodes}

EdgeUSRs(k) ==
    UNION {LET c == tus[k].nodes[p[1]].calls[p[2]]
           IN  IF Resolved(k, p[1]) /\ Resolved(k, c.target)
               THEN {resolves[k][p[1]], resolves[k][c.target]} ELSE {} :
           p \in CallPairs(k)}

RecordUSRs(k) ==
    UNION {IF Resolved(k, r.caller) /\ Resolved(k, r.callee)
           THEN {resolves[k][r.caller], resolves[k][r.callee]} ELSE {} :
           r \in tus[k].records}

\* Mutant of ReferencedUSRs: the caller's end of an edge is forgotten.
CalleesOnly ==
    UNION {UNION {LET c == tus[k].nodes[p[1]].calls[p[2]]
                  IN  IF Resolved(k, c.target) THEN {resolves[k][c.target]} ELSE {} :
                  p \in CallPairs(k)} \cup RecordUSRs(k) : k \in DOMAIN tus}

ReferencedUSRs ==
    UNION {EdgeUSRs(k) \cup RecordUSRs(k)
              \cup UNION {GroupUSRs(k, g) : g \in tus[k].groups} : k \in DOMAIN tus}

\* Keep a row with a definition, an address taken, external linkage, or a
\* reference from one of the other planes.
PruneUnreferenced ==
    /\ pc = "aggregate" /\ at > Len(tus)
    /\ LET kept == {u \in DOMAIN symbols :
                       \/ symbols[u].defs # {} \/ symbols[u].addr
                       \/ symbols[u].linkage # "internal"
                       \/ u \in ReferencedUSRs}
       IN  symbols' = [u \in kept |-> symbols[u]]
    /\ pc' = "edges" /\ at' = 1
    /\ UNCHANGED <<tus, left, resolves, edges, inlineOf, records, groups>>

-----------------------------------------------------------------------------
(* insertEdges, insertInlineRecords, insertICFGroups; idByUSR is DOMAIN    *)
(* symbols.                                                                *)

HasRow(k, id) == Resolved(k, id) /\ resolves[k][id] \in DOMAIN symbols

\* The decision recorded of edge e, once a unit's calls are folded in.
Inlined(old, e, calls) ==
    \/ e \in DOMAIN old /\ old[e]
    \/ \E c \in calls : c.edge = e /\ c.inlined

InsertEdges ==
    /\ pc = "edges" /\ at <= Len(tus)
    /\ LET call(p) == tus[at].nodes[p[1]].calls[p[2]]
           calls == {[edge |-> <<resolves[at][p[1]], resolves[at][call(p).target]>>,
                      inlined |-> call(p).inlined] :
                     p \in {q \in CallPairs(at) :
                               HasRow(at, q[1]) /\ HasRow(at, call(q).target)}}
           pairs == {c.edge : c \in calls}
       IN  /\ edges' = edges \cup pairs
           /\ inlineOf' = [e \in DOMAIN inlineOf \cup pairs |->
                              Inlined(inlineOf, e, calls)]
    /\ at' = at + 1
    /\ UNCHANGED <<tus, left, pc, symbols, resolves, records, groups>>

InsertInlineRecords ==
    /\ pc = "edges" /\ at > Len(tus)
    /\ records' = UNION {{<<k, resolves[k][r.caller], resolves[k][r.callee]>> :
                          r \in {q \in tus[k].records :
                                    HasRow(k, q.caller) /\ HasRow(k, q.callee)}} :
                         k \in DOMAIN tus}
    /\ pc' = "icf"
    /\ UNCHANGED <<tus, left, at, symbols, resolves, edges, inlineOf, groups>>

\* buildNameToSymbolID drops the names whose USR has no row.
NameToSymbolID(k) ==
    LET n2u == NameToUSR(k)
    IN  [n \in {m \in DOMAIN n2u : n2u[m] \in DOMAIN symbols} |-> n2u[n]]

\* loserIDs, by loser name: the resolved losers that are not the winner's row.
LosersOf(n2id, g) ==
    [l \in {m \in g.losers \cap DOMAIN n2id : n2id[m] # n2id[g.winner]} |-> n2id[l]]

\* The groups of unit k that get a row.
WritableGroups(k) ==
    LET n2id == NameToSymbolID(k)
    IN  {[unit |-> k, names |-> g, winner |-> n2id[g.winner], losers |-> LosersOf(n2id, g)] :
         g \in {h \in tus[k].groups : h.winner \in DOMAIN n2id /\ LosersOf(n2id, h) # <<>>}}

\* icf_group_members' primary key refuses a second loser of the same row.
Duplicates(g) ==
    \E l, m \in DOMAIN g.losers : l # m /\ g.losers[l] = g.losers[m]

InsertICFGroups ==
    /\ pc = "icf"
    /\ LET all == UNION {WritableGroups(k) : k \in DOMAIN tus}
       IN  /\ \A g \in all : ~Duplicates(g)
           /\ groups' = all
    /\ pc' = "done"
    /\ UNCHANGED <<tus, left, at, symbols, resolves, edges, inlineOf, records>>

\* The failed insert returns, and the deferred Rollback undoes the whole pass.
Rollback ==
    /\ pc = "icf"
    /\ \E k \in DOMAIN tus : \E g \in WritableGroups(k) : Duplicates(g)
    /\ symbols' = <<>> /\ edges' = {} /\ inlineOf' = <<>> /\ records' = {}
    /\ pc' = "failed"
    /\ UNCHANGED <<tus, left, at, resolves, groups>>

Done == pc \in {"done", "failed"} /\ UNCHANGED vars

Next ==
    \/ AddSymbol \/ SynthesizeParent \/ AddClone \/ SkipClone \/ NextUnit
    \/ PruneUnreferenced \/ InsertEdges
    \/ InsertInlineRecords \/ InsertICFGroups \/ Rollback \/ Done

Spec == Init /\ [][Next]_vars

-----------------------------------------------------------------------------
(* Properties.                                                             *)

\* The winner and all the losers of an ICF group are known.
AllResolve(k, g) == {g.winner} \cup g.losers \subseteq DOMAIN NameToUSR(k)

\* The prune loses nothing that a later loop wants to write: each call, inline
\* record and ICF group whose names resolve ends in a row, although it is
\* decided before any row exists (ingest.go 763-829 mirrors 177-294, 696-749).
\* Whether a group one of whose losers does not resolve is written without it,
\* as the loop at 265-274 does, or dropped, as 232-234 says, is left open.
NothingLost ==
    \A k \in DOMAIN tus :
        /\ \A p \in CallPairs(k) :
              LET t == tus[k].nodes[p[1]].calls[p[2]].target IN
              Resolved(k, p[1]) /\ Resolved(k, t) =>
                  <<resolves[k][p[1]], resolves[k][t]>> \in edges
        /\ \A r \in tus[k].records :
              Resolved(k, r.caller) /\ Resolved(k, r.callee) =>
                  <<k, resolves[k][r.caller], resolves[k][r.callee]>> \in records
        /\ \A g \in tus[k].groups : AllResolve(k, g) /\ GroupUSRs(k, g) # {} =>
              \E h \in groups : /\ h.unit = k
                                /\ GroupUSRs(k, g) = {h.winner} \cup {h.losers[l] : l \in DOMAIN h.losers}

\* And it loses all of the noise: a surviving internal row without definition
\* or address taken is pointed at by a row that was really written.
NoDeadRows ==
    \A u \in DOMAIN symbols :
        \/ symbols[u].defs # {} \/ symbols[u].addr \/ symbols[u].linkage # "internal"
        \/ \E e \in edges : u \in {e[1], e[2]}
        \/ \E r \in records : u \in {r[2], r[3]}
        \/ \E g \in groups : u \in {g.winner} \cup {g.losers[l] : l \in DOMAIN g.losers}

Observations(u) ==
    UNION {{RecordFor(tus[k], tus[k].nodes[id]) :
            id \in {i \in DOMAIN tus[k].nodes :
                       tus[k].nodes[i].cloneOf = "" /\ USR(tus[k], tus[k].nodes[i]) = u}} :
           k \in DOMAIN tus}

CloneTakesAddress(u) ==
    \E k \in DOMAIN tus : \E id \in DOMAIN tus[k].nodes :
        /\ tus[k].nodes[id].cloneOf # "" /\ tus[k].nodes[id].addr
        /\ Resolved(k, id) /\ resolves[k][id] = u

Key(d) == <<d.file, d.line, d.link>>

\* u is what a clone would be called if it were a symbol of its own, as it is when
\* its own clones are visited first.
CloneNamed(u) ==
    \E k \in DOMAIN tus : \E id \in DOMAIN tus[k].nodes :
        IsClone(k, id) /\ u = USR(tus[k], tus[k].nodes[id])

\* Each row of a function or variable carries the strongest linkage seen, an
\* address taken anywhere, and one definition per (file, line, linkage name)
\* observed.
RowsAreMerged ==
    \A u \in {v \in DOMAIN symbols : ~CloneNamed(v)} :
        LET obs == Observations(u) IN
        /\ \A o \in obs : Rank[symbols[u].linkage] >= Rank[o.linkage]
        /\ \E o \in obs : symbols[u].linkage = o.linkage
        /\ symbols[u].addr <=> CloneTakesAddress(u) \/ \E o \in obs : o.addr
        /\ {Key(d) : d \in symbols[u].defs} = UNION {{Key(d) : d \in o.defs} : o \in obs}

\* inline_decisions has one row per edge, set when any unit inlined the call.
InlineIsAny ==
    \A e \in edges : inlineOf[e] <=>
        \E k \in DOMAIN tus : \E p \in CallPairs(k) :
            LET c == tus[k].nodes[p[1]].calls[p[2]] IN
            /\ c.inlined /\ Resolved(k, p[1]) /\ Resolved(k, c.target)
            /\ e = <<resolves[k][p[1]], resolves[k][c.target]>>

\* The prune, decided before any row is written, is exact: it keeps every row a
\* later loop points at and no other, and edges only join rows that were kept.
PruneIsExact ==
    pc = "done" =>
        /\ NothingLost /\ NoDeadRows
        /\ edges \subseteq (DOMAIN symbols) \X (DOMAIN symbols)

\* What is stored of a symbol or a call does not depend on the order in which
\* the units are read (mergeSymbol, collapseEdges).
OrderIndependent == pc = "done" => RowsAreMerged /\ InlineIsAny
=============================================================================
