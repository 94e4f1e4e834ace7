----------------------------- MODULE LinkPlane -----------------------------
(***************************************************************************)
(* ingest.Link (internal/ingest/link.go): join what nm, objdump and the    *)
(* linker map say of each linked binary to the symbol rows of the compiler *)
(* plane.                                                                  *)
(*                                                                         *)
(* The binary only has names and addresses; rows have USRs.  The pass must *)
(* get from one to the other through a shared name lookup, the map's       *)
(* symbol origins and a scan of every object on disk, and one transaction  *)
(* covers all the targets.  A row id is its position in the symbols table. *)
(***************************************************************************)
EXTENDS Integers, Sequences, SequencesExt

(***************************************************************************)
(* Inputs is a set of builds [rows, objects, source, archive, targets]:    *)
(*   rows     sequence of [usr, names, hasDef], a USR being                *)
(*            <<path, kind, name>> with path "" for non-internal linkage;  *)
(*   objects  sequence of [object, syms], syms being nm's [name, kind]s;   *)
(*   source   object -> source, Summary.ObjectToSource;                    *)
(*   archive  the objects bundled in an archive, with that archive;        *)
(*   targets  in name order, [name, kind, built, hasMap, origin, syms,     *)
(*            calls]: origin is the map's SymbolOrigin, syms are nm's      *)
(*            [name, kind, addr, from] (from, the object the linker took   *)
(*            the definition from, is not visible to the code) and calls   *)
(*            are objdump's [caller, callerAddr, callee, calleeAddr].      *)
(***************************************************************************)
CONSTANT Inputs

VARIABLES
    build,        \* the builddir and the symbols table
    pc, at,       \* the step, and the row or the target it is at
    nameToID,     \* buildSymbolLookup
    defsByName,   \* scanBuilddirObjectDefs
    addrToID,     \* buildAddrIndex, for the current target
    resolutions,  \* link_resolutions, with the nm symbol each row is for
    edges         \* call_edges of source objdump: <<target, caller, callee>>

vars == <<build, pc, at, nameToID, defsByName, addrToID, resolutions, edges>>

Init ==
    /\ build \in Inputs
    /\ pc = "lookup" /\ at = 1
    /\ nameToID = <<>> /\ defsByName = <<>> /\ addrToID = <<>>
    /\ resolutions = {} /\ edges = {}

-----------------------------------------------------------------------------
(* buildSymbolLookup.                                                      *)

\* Mutant of Displaces: the first row keeps the name, defined or not.
NeverDisplaces(old, new) == FALSE

\* What a row can be looked up by: its name and its linkage names.
NamesOf(id) == build.rows[id].names \cup {build.rows[id].usr[3]}

\* A declaration-only incumbent yields to a defined row; nothing else moves.
Displaces(old, new) == ~build.rows[old].hasDef /\ build.rows[new].hasDef

Put(lookup, id) ==
    [n \in DOMAIN lookup \cup NamesOf(id) |->
        IF n \notin DOMAIN lookup THEN id
        ELSE IF n \in NamesOf(id) /\ Displaces(lookup[n], id) THEN id
        ELSE lookup[n]]

\* One turn of its loop over the rows.
LookupRow ==
    /\ pc = "lookup" /\ at <= Len(build.rows)
    /\ nameToID' = Put(nameToID, at)
    /\ at' = at + 1
    /\ UNCHANGED <<build, pc, defsByName, addrToID, resolutions, edges>>

LookupBuilt ==
    /\ pc = "lookup" /\ at > Len(build.rows)
    /\ pc' = "scan" /\ at' = 1
    /\ UNCHANGED <<build, nameToID, defsByName, addrToID, resolutions, edges>>

-----------------------------------------------------------------------------
(* nm over every object of the builddir.                                   *)

DefsIn(o) ==
    {[object |-> o.object, name |-> s.name, kind |-> s.kind] : s \in ToSet(o.syms)}
ObjectDefs == UNION {DefsIn(build.objects[i]) : i \in DOMAIN build.objects}

ScanBuilddirObjectDefs ==
    /\ pc = "scan"
    /\ defsByName' = [n \in {d.name : d \in ObjectDefs} |->
                         {[object |-> d.object, kind |-> d.kind] :
                             d \in {e \in ObjectDefs : e.name = n}}]
    /\ pc' = "target"
    /\ UNCHANGED <<build, at, nameToID, addrToID, resolutions, edges>>

Candidates(name) == IF name \in DOMAIN defsByName THEN defsByName[name] ELSE {}

-----------------------------------------------------------------------------
(* nm's symbol classes and resolveNMSymbol.                                *)

Local(s) == s.kind \in {"t", "d", "b", "r", "u"}

LinkageKind(s) == CASE s.kind \in {"W", "V"}           -> "weak"
                    [] s.kind = "C"                    -> "common"
                    [] s.kind = "u"                    -> "unique_global"
                    [] s.kind \in {"T", "D", "B", "R"} -> "strong"
                    [] OTHER                           -> ""

IsFunction(s) == s.kind \in {"T", "t", "W", "w"}

None == 0

ByName(name) == IF name \in DOMAIN nameToID THEN nameToID[name] ELSE None

RowOf(usr) ==
    LET ids == {i \in DOMAIN build.rows : build.rows[i].usr = usr}
    IN  IF ids = {} THEN None ELSE CHOOSE i \in ids : TRUE

ResolveStaticViaObject(s, object) ==
    IF object = "" \/ object \notin DOMAIN build.source THEN None
    ELSE RowOf(<<build.source[object],
                 IF s.kind \in {"d", "b", "r"} THEN "variable" ELSE "function",
                 s.name>>)

\* mapObjectFor: "" without a map or without an entry.
MapObjectFor(t, name) ==
    IF t.hasMap /\ name \in DOMAIN t.origin THEN t.origin[name] ELSE ""

\* There is one candidate.
Sole(cands) == \E c \in cands : cands = {c}

ViaMap(t, s) == ResolveStaticViaObject(s, MapObjectFor(t, s.name))
ViaSole(s) ==
    LET cands == Candidates(s.name)
    IN  IF Sole(cands) THEN ResolveStaticViaObject(s, (CHOOSE c \in cands : TRUE).object)
        ELSE None

\* Mutant of ResolveNMSymbol: statics go straight to the name lookup.
ResolveByName(t, s) == ByName(s.name)

ResolveNMSymbol(t, s) ==
    IF Local(s) /\ ViaMap(t, s) # None THEN ViaMap(t, s)
    ELSE IF Local(s) /\ ViaSole(s) # None THEN ViaSole(s)
    ELSE ByName(s.name)

\* buildAddrIndex: of several symbols at one address the last one stays.
Known(t) ==
    {i \in DOMAIN t.syms : IsFunction(t.syms[i]) /\ ResolveNMSymbol(t, t.syms[i]) # None}
LastAt(t, a) ==
    CHOOSE i \in Known(t) : /\ t.syms[i].addr = a
                            /\ \A j \in Known(t) : t.syms[j].addr = a => j <= i
BuildAddrIndex(t) ==
    [a \in {t.syms[i].addr : i \in Known(t)} |-> ResolveNMSymbol(t, t.syms[LastAt(t, a)])]

-----------------------------------------------------------------------------
(* The winner and the losers of a resolution.                              *)

KindRank(kind) == CASE kind \in {"T", "D", "B", "R"} -> 3
                    [] kind \in {"W", "V"}           -> 2
                    [] kind = "C"                    -> 1
                    [] kind \in {"t", "d", "b", "r", "u", "w", "v"} -> 0
                    [] OTHER                         -> -1

\* The objects are scanned, and their paths sort, in the order of build.objects.
Place(object) == CHOOSE i \in DOMAIN build.objects : build.objects[i].object = object

\* Mutant of Beats: ties and ranks alike are settled by the path.
BeatsByPath(c, d) == Place(c.object) < Place(d.object)

Beats(c, d) ==
    \/ KindRank(c.kind) > KindRank(d.kind)
    \/ KindRank(c.kind) = KindRank(d.kind) /\ Place(c.object) < Place(d.object)

PickWinningObject(cands) ==
    IF cands = {} THEN ""
    ELSE (CHOOSE c \in cands : \A d \in cands : ~Beats(d, c)).object

CollectLosingObjects(cands, winner) == {c.object : c \in cands} \ {winner}

ArchiveFor(object) ==
    IF object \in DOMAIN build.archive THEN build.archive[object] ELSE ""

WinningObject(t, s) ==
    LET inMap == MapObjectFor(t, s.name)
    IN  IF inMap # "" THEN inMap ELSE PickWinningObject(Candidates(s.name))

ResolutionFor(t, s) ==
    LET winner == WinningObject(t, s)
    IN  [target  |-> t.name, usr |-> build.rows[ResolveNMSymbol(t, s)].usr,
         winner  |-> winner, kind |-> LinkageKind(s),
         losers  |-> CollectLosingObjects(Candidates(s.name), winner),
         archive |-> ArchiveFor(winner), symbol |-> s]

-----------------------------------------------------------------------------
(* The loop over targets.                                                  *)

Target == build.targets[at]

Linked(t) == t.kind \in {"executable", "shared_library"} /\ t.built

SkipTarget ==
    /\ pc = "target" /\ at <= Len(build.targets) /\ ~Linked(Target)
    /\ at' = at + 1
    /\ UNCHANGED <<build, pc, nameToID, defsByName, addrToID, resolutions, edges>>

ResolveTarget ==
    /\ pc = "target" /\ at <= Len(build.targets) /\ Linked(Target)
    /\ addrToID' = BuildAddrIndex(Target)
    /\ resolutions' = resolutions \cup
          {ResolutionFor(Target, s) :
              s \in {r \in ToSet(Target.syms) :
                        LinkageKind(r) # "" /\ ResolveNMSymbol(Target, r) # None}}
    /\ pc' = "objdump"
    /\ UNCHANGED <<build, at, nameToID, defsByName, edges>>

\* Mutant of CalleeStripped: the disassembly's decorated name is looked up.
CalleeDecorated(c) == c.callee[Len(c.callee)]

\* c.callee is <<name>>, or <<name, decoration>> split at the first '@'.
CalleeStripped(c) == c.callee[1]

\* By address first, then by name.
EndOf(addr, name) == IF addr \in DOMAIN addrToID THEN addrToID[addr] ELSE ByName(name)

EdgeOf(c) == <<Target.name, EndOf(c.callerAddr, c.caller),
                            EndOf(c.calleeAddr, CalleeStripped(c))>>

ObjdumpTarget ==
    /\ pc = "objdump"
    /\ edges' = edges \cup
          {e \in {EdgeOf(c) : c \in ToSet(Target.calls)} : e[2] # None /\ e[3] # None}
    /\ pc' = "target" /\ at' = at + 1
    /\ UNCHANGED <<build, nameToID, defsByName, addrToID, resolutions>>

\* Where nm, the map or objdump are read.
ToolRuns ==
    \/ pc \in {"scan", "objdump"}
    \/ pc = "target" /\ at <= Len(build.targets) /\ Linked(Target)

\* Mutant of ToolFails: what earlier targets wrote stays.
ToolFailsNoRollback ==
    /\ ToolRuns
    /\ pc' = "failed"
    /\ UNCHANGED <<build, at, nameToID, defsByName, addrToID, resolutions, edges>>

\* nm, objdump or the map cannot be read: Link returns the error and its
\* deferred Rollback drops the rows of every target.
ToolFails ==
    /\ ToolRuns
    /\ resolutions' = {} /\ edges' = {}
    /\ pc' = "failed"
    /\ UNCHANGED <<build, at, nameToID, defsByName, addrToID>>

Commit ==
    /\ pc = "target" /\ at > Len(build.targets)
    /\ pc' = "done"
    /\ UNCHANGED <<build, at, nameToID, defsByName, addrToID, resolutions, edges>>

Done == pc \in {"done", "failed"} /\ UNCHANGED vars

Next ==
    \/ LookupRow \/ LookupBuilt \/ ScanBuilddirObjectDefs
    \/ SkipTarget \/ ResolveTarget \/ ObjdumpTarget
    \/ ToolFails \/ Commit \/ Done

Spec == Init /\ [][Next]_vars

-----------------------------------------------------------------------------
(* Properties.                                                             *)

\* A declaration-only row never takes a name from a defined one, whatever the
\* order of the rows (link.go 366-374): it would show up as a phantom
\* undefined callee.
DefinedWins ==
    pc # "lookup" =>
        \A i \in DOMAIN build.rows : \A n \in NamesOf(i) :
            /\ n \in DOMAIN nameToID
            /\ n \in NamesOf(nameToID[n])
            /\ build.rows[i].hasDef => build.rows[nameToID[n]].hasDef

TargetNamed(name) == CHOOSE t \in ToSet(build.targets) : t.name = name

\* The objects that define a symbol of the strongest class on disk.
Strongest(name) ==
    {c \in Candidates(name) : \A d \in Candidates(name) : KindRank(c.kind) >= KindRank(d.kind)}

\* The object an nm symbol comes from is one of the builddir's.
OnDisk(s) == [object |-> s.from, kind |-> s.kind] \in Candidates(s.name)

\* What the map says of a global: nothing (there is no map, or ReadMap left the
\* name out), or the object it does come from.  The third case, the object of
\* the contribution before, is MapFile!Slips.
MapIsRight(t, s) == MapObjectFor(t, s.name) \in {"", s.from}

\* winning_object is the object the linker took the definition from whenever
\* that can be known: the map names it, or the map does not name the symbol and
\* one object on disk holds the strongest definition, of the strength the linker
\* took.  The losers of a definition from the builddir are exactly the other
\* objects that define the name, and never the winner.  Nothing is claimed of a
\* symbol the map names another object for.
WinnerIsTheLinkers ==
    \A r \in resolutions :
        LET t == TargetNamed(r.target)
            s == r.symbol
        IN  /\ MapIsRight(t, s) =>
                  /\ \/ MapObjectFor(t, s.name) # ""
                     \/ Strongest(s.name) = {[object |-> s.from, kind |-> s.kind]}
                     => r.winner = s.from
                  /\ OnDisk(s) =>
                        {c.object : c \in Candidates(s.name)} = r.losers \cup {r.winner}
            /\ r.winner \notin r.losers

\* No two functions of the binary have one address, as aliases do.
NoAliases(t) ==
    \A i, j \in DOMAIN t.syms :
        IsFunction(t.syms[i]) /\ IsFunction(t.syms[j]) /\ t.syms[i].addr = t.syms[j].addr => i = j

\* The row of the translation unit an nm symbol was compiled from.
OwnRow(s) ==
    IF s.from \in DOMAIN build.source
    THEN RowOf(<<build.source[s.from], "function", s.name>>) ELSE None

\* The map names an object of the project that has no such symbol, as it does
\* when ld split the header of an archive member (MapFile!Slips).
Misnamed(t, name) ==
    /\ MapObjectFor(t, name) \in DOMAIN build.source
    /\ \A c \in Candidates(name) : c.object # MapObjectFor(t, name)

\* A static that only one object on disk defines is attributed to its own
\* unit, map or no map, even if another unit's static of that name left a row
\* and no code, or a global of that name is in the map; where aliases share an
\* address, the last of them has it.
SoleStaticIsOwn ==
    pc = "objdump" /\ NoAliases(Target) =>
        \A s \in ToSet(Target.syms) :
            /\ s.kind = "t" /\ OnDisk(s) /\ Sole(Candidates(s.name))
            /\ OwnRow(s) # None /\ ~Misnamed(Target, s.name)
            => addrToID[s.addr] = OwnRow(s)

\* No direct call between two known functions is lost, calls through the PLT
\* included: each one is an edge whose ends carry the names objdump printed,
\* where an address has one name.
NoCallLost ==
    pc = "done" =>
        \A t \in {u \in ToSet(build.targets) : Linked(u) /\ NoAliases(u)} :
            \A c \in ToSet(t.calls) :
                {c.caller, c.callee[1]} \subseteq DOMAIN nameToID =>
                    \E e \in edges : /\ e[1] = t.name
                                     /\ c.caller \in NamesOf(e[2])
                                     /\ c.callee[1] \in NamesOf(e[3])

\* The index holds the link plane of all the targets or of none: a tool that
\* fails on the last binary takes the rows of the first one with it.
AllTargetsOrNone ==
    /\ pc = "failed" => resolutions = {} /\ edges = {}
    /\ pc = "done" =>
         \A t \in {u \in ToSet(build.targets) : Linked(u)} :
            \A s \in ToSet(t.syms) :
                LinkageKind(s) # "" /\ s.name \in DOMAIN nameToID =>
                    \E r \in resolutions : r.target = t.name /\ r.symbol = s

\* INSTALL_GUIDE.md 67-68: without a map, "weak-vs-strong stays correct".  A
\* target that linked the weak definition is not told it has a strong one.
WeakVsStrongCorrect ==
    \A r \in resolutions :
        ~TargetNamed(r.target).hasMap =>
            \A c \in Candidates(r.symbol.name) :
                c.object = r.winner => (c.kind = "W" <=> r.kind = "weak")
=============================================================================
