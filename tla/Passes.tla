------------------------------- MODULE Passes -------------------------------
(***************************************************************************)
(* The passes of collect (cmd/herbarium/collect.go) that fill the index:   *)
(* the compiler plane (CompilerPlane), the DWARF facts (DwarfPlane), the   *)
(* link plane (LinkPlane) and the sources (Sources).                       *)
(*                                                                         *)
(* collect calls them one after the other, each in a transaction of its    *)
(* own, and a pass reads only what earlier ones committed, so what it does *)
(* is a function of the index it finds and of its own inputs.  A behaviour *)
(* of this module is one pass over one such input; the others are idle.    *)
(***************************************************************************)
EXTENDS DwarfPlane

CONSTANTS Ids, Units               \* of CompilerPlane
CONSTANTS Links                    \* of LinkPlane
CONSTANTS Paths, Packs, MaxEdits   \* of Sources

VARIABLES
    pass,   \* the pass that runs
    tus, cpc, cat, left, symbols, resolves, calls, inlineOf, records, groups,  \* CompilerPlane
    linked, lpc, lat, nameToID, defsByName, addrToID, resolutions, edges, \* LinkPlane
    packed, disk, edits, spc, entries, genEntries, extEntries, globHits, \* Sources
    keys, hold, blobs, sources, generated, external, sum

Compiler == INSTANCE CompilerPlane WITH Inputs <- Units, pc <- cpc, at <- cat, edges <- calls
Link     == INSTANCE LinkPlane WITH Inputs <- Links, build <- linked, pc <- lpc, at <- lat
Pack     == INSTANCE Sources WITH Inputs <- Packs, build <- packed, pc <- spc, todo <- keys

\* Ids has every id of a dump.
ASSUME UnitAssumption ==
    /\ Ids \in Seq(ToSet(Ids))
    /\ \A b \in Units : /\ b \in Seq(ToSet(b))
                        /\ \A k \in DOMAIN b : DOMAIN b[k].nodes \subseteq ToSet(Ids)

\* Targets and objects are named once and an object has a symbol once.
NamedOnce(b) ==
    /\ b.rows \in Seq(ToSet(b.rows)) /\ b.targets \in Seq(ToSet(b.targets))
    /\ b.objects \in Seq(ToSet(b.objects))
    /\ \A t \in ToSet(b.targets) : t.syms \in Seq(ToSet(t.syms)) /\ t.hasMap \in BOOLEAN
    /\ \A i, j \in DOMAIN b.targets : b.targets[i].name = b.targets[j].name => i = j
    /\ \A i, j \in DOMAIN b.objects : b.objects[i].object = b.objects[j].object => i = j
    /\ \A o \in ToSet(b.objects) :
          o.object # "" /\ \A r, s \in ToSet(o.syms) : r.name = s.name => r = s

\* objdump calls a function by the name nm has at its address, if there is one.
ObjdumpAgrees(t) ==
    Link!NoAliases(t) =>
        \A c \in ToSet(t.calls) : \A s \in ToSet(t.syms) : Link!IsFunction(s) =>
            /\ s.addr = c.callerAddr => s.name = c.caller
            /\ s.addr = c.calleeAddr => s.name = c.callee[1]

\* The files a build names are among Paths, and none is newer than the clock.
ASSUME PackAssumption ==
    /\ Paths \in Seq(ToSet(Paths))
    /\ \A b \in Packs :
          /\ b.sources \cup b.generated \subseteq ToSet(Paths)
          /\ \A o \in DOMAIN b.deps : b.deps[o] \subseteq ToSet(Paths)
          /\ \A f \in DOMAIN b.disk : b.disk[f].mtime \in 0..Pack!Now

\* nm and objdump agree on one build; what its maps say is left open.
ASSUME LinkAssumption ==
    \A b \in Links :
        NamedOnce(b) /\ \A t \in ToSet(b.targets) : ObjdumpAgrees(t)

compiler == <<tus, cpc, cat, left, symbols, resolves, calls, inlineOf, records, groups>>
link     == <<linked, lpc, lat, nameToID, defsByName, addrToID, resolutions, edges>>
pack     == <<packed, disk, edits, spc, entries, genEntries, extEntries, globHits,
              keys, hold, blobs, sources, generated, external, sum>>
passVars == <<pass, vars, compiler, link, pack>>

CompilerIdle ==
    /\ tus = <<>> /\ cpc = "" /\ cat = 0 /\ left = {} /\ symbols = <<>> /\ resolves = <<>>
    /\ calls = {} /\ inlineOf = <<>> /\ records = {} /\ groups = {}

\* The state of DwarfPlane before its pass, over some build.
DwarfIdle ==
    /\ LET b == CHOOSE b \in Builds : TRUE IN die = b.die /\ layout = b.layout
    /\ ids = {} /\ todo = {} /\ pc = "" /\ obj = 0
    /\ tables = CompilerTables /\ saved = CompilerTables

LinkIdle ==
    /\ linked = <<>> /\ lpc = "" /\ lat = 0 /\ nameToID = <<>> /\ defsByName = <<>>
    /\ addrToID = <<>> /\ resolutions = {} /\ edges = {}

PackIdle ==
    /\ packed = <<>> /\ disk = <<>> /\ edits = 0 /\ spc = "" /\ entries = <<>>
    /\ genEntries = {} /\ extEntries = {} /\ globHits = <<>> /\ keys = {} /\ hold = <<>>
    /\ blobs = {} /\ sources = <<>> /\ generated = <<>> /\ external = <<>> /\ sum = <<>>

PassInit ==
    \/ pass = "compiler" /\ DwarfIdle /\ LinkIdle /\ PackIdle /\ Compiler!Init
    \/ pass = "dwarf"    /\ CompilerIdle /\ LinkIdle /\ PackIdle /\ Init
    \/ pass = "link"     /\ CompilerIdle /\ DwarfIdle /\ PackIdle /\ Link!Init
    \/ pass = "sources"  /\ CompilerIdle /\ DwarfIdle /\ LinkIdle /\ Pack!Init

IngestCompiler ==
    /\ pass = "compiler" /\ Compiler!Next
    /\ UNCHANGED <<pass, vars, link, pack>>

IngestDwarf ==
    /\ pass = "dwarf" /\ Next
    /\ UNCHANGED <<pass, compiler, link, pack>>

IngestLink ==
    /\ pass = "link" /\ Link!Next
    /\ UNCHANGED <<pass, vars, compiler, pack>>

IngestSources ==
    /\ pass = "sources" /\ Pack!Next
    /\ UNCHANGED <<pass, vars, compiler, link>>

PassNext == IngestCompiler \/ IngestDwarf \/ IngestLink \/ IngestSources

PassSpec == PassInit /\ [][PassNext]_passVars

-----------------------------------------------------------------------------
(* Properties: what each pass promises.  Those of DwarfPlane, which is     *)
(* extended, are checked under their own names.                            *)

\* The prune of the symbol table is exact: it keeps every row a later loop of
\* the pass points at and no other (ingest.go pruneUnreferenced).
PruneIsExact == pass = "compiler" => Compiler!PruneIsExact

\* What is stored of a symbol or a call does not depend on the order in which
\* the units are read (ingest.go mergeSymbol).
OrderIndependent == pass = "compiler" => Compiler!OrderIndependent

\* A declaration-only row never keeps a name from a defined one, in any order of
\* the rows (link.go buildSymbolLookup).
DefinedWins == pass = "link" => Link!DefinedWins

\* winning_object is the linker's choice wherever that can be known (link.go
\* resolveTarget).
WinnerIsTheLinkers == pass = "link" => Link!WinnerIsTheLinkers

\* A static that one object defines is attributed to its own unit (link.go
\* resolveNMSymbol).
SoleStaticIsOwn == pass = "link" => Link!SoleStaticIsOwn

\* No direct call between two known functions is lost (link.go objdump edges).
NoCallLost == pass = "link" => Link!NoCallLost

\* A pass writes everything or nothing: an object that cannot be read, or a tool
\* that fails on the last binary, takes with it what was written before, and a
\* pass that commits has left out no object and no target (dwarf.go DWARF, link.go
\* Link).
PassesAreAtomic == AllOrNothing /\ (pass = "link" => Link!AllTargetsOrNone)

\* A blob is stored exactly if a row refers to it, and the summary adds up
\* (sources.go, blobstore.go).
StoreAddsUp == pass = "sources" => Pack!StoreAddsUp

\* Every source and header that was there to be read is in the table of the
\* place it lies in (sources.go Sources).
NothingSkipped == pass = "sources" => Pack!NothingSkipped

\* With --strict the bytes packed are no newer than any object built from them,
\* although files are saved during the pass (sources.go strict check).
StrictHoldsForTheBytes == pass = "sources" => Pack!StrictHoldsForTheBytes
=============================================================================
