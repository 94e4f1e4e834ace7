------------------------------ MODULE Readers ------------------------------
(***************************************************************************)
(* The places where collect (cmd/herbarium/collect.go) takes in what       *)
(* another program wrote, one record, line or entry at a time: the targets *)
(* Meson lists (filterTargets), GCC's call graph dumps (ParseCgraph), its  *)
(* folding dumps and optimization records (ParseICF, ParseOptRecord), GNU  *)
(* ld's maps (ReadMap), ninja's dependency log (ninjadeps.Read), and the   *)
(* debugging entries of an object (dwarfingest.Read) with the indirect     *)
(* calls among them (parseCallSite, followed to resolve_indirect_call).    *)
(*                                                                         *)
(* collect calls them on one goroutine and they share no state: what one   *)
(* of them returns is a function of its own input.  So a behaviour of this *)
(* module is one call of one of them, and the state of the others is idle. *)
(***************************************************************************)
EXTENDS Naturals, Sequences

CONSTANTS Names, MaxRecords, MaxIns, Damaged \* of NinjaDeps
CONSTANTS Maps                            \* of MapFile
CONSTANTS Ids, Flags, CallLists, MaxLines \* of Cgraph
CONSTANTS Targets, Unknown, MaxTargets    \* of TargetFilter
CONSTANTS Functions, MaxIcfLines, MaxDecisions \* of IpaDumps
CONSTANTS MaxDies, MaxDepth               \* of DwarfReader
CONSTANTS Sites, Extent, AddressTaken     \* of CallSites

\* 0 is no function: it is what currentFn holds before the first one.
ASSUME FunctionsAssumption == 0 \notin Functions

\* What a "Calls:" line lists.
Callees == [to : Ids, inlined : BOOLEAN]
ASSUME CallListsAssumption == CallLists \subseteq Seq(Callees)

VARIABLES
    turn,  \* the reader that was called
    header, log, honest, pc, at, opened, paths, deps,           \* NinjaDeps
    map, cursor, phase, loadObj, curObj, split, origin, pulls,   \* MapFile
    dump, cur, symbols, needed,                                 \* Cgraph
    built, wanted, array, i, kept, seen, step, result,          \* TargetFilter
    file, wraps, format, shown, currentFn, winners, losersOf,   \* IpaDumps
    inlineRecords, parsed,
    dies, open, reading, skip, stack, info,                     \* DwarfReader
    site, stage, place, answer, candidates                      \* CallSites

Ninja  == INSTANCE NinjaDeps
Map    == INSTANCE MapFile
Dump   == INSTANCE Cgraph
Filter == INSTANCE TargetFilter
Ipa    == INSTANCE IpaDumps WITH result <- parsed
Dwarf  == INSTANCE DwarfReader
Call   == INSTANCE CallSites

\* What holds of every indirect call in an object GCC wrote.  The pointer called is
\* a parameter, a member of a variable, or computed; a register that keeps a value
\* over calls is none that passes an argument; a variable has a name and its type's
\* members have one each; and a function's symbol spans its own code.
ASSUME SitesAssumption == \A x \in Sites :
    /\ x.params \in Seq({"fn", "int", "float", "int128", "pair", "memory"})
    /\ \/ x.via = Call!Untold
       \/ \E k \in DOMAIN x.params : x.via = Call!Param(k) /\ x.params[k] = "fn"
       \/ /\ x.via.kind = "member" /\ x.via = Call!Member(x.via.var, x.via.name, x.via.off)
          /\ x.via.off \in Nat
          /\ x.via.var \in DOMAIN x.vars =>
                \E k \in DOMAIN x.vars[x.via.var] :
                    LET m == x.vars[x.via.var][k] IN
                    m.fn /\ m.name = x.via.name /\ m.off = x.via.off
    /\ x.saved.form \in {"plain", "none"}
    /\ x.saved.form = "plain" => \A k \in 1..6 : Call!argRegOrder[k] # x.saved.reg
    /\ "" \notin DOMAIN x.vars
    /\ \A v \in DOMAIN x.vars :
          /\ DOMAIN x.vars[v] \subseteq Nat
          /\ \A j, k \in DOMAIN x.vars[v] : x.vars[v][j].name = x.vars[v][k].name => j = k
    /\ x.home = "own" => Call!SymbolCovers(x)

\* What holds of every map GNU ld wrote: objects have a name, and a global symbol
\* of a linked binary has one definition, listed under one contribution.
ASSUME MapsAssumption == \A m \in Maps :
    /\ m.load \in Seq([obj : STRING \ {""}, member : BOOLEAN, short : BOOLEAN,
                       by : STRING, byMember : BOOLEAN, sym : STRING])
    /\ m.contribs \in Seq([obj : STRING \ {""}, member : BOOLEAN, split : BOOLEAN, syms : Seq(STRING)]
                             \cup [gap : {TRUE}])
    /\ \A j, k \in DOMAIN m.contribs :
          /\ j # k /\ "gap" \notin DOMAIN m.contribs[j] /\ "gap" \notin DOMAIN m.contribs[k]
          => \A a \in DOMAIN m.contribs[j].syms, b \in DOMAIN m.contribs[k].syms :
                m.contribs[j].syms[a] # m.contribs[k].syms[b]

ninja  == <<header, log, honest, pc, at, opened, paths, deps>>
linker == <<map, cursor, phase, loadObj, curObj, split, origin, pulls>>
gcc    == <<dump, cur, symbols, needed>>
meson  == <<built, wanted, array, i, kept, seen, step, result>>
ipa    == <<file, wraps, format, shown, currentFn, winners, losersOf, inlineRecords, parsed>>
dwarf  == <<dies, open, reading, skip, stack, info>>
call   == <<site, stage, place, answer, candidates>>
vars   == <<turn, ninja, linker, gcc, meson, ipa, dwarf, call>>

NinjaIdle ==
    /\ header = "" /\ log = <<>> /\ honest = FALSE /\ pc = "" /\ at = 0
    /\ opened = 0 /\ paths = <<>> /\ deps = <<>>

MapIdle ==
    /\ map = <<>> /\ cursor = <<>> /\ phase = 0 /\ loadObj = "" /\ curObj = ""
    /\ split = FALSE /\ origin = <<>> /\ pulls = <<>>

DumpIdle == dump = <<>> /\ cur = {} /\ symbols = <<>> /\ needed = <<>>

FilterIdle ==
    /\ built = <<>> /\ wanted = {} /\ array = <<>> /\ i = 0 /\ kept = 0
    /\ seen = {} /\ step = "" /\ result = <<>>

IpaIdle ==
    /\ file = "" /\ wraps = <<>> /\ format = "" /\ shown = <<>> /\ currentFn = 0
    /\ winners = {} /\ losersOf = <<>> /\ inlineRecords = {} /\ parsed = ""

DwarfIdle ==
    /\ dies = <<>> /\ open = <<>> /\ reading = "" /\ skip = 0 /\ stack = <<>> /\ info = <<>>

CallIdle == site = <<>> /\ stage = "" /\ place = <<>> /\ answer = <<>> /\ candidates = {}

Init ==
    /\ turn \in {"ninja", "map", "dump", "filter", "ipa", "dwarf", "call"}
    /\ IF turn = "ninja"  THEN Ninja!Init  ELSE NinjaIdle
    /\ IF turn = "map"    THEN Map!Init    ELSE MapIdle
    /\ IF turn = "dump"   THEN Dump!Init   ELSE DumpIdle
    /\ IF turn = "filter" THEN Filter!Init ELSE FilterIdle
    /\ IF turn = "ipa"    THEN Ipa!Init    ELSE IpaIdle
    /\ IF turn = "dwarf"  THEN Dwarf!Init  ELSE DwarfIdle
    /\ IF turn = "call"   THEN Call!Init   ELSE CallIdle

ReadLog ==
    /\ turn = "ninja" /\ Ninja!Next
    /\ UNCHANGED <<turn, linker, gcc, meson, ipa, dwarf, call>>

ReadMap ==
    /\ turn = "map" /\ Map!Next
    /\ UNCHANGED <<turn, ninja, gcc, meson, ipa, dwarf, call>>

ParseCgraph ==
    /\ turn = "dump" /\ Dump!Next
    /\ UNCHANGED <<turn, ninja, linker, meson, ipa, dwarf, call>>

FilterTargets ==
    /\ turn = "filter" /\ Filter!Next
    /\ UNCHANGED <<turn, ninja, linker, gcc, ipa, dwarf, call>>

ParseIpaDump ==
    /\ turn = "ipa" /\ Ipa!Next
    /\ UNCHANGED <<turn, ninja, linker, gcc, meson, dwarf, call>>

ReadDwarf ==
    /\ turn = "dwarf" /\ Dwarf!Next
    /\ UNCHANGED <<turn, ninja, linker, gcc, meson, ipa, call>>

ParseCallSite ==
    /\ turn = "call" /\ Call!Next
    /\ UNCHANGED <<turn, ninja, linker, gcc, meson, ipa, dwarf>>

Next ==
    \/ ReadLog \/ ReadMap \/ ParseCgraph \/ FilterTargets
    \/ ParseIpaDump \/ ReadDwarf \/ ParseCallSite

Spec == Init /\ [][Next]_vars

-----------------------------------------------------------------------------
(* Properties: what each reader promises of its own call.                  *)

\* A replay of .ninja_deps that races ninja, or meets the tail a crash left,
\* returns a state that ninja's own log was in, and past its header a log that
\* ninja alone wrote is never reported corrupt, whatever moment it is read at
\* (ninjadeps.go Read).
ReplayIsExact == turn = "ninja" => Ninja!ReplayIsAPastState /\ Ninja!NoFalseAlarm

\* A symbol of a map goes to the object it is listed under and to no other,
\* and no archive pull that the expressions can read is lost among those they
\* cannot (mapfile.go ReadMap).
OriginsExact == turn = "map" => Map!OriginsExact

\* A symbol's flags are those printed under one of its own headers and none that
\* a later table drops is lost, and the call list kept for it is the latest of its
\* longest ones, over every order of tables and of interrupting lines (cgraph.go
\* ParseCgraph, mergeSymbol).  Foldings and inlining decisions are those GCC made,
\* and no caller is taken for its callee (icf.go ParseICF, optrecord.go
\* ParseOptRecord).
DumpsAreExact ==
    /\ turn = "dump" => Dump!FlagsAreTheDumps /\ Dump!CallsAreLatestLongest
    /\ turn = "ipa" => Ipa!DecisionsExact

\* --target keeps the wanted part of the list in its order, although the list
\* is rewritten while it is read, and refuses exactly the runs that name a
\* target the builddir lacks (collect.go filterTargets).
FilterIsExact == turn = "filter" => Filter!FilterIsExact

\* Every inlined copy, call site, global and member is filed under what really
\* encloses it in the object, whatever is nested around it (reader.go Read).
EntriesFiled == turn = "dwarf" => Dwarf!AttributionExact

\* No function an indirect call may reach is missing from the candidates that
\* resolve_indirect_call gives for it (calltarget.go resolve, indirect_tools.go).
CandidatesKept == turn = "call" => Call!NoCandidateLost
============================================================================
