# A TLA+ model of herbarium

herbarium indexes a GCC/Meson build of a C program into one SQLite file (`.hbr`)
and serves that file to agents over MCP. `herbarium collect` reads compiler dumps,
DWARF, linker maps, `nm`/`objdump` output and the sources, and installs an index at a
path; `herbarium serve` opens the path read-only, answers tool calls from it
concurrently, and reopens it when the `reload_index` tool is called. The two halves
meet in one place, the path.

This directory models both halves: the concurrent and crash-prone parts as state
machines, the ingest passes, the parsers and the tools as sequential machines whose inputs
range over small builds and small indexes. TLC checks every module. With TLAPS the safety
of serve and collect is also proved for any number of processes, and that of the tool
runner, the passes, the readers and the tools for every input.

    tlc -workers 2 -config Serve.cfg MCServe      # about a minute
    tlc -workers 2 -config Readers.cfg MCReaders  # any other line of the table of runs
    tlapm ServeProof.tla                          # about three minutes
    tlapm CollectProof.tla                        # and Lemmas, ToolRunnerProof, ReadersProof
    tlapm PassesProof.tla                         # and DumpsProof, ToolsProof: up to twenty

## 1. Inventory

| Component (source) | State | Operations | What is hard | What makes it correct |
|---|---|---|---|---|
| serve, pin, reload (`cmd/herbarium/serve.go`, `internal/mcp/mcp.go`, `reload_tool.go`) | served handle, RWMutex, reload mutex, the handle's connection pool | startup checks, tool call under a read lock, reload: diagnose, open, describe, stamp, swap, close | calls interleave with reloads and with renames of the file; the pool reopens *by path*; a non-reentrant lock | nobody uses a closed handle, what is served passed the checks, no leak, no regress, everything returns |
| collect (`cmd/herbarium/collect.go`, `internal/store/store.go`) | directory entries, `-wal` sidecars, journal mode | stat, reserve a scratch name, open, passes, seal, close, rename, unwind | concurrent collects, kills, failures of any step, data parked in the WAL | the path holds nothing or a whole index; truthful exit; no litter |
| `--target` filter (`collect.go`) | one array, read and written | filterTargets | aliasing | exactly the wanted targets |
| tool runner (`internal/linkplane/exec.go`, `objdump.go`, `nm.go`) | two pipes, a child, a goroutine | read, parse, drain, wait | full pipes, early exits, parse errors | returns, reaps, success means complete |
| map reader (`linkplane/mapfile.go`) | phase, contribution, one line of lookahead | one line | split headers, archive notation, missing titles | symbols go to the object that supplied them |
| compiler plane (`ingest/ingest.go`, `usr/usr.go`) | symbol map, per-unit resolution, rows | aggregate, merge, prune, edges, inlines, ICF | the prune must predict four later loops; order of units and ids | nothing lost, nothing dead, order-independent |
| link plane (`ingest/link.go`) | name, address and definition indexes, rows | per target: nm, map, objdump, reachability | names are ambiguous, a tool may fail on the last target | definitions win, the linker's winner, all targets or none |
| sources (`ingest/sources.go`, `paths.go`, `externalglob.go`, `blobstore/blobstore.go`) | entries, blobs, three tables | crawl, globs, read, strict check, store | the tree changes while it is packed | complete, adds up, strict holds |
| ninja deps (`ninjadeps/ninjadeps.go`) | paths, deps | one record | ninja appends or died in a record | the result is a state the log was in |
| cgraph parser (`gccdump/cgraph.go`) | current block, merged records | one line | four tables print one symbol | union of flags, richest call list |
| icf dump, optimization record (`gccdump/icf.go`, `optrecord.go`) | current function, winners, losers, decisions | one line or record | two functions, and only the wording says which is which | no fold invented, no decision reversed |
| DWARF reader (`dwarfingest/reader.go`) | stack of frames, what was collected | one debugging entry | types consume their own children, copies nest, blocks and functions too | every fact is filed under what really encloses it |
| call targets (`dwarfingest/calltarget.go`, `mcp/indirect_tools.go`) | one call site | line, register route, relocation route, candidates | registers are not parameters, sections all start at 0 | no candidate lost, narrowed where it can be |
| DWARF plane (`ingest/dwarf.go`) | enriched rows | one object | same names, conflicting types, read failures | facts belong to their symbol, all or nothing |
| list_call_paths (`mcp/callgraph_source_tools.go`) | DFS stack, visited, result | one loop iteration | bounds while backtracking | exactly the simple paths |
| explain_call (`mcp/callgraph_runtime_tools.go`) | per-object accumulators | one row | caps on what is read and shown | the verdict the evidence supports |
| search_source, list_source_files (`mcp/source_tools.go`) | three tables, counts, rows | one file | a limit of rows and a limit of matches, filters of two tools | counts are of all that was scanned, the flags are true |
| list_source_drift, verify_source (`mcp/source_tools.go`) | cursor of the rows, entries | one file | the checkout is edited meanwhile | the report is what the files were during the call |
| query tools (`mcp/{symbol,linkage,target,indirect,type}_tools.go`, neighbours and inlining in `callgraph_*_tools.go`) | one index | one tool call | eighteen queries over the same tables, each with its own limit and target filter | they tell one story |
| ci and inline parsers; signatures; targets; builddir, Meson, preflight; sql_query, schema, locations; main | | | | not modelled, section 9 |

Interaction: collect runs the passes in the order Compiler (fed by the GCC parsers),
DWARF, Targets, Link (fed by the tool runner and the map reader), Sources (fed by the
ninja log), each in a transaction of its own, then seals and renames. serve sees only
the path. `PROJECT.json` lists every hazard at its line, with the properties that would
catch it.

## 2. Modules and their correspondence to the code

`PROJECT.json` maps every definition to its lines. A module's variables carry the names
of the code's variables where there are any. Definitions named "Mutant of X" are
plausible mistakes in X, kept beside it; each property of a passing run fails under one.

**Serve** (`MCServe`, `ServeProof`). `main` is runServe's progress; `path` and `pub` say
which file is at the path and when each file was published; `handle`, `origin`, `idle`
and `held` are the `*sql.DB`s with their connections; `readers`, `writer` and `mutex` the
two locks; `cur` is `Server.db`. Each action is the stretch of a handler between two
points where others can run: StartDiagnose, StartOpen, StartCheck; Arrive, PinIndex,
Query, QueryFails, CloseRows, Return; ReloadEnter through ReloadClose. Publish is what
IndexPath promises of collect. `database/sql` and `sync.RWMutex` are external: a query
takes an idle connection or opens the path anew; a waiting writer keeps new readers out.

**IndexPath** is the abstract specification between the halves: nothing or one whole
artifact, installed in one step, never twice. **Collect** (`MCCollect`, `CollectProof`)
implements it. A directory maps names to inodes; an index is the number of passes
committed to it, of which `flushed` are in the main file and the rest in the `-wal`.
Every step can fail, and a process can be killed between any two. SQLite's checkpoint
may come at any time and comes at the last close. The refinement maps `current` to the
inode at `--out` and a torn file to no artifact at all, so a step that shows a torn
file is no step of IndexPath.

**ToolRunner**: child, stdout and stderr pipes of `PipeCap` lines, the goroutine
`exec.Cmd` starts for stderr, and the caller with `parseObjdumpStream` inlined as the
consumer, one line per step.

**Ordered** says what it means that a sequence lists a set of positions in their order.
Loops that go over numbered lines, rows or entries and keep some of them are stated with
it (ToolRunner, TargetFilter, Verdict, NinjaDeps, MapFile, CallPaths, SourceSearch,
IndexQueries), since a proof cannot unfold a
recursive selection or a sort; Joined says the same of sequences that follow each other
(SourceSearch, IndexQueries). **Lemmas** has what the proof modules share about both and about counting,
and induction and recursion over an interval, stated of a set and of a function.

**CompilerPlane**: the loops of `ingest.Compiler` over parsed units, one action per node
for `aggregateSymbols` (plain nodes before clones, each in the order of their ids) and one
per unit or loop after it; a USR is the triple it encodes. **LinkPlane**: one action per row of the
name lookup, then one per target for `nm` and for `objdump`, with the tools' failure as an
action; the inputs carry the linker's true choice (`from`), which only the properties look
at, and `origin`, what ReadMap got of the map, which may lack a name or, for an archive
member under a split header, name the object before it. Of the properties, SoleStaticIsOwn and NoCallLost are about binaries in which no two
functions share an address (`NoAliases`): the address index keeps the last alias. **Sources**: the crawl
and then one file per step, bytes before mtimes as in the code, while `Save` (an editor's, or
the build's on an object) and `Unlink` change the disk. **DwarfPlane**: one object per round, in the code's order of
tables. Rollback of the transaction is part of each failing action.

**Passes** composes the four. collect runs them one after the other and a pass reads only
what earlier ones committed, so a behaviour is one pass over one input. The instances are
in `MCPassInputs`, `MCLinkInputs` and `MCPasses`. The assumptions on
inputs are here and in DwarfPlane: `UnitAssumption`, that Ids lists the ids of every dump;
`LinkAssumption`, that nm and objdump speak of one
build (targets and objects are named once, objdump prints at an address the name nm has
there; nothing is assumed of the map); `PackAssumption`, that no file is
newer than the clock and the files of a build are among Paths; `DwarfPlaneAssumption`, that
objects are numbered and an object describes a struct at most once.

**NinjaDeps**, **MapFile**, **Cgraph**, **IpaDumps**: one action per record or line; the
writer (ninja, ld, GCC) is a generator in the module, marked external. IpaDumps has both
`ParseICF` and `ParseOptRecord`; GCC's knowledge of what it folded (`wraps`) and of who
called whom is there for the property only. MapFile's `cursor` is the entry of the map (a
load-list entry, a title, a contribution) and the line of it that the scanner is at. An
entry of the load list is `libx.a(obj.o)` or a plain path (a thin archive's), and so is its
referrer; ld prints the two on one line when the first is short. NinjaDeps begins with a
header that ninja may still be writing.

**DwarfReader**: `dies` is the sequence of entries `debug/dwarf` hands out and `open` the
entries whose children are being shown, which is the truth; `stack` and `info` are the
code's. Entry, TypeEntry, Pop and End are the loop of `Read`; TypeChild, Skipped and
TypeClosed are `parseStruct` and `parseEnum`, which read on with the same reader.
**CallSites** (`MCCallInputs`, `MCCallSites`) follows one indirect call from `resolveLine`
through `indirectResolver.resolve` to the candidates `resolve_indirect_call` returns. A
site carries the pointer that was really called (`via`); the calling convention, external
here, decides which register it was in.

**SourceSearch** asks `list_source_files` and then `search_source` with the same
arguments, one file per step; a table's rows come in the order of their keys, and the
reference is the matches of all admitted rows, joined. **SourceDrift** is `list_source_drift`, one file per step,
while somebody saves. **IndexQueries** is an agent that asks eighteen tools about one
target of one index; an action is a whole tool call, and a query is the rows it selects.
Their instances are in `MCSearchInputs` and `MCQueryInputs`. **TargetFilter**, **CallPaths**,
**Verdict**: one action per loop iteration; the properties compare the result with a
reference definition (the set of simple paths; the verdict of the whole evidence).

**Readers** composes TargetFilter, Cgraph, IpaDumps, MapFile, NinjaDeps, DwarfReader and
CallSites, the places where collect takes in what another program wrote; **Tools** composes
CallPaths, Verdict, SourceSearch, SourceDrift and IndexQueries. The parts of each share no
state (collect calls the readers on one goroutine, a tool call only reads the index it
pinned), so one behaviour is one call of one part while the others are idle, and one run
checks them all. In Readers, `FunctionsAssumption` says that 0, the empty `currentFn`, is no
function, and `CallListsAssumption` what a "Calls:" line lists; `SitesAssumption` and
`MapsAssumption` say what GCC and ld guarantee of what they write: the pointer a call goes
through is one the function can have, a register that survives calls passes no argument, an
object has a name, and a global symbol of a linked binary is listed under one contribution.
In Tools, `DriftAssumption` says that no content is the mark of a missing or unreadable file,
`VerdictAssumption` that objects are numbered by their names, and `CallPathsAssumption` that
symbols are finitely many and numbered by theirs, and the default depth within the maximum.
`SearchAssumption` says that tables are finite and their keys numbered in order, that the key
of an external file, an absolute path, is no key of another table, and that the scan limit is
at least 1. `QueryAssumption` says of an index that the rows of a table are finitely many, symbols are
numbered by their names, a target links symbols there are and enumeration constants are told
from types by their kind, and of a question that its page has room for a row.

## 3. Runs

Passing runs and the bounds they use. Together they take every action of every module.

| Run | Instance | Shows |
|---|---|---|
| `serve` (`Serve.cfg`) | 1 call slot (reused), 2 reloads, 3 files of which one has another schema; 1 idle connection, 1 query per call | NoUseAfterClose, ServedUsable, NoHandleLeak, NeverOlderThanServed, ServedNeverRegresses, CallsReturn, ReloadsEnd |
| `collect` | 2 collects (one with `--replace`), 2 scratch names, 1 collision allowed, 3 passes | DestComplete, NoLitter, ExitIsTruthful, ScratchIsPrivate, the refinement ImplementsIndexPath, CollectsEnd |
| `tool_runner` | any 3 lines over 2 symbols, pipes of 1 line, head of 2, 2 lines of stderr | OkMeansComplete, Reaped, Returns |
| `passes` | compiler plane: all ordered pairs of a family of units: callers, helpers of every linkage, clones, clones of clones, records, ICF groups. DWARF plane: 2 objects, 2 names in every combination of forms, one struct in every pair of layouts. Link plane: two executables, four objects, one archived; each defines `f` strong, weak, static, inlined away or not; without maps, and with maps of which all, nothing, all but the member's names, or the member's under the wrong object was read. Sources: two units, a shared, a configured and a system header; every placement of the configured one; whole and torn logs, overlapping globs; 2 changes of the disk | PruneIsExact, OrderIndependent; FactsBelong, PlacedOnce, TypeFromOneUnit; DefinedWins, WinnerIsTheLinkers, SoleStaticIsOwn, NoCallLost; StoreAddsUp, NothingSkipped, StrictHoldsForTheBytes; PassesAreAtomic |
| `readers` | ninja: 2 names, 5 records, crashes and appends, four damaged logs; maps: every three contributions, split or not, with gaps and archive members, and load lists of two entries, each plain or a member, with a plain or a member referrer, on one line or two; dumps: every 5 lines over 2 symbols; folding dumps: every 5 lines over 3 functions, and every 2 optimization records; targets: every list of up to 4 over 3 names and every request; debugging entries: every tree of up to 6 entries, 4 of them open; calls: every site of `MCCallInputs`, through parameters behind integers, doubles, pairs and memory, through members of tables and unions, in the function's own section or another | ReplayIsExact; OriginsExact; DumpsAreExact; FilterIsExact; EntriesFiled; CandidatesKept |
| `tools` | every graph over 11 edges on 4 symbols, with and without a target filter, limit 2, depth up to 3; up to 3 rows of evidence in each table over 2 objects, 1 shown; four files over three tables with up to 3 matches each, every filter, limits 1, 2 and 4, scan limit 5; 2 packed files and 3 saves; 3 symbols in every form, two executables and a library, pages of 1 to 3 | CallPathsExact; VerdictExact; SearchExact; DriftExact; QueriesAgree |

The type invariants of Serve, Collect and ToolRunner are proved (section 6). ReplayIsExact is that
what was read is a state the log was in, and that a healthy log is never refused past its header.
DumpsAreExact is three claims: a symbol's flags are those the dump prints, its calls are
those of the latest longest list, and folds and inlining decisions are those GCC made.
PassesAreAtomic is about the link plane and the DWARF plane, whose loops can fail late. Go keeps two
idle connections; one is enough for `serve`, since a second only lets a call find one
more old connection; `Serve_OneIndexPerCall.cfg` has two, and two queries per call, and the
proof covers any number of either.

Why these bounds are enough. Two reloads are needed for one to overtake another, and a
third waits on the same mutex in the same state as the second; three files let one be
replaced between the diagnosis, the open and a query. Two collects exhibit every race
on the path, since a collect interacts with others only through names it draws and the
final rename. Both components are proved without bounds for safety. Parsers keep at most
one block or one line of lookahead, so what a line does depends on a few lines before
it: five lines hold two headers of one symbol, a break and two lists. In the passes,
rows interact in pairs (merge, displacement, shadowing), so two units or objects that
share one name meet each case; three objects define `f` so that a third candidate exists.
The reader of debugging entries looks outward along one chain, so a chain of
a unit, a function, copies and a block, with a type beside it, has every frame it can
meet. The replay of registers stops at the first parameter that is no integer, so three
parameters are one before, one at and one after the stop; six integers before a pointer
are the limit of registers. In `tools`, four symbols give two disjoint routes, a cycle and
a dead end, and the limits are smaller than what there is to find, so that each is met
below, at and above.

## 4. Where documents and code disagree

Six runs state what a document, a comment or a tool's description says, and TLC refutes each one with a behaviour of the
code; `PROJECT.json` quotes the lines.

| Run | Document | What the code does |
|---|---|---|
| `serve_one_index_per_call` | queries in flight finish against the index they started on | the handle is a pool that reopens the *path*: a call can read two artifacts |
| `collect_no_silent_clobber` | an existing index is not overwritten without `--replace` | an index that appears during the build is replaced by the final rename |
| `link_plane_weak_vs_strong_correct` | without a map weak-vs-strong stays correct | a strong definition only another executable links wins |
| `index_queries_weak_in_target` | the target restricts list_weak_symbols to symbols reachable in it | the condition is `A OR B AND C`: a symbol with a weak definition is listed for every target |
| `source_search_filters_match_list` | search_source's filters match list_source_files | with `kind=generated` a generated file inside the project is listed and not searched |
| `call_sites_line_is_the_calls` | the byte before the return address maps to the call's line | in a relocatable object every section starts at 0, and the line may be that of another function |

While the modules were written some smaller differences between a comment or document
and the code were met. The models do what the code does, and the properties above are
stated so that they hold of it; where a property leaves such a case out, it says so.

- serve: an unchecked schema can be read, for the same reason as above
  (`reload_tool.go` 147-151); the stamp `changed` is measured against is read through the
  pool, so a reload may report `changed: false` for a new file (`reload_tool.go` 38, 141).
- collect: the unknown-target error lists the array after its front was overwritten, and
  may miss a target (`collect.go` 290, 305).
- compiler plane: a clone whose parent is a clone visited later gets a USR of its own
  (`ingest.go` 397, 435); an ICF group is written without a loser that does not resolve
  (`ingest.go` 265), while the comment says that groups "whose winner or losers cannot be
  resolved" are "dropped rather than partially written" (232-234), so PruneIsExact asks for
  the row of a group only if all of its names resolve (`AllResolve`); inline tags are lost to a later list of the same length
  (`cgraph.go` 42, 248).
- link plane: two same-named statics of a target share a row even with a map, hence
  *Sole*StaticIsOwn (`link.go` 226, 262); a global may resolve to a static's row
  (`link.go` 201, 212).
- map reader: a map does not give the "Exact `winning_object`" of `INSTALL_GUIDE.md` 57. The
  symbols of an archive member with a split header go to the object before it (`Slips` in
  MapFile; `mapfile.go` 54, 135); those of other archive members are left out; a map of a
  link without archive members yields nothing, hence OriginsExact asks for a load list
  (`mapfile.go` 101). Then the nm heuristic decides although there is a map, or, for what
  slipped, the map decides wrongly: WinnerIsTheLinkers claims the linker's choice where the
  map names it, the heuristic's own claim where the map is silent, and nothing of a name the
  map misplaces (`MapIsRight`); SoleStaticIsOwn leaves out a name put in an object without
  it (`Misnamed`).
- map reader: ArchivePulls does not list all "objects the linker pulled from archives"
  (`mapfile.go` 22-24). The expressions at 69-70 want a path that ends in `.o`, so
  `libx.a(obj.o)`, the ordinary form of an entry or of its referrer, is missed, and so is an
  entry that ld prints on one line with its referrer. If only the first line of an entry
  matches, it stays pending and is filed with the referrer of a later one, a pull that did
  not happen. OriginsExact claims the entries both of whose lines match (`Readable`), and that
  there are no others only where no entry is left pending (`Hangs`).
- ninja log: Read "Returns a non-nil Log even on partial files" (`ninjadeps.go` 65-66), but a
  log whose header is cut short is an error (78-79, 86-87) and ends the pass.
- sources: `--strict` compares a file only with the objects the deps log ties to it, as
  StrictHoldsForTheBytes says (`sources.go` 377); a glob whose headers an earlier glob took
  is refused as matching nothing (`sources.go` 199); a configured source listed among plain
  sources is not flagged as generated (`sources.go` 54, 133).
- DWARF: an inline instance of a static is recorded against an external namesake, hence
  `NoCollision` in FactsBelong (`dwarf.go` 344).
- tools: enumeratePaths not always "caps at limit paths" (392): past the limit each caller on
  the stack may note one more path as the walk unwinds, which the handler cuts off
  (`callgraph_source_tools.go` 420), so CallPathsExact claims that those get shorter and
  shorter; the way from a symbol to itself is answered before the target is looked at (396),
  while the target is to "Restrict to paths whose every node is reachable in this target"
  (65), and outside the target the symbol it shows is empty (299), so nothing is claimed of
  that request (`Settled`); the verdict stops at the scan limit, hence `InScan`
  (`callgraph_runtime_tools.go` 483, 534).
- call targets: of several members of a union at one offset the first is taken, hence
  `Shared` in NoCandidateLost (`calltarget.go` 296); for a call in another section than its
  function's symbol, such as a cold partition, the relocation of unrelated code may be taken,
  hence `home = "own"` (284); a table that is static is reached through its section's symbol,
  which has no name, and stays untold (142).
- source tools: `scan_truncated` is also true when the matches end exactly at the limit
  (`source_tools.go` 807), while its comment says "true only" when the summary undercounts
  (626-627): SearchIsTrue claims both directions but for that one number; a path in both the project
  and the build tree is counted as one file, hence DistinctKeys (721).
- query tools: list_unreachable_symbols also lists symbols without any definition
  (`linkage_tools.go` 469-479), while its description is "Symbols with a definition but no
  link_resolutions row" (77): QueriesAgree requires the defined ones and leaves the others
  open; the location list_entry_points gives for `main` may be another
  executable's (545), while describe_target puts the target's own first; most tools refuse
  an unknown target, find_symbol and the neighbours' and indirect lists answer with
  nothing.

## 5. Fairness

- Serve: weak fairness for the steps of each call and each reload: a goroutine that can
  run does. Clients that send calls, and whoever publishes or removes files, owe nothing.
  No fairness is assumed of the lock beyond what `sync.RWMutex` documents, that a waiting
  writer excludes new readers; dropping that rule is the mutant of ReloadsEnd.
- Collect: weak fairness for the steps of each process; a kill is an end like any other.
  SQLite owes no checkpoint and no file system call has to succeed but the `os.Remove`s of
  removeIndexFiles, whose errors the code ignores (`collect.go` 270-277): NoLitter is about
  files that can be removed. A kill is that of the process; what a power loss does to data
  that was not synced is not modelled.
- ToolRunner: the child, the caller and the stderr goroutine are weakly fair; the child
  may die at any point but owes no death, and waits for ever only on a full pipe.

The other modules are sequential programs and state no liveness.

## 6. Proofs

**ServeProof** proves, for any Calls, Reloads, Files, Verdict, MaxIdle and MaxQueries
with `ServeAssumption` (names distinct, bounds natural): TypeCorrect, NeverUsedAfterClose,
AlwaysUsable, HandlesNeverLeak, ReloadIsABarrier and the action property NeverRegresses.

The properties are not inductive: that a closed handle is unused depends on who may be
inside. The inductive invariant `IInv` adds

- LockInv: the lock words say exactly who is in which critical section;
- QuietInv: before `main = "serving"` only startup runs;
- FileInv: the file at the path is the latest published, and whatever a handle was opened
  on was published before, which makes "newer" meaningful;
- IdleInv and HeldInv: idle connections belong to open handles, used ones to readers and
  to the served handle, and no connection is to a file older than its handle's first;
- StampInv: indexedAt uses one connection and returns it;
- HandleInv: the life of a handle by the progress of its reload.

The argument for NoUseAfterClose: a connection in use belongs to a reader and to `cur`
(HeldInv); a swap needs `readers = {}`, so when `cur` changes nothing is in use; and the
handle closed afterwards is `old # cur`. For the barrier: a reload opens the path after
taking the mutex, so its file is at least as new as what every earlier reload opened.

**CollectProof** proves, for any Collectors, Names, Passes and MaxAttempts with
`CollectAssumption`: TypeCorrect, DestAlwaysComplete, ScratchAlwaysPrivate, NeverLitters,
ExitAlwaysTruthful and CollectImplementsIndexPath. `IInv` adds NameInv (a scratch name
belongs to one collector and leads to its inode), StageInv (what has been flushed and
sealed by each stage), InstalledInv (what was installed is whole and its maker will not
touch it) and ExitInv. DestComplete follows since a collector renames only when StageInv
makes its inode whole, and no one writes an installed inode; the refinement uses the same
facts, one case per action.

**ToolRunnerProof** proves, for every output, pipe capacity and head limit
(`ToolRunnerAssumption`), TypeCorrect, OkAlwaysMeansComplete and AlwaysReaped. PipeInv says
that the pipes neither lose nor reorder: what was read and what is in the pipe are what the
child printed. CallerInv says that while there is no parse error the parser's state is what
the lines read stand for (`Parsed(n)`: the edges in order, and the current function), and
that the caller leaves its loops only at the end of the file. A child that exited with
success has printed all of its script, so at the end of the file `Parsed` is about all of it.

The compositions below run one part at a time. Each invariant is therefore about the turns
of its part, and a lemma per part says that the other parts change none of its variables.

**ReadersProof**, for every list, log and tree:

- FilterAlwaysExact. FilterInv: the array from the loop's position on is as Meson listed it,
  and its first `kept` places hold the wanted part of what was passed, by rank. The write
  never overtakes the loop since the rank of a position is at most the position.
- ReplayAlwaysExact. LogInv describes what ninja alone can have written, a torn tail and the
  recovery that truncates it included: ids count the path records before, deps refer
  backwards, only the last record is torn. PlaceInv, PathsInv and DepsInv say that the
  reader has consumed complete records only and holds exactly their paths and, for each
  output, its latest record. Logs damaged in other ways are outside the claim.
- EntriesAlwaysFiled. FrameInv: the stack of frames is the chain of open entries that are no
  type and in none; while a type reads its own children the chain goes on below the stack by
  exactly the type and what is skipped. This is why the walk resumes at the right depth.

**DumpsProof**, for every dump and map and every indirect call:

- DumpsAlwaysExact. A printing is a header of a dump and the lines up to the next header or
  blank. DumpInv: `cur` is the printing the parser is under, or there is none, and a node
  of `symbols` is the merge of the printings of its id that are over (Exact: the flags of
  all, the latest of the longest call lists). IcfInv: the groups are the foldings shown so
  far, each filed under the function GCC kept. OptInv: the records are the telling ones
  among those shown.
- CandidatesAlwaysKept. CallInv says at each stage of `resolve` that its answer is the true
  pointer or none, and at the end that it is told wherever the place has evidence.
  ParamTold: the registers used never shrink from one parameter to the next (UsedGrows), and
  where each takes one they are taken in order (UsedByIntegers), so the register in which
  the pointer came tells its parameter.
- OriginsAlwaysExact. MapPlace and MapPhase tie the cursor to the phase; MapPulls says what
  the pulls and the pending entry are, given the load list up to the cursor: every readable
  entry is among them, and while no entry hangs the pulls are those entries in their order
  and nothing is pending between two entries; MapScope that among the symbols of a
  contribution the scope is that contribution's object, or none for an archive's member,
  and that the second line of a split header is read as such; MapOrigins that each origin
  is that of a symbol listed and that no scanned symbol of a plain object is missing.
  Members of archives in split headers and hanging entries are left out, as in section 4.

**PassesProof**, for every build with the assumptions of section 2:

- Compiler: PruneAlwaysExact, AlwaysOrderIndependent. ResolvesInv: a plain node that was
  visited has its own USR, and so has a clone that was made a symbol before its turn. MergedInv:
  every record is the merge of the plain nodes observed so far and of the clones attributed to
  it (FoldMerges, CloneMerges), whatever their order; a USR that a clone is named like is left
  out, since such a record may count the clone itself (section 4). KeptInv: before the prune
  every USR a unit resolves to has a record, so the prune drops nothing that the later loops
  look up, and since they look up by the same tables, CallsInv, RecordsInv and GroupsInv can
  say that each of them wrote what ReferencedUSRs predicted.
- DWARF: FactsAlwaysBelong, AlwaysPlacedOnce, TypeAlwaysFromOneUnit. Besides the types of
  the tables the invariant says, for each definition row, that it is at line 0 or placed and,
  once its own object is enriched, placed (RowInv); that the symbols of enriched objects have
  signatures (SigInv); and that while no type is stored no walked object had one (TypesInv),
  which makes the stored members the first object's.
- Link: DefinedAlwaysWins, WinnerAlwaysTheLinkers, SoleStaticAlwaysOwn, CallNeverLost.
  LookupInv is about the rows read so far, CandidatesInv makes the scan's index the objects'
  contents, ResolutionsInv and EdgesInv describe the rows of the targets done, AddrInv the
  address index of the one in work. Nothing ties the map to the linker: the property says
  of which symbols it is right. Where it is silent, the strongest candidate is unique by the
  property's own hypothesis and PickedWins makes it the winner.
- PassesAlwaysAtomic combines both: SavedInv of the DWARF pass and LinkWalkInv, by which a
  failed pass has no rows.
- Sources: StoreAlwaysAddsUp, NothingEverSkipped, StrictAlwaysHolds, for any number of saves
  and removals. PackedInv: a table holds what its loop has been through, except what was not
  there to be read; CountInv: blobs are the contents the tables refer to, and the counts are
  cardinalities; TimesInv: mtimes do not go back, so bytes that were read are no newer than
  the mtime read after them; and a rebuilt object is newer than what was packed before, which
  is all that StrictInv needs.

**ToolsProof**, for every index:

- CallPathsAlwaysExact, for every graph, target, depth and limit. StackInv: the stack is a
  simple path from the start that does not hold the end, `visited` is its members, and each
  loop but the innermost stands at the callee that was entered. A path is *explored* when
  it leaves the stack at some loop for a callee before the loop's place (Explored).
  OutInv: what was noted is explored, each noted path comes before the next, and below the
  limit every explored path of the request is noted. Rows are sorted, so whatever is
  explored comes before the path that ends at the innermost callee: a noted path is new
  and in order. A return explores only what goes on from the stack, and a step of the loop
  only what goes on over its callee; the visited set, the depth and the end of the row each
  leave no path of the request among those. When the stack is empty everything is explored.
  The flag follows by counting: the request has finitely many paths (PathsFinite).
- SearchAlwaysExact, for every index, request and limit. ReadInv: the rows left are the end
  of the scan. TotalInv: the total is the matches of the rows read, or the scan limit if they
  reach it. ShownInv and TallyInv: the matches returned are the first of the reference, and
  the counts by file and directory are those of its first `total` matches; a row adds the
  matches that follow those, since Ends says where the matches of each row stand in the
  joined sequence. ScannedInv and ListingInv tie the rows searched to the rows listed. What
  topCounts leaves out is no larger than what it shows: otherwise whatever comes before the
  larger count would be among what comes before the smaller one. A row is told
  by its table and path, so files with matches are counted once, if no path is in two tables.
- DriftAlwaysExact, for any number of saves. Every entry was true when written
  (DriftedInv), every row passed without an entry held the packed bytes at some moment
  (OmittedInv), and without a save `past` is the present, which gives the agreement with
  verify_source.
- VerdictAlwaysExact. AccInv: the accumulator of each object is what the folded rows say of
  it, and its reason is a declining remark of its own, the IPA inliner's if there is one
  (ReasonOf). Below the scan limit the rows returned are the rows there are, up to order.
- QueriesAlwaysAgree, for every index, target and question. Nothing is read between two
  calls but the index, so the invariant says of each tool what it told: the answer is the
  query's over the index (ToldInv). The rest is about the queries: a page is a beginning of the
  rows it is cut from (Ordered), a row is told by its symbol, so distinct symbols and their
  first rows are counted alike (FirstRows), and callers and callees are read off one set of
  edges in both directions.

Two definitions had guards that overlap in a CASE, whose value TLA+ then leaves open
(the verdict of one object, the map reader's current object): the attempted proof showed it,
and they are IF chains now, in the order in which the code tests.

Only model-checked, by TLC on the instances of section 3: CallsReturn, ReloadsEnd,
CollectsEnd and Returns, which are liveness under fairness.

## 7. Abstractions

A file stands for its own `indexed_at` stamp, which collect records to the nanosecond.
An index in Collect is a count of passes. Contents are model values and hashing is
injective. Text is reduced to what the code's regular expressions tell apart. The SQL of
a pass is the set of rows it leaves; `INSERT OR IGNORE` and unique keys are modelled where
a property can see them. Refs, indirect sites and flag arrays of a cgraph node follow
the rule of the call list and are represented by it.

## 8. Plan

1. Done: Serve, Collect and IndexPath with proofs; ToolRunner; CompilerPlane, LinkPlane,
   Sources and DwarfPlane under Passes; NinjaDeps, MapFile, Cgraph, IpaDumps, DwarfReader,
   CallSites and TargetFilter under Readers; CallPaths, Verdict, SourceSearch, SourceDrift
   and IndexQueries under Tools.
2. Done: the proofs of ToolRunner and of all of Readers, Passes and Tools.
3. Extend: a module that composes Serve with Collect through IndexPath; read_source's
   ranges; preflight and builddir discovery.

## 9. Not modelled

- `gccdump/ci.go`: matches line by line and keeps nothing between lines. `inline.go`: what
  it returns is not used by ingest.
- `dwarfingest/signature.go`: renders a type as text; CallSites uses only that equal types
  render equally. In `reader.go`, typedefs and the plain attributes of an entry.
- `ingest/targets.go`: one insert per target, a pass of Collect.
- `builddir`, `mesonintrospect`, `preflight`: read files into values before the index
  exists; nondeterministic inputs here.
- `sql_tool.go`, `schema_tool.go`, `location.go`, read_source, list_targets and
  describe_type: one query or one blob under the pin of Serve, and rendering.
- `main.go`: dispatch.
