------------------------------ MODULE Sources ------------------------------
(***************************************************************************)
(* ingest.Sources (internal/ingest/sources.go) over blobstore.Writer: pack *)
(* every file the build touched.  The list of files comes from Meson and   *)
(* from the .ninja_deps log; the files are then read one by one while an   *)
(* editor may still be saving or removing them.                            *)
(*                                                                         *)
(* A path is abstracted to the file and to where it lies: "project",       *)
(* "inTree" (a builddir inside --project-root), "builddir" (outside it) or *)
(* "outside" both.  A content stands for its SHA-256.                      *)
(***************************************************************************)
EXTENDS Naturals, Sequences, SequencesExt, FiniteSets

CONSTANTS
    Paths,     \* every file and object, in sort.Strings order
    Inputs,    \* the builds to pack
    MaxEdits   \* bound: saves and removals during the pass

(***************************************************************************)
(* A build is [sources, generated, log, deps, place, globs, strict, disk]: *)
(* Meson's target sources and generated sources; whether there is a        *)
(* .ninja_deps, and what it records per object; where each file lies; the  *)
(* --include-external globs, each [raw, files] with the files it matches;  *)
(* --strict; and the initial disk, path -> [content, mtime].               *)
(***************************************************************************)
VARIABLES
    build, disk, edits,
    pc,
    entries,      \* entries: file -> [isGenerated, required, consumers]
    genEntries,   \* generatedEntries
    extEntries,   \* externalEntries
    globHits,     \* globHits: raw pattern -> headers credited to it
    todo,         \* the keys still to pack
    hold,         \* content and mtime as os.ReadFile saw them
    blobs,        \* the blobs table
    sources, generated, external,  \* the three tables: file -> what was read
    sum           \* SourcesSummary

tables == <<blobs, sources, generated, external, sum>>
crawl  == <<build, entries, genEntries, extEntries, globHits>>
vars   == <<crawl, disk, edits, pc, todo, hold, tables>>

\* The counters of the summary.
Tallies == {"files", "blobs", "dups", "generated",
            "extFiles", "extBlobs", "genFiles", "genBlobs"}
NoRows == [t \in Tallies |-> 0]

Init ==
    /\ build \in Inputs /\ disk = build.disk /\ edits = 0
    /\ pc = "crawl"
    /\ entries = <<>> /\ genEntries = {} /\ extEntries = {} /\ globHits = <<>>
    /\ todo = {} /\ hold = <<>>
    /\ blobs = {} /\ sources = <<>> /\ generated = <<>> /\ external = <<>>
    /\ sum = NoRows

-----------------------------------------------------------------------------
(* Passes 1 and 2: which files, and which table each belongs to.           *)

\* ToProjectRelative(f).InProject and isUnderBuildDir(f).
InProject(f)     == build.place[f] \in {"project", "inTree"}
UnderBuildDir(f) == build.place[f] \in {"inTree", "builddir"}

BuiltObjects == DOMAIN build.deps

\* The deps log; without one no object has any.
DepsFor(o) == IF build.log THEN build.deps[o] ELSE {}

Deps == UNION {DepsFor(o) : o \in BuiltObjects}

Required == build.sources \cup {f \in build.generated : InProject(f)}

\* mark merges the flags monotonically.
Entries ==
    [f \in Required \cup {d \in Deps : InProject(d)} |->
        [isGenerated |-> f \in build.generated \/ (f \in Deps /\ UnderBuildDir(f)),
         required    |-> f \in Required,
         consumers   |-> {o \in BuiltObjects : f \in DepsFor(o)}]]

\* Mutant of GeneratedEntries: only what Meson calls generated.
GeneratedByMeson == {f \in build.generated : ~InProject(f)}

GeneratedEntries ==
    {f \in build.generated : ~InProject(f)}
      \cup {d \in Deps : ~InProject(d) /\ UnderBuildDir(d)}

External == {d \in Deps : ~InProject(d) /\ ~UnderBuildDir(d)}

\* Only the first glob that matches a header is credited with it.
FirstGlob(f) ==
    LET hits == {g \in DOMAIN build.globs : f \in build.globs[g].files}
    IN  IF hits = {} THEN 0 ELSE CHOOSE g \in hits : \A h \in hits : g <= h

GlobHits ==
    LET credited(f, raw) == FirstGlob(f) # 0 /\ build.globs[FirstGlob(f)].raw = raw
    IN  [raw \in {g.raw : g \in ToSet(build.globs)} |->
            Cardinality({p \in BuiltObjects \X External :
                            p[2] \in DepsFor(p[1]) /\ credited(p[2], raw)})]

\* A source Meson lists outside the project, or a generated one outside both.
Misplaced ==
    \/ \E f \in build.sources : ~InProject(f)
    \/ \E f \in build.generated : ~InProject(f) /\ ~UnderBuildDir(f)

Position(f) == CHOOSE i \in DOMAIN Paths : Paths[i] = f

\* sort.Strings over the keys: the first of them is next.
Key == CHOOSE f \in todo : \A g \in todo : Position(f) <= Position(g)

Crawl ==
    /\ pc = "crawl" /\ ~Misplaced
    /\ entries' = Entries /\ genEntries' = GeneratedEntries
    /\ extEntries' = {f \in External : FirstGlob(f) # 0}
    /\ globHits' = GlobHits
    /\ todo' = DOMAIN Entries
    /\ pc' = "sources"
    /\ UNCHANGED <<build, disk, edits, hold, tables>>

-----------------------------------------------------------------------------
(* blobstore.                                                              *)

\* Mutant of IsNew: the probe for an existing blob is forgotten.
IsNewAlways(content) == TRUE

\* putBlob: whether the blob is a new one, and storing it.
IsNew(content) == content \notin blobs
PutBlob(content) == blobs' = blobs \cup {content}

\* The upsert of one row, after its blob.
Upsert(table, f, row) ==
    [g \in DOMAIN table \cup {f} |-> IF g = f THEN row ELSE table[g]]

\* The summary once each counter of S has been incremented.
Counted(S) == [t \in Tallies |-> IF t \in S THEN sum[t] + 1 ELSE sum[t]]

BlobTally(content) == IF IsNew(content) THEN "blobs" ELSE "dups"

-----------------------------------------------------------------------------
(* The packing loops.                                                      *)

Rollback ==
    /\ blobs' = {} /\ sources' = <<>> /\ generated' = <<>> /\ external' = <<>>
    /\ sum' = NoRows

Fail(why) == pc' = why /\ Rollback /\ UNCHANGED <<crawl, disk, edits, todo, hold>>

RefuseMisplaced == pc = "crawl" /\ Misplaced /\ Fail("misplaced")

\* ninjadeps.ReadForBuildDir's errors: the log is malformed or unreadable.
RefuseLog == pc = "crawl" /\ ~Misplaced /\ build.log /\ Fail("log")

ReadSource ==
    /\ pc = "sources" /\ todo # {} /\ Key \in DOMAIN disk
    /\ hold' = disk[Key]
    /\ pc' = "check"
    /\ UNCHANGED <<crawl, disk, edits, todo, tables>>

\* A missing file is an error only for what Meson lists.
Missing(f) == entries[f].required

RefuseMissing ==
    /\ pc = "sources" /\ todo # {} /\ Key \notin DOMAIN disk
    /\ Missing(Key)
    /\ Fail("missing")

\* Any other read error ends the pass, in each of the loops.
RefuseUnreadable ==
    /\ pc \in {"sources", "generated", "external"} /\ todo # {}
    /\ Key \in DOMAIN disk
    /\ Fail("unreadable")

SkipMissing ==
    /\ pc = "sources" /\ todo # {} /\ Key \notin DOMAIN disk
    /\ ~Missing(Key)
    /\ todo' = todo \ {Key}
    /\ UNCHANGED <<crawl, disk, edits, pc, hold, tables>>

\* Mutant of StrictOK: one consumer that is new enough will do.
StrictOKSome(f) ==
    entries[f].consumers # {} =>
        /\ f \in DOMAIN disk
        /\ \E o \in entries[f].consumers \cap DOMAIN disk : disk[f].mtime <= disk[o].mtime

\* checkStrictMtime: an object that has vanished is not second-guessed, a
\* source that has is an error.
StrictOK(f) ==
    entries[f].consumers # {} =>
        /\ f \in DOMAIN disk
        /\ \A o \in entries[f].consumers \cap DOMAIN disk : disk[f].mtime <= disk[o].mtime

RefuseStrict ==
    /\ pc = "check" /\ build.strict /\ ~StrictOK(Key)
    /\ Fail("strict")

Put ==
    /\ pc = "check" /\ (build.strict => StrictOK(Key))
    /\ PutBlob(hold.content)
    /\ sources' = Upsert(sources, Key, [row |-> hold, isGenerated |-> entries[Key].isGenerated])
    /\ sum' = Counted({"files", BlobTally(hold.content)}
                        \cup (IF entries[Key].isGenerated THEN {"generated"} ELSE {}))
    /\ todo' = todo \ {Key} /\ pc' = "sources"
    /\ UNCHANGED <<crawl, disk, edits, hold, generated, external>>

PutGenerated ==
    /\ pc = "generated" /\ todo # {} /\ Key \in DOMAIN disk
    /\ PutBlob(disk[Key].content)
    /\ generated' = Upsert(generated, Key, disk[Key])
    /\ sum' = Counted({"genFiles", BlobTally(disk[Key].content)}
                        \cup (IF IsNew(disk[Key].content) THEN {"genBlobs"} ELSE {}))
    /\ todo' = todo \ {Key}
    /\ UNCHANGED <<crawl, disk, edits, pc, hold, sources, external>>

PutExternal ==
    /\ pc = "external" /\ todo # {} /\ Key \in DOMAIN disk
    /\ PutBlob(disk[Key].content)
    /\ external' = Upsert(external, Key, disk[Key])
    /\ sum' = Counted({"extFiles", BlobTally(disk[Key].content)}
                        \cup (IF IsNew(disk[Key].content) THEN {"extBlobs"} ELSE {}))
    /\ todo' = todo \ {Key}
    /\ UNCHANGED <<crawl, disk, edits, pc, hold, sources, generated>>

SkipGone ==
    /\ pc \in {"generated", "external"} /\ todo # {} /\ Key \notin DOMAIN disk
    /\ todo' = todo \ {Key}
    /\ UNCHANGED <<crawl, disk, edits, pc, hold, tables>>

NextLoop ==
    /\ todo = {}
    /\ \/ pc = "sources" /\ pc' = "generated" /\ todo' = genEntries
       \/ pc = "generated" /\ pc' = "external" /\ todo' = extEntries
    /\ UNCHANGED <<crawl, disk, edits, hold, tables>>

ZeroMatch == \E raw \in DOMAIN globHits : globHits[raw] = 0

RefuseZeroMatch == pc = "external" /\ todo = {} /\ ZeroMatch /\ Fail("globs")

Commit ==
    /\ pc = "external" /\ todo = {} /\ ~ZeroMatch
    /\ pc' = "done"
    /\ UNCHANGED <<crawl, disk, edits, todo, hold, tables>>

-----------------------------------------------------------------------------
(* The user's editor, build and cleanup jobs, at any moment.               *)

\* The clock has passed every mtime of the build.
Now == 9

Running == pc \in {"crawl", "sources", "check", "generated", "external"}

\* A source is saved, or an object rebuilt.
Save(f) ==
    /\ Running /\ edits < MaxEdits /\ f \in DOMAIN disk
    /\ disk' = [disk EXCEPT ![f] = [content |-> "edited", mtime |-> Now]]
    /\ edits' = edits + 1
    /\ UNCHANGED <<crawl, pc, todo, hold, tables>>

Unlink(f) ==
    /\ Running /\ edits < MaxEdits /\ f \in DOMAIN disk
    /\ disk' = [g \in DOMAIN disk \ {f} |-> disk[g]]
    /\ edits' = edits + 1
    /\ UNCHANGED <<crawl, pc, todo, hold, tables>>

Stopped == ~Running /\ UNCHANGED vars

Next ==
    \/ Crawl \/ RefuseMisplaced \/ RefuseLog
    \/ ReadSource \/ RefuseMissing \/ RefuseUnreadable \/ SkipMissing \/ RefuseStrict \/ Put
    \/ PutGenerated \/ PutExternal \/ SkipGone \/ NextLoop
    \/ RefuseZeroMatch \/ Commit
    \/ \E f \in ToSet(Paths) : Save(f) \/ Unlink(f)
    \/ Stopped

Spec == Init /\ [][Next]_vars

-----------------------------------------------------------------------------
(* Properties.                                                             *)

Stored ==
    {sources[f].row.content : f \in DOMAIN sources}
      \cup {generated[f].content : f \in DOMAIN generated}
      \cup {external[f].content : f \in DOMAIN external}

\* The three tables share one blob store: a blob is there exactly if a row
\* refers to it, and the summary printed to the user adds up, although equal
\* contents meet across the three loops and files change under them.
StoreAddsUp ==
    /\ blobs = Stored
    /\ sum["blobs"] = Cardinality(blobs)
    /\ sum["files"] + sum["genFiles"] + sum["extFiles"] = sum["blobs"] + sum["dups"]
    /\ sum["files"] = Cardinality(DOMAIN sources)
    /\ sum["genFiles"] = Cardinality(DOMAIN generated)
    /\ sum["extFiles"] = Cardinality(DOMAIN external)

\* sources.go 48-50: blob coverage and USR coverage stay in lockstep.  An index
\* is not produced without each source Meson lists, whenever it was lost, and
\* every file the log names, if it was there to be read, is in exactly the
\* table of the place it lies in.
NothingSkipped ==
    pc = "done" =>
        /\ Required \subseteq DOMAIN sources
        /\ \A f \in Deps \cap DOMAIN disk :
            /\ InProject(f) <=> f \in DOMAIN sources
            /\ ~InProject(f) /\ UnderBuildDir(f) <=> f \in DOMAIN generated
            /\ f \in External /\ FirstGlob(f) # 0 <=> f \in DOMAIN external

\* With --strict the bytes packed (not merely the file as it is later) are no
\* newer than any object the log ties to them, although the file is read
\* before its mtime and the objects' are, and either may be rewritten between.
StrictHoldsForTheBytes ==
    pc = "done" /\ build.strict =>
        \A f \in DOMAIN sources : \A o \in entries[f].consumers \cap DOMAIN disk :
            sources[f].row.mtime <= disk[o].mtime
=============================================================================
