---------------------------- MODULE SourceSearch ----------------------------
(***************************************************************************)
(* list_source_files and search_source (internal/mcp/source_tools.go),     *)
(* called with the same filters.  A search walks up to three tables of     *)
(* files in order, counts every match up to a scan limit, and returns at   *)
(* most limit of them as rows.                                             *)
(*                                                                         *)
(* A file has its path, the lines its matches are on (one entry for each   *)
(* match), its kind by extension, its row's is_generated (which only the   *)
(* sources table has), and whether its blob can be read.                   *)
(***************************************************************************)
EXTENDS Naturals, Sequences, FiniteSets, Ordered

CONSTANTS
    Indexes,     \* contents of the source tables, with a target's file list
    Searches,    \* the arguments of a call
    MatchLimit,  \* searchSourceScanLimit
    MaxByFile    \* searchSourceMaxByFile

VARIABLES
    index, request,
    listing,  \* what list_source_files returned: tables and paths
    rows,     \* rows of the tables not read yet, each with its table
    resp,     \* matches, files, byFile, byDir, total, scanned
    scanFull, \* the scan limit was reached
    reply     \* what was returned

vars == <<index, request, listing, rows, resp, scanFull, reply>>

NoReply == [done |-> FALSE, refused |-> FALSE]
Refusal == [done |-> FALSE, refused |-> TRUE]
NotListed == [done |-> FALSE]

\* Rows of one table, in the order of their keys.
Keys(table) == {f.path : f \in index[table]}
Rows(table) ==
    Selected(Keys(table), [p \in Keys(table) |->
        [table |-> table, file |-> CHOOSE f \in index[table] : f.path = p]])

Files == index.sources \cup index.generated \cup index.external
Paths == {f.path : f \in Files}
Dirs == {f.dir : f \in Files}
Dir(path) == (CHOOSE f \in Files : f.path = path).dir

\* The tables, in order: a target's files are all in the first.
Tables(r) ==
    Rows("sources")
        \o (IF r.target THEN <<>> ELSE Rows("generated"))
        \o (IF r.external /\ ~r.target THEN Rows("external") ELSE <<>>)

Init ==
    /\ index \in Indexes /\ request \in Searches
    /\ rows = Tables(request)
    /\ resp = [matches |-> <<>>, files |-> {}, total |-> 0, scanned |-> 0,
               byFile |-> [p \in Paths |-> 0], byDir |-> [d \in Dirs |-> 0]]
    /\ scanFull = FALSE /\ reply = NoReply /\ listing = NotListed

\* matchesKind.
MatchesKind(row, isGenerated) ==
    CASE request.kind = "any"       -> TRUE
      [] request.kind = "generated" -> isGenerated
      [] OTHER                      -> row.file.ext = request.kind

\* path_prefix and target.
InScope(row) ==
    /\ row.file.path \in request.prefix
    /\ request.target => row.file.path \in index.targetFiles

\* list_source_files goes by the row's own flag; a file of the build tree is
\* generated and an external one is not.
Listed(row) ==
    InScope(row) /\ MatchesKind(row, row.table = "generated" \/ row.file.generated)

\* search_source goes by the table.
Admitted(row) == InScope(row) /\ MatchesKind(row, row.table = "generated")

\* filesForTarget: a target without a source list is refused.
UnknownTarget == request.target /\ index.targetFiles = {}

RefuseTarget ==
    /\ reply = NoReply /\ UnknownTarget
    /\ reply' = Refusal
    /\ UNCHANGED <<index, request, listing, rows, resp, scanFull>>

ListSourceFiles ==
    /\ listing = NotListed /\ ~UnknownTarget
    /\ LET all == Tables(request)
       IN  listing' = [done |-> TRUE,
                       files |-> Selected({k \in DOMAIN all : Listed(all[k])}, all)]
    /\ UNCHANGED <<index, request, rows, resp, scanFull, reply>>

\* A row the filters drop, or whose blob cannot be read.
SkipRow ==
    /\ listing.done /\ rows # <<>> /\ ~scanFull
    /\ ~Admitted(Head(rows)) \/ ~Head(rows).file.readable
    /\ rows' = Tail(rows)
    /\ UNCHANGED <<index, request, listing, resp, scanFull, reply>>

\* Mutant of Counted: the scan of a file stops at the row limit.
CountedToTheLimit(hits, total) ==
    IF Len(hits) + total <= request.limit THEN hits
    ELSE SubSeq(hits, 1, IF total < request.limit THEN request.limit - total ELSE 0)

\* searchInBlob: the matches of a file that are counted.
Counted(hits, total) ==
    IF Len(hits) + total <= MatchLimit THEN hits ELSE SubSeq(hits, 1, MatchLimit - total)

Match(row, line) == [table |-> row.table, path |-> row.file.path, line |-> line]

\* A row is searched: counts go on when the array of rows is full.
ScanRow ==
    /\ listing.done /\ rows # <<>> /\ ~scanFull
    /\ Admitted(Head(rows)) /\ Head(rows).file.readable
    /\ LET row == Head(rows)
           path == row.file.path
           hits == Counted(row.file.hits, resp.total)
           n == Len(hits)
           room == request.limit - Len(resp.matches)
           kept == SubSeq(hits, 1, IF room < n THEN room ELSE n)
       IN  /\ resp' =
                 [scanned |-> resp.scanned + 1, total |-> resp.total + n,
                  byFile |-> [resp.byFile EXCEPT ![path] = @ + n],
                  byDir |-> [resp.byDir EXCEPT ![Dir(path)] = @ + n],
                  files |-> IF n > 0 THEN resp.files \cup {path} ELSE resp.files,
                  matches |-> resp.matches \o [k \in DOMAIN kept |-> Match(row, kept[k])]]
           /\ scanFull' = (n > 0 /\ resp.total + n >= MatchLimit)
    /\ rows' = Tail(rows)
    /\ UNCHANGED <<index, request, listing, reply>>

\* topCounts: the largest counts, ties to the smaller key.
TopCounts(m) ==
    LET found == {k \in DOMAIN m : m[k] > 0}
        Before(j, k) == m[j] > m[k] \/ (m[j] = m[k] /\ j < k)
    IN  {k \in found : Cardinality({j \in found : Before(j, k)}) < MaxByFile}

Reply ==
    /\ listing.done /\ (rows = <<>> \/ scanFull)
    /\ reply = NoReply
    /\ reply' = [done |-> TRUE, matches |-> resp.matches, total |-> resp.total,
                 returned |-> Len(resp.matches), filesWithMatches |-> Cardinality(resp.files),
                 byFile |-> [p \in TopCounts(resp.byFile) |-> resp.byFile[p]],
                 byDir |-> [d \in TopCounts(resp.byDir) |-> resp.byDir[d]],
                 truncated |-> Len(resp.matches) < resp.total,
                 scanTruncated |-> scanFull, scanned |-> resp.scanned]
    /\ UNCHANGED <<index, request, listing, rows, resp, scanFull>>

Done == reply # NoReply /\ UNCHANGED vars

Next == RefuseTarget \/ ListSourceFiles \/ SkipRow \/ ScanRow \/ Reply \/ Done

Spec == Init /\ [][Next]_vars

-----------------------------------------------------------------------------
(* The reference: every match of every admitted file, in order.            *)
Searched ==
    LET all == Tables(request)
    IN  {k \in DOMAIN all : Admitted(all[k]) /\ all[k].file.readable}
MatchesIn(row) ==
    IF Admitted(row) /\ row.file.readable
    THEN [j \in DOMAIN row.file.hits |-> Match(row, row.file.hits[j])] ELSE <<>>
AllMatches ==
    LET all == Tables(request) IN Joined([k \in DOMAIN all |-> MatchesIn(all[k])])

Smaller(a, b) == IF a < b THEN a ELSE b
CountIn(S, ms) == Cardinality({k \in DOMAIN ms : ms[k].path \in S})
InDir(d) == {p \in Paths : Dir(p) = d}

\* No relative path names both a project file and a file of the build tree.
DistinctKeys == \A f \in index.sources, g \in index.generated : f.path # g.path

\* The description of search_source says "Filters match list_source_files
\* (target, path_prefix, kind, include_external)": a search that was not cut short
\* scans the files that tool lists for the same arguments, but for unreadable blobs.
FiltersMatchList ==
    reply.done /\ ~reply.scanTruncated =>
        reply.scanned = Cardinality({k \in DOMAIN listing.files : listing.files[k].file.readable})

\* The rows are the first matches in order; the summary counts all that were
\* scanned, whatever the row limit, in files and directories; the directories and
\* files left out have no more than those shown; truncated says truly whether rows
\* are missing, and scan_truncated whether counts are, unless there are exactly
\* MatchLimit matches: the code then sets it with nothing missing, and nothing is
\* claimed of it; and but for kind=generated the files
\* searched are those list_source_files shows for the same filters (source_tools.go:
\* "the answer an agent acts on must not be computed from a truncated scan").
SearchIsTrue ==
    reply.done =>
        LET all == Tables(request)
            matches == AllMatches
            counted == SubSeq(matches, 1, Smaller(MatchLimit, Len(matches)))
        IN
        /\ reply.matches = SubSeq(matches, 1, Smaller(request.limit, Len(counted)))
        /\ reply.total = Len(counted)
        /\ request.kind # "generated" => FiltersMatchList
        /\ reply.truncated <=> reply.returned < Len(counted)
        /\ reply.total < Len(matches) => reply.scanTruncated
        /\ reply.scanTruncated =>
              reply.total = MatchLimit /\ (Len(matches) # MatchLimit => reply.total < Len(matches))
        /\ \A p \in DOMAIN reply.byFile : reply.byFile[p] = CountIn({p}, counted)
        /\ \A d \in DOMAIN reply.byDir : reply.byDir[d] = CountIn(InDir(d), counted)
        /\ \A p \in Paths \ DOMAIN reply.byFile : \A f \in DOMAIN reply.byFile :
               CountIn({p}, counted) <= reply.byFile[f]
        /\ \A d \in Dirs \ DOMAIN reply.byDir : \A f \in DOMAIN reply.byDir :
               CountIn(InDir(d), counted) <= reply.byDir[f]
        /\ DistinctKeys => reply.filesWithMatches =
               Cardinality({k \in Searched : \E j \in DOMAIN counted :
                   counted[j].table = all[k].table /\ counted[j].path = all[k].file.path})
=============================================================================
