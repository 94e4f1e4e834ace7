------------------------------- MODULE Tools -------------------------------
(***************************************************************************)
(* Tools of the MCP server that compute more than one query returns:       *)
(* list_call_paths (CallPaths), explain_call (Verdict), search_source and  *)
(* list_source_files (SourceSearch), list_source_drift (SourceDrift), and  *)
(* the queries that must agree with each other (IndexQueries).  A tool     *)
(* call only reads the index it has pinned (Serve) and keeps its working   *)
(* state on its own goroutine, so a behaviour of this module is one call   *)
(* of one tool, or one agent's questions, and the state of the others is   *)
(* idle.                                                                   *)
(***************************************************************************)
EXTENDS CallPaths

CONSTANTS Objects, Reasons, MaxRows, ScanLimit, RowLimit   \* of Verdict
CONSTANTS Indexes, Searches, MatchLimit, MaxByFile         \* of SourceSearch
CONSTANTS SourcePaths, Contents, MaxSaves                  \* of SourceDrift
CONSTANTS NameCount, Main, Catalogs, Questions, FindLimit, NeighborLimit \* of IndexQueries

VARIABLES
    tool,  \* the tool that was called
    recs, insts, stage, records, instances, next, acc, echo, response,       \* Verdict
    index, request, listing, rows, resp, scanFull, reply,                    \* SourceSearch
    indexed, wanted, live, past, saves, cursor, drifted, checked, outcome,     \* SourceDrift
    cat, q, told                                                             \* IndexQueries

Explain == INSTANCE Verdict
Search  == INSTANCE SourceSearch
Drift   == INSTANCE SourceDrift
Query   == INSTANCE IndexQueries

\* The rows of the sources table are a sequence, and no content is an absence.
ASSUME DriftAssumption ==
    SourcePaths \in Seq(ToSet(SourcePaths)) /\ {Drift!Gone, Drift!Unreadable} \cap Contents = {}

\* Objects are numbered in the order of their names.
ASSUME VerdictAssumption == Objects \in SUBSET Nat /\ ScanLimit \in Nat /\ RowLimit \in Nat

\* Keys of a table are numbered in their order, an external file's is an absolute path,
\* and the limits are as the code has them.
ASSUME SearchAssumption ==
    /\ MatchLimit \in Nat \ {0} /\ MaxByFile \in Nat /\ \A r \in Searches : r.limit \in Nat
    /\ \A x \in Indexes :
          /\ \A t \in {"sources", "generated", "external"} :
                IsFiniteSet(x[t]) /\ \A f \in x[t] : f.path \in Nat /\ f.hits \in Seq(Nat)
          /\ \A f \in x.external, g \in x.sources \cup x.generated : f.path # g.path

\* The tables of an index are sequences of rows, a type is no enumeration constant, and
\* a limit is at least 1 (rowLimit).
ASSUME QueryAssumption ==
    /\ NameCount \in Nat /\ FindLimit \in Nat /\ NeighborLimit \in Nat
    /\ \A x \in Questions : x.limit \in Nat \ {0}
    /\ \A c \in Catalogs :
          /\ \A s \in 1..NameCount : c.defs[s] \in Seq(ToSet(c.defs[s]))
          /\ \A t \in DOMAIN c.kind : c.linked[t] \subseteq 1..NameCount
          /\ \A t \in {"sites", "remarks", "bodies", "decisions", "types", "constants"} :
                c[t] \in Seq(ToSet(c[t]))
          /\ \A k \in DOMAIN c.remarks : c.remarks[k].inlined \in BOOLEAN
          /\ \A k \in DOMAIN c.types : c.types[k].kind # "enum_constant"
          /\ \A k \in DOMAIN c.constants : c.constants[k].kind = "enum_constant"

explain == <<recs, insts, stage, records, instances, next, acc, echo, response>>
search  == <<index, request, listing, rows, resp, scanFull, reply>>
drift   == <<indexed, wanted, live, past, saves, cursor, drifted, checked, outcome>>
query   == <<cat, q, told>>

PathsIdle ==
    /\ edges = {} /\ target = NoTarget /\ req = <<>> /\ pc = "" /\ adj = <<>>
    /\ stack = <<>> /\ visited = {} /\ pos = <<>> /\ out = <<>> /\ answer = NoAnswer

ExplainIdle ==
    /\ recs = <<>> /\ insts = <<>> /\ stage = "" /\ records = <<>> /\ instances = <<>>
    /\ next = 0 /\ acc = <<>> /\ echo = <<>> /\ response = <<>>

SearchIdle ==
    /\ index = <<>> /\ request = <<>> /\ listing = <<>> /\ rows = <<>> /\ resp = <<>>
    /\ scanFull = FALSE /\ reply = <<>>

DriftIdle ==
    /\ indexed = <<>> /\ wanted = {} /\ live = <<>> /\ past = <<>> /\ saves = 0
    /\ cursor = 0 /\ drifted = <<>> /\ checked = 0 /\ outcome = ""

QueryIdle == cat = <<>> /\ q = <<>> /\ told = <<>>

ToolInit ==
    /\ tool \in {"list_call_paths", "explain_call", "search_source", "list_source_drift", "queries"}
    /\ IF tool = "list_call_paths"   THEN Init         ELSE PathsIdle
    /\ IF tool = "explain_call"      THEN Explain!Init ELSE ExplainIdle
    /\ IF tool = "search_source"     THEN Search!Init  ELSE SearchIdle
    /\ IF tool = "list_source_drift" THEN Drift!Init   ELSE DriftIdle
    /\ IF tool = "queries"           THEN Query!Init   ELSE QueryIdle

ListCallPaths ==
    /\ tool = "list_call_paths" /\ Next
    /\ UNCHANGED <<tool, explain, search, drift, query>>

ExplainCall ==
    /\ tool = "explain_call" /\ Explain!Next
    /\ UNCHANGED <<tool, vars, search, drift, query>>

SearchSource ==
    /\ tool = "search_source" /\ Search!Next
    /\ UNCHANGED <<tool, vars, explain, drift, query>>

ListSourceDrift ==
    /\ tool = "list_source_drift" /\ Drift!Next
    /\ UNCHANGED <<tool, vars, explain, search, query>>

AskQueries ==
    /\ tool = "queries" /\ Query!Next
    /\ UNCHANGED <<tool, vars, explain, search, drift>>

ToolNext == ListCallPaths \/ ExplainCall \/ SearchSource \/ ListSourceDrift \/ AskQueries

ToolSpec == ToolInit /\ [][ToolNext]_<<tool, vars, explain, search, drift, query>>

-----------------------------------------------------------------------------
(* Properties: what each tool promises of its own answer.                  *)

\* list_call_paths answers with every simple call path within the depth and
\* the target, in the order of the names, and says truthfully whether it cut
\* the list, unless it was asked for the way from a symbol outside the target to
\* itself (callgraph_source_tools.go).
CallPathsExact == tool = "list_call_paths" => AnswerIsExact

\* explain_call's verdict and reason are those of the whole evidence, however
\* few rows it was asked to show (callgraph_runtime_tools.go).
VerdictExact == tool = "explain_call" => Explain!VerdictIsTheEvidences

\* A search's summary counts every match that was scanned however few are shown,
\* and its flags say what is missing, but for scan_truncated when the matches just
\* fill the limit (source_tools.go handleSearchSource).
SearchExact == tool = "search_source" => Search!SearchIsTrue

\* A drift report over a checkout that is being edited is true file by file, and
\* agrees with verify_source when nothing was edited (source_tools.go).
DriftExact == tool = "list_source_drift" => Drift!DriftIsTrue

\* Eighteen query tools tell one story about a target (linkage_tools.go and the
\* others named in IndexQueries).
QueriesAgree == tool = "queries" => Query!AnswersAgree
=============================================================================
