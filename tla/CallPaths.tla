------------------------------ MODULE CallPaths ------------------------------
(***************************************************************************)
(* list_call_paths (internal/mcp/callgraph_source_tools.go): load the      *)
(* compiler's call graph, walk it depth first, answer with at most         *)
(* ResultLimit paths.  One action is one iteration of the loop in dfs, or  *)
(* one return from it.  A symbol is its row id; ids are numbered so that   *)
(* the order of the ids is the order of the names.                         *)
(***************************************************************************)
EXTENDS Naturals, Sequences, FiniteSets, SequencesExt, Ordered

CONSTANTS Syms, EdgeSpace, Reachables, Requests, DefaultDepth, MaxDepth, ResultLimit
    \* row ids; edges call_edges may hold; symbols a target may reach; the
    \* (start, end, max_depth) asked for; the three callPath* constants

ASSUME CallPathsAssumption ==
    /\ Syms \subseteq Nat /\ IsFiniteSet(Syms)
    /\ EdgeSpace \subseteq Syms \X Syms
    /\ Reachables \subseteq SUBSET Syms
    /\ Requests \subseteq [start : Syms, end : Syms, depth : Nat]
    /\ MaxDepth \in Nat /\ DefaultDepth \in 1..MaxDepth
    /\ ResultLimit \in Nat \ {0}

\* The request names no target.
NoTarget == [given |-> FALSE, reaches |-> {}]

VARIABLES
    edges,    \* call_edges with source = 'compiler_cgraph'
    target,   \* whether a target is given, and what symbol_reachability says of it
    req,      \* the request
    pc,       \* "load", "walk", "done"
    adj,      \* adj
    stack,    \* stack
    visited,  \* visited
    pos,      \* per live call of dfs, the loop's place; 0 on entry
    out,      \* out
    answer    \* Paths and Truncated of the response

vars == <<edges, target, req, pc, adj, stack, visited, pos, out, answer>>
asked == <<edges, target, req>>

NoAnswer == [paths |-> <<>>, truncated |-> FALSE]

Depth == IF req.depth = 0 \/ req.depth > MaxDepth THEN DefaultDepth ELSE req.depth

\* One more than is shown, so that "there are more" can be told.
Limit == ResultLimit + 1

\* byID: every symbol, or the ones the target reaches.
ByID == IF target.given THEN target.reaches ELSE Syms

\* The symbols s calls.  Rows that repeat an edge collapse.
CalleesOf(s) == {c \in ByID : <<s, c>> \in edges /\ s \in ByID}

\* adj[s], by name.
Callees(s) == Selected(CalleesOf(s), [c \in CalleesOf(s) |-> c])

Init ==
    /\ edges \in SUBSET EdgeSpace
    /\ target \in {NoTarget} \cup [given : {TRUE}, reaches : Reachables]
    /\ req \in Requests
    /\ pc = "load" /\ adj = [s \in Syms |-> <<>>]
    /\ stack = <<>> /\ visited = {} /\ pos = <<>> /\ out = <<>>
    /\ answer = NoAnswer

Load ==
    /\ pc = "load" /\ pc' = "walk"
    /\ adj' = [s \in Syms |-> Callees(s)]
    /\ IF req.start = req.end
       THEN out' = <<<<req.start>>>> /\ UNCHANGED <<stack, visited, pos>>
       ELSE /\ stack' = <<req.start>> /\ visited' = {req.start} /\ pos' = <<0>>
            /\ out' = out
    /\ UNCHANGED <<asked, answer>>

Top == Len(stack)

\* Mutant of AtDepth: the depth is counted in symbols.
DepthInNodes == Top >= Depth

\* The path is as long as it may get.
AtDepth == Top - 1 >= Depth

\* delete(visited, next), by the caller of the dfs that returns.
Unvisit == visited \ {Last(stack)}

\* dfs returns; its caller drops the symbol and goes on with its loop.
Return ==
    /\ stack' = Front(stack)
    /\ visited' = Unvisit
    /\ pos' = IF Top = 1 THEN <<>>
              ELSE [Front(pos) EXCEPT ![Top - 1] = @ + 1]

Enter ==
    /\ pc = "walk" /\ stack # <<>> /\ Last(pos) = 0
    /\ IF Len(out) >= Limit \/ AtDepth
       THEN Return
       ELSE pos' = [pos EXCEPT ![Top] = 1] /\ UNCHANGED <<stack, visited>>
    /\ UNCHANGED <<asked, pc, adj, out, answer>>

\* The loop of the innermost dfs is at a callee.
Looping == pc = "walk" /\ stack # <<>> /\ Last(pos) \in 1..Len(adj[Last(stack)])
Callee == adj[Last(stack)][Last(pos)]

Skip ==
    /\ Looping /\ Callee \in visited
    /\ pos' = [pos EXCEPT ![Top] = @ + 1]
    /\ UNCHANGED <<asked, pc, adj, stack, visited, out, answer>>

\* The end is reached: note the path, and stop this call at the limit.
Found ==
    /\ Looping /\ Callee \notin visited /\ Callee = req.end
    /\ out' = Append(out, Append(stack, Callee))
    /\ IF Len(out') >= Limit
       THEN Return
       ELSE pos' = [pos EXCEPT ![Top] = @ + 1] /\ UNCHANGED <<stack, visited>>
    /\ UNCHANGED <<asked, pc, adj, answer>>

Descend ==
    /\ Looping /\ Callee \notin visited /\ Callee # req.end
    /\ stack' = Append(stack, Callee)
    /\ visited' = visited \cup {Callee}
    /\ pos' = Append(pos, 0)
    /\ UNCHANGED <<asked, pc, adj, out, answer>>

Exhausted ==
    /\ pc = "walk" /\ stack # <<>> /\ Last(pos) > Len(adj[Last(stack)])
    /\ Return
    /\ UNCHANGED <<asked, pc, adj, out, answer>>

Truncated == Len(out) > ResultLimit

Answer ==
    /\ pc = "walk" /\ stack = <<>>
    /\ pc' = "done"
    /\ answer' = [paths |-> IF Truncated THEN SubSeq(out, 1, ResultLimit) ELSE out,
                  truncated |-> Truncated]
    /\ UNCHANGED <<asked, adj, stack, visited, pos, out>>

Done == pc = "done" /\ UNCHANGED vars

Next == Load \/ Enter \/ Skip \/ Found \/ Descend \/ Exhausted \/ Answer \/ Done

Spec == Init /\ [][Next]_vars

-----------------------------------------------------------------------------
(* What a path is, from the tool's description.                            *)

\* p is a call path of the request: simple, of edges of the graph, from
\* start to end, no longer than asked for, inside the target.
IsPath(p) ==
    /\ p # <<>> /\ p[1] = req.start /\ Last(p) = req.end
    /\ Len(p) - 1 <= IF req.depth \in 1..MaxDepth THEN req.depth ELSE DefaultDepth
    /\ IsInjective(p)
    /\ \A k \in 1..Len(p) - 1 : <<p[k], p[k + 1]>> \in edges
    /\ target.given => \A k \in 1..Len(p) : p[k] \in target.reaches

AllPaths == {p \in UNION {[1..n -> Syms] : n \in 1..Cardinality(Syms)} : IsPath(p)}

\* a comes before b in the order of the names.
Before(a, b) ==
    \E k \in 1..Len(b) :
        /\ \A m \in 1..k - 1 : m <= Len(a) /\ a[m] = b[m]
        /\ k > Len(a) \/ a[k] < b[k]

\* The request does not ask for the way from a symbol outside the target to itself.
\* enumeratePaths answers that with the one symbol before it looks at the graph, while
\* the target argument is described as "paths whose every node is reachable" in it.
Settled == req.start = req.end => req.start \in ByID

\* The answer is exact.  Uncut, it holds every call path the request asks for
\* and nothing else: the depth bound, the visited set and its undoing on the
\* way back together lose no path and admit no cycle.  It is cut exactly when
\* there are more, and then shows as many as it may.  Nothing is claimed of the
\* paths of a request that is not Settled.  Paths come in the order of the names,
\* none twice, so that two runs over one index answer alike.  Once more paths are
\* noted than are shown, the walk only unwinds: a path noted after that is shorter
\* than the one before it.
AnswerIsExact ==
    pc = "done" =>
        /\ Settled =>
              /\ answer.truncated <=> Cardinality(AllPaths) > ResultLimit
              /\ IF answer.truncated
                 THEN /\ Len(answer.paths) = ResultLimit
                      /\ Range(answer.paths) \subseteq AllPaths
                 ELSE Range(answer.paths) = AllPaths
        /\ \A j \in 2..Len(out) : Before(out[j - 1], out[j])
        /\ \A j \in 2..Len(out) : j > ResultLimit + 1 => Len(out[j]) < Len(out[j - 1])
=============================================================================
