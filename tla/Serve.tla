------------------------------- MODULE Serve -------------------------------
(***************************************************************************)
(* The serving half of herbarium: `herbarium serve` opens one .hbr path    *)
(* read-only, answers tool calls concurrently from it, and swaps the open  *)
(* handle when the reload_index tool is called.                            *)
(*                                                                         *)
(* Three pieces of code meet here.  cmd/herbarium/serve.go opens and       *)
(* validates the index; internal/mcp/mcp.go wraps every tool handler in a  *)
(* read lock (pinIndex); internal/mcp/reload_tool.go reopens the path and  *)
(* swaps the handle under the write lock.  The handle is a Go *sql.DB: a   *)
(* pool that opens a further connection, BY PATH, whenever a query finds   *)
(* no idle one.  The pool and the RWMutex are library code, modelled from  *)
(* how src/ uses them.                                                     *)
(*                                                                         *)
(* A file is an inode: `collect --replace` renames a new inode onto the    *)
(* path, so a file is published at most once and never changes afterwards. *)
(* A file also stands for its own indexed_at stamp, which collect records  *)
(* with nanosecond precision so that two artifacts never share one.        *)
(***************************************************************************)
EXTENDS Naturals, FiniteSets, Functions

CONSTANTS
    Calls,      \* tool-call slots: how many calls the transport runs at once
    Reloads,    \* reload_index calls, each of which runs once
    Files,      \* inodes that may come to sit at the served path
    Verdict,    \* what store and describeIndex make of each file
    MaxIdle,    \* idle connections a *sql.DB keeps (database/sql: 2)
    MaxQueries, \* bound: queries one tool call issues
    Startup,    \* the handle runServe opens; a reload's handle is its name
    NoFile,     \* nothing at the path
    Nobody      \* no holder

Users == Calls \cup Reloads
Handles == {Startup} \cup Reloads

(***************************************************************************)
(* "diagnose": DiagnosePath refuses it (a directory, empty, unreadable);   *)
(* "open": SQLite cannot open it; "schema": it opens, but it is no         *)
(* herbarium index or carries another schema_version; "ok": it serves.     *)
(***************************************************************************)
Verdicts == {"diagnose", "open", "schema", "ok"}

ASSUME ServeAssumption ==
    /\ Calls \cap Reloads = {}
    /\ Startup \notin Reloads
    /\ NoFile \notin Files
    /\ Nobody \notin Users
    /\ Verdict \in [Files -> Verdicts]
    /\ MaxIdle \in Nat
    /\ MaxQueries \in Nat

VARIABLES
    path,     \* the file at the served path, or NoFile
    pub,      \* pub[f]: when f was renamed onto the path, 0 if never
    clock,    \* number of publications so far
    main,     \* runServe's progress
    cur,      \* Server.db: the handle tool handlers read
    handle,   \* handle[h]: "none", "open" or "closed"
    origin,   \* origin[h]: the file h's first connection opened
    idle,     \* idle[h][f]: idle connections of pool h that opened f
    held,     \* held[u][h][f]: such connections that u is querying on
    readers,  \* Server.mu: who holds the read lock
    writer,   \* Server.mu: who has announced or holds the write lock
    mutex,    \* Server.reloadMu
    callPC,   \* progress of each tool call
    budget,   \* queries each running call may still issue
    saw,      \* files a running call has read rows from
    relPC,    \* progress of each reload
    old,      \* Reload's local `old`
    prev      \* ReloadResponse.PreviousIndexedAt, as the file it names

fsVars   == <<path, pub, clock>>
poolVars == <<handle, origin, idle, held>>
lockVars == <<readers, writer, mutex>>
callVars == <<callPC, budget, saw>>
relVars  == <<relPC, old, prev>>
vars == <<path, pub, clock, main, cur, handle, origin, idle, held,
          readers, writer, mutex, callPC, budget, saw, relPC, old, prev>>

NoConns == [f \in Files |-> 0]

PathOK ==
    /\ path \in Files \cup {NoFile}
    /\ pub \in [Files -> Nat]
    /\ clock \in Nat

PoolOK ==
    /\ handle \in [Handles -> {"none", "open", "closed"}]
    /\ origin \in [Handles -> Files \cup {NoFile}]
    /\ idle \in [Handles -> [Files -> Nat]]
    /\ held \in [Users -> [Handles -> [Files -> Nat]]]

LockOK ==
    /\ readers \subseteq Users
    /\ writer \in Reloads \cup {Nobody}
    /\ mutex \in Reloads \cup {Nobody}

CallOK ==
    /\ callPC \in [Calls -> {"idle", "rlock", "run"}]
    /\ budget \in [Calls -> 0..MaxQueries]
    /\ saw \in [Calls -> SUBSET Files]

ReloadOK ==
    /\ relPC \in [Reloads -> {"idle", "mutex", "diagnose", "open", "describe",
                              "rlock", "query", "stamp", "lock", "pending",
                              "close", "done", "refused"}]
    /\ old \in [Reloads -> Handles]
    /\ prev \in [Reloads -> Files \cup {NoFile}]

\* The types of the server's state; connection counts never go negative.
TypeOK ==
    /\ main \in {"diagnose", "open", "check", "serving", "exit"}
    /\ cur \in Handles
    /\ PathOK
    /\ PoolOK
    /\ LockOK
    /\ CallOK
    /\ ReloadOK

Init ==
    /\ path \in Files \cup {NoFile}
    /\ pub = [f \in Files |-> IF f = path THEN 1 ELSE 0]
    /\ clock = 1
    /\ main = "diagnose"
    /\ cur = Startup
    /\ handle = [h \in Handles |-> "none"]
    /\ origin = [h \in Handles |-> NoFile]
    /\ idle = [h \in Handles |-> NoConns]
    /\ held = [u \in Users |-> [h \in Handles |-> NoConns]]
    /\ readers = {}
    /\ writer = Nobody
    /\ mutex = Nobody
    /\ callPC = [c \in Calls |-> "idle"]
    /\ budget = [c \in Calls |-> 0]
    /\ saw = [c \in Calls |-> {}]
    /\ relPC = [r \in Reloads |-> "idle"]
    /\ old = [r \in Reloads |-> Startup]
    /\ prev = [r \in Reloads |-> NoFile]

-----------------------------------------------------------------------------
(* The world around the server: what happens to the served path.           *)

\* `collect --replace` (or a first collect) renames a fresh inode in.
Publish(f) ==
    /\ pub[f] = 0
    /\ path' = f
    /\ clock' = clock + 1
    /\ pub' = [pub EXCEPT ![f] = clock + 1]
    /\ UNCHANGED <<main, cur, poolVars, lockVars, callVars, relVars>>

\* Somebody removes the index from the path.
Remove ==
    /\ path # NoFile
    /\ path' = NoFile
    /\ UNCHANGED <<pub, clock, main, cur, poolVars, lockVars, callVars, relVars>>

-----------------------------------------------------------------------------
(* store.DiagnosePath, store.OpenReadOnly and the *sql.DB pool.            *)

DiagnosePath == path # NoFile /\ Verdict[path] # "diagnose"

\* What one connection attempt by path would succeed on, at this instant.
\* A file DiagnosePath refuses is one SQLite cannot use either.
CanConnect == path # NoFile /\ Verdict[path] \notin {"diagnose", "open"}

\* OpenReadOnly: Ping makes the pool's first connection and leaves it idle.
OpenReadOnly(h) ==
    /\ handle' = [handle EXCEPT ![h] = "open"]
    /\ origin' = [origin EXCEPT ![h] = path]
    /\ idle' = [idle EXCEPT ![h][path] = 1]
    /\ UNCHANGED held

\* (*sql.DB).Close on a handle: its idle connections go with it.
CloseHandle(h) ==
    /\ handle' = [handle EXCEPT ![h] = "closed"]
    /\ idle' = [idle EXCEPT ![h] = NoConns]
    /\ UNCHANGED <<origin, held>>

NoIdle(h) == idle[h] = NoConns

IdleCount(h) == FoldFunction(LAMBDA n, sum : n + sum, 0, idle[h])

\* A query takes an idle connection whatever file it opened, ...
TakeIdle(u, h, f) ==
    /\ idle[h][f] > 0
    /\ idle' = [idle EXCEPT ![h][f] = @ - 1]
    /\ held' = [held EXCEPT ![u][h][f] = @ + 1]
    /\ UNCHANGED <<handle, origin>>

\* ... and only when there is none does the pool open the path again.
OpenMore(u, h, f) ==
    /\ NoIdle(h)
    /\ CanConnect
    /\ f = path
    /\ held' = [held EXCEPT ![u][h][f] = @ + 1]
    /\ UNCHANGED <<handle, origin, idle>>

Acquire(u, h, f) == TakeIdle(u, h, f) \/ OpenMore(u, h, f)

\* Mutant of Release: rows that are closed twice hand their connection back twice.
ReleaseTwice(u, h, f) ==
    /\ held' = [held EXCEPT ![u][h][f] = @ - 1]
    /\ idle' = [idle EXCEPT ![h][f] = @ + 1]
    /\ UNCHANGED <<handle, origin>>

\* Rows closed: the connection returns to the pool, or is dropped when the
\* pool already keeps MaxIdle or the handle has been closed.
Release(u, h, f) ==
    /\ held[u][h][f] > 0
    /\ held' = [held EXCEPT ![u][h][f] = @ - 1]
    /\ idle' = IF handle[h] = "open" /\ IdleCount(h) < MaxIdle
               THEN [idle EXCEPT ![h][f] = @ + 1]
               ELSE idle
    /\ UNCHANGED <<handle, origin>>

-----------------------------------------------------------------------------
(* cmd/herbarium/serve.go: startup.                                        *)

StartDiagnose ==
    /\ main = "diagnose"
    /\ main' = IF DiagnosePath THEN "open" ELSE "exit"
    /\ UNCHANGED <<fsVars, cur, poolVars, lockVars, callVars, relVars>>

StartOpen ==
    /\ main = "open"
    /\ \/ /\ CanConnect
          /\ OpenReadOnly(Startup)
          /\ main' = "check"
       \/ /\ ~CanConnect
          /\ main' = "exit"
          /\ UNCHANGED poolVars
    /\ UNCHANGED <<fsVars, cur, lockVars, callVars, relVars>>

\* The schema_version query runs on the connection Ping left idle.
StartCheck ==
    /\ main = "check"
    /\ \/ /\ Verdict[origin[Startup]] = "ok"
          /\ main' = "serving"
          /\ UNCHANGED poolVars
       \/ /\ Verdict[origin[Startup]] # "ok"
          /\ main' = "exit"
          /\ CloseHandle(Startup)
    /\ UNCHANGED <<fsVars, cur, lockVars, callVars, relVars>>

-----------------------------------------------------------------------------
(* internal/mcp/mcp.go: pinIndex around every tool handler but reload's.   *)

\* Mutant of RLockFree: a lock that lets readers overtake a waiting writer.
RLockAlways == TRUE

\* sync.RWMutex: an announced writer keeps new readers out.
RLockFree == writer = Nobody

\* A client sends a tool call.
Arrive(c) ==
    /\ main = "serving"
    /\ callPC[c] = "idle"
    /\ callPC' = [callPC EXCEPT ![c] = "rlock"]
    /\ UNCHANGED <<fsVars, main, cur, poolVars, lockVars, budget, saw, relVars>>

\* Mutant of PinIndex: the handler runs without the read lock.
PinIndexUnlocked(c) ==
    /\ callPC[c] = "rlock"
    /\ callPC' = [callPC EXCEPT ![c] = "run"]
    /\ budget' = [budget EXCEPT ![c] = MaxQueries]
    /\ saw' = [saw EXCEPT ![c] = {}]
    /\ UNCHANGED <<fsVars, main, cur, poolVars, lockVars, relVars>>

\* pinIndex takes the read lock and enters the handler.
PinIndex(c) ==
    /\ callPC[c] = "rlock"
    /\ RLockFree
    /\ readers' = readers \cup {c}
    /\ callPC' = [callPC EXCEPT ![c] = "run"]
    /\ budget' = [budget EXCEPT ![c] = MaxQueries]
    /\ saw' = [saw EXCEPT ![c] = {}]
    /\ UNCHANGED <<fsVars, main, cur, poolVars, writer, mutex, relVars>>

\* s.db.Query / s.db.QueryRow inside a handler.  Handlers issue several, and
\* some while the rows of an earlier one are still open.
Query(c, f) ==
    /\ callPC[c] = "run"
    /\ budget[c] > 0
    /\ Acquire(c, cur, f)
    /\ budget' = [budget EXCEPT ![c] = @ - 1]
    /\ saw' = [saw EXCEPT ![c] = @ \cup {f}]
    /\ UNCHANGED <<fsVars, main, cur, lockVars, callPC, relVars>>

\* A query that needs a further connection while the path cannot be opened.
QueryFails(c) ==
    /\ callPC[c] = "run"
    /\ budget[c] > 0
    /\ NoIdle(cur)
    /\ ~CanConnect
    /\ budget' = [budget EXCEPT ![c] = @ - 1]
    /\ UNCHANGED <<fsVars, main, cur, poolVars, lockVars, callPC, saw, relVars>>

\* rows.Close, or QueryRow's Scan.
CloseRows(c, h, f) ==
    /\ callPC[c] = "run"
    /\ Release(c, h, f)
    /\ UNCHANGED <<fsVars, main, cur, lockVars, callVars, relVars>>

\* The handler returns, fails or panics; its deferred rows.Close calls have
\* run, and pinIndex's deferred RUnlock runs now.
Return(c) ==
    /\ callPC[c] = "run"
    /\ held[c] = [h \in Handles |-> NoConns]
    /\ callPC' = [callPC EXCEPT ![c] = "idle"]
    /\ readers' = readers \ {c}
    /\ budget' = [budget EXCEPT ![c] = 0]
    /\ saw' = [saw EXCEPT ![c] = {}]
    /\ UNCHANGED <<fsVars, main, cur, poolVars, writer, mutex, relVars>>

-----------------------------------------------------------------------------
(* internal/mcp/reload_tool.go: Reload, step by step.                      *)

Goto(r, pc) == relPC' = [relPC EXCEPT ![r] = pc]

\* pinIndex lets reload_index through without the read lock.
ReloadEnter(r) ==
    /\ main = "serving"
    /\ relPC[r] = "idle"
    /\ Goto(r, "mutex")
    /\ UNCHANGED <<fsVars, main, cur, poolVars, lockVars, callVars, old, prev>>

\* Mutant of ReloadMutex: reloads are not single-flighted.
ReloadMutexFree(r) ==
    /\ relPC[r] = "mutex"
    /\ mutex' = r
    /\ Goto(r, "diagnose")
    /\ UNCHANGED <<fsVars, main, cur, poolVars, readers, writer, callVars, old, prev>>

\* s.reloadMu.Lock.
ReloadMutex(r) ==
    /\ relPC[r] = "mutex"
    /\ mutex = Nobody
    /\ mutex' = r
    /\ Goto(r, "diagnose")
    /\ UNCHANGED <<fsVars, main, cur, poolVars, readers, writer, callVars, old, prev>>

\* Every error return releases reloadMu and leaves s.db alone.
Refuse(r) ==
    /\ Goto(r, "refused")
    /\ mutex' = Nobody
    /\ UNCHANGED <<readers, writer>>

ReloadDiagnose(r) ==
    /\ relPC[r] = "diagnose"
    /\ \/ DiagnosePath /\ Goto(r, "open") /\ UNCHANGED lockVars
       \/ ~DiagnosePath /\ Refuse(r)
    /\ UNCHANGED <<fsVars, main, cur, poolVars, callVars, old, prev>>

ReloadOpen(r) ==
    /\ relPC[r] = "open"
    /\ \/ /\ CanConnect
          /\ OpenReadOnly(r)
          /\ Goto(r, "describe")
          /\ UNCHANGED lockVars
       \/ /\ ~CanConnect
          /\ Refuse(r)
          /\ UNCHANGED poolVars
    /\ UNCHANGED <<fsVars, main, cur, callVars, old, prev>>

\* Mutant of ReloadDescribe: the schema check is forgotten.
ReloadDescribeAnySchema(r) ==
    /\ relPC[r] = "describe"
    /\ Goto(r, "rlock")
    /\ UNCHANGED <<fsVars, main, cur, poolVars, lockVars, callVars, old, prev>>

\* Mutant of ReloadDescribe: the error return forgets next.Close.
ReloadDescribeLeaks(r) ==
    /\ relPC[r] = "describe"
    /\ \/ Verdict[origin[r]] = "ok" /\ Goto(r, "rlock") /\ UNCHANGED lockVars
       \/ Verdict[origin[r]] # "ok" /\ Refuse(r)
    /\ UNCHANGED <<fsVars, main, cur, poolVars, callVars, old, prev>>

\* describeIndex: its queries run one after another on the idle connection
\* Ping left, so they all describe origin[r].
ReloadDescribe(r) ==
    /\ relPC[r] = "describe"
    /\ \/ /\ Verdict[origin[r]] = "ok"
          /\ Goto(r, "rlock")
          /\ UNCHANGED <<poolVars, lockVars>>
       \/ /\ Verdict[origin[r]] # "ok"
          /\ CloseHandle(r)
          /\ Refuse(r)
    /\ UNCHANGED <<fsVars, main, cur, callVars, old, prev>>

\* indexedAt: its own read lock, one query on the served pool, unlock.
ReloadRLock(r) ==
    /\ relPC[r] = "rlock"
    /\ RLockFree
    /\ readers' = readers \cup {r}
    /\ Goto(r, "query")
    /\ UNCHANGED <<fsVars, main, cur, poolVars, writer, mutex, callVars, old, prev>>

ReloadQuery(r) ==
    /\ relPC[r] = "query"
    /\ \/ \E f \in Files :
            /\ Acquire(r, cur, f)
            /\ prev' = [prev EXCEPT ![r] = f]
            /\ Goto(r, "stamp")
            /\ UNCHANGED readers
       \/ /\ NoIdle(cur)        \* the query fails: indexedAt returns ""
          /\ ~CanConnect
          /\ prev' = [prev EXCEPT ![r] = NoFile]
          /\ readers' = readers \ {r}
          /\ Goto(r, "lock")
          /\ UNCHANGED poolVars
    /\ UNCHANGED <<fsVars, main, cur, writer, mutex, callVars, old>>

ReloadStamp(r) ==
    /\ relPC[r] = "stamp"
    /\ \E h \in Handles, f \in Files : Release(r, h, f)
    /\ readers' = readers \ {r}
    /\ Goto(r, "lock")
    /\ UNCHANGED <<fsVars, main, cur, writer, mutex, callVars, old, prev>>

\* mu.Lock announces the writer, then waits for the readers it found.
ReloadLock(r) ==
    /\ relPC[r] = "lock"
    /\ writer = Nobody
    /\ writer' = r
    /\ Goto(r, "pending")
    /\ UNCHANGED <<fsVars, main, cur, poolVars, readers, mutex, callVars, old, prev>>

\* Mutant of ReloadSwap: the swap does not wait for the readers.
ReloadSwapEager(r) ==
    /\ relPC[r] = "pending"
    /\ old' = [old EXCEPT ![r] = cur]
    /\ cur' = r
    /\ writer' = Nobody
    /\ Goto(r, "close")
    /\ UNCHANGED <<fsVars, main, poolVars, readers, mutex, callVars, prev>>

\* Mutant of ReloadSwap: the write lock is not released.
ReloadSwapKeepsLock(r) ==
    /\ relPC[r] = "pending"
    /\ readers = {}
    /\ old' = [old EXCEPT ![r] = cur]
    /\ cur' = r
    /\ Goto(r, "close")
    /\ UNCHANGED <<fsVars, main, poolVars, lockVars, callVars, prev>>

\* The critical section: old := s.db; s.db = next; Unlock.
ReloadSwap(r) ==
    /\ relPC[r] = "pending"
    /\ readers = {}
    /\ old' = [old EXCEPT ![r] = cur]
    /\ cur' = r
    /\ writer' = Nobody
    /\ Goto(r, "close")
    /\ UNCHANGED <<fsVars, main, poolVars, readers, mutex, callVars, prev>>

\* old.Close, then the deferred reloadMu.Unlock and the response.
ReloadClose(r) ==
    /\ relPC[r] = "close"
    /\ CloseHandle(old[r])
    /\ mutex' = Nobody
    /\ Goto(r, "done")
    /\ UNCHANGED <<fsVars, main, cur, readers, writer, callVars, old, prev>>

-----------------------------------------------------------------------------
\* A serve that refused its index has left; nothing follows.
Exited == main = "exit" /\ UNCHANGED vars

Start == StartDiagnose \/ StartOpen \/ StartCheck

CallStep(c) ==
    \/ PinIndex(c)
    \/ \E f \in Files : Query(c, f)
    \/ QueryFails(c)
    \/ \E h \in Handles, f \in Files : CloseRows(c, h, f)
    \/ Return(c)

ReloadStep(r) ==
    \/ ReloadMutex(r) \/ ReloadDiagnose(r) \/ ReloadOpen(r) \/ ReloadDescribe(r)
    \/ ReloadRLock(r) \/ ReloadQuery(r) \/ ReloadStamp(r)
    \/ ReloadLock(r) \/ ReloadSwap(r) \/ ReloadClose(r)

Next ==
    \/ \E f \in Files : Publish(f)
    \/ Remove
    \/ Start
    \/ \E c \in Calls : Arrive(c) \/ CallStep(c)
    \/ \E r \in Reloads : ReloadEnter(r) \/ ReloadStep(r)
    \/ Exited

Spec == Init /\ [][Next]_vars

(***************************************************************************)
(* Goroutines that can run do run.  Clients (Arrive, ReloadEnter) and the  *)
(* file system (Publish, Remove) owe nothing.                              *)
(***************************************************************************)
Fairness ==
    /\ \A c \in Calls : WF_vars(CallStep(c))
    /\ \A r \in Reloads : WF_vars(ReloadStep(r))

FairSpec == Spec /\ Fairness

-----------------------------------------------------------------------------
(* Safety.                                                                 *)

\* A handle somebody is querying on is never closed under them: pinIndex
\* holds the read lock for the whole call, so the swap waits every reader
\* out before old.Close (mcp.go pinIndex, reload_tool.go Reload).
NoUseAfterClose ==
    \A u \in Users, h \in Handles, f \in Files :
        held[u][h][f] > 0 => handle[h] = "open"

\* From the moment serve accepts calls, Server.db is an open handle whose
\* first connection passed the schema check: a reload that fails at any step
\* leaves a usable index in place.
ServedUsable ==
    main = "serving" =>
        /\ handle[cur] = "open"
        /\ origin[cur] \in Files
        /\ Verdict[origin[cur]] = "ok"

\* No handle leaks: an open handle is the served one, or belongs to the
\* reload in flight, either as its `next` or as the `old` it is closing.
NoHandleLeak ==
    \A h \in Handles : handle[h] = "open" =>
        \/ h = cur
        \/ \E r \in Reloads :
              /\ mutex = r
              /\ \/ h = r /\ relPC[r] \notin {"close", "done", "refused"}
                 \/ h = old[r] /\ relPC[r] = "close"

\* A call never reads an artifact older than the one the server serves, so
\* reload_index is a barrier: what it installed bounds every later answer
\* from below, whatever connections the pool opens.
NeverOlderThanServed ==
    \A c \in Calls : callPC[c] = "run" =>
        \A f \in saw[c] : pub[f] >= pub[origin[cur]]

\* A swap never takes the server back to an earlier artifact, however many
\* reload_index calls race: reloadMu orders open and swap together.
ServedNeverRegresses ==
    [][cur' # cur => pub'[origin'[cur']] >= pub[origin[cur]]]_vars

-----------------------------------------------------------------------------
(* What the documentation says of a running session, and the pool breaks.  *)

\* README.md: "queries in flight finish against the index they started on".
OneIndexPerCall == \A c \in Calls : Cardinality(saw[c]) <= 1

-----------------------------------------------------------------------------
(* Liveness, under Fairness.                                               *)

\* Every call that reaches the server is answered: no reload, finished or
\* refused, leaves callers waiting on the lock.
CallsReturn == \A c \in Calls : callPC[c] = "rlock" ~> callPC[c] = "idle"

\* Every reload_index ends, although calls keep arriving: the announced
\* writer stops new readers, and reload_index itself holds no read lock.
ReloadsEnd ==
    \A r \in Reloads : relPC[r] = "mutex" ~> relPC[r] \in {"done", "refused"}
=============================================================================
