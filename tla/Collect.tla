------------------------------ MODULE Collect ------------------------------
(***************************************************************************)
(* `herbarium collect` as a process, any number of them on one --out path: *)
(* check the destination, build a SQLite index in a scratch file beside    *)
(* it, seal it, and rename it into place (cmd/herbarium/collect.go, with   *)
(* Open, Init and SealForReading of internal/store/store.go).              *)
(*                                                                         *)
(* The directory maps names to inodes; the inode a collector creates is    *)
(* called after the collector.  SQLite is modelled from how the code uses  *)
(* it: under WAL a commit lands in the -wal sidecar and reaches the file   *)
(* itself only by a checkpoint, which may happen at any time and does      *)
(* happen when the last connection closes.  What a pass writes is left to  *)
(* other modules; here an index is the number of passes committed to it.   *)
(***************************************************************************)
EXTENDS Naturals, FiniteSets

CONSTANTS
    Collectors,   \* collect processes, each of which runs once
    Replace,      \* Replace[c]: was c given --replace
    Names,        \* scratch names reserveTempIndex may draw
    MaxAttempts,  \* collisions after which it gives up (the code: 10000)
    Passes,       \* transactions that fill an index: Init, the stamps, Compiler,
                  \* DWARF, Targets, Link, Sources
    Dest,         \* the --out path
    Old,          \* the artifact that may be there from the start
    NoInode       \* no file

ASSUME CollectAssumption ==
    /\ Replace \in [Collectors -> BOOLEAN]
    /\ Dest \notin Names
    /\ Old \notin Collectors
    /\ NoInode \notin Collectors \cup {Old}
    /\ MaxAttempts \in Nat
    /\ Passes \in Nat \ {0}

Inodes == Collectors \cup {Old}

VARIABLES
    dir,        \* dir[n]: the inode at a name
    sidecars,   \* names beside which -wal and -shm files lie
    flushed,    \* flushed[i]: passes in the main file of an index
    committed,  \* committed[i]: passes committed, -wal included
    journal,    \* journal[i]: "wal" or "delete", recorded in the file header
    pc,         \* progress of each collector
    name,       \* tmpPath of each collector, Dest while it has none
    attempt,    \* reserveTempIndex's loop counter
    exit,       \* exit status: "none", "ok", "error", or "crash" when killed
    used,       \* scratch names drawn so far
    installed,  \* inodes that are or were at Dest
    clobbered   \* collectors whose rename replaced a file

fileVars == <<dir, sidecars, flushed, committed, journal>>
procVars == <<pc, name, attempt, exit>>
histVars == <<used, installed, clobbered>>
vars == <<dir, sidecars, flushed, committed, journal, pc, name, attempt, exit,
          used, installed, clobbered>>

FilesOK ==
    /\ dir \in [Names \cup {Dest} -> Inodes \cup {NoInode}]
    /\ sidecars \subseteq Names \cup {Dest}
    /\ flushed \in [Inodes -> 0..Passes]
    /\ committed \in [Inodes -> 0..Passes]
    /\ journal \in [Inodes -> {"wal", "delete"}]

\* The types of the directory, the indexes and the processes.
TypeOK ==
    /\ FilesOK
    /\ pc \in [Collectors -> {"start", "stat", "reserve", "open", "build", "seal",
                              "rename", "unwind", "remove", "ended"}]
    /\ name \in [Collectors -> Names \cup {Dest}]
    /\ attempt \in [Collectors -> 0..MaxAttempts]
    /\ exit \in [Collectors -> {"none", "ok", "error", "crash"}]
    /\ used \subseteq Names
    /\ installed \subseteq Inodes
    /\ clobbered \subseteq Collectors

Init ==
    /\ \E i \in {Old, NoInode} :
          /\ dir = [n \in Names \cup {Dest} |-> IF n = Dest THEN i ELSE NoInode]
          /\ installed = {i} \ {NoInode}
    /\ sidecars = {}
    /\ flushed = [i \in Inodes |-> IF i = Old THEN Passes ELSE 0]
    /\ committed = flushed
    /\ journal = [i \in Inodes |-> "delete"]
    /\ pc = [c \in Collectors |-> "start"]
    /\ name = [c \in Collectors |-> Dest]
    /\ attempt = [c \in Collectors |-> 0]
    /\ exit = [c \in Collectors |-> "none"]
    /\ used = {}
    /\ clobbered = {}

-----------------------------------------------------------------------------
Goto(c, l) == pc' = [pc EXCEPT ![c] = l]

\* `return 1`; the deferred calls still to run are those from l on.
Fail(c, l) ==
    /\ Goto(c, l)
    /\ exit' = [exit EXCEPT ![c] = "error"]

\* Flags, mesonintrospect.Load, filterTargets, builddir.Crawl, preflight.Check:
\* nothing is created, and any of them may end the run.
Preflight(c) ==
    /\ pc[c] = "start"
    /\ \/ Goto(c, "stat") /\ UNCHANGED exit
       \/ Fail(c, "ended")
    /\ UNCHANGED <<fileVars, name, attempt, histVars>>

\* "Refuse to clobber an existing .hbr silently".
Stat(c) ==
    /\ pc[c] = "stat"
    /\ \/ /\ dir[Dest] = NoInode \/ Replace[c]
          /\ Goto(c, "reserve")
          /\ UNCHANGED exit
       \/ /\ dir[Dest] # NoInode /\ ~Replace[c]
          /\ Fail(c, "ended")
    /\ UNCHANGED <<fileVars, name, attempt, histVars>>

\* reserveTempIndex draws a random name and creates it O_EXCL.  A draw that
\* repeats a name given up earlier (probability 2^-64) is left out, a draw that
\* hits an existing file is not.
Draw(n) ==
    /\ n \in used => dir[n] # NoInode
    /\ used' = used \cup {n}

\* OpenFile with O_CREATE and O_EXCL succeeds.
Create(c, n) ==
    /\ dir[n] = NoInode
    /\ dir' = [dir EXCEPT ![n] = c]
    /\ name' = [name EXCEPT ![c] = n]
    /\ Goto(c, "open")
    /\ UNCHANGED <<attempt, exit>>

\* Mutant of ReserveTempIndex: the scratch file is opened without O_EXCL.
ReserveTempIndexShared(c, n) ==
    /\ pc[c] = "reserve"
    /\ used' = used \cup {n}
    /\ dir' = [dir EXCEPT ![n] = c]
    /\ name' = [name EXCEPT ![c] = n]
    /\ Goto(c, "open")
    /\ UNCHANGED <<sidecars, flushed, committed, journal, attempt, exit,
                   installed, clobbered>>

\* Mutant of ReserveTempIndex: one attempt more than the bound.
ReserveTempIndexOneMore(c, n) ==
    /\ pc[c] = "reserve"
    /\ Draw(n)
    /\ \/ Create(c, n)
       \/ /\ dir[n] # NoInode
          /\ attempt[c] <= MaxAttempts
          /\ attempt' = [attempt EXCEPT ![c] = @ + 1]
          /\ UNCHANGED <<dir, name, pc, exit>>
    /\ UNCHANGED <<sidecars, flushed, committed, journal, installed, clobbered>>

\* Mutant of ReserveTempIndex: the retry loop has no bound.
ReserveTempIndexForever(c, n) ==
    /\ pc[c] = "reserve"
    /\ Draw(n)
    /\ \/ Create(c, n)
       \/ /\ dir[n] # NoInode
          /\ attempt' = [attempt EXCEPT ![c] = IF @ < MaxAttempts THEN @ + 1 ELSE 0]
          /\ UNCHANGED <<dir, name, pc, exit>>
    /\ UNCHANGED <<sidecars, flushed, committed, journal, installed, clobbered>>

ReserveTempIndex(c, n) ==
    /\ pc[c] = "reserve"
    /\ Draw(n)
    /\ \/ Create(c, n)
       \/ /\ dir[n] # NoInode
          /\ attempt[c] < MaxAttempts
          /\ attempt' = [attempt EXCEPT ![c] = @ + 1]
          /\ UNCHANGED <<dir, name, pc, exit>>
       \/ /\ dir[n] # NoInode
          /\ attempt[c] = MaxAttempts
          /\ Fail(c, "ended")
          /\ UNCHANGED <<dir, name, attempt>>
    /\ UNCHANGED <<sidecars, flushed, committed, journal, installed, clobbered>>

\* OpenFile fails for another reason, or f.Close does and the file is removed.
ReserveFails(c) ==
    /\ pc[c] = "reserve"
    /\ Fail(c, "ended")
    /\ UNCHANGED <<fileVars, name, attempt, histVars>>

\* store.Open: WAL mode goes into the header, the sidecars appear.  A failed
\* Ping closes the handle again.
Open(c) ==
    /\ pc[c] = "open"
    /\ \/ /\ journal' = [journal EXCEPT ![c] = "wal"]
          /\ sidecars' = sidecars \cup {name[c]}
          /\ Goto(c, "build")
          /\ UNCHANGED exit
       \/ /\ Fail(c, "remove")
          /\ UNCHANGED <<journal, sidecars>>
    /\ UNCHANGED <<dir, flushed, committed, name, attempt, histVars>>

\* store.Init, the stamps and the five ingest passes, in order, each committed
\* or failed as a whole.
IngestPass(c) ==
    /\ pc[c] = "build"
    /\ committed[c] < Passes
    /\ \/ /\ committed' = [committed EXCEPT ![c] = @ + 1]
          /\ UNCHANGED <<pc, exit>>
       \/ /\ Fail(c, "unwind")
          /\ UNCHANGED committed
    /\ UNCHANGED <<dir, sidecars, flushed, journal, name, attempt, histVars>>

\* SQLite's automatic checkpoint, while a connection is open.
Checkpoint(c) ==
    /\ pc[c] = "build"
    /\ flushed[c] < committed[c]
    /\ flushed' = [flushed EXCEPT ![c] = committed[c]]
    /\ UNCHANGED <<dir, sidecars, committed, journal, procVars, histVars>>

\* The last connection goes: the log is folded into the file and unlinked.
Fold(c) ==
    /\ flushed' = [flushed EXCEPT ![c] = committed[c]]
    /\ sidecars' = sidecars \ {name[c]}

\* Mutant of CloseDB: the index is renamed while it is still open.
CloseDBLate(c) ==
    /\ pc[c] = "build"
    /\ committed[c] = Passes
    /\ Goto(c, "rename")
    /\ UNCHANGED <<fileVars, name, attempt, exit, histVars>>

\* db.Close before the rename.
CloseDB(c) ==
    /\ pc[c] = "build"
    /\ committed[c] = Passes
    /\ \/ Fold(c) /\ Goto(c, "seal") /\ UNCHANGED exit
       \/ Fail(c, "unwind") /\ UNCHANGED <<flushed, sidecars>>
    /\ UNCHANGED <<dir, committed, journal, name, attempt, histVars>>

\* Mutant of SealForReading: the mode SQLite reports back is not looked at.
SealForReadingBlindly(c) ==
    /\ pc[c] = "seal"
    /\ Goto(c, "rename")
    /\ UNCHANGED <<fileVars, name, attempt, exit, histVars>>

\* store.SealForReading: SQLite leaves WAL only for the sole connection to the
\* file, and reports the mode still in force when it could not.
SealForReading(c) ==
    /\ pc[c] = "seal"
    /\ \/ /\ name[c] \notin sidecars
          /\ journal' = [journal EXCEPT ![c] = "delete"]
          /\ Goto(c, "rename")
          /\ UNCHANGED exit
       \/ /\ Fail(c, "remove")
          /\ UNCHANGED journal
    /\ UNCHANGED <<dir, sidecars, flushed, committed, name, attempt, histVars>>

\* Mutant of Rename: the failure path forgets to report itself.
RenameSilent(c) ==
    /\ pc[c] = "rename"
    /\ Goto(c, "remove")
    /\ exit' = [exit EXCEPT ![c] = "ok"]
    /\ UNCHANGED <<fileVars, name, attempt, histVars>>

\* os.Rename(tmpPath, out), and exit status 0 once it succeeded.
Rename(c) ==
    /\ pc[c] = "rename"
    /\ \/ /\ dir' = [dir EXCEPT ![Dest] = dir[name[c]], ![name[c]] = NoInode]
          /\ installed' = installed \cup {dir[name[c]]}
          /\ clobbered' = IF dir[Dest] = NoInode THEN clobbered
                                                 ELSE clobbered \cup {c}
          /\ Goto(c, "remove")
          /\ exit' = [exit EXCEPT ![c] = "ok"]
       \/ /\ Fail(c, "remove")
          /\ UNCHANGED <<dir, installed, clobbered>>
    /\ UNCHANGED <<sidecars, flushed, committed, journal, name, attempt, used>>

\* The deferred db.Close of a run that returned early; its error is dropped.
Unwind(c) ==
    /\ pc[c] = "unwind"
    /\ Goto(c, "remove")
    /\ \/ Fold(c)
       \/ UNCHANGED <<flushed, sidecars>>
    /\ UNCHANGED <<dir, committed, journal, name, attempt, exit, histVars>>

\* Mutant of RemoveIndexFiles: the sidecars are forgotten.
RemoveMainFileOnly(c) ==
    /\ pc[c] = "remove"
    /\ dir' = [dir EXCEPT ![name[c]] = NoInode]
    /\ Goto(c, "ended")
    /\ UNCHANGED <<sidecars, flushed, committed, journal, name, attempt, exit, histVars>>

\* The deferred removeIndexFiles: the scratch name and its sidecars go.
RemoveIndexFiles(c) ==
    /\ pc[c] = "remove"
    /\ dir' = [dir EXCEPT ![name[c]] = NoInode]
    /\ sidecars' = sidecars \ {name[c]}
    /\ Goto(c, "ended")
    /\ UNCHANGED <<flushed, committed, journal, name, attempt, exit, histVars>>

\* The process is killed: no deferred call runs, the files stay as they are.
Crash(c) ==
    /\ pc[c] # "ended"
    /\ Goto(c, "ended")
    /\ exit' = [exit EXCEPT ![c] = "crash"]
    /\ UNCHANGED <<fileVars, name, attempt, histVars>>

-----------------------------------------------------------------------------
Step(c) ==
    \/ Preflight(c) \/ Stat(c)
    \/ \E n \in Names : ReserveTempIndex(c, n)
    \/ ReserveFails(c) \/ Open(c) \/ IngestPass(c) \/ CloseDB(c)
    \/ SealForReading(c) \/ Rename(c) \/ Unwind(c) \/ RemoveIndexFiles(c)

AllEnded == (\A c \in Collectors : pc[c] = "ended") /\ UNCHANGED vars

Next ==
    \/ \E c \in Collectors : Step(c) \/ Checkpoint(c) \/ Crash(c)
    \/ AllEnded

Spec == Init /\ [][Next]_vars

\* A collect that is not killed keeps running; SQLite owes no checkpoint.
FairSpec == Spec /\ \A c \in Collectors : WF_vars(Step(c))

-----------------------------------------------------------------------------
(* Properties.                                                             *)

Intact(i) == flushed[i] = Passes /\ journal[i] = "delete"

\* What is at --out can be served by itself: every pass is in the file, none
\* of it in a -wal that stayed behind, and opening it needs no sidecar, in
\* spite of crashes and failures anywhere (collect.go 97-101 and 177-193).
DestComplete ==
    dir[Dest] # NoInode => Intact(dir[Dest]) /\ Dest \notin sidecars

\* A collect that exits leaves neither its scratch file nor a sidecar; only
\* running and killed ones own any (the defers of runCollect).
NoLitter ==
    \A n \in Names : dir[n] # NoInode \/ n \in sidecars =>
        \E c \in Collectors :
            name[c] = n /\ (pc[c] # "ended" \/ exit[c] = "crash")

\* The exit status tells whether the artifact was installed: 0 only after the
\* rename, and never an error once the artifact can be seen.
ExitIsTruthful ==
    \A c \in Collectors :
        /\ exit[c] = "ok" => c \in installed
        /\ exit[c] = "error" => c \notin installed

\* What a collector builds is reached under no other name than its own tmpPath
\* until it is installed: concurrent collects never share a scratch file.
ScratchIsPrivate ==
    \A c, d \in Collectors :
        pc[c] \in {"build", "seal", "rename"} =>
            dir[name[c]] = c /\ (c # d => name[c] # name[d])

\* Every collect that is not killed comes to an end.
CollectsEnd == \A c \in Collectors : <>(pc[c] = "ended")

\* INSTALL_GUIDE.md: "`collect` refuses to overwrite an existing `.hbr` unless
\* `--replace` is passed".
NoSilentClobber == \A c \in clobbered : Replace[c]

(***************************************************************************)
(* Collect implements IndexPath.  A file at --out that is not Intact, or   *)
(* has sidecars of another inode beside it, stands for no artifact.        *)
(***************************************************************************)
Torn == dir[Dest] # NoInode /\ ~(Intact(dir[Dest]) /\ Dest \notin sidecars)

Path == INSTANCE IndexPath WITH
    Artifacts <- Inodes,
    Nothing <- NoInode,
    current <- IF Torn THEN Dest ELSE dir[Dest],
    spent <- installed

\* Seen from --out, any number of collects are atomic installs of whole
\* artifacts and nothing else.
ImplementsIndexPath == Path!Spec
=============================================================================
