----------------------------- MODULE NinjaDeps -----------------------------
(***************************************************************************)
(* ninjadeps.Read (internal/ninjadeps/ninjadeps.go): replay ninja's binary *)
(* dependency log while ninja, which is not part of this program, may be   *)
(* appending to it, may have crashed in the middle of a record, or may     *)
(* have left a damaged file behind.                                        *)
(*                                                                         *)
(* A record is [kind |-> "path", name, id], whose id stands for the ~id    *)
(* checksum; [kind |-> "deps", out, ins, ok] over 0-based path ids, ok     *)
(* being a body size of 12 + 4n; or [kind |-> "torn"], a record cut short  *)
(* or of an impossible size.                                               *)
(***************************************************************************)
EXTENDS Ordered, SequencesExt

CONSTANTS
    Names,      \* the paths ninja knows
    MaxRecords, \* bound: records in the log
    MaxIns,     \* bound: inputs of a deps record that ninja writes
    Damaged     \* logs that no ninja run wrote

VARIABLES
    header,  \* the file's first 16 bytes: "ok", "magic", "version", or "short" of them
    log,     \* the records on disk
    honest,  \* the log was written by ninja alone
    pc,      \* the reader: "closed", "reading", "done", "error" or "refused"
    at,      \* records consumed
    opened,  \* complete records on disk when the reader opened the file
    paths,   \* paths
    deps     \* log.Deps

vars == <<header, log, honest, pc, at, opened, paths, deps>>
reader == <<pc, at, opened, paths, deps>>

Torn == [kind |-> "torn"]

IsTorn(records) == records # <<>> /\ Last(records) = Torn

Whole(records) == IF IsTorn(records) THEN Front(records) ELSE records

\* Where the first n records register a path, and where they hold dependencies.
PathsUpTo(n) == {j \in 1..n : log[j].kind = "path"}
DepsUpTo(n) == {j \in 1..n : log[j].kind = "deps"}

Init ==
    /\ \/ log = <<>> /\ honest = TRUE /\ header \in {"ok", "magic", "version", "short"}
       \/ log \in Damaged /\ honest = FALSE /\ header \in {"ok", "magic", "version"}
    /\ pc = "closed" /\ at = 0 /\ opened = 0
    /\ paths = <<>> /\ deps = <<>>

-----------------------------------------------------------------------------
(* ninja: a path is registered once, before any record that refers to it.  *)

Known == {log[j].name : j \in PathsUpTo(Len(log))}
PathCount == Cardinality(PathsUpTo(Len(log)))
PathIds == 0..(PathCount - 1)

Records ==
    {[kind |-> "path", name |-> n, id |-> PathCount] : n \in Names \ Known}
    \cup {[kind |-> "deps", out |-> o, ins |-> ins, ok |-> TRUE] :
             o \in PathIds, ins \in UNION {[1..n -> PathIds] : n \in 0..MaxIns}}

\* A new log begins with the header, which is not whole at once.
NinjaStarts ==
    /\ honest /\ header = "short" /\ header' = "ok"
    /\ UNCHANGED <<log, honest, reader>>

\* A restarted ninja drops the torn tail before it appends.
NinjaAppends ==
    /\ honest /\ header # "short" /\ Len(Whole(log)) < MaxRecords
    /\ \E r \in Records \cup {Torn} : log' = Append(Whole(log), r)
    /\ UNCHANGED <<header, honest, reader>>

-----------------------------------------------------------------------------
(* Read.                                                                   *)

\* Without a whole header of a version it knows, Read returns no log.
Open ==
    /\ pc = "closed"
    /\ pc' = IF header = "ok" THEN "reading" ELSE "refused"
    /\ opened' = Len(Whole(log))
    /\ UNCHANGED <<header, log, honest, at, paths, deps>>

Reading == pc = "reading"
AtEnd   == at = Len(log)
Record  == log[at + 1]

\* End of file, a short read or an impossible size end the replay quietly.
ReadEnd ==
    /\ Reading /\ (~AtEnd => Record = Torn)
    /\ pc' = "done"
    /\ UNCHANGED <<header, log, honest, at, opened, paths, deps>>

\* Mutant of Expected: ids counted from one.
ExpectedFromOne == Len(paths) + 1

\* ^uint32(len(paths)), the checksum of the next path record.
Expected == Len(paths)

ReadPath ==
    /\ Reading /\ ~AtEnd /\ Record.kind = "path"
    /\ IF Record.id = Expected
       THEN paths' = Append(paths, Record.name) /\ at' = at + 1 /\ UNCHANGED pc
       ELSE pc' = "error" /\ UNCHANGED <<at, paths>>
    /\ UNCHANGED <<header, log, honest, opened, deps>>

\* Mutant of Supersede: the first record of an output stays.
KeepFirst(out, inputs) ==
    [o \in DOMAIN deps \cup {out} |-> IF o \in DOMAIN deps THEN deps[o] ELSE inputs]

\* Later records supersede earlier ones.
Supersede(out, inputs) ==
    [o \in DOMAIN deps \cup {out} |-> IF o = out THEN inputs ELSE deps[o]]

Registered(id) == id < Len(paths)

\* The name of path id; the empty path if the index is out of range.
Name(id) == IF id < Len(paths) THEN paths[id + 1] ELSE ""

ReadDeps ==
    /\ Reading /\ ~AtEnd /\ Record.kind = "deps"
    /\ IF Record.ok
       THEN LET ins == Selected({k \in DOMAIN Record.ins : Registered(Record.ins[k])}, Record.ins)
            IN  /\ deps' = IF Registered(Record.out)
                           THEN Supersede(Name(Record.out), [i \in DOMAIN ins |-> Name(ins[i])])
                           ELSE deps
                /\ at' = at + 1 /\ UNCHANGED pc
       ELSE pc' = "error" /\ UNCHANGED <<at, deps>>
    /\ UNCHANGED <<header, log, honest, opened, paths>>

Stopped == pc \in {"done", "error", "refused"} /\ UNCHANGED vars

Next ==
    \/ NinjaStarts \/ NinjaAppends
    \/ Open \/ ReadEnd \/ ReadPath \/ ReadDeps
    \/ Stopped

Spec == Init /\ [][Next]_vars

-----------------------------------------------------------------------------
(* Properties.                                                             *)

\* The path that one of the first n records registers under an id.
PathOf(id, n) == log[CHOOSE j \in PathsUpTo(n) : log[j].id = id].name

\* d is what the first n records mean to ninja: per output its last deps record,
\* with the paths that were registered under its ids.
IsMeaning(d, n) ==
    /\ DOMAIN d = {PathOf(log[j].out, n) : j \in DepsUpTo(n)}
    /\ \A j \in DepsUpTo(n) :
          (\A k \in DepsUpTo(n) : log[k].out = log[j].out => k <= j) =>
              d[PathOf(log[j].out, n)] = [k \in DOMAIN log[j].ins |-> PathOf(log[j].ins[k], n)]

\* A replay that races ninja, or meets the tail a crash left, returns a state
\* that ninja's own log was in: that of a prefix at least as long as what was
\* complete on disk when the file was opened (ninjadeps.go 66-70).
ReplayIsAPastState ==
    honest /\ pc = "done" => at >= opened /\ IsMeaning(deps, at)

\* Truncation is tolerated: past its header, a log that ninja wrote is never
\* reported corrupt, whatever moment it is read at.
NoFalseAlarm == honest => pc # "error"
=============================================================================
