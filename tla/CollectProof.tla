---------------------------- MODULE CollectProof ----------------------------
(***************************************************************************)
(* Any number of collects racing, failing and being killed on one --out    *)
(* path: what is there is always a whole artifact, nothing is littered,    *)
(* the exit status is truthful, and the path behaves like IndexPath.       *)
(***************************************************************************)
EXTENDS Collect, TLAPS

Building == {"open", "build", "seal", "rename", "unwind"}

\* Scratch names are never shared: the file at one belongs to the collector
\* that drew it, and a collector at work finds its own inode there.
NameInv ==
    /\ \A c \in Collectors :
          /\ pc[c] \in Building \cup {"remove"} => name[c] \in Names
          /\ pc[c] \in {"start", "stat", "reserve"} => name[c] = Dest
          /\ pc[c] \in Building => dir[name[c]] = c
          /\ name[c] \in Names => name[c] \in used
    /\ \A c, d \in Collectors : c # d /\ name[c] \in Names => name[c] # name[d]
    /\ \A n \in Names : dir[n] # NoInode => dir[n] \in Collectors /\ name[dir[n]] = n

\* How far an index is, by the progress of its collector.
StageInv ==
    \A c \in Collectors :
        /\ pc[c] \in {"seal", "rename"} => flushed[c] = Passes /\ name[c] \notin sidecars
        /\ pc[c] = "rename" => journal[c] = "delete"

\* What was installed is whole and its collector will not touch it again.
InstalledInv ==
    /\ dir[Dest] # NoInode => dir[Dest] \in installed
    /\ \A i \in installed : Intact(i)
    /\ \A c \in Collectors : c \in installed =>
          pc[c] \in {"remove", "ended"} /\ exit[c] \in {"ok", "crash"}
    /\ sidecars \subseteq Names

ExitInv ==
    \A c \in Collectors :
        pc[c] \notin {"unwind", "remove", "ended"} => exit[c] = "none"

IInv ==
    /\ TypeOK
    /\ NameInv
    /\ StageInv
    /\ InstalledInv
    /\ ExitInv
    /\ NoLitter
    /\ ExitIsTruthful

USE CollectAssumption DEF Inodes, fileVars, procVars, histVars

-----------------------------------------------------------------------------
LEMMA InitType == Init => TypeOK
BY DEF Init, TypeOK, FilesOK

LEMMA StepType == TypeOK /\ NameInv /\ [Next]_vars => TypeOK'
<1> SUFFICES ASSUME TypeOK, NameInv, [Next]_vars PROVE TypeOK'
  OBVIOUS
<1> USE DEF TypeOK, FilesOK, Goto, Fail
<1>1. ASSUME NEW c \in Collectors, Preflight(c) PROVE TypeOK'
  BY <1>1 DEF Preflight
<1>2. ASSUME NEW c \in Collectors, Stat(c) PROVE TypeOK'
  BY <1>2 DEF Stat
<1>3. ASSUME NEW c \in Collectors, NEW n \in Names, ReserveTempIndex(c, n) PROVE TypeOK'
  BY <1>3 DEF ReserveTempIndex, Draw, Create
<1>4. ASSUME NEW c \in Collectors, ReserveFails(c) PROVE TypeOK'
  BY <1>4 DEF ReserveFails
<1>5. ASSUME NEW c \in Collectors, Open(c) PROVE TypeOK'
  BY <1>5 DEF Open
<1>6. ASSUME NEW c \in Collectors, IngestPass(c) PROVE TypeOK'
  BY <1>6 DEF IngestPass
<1>7. ASSUME NEW c \in Collectors, Checkpoint(c) PROVE TypeOK'
  BY <1>7 DEF Checkpoint
<1>8. ASSUME NEW c \in Collectors, CloseDB(c) PROVE TypeOK'
  BY <1>8 DEF CloseDB, Fold
<1>9. ASSUME NEW c \in Collectors, SealForReading(c) PROVE TypeOK'
  BY <1>9 DEF SealForReading
<1>10. ASSUME NEW c \in Collectors, Rename(c) PROVE TypeOK'
  <2>1. dir[name[c]] = c
    BY <1>10 DEF Rename, NameInv, Building
  <2> QED BY <1>10, <2>1 DEF Rename
<1>11. ASSUME NEW c \in Collectors, Unwind(c) PROVE TypeOK'
  BY <1>11 DEF Unwind, Fold
<1>12. ASSUME NEW c \in Collectors, RemoveIndexFiles(c) PROVE TypeOK'
  BY <1>12 DEF RemoveIndexFiles
<1>13. ASSUME NEW c \in Collectors, Crash(c) PROVE TypeOK'
  BY <1>13 DEF Crash
<1>14. CASE UNCHANGED vars
  BY <1>14 DEF vars
<1> QED
  BY <1>1, <1>2, <1>3, <1>4, <1>5, <1>6, <1>7, <1>8, <1>9, <1>10, <1>11, <1>12,
     <1>13, <1>14
  DEF Next, Step, AllEnded

-----------------------------------------------------------------------------
LEMMA InitInv == Init => IInv
<1> SUFFICES ASSUME Init PROVE IInv
  OBVIOUS
<1>1. NameInv /\ StageInv /\ ExitInv
  BY DEF Init, NameInv, Building, StageInv, ExitInv
<1>2. InstalledInv /\ NoLitter /\ ExitIsTruthful
  BY DEF Init, InstalledInv, Intact, NoLitter, ExitIsTruthful
<1> QED BY <1>1, <1>2, InitType DEF IInv

LEMMA StepInv == IInv /\ [Next]_vars => IInv'
<1> SUFFICES ASSUME IInv, [Next]_vars PROVE IInv'
  OBVIOUS
<1>0. TypeOK /\ TypeOK'
  BY StepType DEF IInv
<1> USE <1>0 DEF IInv, TypeOK, FilesOK, Goto, Fail
<1>1. ASSUME NEW c \in Collectors, Preflight(c) PROVE IInv'
  <2>1. NameInv'
    BY <1>1 DEF NameInv, Building, Preflight
  <2>2. StageInv'
    BY <1>1 DEF NameInv, Building, StageInv, Preflight
  <2>3. InstalledInv'
    BY <1>1 DEF NameInv, Building, StageInv, InstalledInv, Intact, ExitInv,
       Preflight
  <2>4. ExitInv'
    BY <1>1 DEF ExitInv, Preflight
  <2>5. NoLitter'
    BY <1>1 DEF NoLitter, NameInv, Building, Preflight
  <2>6. ExitIsTruthful'
    BY <1>1 DEF ExitIsTruthful, InstalledInv, ExitInv, NameInv, Building, Preflight
  <2> QED BY <1>1, <2>1, <2>2, <2>3, <2>4, <2>5, <2>6
<1>2. ASSUME NEW c \in Collectors, Stat(c) PROVE IInv'
  <2>1. NameInv'
    BY <1>2 DEF NameInv, Building, Stat
  <2>2. StageInv'
    BY <1>2 DEF NameInv, Building, StageInv, Stat
  <2>3. InstalledInv'
    BY <1>2 DEF NameInv, Building, StageInv, InstalledInv, Intact, ExitInv, Stat
  <2>4. ExitInv'
    BY <1>2 DEF ExitInv, Stat
  <2>5. NoLitter'
    BY <1>2 DEF NoLitter, NameInv, Building, Stat
  <2>6. ExitIsTruthful'
    BY <1>2 DEF ExitIsTruthful, InstalledInv, ExitInv, NameInv, Building, Stat
  <2> QED BY <1>2, <2>1, <2>2, <2>3, <2>4, <2>5, <2>6
<1>3. ASSUME NEW c \in Collectors, NEW n \in Names, ReserveTempIndex(c, n) PROVE IInv'
  <2>1. NameInv'
    BY <1>3 DEF NameInv, Building, ReserveTempIndex, Draw, Create
  <2>2. StageInv'
    BY <1>3 DEF NameInv, Building, StageInv, ReserveTempIndex, Draw, Create
  <2>3. InstalledInv'
    BY <1>3 DEF NameInv, Building, StageInv, InstalledInv, Intact, ExitInv,
       ReserveTempIndex, Draw, Create
  <2>4. ExitInv'
    BY <1>3 DEF ExitInv, ReserveTempIndex, Draw, Create
  <2>5. NoLitter'
    BY <1>3 DEF NoLitter, NameInv, Building, ReserveTempIndex, Draw, Create
  <2>6. ExitIsTruthful'
    BY <1>3 DEF ExitIsTruthful, InstalledInv, ExitInv, NameInv, Building,
       ReserveTempIndex, Draw, Create
  <2> QED BY <1>3, <2>1, <2>2, <2>3, <2>4, <2>5, <2>6
<1>4. ASSUME NEW c \in Collectors, ReserveFails(c) PROVE IInv'
  <2>1. NameInv'
    BY <1>4 DEF NameInv, Building, ReserveFails
  <2>2. StageInv'
    BY <1>4 DEF NameInv, Building, StageInv, ReserveFails
  <2>3. InstalledInv'
    BY <1>4 DEF NameInv, Building, StageInv, InstalledInv, Intact, ExitInv,
       ReserveFails
  <2>4. ExitInv'
    BY <1>4 DEF ExitInv, ReserveFails
  <2>5. NoLitter'
    BY <1>4 DEF NoLitter, NameInv, Building, ReserveFails
  <2>6. ExitIsTruthful'
    BY <1>4 DEF ExitIsTruthful, InstalledInv, ExitInv, NameInv, Building,
       ReserveFails
  <2> QED BY <1>4, <2>1, <2>2, <2>3, <2>4, <2>5, <2>6
<1>5. ASSUME NEW c \in Collectors, Open(c) PROVE IInv'
  <2>1. NameInv'
    BY <1>5 DEF NameInv, Building, Open
  <2>2. StageInv'
    BY <1>5 DEF NameInv, Building, StageInv, Open
  <2>3. InstalledInv'
    BY <1>5 DEF NameInv, Building, StageInv, InstalledInv, Intact, ExitInv, Open
  <2>4. ExitInv'
    BY <1>5 DEF ExitInv, Open
  <2>5. NoLitter'
    BY <1>5 DEF NoLitter, NameInv, Building, Open
  <2>6. ExitIsTruthful'
    BY <1>5 DEF ExitIsTruthful, InstalledInv, ExitInv, NameInv, Building, Open
  <2> QED BY <1>5, <2>1, <2>2, <2>3, <2>4, <2>5, <2>6
<1>6. ASSUME NEW c \in Collectors, IngestPass(c) PROVE IInv'
  <2>1. NameInv'
    BY <1>6 DEF NameInv, Building, IngestPass
  <2>2. StageInv'
    BY <1>6 DEF NameInv, Building, StageInv, IngestPass
  <2>3. InstalledInv'
    BY <1>6 DEF NameInv, Building, StageInv, InstalledInv, Intact, ExitInv,
       IngestPass
  <2>4. ExitInv'
    BY <1>6 DEF ExitInv, IngestPass
  <2>5. NoLitter'
    BY <1>6 DEF NoLitter, NameInv, Building, IngestPass
  <2>6. ExitIsTruthful'
    BY <1>6 DEF ExitIsTruthful, InstalledInv, ExitInv, NameInv, Building, IngestPass
  <2> QED BY <1>6, <2>1, <2>2, <2>3, <2>4, <2>5, <2>6
<1>7. ASSUME NEW c \in Collectors, Checkpoint(c) PROVE IInv'
  <2>1. StageInv'
    BY <1>7 DEF NameInv, Building, StageInv, Checkpoint
  <2>2. InstalledInv'
    BY <1>7 DEF NameInv, Building, StageInv, InstalledInv, Intact, ExitInv,
       Checkpoint
  <2> QED BY <1>7, <2>1, <2>2 DEF NameInv, ExitInv, NoLitter, ExitIsTruthful,
     Checkpoint
<1>8. ASSUME NEW c \in Collectors, CloseDB(c) PROVE IInv'
  <2>1. NameInv'
    BY <1>8 DEF NameInv, Building, CloseDB, Fold
  <2>2. StageInv'
    BY <1>8 DEF NameInv, Building, StageInv, CloseDB, Fold
  <2>3. InstalledInv'
    BY <1>8 DEF NameInv, Building, StageInv, InstalledInv, Intact, ExitInv, CloseDB,
       Fold
  <2>4. ExitInv'
    BY <1>8 DEF ExitInv, CloseDB, Fold
  <2>5. NoLitter'
    BY <1>8 DEF NoLitter, NameInv, Building, CloseDB, Fold
  <2>6. ExitIsTruthful'
    BY <1>8 DEF ExitIsTruthful, InstalledInv, ExitInv, NameInv, Building, CloseDB,
       Fold
  <2> QED BY <1>8, <2>1, <2>2, <2>3, <2>4, <2>5, <2>6
<1>9. ASSUME NEW c \in Collectors, SealForReading(c) PROVE IInv'
  <2>1. NameInv'
    BY <1>9 DEF NameInv, Building, SealForReading
  <2>2. StageInv'
    BY <1>9 DEF NameInv, Building, StageInv, SealForReading
  <2>3. InstalledInv'
    BY <1>9 DEF NameInv, Building, StageInv, InstalledInv, Intact, ExitInv,
       SealForReading
  <2>4. ExitInv'
    BY <1>9 DEF ExitInv, SealForReading
  <2>5. NoLitter'
    BY <1>9 DEF NoLitter, NameInv, Building, SealForReading
  <2>6. ExitIsTruthful'
    BY <1>9 DEF ExitIsTruthful, InstalledInv, ExitInv, NameInv, Building,
       SealForReading
  <2> QED BY <1>9, <2>1, <2>2, <2>3, <2>4, <2>5, <2>6
<1>10. ASSUME NEW c \in Collectors, Rename(c) PROVE IInv'
  <2>1. NameInv'
    BY <1>10 DEF NameInv, Building, Rename
  <2>2. StageInv'
    BY <1>10 DEF NameInv, Building, StageInv, Rename
  <2>3. InstalledInv'
    BY <1>10 DEF NameInv, Building, StageInv, InstalledInv, Intact, ExitInv, Rename
  <2>4. ExitInv'
    BY <1>10 DEF ExitInv, Rename
  <2>5. NoLitter'
    BY <1>10 DEF NoLitter, NameInv, Building, Rename
  <2>6. ExitIsTruthful'
    BY <1>10 DEF ExitIsTruthful, InstalledInv, ExitInv, NameInv, Building, Rename
  <2> QED BY <1>10, <2>1, <2>2, <2>3, <2>4, <2>5, <2>6
<1>11. ASSUME NEW c \in Collectors, Unwind(c) PROVE IInv'
  <2>1. NameInv'
    BY <1>11 DEF NameInv, Building, Unwind, Fold
  <2>2. StageInv'
    BY <1>11 DEF NameInv, Building, StageInv, Unwind, Fold
  <2>3. InstalledInv'
    BY <1>11 DEF NameInv, Building, StageInv, InstalledInv, Intact, ExitInv, Unwind,
       Fold
  <2>4. ExitInv'
    BY <1>11 DEF ExitInv, Unwind, Fold
  <2>5. NoLitter'
    BY <1>11 DEF NoLitter, NameInv, Building, Unwind, Fold
  <2> QED BY <1>11, <2>1, <2>2, <2>3, <2>4, <2>5 DEF ExitIsTruthful, Unwind, Fold
<1>12. ASSUME NEW c \in Collectors, RemoveIndexFiles(c) PROVE IInv'
  <2>1. NameInv'
    BY <1>12 DEF NameInv, Building, RemoveIndexFiles
  <2>2. StageInv'
    BY <1>12 DEF NameInv, Building, StageInv, RemoveIndexFiles
  <2>3. InstalledInv'
    BY <1>12 DEF NameInv, Building, StageInv, InstalledInv, Intact, ExitInv,
       RemoveIndexFiles
  <2>4. ExitInv'
    BY <1>12 DEF ExitInv, RemoveIndexFiles
  <2>5. NoLitter'
    BY <1>12 DEF NoLitter, NameInv, Building, RemoveIndexFiles
  <2> QED BY <1>12, <2>1, <2>2, <2>3, <2>4, <2>5 DEF ExitIsTruthful,
     RemoveIndexFiles
<1>13. ASSUME NEW c \in Collectors, Crash(c) PROVE IInv'
  <2>1. NameInv'
    BY <1>13 DEF NameInv, Building, Crash
  <2>2. StageInv'
    BY <1>13 DEF NameInv, Building, StageInv, Crash
  <2>3. InstalledInv'
    BY <1>13 DEF NameInv, Building, StageInv, InstalledInv, Intact, ExitInv, Crash
  <2>4. ExitInv'
    BY <1>13 DEF ExitInv, Crash
  <2>5. NoLitter'
    BY <1>13 DEF NoLitter, NameInv, Building, Crash
  <2>6. ExitIsTruthful'
    BY <1>13 DEF ExitIsTruthful, InstalledInv, ExitInv, NameInv, Building, Crash
  <2> QED BY <1>13, <2>1, <2>2, <2>3, <2>4, <2>5, <2>6
<1>14. CASE UNCHANGED vars
  BY <1>14 DEF vars, NameInv, StageInv, InstalledInv, Intact, ExitInv, NoLitter,
     ExitIsTruthful
<1> QED
  BY <1>1, <1>2, <1>3, <1>4, <1>5, <1>6, <1>7, <1>8, <1>9, <1>10, <1>11, <1>12,
     <1>13, <1>14
  DEF Next, Step, AllEnded

-----------------------------------------------------------------------------
(* The results. *)

LEMMA InvDestComplete == IInv => DestComplete
BY DEF IInv, InstalledInv, DestComplete

LEMMA InvScratchIsPrivate == IInv => ScratchIsPrivate
BY DEF IInv, NameInv, Building, ScratchIsPrivate

\* The directory, the indexes and the processes keep their types, for any
\* number of collects, scratch names and passes.
THEOREM TypeCorrect == Spec => []TypeOK
<1>1. IInv => TypeOK
  BY DEF IInv
<1> QED BY <1>1, InitInv, StepInv, PTL DEF Spec

\* Whoever reads --out at any moment finds nothing or a whole, sealed index.
THEOREM DestAlwaysComplete == Spec => []DestComplete
BY InitInv, StepInv, InvDestComplete, PTL DEF Spec

\* Two collects never build into the same file.
THEOREM ScratchAlwaysPrivate == Spec => []ScratchIsPrivate
BY InitInv, StepInv, InvScratchIsPrivate, PTL DEF Spec

\* A collect that returns, with or without success, has cleaned up.
THEOREM NeverLitters == Spec => []NoLitter
<1>1. IInv => NoLitter
  BY DEF IInv
<1> QED BY <1>1, InitInv, StepInv, PTL DEF Spec

\* The exit status is 0 exactly when the artifact was installed.
THEOREM ExitAlwaysTruthful == Spec => []ExitIsTruthful
<1>1. IInv => ExitIsTruthful
  BY DEF IInv
<1> QED BY <1>1, InitInv, StepInv, PTL DEF Spec

LEMMA InitPath == Init => Path!Init
BY DEF Init, Path!Init, Torn, Intact

LEMMA StepPath ==
    ASSUME IInv, IInv', [Next]_vars
    PROVE  [Path!Next]_<<IF Torn THEN Dest ELSE dir[Dest], installed>>
<1>1. ~Torn /\ ~Torn'
  BY InvDestComplete DEF IInv, InstalledInv, Torn, Intact
<1>2. ASSUME NEW c \in Collectors, Rename(c), installed' # installed
      PROVE  Path!Install(c)
  <2>1. dir[name[c]] = c /\ c \notin installed /\ name[c] \in Names
    BY <1>2 DEF Rename, IInv, NameInv, Building, InstalledInv
  <2>2. dir'[Dest] = c /\ installed' = installed \cup {c}
    BY <1>2, <2>1 DEF Rename, IInv, TypeOK, FilesOK
  <2> QED BY <1>1, <2>1, <2>2 DEF Path!Install
<1>3. ASSUME ~ \E c \in Collectors : Rename(c) /\ installed' # installed
      PROVE  dir'[Dest] = dir[Dest] /\ installed' = installed
  <2>1. ASSUME NEW c \in Collectors, NEW n \in Names, ReserveTempIndex(c, n)
        PROVE  dir'[Dest] = dir[Dest] /\ installed' = installed
    BY <2>1 DEF ReserveTempIndex, Create, IInv, TypeOK, FilesOK
  <2>2. ASSUME NEW c \in Collectors, RemoveIndexFiles(c)
        PROVE  dir'[Dest] = dir[Dest] /\ installed' = installed
    BY <2>2 DEF RemoveIndexFiles, IInv, TypeOK, FilesOK, NameInv
  <2>3. ASSUME NEW c \in Collectors, Rename(c)
        PROVE  dir'[Dest] = dir[Dest] /\ installed' = installed
    <3>1. dir[name[c]] = c /\ c \notin installed
      BY <2>3 DEF Rename, IInv, NameInv, Building, InstalledInv
    <3> QED BY <1>3, <2>3, <3>1 DEF Rename
  <2> QED
    BY <2>1, <2>2, <2>3
    DEF Next, Step, AllEnded, vars, Preflight, Stat, ReserveFails, Open, IngestPass,
        Checkpoint, CloseDB, SealForReading, Unwind, Crash
<1> QED BY <1>1, <1>2, <1>3 DEF Path!Next

\* Seen from --out, collects are atomic installs of whole artifacts: Collect
\* implements the path that serve relies on.
THEOREM CollectImplementsIndexPath == Spec => ImplementsIndexPath
BY InitPath, InitInv, StepInv, StepPath, PTL DEF Spec, ImplementsIndexPath, Path!Spec

=============================================================================
