----------------------------- MODULE ServeProof -----------------------------
(***************************************************************************)
(* Safety of `herbarium serve`, for any number of calls, reloads and files *)
(* and whatever the pool's limits: the invariants and the action property  *)
(* that the Serve runs check, proved from one inductive invariant.         *)
(***************************************************************************)
EXTENDS Serve, TLAPS

\* Where a reload owns reloadMu, and where its `next` is open beside s.db.
Locked == {"diagnose", "open", "describe", "rlock", "query", "stamp", "lock",
           "pending", "close"}
Checked == {"rlock", "query", "stamp", "lock", "pending"}
Opened == Checked \cup {"describe"}

\* The lock words say who is where.
LockInv ==
    /\ readers = {c \in Calls : callPC[c] = "run"}
                    \cup {r \in Reloads : relPC[r] \in {"query", "stamp"}}
    /\ \A r \in Reloads : relPC[r] \in Locked <=> mutex = r
    /\ \A r \in Reloads : relPC[r] = "pending" <=> writer = r

\* Nothing but startup runs before the server accepts calls.
QuietInv ==
    main # "serving" =>
        /\ cur = Startup
        /\ \A c \in Calls : callPC[c] = "idle"
        /\ \A r \in Reloads : relPC[r] = "idle"

\* What is at the path was published last, and what a handle opened was
\* published before.
FileInv ==
    /\ clock > 0
    /\ \A f \in Files : pub[f] <= clock
    /\ path \in Files => pub[path] = clock
    /\ \A h \in Handles : origin[h] \in Files => pub[origin[h]] > 0

\* A pool keeps connections only while it is open, and only to files at least
\* as new as the one its first connection opened.
IdleInv ==
    \A h \in Handles, f \in Files :
        idle[h][f] > 0 =>
            handle[h] = "open" /\ origin[h] \in Files /\ pub[f] >= pub[origin[h]]

\* Connections in use belong to readers and to the served handle.
HeldInv ==
    \A u \in Users, h \in Handles, f \in Files :
        held[u][h][f] > 0 =>
            u \in readers /\ h = cur /\ pub[f] >= pub[origin[cur]]

\* indexedAt uses one connection, which its Scan gives back.
StampInv ==
    /\ \A r \in Reloads : relPC[r] = "query" =>
          \A h \in Handles, f \in Files : held[r][h][f] = 0
    /\ \A r \in Reloads : relPC[r] = "stamp" =>
          \E f0 \in Files : \A h \in Handles, f \in Files :
              held[r][h][f] = IF h = cur /\ f = f0 THEN 1 ELSE 0

\* The life of a handle.
HandleInv ==
    /\ main = "check" => handle[Startup] = "open" /\ origin[Startup] \in Files
    /\ main \in {"diagnose", "open"} => handle[Startup] = "none"
    /\ cur \in Reloads => relPC[cur] \in {"close", "done"}
    /\ \A r \in Reloads :
          /\ relPC[r] \in {"idle", "mutex", "diagnose", "open"} => handle[r] = "none"
          /\ relPC[r] \in Opened =>
                /\ handle[r] = "open"
                /\ origin[r] \in Files
                /\ pub[origin[r]] >= pub[origin[cur]]
          /\ relPC[r] \in Checked => Verdict[origin[r]] = "ok"
          /\ relPC[r] = "close" => cur = r /\ old[r] # r /\ handle[old[r]] = "open"

IInv ==
    /\ TypeOK
    /\ LockInv
    /\ QuietInv
    /\ FileInv
    /\ IdleInv
    /\ HeldInv
    /\ StampInv
    /\ HandleInv
    /\ ServedUsable
    /\ NoHandleLeak
    /\ NeverOlderThanServed

-----------------------------------------------------------------------------
USE DEF Users, Handles, fsVars, poolVars, lockVars, callVars, relVars

(* Types. *)

LEMMA NoConnsType == NoConns \in [Files -> Nat]
BY DEF NoConns

\* OpenReadOnly is only reached when there is a file to connect to.
LEMMA OpenReadOnlyType ==
    ASSUME PathOK, PoolOK, NEW h \in Handles, CanConnect, OpenReadOnly(h)
    PROVE  PoolOK'
BY DEF PathOK, PoolOK, CanConnect, OpenReadOnly

LEMMA CloseHandleType ==
    ASSUME PoolOK, NEW h \in Handles, CloseHandle(h)
    PROVE  PoolOK'
BY NoConnsType DEF PoolOK, CloseHandle

LEMMA AcquireType ==
    ASSUME PoolOK, NEW u \in Users, NEW h \in Handles, NEW f \in Files,
           Acquire(u, h, f)
    PROVE  PoolOK'
<1>1. CASE TakeIdle(u, h, f)
  <2>1. idle[h] \in [Files -> Nat] /\ held[u][h] \in [Files -> Nat]
    BY DEF PoolOK
  <2>2. idle' \in [Handles -> [Files -> Nat]]
    BY <1>1, <2>1 DEF PoolOK, TakeIdle
  <2>3. held' \in [Users -> [Handles -> [Files -> Nat]]]
    BY <1>1, <2>1 DEF PoolOK, TakeIdle
  <2> QED BY <1>1, <2>2, <2>3 DEF PoolOK, TakeIdle
<1>2. CASE OpenMore(u, h, f)
  BY <1>2 DEF PoolOK, OpenMore
<1> QED BY <1>1, <1>2 DEF Acquire

LEMMA ReleaseType ==
    ASSUME PoolOK, NEW u \in Users, NEW h \in Handles, NEW f \in Files,
           Release(u, h, f)
    PROVE  PoolOK'
<1>1. idle[h] \in [Files -> Nat] /\ held[u][h] \in [Files -> Nat]
  BY DEF PoolOK
<1>2. idle' \in [Handles -> [Files -> Nat]]
  BY <1>1 DEF PoolOK, Release
<1>3. held' \in [Users -> [Handles -> [Files -> Nat]]]
  BY <1>1 DEF PoolOK, Release
<1> QED BY <1>2, <1>3 DEF PoolOK, Release

LEMMA InitType == Init => TypeOK
<1> SUFFICES ASSUME Init PROVE TypeOK
  OBVIOUS
<1>1. PoolOK
  BY NoConnsType DEF Init, PoolOK
<1> QED
  BY <1>1, ServeAssumption DEF Init, TypeOK, PathOK, LockOK, CallOK, ReloadOK

LEMMA StepType == TypeOK /\ [Next]_vars => TypeOK'
<1> SUFFICES ASSUME TypeOK, [Next]_vars PROVE TypeOK'
  OBVIOUS
<1> USE DEF TypeOK
<1>1. CASE \E f \in Files : Publish(f)
  <2>1. PathOK'
    BY <1>1 DEF Publish, PathOK
  <2> QED BY <1>1, <2>1 DEF Publish, PoolOK, LockOK, CallOK, ReloadOK
<1>2. CASE Remove
  BY <1>2 DEF Remove, PathOK, PoolOK, LockOK, CallOK, ReloadOK
<1>3. CASE StartDiagnose
  BY <1>3 DEF StartDiagnose, PathOK, PoolOK, LockOK, CallOK, ReloadOK
<1>4. CASE StartOpen
  <2>1. PoolOK'
    BY <1>4, OpenReadOnlyType DEF StartOpen, PoolOK
  <2> QED BY <1>4, <2>1 DEF StartOpen, PathOK, LockOK, CallOK, ReloadOK
<1>5. CASE StartCheck
  <2>1. PoolOK'
    BY <1>5, CloseHandleType DEF StartCheck, PoolOK
  <2> QED BY <1>5, <2>1 DEF StartCheck, PathOK, LockOK, CallOK, ReloadOK
<1>6. ASSUME NEW c \in Calls, Arrive(c) PROVE TypeOK'
  BY <1>6 DEF Arrive, PathOK, PoolOK, LockOK, CallOK, ReloadOK
<1>7. ASSUME NEW c \in Calls, PinIndex(c) PROVE TypeOK'
  <2>1. MaxQueries \in 0..MaxQueries
    BY ServeAssumption
  <2>2. CallOK'
    BY <1>7, <2>1 DEF PinIndex, CallOK
  <2> QED BY <1>7, <2>2 DEF PinIndex, PathOK, PoolOK, LockOK, ReloadOK
<1>8. ASSUME NEW c \in Calls, NEW f \in Files, Query(c, f) PROVE TypeOK'
  <2>1. PoolOK'
    BY <1>8, AcquireType DEF Query
  <2>2. CallOK'
    BY <1>8, ServeAssumption DEF Query, CallOK
  <2> QED BY <1>8, <2>1, <2>2 DEF Query, PathOK, LockOK, ReloadOK
<1>9. ASSUME NEW c \in Calls, QueryFails(c) PROVE TypeOK'
  <2>1. CallOK'
    BY <1>9, ServeAssumption DEF QueryFails, CallOK
  <2> QED BY <1>9, <2>1 DEF QueryFails, PathOK, PoolOK, LockOK, ReloadOK
<1>10. ASSUME NEW c \in Calls, NEW h \in Handles, NEW f \in Files,
              CloseRows(c, h, f)
       PROVE  TypeOK'
  <2>1. PoolOK'
    BY <1>10, ReleaseType DEF CloseRows
  <2> QED BY <1>10, <2>1 DEF CloseRows, PathOK, LockOK, CallOK, ReloadOK
<1>11. ASSUME NEW c \in Calls, Return(c) PROVE TypeOK'
  BY <1>11, ServeAssumption DEF Return, PathOK, PoolOK, LockOK, CallOK, ReloadOK
<1>12. ASSUME NEW r \in Reloads, ReloadEnter(r) PROVE TypeOK'
  BY <1>12 DEF ReloadEnter, Goto, PathOK, PoolOK, LockOK, CallOK, ReloadOK
<1>13. ASSUME NEW r \in Reloads, ReloadMutex(r) PROVE TypeOK'
  BY <1>13 DEF ReloadMutex, Goto, PathOK, PoolOK, LockOK, CallOK, ReloadOK
<1>14. ASSUME NEW r \in Reloads, ReloadDiagnose(r) PROVE TypeOK'
  <2>1. ReloadOK'
    BY <1>14 DEF ReloadDiagnose, Refuse, Goto, ReloadOK
  <2>2. LockOK'
    BY <1>14 DEF ReloadDiagnose, Refuse, LockOK
  <2> QED
    BY <1>14, <2>1, <2>2 DEF ReloadDiagnose, PathOK, PoolOK, CallOK
<1>15. ASSUME NEW r \in Reloads, ReloadOpen(r) PROVE TypeOK'
  <2>1. PoolOK'
    BY <1>15, OpenReadOnlyType DEF ReloadOpen, PoolOK
  <2> QED BY <1>15, <2>1 DEF ReloadOpen, Refuse, Goto, PathOK, LockOK, CallOK, ReloadOK
<1>16. ASSUME NEW r \in Reloads, ReloadDescribe(r) PROVE TypeOK'
  <2>1. PoolOK'
    BY <1>16, CloseHandleType DEF ReloadDescribe, PoolOK
  <2> QED BY <1>16, <2>1 DEF ReloadDescribe, Refuse, Goto, PathOK, LockOK, CallOK, ReloadOK
<1>17. ASSUME NEW r \in Reloads, ReloadRLock(r) PROVE TypeOK'
  BY <1>17 DEF ReloadRLock, Goto, PathOK, PoolOK, LockOK, CallOK, ReloadOK
<1>18. ASSUME NEW r \in Reloads, ReloadQuery(r) PROVE TypeOK'
  <2>1. PoolOK'
    BY <1>18, AcquireType DEF ReloadQuery, PoolOK
  <2>2. ReloadOK'
    BY <1>18 DEF ReloadQuery, Goto, ReloadOK
  <2> QED BY <1>18, <2>1, <2>2 DEF ReloadQuery, PathOK, LockOK, CallOK
<1>19. ASSUME NEW r \in Reloads, ReloadStamp(r) PROVE TypeOK'
  <2>1. PoolOK'
    BY <1>19, ReleaseType DEF ReloadStamp
  <2> QED BY <1>19, <2>1 DEF ReloadStamp, Goto, PathOK, LockOK, CallOK, ReloadOK
<1>20. ASSUME NEW r \in Reloads, ReloadLock(r) PROVE TypeOK'
  BY <1>20 DEF ReloadLock, Goto, PathOK, PoolOK, LockOK, CallOK, ReloadOK
<1>21. ASSUME NEW r \in Reloads, ReloadSwap(r) PROVE TypeOK'
  BY <1>21 DEF ReloadSwap, Goto, PathOK, PoolOK, LockOK, CallOK, ReloadOK
<1>22. ASSUME NEW r \in Reloads, ReloadClose(r) PROVE TypeOK'
  <2>1. PoolOK'
    BY <1>22, CloseHandleType DEF ReloadClose, ReloadOK
  <2> QED BY <1>22, <2>1 DEF ReloadClose, Goto, PathOK, LockOK, CallOK, ReloadOK
<1>23. CASE UNCHANGED vars
  BY <1>23 DEF vars, PathOK, PoolOK, LockOK, CallOK, ReloadOK
<1> QED
  BY <1>1, <1>2, <1>3, <1>4, <1>5, <1>6, <1>7, <1>8, <1>9, <1>10, <1>11, <1>12,
     <1>13, <1>14, <1>15, <1>16, <1>17, <1>18, <1>19, <1>20, <1>21, <1>22, <1>23
  DEF Next, Start, CallStep, ReloadStep, Exited

\* Every variable keeps its type: in particular no connection is returned to
\* the pool that nobody held, and no call exceeds its queries.
THEOREM TypeCorrect == Spec => []TypeOK
BY InitType, StepType, PTL DEF Spec

-----------------------------------------------------------------------------
(* What the pool's operations do, connection by connection. *)

LEMMA OpenReadOnlyEffect ==
    ASSUME PathOK, PoolOK, NEW h \in Handles, CanConnect, OpenReadOnly(h)
    PROVE  /\ path \in Files /\ held' = held
           /\ handle'[h] = "open" /\ origin'[h] = path
           /\ \A g \in Handles : g # h => handle'[g] = handle[g] /\ origin'[g] = origin[g]
           /\ \A g \in Handles, f \in Files : idle'[g][f] > 0 =>
                 (g = h /\ f = path) \/ idle[g][f] > 0
BY DEF PathOK, PoolOK, CanConnect, OpenReadOnly

LEMMA CloseHandleEffect ==
    ASSUME PoolOK, NEW h \in Handles, CloseHandle(h)
    PROVE  /\ origin' = origin /\ held' = held
           /\ handle'[h] = "closed"
           /\ \A g \in Handles : g # h => handle'[g] = handle[g]
           /\ \A g \in Handles, f \in Files : idle'[g][f] > 0 =>
                 g # h /\ idle[g][f] > 0
BY DEF PoolOK, CloseHandle, NoConns

LEMMA AcquireEffect ==
    ASSUME PoolOK, NEW u \in Users, NEW h \in Handles, NEW f \in Files,
           Acquire(u, h, f)
    PROVE  /\ origin' = origin /\ handle' = handle
           /\ idle[h][f] > 0 \/ f = path
           /\ \A g \in Handles, e \in Files : idle'[g][e] > 0 => idle[g][e] > 0
           /\ \A v \in Users, g \in Handles, e \in Files :
                 held'[v][g][e] = IF v = u /\ g = h /\ e = f
                                  THEN held[v][g][e] + 1 ELSE held[v][g][e]
           /\ \A v \in Users : v # u => held'[v] = held[v]
<1>1. CASE TakeIdle(u, h, f)
  <2>1. \A g \in Handles, e \in Files : idle'[g][e] > 0 => idle[g][e] > 0
    BY <1>1 DEF PoolOK, TakeIdle
  <2> QED BY <1>1, <2>1 DEF PoolOK, TakeIdle
<1>2. CASE OpenMore(u, h, f)
  BY <1>2 DEF PoolOK, OpenMore
<1> QED BY <1>1, <1>2 DEF Acquire

LEMMA ReleaseEffect ==
    ASSUME PoolOK, NEW u \in Users, NEW h \in Handles, NEW f \in Files,
           Release(u, h, f)
    PROVE  /\ origin' = origin /\ handle' = handle /\ held[u][h][f] > 0
           /\ \A g \in Handles, e \in Files : idle'[g][e] > 0 =>
                 idle[g][e] > 0 \/ (g = h /\ e = f /\ handle[h] = "open")
           /\ \A v \in Users, g \in Handles, e \in Files :
                 held'[v][g][e] = IF v = u /\ g = h /\ e = f
                                  THEN held[v][g][e] - 1 ELSE held[v][g][e]
           /\ \A v \in Users : v # u => held'[v] = held[v]
BY DEF PoolOK, Release

LEMMA StampFrame ==
    ASSUME StampInv, cur' = cur,
           \A r \in Reloads : held'[r] = held[r],
           \A r \in Reloads : relPC'[r] \in {"query", "stamp"} => relPC'[r] = relPC[r]
    PROVE  StampInv'
BY DEF StampInv

-----------------------------------------------------------------------------
(* The inductive invariant. *)

LEMMA InitInv == Init => IInv
<1> SUFFICES ASSUME Init PROVE IInv
  OBVIOUS
<1>1. TypeOK /\ \A f \in Files : NoConns[f] = 0
  BY InitType DEF NoConns
<1>2. LockInv /\ QuietInv /\ FileInv
  BY <1>1, ServeAssumption DEF Init, LockInv, Locked, QuietInv, FileInv, PathOK, TypeOK
<1>3. IdleInv /\ HeldInv /\ StampInv
  BY <1>1 DEF Init, IdleInv, HeldInv, StampInv
<1>4. HandleInv /\ ServedUsable /\ NoHandleLeak /\ NeverOlderThanServed
  BY <1>1, ServeAssumption
  DEF Init, HandleInv, Opened, Checked, ServedUsable, NoHandleLeak, NeverOlderThanServed
<1> QED BY <1>1, <1>2, <1>3, <1>4 DEF IInv

LEMMA StepInv == IInv /\ [Next]_vars => IInv'
<1> SUFFICES ASSUME IInv, [Next]_vars PROVE IInv'
  OBVIOUS
<1>0. TypeOK /\ TypeOK'
  BY StepType DEF IInv
<1> USE <1>0, ServeAssumption DEF IInv
<1>1. ASSUME NEW f \in Files, Publish(f) PROVE IInv'
  <2>1. FileInv'
    BY <1>1 DEF TypeOK, PathOK, PoolOK, ReloadOK, FileInv, Publish
  <2>2. IdleInv'
    BY <1>1 DEF TypeOK, PathOK, PoolOK, ReloadOK, FileInv, IdleInv, HeldInv,
       HandleInv, QuietInv, LockInv, ServedUsable, Publish
  <2>3. HeldInv'
    BY <1>1 DEF TypeOK, PathOK, PoolOK, LockOK, CallOK, ReloadOK, HeldInv, StampInv,
       IdleInv, LockInv, FileInv, QuietInv, ServedUsable, HandleInv, Publish
  <2>4. HandleInv'
    BY <1>1 DEF TypeOK, PathOK, PoolOK, LockOK, CallOK, ReloadOK, HandleInv,
       LockInv, Locked, Opened, Checked, FileInv, QuietInv, ServedUsable, Publish
  <2>5. NeverOlderThanServed'
    BY <1>1 DEF TypeOK, PathOK, PoolOK, LockOK, CallOK, ReloadOK,
       NeverOlderThanServed, FileInv, IdleInv, HeldInv, QuietInv, ServedUsable,
       LockInv, HandleInv, Publish
  <2> QED BY <1>1, <2>1, <2>2, <2>3, <2>4, <2>5 DEF LockInv, QuietInv, StampInv,
     ServedUsable, NoHandleLeak, Publish, Locked
<1>2. CASE Remove
  <2>1. FileInv'
    BY <1>2 DEF TypeOK, PathOK, PoolOK, ReloadOK, FileInv, Remove
  <2> QED BY <1>2, <2>1 DEF LockInv, QuietInv, IdleInv, HeldInv, StampInv,
     HandleInv, ServedUsable, NoHandleLeak, NeverOlderThanServed, Remove, Locked,
     Opened, Checked
<1>3. CASE StartDiagnose
  <2>1. QuietInv'
    BY <1>3 DEF TypeOK, CallOK, ReloadOK, QuietInv, LockInv, StartDiagnose
  <2>2. HandleInv'
    BY <1>3 DEF TypeOK, PathOK, PoolOK, LockOK, CallOK, ReloadOK, HandleInv,
       LockInv, Locked, Opened, Checked, FileInv, QuietInv, ServedUsable,
       StartDiagnose
  <2>3. ServedUsable'
    BY <1>3 DEF TypeOK, PoolOK, ReloadOK, ServedUsable, HandleInv, QuietInv, Opened,
       Checked, StartDiagnose
  <2> QED BY <1>3, <2>1, <2>2, <2>3 DEF LockInv, FileInv, IdleInv, HeldInv,
     StampInv, NoHandleLeak, NeverOlderThanServed, StartDiagnose, Locked
<1>4. CASE StartOpen
  <2>1. QuietInv'
    BY <1>4 DEF TypeOK, CallOK, ReloadOK, QuietInv, LockInv, StartOpen,
       OpenReadOnly, CanConnect
  <2>2. FileInv'
    BY <1>4 DEF TypeOK, PathOK, PoolOK, ReloadOK, FileInv, StartOpen, OpenReadOnly,
       CanConnect
  <2>3. IdleInv'
    <3>1. CASE UNCHANGED poolVars
      BY <1>4, <3>1 DEF StartOpen, IdleInv
    <3>2. CASE CanConnect /\ OpenReadOnly(Startup)
      <4>1. \A f \in Files : ~(idle[Startup][f] > 0)
        BY <1>4 DEF StartOpen, HandleInv, IdleInv
      <4> QED BY <1>4, <3>2, <4>1, OpenReadOnlyEffect
             DEF StartOpen, TypeOK, PathOK, IdleInv
    <3> QED BY <1>4, <3>1, <3>2 DEF StartOpen
  <2>4. HeldInv'
    BY <1>4 DEF TypeOK, PathOK, PoolOK, LockOK, CallOK, ReloadOK, HeldInv, StampInv,
       IdleInv, LockInv, FileInv, QuietInv, ServedUsable, HandleInv, StartOpen,
       OpenReadOnly, CanConnect
  <2>5. HandleInv'
    BY <1>4 DEF TypeOK, PathOK, PoolOK, LockOK, CallOK, ReloadOK, HandleInv,
       LockInv, Locked, Opened, Checked, FileInv, QuietInv, ServedUsable, StartOpen,
       OpenReadOnly, CanConnect
  <2>6. ServedUsable'
    BY <1>4 DEF TypeOK, PoolOK, ReloadOK, ServedUsable, HandleInv, QuietInv, Opened,
       Checked, StartOpen, OpenReadOnly, CanConnect
  <2>7. NoHandleLeak'
    BY <1>4 DEF TypeOK, LockOK, PoolOK, ReloadOK, NoHandleLeak, HandleInv, LockInv,
       Locked, Opened, QuietInv, StartOpen, OpenReadOnly, CanConnect
  <2>8. NeverOlderThanServed'
    BY <1>4 DEF TypeOK, PathOK, PoolOK, LockOK, CallOK, ReloadOK,
       NeverOlderThanServed, FileInv, IdleInv, HeldInv, QuietInv, ServedUsable,
       LockInv, HandleInv, StartOpen, OpenReadOnly, CanConnect
  <2> QED BY <1>4, <2>1, <2>2, <2>3, <2>4, <2>5, <2>6, <2>7, <2>8 DEF LockInv,
     StampInv, StartOpen, OpenReadOnly, Locked
<1>5. CASE StartCheck
  <2>1. QuietInv'
    BY <1>5 DEF TypeOK, CallOK, ReloadOK, QuietInv, LockInv, StartCheck,
       CloseHandle, NoConns
  <2>2. IdleInv'
    BY <1>5 DEF TypeOK, PathOK, PoolOK, ReloadOK, FileInv, IdleInv, HeldInv,
       HandleInv, QuietInv, LockInv, ServedUsable, StartCheck, CloseHandle, NoConns
  <2>3. HandleInv'
    BY <1>5 DEF TypeOK, PathOK, PoolOK, LockOK, CallOK, ReloadOK, HandleInv,
       LockInv, Locked, Opened, Checked, FileInv, QuietInv, ServedUsable,
       StartCheck, CloseHandle, NoConns
  <2>4. ServedUsable'
    BY <1>5 DEF TypeOK, PoolOK, ReloadOK, ServedUsable, HandleInv, QuietInv, Opened,
       Checked, StartCheck, CloseHandle, NoConns
  <2>5. NoHandleLeak'
    BY <1>5 DEF TypeOK, LockOK, PoolOK, ReloadOK, NoHandleLeak, HandleInv, LockInv,
       Locked, Opened, QuietInv, StartCheck, CloseHandle, NoConns
  <2> QED BY <1>5, <2>1, <2>2, <2>3, <2>4, <2>5 DEF LockInv, FileInv, HeldInv,
     StampInv, NeverOlderThanServed, StartCheck, CloseHandle, Locked
<1>6. ASSUME NEW c \in Calls, Arrive(c) PROVE IInv'
  <2>1. LockInv'
    BY <1>6 DEF TypeOK, LockOK, CallOK, ReloadOK, LockInv, Locked, Arrive
  <2>2. QuietInv'
    BY <1>6 DEF TypeOK, CallOK, ReloadOK, QuietInv, LockInv, Arrive
  <2>3. NeverOlderThanServed'
    BY <1>6 DEF TypeOK, PathOK, PoolOK, LockOK, CallOK, ReloadOK,
       NeverOlderThanServed, FileInv, IdleInv, HeldInv, QuietInv, ServedUsable,
       LockInv, HandleInv, Arrive
  <2> QED BY <1>6, <2>1, <2>2, <2>3 DEF FileInv, IdleInv, HeldInv, StampInv,
     HandleInv, ServedUsable, NoHandleLeak, Arrive, Opened, Checked
<1>7. ASSUME NEW c \in Calls, PinIndex(c) PROVE IInv'
  <2>1. LockInv'
    BY <1>7 DEF TypeOK, LockOK, CallOK, ReloadOK, LockInv, Locked, PinIndex,
       RLockFree
  <2>2. QuietInv'
    BY <1>7 DEF TypeOK, CallOK, ReloadOK, QuietInv, LockInv, PinIndex, RLockFree
  <2>3. HeldInv'
    BY <1>7 DEF TypeOK, PathOK, PoolOK, LockOK, CallOK, ReloadOK, HeldInv, StampInv,
       IdleInv, LockInv, FileInv, QuietInv, ServedUsable, HandleInv, PinIndex,
       RLockFree
  <2>4. NeverOlderThanServed'
    BY <1>7 DEF TypeOK, PathOK, PoolOK, LockOK, CallOK, ReloadOK,
       NeverOlderThanServed, FileInv, IdleInv, HeldInv, QuietInv, ServedUsable,
       LockInv, HandleInv, PinIndex, RLockFree
  <2> QED BY <1>7, <2>1, <2>2, <2>3, <2>4 DEF FileInv, IdleInv, StampInv, HandleInv,
     ServedUsable, NoHandleLeak, PinIndex, Opened, Checked
<1>8. ASSUME NEW c \in Calls, NEW f \in Files, Query(c, f) PROVE IInv'
  <2>1. IdleInv'
    BY <1>8, AcquireEffect DEF Query, TypeOK, IdleInv
  <2>2. HeldInv'
    <3>1. c \in readers /\ main = "serving"
      BY <1>8 DEF Query, LockInv, QuietInv
    <3>2. pub[f] >= pub[origin[cur]]
      BY <1>8, <3>1, AcquireEffect
      DEF Query, TypeOK, PathOK, IdleInv, FileInv, ServedUsable
    <3>3. \A v \in Users, g \in Handles, e \in Files :
             held'[v][g][e] > 0 => (v = c /\ g = cur /\ e = f) \/ held[v][g][e] > 0
      BY <1>8, AcquireEffect DEF Query, TypeOK
    <3>4. origin' = origin /\ pub' = pub /\ cur' = cur /\ readers' = readers
      BY <1>8, AcquireEffect DEF Query, TypeOK
    <3> QED BY <3>1, <3>2, <3>3, <3>4 DEF HeldInv
  <2>3. StampInv'
    <3>1. \A r \in Reloads : held'[r] = held[r]
      BY <1>8, AcquireEffect DEF Query, TypeOK
    <3> QED BY <1>8, <3>1, StampFrame DEF Query
  <2>4. NeverOlderThanServed'
    BY <1>8 DEF TypeOK, PathOK, PoolOK, LockOK, CallOK, ReloadOK,
       NeverOlderThanServed, FileInv, IdleInv, HeldInv, QuietInv, ServedUsable,
       LockInv, HandleInv, Query, Acquire, TakeIdle, OpenMore
  <2> QED BY <1>8, <2>1, <2>2, <2>3, <2>4 DEF LockInv, QuietInv, FileInv, HandleInv,
     ServedUsable, NoHandleLeak, Query, Acquire, TakeIdle, OpenMore, Locked, Opened,
     Checked
<1>9. ASSUME NEW c \in Calls, QueryFails(c) PROVE IInv'
  <2> QED BY <1>9 DEF LockInv, QuietInv, FileInv, IdleInv, HeldInv, StampInv,
     HandleInv, ServedUsable, NoHandleLeak, NeverOlderThanServed, QueryFails,
     Locked, Opened, Checked
<1>10. ASSUME NEW c \in Calls, NEW h \in Handles, NEW f \in Files,
              CloseRows(c, h, f)
       PROVE  IInv'
  <2>1. IdleInv'
    BY <1>10 DEF TypeOK, PathOK, PoolOK, ReloadOK, FileInv, IdleInv, HeldInv,
       HandleInv, QuietInv, LockInv, ServedUsable, CloseRows, Release
  <2>2. HeldInv'
    BY <1>10 DEF TypeOK, PathOK, PoolOK, LockOK, CallOK, ReloadOK, HeldInv,
       StampInv, IdleInv, LockInv, FileInv, QuietInv, ServedUsable, HandleInv,
       CloseRows, Release
  <2>3. StampInv'
    <3>1. \A r \in Reloads : held'[r] = held[r]
      BY <1>10, ReleaseEffect DEF CloseRows, TypeOK
    <3> QED BY <1>10, <3>1, StampFrame DEF CloseRows
  <2> QED BY <1>10, <2>1, <2>2, <2>3 DEF LockInv, QuietInv, FileInv, HandleInv,
     ServedUsable, NoHandleLeak, NeverOlderThanServed, CloseRows, Release, Locked,
     Opened, Checked
<1>11. ASSUME NEW c \in Calls, Return(c) PROVE IInv'
  <2>1. LockInv'
    BY <1>11 DEF TypeOK, LockOK, CallOK, ReloadOK, LockInv, Locked, Return, NoConns
  <2>2. QuietInv'
    BY <1>11 DEF TypeOK, CallOK, ReloadOK, QuietInv, LockInv, Return, NoConns
  <2>3. HeldInv'
    BY <1>11 DEF TypeOK, PathOK, PoolOK, LockOK, CallOK, ReloadOK, HeldInv,
       StampInv, IdleInv, LockInv, FileInv, QuietInv, ServedUsable, HandleInv,
       Return, NoConns
  <2>4. NeverOlderThanServed'
    BY <1>11 DEF TypeOK, PathOK, PoolOK, LockOK, CallOK, ReloadOK,
       NeverOlderThanServed, FileInv, IdleInv, HeldInv, QuietInv, ServedUsable,
       LockInv, HandleInv, Return, NoConns
  <2> QED BY <1>11, <2>1, <2>2, <2>3, <2>4 DEF FileInv, IdleInv, StampInv,
     HandleInv, ServedUsable, NoHandleLeak, Return, Opened, Checked
<1>12. ASSUME NEW r \in Reloads, ReloadEnter(r) PROVE IInv'
  <2>1. LockInv'
    BY <1>12 DEF TypeOK, LockOK, CallOK, ReloadOK, LockInv, Locked, ReloadEnter,
       Goto
  <2>2. QuietInv'
    BY <1>12 DEF TypeOK, CallOK, ReloadOK, QuietInv, LockInv, ReloadEnter, Goto
  <2>3. StampInv'
    BY <1>12, StampFrame DEF TypeOK, PoolOK, ReloadOK, ReloadEnter, Goto
  <2>4. HandleInv'
    BY <1>12 DEF TypeOK, PathOK, PoolOK, LockOK, CallOK, ReloadOK, HandleInv,
       LockInv, Locked, Opened, Checked, FileInv, QuietInv, ServedUsable,
       ReloadEnter, Goto
  <2>5. NoHandleLeak'
    BY <1>12 DEF TypeOK, LockOK, PoolOK, ReloadOK, NoHandleLeak, HandleInv, LockInv,
       Locked, Opened, QuietInv, ReloadEnter, Goto
  <2> QED BY <1>12, <2>1, <2>2, <2>3, <2>4, <2>5 DEF FileInv, IdleInv, HeldInv,
     ServedUsable, NeverOlderThanServed, ReloadEnter, Goto
<1>13. ASSUME NEW r \in Reloads, ReloadMutex(r) PROVE IInv'
  <2>1. LockInv'
    BY <1>13 DEF TypeOK, LockOK, CallOK, ReloadOK, LockInv, Locked, ReloadMutex,
       Goto
  <2>2. QuietInv'
    BY <1>13 DEF TypeOK, CallOK, ReloadOK, QuietInv, LockInv, ReloadMutex, Goto
  <2>3. StampInv'
    BY <1>13, StampFrame DEF TypeOK, PoolOK, ReloadOK, ReloadMutex, Goto
  <2>4. HandleInv'
    BY <1>13 DEF TypeOK, PathOK, PoolOK, LockOK, CallOK, ReloadOK, HandleInv,
       LockInv, Locked, Opened, Checked, FileInv, QuietInv, ServedUsable,
       ReloadMutex, Goto
  <2>5. NoHandleLeak'
    BY <1>13 DEF TypeOK, LockOK, PoolOK, ReloadOK, NoHandleLeak, HandleInv, LockInv,
       Locked, Opened, QuietInv, ReloadMutex, Goto
  <2> QED BY <1>13, <2>1, <2>2, <2>3, <2>4, <2>5 DEF FileInv, IdleInv, HeldInv,
     ServedUsable, NeverOlderThanServed, ReloadMutex, Goto
<1>14. ASSUME NEW r \in Reloads, ReloadDiagnose(r) PROVE IInv'
  <2>1. LockInv'
    BY <1>14 DEF TypeOK, LockOK, CallOK, ReloadOK, LockInv, Locked, ReloadDiagnose,
       Goto, Refuse
  <2>2. QuietInv'
    BY <1>14 DEF TypeOK, CallOK, ReloadOK, QuietInv, LockInv, ReloadDiagnose, Goto,
       Refuse
  <2>3. StampInv'
    BY <1>14, StampFrame DEF TypeOK, PoolOK, ReloadOK, ReloadDiagnose, Goto, Refuse
  <2>4. HandleInv'
    BY <1>14 DEF TypeOK, PathOK, PoolOK, LockOK, CallOK, ReloadOK, HandleInv,
       LockInv, Locked, Opened, Checked, FileInv, QuietInv, ServedUsable,
       ReloadDiagnose, Goto, Refuse
  <2>5. NoHandleLeak'
    BY <1>14 DEF TypeOK, LockOK, PoolOK, ReloadOK, NoHandleLeak, HandleInv, LockInv,
       Locked, Opened, QuietInv, ReloadDiagnose, Goto, Refuse
  <2> QED BY <1>14, <2>1, <2>2, <2>3, <2>4, <2>5 DEF FileInv, IdleInv, HeldInv,
     ServedUsable, NeverOlderThanServed, ReloadDiagnose, Goto, Refuse
<1>15. ASSUME NEW r \in Reloads, ReloadOpen(r) PROVE IInv'
  <2>1. LockInv'
    BY <1>15 DEF TypeOK, LockOK, CallOK, ReloadOK, LockInv, Locked, ReloadOpen,
       Goto, Refuse, OpenReadOnly, CanConnect
  <2>2. QuietInv'
    BY <1>15 DEF TypeOK, CallOK, ReloadOK, QuietInv, LockInv, ReloadOpen, Goto,
       Refuse, OpenReadOnly, CanConnect
  <2>3. FileInv'
    BY <1>15 DEF TypeOK, PathOK, PoolOK, ReloadOK, FileInv, ReloadOpen, Goto,
       Refuse, OpenReadOnly, CanConnect
  <2>4. IdleInv'
    <3>1. CASE UNCHANGED poolVars
      BY <1>15, <3>1 DEF ReloadOpen, IdleInv
    <3>2. CASE CanConnect /\ OpenReadOnly(r)
      <4>1. \A f \in Files : ~(idle[r][f] > 0)
        BY <1>15 DEF ReloadOpen, HandleInv, IdleInv
      <4> QED BY <1>15, <3>2, <4>1, OpenReadOnlyEffect
             DEF ReloadOpen, TypeOK, PathOK, IdleInv
    <3> QED BY <1>15, <3>1, <3>2 DEF ReloadOpen
  <2>5. HeldInv'
    <3>1. r # cur
      BY <1>15 DEF ReloadOpen, HandleInv
    <3>2. origin'[cur] = origin[cur] /\ held' = held
      BY <1>15, <3>1, OpenReadOnlyEffect DEF ReloadOpen, TypeOK
    <3> QED BY <1>15, <3>2 DEF ReloadOpen, Refuse, HeldInv
  <2>6. StampInv'
    BY <1>15, StampFrame, OpenReadOnlyEffect DEF TypeOK, PoolOK, ReloadOK,
       ReloadOpen, Goto, Refuse, OpenReadOnly
  <2>7. HandleInv'
    BY <1>15 DEF TypeOK, PathOK, PoolOK, LockOK, CallOK, ReloadOK, HandleInv,
       LockInv, Locked, Opened, Checked, FileInv, QuietInv, ServedUsable,
       ReloadOpen, Goto, Refuse, OpenReadOnly, CanConnect
  <2>8. ServedUsable'
    BY <1>15 DEF TypeOK, PoolOK, ReloadOK, ServedUsable, HandleInv, QuietInv,
       Opened, Checked, ReloadOpen, Goto, Refuse, OpenReadOnly, CanConnect
  <2>9. NoHandleLeak'
    BY <1>15 DEF TypeOK, LockOK, PoolOK, ReloadOK, NoHandleLeak, HandleInv, LockInv,
       Locked, Opened, QuietInv, ReloadOpen, Goto, Refuse, OpenReadOnly, CanConnect
  <2>10. NeverOlderThanServed'
    <3>1. r # cur
      BY <1>15 DEF ReloadOpen, HandleInv
    <3>2. origin'[cur] = origin[cur]
      BY <1>15, <3>1, OpenReadOnlyEffect DEF ReloadOpen, TypeOK
    <3> QED BY <1>15, <3>2 DEF ReloadOpen, NeverOlderThanServed
  <2> QED BY <1>15, <2>1, <2>2, <2>3, <2>4, <2>5, <2>6, <2>7, <2>8, <2>9, <2>10
<1>16. ASSUME NEW r \in Reloads, ReloadDescribe(r) PROVE IInv'
  <2>1. LockInv'
    BY <1>16 DEF TypeOK, LockOK, CallOK, ReloadOK, LockInv, Locked, ReloadDescribe,
       Goto, Refuse, CloseHandle, NoConns
  <2>2. QuietInv'
    BY <1>16 DEF TypeOK, CallOK, ReloadOK, QuietInv, LockInv, ReloadDescribe, Goto,
       Refuse, CloseHandle, NoConns
  <2>3. IdleInv'
    BY <1>16 DEF TypeOK, PathOK, PoolOK, ReloadOK, FileInv, IdleInv, HeldInv,
       HandleInv, QuietInv, LockInv, ServedUsable, ReloadDescribe, Goto, Refuse,
       CloseHandle, NoConns
  <2>4. StampInv'
    BY <1>16, StampFrame, CloseHandleEffect DEF TypeOK, PoolOK, ReloadOK,
       ReloadDescribe, Goto, Refuse, CloseHandle
  <2>5. HandleInv'
    BY <1>16 DEF TypeOK, PathOK, PoolOK, LockOK, CallOK, ReloadOK, HandleInv,
       LockInv, Locked, Opened, Checked, FileInv, QuietInv, ServedUsable,
       ReloadDescribe, Goto, Refuse, CloseHandle, NoConns
  <2>6. ServedUsable'
    BY <1>16 DEF TypeOK, PoolOK, ReloadOK, ServedUsable, HandleInv, QuietInv,
       Opened, Checked, ReloadDescribe, Goto, Refuse, CloseHandle, NoConns
  <2>7. NoHandleLeak'
    BY <1>16 DEF TypeOK, LockOK, PoolOK, ReloadOK, NoHandleLeak, HandleInv, LockInv,
       Locked, Opened, QuietInv, ReloadDescribe, Goto, Refuse, CloseHandle, NoConns
  <2> QED BY <1>16, <2>1, <2>2, <2>3, <2>4, <2>5, <2>6, <2>7 DEF FileInv, HeldInv,
     NeverOlderThanServed, ReloadDescribe, Goto, CloseHandle, Refuse
<1>17. ASSUME NEW r \in Reloads, ReloadRLock(r) PROVE IInv'
  <2>1. LockInv'
    BY <1>17 DEF TypeOK, LockOK, CallOK, ReloadOK, LockInv, Locked, ReloadRLock,
       Goto, RLockFree
  <2>2. QuietInv'
    BY <1>17 DEF TypeOK, CallOK, ReloadOK, QuietInv, LockInv, ReloadRLock, Goto,
       RLockFree
  <2>3. HeldInv'
    BY <1>17 DEF TypeOK, PathOK, PoolOK, LockOK, CallOK, ReloadOK, HeldInv,
       StampInv, IdleInv, LockInv, FileInv, QuietInv, ServedUsable, HandleInv,
       ReloadRLock, Goto, RLockFree
  <2>4. StampInv'
    BY <1>17 DEF TypeOK, PoolOK, ReloadOK, StampInv, HeldInv, LockInv, Locked,
       ReloadRLock, Goto, RLockFree
  <2>5. HandleInv'
    BY <1>17 DEF TypeOK, PathOK, PoolOK, LockOK, CallOK, ReloadOK, HandleInv,
       LockInv, Locked, Opened, Checked, FileInv, QuietInv, ServedUsable,
       ReloadRLock, Goto, RLockFree
  <2>6. NoHandleLeak'
    BY <1>17 DEF TypeOK, LockOK, PoolOK, ReloadOK, NoHandleLeak, HandleInv, LockInv,
       Locked, Opened, QuietInv, ReloadRLock, Goto, RLockFree
  <2> QED BY <1>17, <2>1, <2>2, <2>3, <2>4, <2>5, <2>6 DEF FileInv, IdleInv,
     ServedUsable, NeverOlderThanServed, ReloadRLock, Goto
<1>18. ASSUME NEW r \in Reloads, ReloadQuery(r) PROVE IInv'
  <2>1. LockInv'
    BY <1>18 DEF TypeOK, LockOK, CallOK, ReloadOK, LockInv, Locked, ReloadQuery,
       Goto, Acquire, TakeIdle, OpenMore
  <2>2. QuietInv'
    BY <1>18 DEF TypeOK, CallOK, ReloadOK, QuietInv, LockInv, ReloadQuery, Goto,
       Acquire, TakeIdle, OpenMore
  <2>3. IdleInv'
    BY <1>18, AcquireEffect DEF ReloadQuery, TypeOK, IdleInv
  <2>4. HeldInv'
    <3>1. r \in readers /\ main = "serving"
      BY <1>18 DEF ReloadQuery, LockInv, QuietInv
    <3>2. CASE UNCHANGED poolVars /\ readers' = readers \ {r}
      BY <1>18, <3>2 DEF ReloadQuery, TypeOK, PoolOK, HeldInv, StampInv
    <3>3. ASSUME NEW f \in Files, Acquire(r, cur, f), readers' = readers
          PROVE  HeldInv'
      <4>1. pub[f] >= pub[origin[cur]]
        BY <3>1, <3>3, AcquireEffect
        DEF TypeOK, PathOK, IdleInv, FileInv, ServedUsable
      <4>2. \A v \in Users, g \in Handles, e \in Files :
               held'[v][g][e] > 0 => (v = r /\ g = cur /\ e = f) \/ held[v][g][e] > 0
        BY <3>3, AcquireEffect DEF TypeOK
      <4>3. origin' = origin /\ pub' = pub /\ cur' = cur
        BY <1>18, <3>3, AcquireEffect DEF ReloadQuery, TypeOK
      <4> QED BY <3>1, <3>3, <4>1, <4>2, <4>3 DEF HeldInv
    <3> QED BY <1>18, <3>2, <3>3 DEF ReloadQuery
  <2>5. StampInv'
    <3>1. \A q \in Reloads : q # r => relPC'[q] = relPC[q] /\ held'[q] = held[q]
      BY <1>18, AcquireEffect DEF ReloadQuery, Goto, TypeOK, ReloadOK
    <3>2. \A q \in Reloads : q # r => relPC[q] \notin {"query", "stamp"}
      BY <1>18 DEF ReloadQuery, LockInv, Locked
    <3>3. CASE relPC'[r] = "lock"
      BY <3>1, <3>2, <3>3 DEF StampInv
    <3>4. ASSUME NEW f \in Files, Acquire(r, cur, f), relPC'[r] = "stamp"
          PROVE  StampInv'
      <4>1. \A h \in Handles, e \in Files :
               held'[r][h][e] = IF h = cur /\ e = f THEN 1 ELSE 0
        <5>1. \A h \in Handles, e \in Files : held[r][h][e] = 0
          BY <1>18 DEF ReloadQuery, StampInv
        <5>2. \A v \in Users, g \in Handles, e \in Files :
                 held'[v][g][e] = IF v = r /\ g = cur /\ e = f
                                  THEN held[v][g][e] + 1 ELSE held[v][g][e]
          BY <3>4, AcquireEffect DEF TypeOK
        <5> QED BY <5>1, <5>2
      <4> QED BY <1>18, <3>1, <3>2, <3>4, <4>1 DEF ReloadQuery, StampInv
    <3> QED BY <1>18, <3>3, <3>4 DEF ReloadQuery, Goto, TypeOK, ReloadOK
  <2>6. HandleInv'
    BY <1>18 DEF TypeOK, PathOK, PoolOK, LockOK, CallOK, ReloadOK, HandleInv,
       LockInv, Locked, Opened, Checked, FileInv, QuietInv, ServedUsable,
       ReloadQuery, Goto, Acquire, TakeIdle, OpenMore
  <2>7. NoHandleLeak'
    BY <1>18 DEF TypeOK, LockOK, PoolOK, ReloadOK, NoHandleLeak, HandleInv, LockInv,
       Locked, Opened, QuietInv, ReloadQuery, Goto, Acquire, TakeIdle, OpenMore
  <2> QED BY <1>18, <2>1, <2>2, <2>3, <2>4, <2>5, <2>6, <2>7 DEF FileInv,
     ServedUsable, NeverOlderThanServed, ReloadQuery, Goto, Acquire, TakeIdle,
     OpenMore
<1>19. ASSUME NEW r \in Reloads, ReloadStamp(r) PROVE IInv'
  <2>1. LockInv'
    BY <1>19 DEF TypeOK, LockOK, CallOK, ReloadOK, LockInv, Locked, ReloadStamp,
       Goto, Release
  <2>2. QuietInv'
    BY <1>19 DEF TypeOK, CallOK, ReloadOK, QuietInv, LockInv, ReloadStamp, Goto,
       Release
  <2>3. IdleInv'
    BY <1>19 DEF TypeOK, PathOK, PoolOK, ReloadOK, FileInv, IdleInv, HeldInv,
       HandleInv, QuietInv, LockInv, ServedUsable, ReloadStamp, Goto, Release
  <2>4. HeldInv'
    BY <1>19 DEF TypeOK, PathOK, PoolOK, LockOK, CallOK, ReloadOK, HeldInv,
       StampInv, IdleInv, LockInv, FileInv, QuietInv, ServedUsable, HandleInv,
       ReloadStamp, Goto, Release
  <2>5. StampInv'
    BY <1>19 DEF TypeOK, PoolOK, ReloadOK, StampInv, HeldInv, LockInv, Locked,
       ReloadStamp, Goto, Release
  <2>6. HandleInv'
    BY <1>19 DEF TypeOK, PathOK, PoolOK, LockOK, CallOK, ReloadOK, HandleInv,
       LockInv, Locked, Opened, Checked, FileInv, QuietInv, ServedUsable,
       ReloadStamp, Goto, Release
  <2>7. NoHandleLeak'
    BY <1>19 DEF TypeOK, LockOK, PoolOK, ReloadOK, NoHandleLeak, HandleInv, LockInv,
       Locked, Opened, QuietInv, ReloadStamp, Goto, Release
  <2> QED BY <1>19, <2>1, <2>2, <2>3, <2>4, <2>5, <2>6, <2>7 DEF FileInv,
     ServedUsable, NeverOlderThanServed, ReloadStamp, Goto, Release
<1>20. ASSUME NEW r \in Reloads, ReloadLock(r) PROVE IInv'
  <2>1. LockInv'
    BY <1>20 DEF TypeOK, LockOK, CallOK, ReloadOK, LockInv, Locked, ReloadLock, Goto
  <2>2. QuietInv'
    BY <1>20 DEF TypeOK, CallOK, ReloadOK, QuietInv, LockInv, ReloadLock, Goto
  <2>3. StampInv'
    BY <1>20, StampFrame DEF TypeOK, PoolOK, ReloadOK, ReloadLock, Goto
  <2>4. HandleInv'
    BY <1>20 DEF TypeOK, PathOK, PoolOK, LockOK, CallOK, ReloadOK, HandleInv,
       LockInv, Locked, Opened, Checked, FileInv, QuietInv, ServedUsable,
       ReloadLock, Goto
  <2>5. NoHandleLeak'
    BY <1>20 DEF TypeOK, LockOK, PoolOK, ReloadOK, NoHandleLeak, HandleInv, LockInv,
       Locked, Opened, QuietInv, ReloadLock, Goto
  <2> QED BY <1>20, <2>1, <2>2, <2>3, <2>4, <2>5 DEF FileInv, IdleInv, HeldInv,
     ServedUsable, NeverOlderThanServed, ReloadLock, Goto
<1>21. ASSUME NEW r \in Reloads, ReloadSwap(r) PROVE IInv'
  <2>1. LockInv'
    BY <1>21 DEF TypeOK, LockOK, CallOK, ReloadOK, LockInv, Locked, ReloadSwap, Goto
  <2>2. QuietInv'
    BY <1>21 DEF TypeOK, CallOK, ReloadOK, QuietInv, LockInv, ReloadSwap, Goto
  <2>3. HeldInv'
    BY <1>21 DEF TypeOK, PathOK, PoolOK, LockOK, CallOK, ReloadOK, HeldInv,
       StampInv, IdleInv, LockInv, FileInv, QuietInv, ServedUsable, HandleInv,
       ReloadSwap, Goto
  <2>4. StampInv'
    BY <1>21 DEF TypeOK, PoolOK, ReloadOK, StampInv, HeldInv, LockInv, Locked,
       ReloadSwap, Goto
  <2>5. HandleInv'
    BY <1>21 DEF TypeOK, PathOK, PoolOK, LockOK, CallOK, ReloadOK, HandleInv,
       LockInv, Locked, Opened, Checked, FileInv, QuietInv, ServedUsable,
       ReloadSwap, Goto
  <2>6. ServedUsable'
    BY <1>21 DEF TypeOK, PoolOK, ReloadOK, ServedUsable, HandleInv, QuietInv,
       Opened, Checked, ReloadSwap, Goto
  <2>7. NoHandleLeak'
    BY <1>21 DEF TypeOK, LockOK, PoolOK, ReloadOK, NoHandleLeak, HandleInv, LockInv,
       Locked, Opened, QuietInv, ReloadSwap, Goto
  <2>8. NeverOlderThanServed'
    BY <1>21 DEF TypeOK, PathOK, PoolOK, LockOK, CallOK, ReloadOK,
       NeverOlderThanServed, FileInv, IdleInv, HeldInv, QuietInv, ServedUsable,
       LockInv, HandleInv, ReloadSwap, Goto
  <2> QED BY <1>21, <2>1, <2>2, <2>3, <2>4, <2>5, <2>6, <2>7, <2>8 DEF FileInv,
     IdleInv, ReloadSwap, Goto
<1>22. ASSUME NEW r \in Reloads, ReloadClose(r) PROVE IInv'
  <2>1. LockInv'
    BY <1>22 DEF TypeOK, LockOK, CallOK, ReloadOK, LockInv, Locked, ReloadClose,
       Goto, CloseHandle, NoConns
  <2>2. QuietInv'
    BY <1>22 DEF TypeOK, CallOK, ReloadOK, QuietInv, LockInv, ReloadClose, Goto,
       CloseHandle, NoConns
  <2>3. IdleInv'
    BY <1>22 DEF TypeOK, PathOK, PoolOK, ReloadOK, FileInv, IdleInv, HeldInv,
       HandleInv, QuietInv, LockInv, ServedUsable, ReloadClose, Goto, CloseHandle,
       NoConns
  <2>4. StampInv'
    BY <1>22 DEF TypeOK, PoolOK, ReloadOK, StampInv, HeldInv, LockInv, Locked,
       ReloadClose, Goto, CloseHandle, NoConns
  <2>5. HandleInv'
    BY <1>22 DEF TypeOK, PathOK, PoolOK, LockOK, CallOK, ReloadOK, HandleInv,
       LockInv, Locked, Opened, Checked, FileInv, QuietInv, ServedUsable,
       ReloadClose, Goto, CloseHandle, NoConns
  <2>6. ServedUsable'
    BY <1>22 DEF TypeOK, PoolOK, ReloadOK, ServedUsable, HandleInv, QuietInv,
       Opened, Checked, ReloadClose, Goto, CloseHandle, NoConns
  <2>7. NoHandleLeak'
    BY <1>22 DEF TypeOK, LockOK, PoolOK, ReloadOK, NoHandleLeak, HandleInv, LockInv,
       Locked, Opened, QuietInv, ReloadClose, Goto, CloseHandle, NoConns
  <2> QED BY <1>22, <2>1, <2>2, <2>3, <2>4, <2>5, <2>6, <2>7 DEF FileInv, HeldInv,
     NeverOlderThanServed, ReloadClose, Goto, CloseHandle
<1>23. CASE UNCHANGED vars
  <2>1. LockInv' /\ QuietInv' /\ FileInv' /\ IdleInv'
    BY <1>23 DEF vars, LockInv, QuietInv, FileInv, IdleInv
  <2>2. HeldInv' /\ HandleInv'
    BY <1>23 DEF vars, HeldInv, HandleInv
  <2>3. StampInv'
    BY <1>23, StampFrame DEF vars
  <2>4. ServedUsable' /\ NoHandleLeak' /\ NeverOlderThanServed'
    BY <1>23 DEF vars, ServedUsable, NoHandleLeak, NeverOlderThanServed
  <2> QED BY <2>1, <2>2, <2>3, <2>4
<1> QED
  BY <1>1, <1>2, <1>3, <1>4, <1>5, <1>6, <1>7, <1>8, <1>9, <1>10, <1>11, <1>12,
     <1>13, <1>14, <1>15, <1>16, <1>17, <1>18, <1>19, <1>20, <1>21, <1>22, <1>23
  DEF Next, Start, CallStep, ReloadStep, Exited

-----------------------------------------------------------------------------
(* The results. *)

LEMMA InvNoUseAfterClose == IInv => NoUseAfterClose
<1> SUFFICES ASSUME IInv, NEW u \in Users, NEW h \in Handles, NEW f \in Files,
                    held[u][h][f] > 0
             PROVE  handle[h] = "open"
  BY DEF NoUseAfterClose
<1>1. u \in readers /\ h = cur
  BY DEF IInv, HeldInv
<1>2. main = "serving"
  BY <1>1 DEF IInv, LockInv, QuietInv
<1> QED BY <1>1, <1>2 DEF IInv, ServedUsable

\* No query runs on a closed handle: whatever the number of calls and reloads,
\* Reload closes `old` only after the write lock has waited its readers out.
THEOREM NeverUsedAfterClose == Spec => []NoUseAfterClose
BY InitInv, StepInv, InvNoUseAfterClose, PTL DEF Spec

\* Once serving, Server.db is open and was accepted by the schema check,
\* whichever reloads were refused on the way.
THEOREM AlwaysUsable == Spec => []ServedUsable
<1>1. IInv => ServedUsable
  BY DEF IInv
<1> QED BY <1>1, InitInv, StepInv, PTL DEF Spec

\* Reload never loses track of a handle it opened or replaced.
THEOREM HandlesNeverLeak == Spec => []NoHandleLeak
<1>1. IInv => NoHandleLeak
  BY DEF IInv
<1> QED BY <1>1, InitInv, StepInv, PTL DEF Spec

\* reload_index is a barrier: rows read by a call are never from an artifact
\* older than the served one.
THEOREM ReloadIsABarrier == Spec => []NeverOlderThanServed
<1>1. IInv => NeverOlderThanServed
  BY DEF IInv
<1> QED BY <1>1, InitInv, StepInv, PTL DEF Spec

LEMMA StepNeverRegresses ==
    ASSUME IInv, [Next]_vars
    PROVE  [cur' # cur => pub'[origin'[cur']] >= pub[origin[cur]]]_vars
<1>1. ASSUME NEW r \in Reloads, ReloadSwap(r)
      PROVE  pub'[origin'[cur']] >= pub[origin[cur]]
  BY <1>1 DEF ReloadSwap, IInv, HandleInv, Opened, Checked
<1>2. ASSUME cur' # cur PROVE \E r \in Reloads : ReloadSwap(r)
  BY <1>2 DEF Next, Start, CallStep, ReloadStep, Exited, vars, Publish, Remove,
     StartDiagnose, StartOpen, StartCheck, Arrive, PinIndex, Query, QueryFails,
     CloseRows, Return, ReloadEnter, ReloadMutex, ReloadDiagnose, ReloadOpen,
     ReloadDescribe, ReloadRLock, ReloadQuery, ReloadStamp, ReloadLock, ReloadClose
<1> QED BY <1>1, <1>2

\* Racing reloads never take the server back to an earlier artifact.
THEOREM NeverRegresses == Spec => ServedNeverRegresses
BY InitInv, StepInv, StepNeverRegresses, PTL DEF Spec, ServedNeverRegresses

=============================================================================
