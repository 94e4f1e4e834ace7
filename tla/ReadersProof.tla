---------------------------- MODULE ReadersProof ----------------------------
(***************************************************************************)
(* What the readers of collect promise, proved for every input: --target's *)
(* compaction in place, the replay of the ninja deps log and where the     *)
(* DWARF reader files its entries.  DumpsProof has the other readers.      *)
(*                                                                         *)
(* A behaviour of Readers is one call of one reader, so the invariant of a *)
(* reader is about the turns that are its own, and the steps of the others *)
(* change none of its variables.                                           *)
(***************************************************************************)
EXTENDS Readers, Lemmas

-----------------------------------------------------------------------------
(* filterTargets.                                                          *)

\* The positions before k whose target --target names.
Picked(k) == {j \in DOMAIN built : j < k /\ built[j] \in wanted}

\* What is left of the array is as Meson listed it, and what was kept is the
\* wanted part of what the loop has passed, in its order.
FilterInv ==
    /\ built \in Seq(Targets) /\ array \in Seq(Targets) /\ Len(array) = Len(built)
    /\ step \in {"loop", "kept", "refused"}
    /\ i \in Nat /\ i >= 1 /\ i <= Len(built) + 1
    /\ kept \in Nat /\ kept < i
    /\ wanted = {} => i = 1
    /\ \A k \in DOMAIN built : k >= i => array[k] = built[k]
    /\ kept = Cardinality(Picked(i))
    /\ \A k \in Picked(i) : array[Rank(Picked(i), k)] = built[k]
    /\ seen = {built[k] : k \in Picked(i)}
    /\ Filter!FilterIsExact

FilterIInv == turn = "filter" => FilterInv

\* The positions picked are naturals below the loop index, and each step adds
\* its own position or none.
LEMMA PickedStep ==
    ASSUME built \in Seq(Targets), NEW k \in Nat, k >= 1
    PROVE  /\ Picked(k) \in SUBSET Nat /\ IsFiniteSet(Picked(k))
           /\ \A j \in Picked(k) : j < k
           /\ k \in DOMAIN built =>
                 Picked(k + 1) = IF built[k] \in wanted THEN Picked(k) \cup {k} ELSE Picked(k)
<1>1. DOMAIN built = 1..Len(built) /\ Len(built) \in Nat
  OBVIOUS
<1>2. Picked(k) \in SUBSET (1..Len(built))
  BY <1>1 DEF Picked
<1>3. IsFiniteSet(Picked(k))
  BY <1>1, <1>2, FS_Subset, RankInterval
<1>4. \A j \in Picked(k) : j < k
  BY DEF Picked
<1>5. ASSUME k \in DOMAIN built
      PROVE  Picked(k + 1) = IF built[k] \in wanted THEN Picked(k) \cup {k} ELSE Picked(k)
  <2>1. ASSUME NEW j \in DOMAIN built PROVE j < k + 1 <=> j < k \/ j = k
    BY <1>1
  <2> QED
    BY <1>1, <1>5, <2>1 DEF Picked
<1> QED
  BY <1>1, <1>2, <1>3, <1>4, <1>5

\* The instance's InOrder is the one of the lemmas.
LEMMA SameOrder ==
    ASSUME NEW o, NEW S, NEW f, InOrder(o, S, f)
    PROVE  Filter!InOrder(o, S, f)
<1>1. \A T : Filter!Cardinality(T) = Cardinality(T)
  BY DEF Cardinality, Filter!Cardinality, IsFiniteSet, Filter!IsFiniteSet
<1> QED
  BY <1>1 DEF InOrder, Rank, Filter!InOrder, Filter!Rank

\* The call starts with nothing picked.
LEMMA FilterInitially == Init => FilterIInv
<1>1. SUFFICES ASSUME Init, turn = "filter" PROVE FilterInv
  BY DEF FilterIInv
<1>2. Filter!Init
  BY <1>1 DEF Init
<1>3. built \in Seq(Targets) /\ array = built
  <2>1. PICK n \in 0..MaxTargets : built \in [1..n -> Targets]
    BY <1>2 DEF Filter!Init, Filter!Lists
  <2> QED
    BY <1>2, <2>1 DEF Filter!Init
<1>4. i = 1 /\ kept = 0 /\ seen = {} /\ step = "loop"
  BY <1>2 DEF Filter!Init
<1>5. Picked(i) = {}
  BY <1>3, <1>4 DEF Picked
<1>6. Cardinality(Picked(i)) = 0
  BY <1>5, FS_EmptySet
<1>7. Filter!FilterIsExact
  BY <1>4 DEF Filter!FilterIsExact
<1>8. seen = {built[k] : k \in Picked(i)} /\ \A k \in Picked(i) : array[Rank(Picked(i), k)] = built[k]
  BY <1>4, <1>5
<1>9. i \in Nat /\ i >= 1 /\ kept \in Nat /\ kept < i /\ i <= Len(built) + 1
  BY <1>3, <1>4
<1> QED
  BY <1>3, <1>4, <1>6, <1>7, <1>8, <1>9 DEF FilterInv

\* A wanted target moves down to the end of what was kept, which the loop has
\* passed, and one that is not wanted is passed over.
LEMMA FilterLoop ==
    ASSUME FilterInv, Filter!Loop
    PROVE  FilterInv'
<1>1. /\ built \in Seq(Targets) /\ array \in Seq(Targets) /\ Len(array) = Len(built)
      /\ Len(built) \in Nat /\ DOMAIN built = 1..Len(built) /\ DOMAIN array = 1..Len(built)
      /\ i \in Nat /\ i >= 1 /\ kept \in Nat /\ kept < i
      /\ \A k \in DOMAIN built : k >= i => array[k] = built[k]
      /\ kept = Cardinality(Picked(i))
      /\ \A k \in Picked(i) : array[Rank(Picked(i), k)] = built[k]
      /\ seen = {built[k] : k \in Picked(i)}
  BY DEF FilterInv
<1>2. /\ step = "loop" /\ wanted # {} /\ i <= Len(array) /\ i' = i + 1
      /\ built' = built /\ wanted' = wanted /\ step' = step
  BY DEF Filter!Loop
<1>3. i \in DOMAIN built /\ array[i] = built[i]
  BY <1>1, <1>2
<1>4. /\ Picked(i) \in SUBSET Nat /\ IsFiniteSet(Picked(i)) /\ \A j \in Picked(i) : j < i
      /\ Picked(i + 1) = IF built[i] \in wanted THEN Picked(i) \cup {i} ELSE Picked(i)
  BY <1>1, <1>3, PickedStep
<1>5. Picked(i)' = Picked(i + 1)
  BY <1>2 DEF Picked
<1>6. i' \in Nat /\ i' >= 1 /\ i' <= Len(built') + 1
  BY <1>1, <1>2
<1>7. Filter!FilterIsExact'
  BY <1>2 DEF Filter!FilterIsExact
<1>8. CASE built[i] \in wanted
  <2>1. /\ array' = [array EXCEPT ![kept + 1] = array[i]]
        /\ kept' = kept + 1 /\ seen' = seen \cup {array[i]}
    BY <1>3, <1>8 DEF Filter!Loop, Filter!Slot
  <2>2. /\ Picked(i)' = Picked(i) \cup {i}
        /\ Cardinality(Picked(i)') = kept + 1 /\ Rank(Picked(i)', i) = kept + 1
        /\ \A k \in Picked(i) : /\ Rank(Picked(i)', k) = Rank(Picked(i), k)
                                /\ Rank(Picked(i), k) \in 1..kept
    <3> DEFINE P == Picked(i)
    <3>1. P \in SUBSET Nat /\ IsFiniteSet(P) /\ \A j \in P : j < i
      BY <1>4
    <3>2. /\ Cardinality(P \cup {i}) = Cardinality(P) + 1
          /\ Rank(P \cup {i}, i) = Cardinality(P) + 1
          /\ \A k \in P : Rank(P \cup {i}, k) = Rank(P, k) /\ Rank(P, k) \in 1..Cardinality(P)
      <4> HIDE DEF P
      <4> QED
        BY <1>1, <3>1, RankAdd
    <3>3. Picked(i)' = P \cup {i}
      BY <1>4, <1>5, <1>8
    <3>4. Cardinality(P) = kept
      BY <1>1
    <3> QED
      BY <3>2, <3>3, <3>4
  <2>3. kept + 1 \in 1..i /\ kept + 1 \in DOMAIN array
    BY <1>1, <1>2
  <2>4. array' \in Seq(Targets) /\ Len(array') = Len(built')
    BY <1>1, <1>2, <1>3, <2>1, <2>3
  <2>5. \A k \in DOMAIN built' : k >= i' => array'[k] = built'[k]
    <3>1. SUFFICES ASSUME NEW k \in DOMAIN built, k >= i + 1 PROVE array'[k] = built[k]
      BY <1>2
    <3>2. k \in DOMAIN array /\ k # kept + 1 /\ k >= i
      BY <1>1, <2>3, <3>1
    <3>3. array'[k] = array[k]
      BY <2>1, <3>2
    <3> QED
      BY <1>1, <3>2, <3>3
  <2>6. \A k \in Picked(i)' : array'[Rank(Picked(i)', k)] = built'[k]
    <3>1. array'[kept + 1] = built[i]
      BY <1>3, <2>1, <2>3
    <3>2. ASSUME NEW k \in Picked(i) PROVE array'[Rank(Picked(i), k)] = built[k]
      <4>1. Rank(Picked(i), k) \in 1..kept
        BY <2>2
      <4>2. Rank(Picked(i), k) \in DOMAIN array /\ Rank(Picked(i), k) # kept + 1
        BY <1>1, <2>3, <4>1
      <4>3. array'[Rank(Picked(i), k)] = array[Rank(Picked(i), k)]
        BY <2>1, <4>2
      <4> QED
        BY <1>1, <4>3
    <3> QED
      BY <1>2, <2>2, <3>1, <3>2
  <2>7. seen' = {built'[k] : k \in Picked(i)'}
    BY <1>1, <1>2, <1>3, <2>1, <2>2
  <2>8. kept' \in Nat /\ kept' < i'
    BY <1>1, <1>2, <2>1
  <2> QED
    BY <1>1, <1>2, <1>6, <1>7, <2>1, <2>2, <2>4, <2>5, <2>6, <2>7, <2>8 DEF FilterInv
<1>9. CASE built[i] \notin wanted
  <2>1. array' = array /\ kept' = kept /\ seen' = seen /\ Picked(i)' = Picked(i)
    BY <1>3, <1>4, <1>5, <1>9 DEF Filter!Loop
  <2>2. \A k \in DOMAIN built' : k >= i' => array'[k] = built'[k]
    BY <1>1, <1>2, <2>1
  <2>3. kept' < i'
    BY <1>1, <1>2, <2>1
  <2> QED
    BY <1>1, <1>2, <1>6, <1>7, <2>1, <2>2, <2>3 DEF FilterInv
<1> QED
  BY <1>8, <1>9

\* Every step of filterTargets keeps the invariant; the answer is the wanted part,
\* and a target is missing exactly when the loop has not seen it.
LEMMA FilterSteps ==
    ASSUME FilterInv, Filter!Next
    PROVE  FilterInv'
<1>1. /\ built \in Seq(Targets) /\ array \in Seq(Targets) /\ Len(array) = Len(built)
      /\ Len(built) \in Nat /\ DOMAIN built = 1..Len(built) /\ DOMAIN array = 1..Len(built)
      /\ i \in Nat /\ i >= 1 /\ i <= Len(built) + 1 /\ kept \in Nat /\ kept < i
      /\ \A k \in DOMAIN built : k >= i => array[k] = built[k]
      /\ kept = Cardinality(Picked(i))
      /\ \A k \in Picked(i) : array[Rank(Picked(i), k)] = built[k]
      /\ seen = {built[k] : k \in Picked(i)}
      /\ Filter!FilterIsExact
      /\ wanted = {} => i = 1
  BY DEF FilterInv
<1>2. ASSUME UNCHANGED <<built, wanted, array, i, kept, seen>>,
             step' \in {"loop", "kept", "refused"}, Filter!FilterIsExact'
      PROVE  FilterInv'
  BY <1>1, <1>2 DEF FilterInv, Picked
<1>3. CASE Filter!KeepAll
  <2>1. /\ UNCHANGED <<built, wanted, array, i, kept, seen>> /\ step' = "kept"
        /\ wanted = {} /\ result' = array
    BY <1>3 DEF Filter!KeepAll
  <2>2. {k \in DOMAIN built : wanted = {} \/ built[k] \in wanted} = 1..Len(built)
    BY <1>1, <2>1
  <2>3. \A k \in 1..Len(built) : array[k] = built[k]
    BY <1>1, <2>1
  <2>4. InOrder(array, 1..Len(built), built)
    BY <1>1, <2>3, RankInterval DEF InOrder
  <2>5. Filter!InOrder(array, 1..Len(built), built)
    BY <2>4, SameOrder
  <2>6. Filter!FilterIsExact'
    BY <2>1, <2>2, <2>5 DEF Filter!FilterIsExact
  <2> QED
    BY <1>2, <2>1, <2>6
<1>4. CASE Filter!Loop
  BY <1>4, FilterLoop
<1>5. ASSUME wanted # {}, i > Len(array)
      PROVE  /\ {k \in DOMAIN built : wanted = {} \/ built[k] \in wanted} = Picked(i)
             /\ Filter!Missing = {} <=> wanted \subseteq Filter!ToSet(built)
  <2>1. \A k \in DOMAIN built : k < i
    BY <1>1, <1>5
  <2>2. Picked(i) = {k \in DOMAIN built : built[k] \in wanted}
    BY <2>1 DEF Picked
  <2>3. seen = {built[k] : k \in {k \in DOMAIN built : built[k] \in wanted}}
    BY <1>1, <2>2
  <2> QED
    BY <1>5, <2>2, <2>3 DEF Filter!Missing, Filter!ToSet
<1>6. CASE Filter!Filtered
  <2>1. /\ UNCHANGED <<built, wanted, array, i, kept, seen>> /\ step' = "kept"
        /\ wanted # {} /\ i > Len(array) /\ Filter!Missing = {}
        /\ result' = SubSeq(array, 1, kept)
    BY <1>6 DEF Filter!Filtered
  <2>2. kept <= Len(array)
    BY <1>1
  <2>3. /\ DOMAIN SubSeq(array, 1, kept) = 1..kept
        /\ \A k \in 1..kept : SubSeq(array, 1, kept)[k] = array[k]
    BY <1>1, <2>2
  <2>4. \A k \in Picked(i) : Rank(Picked(i), k) \in 1..kept
    <3> DEFINE P == Picked(i)
    <3>1. P \in SUBSET Nat /\ IsFiniteSet(P) /\ (\A j \in P : j < i) /\ Cardinality(P) = kept
      BY <1>1, PickedStep
    <3>2. \A k \in P : Rank(P, k) \in 1..kept
      <4> HIDE DEF P
      <4> QED
        BY <1>1, <3>1, RankAdd
    <3> QED
      BY <3>2
  <2>5. InOrder(result', Picked(i), built)
    BY <1>1, <2>1, <2>3, <2>4 DEF InOrder
  <2>6. Filter!InOrder(result', Picked(i), built)
    BY <2>5, SameOrder
  <2>7. Filter!FilterIsExact'
    BY <1>5, <2>1, <2>6 DEF Filter!FilterIsExact, Filter!ToSet
  <2> QED
    BY <1>2, <2>1, <2>7
<1>7. CASE Filter!Refused
  <2>1. /\ UNCHANGED <<built, wanted, array, i, kept, seen>> /\ step' = "refused"
        /\ wanted # {} /\ i > Len(array) /\ Filter!Missing # {}
    BY <1>7 DEF Filter!Refused
  <2>2. Filter!FilterIsExact'
    BY <1>5, <2>1 DEF Filter!FilterIsExact, Filter!ToSet
  <2> QED
    BY <1>2, <2>1, <2>2
<1>8. CASE Filter!Done
  BY <1>8 DEF Filter!Done, Filter!vars, FilterInv, Picked, Filter!FilterIsExact
<1> QED
  BY <1>3, <1>4, <1>6, <1>7, <1>8 DEF Filter!Next

\* The steps of the other readers do not touch it.
LEMMA FilterStep ==
    ASSUME FilterIInv, [Next]_vars
    PROVE  FilterIInv'
<1>1. turn' = turn
  BY DEF Next, vars, ReadLog, ReadMap, ParseCgraph, FilterTargets, ParseIpaDump, ReadDwarf, ParseCallSite
<1>2. SUFFICES ASSUME turn = "filter" PROVE FilterInv'
  BY <1>1 DEF FilterIInv
<1>3. FilterInv
  BY <1>2 DEF FilterIInv
<1>4. CASE FilterTargets
  BY <1>3, <1>4, FilterSteps DEF FilterTargets
<1>5. CASE UNCHANGED vars
  BY <1>3, <1>5 DEF vars, meson, FilterInv, Picked, Filter!FilterIsExact
<1> QED
  BY <1>2, <1>4, <1>5 DEF Next, ReadLog, ReadMap, ParseCgraph, ParseIpaDump, ReadDwarf, ParseCallSite

\* For every list of targets and every --target set, the list that filterTargets
\* compacts in place ends as the wanted part of what Meson listed, in its order,
\* and exactly the runs that name a target the builddir lacks are refused
\* (collect.go filterTargets).
THEOREM FilterAlwaysExact == Spec => []FilterIsExact
<1>1. FilterIInv => FilterIsExact
  BY DEF FilterIInv, FilterInv, FilterIsExact
<1> QED
  BY <1>1, FilterInitially, FilterStep, PTL DEF Spec

-----------------------------------------------------------------------------
(* ninjadeps.Read.                                                         *)

\* The instance's helpers are those of the lemmas.
LEMMA NinjaSame ==
    /\ \A T : Ninja!Cardinality(T) = Cardinality(T)
    /\ \A S, f : Ninja!Selected(S, f) = Selected(S, f)
<1>1. \A T : Ninja!Cardinality(T) = Cardinality(T)
  BY DEF Cardinality, Ninja!Cardinality
<1>2. \A S, f : Ninja!Selected(S, f) = Selected(S, f)
  BY DEF Selected, Rank, Ninja!Selected, Ninja!Rank, Cardinality, Ninja!Cardinality
<1> QED
  BY <1>1, <1>2

LogRecord ==
    [kind : {"path"}, name : Names, id : Nat]
      \cup [kind : {"deps"}, out : Nat, ins : Seq(Nat), ok : {TRUE}]
      \cup {Ninja!Torn}

PathsTo(n) == Ninja!PathsUpTo(n)
DepsTo(n) == Ninja!DepsUpTo(n)

\* What a log that ninja alone wrote looks like: a path record's id is the number
\* of those before it and its name is new, a deps record refers to paths registered
\* before it, and only the last record may be torn.
LogInv ==
    /\ log \in Seq(LogRecord)
    /\ \A j \in 1..Len(log) :
          /\ log[j].kind = "torn" => j = Len(log)
          /\ log[j].kind = "path" =>
                /\ log[j].id = Cardinality(PathsTo(j - 1))
                /\ \A k \in PathsTo(j - 1) : log[k].name # log[j].name
          /\ log[j].kind = "deps" =>
                /\ log[j].out < Cardinality(PathsTo(j - 1))
                /\ \A k \in DOMAIN log[j].ins : log[j].ins[k] < Cardinality(PathsTo(j - 1))

\* How many records of the log are complete.
Complete == IF Ninja!IsTorn(log) THEN Len(log) - 1 ELSE Len(log)

LatestDeps(j, n) == \A k \in DepsTo(n) : log[k].out = log[j].out => k <= j

\* The reader has consumed complete records only, all that were there when it
\* opened the file by the time it is done, and reports no corruption.
PlaceInv ==
    /\ pc \in {"closed", "reading", "done", "refused"}
    /\ at \in Nat /\ opened \in Nat /\ at <= Complete /\ opened <= Complete
    /\ pc = "done" => at >= opened

\* It has the paths they register, under their ids and each once.
PathsInv ==
    /\ paths \in Seq(Names) /\ Len(paths) = Cardinality(PathsTo(at))
    /\ \A j \in PathsTo(at) : log[j].id < Len(paths) /\ paths[log[j].id + 1] = log[j].name
    /\ \A m \in 1..Len(paths) : \E j \in PathsTo(at) : log[j].id + 1 = m
    /\ \A m, n \in 1..Len(paths) : paths[m] = paths[n] => m = n

\* And per output what its latest record says.
DepsInv ==
    /\ \A j \in DepsTo(at) :
          /\ log[j].out < Len(paths)
          /\ \A k \in DOMAIN log[j].ins : log[j].ins[k] < Len(paths)
    /\ DOMAIN deps = {paths[log[j].out + 1] : j \in DepsTo(at)}
    /\ \A j \in DepsTo(at) : LatestDeps(j, at) =>
          deps[paths[log[j].out + 1]] =
              [k \in DOMAIN log[j].ins |-> paths[log[j].ins[k] + 1]]

ReadInv == PlaceInv /\ PathsInv /\ DepsInv

NinjaIInv == turn = "ninja" /\ honest => LogInv /\ ReadInv

\* The kind of a record tells its fields.
LEMMA RecordFields ==
    ASSUME NEW r \in LogRecord
    PROVE  /\ r.kind \in {"path", "deps", "torn"}
           /\ r.kind = "path" => r.name \in Names /\ r.id \in Nat
           /\ r.kind = "deps" => r.out \in Nat /\ r.ins \in Seq(Nat) /\ r.ok = TRUE
           /\ r.kind = "torn" <=> r = Ninja!Torn
<1>1. CASE r \in [kind : {"path"}, name : Names, id : Nat]
  BY <1>1 DEF Ninja!Torn
<1>2. CASE r \in [kind : {"deps"}, out : Nat, ins : Seq(Nat), ok : {TRUE}]
  <2>1. r.ok = TRUE
    BY <1>2, Zenon
  <2>2. r.kind = "deps" /\ r.out \in Nat /\ r.ins \in Seq(Nat)
    BY <1>2
  <2>3. r # Ninja!Torn
    BY <2>2 DEF Ninja!Torn
  <2> QED
    BY <2>1, <2>2, <2>3
<1>3. CASE r = Ninja!Torn
  BY <1>3 DEF Ninja!Torn
<1> QED
  BY <1>1, <1>2, <1>3 DEF LogRecord

\* The positions of path and deps records, one record further.
LEMMA UpTo ==
    ASSUME NEW n \in Nat
    PROVE  /\ PathsTo(n) \in SUBSET Nat /\ IsFiniteSet(PathsTo(n))
           /\ Cardinality(PathsTo(n)) \in Nat
           /\ \A j \in PathsTo(n) : j <= n /\ j >= 1 /\ log[j].kind = "path"
           /\ \A j \in DepsTo(n) : j \in Nat /\ j <= n /\ j >= 1 /\ log[j].kind = "deps"
           /\ PathsTo(n + 1) = IF log[n + 1].kind = "path" THEN PathsTo(n) \cup {n + 1}
                                                           ELSE PathsTo(n)
           /\ Cardinality(PathsTo(n + 1)) =
                 IF log[n + 1].kind = "path" THEN Cardinality(PathsTo(n)) + 1
                                             ELSE Cardinality(PathsTo(n))
           /\ DepsTo(n + 1) = IF log[n + 1].kind = "deps" THEN DepsTo(n) \cup {n + 1}
                                                          ELSE DepsTo(n)
<1>1. 1..(n + 1) = 1..n \cup {n + 1} /\ \A j \in 1..n : j \in Nat /\ j >= 1 /\ j <= n /\ j < n + 1
  OBVIOUS
<1>2. PathsTo(n) \in SUBSET (1..n)
  BY DEF PathsTo, Ninja!PathsUpTo
<1>3. IsFiniteSet(PathsTo(n)) /\ Cardinality(PathsTo(n)) \in Nat
  BY <1>2, FS_Subset, RankInterval, FS_CardinalityType
<1>4. PathsTo(n + 1) = IF log[n + 1].kind = "path" THEN PathsTo(n) \cup {n + 1} ELSE PathsTo(n)
  BY <1>1 DEF PathsTo, Ninja!PathsUpTo
<1>5. DepsTo(n + 1) = IF log[n + 1].kind = "deps" THEN DepsTo(n) \cup {n + 1} ELSE DepsTo(n)
  BY <1>1 DEF DepsTo, Ninja!DepsUpTo
<1>6. n + 1 \notin PathsTo(n)
  BY <1>1, <1>2
<1>7. Cardinality(PathsTo(n) \cup {n + 1}) = Cardinality(PathsTo(n)) + 1
  BY <1>3, <1>6, FS_AddElement
<1>8. \A j \in PathsTo(n) : log[j].kind = "path"
  BY DEF PathsTo, Ninja!PathsUpTo
<1>9. \A j \in DepsTo(n) : j \in 1..n /\ log[j].kind = "deps"
  BY DEF DepsTo, Ninja!DepsUpTo
<1> QED
  BY <1>1, <1>2, <1>3, <1>4, <1>5, <1>7, <1>8, <1>9

\* The complete part of the log is what is left of it without a torn record.
LEMMA WholeLog ==
    ASSUME LogInv
    PROVE  /\ Complete \in Nat /\ Complete <= Len(log)
           /\ Ninja!Whole(log) \in Seq(LogRecord) /\ Len(Ninja!Whole(log)) = Complete
           /\ \A j \in 1..Complete : Ninja!Whole(log)[j] = log[j] /\ log[j].kind # "torn"
           /\ Complete < Len(log) => Len(log) = Complete + 1 /\ log[Len(log)].kind = "torn"
<1>1. log \in Seq(LogRecord) /\ \A j \in 1..Len(log) : log[j].kind = "torn" => j = Len(log)
  BY DEF LogInv
<1>2. CASE Ninja!IsTorn(log)
  <2>1. log # <<>> /\ log[Len(log)] = Ninja!Torn
    BY <1>2 DEF Ninja!IsTorn, Ninja!Last
  <2>2. Len(log) \in Nat /\ Len(log) >= 1 /\ Complete = Len(log) - 1
    BY <1>1, <1>2, <2>1 DEF Complete
  <2>3. Ninja!Whole(log) = SubSeq(log, 1, Complete)
    BY <1>2, <2>2 DEF Ninja!Whole, Ninja!Front
  <2>4. log[Len(log)].kind = "torn"
    BY <2>1 DEF Ninja!Torn
  <2> QED
    BY <1>1, <2>2, <2>3, <2>4
<1>3. CASE ~Ninja!IsTorn(log)
  <2>1. Complete = Len(log) /\ Ninja!Whole(log) = log
    BY <1>3 DEF Ninja!Whole, Complete
  <2>2. \A j \in 1..Len(log) : log[j].kind # "torn"
    <3>1. SUFFICES ASSUME NEW j \in 1..Len(log), log[j].kind = "torn" PROVE FALSE
      OBVIOUS
    <3>2. log[j] \in LogRecord /\ j = Len(log) /\ log # <<>>
      BY <1>1, <3>1
    <3>3. log[Len(log)] = Ninja!Torn
      BY <3>1, <3>2, RecordFields
    <3> QED
      BY <1>3, <3>2, <3>3 DEF Ninja!IsTorn, Ninja!Last
  <2> QED
    BY <1>1, <2>1, <2>2
<1> QED
  BY <1>2, <1>3

\* The records before a complete one, and their fields.
LEMMA Before ==
    ASSUME LogInv, NEW n \in Nat, n <= Complete
    PROVE  /\ \A j \in PathsTo(n) : /\ j \in 1..Len(log) /\ j \in 1..Complete
                                    /\ log[j].name \in Names /\ log[j].id \in Nat
           /\ \A j \in DepsTo(n) : /\ j \in 1..Len(log) /\ j \in 1..Complete
                                   /\ log[j].out \in Nat /\ log[j].ins \in Seq(Nat)
<1>1. Complete \in Nat /\ Complete <= Len(log) /\ Len(log) \in Nat /\ log \in Seq(LogRecord)
  BY WholeLog DEF LogInv
<1>2. /\ \A j \in PathsTo(n) : j \in Nat /\ j >= 1 /\ j <= n /\ log[j].kind = "path"
      /\ \A j \in DepsTo(n) : j \in Nat /\ j >= 1 /\ j <= n /\ log[j].kind = "deps"
  BY UpTo
<1>3. /\ \A j \in PathsTo(n) : j \in 1..Len(log) /\ j \in 1..Complete
      /\ \A j \in DepsTo(n) : j \in 1..Len(log) /\ j \in 1..Complete
  BY <1>1, <1>2
<1>4. \A j \in 1..Len(log) : log[j] \in LogRecord
  BY <1>1
<1>5. ASSUME NEW j \in PathsTo(n) PROVE log[j].name \in Names /\ log[j].id \in Nat
  BY <1>2, <1>3, <1>4, RecordFields
<1>6. ASSUME NEW j \in DepsTo(n) PROVE log[j].out \in Nat /\ log[j].ins \in Seq(Nat)
  BY <1>2, <1>3, <1>4, RecordFields
<1> QED
  BY <1>3, <1>5, <1>6

\* What ninja may append: a record that refers to what is already registered.
LEMMA Appended ==
    ASSUME LogInv, NEW r \in Ninja!Records
    PROVE  /\ r \in LogRecord
           /\ r.kind \in {"path", "deps"}
           /\ r.kind = "path" => /\ r.id = Cardinality(PathsTo(Complete))
                                 /\ \A k \in PathsTo(Complete) : log[k].name # r.name
           /\ r.kind = "deps" =>
                 /\ r.out < Cardinality(PathsTo(Complete))
                 /\ \A k \in DOMAIN r.ins : r.ins[k] < Cardinality(PathsTo(Complete))
<1>1. Complete \in Nat /\ Len(log) \in Nat /\ Complete <= Len(log)
      /\ (Complete < Len(log) => Len(log) = Complete + 1 /\ log[Len(log)].kind = "torn")
  BY WholeLog DEF LogInv
<1>2. PathsTo(Len(log)) = PathsTo(Complete)
  <2>1. CASE Complete = Len(log)
    BY <2>1
  <2>2. CASE Complete # Len(log)
    <3>1. Len(log) = Complete + 1 /\ log[Complete + 1].kind = "torn"
      BY <1>1, <2>2
    <3>2. PathsTo(Complete + 1) = PathsTo(Complete)
      BY <1>1, <3>1, UpTo
    <3> QED
      BY <3>1, <3>2
  <2> QED
    BY <2>1, <2>2
<1>3. /\ Ninja!PathCount = Cardinality(PathsTo(Complete))
      /\ Ninja!Known = {log[j].name : j \in PathsTo(Complete)}
  BY <1>2, NinjaSame DEF Ninja!PathCount, Ninja!Known, PathsTo
<1> DEFINE C == Cardinality(PathsTo(Complete))
<1>4. C \in Nat
  BY <1>1, UpTo
<1>5. CASE r \in {[kind |-> "path", name |-> n, id |-> C] :
                     n \in Names \ {log[j].name : j \in PathsTo(Complete)}}
  <2>1. PICK n \in Names \ {log[j].name : j \in PathsTo(Complete)} :
            r = [kind |-> "path", name |-> n, id |-> C]
    BY <1>5
  <2>2. r.kind = "path" /\ r.id = C /\ r.name = n
    BY <2>1
  <2>3. r \in [kind : {"path"}, name : Names, id : Nat]
    BY <1>4, <2>1
  <2> QED
    BY <2>1, <2>2, <2>3 DEF LogRecord
<1>6. CASE r \in {[kind |-> "deps", out |-> o, ins |-> ins, ok |-> TRUE] :
                     o \in 0..(C - 1), ins \in UNION {[1..n -> 0..(C - 1)] : n \in 0..MaxIns}}
  <2>1. PICK o \in 0..(C - 1), ins \in UNION {[1..n -> 0..(C - 1)] : n \in 0..MaxIns} :
            r = [kind |-> "deps", out |-> o, ins |-> ins, ok |-> TRUE]
    BY <1>6
  <2>2. PICK n \in 0..MaxIns : ins \in [1..n -> 0..(C - 1)]
    BY <2>1
  <2>3. n \in Nat /\ \A x \in 0..(C - 1) : x \in Nat /\ x < C
    BY <1>4
  <2>4. ins \in Seq(Nat) /\ o \in Nat /\ o < C /\ \A k \in DOMAIN ins : ins[k] < C
    BY <2>2, <2>3
  <2>5. r.kind = "deps" /\ r.out = o /\ r.ins = ins
    BY <2>1
  <2>6. r \in [kind : {"deps"}, out : Nat, ins : Seq(Nat), ok : {TRUE}]
    BY <2>1, <2>4
  <2> QED
    BY <2>4, <2>5, <2>6 DEF LogRecord
<1> QED
  BY <1>3, <1>5, <1>6 DEF Ninja!Records, Ninja!PathIds

\* ninja writes on while the reader reads: what was complete stays as it was.
LEMMA NinjaWrites ==
    ASSUME LogInv, ReadInv, Ninja!NinjaAppends
    PROVE  LogInv' /\ ReadInv'
<1> DEFINE W == Ninja!Whole(log)
<1>1. /\ Complete \in Nat /\ Complete <= Len(log)
      /\ W \in Seq(LogRecord) /\ Len(W) = Complete
      /\ \A j \in 1..Complete : W[j] = log[j] /\ log[j].kind # "torn"
  BY WholeLog
<1>2. PICK r \in Ninja!Records \cup {Ninja!Torn} : log' = Append(W, r)
  BY DEF Ninja!NinjaAppends
<1>3. /\ r \in LogRecord /\ r.kind \in {"path", "deps", "torn"}
      /\ r.kind = "path" => /\ r.id = Cardinality(PathsTo(Complete))
                            /\ \A k \in PathsTo(Complete) : log[k].name # r.name
      /\ r.kind = "deps" =>
            /\ r.out < Cardinality(PathsTo(Complete))
            /\ \A k \in DOMAIN r.ins : r.ins[k] < Cardinality(PathsTo(Complete))
      /\ r.kind = "torn" <=> r = Ninja!Torn
  <2>1. CASE r \in Ninja!Records
    BY <2>1, Appended, RecordFields
  <2>2. CASE r = Ninja!Torn
    <3>1. r.kind = "torn"
      BY <2>2 DEF Ninja!Torn
    <3> QED
      BY <2>2, <3>1 DEF LogRecord
  <2> QED
    BY <2>1, <2>2
<1>4. /\ log' \in Seq(LogRecord) /\ Len(log') = Complete + 1 /\ log'[Complete + 1] = r
      /\ \A j \in 1..Complete : log'[j] = log[j]
  BY <1>1, <1>2, <1>3
<1>5. ASSUME NEW n \in Nat, n <= Complete
      PROVE  PathsTo(n)' = PathsTo(n) /\ DepsTo(n)' = DepsTo(n)
  <2>1. \A j \in 1..n : log'[j] = log[j]
    BY <1>1, <1>4, <1>5
  <2> QED
    BY <2>1 DEF PathsTo, DepsTo, Ninja!PathsUpTo, Ninja!DepsUpTo
<1>6. Complete' \in Nat /\ Complete' >= Complete
  <2>1. log' # <<>> /\ Ninja!Last(log') = r
    BY <1>1, <1>4 DEF Ninja!Last
  <2>2. Complete' = IF r = Ninja!Torn THEN Complete ELSE Complete + 1
    BY <1>1, <1>4, <2>1 DEF Complete, Ninja!IsTorn, Ninja!Torn
  <2> QED
    BY <1>1, <2>2
<1>7. LogInv'
  <2>1. ASSUME NEW j \in 1..Len(log')
        PROVE  /\ log'[j].kind = "torn" => j = Len(log')
               /\ log'[j].kind = "path" =>
                     /\ log'[j].id = Cardinality(PathsTo(j - 1)')
                     /\ \A k \in PathsTo(j - 1)' : log'[k].name # log'[j].name
               /\ log'[j].kind = "deps" =>
                     /\ log'[j].out < Cardinality(PathsTo(j - 1)')
                     /\ \A k \in DOMAIN log'[j].ins :
                           log'[j].ins[k] < Cardinality(PathsTo(j - 1)')
    <3>1. j - 1 \in Nat /\ j - 1 <= Complete /\ PathsTo(j - 1)' = PathsTo(j - 1)
      BY <1>1, <1>4, <1>5
    <3>2. \A k \in PathsTo(j - 1) : log'[k] = log[k]
      <4>1. \A k \in PathsTo(j - 1) : k \in 1..Complete
        BY <3>1, Before
      <4> QED
        BY <1>4, <4>1
    <3>3. CASE j <= Complete
      <4>1. log'[j] = log[j] /\ j \in 1..Len(log) /\ log[j].kind # "torn"
        BY <1>1, <1>4, <3>3
      <4> QED
        BY <3>1, <3>2, <4>1 DEF LogInv
    <3>4. CASE j = Complete + 1
      <4>1. j - 1 = Complete /\ log'[j] = r
        BY <1>1, <1>4, <3>4
      <4> QED
        BY <1>3, <1>4, <3>1, <3>2, <3>4, <4>1
    <3> QED
      BY <1>1, <1>4, <3>3, <3>4
  <2> QED
    BY <1>4, <2>1 DEF LogInv
<1>8. ReadInv'
  <2>1. /\ pc' = pc /\ at' = at /\ opened' = opened /\ paths' = paths /\ deps' = deps
        /\ header' = header
    BY DEF Ninja!NinjaAppends, Ninja!reader
  <2>2. at \in Nat /\ opened \in Nat /\ at <= Complete /\ opened <= Complete
    BY DEF ReadInv, PlaceInv
  <2>3. PathsTo(at)' = PathsTo(at) /\ DepsTo(at)' = DepsTo(at)
    BY <1>5, <2>1, <2>2 DEF PathsTo, DepsTo, Ninja!PathsUpTo, Ninja!DepsUpTo
  <2>4. /\ \A j \in PathsTo(at) : log'[j] = log[j]
        /\ \A j \in DepsTo(at) : log'[j] = log[j]
    <3>1. (\A j \in PathsTo(at) : j \in 1..Complete) /\ \A j \in DepsTo(at) : j \in 1..Complete
      BY <2>2, Before
    <3> QED
      BY <1>4, <3>1
  <2>5. at' <= Complete' /\ opened' <= Complete'
    BY <1>1, <1>6, <2>1, <2>2
  <2>6. \A j \in DepsTo(at) : LatestDeps(j, at)' => LatestDeps(j, at)
    BY <2>1, <2>3, <2>4 DEF LatestDeps
  <2>7. DOMAIN deps' = {paths'[log'[j].out + 1] : j \in DepsTo(at)'}
    <3>1. DOMAIN deps = {paths[log[j].out + 1] : j \in DepsTo(at)}
      BY DEF ReadInv, DepsInv
    <3>2. \A j \in DepsTo(at) : paths[log'[j].out + 1] = paths[log[j].out + 1]
      BY <2>4
    <3> QED
      BY <2>1, <2>3, <3>1, <3>2
  <2>8. PlaceInv'
    BY <2>1, <2>2, <2>5 DEF ReadInv, PlaceInv
  <2>9. PathsInv'
    BY <2>1, <2>3, <2>4 DEF ReadInv, PathsInv
  <2>10. ASSUME NEW j \in DepsTo(at)
         PROVE  /\ log'[j].out < Len(paths)
                /\ \A k \in DOMAIN log'[j].ins : log'[j].ins[k] < Len(paths)
                /\ LatestDeps(j, at)' =>
                      deps'[paths'[log'[j].out + 1]] =
                          [k \in DOMAIN log'[j].ins |-> paths'[log'[j].ins[k] + 1]]
    BY <2>1, <2>4, <2>6, <2>10 DEF ReadInv, DepsInv
  <2>11. DepsInv'
    <3>1. \A j \in DepsTo(at)' :
             /\ log'[j].out < Len(paths') /\ \A k \in DOMAIN log'[j].ins : log'[j].ins[k] < Len(paths')
             /\ LatestDeps(j, at)' =>
                   deps'[paths'[log'[j].out + 1]] =
                       [k \in DOMAIN log'[j].ins |-> paths'[log'[j].ins[k] + 1]]
      BY <2>1, <2>3, <2>10, Zenon
    <3> QED
      BY <2>7, <3>1, Zenon DEF DepsInv
  <2> QED
    BY <2>8, <2>9, <2>11 DEF ReadInv
<1> QED
  BY <1>7, <1>8

\* A path record of ninja's own log has the id the reader expects, and a new name.
LEMMA ReadsPath ==
    ASSUME LogInv, ReadInv, Ninja!ReadPath
    PROVE  LogInv' /\ ReadInv'
<1> DEFINE n == at + 1
<1>1. /\ log' = log /\ header' = header /\ opened' = opened /\ deps' = deps
      /\ pc = "reading" /\ at # Len(log) /\ log[n].kind = "path"
  BY DEF Ninja!ReadPath, Ninja!Reading, Ninja!AtEnd, Ninja!Record
<1>2. /\ at \in Nat /\ opened \in Nat /\ at <= Complete /\ opened <= Complete
      /\ paths \in Seq(Names) /\ Len(paths) \in Nat /\ Len(paths) = Cardinality(PathsTo(at))
  BY DEF ReadInv, PlaceInv, PathsInv
<1>3. n \in 1..Complete /\ n \in 1..Len(log) /\ Complete \in Nat /\ n - 1 = at
  BY <1>1, <1>2, WholeLog DEF LogInv
<1>4. log[n] \in LogRecord /\ log[n].name \in Names /\ log[n].id \in Nat
  <2>1. log[n] \in LogRecord
    BY <1>3 DEF LogInv
  <2> QED
    BY <1>1, <2>1, RecordFields
<1>5. log[n].id = Len(paths) /\ \A k \in PathsTo(at) : log[k].name # log[n].name
  BY <1>1, <1>2, <1>3 DEF LogInv
<1>6. pc' = pc /\ at' = n /\ paths' = Append(paths, log[n].name)
  BY <1>1, <1>5 DEF Ninja!ReadPath, Ninja!Expected, Ninja!Record
<1>7. /\ PathsTo(n) = PathsTo(at) \cup {n} /\ DepsTo(n) = DepsTo(at)
      /\ Cardinality(PathsTo(n)) = Cardinality(PathsTo(at)) + 1
  BY <1>1, <1>2, UpTo
<1>8. PathsTo(at)' = PathsTo(n) /\ DepsTo(at)' = DepsTo(n) /\ Complete' = Complete
  BY <1>1, <1>6 DEF PathsTo, DepsTo, Ninja!PathsUpTo, Ninja!DepsUpTo, Complete, Ninja!IsTorn,
     Ninja!Last, Ninja!Torn
<1>9. /\ paths' \in Seq(Names) /\ Len(paths') = Len(paths) + 1
      /\ paths'[Len(paths) + 1] = log[n].name
      /\ \A m \in 1..Len(paths) : paths'[m] = paths[m]
  BY <1>2, <1>4, <1>6
<1>10. LogInv'
  BY <1>1 DEF LogInv, PathsTo, Ninja!PathsUpTo
<1>11. PlaceInv'
  BY <1>1, <1>2, <1>3, <1>6, <1>8 DEF ReadInv, PlaceInv
<1>12. PathsInv'
  <2>1. /\ \A j \in PathsTo(at) : log[j].id < Len(paths) /\ paths[log[j].id + 1] = log[j].name
        /\ \A m \in 1..Len(paths) : \E j \in PathsTo(at) : log[j].id + 1 = m
        /\ \A m, o \in 1..Len(paths) : paths[m] = paths[o] => m = o
    BY DEF ReadInv, PathsInv
  <2>2. \A j \in PathsTo(at) : log[j].id \in Nat
    BY <1>2, Before
  <2>3. ASSUME NEW j \in PathsTo(n)
        PROVE  log[j].id < Len(paths') /\ paths'[log[j].id + 1] = log[j].name
    <3>1. CASE j = n
      BY <1>2, <1>5, <1>9, <3>1
    <3>2. CASE j \in PathsTo(at)
      <4>1. log[j].id + 1 \in 1..Len(paths)
        BY <1>2, <2>1, <2>2, <3>2
      <4> QED
        BY <1>2, <1>9, <2>1, <2>2, <3>2, <4>1
    <3> QED
      BY <1>7, <3>1, <3>2
  <2>4. ASSUME NEW m \in 1..Len(paths')
        PROVE  \E j \in PathsTo(n) : log[j].id + 1 = m
    <3>1. CASE m \in 1..Len(paths)
      BY <1>7, <2>1, <3>1
    <3>2. CASE m = Len(paths) + 1
      BY <1>5, <1>7, <3>2
    <3> QED
      BY <1>2, <1>9, <3>1, <3>2
  <2>5. \A m \in 1..Len(paths) : paths[m] # log[n].name
    <3>1. SUFFICES ASSUME NEW m \in 1..Len(paths) PROVE paths[m] # log[n].name
      OBVIOUS
    <3>2. PICK j \in PathsTo(at) : log[j].id + 1 = m
      BY <2>1
    <3> QED
      BY <1>5, <2>1, <3>2
  <2>6. ASSUME NEW m \in 1..Len(paths'), NEW o \in 1..Len(paths'), paths'[m] = paths'[o]
        PROVE  m = o
    <3>1. (m \in 1..Len(paths) \/ m = Len(paths) + 1) /\ (o \in 1..Len(paths) \/ o = Len(paths) + 1)
      BY <1>2, <1>9
    <3> QED
      BY <1>9, <2>1, <2>5, <2>6, <3>1
  <2> QED
    BY <1>1, <1>2, <1>7, <1>8, <1>9, <2>3, <2>4, <2>6 DEF PathsInv
<1>13. DepsInv'
  <2>1. \A j \in DepsTo(at) : /\ log[j].out \in Nat /\ log[j].ins \in Seq(Nat)
                              /\ log[j].out < Len(paths)
                              /\ \A k \in DOMAIN log[j].ins : log[j].ins[k] < Len(paths)
    <3>1. \A j \in DepsTo(at) : log[j].out \in Nat /\ log[j].ins \in Seq(Nat)
      BY <1>2, Before
    <3> QED
      BY <3>1 DEF ReadInv, DepsInv
  <2>2. \A j \in DepsTo(at) : paths'[log[j].out + 1] = paths[log[j].out + 1]
    BY <1>2, <1>9, <2>1
  <2>3. \A j \in DepsTo(at) : \A k \in DOMAIN log[j].ins :
            paths'[log[j].ins[k] + 1] = paths[log[j].ins[k] + 1]
    <3>1. SUFFICES ASSUME NEW j \in DepsTo(at), NEW k \in DOMAIN log[j].ins
                   PROVE  paths'[log[j].ins[k] + 1] = paths[log[j].ins[k] + 1]
      OBVIOUS
    <3>2. log[j].ins[k] \in Nat /\ log[j].ins[k] < Len(paths)
      BY <2>1
    <3>3. log[j].ins[k] + 1 \in 1..Len(paths)
      BY <1>2, <3>2
    <3> QED
      BY <1>9, <3>3
  <2>4. DOMAIN deps' = {paths'[log'[j].out + 1] : j \in DepsTo(at)'}
    <3>1. DOMAIN deps = {paths[log[j].out + 1] : j \in DepsTo(at)}
      BY DEF ReadInv, DepsInv
    <3> QED
      BY <1>1, <1>7, <1>8, <2>2, <3>1
  <2>5. ASSUME NEW j \in DepsTo(at)
        PROVE  /\ log'[j].out < Len(paths')
               /\ \A k \in DOMAIN log'[j].ins : log'[j].ins[k] < Len(paths')
               /\ LatestDeps(j, at)' =>
                     deps'[paths'[log'[j].out + 1]] =
                         [k \in DOMAIN log'[j].ins |-> paths'[log'[j].ins[k] + 1]]
    <3>1. LatestDeps(j, at)' => LatestDeps(j, at)
      BY <1>1, <1>7, <1>8 DEF LatestDeps
    <3>2. LatestDeps(j, at)' =>
            deps'[paths'[log'[j].out + 1]] = [k \in DOMAIN log[j].ins |-> paths[log[j].ins[k] + 1]]
      BY <1>1, <2>2, <2>5, <3>1 DEF ReadInv, DepsInv
    <3>3. [k \in DOMAIN log[j].ins |-> paths[log[j].ins[k] + 1]] =
            [k \in DOMAIN log'[j].ins |-> paths'[log'[j].ins[k] + 1]]
      BY <1>1, <2>3
    <3>4. /\ log'[j].out < Len(paths')
          /\ \A k \in DOMAIN log'[j].ins : log'[j].ins[k] < Len(paths')
      BY <1>1, <1>2, <1>9, <2>1
    <3> QED
      BY <3>2, <3>3, <3>4
  <2>6. DepsTo(at)' = DepsTo(at)
    BY <1>7, <1>8
  <2> QED
    BY <2>4, <2>5, <2>6 DEF DepsInv
<1> QED
  BY <1>10, <1>11, <1>12, <1>13 DEF ReadInv

\* A deps record of ninja's own log refers to registered paths only, and replaces
\* what was known of its output and of no other.
LEMMA ReadsDeps ==
    ASSUME LogInv, ReadInv, Ninja!ReadDeps
    PROVE  LogInv' /\ ReadInv'
<1> DEFINE n == at + 1
           r == log[n]
<1>1. /\ log' = log /\ header' = header /\ opened' = opened /\ paths' = paths
      /\ pc = "reading" /\ at # Len(log) /\ r.kind = "deps"
  BY DEF Ninja!ReadDeps, Ninja!Reading, Ninja!AtEnd, Ninja!Record
<1>2. /\ at \in Nat /\ opened \in Nat /\ at <= Complete /\ opened <= Complete
      /\ paths \in Seq(Names) /\ Len(paths) \in Nat /\ Len(paths) = Cardinality(PathsTo(at))
      /\ \A m, o \in 1..Len(paths) : paths[m] = paths[o] => m = o
  BY DEF ReadInv, PlaceInv, PathsInv
<1>3. n \in 1..Complete /\ n \in 1..Len(log) /\ Complete \in Nat /\ n - 1 = at
  BY <1>1, <1>2, WholeLog DEF LogInv
<1>4. r.out \in Nat /\ r.ins \in Seq(Nat) /\ r.ok = TRUE
  <2>1. r \in LogRecord
    BY <1>3 DEF LogInv
  <2> HIDE DEF r
  <2> QED
    BY <1>1, <2>1, RecordFields
<1>5. r.out < Len(paths) /\ \A k \in DOMAIN r.ins : r.ins[k] < Len(paths)
  BY <1>1, <1>2, <1>3 DEF LogInv
<1> DEFINE Inputs == [k \in DOMAIN r.ins |-> paths[r.ins[k] + 1]]
           out == paths[r.out + 1]
<1>6. /\ pc' = pc /\ at' = n
      /\ deps' = [o \in DOMAIN deps \cup {out} |-> IF o = out THEN Inputs ELSE deps[o]]
  <2>1. Ninja!Registered(r.out) /\ \A k \in DOMAIN r.ins : Ninja!Registered(r.ins[k])
    BY <1>5 DEF Ninja!Registered
  <2>2. {k \in DOMAIN r.ins : Ninja!Registered(r.ins[k])} = 1..Len(r.ins)
    <3>1. DOMAIN r.ins = 1..Len(r.ins)
      BY <1>4
    <3> QED
      BY <2>1, <3>1
  <2> DEFINE ins == Ninja!Selected({k \in DOMAIN r.ins : Ninja!Registered(r.ins[k])}, r.ins)
  <2>3. ins = [k \in 1..Len(r.ins) |-> r.ins[k]]
    <3>1. Len(r.ins) \in Nat
      BY <1>4
    <3>2. Selected(1..Len(r.ins), r.ins) = [k \in 1..Len(r.ins) |-> r.ins[k]]
      BY <3>1, SelectedAll
    <3> QED
      BY <2>2, <3>2, NinjaSame
  <2>4. DOMAIN ins = DOMAIN r.ins /\ \A k \in DOMAIN r.ins : ins[k] = r.ins[k]
    <3>1. DOMAIN r.ins = 1..Len(r.ins)
      BY <1>4
    <3> HIDE DEF ins, r
    <3> QED
      BY <2>3, <3>1
  <2>5. Ninja!Name(r.out) = out
    BY <1>5 DEF Ninja!Name
  <2>6. [k \in DOMAIN ins |-> Ninja!Name(ins[k])] = Inputs
    <3> HIDE DEF ins
    <3>1. \A k \in DOMAIN r.ins : Ninja!Name(ins[k]) = paths[r.ins[k] + 1]
      BY <1>5, <2>4 DEF Ninja!Name
    <3> QED
      BY <2>4, <3>1
  <2>7. /\ deps' = Ninja!Supersede(Ninja!Name(r.out), [k \in DOMAIN ins |-> Ninja!Name(ins[k])])
        /\ at' = at + 1 /\ pc' = pc
    BY <1>4, <2>1 DEF Ninja!ReadDeps, Ninja!Record
  <2> HIDE DEF ins, Inputs, out
  <2> QED
    BY <2>5, <2>6, <2>7 DEF Ninja!Supersede
<1>7. PathsTo(n) = PathsTo(at) /\ DepsTo(n) = DepsTo(at) \cup {n}
  BY <1>1, <1>2, UpTo
<1>8. PathsTo(at)' = PathsTo(at) /\ DepsTo(at)' = DepsTo(at) \cup {n} /\ Complete' = Complete
  <2>1. PathsTo(at)' = PathsTo(n) /\ DepsTo(at)' = DepsTo(n)
    BY <1>1, <1>6 DEF PathsTo, DepsTo, Ninja!PathsUpTo, Ninja!DepsUpTo
  <2>2. Complete' = Complete
    BY <1>1 DEF Complete, Ninja!IsTorn, Ninja!Last, Ninja!Torn
  <2> QED
    BY <1>7, <2>1, <2>2
<1>9. LogInv'
  BY <1>1 DEF LogInv, PathsTo, Ninja!PathsUpTo
<1>10. PlaceInv'
  BY <1>1, <1>2, <1>3, <1>6, <1>8 DEF ReadInv, PlaceInv
<1>11. PathsInv'
  BY <1>1, <1>2, <1>8 DEF ReadInv, PathsInv
<1>12. DepsInv'
  <2>1. \A j \in DepsTo(at) : /\ j \in Nat /\ j < n /\ log[j].out \in Nat /\ log[j].out < Len(paths)
                              /\ \A k \in DOMAIN log[j].ins : log[j].ins[k] < Len(paths)
    <3>1. \A j \in DepsTo(at) : log[j].out \in Nat
      BY <1>2, Before
    <3>2. \A j \in DepsTo(at) : j \in Nat /\ j <= at
      BY <1>2, UpTo
    <3>3. \A j \in DepsTo(at) : j < n
      BY <1>2, <3>2
    <3> QED
      BY <3>1, <3>2, <3>3 DEF ReadInv, DepsInv
  <2>2. DOMAIN deps' = {paths[log[j].out + 1] : j \in DepsTo(at) \cup {n}}
    <3>1. DOMAIN deps = {paths[log[j].out + 1] : j \in DepsTo(at)}
      BY DEF ReadInv, DepsInv
    <3>2. DOMAIN deps' = DOMAIN deps \cup {out}
      BY <1>6
    <3> QED
      BY <3>1, <3>2
  <2>3. \A j \in DepsTo(at) \cup {n} :
            log[j].out < Len(paths) /\ \A k \in DOMAIN log[j].ins : log[j].ins[k] < Len(paths)
    BY <1>5, <2>1
  <2>4. ASSUME NEW j \in DepsTo(at) \cup {n}, LatestDeps(j, at)'
        PROVE  deps'[paths[log[j].out + 1]] = [k \in DOMAIN log[j].ins |-> paths[log[j].ins[k] + 1]]
    <3>1. \A k \in DepsTo(at) \cup {n} : log[k].out = log[j].out => k <= j
      BY <1>1, <1>8, <2>4 DEF LatestDeps
    <3>2. CASE j = n
      BY <1>6, <3>2
    <3>3. CASE j \in DepsTo(at)
      <4>1. r.out # log[j].out
        BY <1>2, <2>1, <3>1, <3>3
      <4>2. r.out + 1 \in 1..Len(paths) /\ log[j].out + 1 \in 1..Len(paths)
        BY <1>2, <1>4, <1>5, <2>1, <3>3
      <4>3. paths[log[j].out + 1] # out
        BY <1>2, <1>4, <2>1, <3>3, <4>1, <4>2, SMTT(30)
      <4>4. LatestDeps(j, at)
        BY <3>1 DEF LatestDeps
      <4>5. paths[log[j].out + 1] \in DOMAIN deps
        BY <3>3 DEF ReadInv, DepsInv
      <4>6. deps'[paths[log[j].out + 1]] = deps[paths[log[j].out + 1]]
        BY <1>6, <4>3, <4>5
      <4> QED
        BY <3>3, <4>4, <4>6 DEF ReadInv, DepsInv
    <3> QED
      BY <3>2, <3>3
  <2>5. ASSUME NEW j \in DepsTo(at) \cup {n}, LatestDeps(j, at)'
        PROVE  deps'[paths'[log'[j].out + 1]] =
                   [k \in DOMAIN log'[j].ins |-> paths'[log'[j].ins[k] + 1]]
    BY <1>1, <2>4, <2>5
  <2> QED
    BY <1>1, <1>8, <2>2, <2>3, <2>5 DEF DepsInv
<1> QED
  BY <1>9, <1>10, <1>11, <1>12 DEF ReadInv

\* What is known of the log and of the records read depends on nothing else.
LEMMA Unmoved ==
    ASSUME UNCHANGED <<log, at, paths, deps>>
    PROVE  /\ LogInv => LogInv'
           /\ PathsInv => PathsInv'
           /\ DepsInv => DepsInv'
           /\ Complete' = Complete
<1>1. log' = log /\ at' = at /\ paths' = paths /\ deps' = deps
  OBVIOUS
<1>2. \A n : PathsTo(n)' = PathsTo(n) /\ DepsTo(n)' = DepsTo(n)
  BY <1>1 DEF PathsTo, DepsTo, Ninja!PathsUpTo, Ninja!DepsUpTo
<1>3. PathsTo(at)' = PathsTo(at) /\ DepsTo(at)' = DepsTo(at)
  BY <1>1 DEF PathsTo, DepsTo, Ninja!PathsUpTo, Ninja!DepsUpTo
<1>4. LogInv => LogInv'
  BY <1>1, <1>2 DEF LogInv
<1>5. PathsInv => PathsInv'
  BY <1>1, <1>3 DEF PathsInv
<1>6. ASSUME DepsInv PROVE DepsInv'
  <2>1. \A j : LatestDeps(j, at)' <=> LatestDeps(j, at)
    BY <1>1, <1>3 DEF LatestDeps
  <2>2. ASSUME NEW j \in DepsTo(at), LatestDeps(j, at)'
        PROVE  deps'[paths'[log'[j].out + 1]] =
                   [k \in DOMAIN log'[j].ins |-> paths'[log'[j].ins[k] + 1]]
    BY <1>1, <1>6, <2>1, <2>2 DEF DepsInv
  <2>3. /\ \A j \in DepsTo(at) :
              /\ log'[j].out < Len(paths')
              /\ \A k \in DOMAIN log'[j].ins : log'[j].ins[k] < Len(paths')
        /\ DOMAIN deps' = {paths'[log'[j].out + 1] : j \in DepsTo(at)}
    BY <1>1, <1>6 DEF DepsInv
  <2> QED
    BY <1>3, <2>2, <2>3 DEF DepsInv
<1>7. Complete' = Complete
  BY <1>1 DEF Complete, Ninja!IsTorn, Ninja!Last, Ninja!Torn
<1> QED
  BY <1>4, <1>5, <1>6, <1>7

\* Every step of ninja and of Read keeps the invariant.
LEMMA NinjaSteps ==
    ASSUME honest, LogInv, ReadInv, Ninja!Next
    PROVE  LogInv' /\ ReadInv' /\ honest' = honest
<1>1. ASSUME UNCHANGED <<log, at, paths, deps>>
      PROVE  LogInv' /\ PathsInv' /\ DepsInv' /\ Complete' = Complete
  BY <1>1, Unmoved DEF ReadInv
<1>2. /\ at \in Nat /\ opened \in Nat /\ at <= Complete /\ opened <= Complete
      /\ Complete \in Nat /\ pc \in {"closed", "reading", "done", "refused"}
      /\ pc = "done" => at >= opened
  BY WholeLog DEF ReadInv, PlaceInv
<1>3. CASE Ninja!NinjaAppends
  BY <1>3, NinjaWrites DEF Ninja!NinjaAppends
<1>4. CASE Ninja!Open
  <2>1. /\ UNCHANGED <<log, at, paths, deps>> /\ header' = header /\ honest' = honest
        /\ pc' = IF header = "ok" THEN "reading" ELSE "refused"
        /\ opened' = Len(Ninja!Whole(log))
    BY <1>4 DEF Ninja!Open
  <2>2. opened' = Complete
    BY <2>1, WholeLog
  <2>3. PlaceInv'
    BY <1>1, <1>2, <2>1, <2>2 DEF PlaceInv
  <2> QED
    BY <1>1, <2>1, <2>3 DEF ReadInv
<1>5. CASE Ninja!ReadEnd
  <2>1. /\ UNCHANGED <<log, at, paths, deps, opened>> /\ header' = header /\ honest' = honest
        /\ pc' = "done" /\ (at # Len(log) => log[at + 1] = Ninja!Torn)
    BY <1>5 DEF Ninja!ReadEnd, Ninja!AtEnd, Ninja!Record
  <2>2. at = Complete
    <3>1. /\ Len(log) \in Nat /\ Complete <= Len(log)
          /\ \A j \in 1..Complete : log[j].kind # "torn"
      BY WholeLog DEF LogInv
    <3>2. SUFFICES ASSUME at < Complete PROVE FALSE
      BY <1>2
    <3>3. at + 1 \in 1..Complete /\ at # Len(log)
      BY <1>2, <3>1, <3>2
    <3> QED
      BY <2>1, <3>1, <3>3 DEF Ninja!Torn
  <2>3. PlaceInv'
    BY <1>1, <1>2, <2>1, <2>2 DEF PlaceInv
  <2> QED
    BY <1>1, <2>1, <2>3 DEF ReadInv
<1>6. CASE Ninja!ReadPath
  BY <1>6, ReadsPath DEF Ninja!ReadPath
<1>7. CASE Ninja!ReadDeps
  BY <1>7, ReadsDeps DEF Ninja!ReadDeps
<1>8. CASE Ninja!Stopped
  <2>1. UNCHANGED <<log, at, paths, deps, opened, header, honest, pc>>
    BY <1>8 DEF Ninja!Stopped, Ninja!vars
  <2>2. PlaceInv'
    BY <1>1, <1>2, <2>1 DEF PlaceInv
  <2> QED
    BY <1>1, <2>1, <2>2 DEF ReadInv
<1>9. CASE Ninja!NinjaStarts
  <2>1. UNCHANGED <<log, at, paths, deps, opened, honest, pc>>
    BY <1>9 DEF Ninja!NinjaStarts, Ninja!reader
  <2>2. PlaceInv'
    BY <1>1, <1>2, <2>1 DEF PlaceInv
  <2> QED
    BY <1>1, <2>1, <2>2 DEF ReadInv
<1> QED
  BY <1>3, <1>4, <1>5, <1>6, <1>7, <1>8, <1>9 DEF Ninja!Next

\* A log that ninja has not begun is empty, and nothing has been read.
LEMMA NinjaInitially == Init => NinjaIInv
<1>1. SUFFICES ASSUME Init, turn = "ninja", honest PROVE LogInv /\ ReadInv
  BY DEF NinjaIInv
<1>2. Ninja!Init
  BY <1>1 DEF Init
<1>3. log = <<>> /\ pc = "closed" /\ at = 0 /\ opened = 0 /\ paths = <<>> /\ deps = <<>>
  BY <1>1, <1>2 DEF Ninja!Init
<1>4. PathsTo(0) = {} /\ DepsTo(0) = {}
  BY DEF PathsTo, DepsTo, Ninja!PathsUpTo, Ninja!DepsUpTo
<1>5. LogInv
  BY <1>3 DEF LogInv
<1>6. PlaceInv
  BY <1>3 DEF PlaceInv, Complete, Ninja!IsTorn
<1>7. PathsInv
  BY <1>3, <1>4, FS_EmptySet DEF PathsInv
<1>8. DepsInv
  BY <1>3, <1>4 DEF DepsInv
<1> QED
  BY <1>5, <1>6, <1>7, <1>8 DEF ReadInv

\* The steps of the other readers do not touch it.
LEMMA NinjaStep ==
    ASSUME NinjaIInv, [Next]_vars
    PROVE  NinjaIInv'
<1>1. turn' = turn
  BY DEF Next, vars, ReadLog, ReadMap, ParseCgraph, FilterTargets, ParseIpaDump, ReadDwarf, ParseCallSite
<1>2. SUFFICES ASSUME turn = "ninja", honest' PROVE LogInv' /\ ReadInv'
  BY <1>1 DEF NinjaIInv
<1>3. CASE ReadLog
  <2>1. honest' = honest
    BY <1>3 DEF ReadLog, Ninja!Next, Ninja!NinjaStarts, Ninja!NinjaAppends, Ninja!Open, Ninja!ReadEnd, Ninja!ReadPath,
       Ninja!ReadDeps, Ninja!Stopped, Ninja!vars
  <2> QED
    BY <1>2, <1>3, <2>1, NinjaSteps DEF ReadLog, NinjaIInv
<1>4. CASE UNCHANGED vars
  <2>1. UNCHANGED <<log, at, paths, deps, opened, header, honest, pc>>
    BY <1>4 DEF vars, ninja
  <2> QED
    BY <1>2, <2>1, Unmoved DEF NinjaIInv, ReadInv, PlaceInv
<1> QED
  BY <1>2, <1>3, <1>4 DEF Next, ReadMap, ParseCgraph, FilterTargets, ParseIpaDump, ReadDwarf, ParseCallSite

\* Whatever ninja writes, tears or repairs while the file is read, and wherever the
\* read falls, the result is what ninja's log meant at some moment no earlier than
\* the opening of the file, and past its header it is never taken for a corrupt
\* one (ninjadeps.go Read).
THEOREM ReplayAlwaysExact == Spec => []ReplayIsExact
<1>1. NinjaIInv => ReplayIsExact
  <2>1. SUFFICES ASSUME NinjaIInv, turn = "ninja", honest
                 PROVE  Ninja!ReplayIsAPastState /\ Ninja!NoFalseAlarm
    BY DEF ReplayIsExact, Ninja!ReplayIsAPastState, Ninja!NoFalseAlarm
  <2>2. LogInv /\ PlaceInv /\ PathsInv /\ DepsInv
    BY <2>1 DEF NinjaIInv, ReadInv
  <2>3. at \in Nat /\ at <= Complete
    BY <2>2 DEF PlaceInv
  <2>4. ASSUME NEW m \in Nat, m < Len(paths) PROVE Ninja!PathOf(m, at) = paths[m + 1]
    <3>1. m + 1 \in 1..Len(paths)
      BY <2>2, <2>4 DEF PathsInv
    <3>2. PICK j \in PathsTo(at) : log[j].id + 1 = m + 1
      BY <2>2, <3>1 DEF PathsInv
    <3>3. log[j].id = m
      BY <2>2, <2>3, <3>2, Before
    <3> DEFINE c == CHOOSE k \in Ninja!PathsUpTo(at) : log[k].id = m
    <3>4. c \in PathsTo(at) /\ log[c].id = m
      BY <3>2, <3>3 DEF PathsTo
    <3> HIDE DEF c
    <3>5. paths[m + 1] = log[c].name
      BY <2>2, <3>4 DEF PathsInv
    <3> QED
      BY <3>5 DEF Ninja!PathOf, c
  <2>5. \A j \in DepsTo(at) :
            /\ Ninja!PathOf(log[j].out, at) = paths[log[j].out + 1]
            /\ \A k \in DOMAIN log[j].ins : Ninja!PathOf(log[j].ins[k], at) = paths[log[j].ins[k] + 1]
    <3>1. SUFFICES ASSUME NEW j \in DepsTo(at)
                   PROVE  /\ Ninja!PathOf(log[j].out, at) = paths[log[j].out + 1]
                          /\ \A k \in DOMAIN log[j].ins :
                                Ninja!PathOf(log[j].ins[k], at) = paths[log[j].ins[k] + 1]
      OBVIOUS
    <3>2. log[j].out \in Nat /\ log[j].ins \in Seq(Nat)
      BY <2>2, <2>3, Before
    <3>3. \A k \in DOMAIN log[j].ins : log[j].ins[k] \in Nat
      BY <3>2
    <3> QED
      BY <2>2, <2>4, <3>2, <3>3 DEF DepsInv
  <2>6. DOMAIN deps = {Ninja!PathOf(log[j].out, at) : j \in DepsTo(at)}
    BY <2>2, <2>5 DEF DepsInv
  <2>7. ASSUME NEW j \in DepsTo(at), \A k \in DepsTo(at) : log[k].out = log[j].out => k <= j
        PROVE  deps[Ninja!PathOf(log[j].out, at)] =
                   [k \in DOMAIN log[j].ins |-> Ninja!PathOf(log[j].ins[k], at)]
    <3>1. deps[paths[log[j].out + 1]] = [k \in DOMAIN log[j].ins |-> paths[log[j].ins[k] + 1]]
      BY <2>2, <2>7 DEF DepsInv, LatestDeps
    <3>2. [k \in DOMAIN log[j].ins |-> paths[log[j].ins[k] + 1]] =
              [k \in DOMAIN log[j].ins |-> Ninja!PathOf(log[j].ins[k], at)]
      BY <2>5
    <3> QED
      BY <2>5, <3>1, <3>2
  <2>8. Ninja!IsMeaning(deps, at)
    BY <2>6, <2>7 DEF Ninja!IsMeaning, DepsTo
  <2> QED
    BY <2>2, <2>8 DEF PlaceInv, Ninja!ReplayIsAPastState, Ninja!NoFalseAlarm
<1> QED
  BY <1>1, NinjaInitially, NinjaStep, PTL DEF Spec

-----------------------------------------------------------------------------
(* dwarfingest.Read.                                                       *)

Tags == {"cu", "type", "block", "method", "subprogram", "inlined", "callsite", "variable", "member"}

DieRecord == [tag : Tags, named : BOOLEAN, up : Seq(Nat)]

\* The entries, and the chain of open ones: it grows inward, and only its first
\* is a unit.
TreeInv ==
    /\ dies \in Seq(DieRecord)
    /\ open \in Seq(Nat)
    /\ \A j \in 1..Len(dies) : \A k \in 1..Len(dies[j].up) : dies[j].up[k] \in 1..(j - 1)
    /\ \A j \in 1..Len(dies) : dies[j].tag # "cu" => dies[j].up # <<>>
    /\ \A k \in 1..Len(open) : open[k] \in 1..Len(dies)
    /\ \A j, k \in 1..Len(open) : j < k => open[j] < open[k]
    /\ \A k \in 1..Len(open) : dies[open[k]].tag = "cu" <=> k = 1

\* The frames are the open entries that are no type and in none; while a type is
\* read it comes next, and below it are the children that are skipped.
FrameInv ==
    /\ reading \in {"walk", "type", "done"} /\ skip \in Nat
    /\ stack \in Seq([tag : Tags, name : Nat]) /\ Len(stack) <= Len(open)
    /\ \A k \in 1..Len(stack) : /\ stack[k].tag = dies[open[k]].tag /\ stack[k].tag # "type"
                                /\ stack[k].name = Dwarf!Name(open[k])
    /\ reading # "type" => Len(open) = Len(stack) /\ skip = 0
    /\ reading = "type" =>
          /\ Len(open) = Len(stack) + 1 + skip
          /\ dies[open[Len(stack) + 1]].tag = "type"
          /\ \A k \in 1..Len(open) : k > Len(stack) + 1 => dies[open[k]].tag = "method"

InfoInv ==
    /\ info = [functions |-> info.functions, instances |-> info.instances, sites |-> info.sites,
               variables |-> info.variables, members |-> info.members]
    /\ Dwarf!AttributionExact

DwarfIInv == turn = "dwarf" => TreeInv /\ FrameInv /\ InfoInv

\* The greatest number of a set.
LEMMA MaxIs ==
    ASSUME NEW S \in SUBSET Nat, NEW x \in S, \A y \in S : y <= x
    PROVE  Dwarf!Max(S) = x
<1>1. \A z \in S : (\A y \in S : z >= y) => z = x
  BY SMT
<1>2. \A y \in S : x >= y
  OBVIOUS
<1> QED
  BY <1>1, <1>2 DEF Dwarf!Max

\* The greatest of a finite set of naturals is one of them.
LEMMA MaxOf ==
    ASSUME NEW n \in Nat, NEW S \in SUBSET (1..n), S # {}
    PROVE  Dwarf!Max(S) \in S /\ \A y \in S : y <= Dwarf!Max(S)
<1>1. S \in SUBSET Nat /\ \A x \in S : x <= n
  OBVIOUS
<1>2. PICK x \in S : \A y \in S : y <= x
  BY <1>1, GreatestElement
<1>3. Dwarf!Max(S) = x
  BY <1>1, <1>2, MaxIs
<1> QED
  BY <1>2, <1>3

\* Along an increasing chain the innermost of some entries is the entry of their
\* innermost position.
LEMMA AlongChain ==
    ASSUME NEW c \in Seq(Nat), NEW n \in Nat, n <= Len(c),
           \A j, k \in 1..Len(c) : j < k => c[j] < c[k],
           NEW S \in SUBSET (1..n)
    PROVE  /\ Dwarf!Innermost({c[k] : k \in S}) = IF S = {} THEN 0 ELSE c[Dwarf!Max(S)]
           /\ Dwarf!Cardinality({c[k] : k \in S}) = Dwarf!Cardinality(S)
<1>1. \A k \in 1..n : k \in 1..Len(c) /\ c[k] \in Nat
  OBVIOUS
<1>2. Dwarf!Innermost({c[k] : k \in S}) = IF S = {} THEN 0 ELSE c[Dwarf!Max(S)]
  <2>1. CASE S = {}
    BY <2>1 DEF Dwarf!Innermost
  <2>2. CASE S # {}
    <3> DEFINE m == Dwarf!Max(S)
               T == {c[k] : k \in S}
    <3>1. m \in S /\ \A y \in S : y <= m
      BY <2>2, MaxOf
    <3> HIDE DEF m
    <3>2. ASSUME NEW y \in S PROVE c[y] <= c[m]
      <4>1. y \in 1..Len(c) /\ m \in 1..Len(c) /\ y <= m /\ c[y] \in Nat /\ c[m] \in Nat
        BY <1>1, <3>1
      <4>2. CASE y = m
        BY <4>1, <4>2
      <4>3. CASE y # m
        <5>1. y < m
          BY <4>1, <4>3
        <5>2. c[y] < c[m]
          BY <4>1, <5>1
        <5> QED
          BY <4>1, <5>2
      <4> QED
        BY <4>2, <4>3
    <3>3. T \in SUBSET Nat /\ c[m] \in T /\ \A y \in T : y <= c[m]
      BY <1>1, <3>1, <3>2
    <3>4. Dwarf!Max(T) = c[m]
      <4> HIDE DEF T
      <4> QED
        BY <3>3, MaxIs
    <3>5. T # {}
      BY <3>3
    <3> QED
      BY <2>2, <3>4, <3>5 DEF Dwarf!Innermost, m
  <2> QED
    BY <2>1, <2>2
<1>3. Cardinality({c[k] : k \in S}) = Cardinality(S)
  <2>1. IsFiniteSet(S)
    BY FS_Subset, RankInterval
  <2>2. \A j, k \in S : c[j] = c[k] => j = k
    <3>1. SUFFICES ASSUME NEW j \in S, NEW k \in S, c[j] = c[k], j # k PROVE FALSE
      OBVIOUS
    <3>2. j \in 1..Len(c) /\ k \in 1..Len(c) /\ c[j] \in Nat /\ c[k] \in Nat
      BY <1>1
    <3>3. j < k \/ k < j
      BY <3>1, <3>2
    <3>4. c[j] < c[k] \/ c[k] < c[j]
      BY <3>2, <3>3
    <3> QED
      BY <3>1, <3>2, <3>4
  <2> QED
    BY <2>1, <2>2, SameSize
<1>4. \A T : Dwarf!Cardinality(T) = Cardinality(T)
  BY DEF Cardinality, Dwarf!Cardinality
<1> QED
  BY <1>2, <1>3, <1>4

\* What the library's move over an entry does to the tree.
LEMMA Shown ==
    ASSUME TreeInv, NEW e \in Dwarf!Entries, Dwarf!Show(e)
    PROVE  /\ TreeInv'
           /\ Len(dies') = Len(dies) + 1 /\ \A j \in 1..Len(dies) : dies'[j] = dies[j]
           /\ dies'[Len(dies) + 1] = [tag |-> e.tag, named |-> e.named, up |-> open]
           /\ e.children => /\ Len(open') = Len(open) + 1 /\ open'[Len(open) + 1] = Len(dies) + 1
                            /\ \A k \in 1..Len(open) : open'[k] = open[k]
           /\ ~e.children => open' = open
           /\ open # <<>> => e.tag \in Dwarf!Under(dies[open[Len(open)]].tag)
           /\ e.tag = "cu" <=> open = <<>>
           /\ e.tag \in Tags /\ e.named \in BOOLEAN /\ e.children \in BOOLEAN
<1> DEFINE n == Len(dies) + 1
           r == [tag |-> e.tag, named |-> e.named, up |-> open]
<1>1. /\ dies \in Seq(DieRecord) /\ open \in Seq(Nat)
      /\ Len(dies) \in Nat /\ Len(open) \in Nat
      /\ \A k \in 1..Len(open) : open[k] \in 1..Len(dies)
  BY DEF TreeInv
<1>2. e.tag \in Tags /\ e.named \in BOOLEAN /\ e.children \in BOOLEAN
  BY DEF Dwarf!Entries, Tags
<1>3. /\ dies' = Append(dies, r) /\ open' = (IF e.children THEN Append(open, n) ELSE open)
      /\ Dwarf!Legal(e.tag)
  BY DEF Dwarf!Show
<1>4. r \in DieRecord
  BY <1>1, <1>2 DEF DieRecord
<1>5. /\ dies' \in Seq(DieRecord)
      /\ Len(dies') = n /\ dies'[n] = r /\ \A j \in 1..Len(dies) : dies'[j] = dies[j]
  <2> HIDE DEF r
  <2> QED
    BY <1>1, <1>3, <1>4
<1>6. /\ open' \in Seq(Nat)
      /\ e.children => /\ Len(open') = Len(open) + 1 /\ open'[Len(open) + 1] = n
                       /\ \A k \in 1..Len(open) : open'[k] = open[k]
      /\ ~e.children => open' = open
  BY <1>1, <1>3
<1>7. /\ open = <<>> => e.tag = "cu"
      /\ open # <<>> => e.tag \in Dwarf!Under(dies[open[Len(open)]].tag)
  BY <1>3 DEF Dwarf!Legal, Dwarf!Last
<1>8. e.tag = "cu" <=> open = <<>>
  <2>1. ASSUME NEW t PROVE "cu" \notin Dwarf!Under(t)
    BY DEF Dwarf!Under, Dwarf!Body
  <2> QED
    BY <1>7, <2>1
<1>9. \A j \in 1..Len(dies') : \A k \in 1..Len(dies'[j].up) : dies'[j].up[k] \in 1..(j - 1)
  <2>1. SUFFICES ASSUME NEW j \in 1..Len(dies'), NEW k \in 1..Len(dies'[j].up)
                 PROVE  dies'[j].up[k] \in 1..(j - 1)
    OBVIOUS
  <2>2. CASE j = n
    <3>1. dies'[j].up = open
      BY <1>5, <2>2
    <3> QED
      BY <1>1, <2>1, <2>2, <3>1
  <2>3. CASE j \in 1..Len(dies)
    BY <1>5, <2>1, <2>3 DEF TreeInv
  <2> QED
    BY <1>1, <1>5, <2>2, <2>3
<1>10. \A k \in 1..Len(open') : open'[k] \in 1..Len(dies')
  <2>1. CASE ~e.children
    BY <1>1, <1>5, <1>6, <2>1
  <2>2. CASE e.children
    <3>1. Len(open') = Len(open) + 1 /\ open'[Len(open) + 1] = n
      BY <1>6, <2>2
    <3>2. \A k \in 1..Len(open) : open'[k] = open[k]
      BY <1>6, <2>2
    <3>3. Len(dies') = Len(dies) + 1
      BY <1>5
    <3> QED
      BY <1>1, <3>1, <3>2, <3>3
  <2> QED
    BY <1>2, <2>1, <2>2
<1>11. \A j, k \in 1..Len(open') : j < k => open'[j] < open'[k]
  <2>1. \A j, k \in 1..Len(open) : j < k => open[j] < open[k]
    BY DEF TreeInv
  <2>2. CASE ~e.children
    BY <1>6, <2>1, <2>2
  <2>3. CASE e.children
    <3>1. SUFFICES ASSUME NEW j \in 1..Len(open'), NEW k \in 1..Len(open'), j < k
                   PROVE  open'[j] < open'[k]
      OBVIOUS
    <3>2. j \in 1..Len(open) /\ open'[j] = open[j] /\ (k \in 1..Len(open) \/ k = Len(open) + 1)
      <4>1. Len(open') = Len(open) + 1
        BY <1>6, <2>3
      <4>2. j \in 1..Len(open) /\ (k \in 1..Len(open) \/ k = Len(open) + 1)
        BY <1>1, <3>1, <4>1, SMTT(30)
      <4> QED
        BY <1>6, <2>3, <4>2
    <3>3. open[j] < n
      BY <1>1, <3>2
    <3> QED
      BY <1>6, <2>1, <2>3, <3>1, <3>2, <3>3
  <2> QED
    BY <1>2, <2>2, <2>3
<1>12. \A k \in 1..Len(open') : dies'[open'[k]].tag = "cu" <=> k = 1
  <2>1. \A k \in 1..Len(open) : dies[open[k]].tag = "cu" <=> k = 1
    BY DEF TreeInv
  <2>2. \A k \in 1..Len(open) : dies'[open[k]] = dies[open[k]]
    BY <1>1, <1>5
  <2>3. CASE ~e.children
    BY <1>6, <2>1, <2>2, <2>3
  <2>4. CASE e.children
    <3>1. SUFFICES ASSUME NEW k \in 1..Len(open') PROVE dies'[open'[k]].tag = "cu" <=> k = 1
      OBVIOUS
    <3>2. CASE k \in 1..Len(open)
      BY <1>6, <2>1, <2>2, <2>4, <3>2
    <3>3. CASE k = Len(open) + 1
      <4>1. dies'[open'[k]].tag = e.tag
        BY <1>5, <1>6, <2>4, <3>3
      <4>2. open = <<>> <=> Len(open) = 0
        BY <1>1
      <4> QED
        BY <1>1, <1>8, <3>3, <4>1, <4>2
    <3> QED
      BY <1>1, <1>6, <2>4, <3>2, <3>3
  <2> QED
    BY <1>2, <2>3, <2>4
<1>13. \A j \in 1..Len(dies') : dies'[j].tag # "cu" => dies'[j].up # <<>>
  <2>1. SUFFICES ASSUME NEW j \in 1..Len(dies'), dies'[j].tag # "cu" PROVE dies'[j].up # <<>>
    OBVIOUS
  <2>2. CASE j = n
    <3>1. dies'[j].up = open /\ dies'[j].tag = e.tag
      BY <1>5, <2>2
    <3> QED
      BY <1>8, <2>1, <3>1
  <2>3. CASE j \in 1..Len(dies)
    BY <1>5, <2>1, <2>3 DEF TreeInv
  <2>4. Len(dies') = Len(dies) + 1
    BY <1>5
  <2> QED
    BY <1>1, <2>2, <2>3, <2>4
<1>14. TreeInv'
  BY <1>5, <1>6, <1>9, <1>10, <1>11, <1>12, <1>13 DEF TreeInv
<1> QED
  BY <1>2, <1>5, <1>6, <1>7, <1>8, <1>14

\* What is true of an entry does not change when another one is shown.
LEMMA TruthStays ==
    ASSUME TreeInv, \A j \in 1..Len(dies) : dies'[j] = dies[j], NEW j \in 1..Len(dies)
    PROVE  /\ Dwarf!TrueName(Dwarf!Enclosing(j))' = Dwarf!TrueName(Dwarf!Enclosing(j))
           /\ Dwarf!TrueInstance(j)' = Dwarf!TrueInstance(j)
           /\ Dwarf!TrueSite(j)' = Dwarf!TrueSite(j)
           /\ Dwarf!Walked(j)' <=> Dwarf!Walked(j)
           /\ dies[j].up # <<>> => dies'[Dwarf!Last(dies[j].up)] = dies[Dwarf!Last(dies[j].up)]
<1>1. dies'[j] = dies[j]
  OBVIOUS
<1>2. dies[j].up \in Seq(Nat) /\ Len(dies) \in Nat
  <2>1. dies \in Seq(DieRecord)
    BY DEF TreeInv
  <2>2. dies[j] \in DieRecord
    BY <2>1
  <2> QED
    BY <2>1, <2>2 DEF DieRecord
<1>3. \A a \in Dwarf!Up(j) : a \in 1..Len(dies) /\ dies'[a] = dies[a]
  <2>1. \A k \in 1..Len(dies[j].up) : dies[j].up[k] \in 1..Len(dies)
    BY DEF TreeInv
  <2> QED
    BY <1>2, <2>1 DEF Dwarf!Up, Dwarf!ToSet
<1>4. Dwarf!Up(j)' = Dwarf!Up(j)
  BY <1>1 DEF Dwarf!Up, Dwarf!ToSet
<1>5. {a \in Dwarf!Up(j)' : dies'[a].tag = "subprogram"} = {a \in Dwarf!Up(j) : dies[a].tag = "subprogram"}
  BY <1>3, <1>4
<1>6. Dwarf!Enclosing(j)' = Dwarf!Enclosing(j)
  BY <1>5 DEF Dwarf!Enclosing, Dwarf!Innermost
<1>7. Dwarf!Around(j)' = Dwarf!Around(j)
  BY <1>3, <1>4, <1>6 DEF Dwarf!Around
<1>8. Dwarf!NamedAround(j)' = Dwarf!NamedAround(j)
  <2>1. \A a \in Dwarf!Around(j) : dies'[a] = dies[a]
    BY <1>3 DEF Dwarf!Around
  <2> QED
    BY <1>7, <2>1 DEF Dwarf!NamedAround
<1>9. Dwarf!Enclosing(j) = 0 \/ dies'[Dwarf!Enclosing(j)] = dies[Dwarf!Enclosing(j)]
  <2> DEFINE S == {a \in Dwarf!Up(j) : dies[a].tag = "subprogram"}
  <2>1. S \in SUBSET (1..Len(dies))
    BY <1>3
  <2>2. CASE S = {}
    BY <2>2 DEF Dwarf!Enclosing, Dwarf!Innermost
  <2>3. CASE S # {}
    <3>1. Dwarf!Max(S) \in S
      <4> HIDE DEF S
      <4> QED
        BY <1>2, <2>1, <2>3, MaxOf
    <3>2. Dwarf!Enclosing(j) \in S
      BY <2>3, <3>1 DEF Dwarf!Enclosing, Dwarf!Innermost
    <3> QED
      BY <2>1, <3>2
  <2> QED
    BY <2>2, <2>3
<1>10. Dwarf!TrueName(Dwarf!Enclosing(j))' = Dwarf!TrueName(Dwarf!Enclosing(j))
  BY <1>6, <1>9 DEF Dwarf!TrueName, Dwarf!Name
<1>11. Dwarf!TrueInstance(j)' = Dwarf!TrueInstance(j)
  BY <1>7, <1>8, <1>10 DEF Dwarf!TrueInstance, Dwarf!Innermost
<1>12. Dwarf!TrueSite(j)' = Dwarf!TrueSite(j)
  BY <1>8, <1>10 DEF Dwarf!TrueSite, Dwarf!Innermost
<1>13. Dwarf!Walked(j)' <=> Dwarf!Walked(j)
  BY <1>3, <1>4 DEF Dwarf!Walked
<1>14. ASSUME dies[j].up # <<>> PROVE dies'[Dwarf!Last(dies[j].up)] = dies[Dwarf!Last(dies[j].up)]
  <2>1. Len(dies[j].up) \in 1..Len(dies[j].up)
    BY <1>2, <1>14
  <2>2. Dwarf!Last(dies[j].up) \in Dwarf!Up(j)
    BY <1>2, <2>1 DEF Dwarf!Last, Dwarf!Up, Dwarf!ToSet
  <2> QED
    BY <1>3, <2>2
<1> QED
  BY <1>10, <1>11, <1>12, <1>13, <1>14

\* What the facts about one more entry have to be.
LEMMA OneMore ==
    ASSUME TreeInv, Dwarf!AttributionExact, NEW n, n = Len(dies) + 1, Len(dies') = n,
           \A j \in 1..Len(dies) : dies'[j] = dies[j],
           dies' \in Seq(DieRecord), dies'[n].up = open,
           info'.functions = info.functions
               \cup {j \in {n} : dies'[n].tag = "subprogram" /\ Dwarf!Walked(n)'},
           info'.instances = info.instances
               \cup {Dwarf!TrueInstance(j)' : j \in {j \in {n} :
                        /\ dies'[n].tag = "inlined" /\ Dwarf!Walked(n)' /\ dies'[n].named
                        /\ Dwarf!TrueName(Dwarf!Enclosing(n))' # 0}},
           info'.sites = info.sites
               \cup {Dwarf!TrueSite(j)' : j \in {j \in {n} : dies'[n].tag = "callsite" /\ Dwarf!Walked(n)' /\ dies'[n].named}},
           info'.variables = info.variables
               \cup {j \in {n} : /\ dies'[n].tag = "variable" /\ Dwarf!Walked(n)' /\ dies'[n].named
                                 /\ dies'[Dwarf!Last(open)].tag = "cu"},
           info'.members = info.members
               \cup {<<Dwarf!Last(open), j>> : j \in {j \in {n} :
                        /\ dies'[n].tag = "member" /\ open # <<>>
                        /\ dies'[Dwarf!Last(open)].tag = "type"}}
    PROVE  Dwarf!AttributionExact'
<1>1. Len(dies) \in Nat /\ DOMAIN dies = 1..Len(dies) /\ DOMAIN dies' = DOMAIN dies \cup {n}
  <2>1. Len(dies) \in Nat /\ DOMAIN dies = 1..Len(dies)
    BY DEF TreeInv
  <2>2. DOMAIN dies' = 1..n
    OBVIOUS
  <2> QED
    BY <2>1, <2>2
<1>2. \A j \in DOMAIN dies :
         /\ dies'[j] = dies[j]
         /\ Dwarf!TrueName(Dwarf!Enclosing(j))' = Dwarf!TrueName(Dwarf!Enclosing(j))
         /\ Dwarf!TrueInstance(j)' = Dwarf!TrueInstance(j)
         /\ Dwarf!TrueSite(j)' = Dwarf!TrueSite(j)
         /\ Dwarf!Walked(j)' <=> Dwarf!Walked(j)
         /\ dies[j].up # <<>> => dies'[Dwarf!Last(dies[j].up)] = dies[Dwarf!Last(dies[j].up)]
  BY <1>1, TruthStays
<1>3. ASSUME NEW t PROVE Dwarf!Of(t)' = Dwarf!Of(t) \cup {j \in {n} : dies'[n].tag = t /\ Dwarf!Walked(n)'}
  BY <1>1, <1>2 DEF Dwarf!Of
<1>4. \A t : Dwarf!Of(t) \in SUBSET (DOMAIN dies) /\ Dwarf!NamedOf(t) \in SUBSET (DOMAIN dies)
  BY DEF Dwarf!Of, Dwarf!NamedOf
<1>10. ASSUME NEW t
       PROVE  Dwarf!NamedOf(t)' =
                 Dwarf!NamedOf(t) \cup {j \in {n} : dies'[n].tag = t /\ Dwarf!Walked(n)' /\ dies'[n].named}
  <2>1. /\ Dwarf!NamedOf(t) = {j \in Dwarf!Of(t) : dies[j].named}
        /\ Dwarf!NamedOf(t)' = {j \in Dwarf!Of(t)' : dies'[j].named}
    BY DEF Dwarf!NamedOf
  <2>2. \A j \in Dwarf!Of(t) : dies'[j] = dies[j]
    BY <1>2, <1>4
  <2> QED
    BY <1>3, <2>1, <2>2
<1>5. info'.functions = Dwarf!Of("subprogram")'
  BY <1>3 DEF Dwarf!AttributionExact
<1>6. info'.instances =
        {Dwarf!TrueInstance(d)' :
            d \in {j \in Dwarf!Of("inlined")' :
                       dies'[j].named /\ Dwarf!TrueName(Dwarf!Enclosing(j))' # 0}}
  <2> DEFINE old == {j \in Dwarf!Of("inlined") : dies[j].named /\ Dwarf!TrueName(Dwarf!Enclosing(j)) # 0}
             new == {j \in Dwarf!Of("inlined")' :
                       dies'[j].named /\ Dwarf!TrueName(Dwarf!Enclosing(j))' # 0}
             more == {j \in {n} : /\ dies'[n].tag = "inlined" /\ Dwarf!Walked(n)' /\ dies'[n].named
                                  /\ Dwarf!TrueName(Dwarf!Enclosing(n))' # 0}
  <2>1. new = old \cup more
    BY <1>2, <1>3, <1>4
  <2>2. old \in SUBSET (DOMAIN dies)
    BY <1>4
  <2>3. info.instances = {Dwarf!TrueInstance(j) : j \in old}
    BY DEF Dwarf!AttributionExact
  <2>4. info'.instances = info.instances \cup {Dwarf!TrueInstance(j)' : j \in more}
    OBVIOUS
  <2> HIDE DEF old, new, more
  <2>5. \A j \in old : Dwarf!TrueInstance(j)' = Dwarf!TrueInstance(j)
    BY <1>2, <2>2
  <2>6. info'.instances = {Dwarf!TrueInstance(j)' : j \in new}
    BY <2>1, <2>3, <2>4, <2>5, ZenonT(60)
  <2> QED
    BY <2>6 DEF new
<1>7. info'.sites = {Dwarf!TrueSite(d)' : d \in Dwarf!NamedOf("callsite")'}
  <2> DEFINE old == Dwarf!NamedOf("callsite")
             new == Dwarf!NamedOf("callsite")'
             more == {j \in {n} : dies'[n].tag = "callsite" /\ Dwarf!Walked(n)' /\ dies'[n].named}
  <2>1. new = old \cup more
    BY <1>10
  <2>2. \A j \in old : Dwarf!TrueSite(j)' = Dwarf!TrueSite(j)
    BY <1>2, <1>4
  <2>3. info.sites = {Dwarf!TrueSite(j) : j \in old}
    BY DEF Dwarf!AttributionExact
  <2>4. info'.sites = info.sites \cup {Dwarf!TrueSite(j)' : j \in more}
    OBVIOUS
  <2> HIDE DEF old, new, more
  <2>5. info'.sites = {Dwarf!TrueSite(j)' : j \in new}
    BY <2>1, <2>2, <2>3, <2>4
  <2> QED
    BY <2>5 DEF new
<1>8. info'.variables = {d \in Dwarf!NamedOf("variable")' : dies'[Dwarf!Last(dies'[d].up)].tag = "cu"}
  <2>1. info.variables = {d \in Dwarf!NamedOf("variable") : dies[Dwarf!Last(dies[d].up)].tag = "cu"}
    BY DEF Dwarf!AttributionExact
  <2>2. \A d \in Dwarf!NamedOf("variable") :
            dies'[Dwarf!Last(dies'[d].up)].tag = "cu" <=> dies[Dwarf!Last(dies[d].up)].tag = "cu"
    <3>1. \A d \in Dwarf!NamedOf("variable") : d \in DOMAIN dies /\ dies[d].up # <<>>
      BY <1>1 DEF TreeInv, Dwarf!Of, Dwarf!NamedOf
    <3> QED
      BY <1>2, <3>1
  <2> QED
    BY <1>4, <1>10, <2>1, <2>2
<1>9. info'.members =
        {<<Dwarf!Last(dies'[d].up), d>> :
            d \in {j \in DOMAIN dies' : /\ dies'[j].tag = "member" /\ dies'[j].up # <<>>
                                        /\ dies'[Dwarf!Last(dies'[j].up)].tag = "type"}}
  <2> DEFINE old == {j \in DOMAIN dies : /\ dies[j].tag = "member" /\ dies[j].up # <<>>
                                         /\ dies[Dwarf!Last(dies[j].up)].tag = "type"}
             new == {j \in DOMAIN dies' : /\ dies'[j].tag = "member" /\ dies'[j].up # <<>>
                                          /\ dies'[Dwarf!Last(dies'[j].up)].tag = "type"}
             more == {j \in {n} : /\ dies'[n].tag = "member" /\ open # <<>>
                                  /\ dies'[Dwarf!Last(open)].tag = "type"}
  <2>1. new = old \cup more
    BY <1>1, <1>2
  <2>2. info.members = {<<Dwarf!Last(dies[j].up), j>> : j \in old}
    BY DEF Dwarf!AttributionExact
  <2>3. \A j \in old : dies'[j].up = dies[j].up
    BY <1>2
  <2>4. \A j \in more : dies'[j].up = open
    OBVIOUS
  <2>5. info'.members = info.members \cup {<<Dwarf!Last(open), j>> : j \in more}
    OBVIOUS
  <2> HIDE DEF old, new, more
  <2>6. info'.members = {<<Dwarf!Last(dies'[j].up), j>> : j \in new}
    BY <2>1, <2>2, <2>3, <2>4, <2>5
  <2> QED
    BY <2>6 DEF new
<1> QED
  BY <1>5, <1>6, <1>7, <1>8, <1>9 DEF Dwarf!AttributionExact

\* What the frames say of an entry shown outside of types is what its ancestors say.
LEMMA InScope ==
    ASSUME TreeInv, FrameInv, reading = "walk", NEW n, n = Len(dies) + 1,
           \A j \in 1..Len(dies) : dies'[j] = dies[j], dies'[n].up = open
    PROVE  /\ Dwarf!Walked(n)'
           /\ Dwarf!TrueName(Dwarf!Enclosing(n))' = Dwarf!NameIn(Dwarf!Subprograms)
           /\ Dwarf!Cardinality(Dwarf!Around(n)') = Dwarf!Cardinality(Dwarf!Copies)
           /\ Dwarf!Innermost(Dwarf!NamedAround(n)') = Dwarf!NameIn(Dwarf!NamedCopies)
           /\ Dwarf!NamedAround(n)' = {} <=> Dwarf!NamedCopies = {}
<1> DEFINE Sub == Dwarf!Subprograms
           L == Len(stack)
<1>1. /\ open \in Seq(Nat) /\ Len(dies) \in Nat /\ L \in Nat /\ Len(open) = L
      /\ \A k \in 1..L : open[k] \in 1..Len(dies)
      /\ \A j, k \in 1..L : j < k => open[j] < open[k]
      /\ DOMAIN stack = 1..L
      /\ \A k \in 1..L : /\ stack[k].tag = dies[open[k]].tag /\ stack[k].tag # "type"
                         /\ stack[k].name = Dwarf!Name(open[k])
  <2>1. /\ open \in Seq(Nat) /\ dies \in Seq(DieRecord) /\ stack \in Seq([tag : Tags, name : Nat])
        /\ Len(open) = Len(stack)
    BY DEF TreeInv, FrameInv
  <2>2. Len(dies) \in Nat /\ L \in Nat /\ Len(open) = L /\ DOMAIN stack = 1..L
    BY <2>1
  <2> QED
    BY <2>1, <2>2 DEF TreeInv, FrameInv
<1>c. ASSUME NEW S \in SUBSET (1..L)
      PROVE  /\ Dwarf!Innermost({open[k] : k \in S}) = IF S = {} THEN 0 ELSE open[Dwarf!Max(S)]
             /\ Dwarf!Cardinality({open[k] : k \in S}) = Dwarf!Cardinality(S)
  <2>1. /\ open \in Seq(Nat) /\ L \in Nat /\ L <= Len(open)
        /\ \A j, k \in 1..Len(open) : j < k => open[j] < open[k]
    BY <1>1
  <2> HIDE DEF L
  <2> QED
    BY <1>c, <2>1, AlongChain
<1>2. Dwarf!Up(n)' = {open[k] : k \in 1..L}
  BY <1>1 DEF Dwarf!Up, Dwarf!ToSet
<1>3. \A k \in 1..L : dies'[open[k]] = dies[open[k]]
  BY <1>1
<1>4. Dwarf!Walked(n)'
  BY <1>1, <1>2, <1>3 DEF Dwarf!Walked
<1>5. Sub \in SUBSET (1..L) /\ Dwarf!Copies \in SUBSET (1..L) /\ Dwarf!NamedCopies \in SUBSET (1..L)
  BY <1>1 DEF Dwarf!Subprograms, Dwarf!Copies, Dwarf!NamedCopies
<1>6. Dwarf!Enclosing(n)' = IF Sub = {} THEN 0 ELSE open[Dwarf!Max(Sub)]
  <2>1. {a \in Dwarf!Up(n)' : dies'[a].tag = "subprogram"} = {open[k] : k \in Sub}
    BY <1>1, <1>2, <1>3, SMTT(30) DEF Dwarf!Subprograms
  <2>2. Dwarf!Enclosing(n)' = Dwarf!Innermost({open[k] : k \in Sub})
    BY <2>1 DEF Dwarf!Enclosing, Dwarf!Innermost
  <2> HIDE DEF Sub
  <2>3. Dwarf!Innermost({open[k] : k \in Sub}) = IF Sub = {} THEN 0 ELSE open[Dwarf!Max(Sub)]
    BY <1>c, <1>5
  <2> QED
    BY <2>2, <2>3
<1>7. Sub # {} => Dwarf!Max(Sub) \in Sub /\ Dwarf!Max(Sub) \in 1..L /\ \A y \in Sub : y <= Dwarf!Max(Sub)
  <2> HIDE DEF Sub
  <2> QED
    BY <1>1, <1>5, MaxOf
<1>8. Dwarf!TrueName(Dwarf!Enclosing(n))' = Dwarf!NameIn(Sub)
  <2>1. CASE Sub = {}
    BY <1>6, <2>1 DEF Dwarf!TrueName, Dwarf!NameIn
  <2>2. CASE Sub # {}
    <3> DEFINE m == Dwarf!Max(Sub)
    <3>1. m \in 1..L /\ open[m] \in 1..Len(dies) /\ Dwarf!Enclosing(n)' = open[m]
      BY <1>1, <1>6, <1>7, <2>2
    <3>2. Dwarf!NameIn(Sub) = stack[m].name
      BY <2>2 DEF Dwarf!NameIn
    <3> HIDE DEF m
    <3>3. stack[m].name = Dwarf!Name(open[m]) /\ open[m] # 0
      BY <1>1, <3>1
    <3>4. dies'[open[m]] = dies[open[m]]
      BY <1>3, <3>1
    <3>5. Dwarf!TrueName(Dwarf!Enclosing(n))' = Dwarf!Name(open[m])
      BY <3>1, <3>3, <3>4 DEF Dwarf!TrueName, Dwarf!Name
    <3> QED
      BY <3>2, <3>3, <3>5
  <2> QED
    BY <2>1, <2>2
<1>9. \A k \in 1..L : open[k] > Dwarf!Enclosing(n)' <=> \A y \in Sub : y < k
  <2>1. SUFFICES ASSUME NEW k \in 1..L
                 PROVE  open[k] > Dwarf!Enclosing(n)' <=> \A y \in Sub : y < k
    OBVIOUS
  <2>2. CASE Sub = {}
    BY <1>1, <1>6, <2>2
  <2>3. CASE Sub # {}
    <3> DEFINE m == Dwarf!Max(Sub)
    <3>1. m \in Sub /\ m \in 1..L /\ \A y \in Sub : y <= m
      BY <1>7, <2>3
    <3>2. Dwarf!Enclosing(n)' = open[m]
      BY <1>6, <2>3
    <3>3. \A y \in Sub : y \in 1..L
      BY <1>5
    <3> HIDE DEF m, Sub
    <3>4. (\A y \in Sub : y < k) <=> m < k
      BY <1>1, <3>1, <3>3
    <3>5. m < k <=> open[m] < open[k]
      <4>1. open[m] \in Nat /\ open[k] \in Nat
        BY <1>1, <3>1
      <4>2. m < k \/ m = k \/ k < m
        BY <1>1, <3>1
      <4> QED
        BY <1>1, <3>1, <4>1, <4>2
    <3>6. open[m] \in Nat /\ open[k] \in Nat
      BY <1>1, <3>1
    <3> QED
      BY <3>2, <3>4, <3>5, <3>6
  <2> QED
    BY <2>2, <2>3
<1>10. Dwarf!Around(n)' = {open[k] : k \in Dwarf!Copies}
  <2>1. Dwarf!Around(n)' = {a \in Dwarf!Up(n)' : dies'[a].tag = "inlined" /\ a > Dwarf!Enclosing(n)'}
    BY DEF Dwarf!Around
  <2>2. Dwarf!Copies = {k \in 1..L : stack[k].tag = "inlined" /\ \A y \in Sub : y < k}
    BY <1>1 DEF Dwarf!Copies
  <2>3. \A k \in 1..L : (dies'[open[k]].tag = "inlined" /\ open[k] > Dwarf!Enclosing(n)')
                           <=> k \in Dwarf!Copies
    BY <1>1, <1>3, <1>9, <2>2
  <2> QED
    BY <1>2, <1>5, <2>1, <2>3
<1>11. \A k \in 1..L : stack[k].name # 0 <=> dies[open[k]].named
  <2>1. SUFFICES ASSUME NEW k \in 1..L PROVE stack[k].name # 0 <=> dies[open[k]].named
    OBVIOUS
  <2>2. open[k] # 0 /\ stack[k].name = IF dies[open[k]].named THEN open[k] ELSE 0
    BY <1>1 DEF Dwarf!Name
  <2> QED
    BY <2>2
<1>12. Dwarf!NamedAround(n)' = {open[k] : k \in Dwarf!NamedCopies}
  BY <1>3, <1>5, <1>10, <1>11 DEF Dwarf!NamedAround, Dwarf!NamedCopies
<1>13. Dwarf!Cardinality(Dwarf!Around(n)') = Dwarf!Cardinality(Dwarf!Copies)
  <2> DEFINE S == Dwarf!Copies
  <2>1. S \in SUBSET (1..L)
    BY <1>5
  <2> HIDE DEF S
  <2>2. Dwarf!Cardinality({open[k] : k \in S}) = Dwarf!Cardinality(S)
    BY <1>c, <2>1
  <2> QED
    BY <1>10, <2>2 DEF S
<1>14. Dwarf!Innermost(Dwarf!NamedAround(n)') = Dwarf!NameIn(Dwarf!NamedCopies)
  <2> DEFINE S == Dwarf!NamedCopies
  <2>1. S \in SUBSET (1..L) /\ \A k \in S : stack[k].name # 0
    BY <1>5 DEF Dwarf!NamedCopies
  <2> HIDE DEF S
  <2>2. Dwarf!Innermost({open[k] : k \in S}) = IF S = {} THEN 0 ELSE open[Dwarf!Max(S)]
    BY <1>c, <2>1
  <2>3. CASE S = {}
    BY <1>12, <2>2, <2>3 DEF Dwarf!NameIn, S
  <2>4. CASE S # {}
    <3>1. Dwarf!Max(S) \in S
      BY <1>1, <2>1, <2>4, MaxOf
    <3>2. stack[Dwarf!Max(S)].name = open[Dwarf!Max(S)]
      BY <1>1, <1>11, <2>1, <3>1 DEF Dwarf!Name
    <3>3. Dwarf!NameIn(S) = stack[Dwarf!Max(S)].name
      BY <2>4 DEF Dwarf!NameIn
    <3> QED
      BY <1>12, <2>2, <2>4, <3>2, <3>3 DEF S
  <2> QED
    BY <2>3, <2>4
<1>15. Dwarf!NamedAround(n)' = {} <=> Dwarf!NamedCopies = {}
  BY <1>12
<1> QED
  BY <1>4, <1>8, <1>13, <1>14, <1>15

\* An entry that is no type, outside of types: its facts are the true ones, and
\* the frame that is pushed for its children is its own.
LEMMA EntryStep ==
    ASSUME TreeInv, FrameInv, InfoInv, NEW e \in Dwarf!Entries, Dwarf!Entry(e)
    PROVE  TreeInv' /\ FrameInv' /\ InfoInv'
<1>0. PICK n \in Nat : n = Len(dies) + 1
  BY DEF TreeInv
<1>1. /\ reading = "walk" /\ e.tag # "type" /\ Dwarf!Show(e)
      /\ info' = Dwarf!Facts(e, n)
      /\ stack' = IF e.children THEN Append(stack, Dwarf!Frame(e, n)) ELSE stack
      /\ reading' = reading /\ skip' = skip
  BY <1>0 DEF Dwarf!Entry
<1>2. /\ TreeInv'
      /\ Len(dies') = n /\ \A j \in 1..Len(dies) : dies'[j] = dies[j]
      /\ dies'[n] = [tag |-> e.tag, named |-> e.named, up |-> open]
      /\ e.children => /\ Len(open') = Len(open) + 1 /\ open'[Len(open) + 1] = n
                       /\ \A k \in 1..Len(open) : open'[k] = open[k]
      /\ ~e.children => open' = open
      /\ e.tag = "cu" <=> open = <<>>
      /\ e.tag \in Tags /\ e.named \in BOOLEAN /\ e.children \in BOOLEAN
  BY <1>0, <1>1, Shown
<1>3. /\ open \in Seq(Nat) /\ Len(dies) \in Nat /\ Len(stack) \in Nat
      /\ Len(open) = Len(stack) /\ skip = 0 /\ stack \in Seq([tag : Tags, name : Nat])
  BY <1>1 DEF TreeInv, FrameInv
<1>4. \A k \in 1..Len(stack) :
         /\ open[k] \in 1..Len(dies) /\ stack[k].tag = dies[open[k]].tag /\ stack[k].tag # "type"
         /\ stack[k].name = Dwarf!Name(open[k])
         /\ dies'[open[k]] = dies[open[k]]
  BY <1>2, <1>3 DEF TreeInv, FrameInv
<1>5. \A k \in 1..Len(stack) :
         /\ stack[k].tag = dies'[open[k]].tag /\ stack[k].tag # "type"
         /\ stack[k].name = IF dies'[open[k]].named THEN open[k] ELSE 0
  BY <1>4 DEF Dwarf!Name
<1>6. FrameInv'
  <2>1. CASE ~e.children
    <3>1. stack' = stack /\ open' = open
      BY <1>1, <1>2, <2>1
    <3> QED
      BY <1>1, <1>3, <1>5, <3>1 DEF FrameInv, Dwarf!Name
  <2>2. CASE e.children
    <3> DEFINE f == Dwarf!Frame(e, n)
    <3>1. f \in [tag : Tags, name : Nat] /\ f.tag = e.tag /\ f.name = IF e.named THEN n ELSE 0
      BY <1>2, <1>3 DEF Dwarf!Frame
    <3>2. stack' = Append(stack, f)
      BY <1>1, <2>2
    <3> HIDE DEF f
    <3>3. /\ stack' \in Seq([tag : Tags, name : Nat]) /\ Len(stack') = Len(stack) + 1
          /\ stack'[Len(stack) + 1] = f /\ \A k \in 1..Len(stack) : stack'[k] = stack[k]
      BY <1>3, <3>1, <3>2
    <3>4. Len(open') = Len(stack') /\ open'[Len(stack) + 1] = n
          /\ \A k \in 1..Len(stack) : open'[k] = open[k]
      BY <1>2, <1>3, <2>2, <3>3
    <3>5. dies'[n].tag = e.tag /\ dies'[n].named = e.named
      BY <1>2
    <3>6. ASSUME NEW k \in 1..Len(stack')
          PROVE  /\ stack'[k].tag = dies'[open'[k]].tag /\ stack'[k].tag # "type"
                 /\ stack'[k].name = IF dies'[open'[k]].named THEN open'[k] ELSE 0
      <4>1. CASE k \in 1..Len(stack)
        <5>1. stack'[k] = stack[k] /\ open'[k] = open[k]
          BY <3>3, <3>4, <4>1
        <5> QED
          BY <1>5, <4>1, <5>1
      <4>2. CASE k = Len(stack) + 1
        <5>1. stack'[k] = f /\ open'[k] = n
          BY <3>3, <3>4, <4>2
        <5> QED
          BY <1>1, <3>1, <3>5, <5>1
      <4> QED
        BY <1>3, <3>3, <4>1, <4>2
    <3>7. Len(stack') <= Len(open') /\ reading' = "walk" /\ skip' = 0
      BY <1>1, <1>3, <3>3, <3>4
    <3> QED
      BY <3>3, <3>4, <3>6, <3>7 DEF FrameInv, Dwarf!Name
  <2> QED
    BY <1>2, <2>1, <2>2
<1>7. /\ dies'[n].up = open /\ dies'[n].tag = e.tag /\ (dies'[n].named <=> e.named)
      /\ dies' \in Seq(DieRecord)
  BY <1>2 DEF TreeInv
<1>8. /\ Dwarf!Walked(n)'
      /\ Dwarf!TrueName(Dwarf!Enclosing(n))' = Dwarf!NameIn(Dwarf!Subprograms)
      /\ Dwarf!Cardinality(Dwarf!Around(n)') = Dwarf!Cardinality(Dwarf!Copies)
      /\ Dwarf!Innermost(Dwarf!NamedAround(n)') = Dwarf!NameIn(Dwarf!NamedCopies)
      /\ Dwarf!NamedAround(n)' = {} <=> Dwarf!NamedCopies = {}
  BY <1>0, <1>1, <1>2, <1>7, InScope
<1>9. Dwarf!TrueSite(n)' = Dwarf!CallSite(n)
  BY <1>8 DEF Dwarf!TrueSite, Dwarf!CallSite, Dwarf!Innermost
<1>10. Dwarf!TrueInstance(n)' =
          [die |-> n, caller |-> Dwarf!NameIn(Dwarf!Subprograms),
           parent |-> Dwarf!NameIn(Dwarf!NamedCopies), depth |-> 1 + Dwarf!Cardinality(Dwarf!Copies)]
  BY <1>8 DEF Dwarf!TrueInstance, Dwarf!Innermost
<1>11. /\ open # <<>> => dies'[Dwarf!Last(open)].tag # "type"
       /\ e.tag = "variable" => (dies'[Dwarf!Last(open)].tag = "cu" <=> Len(stack) <= 1)
  <2>1. ASSUME open # <<>>
        PROVE  /\ dies'[Dwarf!Last(open)].tag # "type"
               /\ dies'[Dwarf!Last(open)].tag = "cu" <=> Len(stack) <= 1
    <3>1. Len(open) \in 1..Len(stack) /\ Len(open) = Len(stack) /\ Dwarf!Last(open) = open[Len(open)]
      BY <1>3, <2>1 DEF Dwarf!Last
    <3>2. dies'[Dwarf!Last(open)] = dies[open[Len(open)]] /\ dies[open[Len(open)]].tag # "type"
      BY <1>4, <3>1
    <3>3. dies[open[Len(open)]].tag = "cu" <=> Len(open) = 1
      BY <3>1 DEF TreeInv
    <3>4. Len(open) = 1 <=> Len(stack) <= 1
      BY <1>3, <3>1
    <3> QED
      BY <3>1, <3>2, <3>3, <3>4
  <2> QED
    BY <1>2, <2>1
<1>12. /\ info = [functions |-> info.functions, instances |-> info.instances, sites |-> info.sites,
                  variables |-> info.variables, members |-> info.members]
       /\ Dwarf!AttributionExact
  BY DEF InfoInv
<1>13. /\ info' = [functions |-> info'.functions, instances |-> info'.instances,
                   sites |-> info'.sites, variables |-> info'.variables, members |-> info'.members]
       /\ info'.functions = info.functions \cup {j \in {n} : e.tag = "subprogram"}
       /\ info'.instances = info.instances
             \cup (IF e.tag = "inlined" THEN Dwarf!InlineInstance(n, e.named) ELSE {})
       /\ info'.sites = info.sites \cup (IF e.tag = "callsite" /\ e.named THEN {Dwarf!CallSite(n)} ELSE {})
       /\ info'.variables =
             info.variables \cup {j \in {n} : e.tag = "variable" /\ e.named /\ Len(stack) <= 1}
       /\ info'.members = info.members
  <2> DEFINE A == info.functions
             B == info.instances
             C == info.sites
             D == info.variables
             M == info.members
  <2>1. info = [functions |-> A, instances |-> B, sites |-> C, variables |-> D, members |-> M]
    BY <1>12
  <2>2. info' =
          CASE e.tag = "subprogram" -> [info EXCEPT !.functions = @ \cup {n}]
            [] e.tag = "inlined"  -> [info EXCEPT !.instances = @ \cup Dwarf!InlineInstance(n, e.named)]
            [] e.tag = "callsite" -> [info EXCEPT !.sites =
                                          IF e.named THEN @ \cup {Dwarf!CallSite(n)} ELSE @]
            [] e.tag = "variable" -> [info EXCEPT !.variables =
                                          IF e.named /\ Len(stack) <= 1 THEN @ \cup {n} ELSE @]
            [] OTHER -> info
    BY <1>1 DEF Dwarf!Facts
  <2>3. CASE e.tag = "subprogram"
    <3>1. info' = [functions |-> A \cup {n}, instances |-> B, sites |-> C, variables |-> D, members |-> M]
      BY <2>1, <2>2, <2>3
    <3> QED
      BY <2>3, <3>1
  <2>4. CASE e.tag = "inlined"
    <3>1. info' = [functions |-> A, instances |-> B \cup Dwarf!InlineInstance(n, e.named),
                   sites |-> C, variables |-> D, members |-> M]
      BY <2>1, <2>2, <2>4
    <3> QED
      BY <2>4, <3>1
  <2>5. CASE e.tag = "callsite"
    <3>1. info' = [functions |-> A, instances |-> B, sites |-> IF e.named THEN C \cup {Dwarf!CallSite(n)} ELSE C,
                   variables |-> D, members |-> M]
      BY <2>1, <2>2, <2>5
    <3> QED
      BY <2>5, <3>1
  <2>6. CASE e.tag = "variable"
    <3>1. info' = [functions |-> A, instances |-> B, sites |-> C,
                   variables |-> IF e.named /\ Len(stack) <= 1 THEN D \cup {n} ELSE D, members |-> M]
      BY <2>1, <2>2, <2>6
    <3> QED
      BY <2>6, <3>1
  <2>7. CASE e.tag \notin {"subprogram", "inlined", "callsite", "variable"}
    <3>1. info' = info
      BY <2>2, <2>7
    <3> QED
      BY <2>1, <2>7, <3>1
  <2> QED
    BY <2>3, <2>4, <2>5, <2>6, <2>7
<1>14. Dwarf!AttributionExact'
  <2>1. info'.functions = info.functions
            \cup {j \in {n} : dies'[n].tag = "subprogram" /\ Dwarf!Walked(n)'}
    BY <1>7, <1>8, <1>13
  <2>2. info'.instances = info.instances
            \cup {Dwarf!TrueInstance(j)' : j \in {j \in {n} :
                     /\ dies'[n].tag = "inlined" /\ Dwarf!Walked(n)' /\ dies'[n].named
                     /\ Dwarf!TrueName(Dwarf!Enclosing(n))' # 0}}
    <3>1. CASE e.tag = "inlined" /\ e.named /\ Dwarf!NameIn(Dwarf!Subprograms) # 0
      <4>1. Dwarf!InlineInstance(n, e.named) = {Dwarf!TrueInstance(n)'}
        BY <1>10, <3>1 DEF Dwarf!InlineInstance
      <4>2. {j \in {n} : /\ dies'[n].tag = "inlined" /\ Dwarf!Walked(n)' /\ dies'[n].named
                         /\ Dwarf!TrueName(Dwarf!Enclosing(n))' # 0} = {n}
        BY <1>7, <1>8, <3>1
      <4> QED
        BY <1>13, <3>1, <4>1, <4>2
    <3>2. CASE ~(e.tag = "inlined" /\ e.named /\ Dwarf!NameIn(Dwarf!Subprograms) # 0)
      <4>1. (IF e.tag = "inlined" THEN Dwarf!InlineInstance(n, e.named) ELSE {}) = {}
        BY <3>2 DEF Dwarf!InlineInstance
      <4>2. {j \in {n} : /\ dies'[n].tag = "inlined" /\ Dwarf!Walked(n)' /\ dies'[n].named
                         /\ Dwarf!TrueName(Dwarf!Enclosing(n))' # 0} = {}
        BY <1>7, <1>8, <3>2
      <4> QED
        BY <1>13, <4>1, <4>2
    <3> QED
      BY <3>1, <3>2
  <2>3. info'.sites = info.sites
            \cup {Dwarf!TrueSite(j)' : j \in {j \in {n} : dies'[n].tag = "callsite" /\ Dwarf!Walked(n)' /\ dies'[n].named}}
    BY <1>7, <1>8, <1>9, <1>13
  <2>4. info'.variables = info.variables
            \cup {j \in {n} : /\ dies'[n].tag = "variable" /\ Dwarf!Walked(n)' /\ dies'[n].named
                              /\ dies'[Dwarf!Last(open)].tag = "cu"}
    BY <1>7, <1>8, <1>11, <1>13
  <2>5. info'.members = info.members
            \cup {<<Dwarf!Last(open), j>> : j \in {j \in {n} :
                     /\ dies'[n].tag = "member" /\ open # <<>>
                     /\ dies'[Dwarf!Last(open)].tag = "type"}}
    BY <1>11, <1>13
  <2> QED
    BY <1>0, <1>2, <1>7, <1>12, <2>1, <2>2, <2>3, <2>4, <2>5, OneMore
<1> QED
  BY <1>2, <1>6, <1>13, <1>14 DEF InfoInv

\* When no frame is pushed for an entry the frames still fit the open entries.
LEMMA FramesStay ==
    ASSUME TreeInv, FrameInv, NEW e \in Dwarf!Entries, Dwarf!Show(e), stack' = stack
    PROVE  /\ stack' \in Seq([tag : Tags, name : Nat])
           /\ Len(open) \in Nat /\ Len(stack) \in Nat /\ Len(stack) <= Len(open)
           /\ Len(open') = IF e.children THEN Len(open) + 1 ELSE Len(open)
           /\ \A k \in 1..Len(stack) :
                 /\ stack'[k].tag = dies'[open'[k]].tag /\ stack'[k].tag # "type"
                 /\ stack'[k].name = Dwarf!Name(open[k])'
           /\ \A k \in 1..Len(open) :
                 /\ open'[k] = open[k] /\ open[k] \in 1..Len(dies)
                 /\ dies'[open[k]].tag = dies[open[k]].tag
           /\ e.children => dies'[open'[Len(open) + 1]].tag = e.tag
<1>0. PICK n \in Nat : n = Len(dies) + 1
  BY DEF TreeInv
<1>1. /\ Len(dies') = n /\ \A j \in 1..Len(dies) : dies'[j] = dies[j]
      /\ dies'[n] = [tag |-> e.tag, named |-> e.named, up |-> open]
      /\ e.children => /\ Len(open') = Len(open) + 1 /\ open'[Len(open) + 1] = n
                       /\ \A k \in 1..Len(open) : open'[k] = open[k]
      /\ ~e.children => open' = open
      /\ e.children \in BOOLEAN
  BY <1>0, Shown
<1>2. /\ open \in Seq(Nat) /\ Len(open) \in Nat /\ Len(stack) \in Nat
      /\ stack \in Seq([tag : Tags, name : Nat]) /\ Len(stack) <= Len(open)
  BY DEF TreeInv, FrameInv
<1>3. \A k \in 1..Len(open) :
         /\ open'[k] = open[k] /\ open[k] \in 1..Len(dies) /\ dies'[open[k]] = dies[open[k]]
  BY <1>1, <1>2 DEF TreeInv
<1>4. ASSUME NEW k \in 1..Len(stack)
      PROVE  /\ stack'[k].tag = dies'[open'[k]].tag /\ stack'[k].tag # "type"
             /\ stack'[k].name = Dwarf!Name(open[k])'
  <2>1. k \in 1..Len(open)
    BY <1>2
  <2>2. /\ stack[k].tag = dies[open[k]].tag /\ stack[k].tag # "type"
        /\ stack[k].name = Dwarf!Name(open[k])
    BY DEF FrameInv
  <2>3. open'[k] = open[k] /\ dies'[open[k]] = dies[open[k]]
    BY <1>3, <2>1
  <2> QED
    BY <2>2, <2>3 DEF Dwarf!Name
<1>5. /\ Len(open') = IF e.children THEN Len(open) + 1 ELSE Len(open)
      /\ e.children => dies'[open'[Len(open) + 1]].tag = e.tag
  BY <1>1
<1> QED
  BY <1>2, <1>3, <1>4, <1>5

\* A struct, union or enumeration: no fact, and its children are not the walk's.
LEMMA TypeEntryStep ==
    ASSUME TreeInv, FrameInv, InfoInv, NEW e \in Dwarf!Entries, Dwarf!TypeEntry(e)
    PROVE  TreeInv' /\ FrameInv' /\ InfoInv'
<1>0. PICK n \in Nat : n = Len(dies) + 1
  BY DEF TreeInv
<1>1. /\ reading = "walk" /\ e.tag = "type" /\ Dwarf!Show(e)
      /\ reading' = (IF e.children THEN "type" ELSE "walk")
      /\ skip' = skip /\ stack' = stack /\ info' = info
  BY DEF Dwarf!TypeEntry
<1>2. /\ TreeInv'
      /\ Len(dies') = n /\ \A j \in 1..Len(dies) : dies'[j] = dies[j]
      /\ dies'[n] = [tag |-> e.tag, named |-> e.named, up |-> open]
      /\ e.children \in BOOLEAN
  BY <1>0, <1>1, Shown
<1>3. /\ stack' \in Seq([tag : Tags, name : Nat])
      /\ Len(open) \in Nat /\ Len(stack) \in Nat /\ Len(stack) <= Len(open)
      /\ Len(open') = IF e.children THEN Len(open) + 1 ELSE Len(open)
      /\ \A k \in 1..Len(stack) :
            /\ stack'[k].tag = dies'[open'[k]].tag /\ stack'[k].tag # "type"
            /\ stack'[k].name = Dwarf!Name(open[k])'
      /\ e.children => dies'[open'[Len(open) + 1]].tag = e.tag
  BY <1>1, FramesStay
<1>4. Len(open) = Len(stack) /\ skip = 0
  BY <1>1 DEF FrameInv
<1>5. FrameInv'
  <2>1. CASE e.children
    <3>1. reading' = "type" /\ skip' = 0 /\ Len(stack') = Len(stack)
      BY <1>1, <1>4, <2>1
    <3>2. Len(open') = Len(stack') + 1 + skip'
      BY <1>3, <1>4, <2>1, <3>1
    <3>3. dies'[open'[Len(stack') + 1]].tag = "type"
      BY <1>1, <1>3, <1>4, <2>1, <3>1
    <3>4. \A k \in 1..Len(open') : k > Len(stack') + 1 => dies'[open'[k]].tag = "method"
      BY <1>3, <3>1, <3>2
    <3> QED
      BY <1>1, <1>3, <3>1, <3>2, <3>3, <3>4 DEF FrameInv
  <2>2. CASE ~e.children
    <3>1. reading' = "walk" /\ skip' = 0 /\ Len(stack') = Len(stack) /\ Len(open') = Len(stack')
      BY <1>1, <1>3, <1>4, <2>2
    <3> QED
      BY <1>1, <1>3, <3>1 DEF FrameInv
  <2> QED
    BY <1>2, <2>1, <2>2
<1>6. dies'[n].up = open /\ dies'[n].tag = "type" /\ dies' \in Seq(DieRecord)
  BY <1>1, <1>2 DEF TreeInv
<1>7. Dwarf!AttributionExact
  BY DEF InfoInv
<1>8. Dwarf!AttributionExact'
  BY <1>0, <1>1, <1>2, <1>6, <1>7, OneMore
<1> QED
  BY <1>1, <1>2, <1>5, <1>8 DEF InfoInv

\* An entry inside a type: what it is under, and that the walk never meets it.
LEMMA InsideType ==
    ASSUME TreeInv, FrameInv, reading = "type", NEW e \in Dwarf!Entries, Dwarf!Show(e),
           NEW n, n = Len(dies) + 1
    PROVE  /\ ~Dwarf!Walked(n)'
           /\ open # <<>> /\ Len(open) = Len(stack) + 1 + skip
           /\ dies'[Dwarf!Last(open)].tag = IF skip = 0 THEN "type" ELSE "method"
           /\ e.tag \in IF skip = 0 THEN {"member", "method"} ELSE {"variable"}
           /\ e.children => skip = 0 /\ e.tag = "method"
<1>1. /\ Len(dies') = n /\ \A j \in 1..Len(dies) : dies'[j] = dies[j]
      /\ dies'[n] = [tag |-> e.tag, named |-> e.named, up |-> open]
      /\ open # <<>> => e.tag \in Dwarf!Under(dies[open[Len(open)]].tag)
  BY Shown
<1>2. /\ open \in Seq(Nat) /\ Len(open) \in Nat /\ Len(stack) \in Nat /\ skip \in Nat
      /\ Len(open) = Len(stack) + 1 + skip
      /\ dies[open[Len(stack) + 1]].tag = "type"
      /\ \A k \in 1..Len(open) : k > Len(stack) + 1 => dies[open[k]].tag = "method"
  BY DEF TreeInv, FrameInv
<1>3. /\ Len(stack) + 1 \in 1..Len(open) /\ Len(open) \in 1..Len(open) /\ open # <<>>
      /\ skip = 0 => Len(open) = Len(stack) + 1
      /\ skip # 0 => Len(open) > Len(stack) + 1
  BY <1>2
<1>4. \A k \in 1..Len(open) : open[k] \in 1..Len(dies) /\ dies'[open[k]] = dies[open[k]]
  BY <1>1 DEF TreeInv
<1>5. ~Dwarf!Walked(n)'
  <2>1. dies'[n].up = open
    BY <1>1
  <2>2. open[Len(stack) + 1] \in {open[k] : k \in 1..Len(open)}
    BY <1>3
  <2>3. Dwarf!Up(n)' = {open[k] : k \in 1..Len(open)}
    <3>1. DOMAIN open = 1..Len(open)
      BY <1>2
    <3>2. Dwarf!Up(n)' = {dies'[n].up[k] : k \in DOMAIN dies'[n].up}
      BY DEF Dwarf!Up, Dwarf!ToSet
    <3> QED
      BY <2>1, <3>1, <3>2
  <2>4. dies'[open[Len(stack) + 1]].tag = "type"
    BY <1>2, <1>3, <1>4
  <2> QED
    BY <2>2, <2>3, <2>4 DEF Dwarf!Walked
<1>6. dies[open[Len(open)]].tag = IF skip = 0 THEN "type" ELSE "method"
  BY <1>2, <1>3
<1>7. dies'[Dwarf!Last(open)].tag = IF skip = 0 THEN "type" ELSE "method"
  BY <1>3, <1>4, <1>6 DEF Dwarf!Last
<1>8. e.tag \in IF skip = 0 THEN {"member", "method"} ELSE {"variable"}
  <2>1. Dwarf!Under("type") = {"member", "method"} /\ Dwarf!Under("method") = {"variable"}
    BY DEF Dwarf!Under
  <2> QED
    BY <1>1, <1>3, <1>6, <2>1
<1>9. e.tag \in {"member", "variable"} => e.children = FALSE
  BY DEF Dwarf!Entries
<1> QED
  BY <1>2, <1>3, <1>5, <1>7, <1>8, <1>9

\* The loop of parseStruct and parseEnum.
LEMMA TypeChildStep ==
    ASSUME TreeInv, FrameInv, InfoInv, NEW e \in Dwarf!Entries, Dwarf!TypeChild(e)
    PROVE  TreeInv' /\ FrameInv' /\ InfoInv'
<1>0. PICK n \in Nat : n = Len(dies) + 1
  BY DEF TreeInv
<1>1. /\ reading = "type" /\ skip = 0 /\ Dwarf!Show(e)
      /\ info' = (IF e.tag = "member"
                  THEN [info EXCEPT !.members = @ \cup {<<Dwarf!Last(open), n>>}] ELSE info)
      /\ skip' = (IF e.children THEN 1 ELSE 0)
      /\ reading' = reading /\ stack' = stack
  BY <1>0 DEF Dwarf!TypeChild
<1>2. /\ TreeInv'
      /\ Len(dies') = n /\ \A j \in 1..Len(dies) : dies'[j] = dies[j]
      /\ dies'[n] = [tag |-> e.tag, named |-> e.named, up |-> open]
      /\ e.children \in BOOLEAN
  BY <1>0, <1>1, Shown
<1>3. /\ stack' \in Seq([tag : Tags, name : Nat])
      /\ Len(open) \in Nat /\ Len(stack) \in Nat /\ Len(stack) <= Len(open)
      /\ Len(open') = IF e.children THEN Len(open) + 1 ELSE Len(open)
      /\ \A k \in 1..Len(stack) :
            /\ stack'[k].tag = dies'[open'[k]].tag /\ stack'[k].tag # "type"
            /\ stack'[k].name = Dwarf!Name(open[k])'
      /\ \A k \in 1..Len(open) :
            /\ open'[k] = open[k] /\ open[k] \in 1..Len(dies)
            /\ dies'[open[k]].tag = dies[open[k]].tag
      /\ e.children => dies'[open'[Len(open) + 1]].tag = e.tag
  BY <1>1, FramesStay
<1>4. /\ ~Dwarf!Walked(n)'
      /\ open # <<>> /\ Len(open) = Len(stack) + 1
      /\ dies'[Dwarf!Last(open)].tag = "type"
      /\ e.tag \in {"member", "method"}
      /\ e.children => e.tag = "method"
  BY <1>0, <1>1, <1>3, InsideType
<1>5. dies[open[Len(stack) + 1]].tag = "type"
  BY <1>1 DEF FrameInv
<1>6. FrameInv'
  <2>1. Len(stack') = Len(stack) /\ Len(stack) + 1 \in 1..Len(open) /\ reading' = "type"
    BY <1>1, <1>3, <1>4
  <2>2. dies'[open'[Len(stack') + 1]].tag = "type"
    BY <1>3, <1>5, <2>1
  <2>3. skip' \in Nat /\ Len(open') = Len(stack') + 1 + skip'
    BY <1>1, <1>2, <1>3, <1>4, <2>1
  <2>4. ASSUME NEW k \in 1..Len(open'), k > Len(stack') + 1 PROVE dies'[open'[k]].tag = "method"
    <3>1. e.children /\ k = Len(open) + 1
      BY <1>3, <1>4, <2>1, <2>4
    <3> QED
      BY <1>3, <1>4, <3>1
  <2>5. Len(stack') <= Len(open')
    BY <1>3, <2>1
  <2> QED
    BY <1>1, <1>3, <2>1, <2>2, <2>3, <2>4, <2>5 DEF FrameInv
<1>7. dies'[n].up = open /\ dies'[n].tag = e.tag /\ dies' \in Seq(DieRecord)
  BY <1>2 DEF TreeInv
<1>8. /\ info = [functions |-> info.functions, instances |-> info.instances, sites |-> info.sites,
                 variables |-> info.variables, members |-> info.members]
      /\ Dwarf!AttributionExact
  BY DEF InfoInv
<1>9. /\ info' = [functions |-> info.functions, instances |-> info.instances, sites |-> info.sites,
                  variables |-> info.variables, members |-> info'.members]
      /\ info'.members = info.members
             \cup (IF e.tag = "member" THEN {<<Dwarf!Last(open), n>>} ELSE {})
  <2> DEFINE A == info.functions
             B == info.instances
             C == info.sites
             D == info.variables
             M == info.members
             m == <<Dwarf!Last(open), n>>
  <2>1. info = [functions |-> A, instances |-> B, sites |-> C, variables |-> D, members |-> M]
    BY <1>8
  <2>2. info' = IF e.tag = "member" THEN [info EXCEPT !.members = @ \cup {m}] ELSE info
    BY <1>1
  <2> HIDE DEF m
  <2>3. CASE e.tag = "member"
    <3>1. info' = [functions |-> A, instances |-> B, sites |-> C, variables |-> D, members |-> M \cup {m}]
      BY <2>1, <2>2, <2>3
    <3> QED
      BY <2>3, <3>1 DEF m
  <2>4. CASE e.tag # "member"
    BY <2>1, <2>2, <2>4
  <2> QED
    BY <2>3, <2>4
<1>10. /\ info'.functions = info.functions /\ info'.instances = info.instances
       /\ info'.sites = info.sites /\ info'.variables = info.variables
  BY <1>9
<1>11. info'.members = info.members
           \cup {<<Dwarf!Last(open), j>> : j \in {j \in {n} :
                    /\ dies'[n].tag = "member" /\ open # <<>>
                    /\ dies'[Dwarf!Last(open)].tag = "type"}}
  BY <1>4, <1>7, <1>9
<1>12. Dwarf!AttributionExact'
  BY <1>0, <1>2, <1>4, <1>7, <1>8, <1>10, <1>11, OneMore
<1>13. info' = [functions |-> info'.functions, instances |-> info'.instances, sites |-> info'.sites,
                variables |-> info'.variables, members |-> info'.members]
  BY <1>9, <1>10
<1> QED
  BY <1>2, <1>6, <1>12, <1>13 DEF InfoInv

\* SkipChildren, below a method.
LEMMA SkippedStep ==
    ASSUME TreeInv, FrameInv, InfoInv, NEW e \in Dwarf!Entries, Dwarf!Skipped(e)
    PROVE  TreeInv' /\ FrameInv' /\ InfoInv'
<1>0. PICK n \in Nat : n = Len(dies) + 1
  BY DEF TreeInv
<1>1. /\ reading = "type" /\ skip # 0 /\ skip \in Nat /\ Dwarf!Show(e)
      /\ skip' = (IF e.children THEN skip + 1 ELSE skip)
      /\ reading' = reading /\ stack' = stack /\ info' = info
  BY DEF Dwarf!Skipped, FrameInv
<1>2. /\ TreeInv'
      /\ Len(dies') = n /\ \A j \in 1..Len(dies) : dies'[j] = dies[j]
      /\ dies'[n] = [tag |-> e.tag, named |-> e.named, up |-> open]
      /\ e.children \in BOOLEAN
      /\ ~e.children => open' = open
  BY <1>0, <1>1, Shown
<1>3. /\ stack' \in Seq([tag : Tags, name : Nat])
      /\ Len(open) \in Nat /\ Len(stack) \in Nat /\ Len(stack) <= Len(open)
      /\ \A k \in 1..Len(stack) :
            /\ stack'[k].tag = dies'[open'[k]].tag /\ stack'[k].tag # "type"
            /\ stack'[k].name = Dwarf!Name(open[k])'
      /\ \A k \in 1..Len(open) :
            /\ open'[k] = open[k] /\ open[k] \in 1..Len(dies)
            /\ dies'[open[k]].tag = dies[open[k]].tag
  BY <1>1, FramesStay
<1>4. /\ ~Dwarf!Walked(n)'
      /\ Len(open) = Len(stack) + 1 + skip
      /\ dies'[Dwarf!Last(open)].tag = "method"
      /\ e.tag = "variable" /\ ~e.children
  BY <1>0, <1>1, <1>2, InsideType
<1>5. /\ dies[open[Len(stack) + 1]].tag = "type"
      /\ \A k \in 1..Len(open) : k > Len(stack) + 1 => dies[open[k]].tag = "method"
  BY <1>1 DEF FrameInv
<1>6. skip' = skip /\ open' = open
  BY <1>1, <1>2, <1>4
<1>7. FrameInv'
  <2>1. Len(stack) + 1 \in 1..Len(open)
    BY <1>1, <1>3, <1>4
  <2>2. dies'[open'[Len(stack') + 1]].tag = "type"
    BY <1>1, <1>3, <1>5, <2>1
  <2>3. \A k \in 1..Len(open') : k > Len(stack') + 1 => dies'[open'[k]].tag = "method"
    BY <1>1, <1>3, <1>5, <1>6
  <2> QED
    BY <1>1, <1>3, <1>4, <1>6, <2>2, <2>3 DEF FrameInv
<1>8. dies'[n].up = open /\ dies'[n].tag = "variable" /\ dies' \in Seq(DieRecord)
  BY <1>2, <1>4 DEF TreeInv
<1>9. Dwarf!AttributionExact
  BY DEF InfoInv
<1>10. Dwarf!AttributionExact'
  BY <1>0, <1>1, <1>2, <1>4, <1>8, <1>9, OneMore
<1> QED
  BY <1>1, <1>2, <1>7, <1>10 DEF InfoInv

\* Closing a list of children takes the innermost entry from the chain.
LEMMA ClosedTree ==
    ASSUME TreeInv, dies' = dies, open' \in Seq(Nat), Len(open) # 0, Len(open') = Len(open) - 1,
           \A k \in 1..(Len(open) - 1) : open'[k] = open[k]
    PROVE  TreeInv'
<1>1. Len(open) \in Nat
  BY DEF TreeInv
<1>2. \A k \in 1..Len(open') : k \in 1..Len(open) /\ open'[k] = open[k]
  BY <1>1
<1>3. /\ \A k \in 1..Len(open) : open[k] \in 1..Len(dies)
      /\ \A j, k \in 1..Len(open) : j < k => open[j] < open[k]
      /\ \A k \in 1..Len(open) : dies[open[k]].tag = "cu" <=> k = 1
  BY DEF TreeInv
<1>4. /\ \A k \in 1..Len(open') : open'[k] \in 1..Len(dies)
      /\ \A j, k \in 1..Len(open') : j < k => open'[j] < open'[k]
      /\ \A k \in 1..Len(open') : dies[open'[k]].tag = "cu" <=> k = 1
  BY <1>2, <1>3
<1> QED
  BY <1>4 DEF TreeInv

\* The truth and the facts are about the entries alone.
LEMMA SameFacts ==
    ASSUME InfoInv, dies' = dies, info' = info
    PROVE  InfoInv'
<1>1. \A j : Dwarf!Up(j)' = Dwarf!Up(j)
  BY DEF Dwarf!Up
<1>2. \A j : Dwarf!Enclosing(j)' = Dwarf!Enclosing(j)
  BY <1>1 DEF Dwarf!Enclosing, Dwarf!Innermost
<1>3. \A j : Dwarf!Around(j)' = Dwarf!Around(j)
  BY <1>1, <1>2 DEF Dwarf!Around
<1>4. \A j : Dwarf!NamedAround(j)' = Dwarf!NamedAround(j)
  BY <1>3 DEF Dwarf!NamedAround
<1>5. \A j : Dwarf!TrueName(Dwarf!Enclosing(j))' = Dwarf!TrueName(Dwarf!Enclosing(j))
  BY <1>2 DEF Dwarf!TrueName, Dwarf!Name
<1>6. \A j : Dwarf!TrueInstance(j)' = Dwarf!TrueInstance(j)
  BY <1>3, <1>4, <1>5 DEF Dwarf!TrueInstance, Dwarf!Innermost
<1>7. \A j : Dwarf!TrueSite(j)' = Dwarf!TrueSite(j)
  BY <1>4, <1>5 DEF Dwarf!TrueSite, Dwarf!Innermost
<1>8. \A t : Dwarf!Of(t)' = Dwarf!Of(t) /\ Dwarf!NamedOf(t)' = Dwarf!NamedOf(t)
  BY <1>1 DEF Dwarf!Of, Dwarf!NamedOf, Dwarf!Walked
<1>9. Dwarf!AttributionExact
  BY DEF InfoInv
<1>10. info.instances' = {Dwarf!TrueInstance(j)' : j \in {j \in Dwarf!Of("inlined")' :
                              dies'[j].named /\ Dwarf!TrueName(Dwarf!Enclosing(j))' # 0}}
  BY <1>5, <1>6, <1>8, <1>9 DEF Dwarf!AttributionExact
<1>11. info.sites' = {Dwarf!TrueSite(j)' : j \in Dwarf!NamedOf("callsite")'}
  BY <1>7, <1>8, <1>9 DEF Dwarf!AttributionExact
<1>12. /\ info.functions' = Dwarf!Of("subprogram")'
       /\ info.variables' = {j \in Dwarf!NamedOf("variable")' : dies'[Dwarf!Last(dies'[j].up)].tag = "cu"}
  BY <1>8, <1>9 DEF Dwarf!AttributionExact
<1>13. info.members' =
          {<<Dwarf!Last(dies'[j].up), j>> :
              j \in {j \in DOMAIN dies' : /\ dies'[j].tag = "member" /\ dies'[j].up # <<>>
                                          /\ dies'[Dwarf!Last(dies'[j].up)].tag = "type"}}
  BY <1>9 DEF Dwarf!AttributionExact
<1>14. Dwarf!AttributionExact'
  BY <1>10, <1>11, <1>12, <1>13 DEF Dwarf!AttributionExact
<1> QED
  BY <1>14 DEF InfoInv

\* The invariant of the DWARF reader holds while its state does not change.
LEMMA DwarfStill ==
    ASSUME TreeInv, FrameInv, InfoInv, UNCHANGED <<dies, open, reading, skip, stack, info>>
    PROVE  TreeInv' /\ FrameInv' /\ InfoInv'
<1>1. TreeInv'
  BY DEF TreeInv
<1>2. FrameInv'
  BY DEF FrameInv, Dwarf!Name
<1> QED
  BY <1>1, <1>2, SameFacts

\* The null entry of the walk pops the frame of what it closes.
LEMMA PopStep ==
    ASSUME TreeInv, FrameInv, InfoInv, Dwarf!Pop
    PROVE  TreeInv' /\ FrameInv' /\ InfoInv'
<1>1. /\ reading = "walk" /\ open # <<>> /\ open' = Dwarf!Front(open)
      /\ dies' = dies /\ info' = info
      /\ stack' = (IF stack = <<>> THEN stack ELSE Dwarf!Front(stack))
      /\ reading' = reading /\ skip' = skip
  BY DEF Dwarf!Pop, Dwarf!Close
<1>2. /\ open \in Seq(Nat) /\ stack \in Seq([tag : Tags, name : Nat])
      /\ Len(open) = Len(stack) /\ skip = 0
  BY <1>1 DEF TreeInv, FrameInv
<1>3. Len(open) \in Nat /\ Len(open) # 0 /\ stack # <<>>
  BY <1>1, <1>2
<1>4. /\ open' \in Seq(Nat) /\ Len(open') = Len(open) - 1
      /\ \A k \in 1..(Len(open) - 1) : open'[k] = open[k]
  BY <1>1, <1>2, <1>3, SMTT(30) DEF Dwarf!Front
<1>5. /\ stack' \in Seq([tag : Tags, name : Nat]) /\ Len(stack') = Len(stack) - 1
      /\ \A k \in 1..(Len(stack) - 1) : stack'[k] = stack[k]
  <2> DEFINE F == [tag : Tags, name : Nat]
  <2> HIDE DEF F
  <2>1. stack \in Seq(F) /\ Len(stack) \in Nat /\ Len(stack) # 0 /\ stack' = Dwarf!Front(stack)
    BY <1>1, <1>2, <1>3 DEF F
  <2>2. stack' = [k \in 1..(Len(stack) - 1) |-> stack[k]]
    BY <2>1 DEF Dwarf!Front
  <2>3. \A k \in 1..(Len(stack) - 1) : stack[k] \in F
    BY <2>1
  <2>4. /\ stack' \in Seq(F) /\ Len(stack') = Len(stack) - 1
        /\ \A k \in 1..(Len(stack) - 1) : stack'[k] = stack[k]
    BY <2>1, <2>2, <2>3
  <2> QED
    BY <2>4 DEF F
<1>6. TreeInv'
  BY <1>1, <1>3, <1>4, ClosedTree
<1>7. \A k \in 1..(Len(stack) - 1) :
         /\ stack[k].tag = dies[open[k]].tag /\ stack[k].tag # "type"
         /\ stack[k].name = Dwarf!Name(open[k])
  BY <1>2, <1>3 DEF FrameInv
<1>8. \A k \in 1..Len(stack') :
         /\ stack'[k].tag = dies'[open'[k]].tag /\ stack'[k].tag # "type"
         /\ stack'[k].name = IF dies'[open'[k]].named THEN open'[k] ELSE 0
  <2> SUFFICES ASSUME NEW k \in 1..Len(stack')
               PROVE  /\ stack'[k].tag = dies'[open'[k]].tag /\ stack'[k].tag # "type"
                      /\ stack'[k].name = IF dies'[open'[k]].named THEN open'[k] ELSE 0
    OBVIOUS
  <2>1. k \in 1..(Len(stack) - 1) /\ k \in 1..(Len(open) - 1)
    BY <1>2, <1>3, <1>5
  <2>2. stack'[k] = stack[k] /\ open'[k] = open[k] /\ dies' = dies
    BY <1>1, <1>4, <1>5, <2>1
  <2> QED
    BY <1>7, <2>1, <2>2 DEF Dwarf!Name
<1>9. Len(open') = Len(stack') /\ skip' = 0 /\ reading' = "walk" /\ Len(stack') \in Nat
  BY <1>1, <1>2, <1>3, <1>4, <1>5
<1>10. FrameInv'
  BY <1>5, <1>8, <1>9 DEF FrameInv, Dwarf!Name
<1> QED
  BY <1>1, <1>6, <1>10, SameFacts

\* The null entry that ends a type's members, or what SkipChildren skips.
LEMMA TypeClosedStep ==
    ASSUME TreeInv, FrameInv, InfoInv, Dwarf!TypeClosed
    PROVE  TreeInv' /\ FrameInv' /\ InfoInv'
<1>1. /\ reading = "type" /\ open # <<>> /\ open' = Dwarf!Front(open)
      /\ dies' = dies /\ info' = info /\ stack' = stack
      /\ reading' = (IF skip = 0 THEN "walk" ELSE "type")
      /\ skip' = (IF skip = 0 THEN 0 ELSE skip - 1)
  BY DEF Dwarf!TypeClosed, Dwarf!Close
<1>2. /\ open \in Seq(Nat) /\ stack \in Seq([tag : Tags, name : Nat])
      /\ skip \in Nat /\ Len(stack) \in Nat /\ Len(open) \in Nat
      /\ Len(open) = Len(stack) + 1 + skip
      /\ dies[open[Len(stack) + 1]].tag = "type"
      /\ \A k \in 1..Len(open) : k > Len(stack) + 1 => dies[open[k]].tag = "method"
  BY <1>1 DEF TreeInv, FrameInv
<1>3. Len(open) # 0
  BY <1>2
<1>4. /\ open' \in Seq(Nat) /\ Len(open') = Len(open) - 1
      /\ \A k \in 1..(Len(open) - 1) : open'[k] = open[k]
  BY <1>1, <1>2, <1>3, SMTT(30) DEF Dwarf!Front
<1>5. TreeInv'
  BY <1>1, <1>3, <1>4, ClosedTree
<1>6. \A k \in 1..Len(stack) :
         /\ stack[k].tag = dies[open[k]].tag /\ stack[k].tag # "type"
         /\ stack[k].name = Dwarf!Name(open[k])
  BY DEF FrameInv
<1>7. \A k \in 1..Len(stack) : k \in 1..(Len(open) - 1) /\ open'[k] = open[k]
  <2>1. skip \in Nat /\ Len(stack) \in Nat /\ Len(open) = Len(stack) + 1 + skip
    BY <1>2
  <2>2. \A k \in 1..Len(stack) : k \in 1..(Len(open) - 1)
    BY <2>1
  <2> QED
    BY <1>4, <2>2
<1>8. \A k \in 1..Len(stack') :
         /\ stack'[k].tag = dies'[open'[k]].tag /\ stack'[k].tag # "type"
         /\ stack'[k].name = IF dies'[open'[k]].named THEN open'[k] ELSE 0
  BY <1>1, <1>6, <1>7 DEF Dwarf!Name
<1>9. FrameInv'
  <2>1. CASE skip = 0
    <3>1. /\ Len(open') = Len(stack') /\ skip' = 0 /\ reading' = "walk"
          /\ stack' \in Seq([tag : Tags, name : Nat]) /\ Len(stack') <= Len(open')
      BY <1>1, <1>2, <1>4, <2>1
    <3> QED
      BY <1>8, <3>1 DEF FrameInv, Dwarf!Name
  <2>2. CASE skip # 0
    <3>0. /\ skip' = skip - 1 /\ Len(stack') = Len(stack) /\ Len(open') = Len(open) - 1
          /\ skip \in Nat /\ Len(stack) \in Nat /\ Len(open) = Len(stack) + 1 + skip
      BY <1>1, <1>2, <1>4, <2>2
    <3>1. /\ Len(open') = Len(stack') + 1 + skip' /\ skip' \in Nat /\ reading' = "type"
          /\ stack' \in Seq([tag : Tags, name : Nat]) /\ Len(stack') <= Len(open')
      <4>1. Len(open') = Len(stack') + 1 + skip' /\ skip' \in Nat /\ Len(stack') <= Len(open')
        BY <2>2, <3>0
      <4>2. reading' = "type" /\ stack' \in Seq([tag : Tags, name : Nat])
        BY <1>1, <1>2, <2>2
      <4> QED
        BY <4>1, <4>2
    <3>2. Len(stack) + 1 \in 1..(Len(open) - 1)
      BY <1>2, <2>2
    <3>3. dies'[open'[Len(stack') + 1]].tag = "type"
      BY <1>1, <1>2, <1>4, <3>2
    <3>4. \A k \in 1..Len(open') : k > Len(stack') + 1 => dies'[open'[k]].tag = "method"
      BY <1>1, <1>2, <1>4, SMTT(30)
    <3> QED
      BY <1>8, <3>1, <3>3, <3>4 DEF FrameInv, Dwarf!Name
  <2> QED
    BY <2>1, <2>2
<1> QED
  BY <1>1, <1>5, <1>9, SameFacts

\* Every step of the DWARF reader keeps its invariant.
LEMMA DwarfSteps ==
    ASSUME TreeInv, FrameInv, InfoInv, Dwarf!Next
    PROVE  TreeInv' /\ FrameInv' /\ InfoInv'
<1>1. ASSUME NEW e \in Dwarf!Entries,
             Dwarf!Entry(e) \/ Dwarf!TypeEntry(e) \/ Dwarf!TypeChild(e) \/ Dwarf!Skipped(e)
      PROVE  TreeInv' /\ FrameInv' /\ InfoInv'
  BY <1>1, EntryStep, TypeEntryStep, TypeChildStep, SkippedStep
<1>2. CASE Dwarf!Pop
  BY <1>2, PopStep
<1>3. CASE Dwarf!TypeClosed
  BY <1>3, TypeClosedStep
<1>4. CASE Dwarf!End
  <2>1. /\ reading = "walk" /\ reading' = "done"
        /\ UNCHANGED <<dies, open, skip, stack, info>>
    BY <1>4 DEF Dwarf!End
  <2>2. TreeInv'
    BY <2>1 DEF TreeInv
  <2>3. FrameInv'
    BY <2>1 DEF FrameInv, Dwarf!Name
  <2> QED
    BY <2>1, <2>2, <2>3, SameFacts
<1>5. CASE Dwarf!Done
  BY <1>5, DwarfStill DEF Dwarf!Done, Dwarf!vars
<1> QED
  BY <1>1, <1>2, <1>3, <1>4, <1>5 DEF Dwarf!Next

\* It holds before the first entry.
LEMMA DwarfInitially == Init => DwarfIInv
<1>1. SUFFICES ASSUME Init, turn = "dwarf" PROVE TreeInv /\ FrameInv /\ InfoInv
  BY DEF DwarfIInv
<1>2. /\ dies = <<>> /\ open = <<>> /\ reading = "walk" /\ skip = 0 /\ stack = <<>>
      /\ info = [functions |-> {}, instances |-> {}, sites |-> {}, variables |-> {}, members |-> {}]
  BY <1>1 DEF Init, Dwarf!Init
<1>3. TreeInv
  BY <1>2 DEF TreeInv
<1>4. FrameInv
  BY <1>2 DEF FrameInv
<1>5. InfoInv
  <2>1. DOMAIN dies = {} /\ \A t : Dwarf!Of(t) = {} /\ Dwarf!NamedOf(t) = {}
    BY <1>2 DEF Dwarf!Of, Dwarf!NamedOf
  <2>2. /\ info.functions = {} /\ info.instances = {} /\ info.sites = {}
        /\ info.variables = {} /\ info.members = {}
    BY <1>2
  <2>3. Dwarf!AttributionExact
    BY <2>1, <2>2 DEF Dwarf!AttributionExact
  <2> QED
    BY <1>2, <2>3 DEF InfoInv
<1> QED
  BY <1>3, <1>4, <1>5

\* Every step of the readers keeps it.
LEMMA DwarfStep ==
    ASSUME DwarfIInv, [Next]_vars
    PROVE  DwarfIInv'
<1>1. turn' = turn
  BY DEF Next, vars, ReadLog, ReadMap, ParseCgraph, FilterTargets, ParseIpaDump, ReadDwarf, ParseCallSite
<1>2. SUFFICES ASSUME turn = "dwarf" PROVE TreeInv' /\ FrameInv' /\ InfoInv'
  BY <1>1 DEF DwarfIInv
<1>3. TreeInv /\ FrameInv /\ InfoInv
  BY <1>2 DEF DwarfIInv
<1>4. CASE ReadDwarf
  BY <1>3, <1>4, DwarfSteps DEF ReadDwarf
<1>5. CASE UNCHANGED vars
  BY <1>3, <1>5, DwarfStill DEF vars, dwarf
<1> QED
  BY <1>2, <1>4, <1>5 DEF Next, ReadLog, ReadMap, ParseCgraph, FilterTargets, ParseIpaDump, ParseCallSite

\* For every object, of any size and nesting, every function, inlined copy, call
\* site, global and member that dwarfingest.Read returns is filed under what really
\* encloses it and none is missing: the reader's stack and the tree never come
\* apart, also around types local to a function and their methods (reader.go Read).
THEOREM EntriesAlwaysFiled == Spec => []EntriesFiled
<1>1. DwarfIInv => EntriesFiled
  BY DEF DwarfIInv, InfoInv, EntriesFiled
<1> QED
  BY <1>1, DwarfInitially, DwarfStep, PTL DEF Spec
=============================================================================
