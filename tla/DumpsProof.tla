----------------------------- MODULE DumpsProof -----------------------------
(***************************************************************************)
(* What the readers of GCC's dumps and GNU ld's maps promise, and what     *)
(* resolve_indirect_call makes of the debugging information of a call,     *)
(* proved for every input.  ReadersProof has the other readers.            *)
(***************************************************************************)
EXTENDS Readers, Lemmas

-----------------------------------------------------------------------------
(* ParseCgraph.  The printings of a dump d, so that a dump and a longer    *)
(* one can be compared.                                                    *)

BodyIn(d, k) == {j \in k + 1..Len(d) : \A m \in k + 1..j : d[m].kind \in Dump!Detail}

SaidIn(d, k) ==
    UNION {{<<j, n>> : n \in DOMAIN d[j].list} : j \in {j \in BodyIn(d, k) : d[j].kind = "calls"}}

\* The calls on the lines above j.
AboveIn(d, k, j) == {b \in SaidIn(d, k) : b[1] < j}

ListsIn(d, out, k) ==
    /\ DOMAIN out = 1..Cardinality(SaidIn(d, k))
    /\ \A c \in SaidIn(d, k) :
          out[Cardinality(AboveIn(d, k, c[1])) + c[2]] = d[c[1]].list[c[2]]

FlagsIn(d, k) == {d[j].flag : j \in {j \in BodyIn(d, k) : d[j].kind = "flag"}}

\* A line that is not a symbol's has ended the printing.
Closed(d, k) == \E m \in k + 1..Len(d) : d[m].kind \notin Dump!Detail

\* A line is of the kind it says.
LEMMA DumpLine ==
    ASSUME NEW l \in Dump!Lines
    PROVE  /\ l.kind = "header" => l \in Dump!Headers
           /\ l.kind = "calls" => l \in Dump!CallLines
           /\ l.kind = "flag" => l \in Dump!FlagLines
  BY DEF Dump!Lines, Dump!Headers, Dump!Breaks, Dump!Needed, Dump!FlagLines, Dump!CloneLines,
         Dump!CallLines, Dump!Ignored

\* One more line, and the printing at k.
LEMMA BodyGrows ==
    ASSUME NEW L, NEW d \in Seq(L), NEW e \in L, NEW k \in 1..Len(d)
    PROVE  LET D == Append(d, e) IN
           /\ Closed(d, k) => Closed(D, k)
           /\ e.kind \notin Dump!Detail => Closed(D, k)
           /\ e.kind \in Dump!Detail /\ ~Closed(d, k) => ~Closed(D, k)
           /\ Closed(d, k) \/ e.kind \notin Dump!Detail => BodyIn(D, k) = BodyIn(d, k)
           /\ ~Closed(d, k) /\ e.kind \in Dump!Detail => BodyIn(D, k) = BodyIn(d, k) \cup {Len(d) + 1}
           /\ \A j \in BodyIn(d, k) : j \in 1..Len(d) /\ D[j] = d[j]
           /\ D[Len(d) + 1] = e
<1> DEFINE D == Append(d, e)
           isD(x) == x.kind \in Dump!Detail
<1>1. /\ Len(d) \in Nat /\ Len(D) = Len(d) + 1 /\ D[Len(d) + 1] = e
      /\ \A j \in 1..Len(d) : D[j] = d[j]
  OBVIOUS
<1> HIDE DEF D
<1>2. ASSUME NEW m \in k + 1..Len(d) PROVE m \in k + 1..Len(D) /\ D[m] = d[m]
  BY <1>1
<1>3. Closed(d, k) => Closed(D, k)
  BY <1>2 DEF Closed
<1>4. Len(d) + 1 \in k + 1..Len(D) /\ \A m \in k + 1..Len(D) : m \in k + 1..Len(d) \/ m = Len(d) + 1
  BY <1>1
<1>5. e.kind \notin Dump!Detail => Closed(D, k)
  BY <1>1, <1>4 DEF Closed
<1>6. e.kind \in Dump!Detail /\ ~Closed(d, k) => ~Closed(D, k)
  BY <1>1, <1>2, <1>4 DEF Closed
<1>7. ASSUME NEW j \in k + 1..Len(d)
      PROVE  (\A m \in k + 1..j : D[m].kind \in Dump!Detail) <=> (\A m \in k + 1..j : d[m].kind \in Dump!Detail)
  <2>1. \A m \in k + 1..j : D[m] = d[m]
    BY <1>1
  <2> QED
    BY <2>1
<1>8. ASSUME NEW j \in k + 1..Len(d) PROVE j \in BodyIn(D, k) <=> j \in BodyIn(d, k)
  BY <1>2, <1>7 DEF BodyIn
<1>9. BodyIn(d, k) \subseteq k + 1..Len(d) /\ BodyIn(D, k) \subseteq k + 1..Len(D)
  BY DEF BodyIn
<1>10. Len(d) + 1 \in BodyIn(D, k) <=> ~Closed(d, k) /\ e.kind \in Dump!Detail
  <2>1. Len(d) + 1 \in BodyIn(D, k) <=> \A m \in k + 1..Len(d) + 1 : D[m].kind \in Dump!Detail
    BY <1>4 DEF BodyIn
  <2>2. Len(d) + 1 = Len(D)
    BY <1>1
  <2> QED
    BY <1>1, <1>2, <1>4, <2>1, <2>2 DEF Closed
<1>11. Closed(d, k) \/ e.kind \notin Dump!Detail => BodyIn(D, k) = BodyIn(d, k)
  BY <1>2, <1>4, <1>8, <1>9, <1>10
<1>12. ~Closed(d, k) /\ e.kind \in Dump!Detail => BodyIn(D, k) = BodyIn(d, k) \cup {Len(d) + 1}
  BY <1>2, <1>4, <1>8, <1>9, <1>10
<1>13. \A j \in BodyIn(d, k) : j \in 1..Len(d) /\ D[j] = d[j]
  <2>1. k + 1..Len(d) \subseteq 1..Len(d)
    BY <1>1
  <2> QED
    BY <1>1, <1>9, <2>1
<1> QED
  BY <1>1, <1>3, <1>5, <1>6, <1>11, <1>12, <1>13 DEF D

\* A printing that is over says what it said.
LEMMA SameBody ==
    ASSUME NEW d, NEW D, NEW k, BodyIn(D, k) = BodyIn(d, k), \A j \in BodyIn(d, k) : D[j] = d[j]
    PROVE  /\ SaidIn(D, k) = SaidIn(d, k) /\ FlagsIn(D, k) = FlagsIn(d, k)
           /\ \A out : ListsIn(D, out, k) <=> ListsIn(d, out, k)
<1>1. SaidIn(D, k) = SaidIn(d, k)
  BY DEF SaidIn
<1>2. FlagsIn(D, k) = FlagsIn(d, k)
  BY DEF FlagsIn
<1>3. \A c \in SaidIn(d, k) : D[c[1]] = d[c[1]]
  BY DEF SaidIn
<1>4. \A j : AboveIn(D, k, j) = AboveIn(d, k, j)
  BY <1>1 DEF AboveIn
<1>5. ASSUME NEW out PROVE ListsIn(D, out, k) <=> ListsIn(d, out, k)
  BY <1>1, <1>3, <1>4 DEF ListsIn
<1> QED
  BY <1>1, <1>2, <1>5

\* A line of n calls counts n.
LEMMA LineCounts ==
    ASSUME NEW A, IsFiniteSet(A), NEW j \in Nat, \A b \in A : b[1] # j, NEW n \in Nat
    PROVE  LET B == A \cup {<<j, r>> : r \in 1..n} IN
           /\ IsFiniteSet(B) /\ Cardinality(A) \in Nat /\ Cardinality(B) = Cardinality(A) + n
<1> DEFINE g == [r \in 1..n |-> <<j, r>>]
           C == {<<j, r>> : r \in 1..n}
<1>1. IsFiniteSet(1..n) /\ Cardinality(1..n) = n
  BY RankInterval
<1>2. \A r, s \in 1..n : g[r] = g[s] => r = s
  OBVIOUS
<1>3. {g[r] : r \in 1..n} = C
  OBVIOUS
<1> HIDE DEF g, C
<1>4. IsFiniteSet(C) /\ Cardinality(C) = n
  BY <1>1, <1>2, <1>3, SameSize
<1>5. A \cap C = {}
  BY DEF C
<1>6. IsFiniteSet(A \cup C) /\ Cardinality(A \cup C) = Cardinality(A) + Cardinality(C) - Cardinality({})
  BY <1>4, <1>5, FS_Union
<1>7. Cardinality({}) = 0 /\ Cardinality(A) \in Nat
  BY FS_EmptySet, FS_CardinalityType
<1> QED
  BY <1>4, <1>6, <1>7 DEF C

\* Two lists, one after the other.
LEMMA Concatenated ==
    ASSUME NEW A, NEW s \in Seq(A), NEW t \in Seq(A)
    PROVE  /\ s \o t \in Seq(A) /\ DOMAIN (s \o t) = 1..Len(s) + Len(t)
           /\ \A x \in 1..Len(s) : (s \o t)[x] = s[x]
           /\ \A r \in 1..Len(t) : (s \o t)[Len(s) + r] = t[r]
  OBVIOUS

\* A line of the printing that is under way.
LEMMA BodyExtends ==
    ASSUME NEW d \in Seq(Dump!Lines), NEW e \in Dump!Lines, NEW k \in 1..Len(d),
           ~Closed(d, k), e.kind \in Dump!Detail,
           CallListsAssumption, IsFiniteSet(SaidIn(d, k)),
           NEW out \in Seq(Callees), ListsIn(d, out, k)
    PROVE  LET D == Append(d, e) IN
           /\ FlagsIn(D, k) = FlagsIn(d, k) \cup IF e.kind = "flag" THEN {e.flag} ELSE {}
           /\ IsFiniteSet(SaidIn(D, k))
           /\ e.kind # "calls" => ListsIn(D, out, k)
           /\ e.kind = "calls" => ListsIn(D, out \o e.list, k)
<1> DEFINE D == Append(d, e)
           new == Len(d) + 1
<1>1. /\ BodyIn(D, k) = BodyIn(d, k) \cup {new} /\ D[new] = e
      /\ \A j \in BodyIn(d, k) : j \in 1..Len(d) /\ D[j] = d[j]
      /\ Len(d) \in Nat /\ new \in Nat
  BY BodyGrows
<1> HIDE DEF D
<1>2. FlagsIn(D, k) = FlagsIn(d, k) \cup IF e.kind = "flag" THEN {e.flag} ELSE {}
  <2>1. {j \in BodyIn(D, k) : D[j].kind = "flag"} =
            {j \in BodyIn(d, k) : d[j].kind = "flag"} \cup IF e.kind = "flag" THEN {new} ELSE {}
    BY <1>1
  <2> QED
    BY <1>1, <2>1 DEF FlagsIn
<1>3. ASSUME e.kind # "calls"
      PROVE  SaidIn(D, k) = SaidIn(d, k) /\ ListsIn(D, out, k)
  <2>1. {j \in BodyIn(D, k) : D[j].kind = "calls"} = {j \in BodyIn(d, k) : d[j].kind = "calls"}
    BY <1>1, <1>3
  <2>2. SaidIn(D, k) = SaidIn(d, k)
    BY <1>1, <2>1 DEF SaidIn
  <2>3. \A c \in SaidIn(d, k) : D[c[1]] = d[c[1]]
    BY <1>1 DEF SaidIn
  <2>4. \A j : AboveIn(D, k, j) = AboveIn(d, k, j)
    BY <2>2 DEF AboveIn
  <2>5. ListsIn(D, out, k)
    BY <2>2, <2>3, <2>4 DEF ListsIn
  <2> QED
    BY <2>2, <2>5
<1>4. ASSUME e.kind = "calls"
      PROVE  IsFiniteSet(SaidIn(D, k)) /\ ListsIn(D, out \o e.list, k)
  <2> DEFINE n == Len(e.list)
             line == {<<new, r>> : r \in 1..n}
  <2>1. e.list \in Seq(Callees) /\ DOMAIN e.list = 1..n /\ n \in Nat
    BY <1>4, DumpLine DEF Dump!CallLines, CallListsAssumption
  <2>2. SaidIn(D, k) = SaidIn(d, k) \cup line
    <3>1. {j \in BodyIn(D, k) : D[j].kind = "calls"} = {j \in BodyIn(d, k) : d[j].kind = "calls"} \cup {new}
      BY <1>1, <1>4
    <3>2. DOMAIN D[new].list = 1..n
      BY <1>1, <2>1
    <3> DEFINE ls == {j \in BodyIn(d, k) : d[j].kind = "calls"}
               Ls == {j \in BodyIn(D, k) : D[j].kind = "calls"}
    <3>3. \A q : q \in SaidIn(d, k) <=> \E j \in ls : \E r \in DOMAIN d[j].list : q = <<j, r>>
      BY DEF SaidIn
    <3>4. \A q : q \in SaidIn(D, k) <=> \E j \in Ls : \E r \in DOMAIN D[j].list : q = <<j, r>>
      BY DEF SaidIn
    <3>5. \A j \in ls : D[j] = d[j]
      BY <1>1
    <3>6. \A q : q \in line <=> \E r \in 1..n : q = <<new, r>>
      OBVIOUS
    <3>7. Ls = ls \cup {new}
      BY <3>1
    <3> HIDE DEF n, new, ls, Ls, line
    <3>8. ASSUME NEW q PROVE q \in SaidIn(D, k) <=> q \in SaidIn(d, k) \/ q \in line
      <4>1. ASSUME q \in SaidIn(D, k) PROVE q \in SaidIn(d, k) \/ q \in line
        <5>1. PICK j \in Ls : \E r \in DOMAIN D[j].list : q = <<j, r>>
          BY <3>4, <4>1
        <5>2. CASE j = new
          BY <3>2, <3>6, <5>1, <5>2
        <5>3. CASE j \in ls
          BY <3>3, <3>5, <5>1, <5>3
        <5> QED
          BY <3>7, <5>2, <5>3
      <4>2. ASSUME q \in SaidIn(d, k) PROVE q \in SaidIn(D, k)
        <5>1. PICK j \in ls : \E r \in DOMAIN d[j].list : q = <<j, r>>
          BY <3>3, <4>2
        <5> QED
          BY <3>4, <3>5, <3>7, <5>1
      <4>3. ASSUME q \in line PROVE q \in SaidIn(D, k)
        BY <3>2, <3>4, <3>6, <3>7, <4>3
      <4> QED
        BY <4>1, <4>2, <4>3
    <3> QED
      BY <3>8
  <2>3. \A c \in SaidIn(d, k) : c[1] \in BodyIn(d, k) /\ c[2] \in DOMAIN d[c[1]].list /\ c = <<c[1], c[2]>>
                              /\ d[c[1]].kind = "calls"
    BY DEF SaidIn
  <2>4. \A c \in SaidIn(d, k) : c[1] \in 1..Len(d) /\ c[1] < new /\ D[c[1]] = d[c[1]]
    BY <1>1, <2>3
  <2>5. /\ IsFiniteSet(SaidIn(D, k)) /\ Cardinality(SaidIn(d, k)) \in Nat
        /\ Cardinality(SaidIn(D, k)) = Cardinality(SaidIn(d, k)) + n
    <3>1. \A c \in SaidIn(d, k) : c[1] # new
      BY <1>1, <2>4
    <3> HIDE DEF n, new
    <3> QED
      BY <1>1, <2>1, <2>2, <3>1, LineCounts
  <2>6. ASSUME NEW c \in SaidIn(d, k)
        PROVE  /\ AboveIn(D, k, c[1]) = AboveIn(d, k, c[1])
               /\ c[2] \in Nat /\ c[2] >= 1
               /\ Cardinality(AboveIn(d, k, c[1])) \in Nat
               /\ Cardinality(AboveIn(d, k, c[1])) + c[2] <= Cardinality(SaidIn(d, k))
    <3>1. \A b \in line : ~(b[1] < c[1])
      BY <1>1, <2>4
    <3>2. AboveIn(D, k, c[1]) = AboveIn(d, k, c[1])
      BY <2>2, <3>1 DEF AboveIn
    <3>3. d[c[1]] \in Dump!Lines /\ d[c[1]].kind = "calls"
      BY <2>3, <2>4
    <3>4. d[c[1]].list \in Seq(Callees)
      BY <3>3, DumpLine DEF Dump!CallLines, CallListsAssumption
    <3>5. c[2] \in Nat /\ c[2] >= 1 /\ 1..c[2] \subseteq DOMAIN d[c[1]].list
      BY <2>3, <3>4
    <3>6. AboveIn(d, k, c[1]) \subseteq SaidIn(d, k) /\ \A b \in AboveIn(d, k, c[1]) : b[1] # c[1]
      BY <1>1, <2>4 DEF AboveIn
    <3> DEFINE upto == {<<c[1], r>> : r \in 1..c[2]}
    <3>7. upto \subseteq SaidIn(d, k)
      BY <2>3, <3>5 DEF SaidIn
    <3>8. IsFiniteSet(AboveIn(d, k, c[1]))
      BY <3>6, FS_Subset
    <3>9. /\ IsFiniteSet(AboveIn(d, k, c[1]) \cup upto) /\ Cardinality(AboveIn(d, k, c[1])) \in Nat
          /\ Cardinality(AboveIn(d, k, c[1]) \cup upto) = Cardinality(AboveIn(d, k, c[1])) + c[2]
      <4> DEFINE a == AboveIn(d, k, c[1])
                 j == c[1]
                 m == c[2]
      <4>1. IsFiniteSet(a) /\ j \in Nat /\ m \in Nat /\ \A b \in a : b[1] # j
        BY <1>1, <2>4, <3>5, <3>6, <3>8
      <4>2. upto = {<<j, r>> : r \in 1..m}
        OBVIOUS
      <4> HIDE DEF a, j, m, upto
      <4>3. /\ IsFiniteSet(a \cup upto) /\ Cardinality(a) \in Nat
            /\ Cardinality(a \cup upto) = Cardinality(a) + m
        BY <4>1, <4>2, LineCounts
      <4> QED
        BY <4>3 DEF a, m
    <3>10. Cardinality(AboveIn(d, k, c[1]) \cup upto) <= Cardinality(SaidIn(d, k))
      BY <3>6, <3>7, FS_Subset
    <3> QED
      BY <3>2, <3>5, <3>9, <3>10
  <2>7. AboveIn(D, k, new) = SaidIn(d, k)
    <3>1. \A b \in line : ~(b[1] < new)
      BY <1>1
    <3> QED
      BY <2>2, <2>4, <3>1 DEF AboveIn
  <2> DEFINE all == out \o e.list
  <2>8. /\ Len(out) = Cardinality(SaidIn(d, k))
        /\ DOMAIN all = 1..Cardinality(SaidIn(D, k))
        /\ \A x \in 1..Len(out) : all[x] = out[x]
        /\ \A r \in 1..n : all[Len(out) + r] = e.list[r]
    <3>1. Len(out) = Cardinality(SaidIn(d, k))
      BY <2>5 DEF ListsIn
    <3> QED
      <4>1. /\ DOMAIN all = 1..Len(out) + n
            /\ \A x \in 1..Len(out) : all[x] = out[x]
            /\ \A r \in 1..n : all[Len(out) + r] = e.list[r]
        BY <2>1, Concatenated
      <4> HIDE DEF all, n
      <4> QED
        BY <2>5, <3>1, <4>1
  <2>9. ASSUME NEW c \in SaidIn(D, k)
        PROVE  all[Cardinality(AboveIn(D, k, c[1])) + c[2]] = D[c[1]].list[c[2]]
    <3>1. CASE c \in SaidIn(d, k)
      <4>1. out[Cardinality(AboveIn(d, k, c[1])) + c[2]] = d[c[1]].list[c[2]]
        BY <3>1 DEF ListsIn
      <4>2. Cardinality(AboveIn(d, k, c[1])) + c[2] \in 1..Len(out)
        BY <2>5, <2>6, <2>8, <3>1
      <4>3. all[Cardinality(AboveIn(d, k, c[1])) + c[2]] = out[Cardinality(AboveIn(d, k, c[1])) + c[2]]
        BY <2>8, <4>2
      <4> QED
        BY <2>4, <2>6, <3>1, <4>1, <4>3
    <3>2. CASE c \in line
      <4>1. PICK r \in 1..n : c = <<new, r>>
        BY <3>2
      <4>2. c[1] = new /\ c[2] = r
        BY <4>1
      <4>3. Cardinality(AboveIn(D, k, c[1])) = Len(out) /\ D[c[1]].list = e.list
        BY <1>1, <2>7, <2>8, <4>2
      <4>4. all[Len(out) + r] = e.list[r]
        BY <2>8
      <4> QED
        BY <4>2, <4>3, <4>4
    <3> QED
      BY <2>2, <3>1, <3>2
  <2>10. ListsIn(D, all, k)
    BY <2>8, <2>9 DEF ListsIn
  <2> QED
    BY <2>5, <2>10
<1> QED
  BY <1>2, <1>3, <1>4 DEF D

Printed == [id : Ids, flags : SUBSET Flags, clone : SUBSET Ids, called : Seq(Callees)]

\* out is what the latest of the longest of the printings P lists.
LatestLongest(d, out, P) ==
    \E k \in P :
        /\ ListsIn(d, out, k)
        /\ \A m \in P :
              /\ Cardinality(SaidIn(d, m)) <= Cardinality(SaidIn(d, k))
              /\ m > k => Cardinality(SaidIn(d, m)) < Cardinality(SaidIn(d, k))

\* The records S are what the printings P of a symbol amount to.
Exact(d, S, P) ==
    /\ S = {} <=> P = {}
    /\ \A k \in P : IsFiniteSet(SaidIn(d, k))
    /\ \A f \in S : f.flags = UNION {FlagsIn(d, k) : k \in P} /\ LatestLongest(d, f.called, P)

\* c is what the printing at h, the last header, says so far.
Under(d, h, c) ==
    /\ d[h].kind = "header" /\ d[h].id = c.id /\ ~Closed(d, h)
    /\ IsFiniteSet(SaidIn(d, h))
    /\ c.flags = FlagsIn(d, h) /\ ListsIn(d, c.called, h)

Heads(d, s) == {k \in 1..Len(d) : d[k].kind = "header" /\ d[k].id = s}

\* The printings of s that are over and merged.
Flushed(s) == {k \in Heads(dump, s) : cur = {} \/ Closed(dump, k)}

DumpInv ==
    /\ dump \in Seq(Dump!Lines)
    /\ symbols \in [Ids -> SUBSET Printed]
    /\ \/ cur = {} /\ \A s \in Ids : \A k \in Heads(dump, s) : Closed(dump, k) \/ Len(dump) = MaxLines
       \/ \E h \in 1..Len(dump) : \E c \in Printed : cur = {c} /\ Under(dump, h, c)
    /\ \A s \in Ids : Exact(dump, symbols[s], Flushed(s))

DumpIInv == turn = "dump" => DumpInv

\* A longer dump says the same of printings that are over.
LEMMA ExactStays ==
    ASSUME NEW L, NEW d \in Seq(L), NEW e \in L, NEW S, NEW P \in SUBSET (1..Len(d)), Exact(d, S, P),
           \A k \in P : Closed(d, k) \/ e.kind \notin Dump!Detail
    PROVE  Exact(Append(d, e), S, P)
<1> DEFINE D == Append(d, e)
<1>1. ASSUME NEW k \in P
      PROVE  /\ SaidIn(D, k) = SaidIn(d, k) /\ FlagsIn(D, k) = FlagsIn(d, k)
             /\ \A out : ListsIn(D, out, k) <=> ListsIn(d, out, k)
  <2>1. BodyIn(D, k) = BodyIn(d, k) /\ \A j \in BodyIn(d, k) : D[j] = d[j]
    BY BodyGrows
  <2> HIDE DEF D
  <2> QED
    BY <2>1, SameBody
<1> HIDE DEF D
<1>2. {FlagsIn(D, k) : k \in P} = {FlagsIn(d, k) : k \in P}
  BY <1>1
<1>3. \A out : LatestLongest(d, out, P) => LatestLongest(D, out, P)
  BY <1>1 DEF LatestLongest
<1> QED
  BY <1>1, <1>2, <1>3 DEF Exact, D

\* mergeSymbol on the first and on a later printing.
LEMMA MergeExact ==
    ASSUME NEW d, NEW S \in SUBSET Printed, NEW P \in SUBSET Nat, NEW h \in Nat, NEW c \in Printed,
           Exact(d, S, P), Under(d, h, c), \A k \in P : k < h
    PROVE  /\ Dump!MergeSymbol(S, {c}) \in SUBSET Printed
           /\ Exact(d, Dump!MergeSymbol(S, {c}), P \cup {h})
<1> DEFINE size(k) == Cardinality(SaidIn(d, k))
           T == Dump!MergeSymbol(S, {c})
<1>1. \A k \in P \cup {h} : IsFiniteSet(SaidIn(d, k)) /\ size(k) \in Nat
  BY FS_CardinalityType DEF Exact, Under
<1>2. c.called \in Seq(Callees) /\ Len(c.called) = size(h) /\ ListsIn(d, c.called, h) /\ c.flags = FlagsIn(d, h)
  BY <1>1 DEF Printed, Under, ListsIn
<1>3. UNION {FlagsIn(d, k) : k \in P \cup {h}} =
          (UNION {FlagsIn(d, k) : k \in P}) \cup FlagsIn(d, h)
  OBVIOUS
<1>4. CASE S = {}
  <2>1. P = {} /\ T = {c}
    BY <1>4 DEF Exact, Dump!MergeSymbol
  <2>2. LatestLongest(d, c.called, P \cup {h})
    BY <1>1, <1>2, <2>1 DEF LatestLongest
  <2>3. c.flags = UNION {FlagsIn(d, k) : k \in P \cup {h}}
    BY <1>2, <1>3, <2>1
  <2> HIDE DEF T
  <2> QED
    BY <1>1, <2>1, <2>2, <2>3 DEF Exact, T
<1>5. CASE S # {}
  <2>1. T = {Dump!Merge(p, o) : p \in S, o \in {c}} /\ T # {}
    BY <1>5 DEF Dump!MergeSymbol
  <2>2. ASSUME NEW p \in S
        PROVE  LET f == Dump!Merge(p, c) IN
               /\ f \in Printed
               /\ f.flags = UNION {FlagsIn(d, k) : k \in P \cup {h}}
               /\ LatestLongest(d, f.called, P \cup {h})
    <3> DEFINE f == Dump!Merge(p, c)
    <3>1. /\ p.flags \in SUBSET Flags /\ p.clone \in SUBSET Ids /\ p.called \in Seq(Callees)
          /\ c.flags \in SUBSET Flags /\ c.clone \in SUBSET Ids /\ c.id \in Ids
      BY DEF Printed
    <3>2. Dump!Richer(c.called, p.called) \in Seq(Callees)
      BY <1>2, <3>1 DEF Dump!Richer
    <3>3. /\ f \in Printed /\ f.flags = p.flags \cup c.flags
          /\ f.called = Dump!Richer(c.called, p.called)
      BY <3>1, <3>2 DEF Dump!Merge, Printed
    <3>4. f.flags = UNION {FlagsIn(d, k) : k \in P \cup {h}}
      BY <1>2, <1>3, <3>3 DEF Exact
    <3>5. PICK k \in P :
              /\ ListsIn(d, p.called, k)
              /\ \A m \in P : size(m) <= size(k) /\ (m > k => size(m) < size(k))
      BY DEF Exact, LatestLongest
    <3>6. Len(p.called) = size(k)
      BY <1>1, <3>1, <3>5 DEF ListsIn
    <3>7. CASE size(h) >= size(k)
      <4>1. f.called = c.called
        <5>1. CASE c.called = <<>>
          <6>1. Len(p.called) = 0
            BY <1>1, <1>2, <3>6, <3>7, <5>1
          <6>2. p.called = <<>>
            BY <3>1, <6>1
          <6> QED
            BY <3>3, <5>1, <6>2 DEF Dump!Richer
        <5>2. CASE c.called # <<>>
          BY <1>2, <3>3, <3>6, <3>7, <5>2 DEF Dump!Richer
        <5> QED
          BY <5>1, <5>2
      <4>2. \A m \in P \cup {h} : size(m) <= size(h) /\ (m > h => size(m) < size(h))
        BY <1>1, <3>5, <3>7
      <4>3. LatestLongest(d, f.called, P \cup {h})
        BY <1>2, <4>1, <4>2 DEF LatestLongest
      <4> QED
        BY <3>3, <3>4, <4>3
    <3>8. CASE ~(size(h) >= size(k))
      <4>1. f.called = p.called
        BY <1>2, <3>3, <3>6, <3>8 DEF Dump!Richer
      <4>2. \A m \in P \cup {h} : size(m) <= size(k) /\ (m > k => size(m) < size(k))
        BY <1>1, <3>5, <3>8
      <4>3. LatestLongest(d, f.called, P \cup {h})
        BY <3>5, <4>1, <4>2 DEF LatestLongest
      <4> QED
        BY <3>3, <3>4, <4>3
    <3> QED
      BY <3>7, <3>8
  <2>3. ASSUME NEW f \in T PROVE \E p \in S : f = Dump!Merge(p, c)
    BY <2>1
  <2> HIDE DEF T
  <2>4. ASSUME NEW f \in T
        PROVE  /\ f \in Printed
               /\ f.flags = UNION {FlagsIn(d, k) : k \in P \cup {h}}
               /\ LatestLongest(d, f.called, P \cup {h})
    <3>1. PICK p \in S : f = Dump!Merge(p, c)
      BY <2>3
    <3> QED
      BY <2>2, <3>1
  <2>5. T \in SUBSET Printed
    BY <2>4
  <2>6. Exact(d, T, P \cup {h})
    BY <1>1, <2>1, <2>4 DEF Exact
  <2> QED
    BY <2>5, <2>6 DEF T
<1> QED
  BY <1>4, <1>5

\* flush: every printing so far is merged.
LEMMA FlushExact ==
    ASSUME DumpInv, Dump!Flush
    PROVE  /\ symbols' \in [Ids -> SUBSET Printed]
           /\ \A s \in Ids : Exact(dump, symbols'[s], Heads(dump, s))
<1>1. /\ dump \in Seq(Dump!Lines) /\ symbols \in [Ids -> SUBSET Printed]
      /\ \A s \in Ids : Exact(dump, symbols[s], Flushed(s))
  BY DEF DumpInv
<1>2. symbols' = [s \in Ids |-> Dump!MergeSymbol(symbols[s], {f \in cur : f.id = s})]
  BY DEF Dump!Flush
<1>3. CASE cur = {}
  <2>1. \A s \in Ids : symbols'[s] = symbols[s]
    BY <1>2, <1>3 DEF Dump!MergeSymbol
  <2>2. symbols' = symbols
    BY <1>1, <1>2, <2>1
  <2>3. \A s \in Ids : Flushed(s) = Heads(dump, s)
    BY <1>3 DEF Flushed
  <2> QED
    BY <1>1, <2>2, <2>3
<1>4. CASE cur # {}
  <2>1. PICK h \in 1..Len(dump), c \in Printed : cur = {c} /\ Under(dump, h, c)
    BY <1>4 DEF DumpInv
  <2>2. dump[h].kind = "header" /\ dump[h].id = c.id /\ c.id \in Ids /\ ~Closed(dump, h) /\ Len(dump) \in Nat
    BY <1>1, <2>1 DEF Under, Printed
  <2>3. ASSUME NEW k \in 1..Len(dump), dump[k].kind = "header", k # h
        PROVE  k < h /\ Closed(dump, k)
    <3>1. dump[k].kind \notin Dump!Detail /\ dump[h].kind \notin Dump!Detail
      BY <2>2, <2>3 DEF Dump!Detail
    <3>2. ~(k \in h + 1..Len(dump))
      BY <2>2, <3>1 DEF Closed
    <3>3. k < h
      BY <2>2, <2>3, <3>2
    <3>4. h \in k + 1..Len(dump)
      BY <2>2, <3>3
    <3> QED
      BY <3>1, <3>3, <3>4 DEF Closed
  <2>4. ASSUME NEW s \in Ids
        PROVE  symbols'[s] \in SUBSET Printed /\ Exact(dump, symbols'[s], Heads(dump, s))
    <3> DEFINE P == Flushed(s)
               S == symbols[s]
    <3>1. S \in SUBSET Printed /\ Exact(dump, S, P)
      BY <1>1
    <3>2. Heads(dump, s) = IF c.id = s THEN P \cup {h} ELSE P
      BY <1>4, <2>2, <2>3 DEF Heads, Flushed
    <3>3. P \in SUBSET Nat /\ h \in Nat /\ \A k \in P : k < h
      BY <1>4, <2>2, <2>3 DEF Heads, Flushed
    <3>4. {f \in cur : f.id = s} = IF c.id = s THEN {c} ELSE {}
      BY <2>1
    <3>5. symbols'[s] = Dump!MergeSymbol(S, IF c.id = s THEN {c} ELSE {})
      BY <1>2, <3>4
    <3>6. CASE c.id # s
      <4>1. symbols'[s] = S
        BY <3>5, <3>6 DEF Dump!MergeSymbol
      <4> QED
        BY <3>1, <3>2, <3>6, <4>1
    <3>7. CASE c.id = s
      <4>1. symbols'[s] = Dump!MergeSymbol(S, {c}) /\ Heads(dump, s) = P \cup {h}
        BY <3>2, <3>5, <3>7
      <4>2. c \in Printed /\ Under(dump, h, c)
        BY <2>1
      <4> HIDE DEF P, S
      <4>3. /\ Dump!MergeSymbol(S, {c}) \in SUBSET Printed
            /\ Exact(dump, Dump!MergeSymbol(S, {c}), P \cup {h})
        BY <3>1, <3>3, <4>2, MergeExact, SMTT(20)
      <4> QED
        BY <4>1, <4>3
    <3> QED
      BY <3>6, <3>7
  <2>5. symbols' \in [Ids -> SUBSET Printed]
    <3>1. symbols' = [s \in Ids |-> symbols'[s]]
      BY <1>2
    <3> QED
      BY <2>4, <3>1
  <2> QED
    BY <2>4, <2>5
<1> QED
  BY <1>3, <1>4

\* A new header opens a printing that says nothing yet.
LEMMA Opened ==
    ASSUME NEW d \in Seq(Dump!Lines), NEW e \in Dump!Headers, e \in Dump!Lines
    PROVE  /\ Dump!Function(e.id) \in Printed
           /\ Under(Append(d, e), Len(d) + 1, Dump!Function(e.id))
<1> DEFINE D == Append(d, e)
           h == Len(d) + 1
           c == Dump!Function(e.id)
<1>1. e.kind = "header" /\ e.id \in Ids
  BY DEF Dump!Headers
<1>2. Len(D) = h /\ D[h] = e /\ h \in Nat
  OBVIOUS
<1>3. c \in Printed /\ c.id = e.id /\ c.flags = {} /\ c.called = <<>>
  BY <1>1 DEF Printed, Dump!Function
<1> HIDE DEF D, c
<1>4. h + 1..Len(D) = {}
  BY <1>2
<1>5. BodyIn(D, h) = {} /\ ~Closed(D, h)
  BY <1>4 DEF BodyIn, Closed
<1>6. SaidIn(D, h) = {} /\ FlagsIn(D, h) = {}
  BY <1>5 DEF SaidIn, FlagsIn
<1>7. IsFiniteSet(SaidIn(D, h)) /\ Cardinality(SaidIn(D, h)) = 0
  BY <1>6, FS_EmptySet
<1>8. ListsIn(D, c.called, h)
  BY <1>3, <1>6, <1>7 DEF ListsIn
<1>9. Under(D, h, c)
  BY <1>1, <1>2, <1>3, <1>5, <1>6, <1>7, <1>8 DEF Under
<1> QED
  BY <1>3, <1>9 DEF D, c

\* The headers of a longer dump.
LEMMA HeadsGrow ==
    ASSUME NEW d \in Seq(Dump!Lines), NEW e \in Dump!Lines, NEW s
    PROVE  /\ Heads(d, s) \subseteq 1..Len(d)
           /\ Heads(Append(d, e), s) =
                 Heads(d, s) \cup IF e.kind = "header" /\ e.id = s THEN {Len(d) + 1} ELSE {}
<1> DEFINE D == Append(d, e)
<1>1. /\ \A k \in 1..Len(d) : k \in 1..Len(D) /\ D[k] = d[k]
      /\ Len(d) + 1 \in 1..Len(D) /\ D[Len(d) + 1] = e
      /\ \A k \in 1..Len(D) : k \in 1..Len(d) \/ k = Len(d) + 1
  OBVIOUS
<1> HIDE DEF D
<1>2. Heads(D, s) = Heads(d, s) \cup IF e.kind = "header" /\ e.id = s THEN {Len(d) + 1} ELSE {}
  BY <1>1 DEF Heads
<1> QED
  BY <1>2 DEF Heads, D

\* Header, Break, TriviallyNeeded.
LEMMA EndingLine ==
    ASSUME DumpInv, NEW e \in Dump!Lines, e.kind \notin Dump!Detail,
           dump' = Append(dump, e), Dump!Flush,
           \/ e.kind # "header" /\ cur' = {}
           \/ e \in Dump!Headers /\ cur' = {Dump!Function(e.id)}
    PROVE  DumpInv'
<1>1. dump \in Seq(Dump!Lines) /\ dump' \in Seq(Dump!Lines) /\ Len(dump) \in Nat /\ Len(dump') = Len(dump) + 1
  BY DEF DumpInv
<1>2. /\ symbols' \in [Ids -> SUBSET Printed]
      /\ \A s \in Ids : Exact(dump, symbols'[s], Heads(dump, s))
  BY FlushExact
<1>3. ASSUME NEW s \in Ids PROVE Exact(dump', symbols'[s], Heads(dump, s))
  BY <1>1, <1>2, HeadsGrow, ExactStays
<1>4. \A s \in Ids : \A k \in Heads(dump, s) : Closed(dump', k)
  <2>1. \A k \in 1..Len(dump) : Closed(dump', k)
    BY <1>1, BodyGrows
  <2> QED
    BY <2>1 DEF Heads
<1>5. CASE e.kind # "header" /\ cur' = {}
  <2>1. \A s \in Ids : Heads(dump', s) = Heads(dump, s)
    <3>1. ASSUME NEW s \in Ids PROVE Heads(dump', s) = Heads(dump, s)
      <4>1. Heads(dump', s) = Heads(dump, s) \cup IF e.kind = "header" /\ e.id = s THEN {Len(dump) + 1} ELSE {}
        BY <1>1, HeadsGrow
      <4> QED
        BY <1>5, <4>1
    <3> QED
      BY <3>1
  <2>2. \A s \in Ids : Flushed(s)' = Heads(dump, s)
    BY <1>5, <2>1 DEF Flushed
  <2> QED
    BY <1>1, <1>2, <1>3, <1>4, <1>5, <2>1, <2>2 DEF DumpInv
<1>6. CASE e \in Dump!Headers /\ cur' = {Dump!Function(e.id)}
  <2> DEFINE h == Len(dump) + 1
             c == Dump!Function(e.id)
  <2>1. c \in Printed /\ Under(dump', h, c) /\ h \in 1..Len(dump')
    BY <1>1, <1>6, Opened
  <2>2. ~Closed(dump', h)
    BY <2>1 DEF Under
  <2>3. ASSUME NEW s \in Ids PROVE Flushed(s)' = Heads(dump, s)
    <3>1. Heads(dump', s) \subseteq Heads(dump, s) \cup {h} /\ Heads(dump, s) \subseteq Heads(dump', s)
      BY <1>1, HeadsGrow
    <3>2. cur' # {}
      BY <1>6
    <3> QED
      BY <1>4, <2>2, <3>1, <3>2 DEF Flushed
  <2>4. \E k \in 1..Len(dump') : \E f \in Printed : cur' = {f} /\ Under(dump', k, f)
    BY <1>6, <2>1
  <2> QED
    BY <1>1, <1>2, <1>3, <2>3, <2>4 DEF DumpInv
<1> QED
  BY <1>5, <1>6

\* A line of a symbol: c becomes b.
LEMMA DetailLine ==
    ASSUME CallListsAssumption, DumpInv, NEW e \in Dump!Lines, e.kind \in Dump!Detail,
           dump' = Append(dump, e), Len(dump) < MaxLines, symbols' = symbols,
           cur = {} => cur' = {},
           \A c \in Printed : cur = {c} =>
               \E b \in Printed :
                   /\ cur' = {b} /\ b.id = c.id
                   /\ b.flags = c.flags \cup IF e.kind = "flag" THEN {e.flag} ELSE {}
                   /\ b.called = IF e.kind = "calls" THEN c.called \o e.list ELSE c.called
    PROVE  DumpInv'
<1>1. /\ dump \in Seq(Dump!Lines) /\ dump' \in Seq(Dump!Lines) /\ Len(dump) \in Nat /\ Len(dump') = Len(dump) + 1
      /\ symbols' \in [Ids -> SUBSET Printed]
  BY DEF DumpInv
<1>2. e.kind # "header"
  BY DEF Dump!Detail
<1>3. \A s \in Ids : Heads(dump', s) = Heads(dump, s) /\ Heads(dump, s) \subseteq 1..Len(dump)
  <2>1. ASSUME NEW s \in Ids PROVE Heads(dump', s) = Heads(dump, s) /\ Heads(dump, s) \subseteq 1..Len(dump)
    <3>1. /\ Heads(dump, s) \subseteq 1..Len(dump)
          /\ Heads(dump', s) = Heads(dump, s) \cup IF e.kind = "header" /\ e.id = s THEN {Len(dump) + 1} ELSE {}
      BY <1>1, HeadsGrow
    <3> QED
      BY <1>2, <3>1
  <2> QED
    BY <2>1
<1>4. \A k \in 1..Len(dump) : Closed(dump', k) <=> Closed(dump, k)
  BY <1>1, BodyGrows
<1>5. (cur' = {}) <=> (cur = {})
  BY DEF DumpInv
<1>6. \A s \in Ids : Flushed(s)' = Flushed(s)
  BY <1>3, <1>4, <1>5 DEF Flushed
<1>7. \A s \in Ids : \A k \in Flushed(s) : Closed(dump, k)
  BY DEF Flushed, DumpInv
<1>8. ASSUME NEW s \in Ids PROVE Exact(dump', symbols'[s], Flushed(s)')
  <2>1. Flushed(s) \subseteq 1..Len(dump) /\ Exact(dump, symbols[s], Flushed(s))
    BY <1>3 DEF Flushed, DumpInv
  <2>2. Exact(dump', symbols[s], Flushed(s))
    BY <1>1, <1>7, <2>1, ExactStays
  <2> QED
    BY <1>6, <2>2
<1>9. CASE cur = {}
  <2>1. \A s \in Ids : \A k \in Heads(dump', s) : Closed(dump', k)
    BY <1>1, <1>3, <1>4, <1>9 DEF DumpInv
  <2> QED
    BY <1>1, <1>5, <1>8, <1>9, <2>1 DEF DumpInv
<1>10. CASE cur # {}
  <2>1. PICK h \in 1..Len(dump), c \in Printed : cur = {c} /\ Under(dump, h, c)
    BY <1>10 DEF DumpInv
  <2>2. PICK b \in Printed :
            /\ cur' = {b} /\ b.id = c.id
            /\ b.flags = c.flags \cup IF e.kind = "flag" THEN {e.flag} ELSE {}
            /\ b.called = IF e.kind = "calls" THEN c.called \o e.list ELSE c.called
    BY <2>1
  <2>3. c.called \in Seq(Callees)
    BY DEF Printed
  <2>4. /\ FlagsIn(dump', h) = FlagsIn(dump, h) \cup IF e.kind = "flag" THEN {e.flag} ELSE {}
        /\ IsFiniteSet(SaidIn(dump', h))
        /\ e.kind # "calls" => ListsIn(dump', c.called, h)
        /\ e.kind = "calls" => ListsIn(dump', c.called \o e.list, h)
    BY <1>1, <2>1, <2>3, BodyExtends DEF Under
  <2>5. dump'[h] = dump[h] /\ h \in 1..Len(dump')
    BY <1>1
  <2>6. Under(dump', h, b)
    BY <1>4, <2>1, <2>2, <2>4, <2>5 DEF Under
  <2>7. \E k \in 1..Len(dump') : \E f \in Printed : cur' = {f} /\ Under(dump', k, f)
    BY <2>2, <2>5, <2>6
  <2> QED
    BY <1>1, <1>8, <2>7 DEF DumpInv
<1> QED
  BY <1>9, <1>10

\* The flush after the last line.
LEMMA LastFlush ==
    ASSUME DumpInv, Dump!EOF
    PROVE  DumpInv'
<1>1. dump' = dump /\ cur' = {} /\ Dump!Flush /\ Len(dump) = MaxLines
  BY DEF Dump!EOF
<1>2. /\ symbols' \in [Ids -> SUBSET Printed]
      /\ \A s \in Ids : Exact(dump, symbols'[s], Heads(dump, s))
  BY <1>1, FlushExact
<1>3. \A s \in Ids : Flushed(s)' = Heads(dump, s)
  BY <1>1 DEF Flushed
<1> QED
  BY <1>1, <1>2, <1>3 DEF DumpInv

\* The steps of the other readers do not touch the dump.
LEMMA DumpSame ==
    ASSUME DumpInv, UNCHANGED gcc
    PROVE  DumpInv'
<1>1. dump' = dump /\ cur' = cur /\ symbols' = symbols
  BY DEF gcc
<1>2. \A s \in Ids : Flushed(s)' = Flushed(s)
  BY <1>1 DEF Flushed
<1> QED
  BY <1>1, <1>2 DEF DumpInv

\* Every line, and the end of the dump, keep the invariant.
LEMMA DumpSteps ==
    ASSUME CallListsAssumption, DumpInv, Dump!Next
    PROVE  DumpInv'
<1>1. ASSUME NEW e \in Dump!Headers, Dump!Read(e), Dump!Flush, cur' = {Dump!Function(e.id)}
      PROVE  DumpInv'
  <2>1. e \in Dump!Lines /\ e.kind \notin Dump!Detail
    BY <1>1 DEF Dump!Lines, Dump!Headers, Dump!Detail
  <2> QED
    BY <1>1, <2>1, EndingLine DEF Dump!Read
<1>2. ASSUME NEW e \in Dump!Breaks \cup Dump!Needed, Dump!Read(e), Dump!Flush, cur' = {}
      PROVE  DumpInv'
  <2>1. e \in Dump!Lines /\ e.kind \notin Dump!Detail /\ e.kind # "header"
    BY <1>2 DEF Dump!Lines, Dump!Breaks, Dump!Needed, Dump!Detail
  <2> QED
    BY <1>2, <2>1, EndingLine DEF Dump!Read
<1>3. CASE Dump!Flag
  <2>1. PICK e \in Dump!FlagLines :
            /\ Dump!Read(e) /\ symbols' = symbols
            /\ cur' = {[f EXCEPT !.flags = @ \cup {e.flag}] : f \in cur}
    BY <1>3 DEF Dump!Flag
  <2>2. e \in Dump!Lines /\ e.kind = "flag" /\ e.kind \in Dump!Detail /\ e.flag \in Flags
    BY DEF Dump!Lines, Dump!FlagLines, Dump!Detail
  <2>3. ASSUME NEW c \in Printed, cur = {c}
        PROVE  \E b \in Printed : cur' = {b} /\ b.id = c.id /\ b.flags = c.flags \cup {e.flag} /\ b.called = c.called
    <3> DEFINE b == [c EXCEPT !.flags = @ \cup {e.flag}]
    <3>1. b \in Printed /\ b.id = c.id /\ b.flags = c.flags \cup {e.flag} /\ b.called = c.called
      BY <2>2 DEF Printed
    <3>2. cur' = {b}
      BY <2>1, <2>3
    <3> QED
      BY <3>1, <3>2
  <2>4. cur = {} => cur' = {}
    BY <2>1
  <2>5. e.kind # "calls"
    BY <2>2
  <2> QED
    BY <2>1, <2>2, <2>3, <2>4, <2>5, DetailLine DEF Dump!Read
<1>4. CASE Dump!CloneOf
  <2>1. PICK e \in Dump!CloneLines :
            /\ Dump!Read(e) /\ symbols' = symbols
            /\ cur' = {[f EXCEPT !.clone = {e.id}] : f \in cur}
    BY <1>4 DEF Dump!CloneOf
  <2>2. e \in Dump!Lines /\ e.kind = "clone" /\ e.kind \in Dump!Detail /\ e.id \in Ids
    BY DEF Dump!Lines, Dump!CloneLines, Dump!Detail
  <2>3. ASSUME NEW c \in Printed, cur = {c}
        PROVE  \E b \in Printed : cur' = {b} /\ b.id = c.id /\ b.flags = c.flags \cup {} /\ b.called = c.called
    <3> DEFINE b == [c EXCEPT !.clone = {e.id}]
    <3>1. b \in Printed /\ b.id = c.id /\ b.flags = c.flags /\ b.called = c.called
      BY <2>2 DEF Printed
    <3>2. cur' = {b}
      BY <2>1, <2>3
    <3> QED
      BY <3>1, <3>2
  <2>4. cur = {} => cur' = {}
    BY <2>1
  <2>5. e.kind # "calls" /\ e.kind # "flag"
    BY <2>2
  <2> QED
    BY <2>1, <2>2, <2>3, <2>4, <2>5, DetailLine DEF Dump!Read
<1>5. CASE Dump!Calls
  <2>1. PICK e \in Dump!CallLines :
            /\ Dump!Read(e) /\ symbols' = symbols
            /\ cur' = {[f EXCEPT !.called = @ \o e.list] : f \in cur}
    BY <1>5 DEF Dump!Calls
  <2>2. e \in Dump!Lines /\ e.kind = "calls" /\ e.kind \in Dump!Detail /\ e.list \in Seq(Callees)
    BY DEF Dump!Lines, Dump!CallLines, Dump!Detail, CallListsAssumption
  <2>3. ASSUME NEW c \in Printed, cur = {c}
        PROVE  \E b \in Printed : cur' = {b} /\ b.id = c.id /\ b.flags = c.flags \cup {} /\ b.called = c.called \o e.list
    <3> DEFINE l == c.called \o e.list
               b == [c EXCEPT !.called = l]
    <3>1. l \in Seq(Callees)
      BY <2>2, Concatenated DEF Printed
    <3>2. cur' = {b}
      BY <2>1, <2>3
    <3> HIDE DEF l
    <3>3. b \in Printed /\ b.id = c.id /\ b.flags = c.flags /\ b.called = l
      BY <3>1 DEF Printed
    <3> QED
      BY <3>2, <3>3 DEF l
  <2>4. cur = {} => cur' = {}
    BY <2>1
  <2>5. e.kind # "flag"
    BY <2>2
  <2> QED
    BY <2>1, <2>2, <2>3, <2>4, <2>5, DetailLine DEF Dump!Read
<1>6. CASE Dump!Ignore
  <2>1. PICK e \in Dump!Ignored : Dump!Read(e) /\ symbols' = symbols /\ cur' = cur
    BY <1>6 DEF Dump!Ignore
  <2>2. e \in Dump!Lines /\ e.kind = "ignored" /\ e.kind \in Dump!Detail
    BY DEF Dump!Lines, Dump!Ignored, Dump!Detail
  <2>3. e.kind # "calls" /\ e.kind # "flag"
    BY <2>2
  <2> QED
    BY <2>1, <2>2, <2>3, DetailLine DEF Dump!Read
<1>7. CASE Dump!EOF
  BY <1>7, LastFlush
<1>8. CASE Dump!Done
  BY <1>8, DumpSame DEF Dump!Done, Dump!vars, gcc
<1> QED
  BY <1>1, <1>2, <1>3, <1>4, <1>5, <1>6, <1>7, <1>8
     DEF Dump!Next, Dump!Header, Dump!Break, Dump!TriviallyNeeded

\* Nothing is printed and nothing is merged at first.
LEMMA DumpInitially == Init => DumpIInv
<1> SUFFICES ASSUME Init, turn = "dump" PROVE DumpInv
  BY DEF DumpIInv
<1>1. dump = <<>> /\ cur = {} /\ symbols = [s \in Ids |-> {}]
  BY DEF Init, Dump!Init
<1>2. \A s \in Ids : Heads(dump, s) = {} /\ Flushed(s) = {}
  BY <1>1 DEF Heads, Flushed
<1>3. \A s \in Ids : Exact(dump, symbols[s], Flushed(s))
  BY <1>1, <1>2 DEF Exact
<1> QED
  BY <1>1, <1>2, <1>3 DEF DumpInv

\* A step of any reader keeps it.
LEMMA DumpStep ==
    ASSUME DumpIInv, [Next]_vars
    PROVE  DumpIInv'
<1>1. turn' = turn
  BY DEF Next, vars, ReadLog, ReadMap, ParseCgraph, FilterTargets, ParseIpaDump, ReadDwarf, ParseCallSite
<1>2. SUFFICES ASSUME turn = "dump" PROVE DumpInv'
  BY <1>1 DEF DumpIInv
<1>3. DumpInv
  BY <1>2 DEF DumpIInv
<1>4. CASE ParseCgraph
  BY <1>3, <1>4, CallListsAssumption, DumpSteps DEF ParseCgraph
<1>5. CASE UNCHANGED vars
  BY <1>3, <1>5, DumpSame DEF vars
<1> QED
  BY <1>2, <1>4, <1>5 DEF Next, ReadLog, ReadMap, FilterTargets, ParseIpaDump, ReadDwarf, ParseCallSite

\* At the end every printing is merged: what the invariant says of the answer.
LEMMA DumpImplies ==
    ASSUME DumpInv
    PROVE  Dump!FlagsAreTheDumps /\ Dump!CallsAreLatestLongest
<1>0. \A S : Dump!Cardinality(S) = Cardinality(S)
  BY DEF Dump!Cardinality, Cardinality
<1>1. \A s : Dump!Printings(s) = Heads(dump, s)
  BY DEF Dump!Printings, Heads
<1>2. \A k : Dump!Body(k) = BodyIn(dump, k)
  BY DEF Dump!Body, BodyIn
<1>3. \A k : Dump!Said(k) = SaidIn(dump, k)
  BY <1>2 DEF Dump!Said, SaidIn
<1>4. \A out, k : Dump!Lists(out, k) <=> ListsIn(dump, out, k)
  BY <1>0, <1>3 DEF Dump!Lists, ListsIn, AboveIn
<1>5. ASSUME Dump!AtEnd, NEW s \in Ids
      PROVE  /\ symbols[s] = {} <=> Dump!Printings(s) = {}
             /\ \A f \in symbols[s] :
                   /\ f.flags = {dump[j].flag : j \in {j \in UNION {Dump!Body(k) : k \in Dump!Printings(s)} :
                                                          dump[j].kind = "flag"}}
                   /\ \E k \in Dump!Printings(s) :
                         /\ Dump!Lists(f.called, k)
                         /\ \A m \in Dump!Printings(s) :
                               /\ Cardinality(Dump!Said(m)) <= Cardinality(Dump!Said(k))
                               /\ m > k => Cardinality(Dump!Said(m)) < Cardinality(Dump!Said(k))
  <2>1. Flushed(s) = Dump!Printings(s)
    BY <1>1, <1>5 DEF Flushed, Dump!AtEnd
  <2>2. Exact(dump, symbols[s], Dump!Printings(s))
    BY <2>1 DEF DumpInv
  <2>3. UNION {FlagsIn(dump, k) : k \in Dump!Printings(s)} =
            {dump[j].flag : j \in {j \in UNION {Dump!Body(k) : k \in Dump!Printings(s)} : dump[j].kind = "flag"}}
    BY <1>2 DEF FlagsIn
  <2>4. symbols[s] = {} <=> Dump!Printings(s) = {}
    BY <2>2 DEF Exact
  <2>5. ASSUME NEW f \in symbols[s]
        PROVE  /\ f.flags = UNION {FlagsIn(dump, k) : k \in Dump!Printings(s)}
               /\ LatestLongest(dump, f.called, Dump!Printings(s))
    BY <2>2 DEF Exact
  <2> QED
    BY <1>3, <1>4, <2>3, <2>4, <2>5 DEF LatestLongest
<1> QED
  BY <1>0, <1>5 DEF Dump!FlagsAreTheDumps, Dump!CallsAreLatestLongest

-----------------------------------------------------------------------------
(* ParseICF and ParseOptRecord.                                            *)

IcfLines == [line : {"introduced", "analyzing", "alias"}, fn : Functions]

\* The function being read is the last one analyzed, if there is one.
SubjectKnown ==
    \/ currentFn = 0 /\ \A k \in DOMAIN shown : shown[k].line # "analyzing"
    \/ \E k \in DOMAIN shown :
          /\ shown[k] = [line |-> "analyzing", fn |-> currentFn]
          /\ \A m \in DOMAIN shown : shown[m].line = "analyzing" => m <= k

\* GCC showed that f was folded: a call of the winner's alias right below the
\* line that begins f.
Seen(f) ==
    \E k \in DOMAIN shown :
        /\ k > 1 /\ shown[k] = [line |-> "alias", fn |-> wraps[f]]
        /\ shown[k - 1] = [line |-> "analyzing", fn |-> f]

\* What an inlining decision that was shown is kept as, if it is.
Decision(r) == [caller |-> r.caller, callee |-> r.callee, inlined |-> r.kind = "success"]
Telling == {r \in Range(shown) : r.inline /\ r.kind # "note" /\ r.wording \notin {"one", "other"}}

IcfInv ==
    /\ shown \in Seq(IcfLines)
    /\ currentFn \in Functions \cup {0}
    /\ SubjectKnown
    /\ winners = Ipa!ShownOf("introduced")
    /\ losersOf \in [Functions -> SUBSET Functions]
    /\ \A w \in Functions : \A f \in losersOf[w] : wraps[f] = w
    /\ \A f \in Functions : Seen(f) => f \in losersOf[wraps[f]]

OptInv ==
    /\ shown \in Seq(Ipa!OptRecords)
    /\ inlineRecords = {Decision(r) : r \in Telling}

IpaInv ==
    /\ file \in {"icf", "opt"} /\ parsed \in {"reading", "ok", "error"}
    /\ wraps \in [Functions -> Functions \cup {0}]
    /\ \A f \in Functions : wraps[f] # f
    /\ file = "icf" => IcfInv
    /\ file = "opt" => OptInv

IpaIInv == turn = "ipa" => IpaInv

\* What the invariant says of the answer.
LEMMA IpaImplies == ASSUME IpaInv PROVE Ipa!DecisionsExact
<1>1. ASSUME file = "icf", NEW g \in Ipa!Groups, NEW f \in g.losers
      PROVE  wraps[f] = g.winner
  <2>1. PICK w \in winners : g = [winner |-> w, losers |-> losersOf[w]]
    BY DEF Ipa!Groups
  <2>2. PICK k \in DOMAIN shown : w = shown[k].fn
    BY <1>1, <2>1 DEF IpaInv, IcfInv, Ipa!ShownOf, Ipa!ToSet
  <2>3. shown[k] \in IcfLines
    BY <1>1, <2>2 DEF IpaInv, IcfInv
  <2>4. w \in Functions
    BY <2>2, <2>3 DEF IcfLines
  <2> QED
    BY <1>1, <2>1, <2>4 DEF IpaInv, IcfInv
<1>2. ASSUME file = "icf", NEW f \in Functions, wraps[f] \in Ipa!ShownOf("introduced"), Seen(f)
      PROVE  \E g \in Ipa!Groups : g.winner = wraps[f] /\ f \in g.losers
  <2> DEFINE h == [winner |-> wraps[f], losers |-> losersOf[wraps[f]]]
  <2>1. wraps[f] \in winners /\ f \in losersOf[wraps[f]]
    BY <1>2 DEF IpaInv, IcfInv
  <2>2. h \in Ipa!Groups
    BY <2>1 DEF Ipa!Groups
  <2>3. h.winner = wraps[f] /\ f \in h.losers
    BY <2>1
  <2> QED
    BY <2>2, <2>3
<1>3. file = "opt" =>
          inlineRecords =
              {[caller |-> r.caller, callee |-> r.callee, inlined |-> r.kind = "success"] :
                  r \in {r \in Ipa!ToSet(shown) : r.inline /\ r.kind # "note"
                                              /\ r.wording \notin {"one", "other"}}}
  BY DEF IpaInv, OptInv, Telling, Decision, Range, Ipa!ToSet
<1> QED
  BY <1>1, <1>2, <1>3 DEF Ipa!DecisionsExact, Seen

\* What a longer text still says.
LEMMA IpaShown ==
    ASSUME NEW A, shown \in Seq(A), NEW e \in A, shown' = Append(shown, e)
    PROVE  /\ shown' \in Seq(A)
           /\ DOMAIN shown = 1..Len(shown) /\ Len(shown) \in Nat
           /\ DOMAIN shown' = 1..Len(shown) + 1
           /\ \A k \in DOMAIN shown : k \in DOMAIN shown' /\ shown'[k] = shown[k]
           /\ shown'[Len(shown) + 1] = e
           /\ \A k \in DOMAIN shown' : k \in DOMAIN shown \/ k = Len(shown) + 1
  OBVIOUS

\* What one more line of an .icf dump adds to what was shown.
LEMMA IcfShows ==
    ASSUME IcfInv, NEW e \in IcfLines, shown' = Append(shown, e), wraps' = wraps
    PROVE  /\ shown' \in Seq(IcfLines)
           /\ Ipa!ShownOf("introduced")' =
                 Ipa!ShownOf("introduced") \cup IF e.line = "introduced" THEN {e.fn} ELSE {}
           /\ \A f \in Functions :
                 Seen(f)' => \/ Seen(f)
                             \/ e = [line |-> "alias", fn |-> wraps[f]] /\ currentFn = f
<1>1. /\ shown \in Seq(IcfLines) /\ shown' \in Seq(IcfLines)
      /\ DOMAIN shown = 1..Len(shown) /\ Len(shown) \in Nat
      /\ DOMAIN shown' = 1..Len(shown) + 1
      /\ \A k \in DOMAIN shown : k \in DOMAIN shown' /\ shown'[k] = shown[k]
      /\ shown'[Len(shown) + 1] = e
      /\ \A k \in DOMAIN shown' : k \in DOMAIN shown \/ k = Len(shown) + 1
  BY IpaShown DEF IcfInv
<1>2. Len(shown) + 1 \in DOMAIN shown'
  BY <1>1
<1>3. Ipa!ShownOf("introduced")' =
          Ipa!ShownOf("introduced") \cup IF e.line = "introduced" THEN {e.fn} ELSE {}
  <2>1. Ipa!ToSet(shown)' = Ipa!ToSet(shown) \cup {e}
    <3>1. Ipa!ToSet(shown)' = {shown'[k] : k \in DOMAIN shown'}
      BY DEF Ipa!ToSet
    <3>2. Ipa!ToSet(shown) = {shown[k] : k \in DOMAIN shown}
      BY DEF Ipa!ToSet
    <3> HIDE DEF Ipa!ToSet
    <3> QED
      BY <1>1, <1>2, <3>1, <3>2, Zenon
  <2> QED
    BY <2>1 DEF Ipa!ShownOf
<1>4. ASSUME NEW f \in Functions, Seen(f)'
      PROVE  Seen(f) \/ (e = [line |-> "alias", fn |-> wraps[f]] /\ currentFn = f)
  <2>1. PICK k \in DOMAIN shown' :
            /\ k > 1 /\ shown'[k] = [line |-> "alias", fn |-> wraps[f]]
            /\ shown'[k - 1] = [line |-> "analyzing", fn |-> f]
    BY <1>4 DEF Seen
  <2>2. k - 1 \in DOMAIN shown /\ shown[k - 1] = [line |-> "analyzing", fn |-> f]
    BY <1>1, <2>1
  <2>3. CASE k \in DOMAIN shown
    BY <1>1, <2>1, <2>2, <2>3 DEF Seen
  <2>4. CASE k = Len(shown) + 1
    <3>1. e = [line |-> "alias", fn |-> wraps[f]]
      BY <1>1, <2>1, <2>4
    <3>2. shown[k - 1].line = "analyzing" /\ shown[k - 1].fn = f
      BY <2>2
    <3>3. PICK h \in DOMAIN shown :
              /\ shown[h] = [line |-> "analyzing", fn |-> currentFn]
              /\ \A m \in DOMAIN shown : shown[m].line = "analyzing" => m <= h
      BY <2>2, <3>2 DEF IcfInv, SubjectKnown
    <3>4. h = k - 1
      BY <1>1, <2>2, <2>4, <3>2, <3>3
    <3> QED
      BY <3>1, <3>2, <3>3, <3>4
  <2> QED
    BY <1>1, <2>1, <2>3, <2>4
<1> QED
  BY <1>1, <1>3, <1>4

\* A line that begins no function leaves the subject; one that does is it.
LEMMA IcfSubject ==
    ASSUME IcfInv, NEW e \in IcfLines, shown' = Append(shown, e)
    PROVE  /\ e.line # "analyzing" /\ currentFn' = currentFn => SubjectKnown'
           /\ e = [line |-> "analyzing", fn |-> currentFn'] => SubjectKnown'
<1>1. /\ DOMAIN shown = 1..Len(shown) /\ Len(shown) \in Nat
      /\ DOMAIN shown' = 1..Len(shown) + 1
      /\ \A k \in DOMAIN shown : k \in DOMAIN shown' /\ shown'[k] = shown[k]
      /\ shown'[Len(shown) + 1] = e
      /\ \A k \in DOMAIN shown' : k \in DOMAIN shown \/ k = Len(shown) + 1
  BY IpaShown DEF IcfInv
<1>2. ASSUME e.line # "analyzing", currentFn' = currentFn PROVE SubjectKnown'
  BY <1>1, <1>2 DEF IcfInv, SubjectKnown
<1>3. ASSUME e = [line |-> "analyzing", fn |-> currentFn'] PROVE SubjectKnown'
  <2>1. Len(shown) + 1 \in DOMAIN shown' /\ \A m \in DOMAIN shown' : m <= Len(shown) + 1
    BY <1>1
  <2> QED
    BY <1>1, <1>3, <2>1 DEF SubjectKnown
<1> QED
  BY <1>2, <1>3

\* The subject of the specification is the function the parser is reading.
LEMMA SubjectIs == ASSUME IcfInv PROVE Ipa!Subject = currentFn
<1> DEFINE heads == {k \in DOMAIN shown : shown[k].line = "analyzing"}
           last == CHOOSE k \in heads : \A m \in heads : m <= k
<1>1. DOMAIN shown = 1..Len(shown) /\ Len(shown) \in Nat
  BY DEF IcfInv
<1>2. CASE heads = {}
  BY <1>2 DEF IcfInv, SubjectKnown, Ipa!Subject
<1>3. CASE heads # {}
  <2>1. PICK h \in DOMAIN shown :
            /\ shown[h] = [line |-> "analyzing", fn |-> currentFn]
            /\ \A m \in DOMAIN shown : shown[m].line = "analyzing" => m <= h
    BY <1>3 DEF IcfInv, SubjectKnown
  <2>2. h \in heads /\ \A m \in heads : m <= h
    BY <2>1
  <2>3. last \in heads /\ \A m \in heads : m <= last
    BY <2>2
  <2>4. last = h
    BY <1>1, <2>2, <2>3
  <2>5. Ipa!Subject = shown[last].fn
    BY <1>3, Zenon DEF Ipa!Subject
  <2>6. shown[h].fn = currentFn
    BY <2>1
  <2> QED
    BY <2>4, <2>5, <2>6
<1> QED
  BY <1>2, <1>3

\* The three lines of an .icf dump keep the invariant.
LEMMA IcfSteps ==
    ASSUME FunctionsAssumption, turn = "ipa", IpaInv, NEW f \in Functions,
           Ipa!Introduced(f) \/ Ipa!Analyzing(f) \/ Ipa!AliasCall(f)
    PROVE  IpaInv'
<1>1. /\ file = "icf" /\ file' = file /\ wraps' = wraps /\ parsed' = parsed /\ IcfInv
      /\ wraps \in [Functions -> Functions \cup {0}] /\ \A g \in Functions : wraps[g] # g
  BY DEF IpaInv, Ipa!Introduced, Ipa!Analyzing, Ipa!AliasCall, Ipa!Show
<1>2. CASE Ipa!Introduced(f)
  <2> DEFINE d == [line |-> "introduced", fn |-> f]
  <2>1. d \in IcfLines /\ shown' = Append(shown, d) /\ d.line = "introduced" /\ d.fn = f
    BY <1>2 DEF Ipa!Introduced, Ipa!Show, IcfLines
  <2>2. winners' = winners \cup {f} /\ currentFn' = currentFn /\ losersOf' = losersOf
    BY <1>2 DEF Ipa!Introduced
  <2>3. /\ shown' \in Seq(IcfLines)
        /\ Ipa!ShownOf("introduced")' = Ipa!ShownOf("introduced") \cup {f}
        /\ \A g \in Functions :
              Seen(g)' => Seen(g) \/ d = [line |-> "alias", fn |-> wraps[g]]
    <3> HIDE DEF d
    <3> QED
      BY <1>1, <2>1, IcfShows
  <2>4. SubjectKnown'
    <3> HIDE DEF d
    <3> QED
      BY <1>1, <2>1, <2>2, IcfSubject
  <2>5. \A g \in Functions : Seen(g)' => Seen(g)
    BY <2>1, <2>3
  <2>6. IcfInv'
    BY <1>1, <2>2, <2>3, <2>4, <2>5 DEF IcfInv
  <2> QED
    BY <1>1, <2>6 DEF IpaInv
<1>3. CASE Ipa!Analyzing(f)
  <2> DEFINE d == [line |-> "analyzing", fn |-> f]
  <2>1. d \in IcfLines /\ shown' = Append(shown, d) /\ d.line = "analyzing" /\ d.fn = f
    BY <1>3 DEF Ipa!Analyzing, Ipa!Show, IcfLines
  <2>2. winners' = winners /\ currentFn' = f /\ losersOf' = losersOf
    BY <1>3 DEF Ipa!Analyzing
  <2>3. /\ shown' \in Seq(IcfLines)
        /\ Ipa!ShownOf("introduced")' = Ipa!ShownOf("introduced")
        /\ \A g \in Functions :
              Seen(g)' => Seen(g) \/ d = [line |-> "alias", fn |-> wraps[g]]
    <3> HIDE DEF d
    <3> QED
      BY <1>1, <2>1, IcfShows
  <2>4. SubjectKnown'
    <3>1. d = [line |-> "analyzing", fn |-> currentFn']
      BY <2>2
    <3> HIDE DEF d
    <3> QED
      BY <1>1, <2>1, <3>1, IcfSubject
  <2>5. \A g \in Functions : Seen(g)' => Seen(g)
    BY <2>1, <2>3
  <2>6. IcfInv'
    BY <1>1, <2>2, <2>3, <2>4, <2>5 DEF IcfInv
  <2> QED
    BY <1>1, <2>6 DEF IpaInv
<1>4. CASE Ipa!AliasCall(f)
  <2> DEFINE d == [line |-> "alias", fn |-> f]
  <2>1. d \in IcfLines /\ shown' = Append(shown, d) /\ d.line = "alias" /\ d.fn = f
    BY <1>4 DEF Ipa!AliasCall, Ipa!Show, IcfLines
  <2>2. /\ winners' = winners /\ currentFn' = currentFn
        /\ losersOf' = [losersOf EXCEPT ![f] = @ \cup Ipa!Attributed(f)]
        /\ currentFn # 0 /\ (currentFn = f \/ wraps[currentFn] = f)
    BY <1>1, <1>4, SubjectIs DEF Ipa!AliasCall
  <2>3. /\ shown' \in Seq(IcfLines)
        /\ Ipa!ShownOf("introduced")' = Ipa!ShownOf("introduced")
        /\ \A g \in Functions :
              Seen(g)' => \/ Seen(g)
                          \/ d = [line |-> "alias", fn |-> wraps[g]] /\ currentFn = g
    <3> HIDE DEF d
    <3> QED
      BY <1>1, <2>1, IcfShows
  <2>4. SubjectKnown'
    <3> HIDE DEF d
    <3> QED
      BY <1>1, <2>1, <2>2, IcfSubject
  <2>5. /\ currentFn \in Functions
        /\ Ipa!Attributed(f) = IF currentFn = f THEN {} ELSE {currentFn}
        /\ currentFn # f => wraps[currentFn] = f
    BY <1>1, <2>2 DEF IcfInv, Ipa!Attributed
  <2>6. /\ losersOf \in [Functions -> SUBSET Functions]
        /\ losersOf' \in [Functions -> SUBSET Functions]
        /\ \A w \in Functions : w # f => losersOf'[w] = losersOf[w]
        /\ losersOf'[f] = losersOf[f] \cup Ipa!Attributed(f)
    BY <1>1, <2>2, <2>5 DEF IcfInv
  <2>7. ASSUME NEW w \in Functions, NEW g \in losersOf'[w] PROVE wraps[g] = w
    BY <1>1, <2>5, <2>6, <2>7 DEF IcfInv
  <2>8. ASSUME NEW g \in Functions, Seen(g)' PROVE g \in losersOf'[wraps[g]]
    <3>1. CASE Seen(g)
      <4>1. g \in losersOf[wraps[g]]
        BY <1>1, <3>1 DEF IcfInv
      <4>2. wraps[g] \in Functions
        <5>1. PICK k \in DOMAIN shown : shown[k] = [line |-> "alias", fn |-> wraps[g]]
          BY <3>1 DEF Seen
        <5>2. shown[k] \in IcfLines
          BY <1>1, <5>1 DEF IcfInv
        <5>3. shown[k].fn = wraps[g]
          BY <5>1
        <5> QED
          BY <5>2, <5>3 DEF IcfLines
      <4> QED
        BY <2>6, <4>1, <4>2
    <3>2. CASE d = [line |-> "alias", fn |-> wraps[g]] /\ currentFn = g
      <4>1. wraps[g] = f
        BY <2>1, <3>2
      <4> QED
        BY <1>1, <2>5, <2>6, <3>2, <4>1
    <3> QED
      BY <2>3, <2>8, <3>1, <3>2
  <2>9. IcfInv'
    BY <1>1, <2>2, <2>3, <2>4, <2>6, <2>7, <2>8 DEF IcfInv
  <2> QED
    BY <1>1, <2>9 DEF IpaInv
<1> QED
  BY <1>2, <1>3, <1>4

\* A record that is kept is the decision it tells, and no other is.
LEMMA KeptRecord ==
    ASSUME NEW r \in Ipa!OptRecords
    PROVE  (IF r.inline /\ r.kind \in {"success", "failure"}
            THEN Ipa!FromMessage(r.kind, Ipa!Nodes(r), r.wording) ELSE {})
           = IF r.inline /\ r.kind # "note" /\ r.wording \notin {"one", "other"}
             THEN {Decision(r)} ELSE {}
<1>1. /\ r.inline \in BOOLEAN /\ r.kind \in {"success", "failure", "note"}
      /\ r.wording \in {"->", " into ", " to ", "one", "other"}
      /\ r.caller \in Functions /\ r.callee \in Functions
  BY DEF Ipa!OptRecords, Ipa!Wordings
<1>2. CASE r.wording = "one"
  <2>1. Ipa!Nodes(r) = <<r.callee>>
    BY <1>2 DEF Ipa!Nodes
  <2>2. Len(Ipa!Nodes(r)) = 1
    BY <2>1
  <2> QED
    BY <1>2, <2>2 DEF Ipa!FromMessage
<1>3. CASE r.wording = "->"
  <2>1. Ipa!Nodes(r) = <<r.caller, r.callee>>
    BY <1>3 DEF Ipa!Nodes
  <2>2. /\ Len(Ipa!Nodes(r)) = 2
        /\ Ipa!Nodes(r)[1] = r.caller /\ Ipa!Nodes(r)[2] = r.callee
    BY <2>1
  <2>3. Ipa!FromMessage(r.kind, Ipa!Nodes(r), r.wording) = {Decision(r)}
    BY <1>3, <2>2 DEF Ipa!FromMessage, Decision
  <2> QED
    BY <1>1, <1>3, <2>3
<1>4. CASE r.wording \in {" into ", " to "}
  <2>1. Ipa!Nodes(r) = <<r.callee, r.caller>>
    BY <1>4 DEF Ipa!Nodes
  <2>2. /\ Len(Ipa!Nodes(r)) = 2
        /\ Ipa!Nodes(r)[1] = r.callee /\ Ipa!Nodes(r)[2] = r.caller
    BY <2>1
  <2>3. r.wording # "->"
    BY <1>4
  <2>4. ~(Len(Ipa!Nodes(r)) < 2)
    BY <2>2
  <2>5. Ipa!FromMessage(r.kind, Ipa!Nodes(r), r.wording) =
            {[caller |-> Ipa!Nodes(r)[2], callee |-> Ipa!Nodes(r)[1], inlined |-> r.kind = "success"]}
    BY <1>4, <2>3, <2>4, Zenon DEF Ipa!FromMessage
  <2>6. Ipa!FromMessage(r.kind, Ipa!Nodes(r), r.wording) = {Decision(r)}
    BY <2>2, <2>5 DEF Decision
  <2> QED
    BY <1>1, <1>4, <2>6
<1>5. CASE r.wording = "other"
  <2>1. Ipa!Nodes(r) = <<r.callee, r.caller>>
    BY <1>5 DEF Ipa!Nodes
  <2>2. Len(Ipa!Nodes(r)) = 2
    BY <2>1
  <2>3. Ipa!FromMessage(r.kind, Ipa!Nodes(r), r.wording) = {}
    BY <1>5, <2>2 DEF Ipa!FromMessage
  <2> QED
    BY <1>5, <2>3
<1> QED
  BY <1>1, <1>2, <1>3, <1>4, <1>5

\* A record of an optimization record keeps the invariant.
LEMMA OptStep ==
    ASSUME turn = "ipa", IpaInv, NEW r \in Ipa!OptRecords, Ipa!Record(r)
    PROVE  IpaInv'
<1>1. /\ file = "opt" /\ file' = file /\ wraps' = wraps /\ parsed' = parsed
      /\ shown' = Append(shown, r) /\ shown \in Seq(Ipa!OptRecords)
      /\ inlineRecords = {Decision(q) : q \in Telling}
  BY DEF IpaInv, OptInv, Ipa!Record, Ipa!Show
<1> DEFINE tells(q) == q.inline /\ q.kind # "note" /\ q.wording \notin {"one", "other"}
<1>2. /\ shown' \in Seq(Ipa!OptRecords)
      /\ \A k \in DOMAIN shown : k \in DOMAIN shown' /\ shown'[k] = shown[k]
      /\ Len(shown) + 1 \in DOMAIN shown' /\ shown'[Len(shown) + 1] = r
      /\ \A k \in DOMAIN shown' : k \in DOMAIN shown \/ k = Len(shown) + 1
  BY <1>1
<1>3. Range(shown)' = Range(shown) \cup {r}
  <2>1. Range(shown)' = {shown'[k] : k \in DOMAIN shown'} /\ Range(shown) = {shown[k] : k \in DOMAIN shown}
    BY DEF Range
  <2> QED
    BY <1>2, <2>1, Zenon
<1>4. Telling' = Telling \cup IF tells(r) THEN {r} ELSE {}
  BY <1>3 DEF Telling
<1>5. {Decision(q) : q \in Telling'} =
          inlineRecords \cup IF tells(r) THEN {Decision(r)} ELSE {}
  BY <1>1, <1>4
<1>6. inlineRecords' = inlineRecords \cup
          IF r.inline /\ r.kind \in {"success", "failure"}
          THEN Ipa!FromMessage(r.kind, Ipa!Nodes(r), r.wording) ELSE {}
  BY DEF Ipa!Record
<1>7. inlineRecords' = {Decision(q) : q \in Telling'}
  BY <1>5, <1>6, KeptRecord
<1>8. OptInv'
  BY <1>2, <1>7 DEF OptInv, Decision
<1> QED
  BY <1>1, <1>8 DEF IpaInv

\* The end of the dump, and the other readers, change nothing of it.
LEMMA IpaSame ==
    ASSUME IpaInv, UNCHANGED <<file, wraps, format, shown, currentFn, winners, losersOf,
                               inlineRecords>>, parsed' \in {"reading", "ok", "error"}
    PROVE  IpaInv'
<1>1. Ipa!ShownOf("introduced")' = Ipa!ShownOf("introduced") /\ Telling' = Telling
  BY DEF Ipa!ShownOf, Ipa!ToSet, Telling, Range
<1>2. (\A f \in Functions : Seen(f)' <=> Seen(f)) /\ (SubjectKnown' <=> SubjectKnown)
  BY DEF Seen, SubjectKnown
<1>3. file = "icf" => IcfInv'
  BY <1>1, <1>2 DEF IpaInv, IcfInv
<1>4. file = "opt" => OptInv'
  BY <1>1 DEF IpaInv, OptInv, Decision
<1> QED
  BY <1>3, <1>4 DEF IpaInv

\* Nothing is shown and nothing noted at first.
LEMMA IpaInitially == Init => IpaIInv
<1> SUFFICES ASSUME Init, turn = "ipa" PROVE IpaInv
  BY DEF IpaIInv
<1>1. Ipa!Init
  BY DEF Init
<1>2. /\ shown = <<>> /\ currentFn = 0 /\ winners = {} /\ inlineRecords = {} /\ parsed = "reading"
      /\ losersOf = [w \in Functions |-> {}] /\ file \in {"icf", "opt"}
      /\ wraps \in [Functions -> Functions \cup {0}] /\ \A f \in Functions : wraps[f] # f
  BY <1>1 DEF Ipa!Init
<1>3. DOMAIN shown = {}
  BY <1>2
<1>4. Ipa!ShownOf("introduced") = {} /\ Telling = {} /\ SubjectKnown /\ \A f \in Functions : ~Seen(f)
  BY <1>2, <1>3 DEF Ipa!ShownOf, Ipa!ToSet, Telling, Range, SubjectKnown, Seen
<1>5. IcfInv
  BY <1>2, <1>4 DEF IcfInv
<1>6. OptInv
  BY <1>2, <1>4 DEF OptInv
<1> QED
  BY <1>2, <1>5, <1>6 DEF IpaInv

\* A step of any reader keeps it.
LEMMA IpaStep == FunctionsAssumption /\ IpaIInv /\ [Next]_vars => IpaIInv'
<1> SUFFICES ASSUME FunctionsAssumption, IpaIInv, [Next]_vars, turn' = "ipa" PROVE IpaInv'
  BY DEF IpaIInv
<1>1. CASE ParseIpaDump
  <2>1. turn = "ipa" /\ IpaInv /\ Ipa!Next
    BY <1>1 DEF IpaIInv, ParseIpaDump
  <2>2. ASSUME NEW f \in Functions, Ipa!Introduced(f) \/ Ipa!Analyzing(f) \/ Ipa!AliasCall(f)
        PROVE  IpaInv'
    BY <2>1, <2>2, IcfSteps
  <2>3. ASSUME NEW r \in Ipa!OptRecords, Ipa!Record(r) PROVE IpaInv'
    BY <2>1, <2>3, OptStep
  <2>4. CASE Ipa!Finish \/ Ipa!Done
    <3>1. UNCHANGED <<file, wraps, format, shown, currentFn, winners, losersOf, inlineRecords>>
      BY <2>4 DEF Ipa!Finish, Ipa!Done, Ipa!vars
    <3>2. parsed' \in {"reading", "ok", "error"}
      BY <2>1, <2>4 DEF Ipa!Finish, Ipa!Done, Ipa!vars, IpaInv
    <3> QED
      BY <2>1, <3>1, <3>2, IpaSame
  <2> QED
    BY <2>1, <2>2, <2>3, <2>4 DEF Ipa!Next
<1>2. CASE ~ParseIpaDump
  <2>1. UNCHANGED <<turn, ipa>>
    BY <1>2 DEF Next, ReadLog, ReadMap, ParseCgraph, FilterTargets, ParseIpaDump,
                ReadDwarf, ParseCallSite, vars
  <2> QED
    BY <2>1, IpaSame DEF IpaIInv, IpaInv, ipa
<1> QED
  BY <1>1, <1>2

\* For every dump, every order of tables and of interrupting lines: a symbol's
\* flags are those printed under its own headers, its call list is the latest of
\* the longest ones; and the foldings and inlining decisions read off the other
\* dumps are GCC's own, no caller taken for its callee (cgraph.go, icf.go,
\* optrecord.go).
THEOREM DumpsAlwaysExact == Spec => []DumpsAreExact
<1>1. DumpIInv /\ IpaIInv => DumpsAreExact
  BY DumpImplies, IpaImplies DEF DumpIInv, IpaIInv, DumpsAreExact
<1>2. Init => DumpIInv /\ IpaIInv
  BY DumpInitially, IpaInitially
<1>3. DumpIInv /\ IpaIInv /\ [Next]_vars => (DumpIInv /\ IpaIInv)'
  BY DumpStep, IpaStep, FunctionsAssumption
<1> QED
  BY <1>1, <1>2, <1>3, PTL DEF Spec

-----------------------------------------------------------------------------
(* The target of an indirect call.                                         *)

\* The registers used grow with the parameters as the recursion says.
LEMMA UsedIs ==
    ASSUME NEW x, Len(x.params) \in Nat, \A k \in 1..Len(x.params) : Call!Width(x.params[k]) \in 0..6
    PROVE  /\ Call!Used(x)[0] = IF x.returns = "large" THEN 1 ELSE 0
           /\ \A k \in 1..Len(x.params) : Call!Used(x)[k] = Call!Taken(Call!Used(x)[k - 1], x.params[k])
           /\ \A k \in 0..Len(x.params) : Call!Used(x)[k] \in 0..6
<1> DEFINE n == Len(x.params)
           a == IF x.returns = "large" THEN 1 ELSE 0
           g == [k \in 1..n |-> [v \in 0..6 |-> Call!Taken(v, x.params[k])]]
           E(f) == [k \in 0..n |-> IF k = 0 THEN IF x.returns = "large" THEN 1 ELSE 0 
                                   ELSE Call!Taken(f[k - 1], x.params[k])]
<1>1. ASSUME NEW k \in 1..n, NEW v \in 0..6 PROVE Call!Taken(v, x.params[k]) \in 0..6
  <2> DEFINE w == Call!Width(x.params[k])
  <2>1. w \in 0..6
    OBVIOUS
  <2> HIDE DEF w
  <2>2. (IF v + w <= 6 THEN v + w ELSE v) \in 0..6
    BY <2>1
  <2> QED
    BY <2>2 DEF Call!Taken, w
<1>2. g \in [1..n -> [0..6 -> 0..6]] /\ a \in 0..6 /\ n \in Nat
  BY <1>1
<1>3. PICK f \in [0..n -> 0..6] : f[0] = a /\ \A j \in 1..n : f[j] = g[j][f[j - 1]]
  <2> DEFINE V == 0..6
  <2>1. g \in [1..n -> [V -> V]] /\ a \in V /\ n \in Nat
    BY <1>2
  <2> HIDE DEF g, a, n, V
  <2>2. \E f \in [0..n -> V] : f[0] = a /\ \A j \in 1..n : f[j] = g[j][f[j - 1]]
    BY <2>1, Recursion
  <2> QED
    BY <2>2 DEF V
<1>4. \A j \in 1..n : j - 1 \in 0..n /\ j \in 0..n /\ f[j - 1] \in 0..6
  BY <1>2, <1>3
<1>5. \A j \in 1..n : f[j] = Call!Taken(f[j - 1], x.params[j])
  BY <1>3, <1>4
<1>6. \A k \in 0..n : k = 0 \/ k \in 1..n
  BY <1>2
<1>7. f = E(f)
  BY <1>3, <1>5, <1>6
<1>8. Call!Used(x) = CHOOSE h : h = E(h)
  BY Zenon DEF Call!Used
<1>9. Call!Used(x) = E(Call!Used(x))
  <2> HIDE DEF E
  <2> QED
    BY <1>7, <1>8
<1>10. DOMAIN Call!Used(x) = 0..n
  BY <1>9, Zenon
<1>11. \A k \in 0..n : Call!Used(x)[k] = IF k = 0 THEN a ELSE Call!Taken(Call!Used(x)[k - 1], x.params[k])
  BY <1>9, Zenon
<1>12. Call!Used(x)[0] = a /\ \A k \in 1..n : Call!Used(x)[k] = Call!Taken(Call!Used(x)[k - 1], x.params[k])
  BY <1>2, <1>11
<1>13. \A k \in 0..n : Call!Used(x)[k] \in 0..6
  <2> DEFINE S == {k \in 0..n : Call!Used(x)[k] \in 0..6}
  <2>1. 0 \in S
    BY <1>2, <1>12
  <2>2. ASSUME NEW k \in 0..n, k < n, k \in S PROVE k + 1 \in S
    <3>1. k + 1 \in 1..n /\ k + 1 - 1 = k /\ k + 1 \in 0..n
      BY <1>2, <2>2
    <3>2. Call!Used(x)[k + 1] = Call!Taken(Call!Used(x)[k], x.params[k + 1])
      BY <1>12, <3>1
    <3> QED
      BY <1>1, <2>2, <3>1, <3>2
  <2> HIDE DEF S
  <2>3. \A k \in 0..n : k \in S
    BY <1>2, <2>1, <2>2, IntervalInduction
  <2> QED
    BY <2>3 DEF S
<1> QED
  BY <1>12, <1>13

\* The parameters of a call's function.
LEMMA SiteParams ==
    ASSUME NEW x \in Sites
    PROVE  /\ x.params \in Seq({"fn", "int", "float", "int128", "pair", "memory"})
           /\ Len(x.params) \in Nat /\ DOMAIN x.params = 1..Len(x.params)
           /\ \A m \in 1..Len(x.params) : Call!Width(x.params[m]) \in 0..6
<1>1. x.params \in Seq({"fn", "int", "float", "int128", "pair", "memory"})
  BY SitesAssumption, Zenon
<1>2. \A c : Call!Width(c) \in 0..6
  BY DEF Call!Width
<1> QED
  BY <1>1, <1>2

\* No parameter takes fewer than the ones before it.
LEMMA UsedGrows ==
    ASSUME NEW x \in Sites, NEW j \in 0..Len(x.params), NEW k \in 0..Len(x.params), j <= k
    PROVE  Call!Used(x)[j] <= Call!Used(x)[k]
<1> DEFINE n == Len(x.params)
           u == Call!Used(x)
<1>1. n \in Nat /\ \A m \in 1..n : Call!Width(x.params[m]) \in 0..6
  BY SiteParams
<1>2. /\ \A m \in 1..n : u[m] = Call!Taken(u[m - 1], x.params[m])
      /\ \A m \in 0..n : u[m] \in 0..6
  BY <1>1, UsedIs
<1> DEFINE S == {m \in 0..n : m < j \/ u[j] <= u[m]}
<1> HIDE DEF u
<1>3. 0 \in S
  BY <1>1, <1>2
<1>4. ASSUME NEW m \in 0..n, m < n, m \in S PROVE m + 1 \in S
  <2>1. m + 1 \in 1..n /\ m + 1 - 1 = m /\ m + 1 \in 0..n
    BY <1>1, <1>4
  <2> DEFINE w == Call!Width(x.params[m + 1])
  <2>2. w \in 0..6
    BY <1>1, <2>1
  <2>3. u[m + 1] = IF u[m] + w <= 6 THEN u[m] + w ELSE u[m]
    BY <1>2, <2>1 DEF Call!Taken
  <2> HIDE DEF w
  <2>4. u[m] \in 0..6 /\ u[j] \in 0..6
    BY <1>2
  <2>5. u[m] <= u[m + 1]
    BY <2>2, <2>3, <2>4
  <2>6. CASE m < j /\ m + 1 # j
    BY <2>1, <2>6
  <2>7. CASE m + 1 = j
    BY <2>1, <2>4, <2>7
  <2>8. CASE ~(m < j)
    <3>1. u[j] <= u[m]
      BY <1>4, <2>8
    <3>2. u[m + 1] \in 0..6
      BY <1>2, <2>1
    <3> QED
      BY <2>1, <2>4, <2>5, <3>1, <3>2
  <2> QED
    BY <2>6, <2>7, <2>8
<1>5. \A m \in 0..n : m \in S
  <2> HIDE DEF S, n
  <2> QED
    BY <1>1, <1>3, <1>4, IntervalInduction
<1> QED
  BY <1>1, <1>5 DEF u

\* Parameters of one integer register each take the registers in their order.
LEMMA UsedByIntegers ==
    ASSUME NEW x \in Sites, x.returns # "large", NEW k \in 0..Len(x.params), k <= 6,
           \A m \in 1..k : x.params[m] \in {"fn", "int"}
    PROVE  \A m \in 0..k : Call!Used(x)[m] = m
<1> DEFINE n == Len(x.params)
           u == Call!Used(x)
<1>1. n \in Nat /\ \A m \in 1..n : Call!Width(x.params[m]) \in 0..6
  BY SiteParams
<1>2. u[0] = 0 /\ \A m \in 1..n : u[m] = Call!Taken(u[m - 1], x.params[m])
  BY <1>1, UsedIs
<1> DEFINE S == {m \in 0..k : u[m] = m}
<1> HIDE DEF u
<1>3. 0 \in S /\ k \in Nat
  BY <1>1, <1>2
<1>4. ASSUME NEW m \in 0..k, m < k, m \in S PROVE m + 1 \in S
  <2>1. m + 1 \in 1..n /\ m + 1 - 1 = m /\ m + 1 \in 1..k /\ m + 1 <= 6
    BY <1>1, <1>4
  <2>2. Call!Width(x.params[m + 1]) = 1
    BY <2>1 DEF Call!Width
  <2>3. u[m + 1] = IF u[m] + 1 <= 6 THEN u[m] + 1 ELSE u[m]
    BY <1>2, <2>1, <2>2 DEF Call!Taken
  <2>4. u[m + 1] = m + 1
    BY <1>4, <2>1, <2>3
  <2> QED
    BY <2>1, <2>4
<1>5. \A m \in 0..k : m \in S
  <2> HIDE DEF S
  <2> QED
    BY <1>3, <1>4, IntervalInduction
<1> QED
  BY <1>5 DEF u

\* The register a parameter's pointer came in tells the parameter.
LEMMA ParamTold ==
    ASSUME NEW x \in Sites, x.machine = "amd64"
    PROVE  /\ \A p \in Call!ViaCallTarget(x) : p = x.via
           /\ x.via.kind = "param" /\ Call!Replayable(x) => x.via \in Call!ViaCallTarget(x)
<1> DEFINE n == Len(x.params)
           u == Call!Used(x)
           R == Call!argRegOrder
<1>1. /\ n \in Nat /\ DOMAIN x.params = 1..n /\ \A m \in 1..n : Call!Width(x.params[m]) \in 0..6
  BY SiteParams
<1>2. \A m \in 0..n : u[m] \in 0..6
  BY <1>1, UsedIs
<1>3. \A a, b \in 1..6 : R[a] = R[b] => a = b
  BY DEF Call!argRegOrder
<1>4. /\ x.saved.form \in {"plain", "none"}
      /\ x.saved.form = "plain" => \A k \in 1..6 : R[k] # x.saved.reg
  BY SitesAssumption, Zenon
<1>5. \A k, reg : k \in Call!ArgIndex(x, reg) <=>
          /\ k \in 1..n /\ k <= 6 /\ R[k] = reg
          /\ \A j \in 1..k : x.typed /\ x.params[j] \in {"fn", "int"}
  BY <1>1 DEF Call!ArgIndex, Call!IsIntegerClass
<1>6. x.via.kind = "param" => \E k \in 1..n : x.via = Call!Param(k) /\ x.via.k = k /\ x.params[k] = "fn"
  <2>1. \/ x.via = Call!Untold
        \/ \E k \in DOMAIN x.params : x.via = Call!Param(k) /\ x.params[k] = "fn"
        \/ x.via.kind = "member"
    BY SitesAssumption, Zenon
  <2>2. Call!Untold.kind = "untold" /\ \A k : Call!Param(k).k = k
    BY DEF Call!Untold, Call!Param
  <2> HIDE DEF n, u, R
  <2>3. CASE x.via = Call!Untold
    BY <2>2, <2>3
  <2>4. ASSUME NEW k \in DOMAIN x.params, x.via = Call!Param(k), x.params[k] = "fn"
        PROVE  k \in 1..n /\ x.via = Call!Param(k) /\ x.via.k = k /\ x.params[k] = "fn"
    BY <1>1, <2>2, <2>4
  <2>5. CASE x.via.kind = "member"
    BY <2>5
  <2> QED
    BY <2>1, <2>3, <2>4, <2>5
<1> HIDE DEF u, R
<1>7. ASSUME NEW p \in Call!ViaCallTarget(x) PROVE p = x.via
  <2>0. PICK reg \in Call!Register(Call!CallTarget(x)) : \E k \in Call!ArgIndex(x, reg) :
            p = Call!Param(k) /\ ~(x.typed /\ x.returns \in {"aggregate", "large"})
    BY <1>7 DEF Call!ViaCallTarget
  <2>1. PICK k \in Call!ArgIndex(x, reg) :
            p = Call!Param(k) /\ ~(x.typed /\ x.returns \in {"aggregate", "large"})
    BY <2>0
  <2>2. /\ k \in 1..n /\ k <= 6 /\ R[k] = reg /\ x.typed
        /\ \A j \in 1..k : x.params[j] \in {"fn", "int"}
    BY <1>5, <2>1
  <2>3. x.via.kind = "param" /\ Call!InRegister(x, x.via.k)
    <3>1. SUFFICES ASSUME ~(x.via.kind = "param" /\ Call!InRegister(x, x.via.k)) PROVE FALSE
      OBVIOUS
    <3>2. Call!CallTarget(x) = x.saved
      BY <3>1 DEF Call!CallTarget
    <3>3. x.saved.form = "plain" /\ reg = x.saved.reg
      BY <1>4, <2>1, <3>2 DEF Call!Register
    <3> QED
      BY <1>4, <2>2, <3>3
  <2>4. PICK v \in 1..n : x.via = Call!Param(v) /\ x.via.k = v
    BY <1>6, <2>3
  <2>5. u[v - 1] < 6 /\ reg = R[u[v - 1] + 1]
    <3>1. u[v - 1] < 6
      BY <2>3, <2>4 DEF Call!InRegister, Call!UsedBefore, u
    <3>2. Call!CallTarget(x) = [form |-> "entry", reg |-> R[u[v - 1] + 1]]
      BY <2>3, <2>4 DEF Call!CallTarget, Call!UsedBefore, u, R
    <3> QED
      BY <2>1, <3>1, <3>2 DEF Call!Register
  <2>6. v - 1 \in 0..n /\ u[v - 1] \in 0..6
    BY <1>1, <1>2
  <2>7. k = u[v - 1] + 1
    BY <1>3, <2>2, <2>5, <2>6
  <2>8. x.returns # "large" /\ k \in 0..n
    BY <1>1, <2>1, <2>2
  <2>9. \A m \in 0..k : u[m] = m
    BY <2>2, <2>8, UsedByIntegers DEF u
  <2>10. CASE v <= k
    <3>1. v - 1 \in 0..k
      BY <2>2, <2>10
    <3> QED
      BY <2>1, <2>4, <2>7, <2>9, <3>1
  <2>11. CASE k < v
    <3>1. k <= v - 1
      BY <2>2, <2>11
    <3>2. u[k] <= u[v - 1]
      BY <2>6, <2>8, <3>1, UsedGrows DEF u
    <3>3. u[k] = k
      BY <2>2, <2>9
    <3> QED
      BY <2>2, <2>6, <2>7, <3>2, <3>3
  <2> QED
    BY <2>2, <2>10, <2>11
<1>8. ASSUME x.via.kind = "param", Call!Replayable(x) PROVE x.via \in Call!ViaCallTarget(x)
  <2>1. PICK v \in 1..n : x.via = Call!Param(v) /\ x.via.k = v /\ x.params[v] = "fn"
    BY <1>6, <1>8
  <2>2. /\ x.typed /\ x.returns = "scalar" /\ v <= 6
        /\ \A j \in 1..v : x.typed /\ x.params[j] \in {"fn", "int"}
    BY <1>8, <2>1 DEF Call!Replayable, Call!IsIntegerClass
  <2>3. v - 1 \in 0..v /\ v \in 0..n
    BY <1>1
  <2>4. u[v - 1] = v - 1
    BY <2>2, <2>3, UsedByIntegers DEF u
  <2>5. Call!InRegister(x, v)
    BY <2>2, <2>4 DEF Call!InRegister, Call!UsedBefore, u
  <2>6. Call!CallTarget(x) = [form |-> "entry", reg |-> R[v]]
    <3>1. v - 1 + 1 = v
      OBVIOUS
    <3> QED
      BY <1>8, <2>1, <2>4, <2>5, <3>1 DEF Call!CallTarget, Call!UsedBefore, u, R
  <2>7. R[v] \in Call!Register(Call!CallTarget(x))
    BY <2>6 DEF Call!Register
  <2>8. v \in Call!ArgIndex(x, R[v])
    BY <1>5, <2>2
  <2> QED
    BY <2>1, <2>2, <2>7, <2>8 DEF Call!ViaCallTarget
<1> QED
  BY <1>7, <1>8

\* A relocation on the call tells the member, where one pointer lies there.
LEMMA MemberTold ==
    ASSUME NEW x \in Sites, x.home = "own", ~Call!Shared(x)
    PROVE  /\ \A p \in Call!ViaReloc(x) : p = x.via
           /\ x.via.kind = "member" /\ x.via.var \in (DOMAIN x.vars) \ x.statics =>
                 x.via \in Call!ViaReloc(x)
<1> DEFINE usable == {r \in Call!RelocAt(x) : Call!SymbolCovers(x) /\ r.sym \in DOMAIN x.vars}
           hits == {r \in usable : Call!MembersAt(x, r) # {} /\ Call!MemberAt(x, r).fn}
           rel == [sym |-> IF x.via.var \in x.statics THEN "" ELSE x.via.var, addend |-> x.via.off - 4]
<1>1. Call!ViaReloc(x) =
          {Call!Member(r.sym, Call!MemberAt(x, r).name, Call!MemberAt(x, r).off) : r \in hits}
  BY Zenon DEF Call!ViaReloc
<1>2. Call!RelocAt(x) = IF x.via.kind # "member" THEN {} ELSE {rel}
  BY DEF Call!RelocAt
<1>3. "" \notin DOMAIN x.vars /\ Call!SymbolCovers(x)
  BY SitesAssumption, Zenon
<1>4. CASE x.via.kind # "member" \/ x.via.var \in x.statics \/ x.via.var \notin DOMAIN x.vars
  <2>0. rel.sym = IF x.via.var \in x.statics THEN "" ELSE x.via.var
    OBVIOUS
  <2>1. usable = {}
    <3> HIDE DEF rel
    <3> QED
      BY <1>2, <1>3, <1>4, <2>0
  <2>2. Call!ViaReloc(x) = {}
    BY <1>1, <2>1
  <2> QED
    BY <1>4, <2>2
<1>5. CASE x.via.kind = "member" /\ x.via.var \notin x.statics /\ x.via.var \in DOMAIN x.vars
  <2> DEFINE ms == x.vars[x.via.var]
  <2>1. rel.sym = x.via.var /\ rel.addend = x.via.off - 4
    BY <1>5
  <2>2. /\ x.via = Call!Member(x.via.var, x.via.name, x.via.off) /\ x.via.off \in Nat
        /\ \E k \in DOMAIN ms : ms[k].fn /\ ms[k].name = x.via.name /\ ms[k].off = x.via.off
    <3>1. \/ x.via = Call!Untold
          \/ \E k \in DOMAIN x.params : x.via = Call!Param(k) /\ x.params[k] = "fn"
          \/ /\ x.via.kind = "member" /\ x.via = Call!Member(x.via.var, x.via.name, x.via.off)
             /\ x.via.off \in Nat
             /\ x.via.var \in DOMAIN x.vars =>
                   \E k \in DOMAIN ms : ms[k].fn /\ ms[k].name = x.via.name /\ ms[k].off = x.via.off
      BY SitesAssumption, Zenon
    <3>2. Call!Untold.kind = "untold" /\ \A k : Call!Param(k).kind = "param"
      BY DEF Call!Untold, Call!Param
    <3>3. x.via # Call!Untold /\ \A k : x.via # Call!Param(k)
      BY <1>5, <3>2
    <3> QED
      BY <1>5, <3>1, <3>3, Zenon
  <2>3. PICK k \in DOMAIN ms : ms[k].fn /\ ms[k].name = x.via.name /\ ms[k].off = x.via.off
    BY <2>2
  <2>4. /\ DOMAIN ms \subseteq Nat
        /\ \A j, h \in DOMAIN ms : ms[j].name = ms[h].name => j = h
    BY <1>5, SitesAssumption, Zenon
  <2>5. \A j \in DOMAIN ms : ms[j].off = x.via.off => ms[j].name = x.via.name
    BY <1>5 DEF Call!Shared, Call!ToSet
  <2> HIDE DEF ms, rel
  <2>6. Call!MembersAt(x, rel) = {k}
    <3>1. Call!MembersAt(x, rel) = {j \in DOMAIN ms : ms[j].off = rel.addend + 4}
      BY <2>1 DEF Call!MembersAt, ms
    <3>2. rel.addend + 4 = x.via.off
      BY <2>1, <2>2
    <3>3. {j \in DOMAIN ms : ms[j].off = x.via.off} = {k}
      BY <2>3, <2>4, <2>5
    <3> QED
      BY <3>1, <3>2, <3>3
  <2>7. Call!MemberAt(x, rel) = ms[k]
    <3>1. k <= k
      BY <2>3, <2>4
    <3>2. (CHOOSE a \in {k} : \A b \in {k} : a <= b) = k
      BY <3>1
    <3> QED
      BY <2>1, <2>6, <3>2 DEF Call!MemberAt, ms
  <2>8. rel \in usable /\ usable = {rel}
    BY <1>2, <1>3, <1>5, <2>1
  <2>9. hits = {rel}
    BY <2>3, <2>6, <2>7, <2>8
  <2>10. Call!ViaReloc(x) = {Call!Member(rel.sym, Call!MemberAt(x, rel).name, Call!MemberAt(x, rel).off)}
    <3> HIDE DEF hits
    <3> QED
      BY <1>1, <2>9
  <2>11. Call!ViaReloc(x) = {x.via}
    BY <2>1, <2>2, <2>3, <2>7, <2>10
  <2> QED
    BY <2>11
<1> QED
  BY <1>4, <1>5

\* What the call dispatches through, as far as the stage has told it: nothing
\* that is wrong, and in the end whatever there is evidence for.
CallInv ==
    /\ site \in Sites
    /\ stage \in {"line", "target", "reloc", "stored", "done"}
    /\ stage \in {"line", "target", "reloc"} => answer = Call!Untold
    /\ stage = "reloc" => site.machine = "amd64" /\ Call!ViaCallTarget(site) = {}
    /\ stage \in {"stored", "done"} /\ place # Call!Nowhere /\ site.home = "own" /\ ~Call!Shared(site) =>
          /\ answer # Call!Untold => answer = site.via
          /\ Call!Told(site) => answer # Call!Untold
    /\ stage = "done" /\ place # Call!Nowhere =>
          candidates = {f \in AddressTaken :
                           answer # Call!Untold => f.signature = Call!CalleeType(site, answer)}

CallIInv == turn = "call" => CallInv

\* A call site starts with nothing told.
LEMMA CallInitially == Init => CallIInv
  BY DEF Init, Call!Init, CallIInv, CallInv

\* Every stage keeps the invariant.
LEMMA CallSteps ==
    ASSUME CallInv, Call!Next
    PROVE  CallInv'
<1>1. CASE Call!ResolveLine
  BY <1>1 DEF CallInv, Call!ResolveLine
<1>2. CASE Call!ResolveViaCallTarget
  <2> DEFINE found == IF site.machine = "amd64" THEN Call!ViaCallTarget(site) ELSE {}
  <2>1. /\ stage = "target" /\ site' = site /\ place' = place /\ candidates' = candidates
        /\ answer' = IF found = {} THEN Call!Untold ELSE CHOOSE p \in found : TRUE
        /\ stage' = IF found # {} \/ site.machine # "amd64" THEN "stored" ELSE "reloc"
    BY <1>2, Zenon DEF Call!ResolveViaCallTarget
  <2>2. site \in Sites
    BY DEF CallInv
  <2>3. \A p \in found : p = site.via
    BY <2>2, ParamTold
  <2>4. answer' # Call!Untold => answer' = site.via
    BY <2>1, <2>3
  <2>5. CASE found # {}
    <3>1. \A p \in found : p.kind = "param"
      BY DEF Call!ViaCallTarget, Call!Param
    <3>2. answer' \in found
      BY <2>1, <2>5
    <3>3. answer' # Call!Untold /\ stage' = "stored"
      BY <2>1, <2>5, <3>1, <3>2 DEF Call!Untold
    <3> QED
      BY <2>1, <2>2, <2>4, <3>3 DEF CallInv
  <2>6. CASE found = {} /\ site.machine = "amd64"
    BY <2>1, <2>2, <2>6 DEF CallInv
  <2>7. CASE found = {} /\ site.machine # "amd64"
    <3>1. ~Call!Told(site)
      BY <2>7 DEF Call!Told, Call!Replayable
    <3> QED
      BY <2>1, <2>2, <2>7, <3>1 DEF CallInv
  <2> QED
    BY <2>5, <2>6, <2>7
<1>3. CASE Call!ResolveViaReloc
  <2>1. /\ stage = "reloc" /\ stage' = "stored" /\ site' = site /\ place' = place
        /\ answer' = IF Call!ViaReloc(site) = {} THEN Call!Untold ELSE CHOOSE m \in Call!ViaReloc(site) : TRUE
    BY <1>3 DEF Call!ResolveViaReloc
  <2>2. site \in Sites /\ site.machine = "amd64" /\ Call!ViaCallTarget(site) = {}
    BY <2>1 DEF CallInv
  <2>3. ASSUME site.home = "own", ~Call!Shared(site)
        PROVE  /\ answer' # Call!Untold => answer' = site.via
               /\ Call!Told(site) => answer' # Call!Untold
    <3>1. \A p \in Call!ViaReloc(site) : p = site.via
      BY <2>2, <2>3, MemberTold
    <3>2. answer' # Call!Untold => answer' = site.via
      BY <2>1, <3>1
    <3>3. ASSUME Call!Told(site) PROVE answer' # Call!Untold
      <4>1. ~(site.via.kind = "param" /\ Call!Replayable(site))
        BY <2>2, ParamTold
      <4>2. site.via.kind = "member" /\ site.via.var \in (DOMAIN site.vars) \ site.statics
        BY <3>3, <4>1 DEF Call!Told
      <4>3. site.via \in Call!ViaReloc(site)
        BY <2>2, <2>3, <4>2, MemberTold
      <4>4. answer' = site.via
        BY <2>1, <3>1, <4>3
      <4> QED
        BY <4>2, <4>4 DEF Call!Untold
    <3> QED
      BY <3>2, <3>3
  <2> QED
    BY <2>1, <2>2, <2>3 DEF CallInv
<1>4. CASE Call!ResolveIndirectCall
  BY <1>4 DEF CallInv, Call!ResolveIndirectCall
<1>5. CASE Call!Done
  BY <1>5 DEF CallInv, Call!Done, Call!vars
<1> QED
  BY <1>1, <1>2, <1>3, <1>4, <1>5 DEF Call!Next

\* A step of any reader keeps it.
LEMMA CallStep ==
    ASSUME CallIInv, [Next]_vars
    PROVE  CallIInv'
<1>1. turn' = turn
  BY DEF Next, vars, ReadLog, ReadMap, ParseCgraph, FilterTargets, ParseIpaDump, ReadDwarf, ParseCallSite
<1>2. SUFFICES ASSUME turn = "call" PROVE CallInv'
  BY <1>1 DEF CallIInv
<1>3. CallInv
  BY <1>2 DEF CallIInv
<1>4. CASE ParseCallSite
  BY <1>3, <1>4, CallSteps DEF ParseCallSite
<1>5. CASE UNCHANGED vars
  BY <1>3, <1>5 DEF vars, call, CallInv
<1> QED
  BY <1>2, <1>4, <1>5 DEF Next, ReadLog, ReadMap, ParseCgraph, FilterTargets, ParseIpaDump, ReadDwarf

\* For every indirect call of an object as GCC writes it, whatever its function's
\* parameters take of the registers: no function the call may reach is missing
\* from the candidates resolve_indirect_call gives, and they are narrowed to the
\* pointer's type wherever the evidence suffices (calltarget.go resolve).
THEOREM CandidatesAlwaysKept == Spec => []CandidatesKept
<1>1. ASSUME CallInv PROVE Call!NoCandidateLost
  <2>1. SUFFICES ASSUME stage = "done", place # Call!Nowhere, site.home = "own", ~Call!Shared(site)
                 PROVE  /\ answer # Call!Untold => answer = site.via
                        /\ Call!Told(site) => candidates =
                              {f \in AddressTaken : f.signature = Call!CalleeType(site, site.via)}
                        /\ ~Call!Told(site) /\ answer = Call!Untold => candidates = AddressTaken
    BY DEF Call!NoCandidateLost
  <2> QED
    BY <1>1, <2>1 DEF CallInv
<1>2. CallIInv => CandidatesKept
  BY <1>1 DEF CallIInv, CandidatesKept
<1> QED
  BY <1>2, CallInitially, CallStep, PTL DEF Spec

-----------------------------------------------------------------------------
(* ReadMap.                                                                *)

\* Nothing is pending.
NoObj == ""

\* What a load list holds, what is noted of it, and a contribution that is not a gap.
LoadEntries == [obj : STRING \ {NoObj}, member : BOOLEAN, short : BOOLEAN,
                by : STRING, byMember : BOOLEAN, sym : STRING]
Pulls == [obj : STRING \cup {NoObj}, by : STRING, sym : STRING]
Contributions == [obj : STRING \ {""}, member : BOOLEAN, split : BOOLEAN, syms : Seq(STRING)]

\* The entry that holds the title under which the sections are listed.
TitleAt(m) == IF m.load = <<>> THEN 1 ELSE Len(m.load) + 2

\* How many lines a contribution's header takes.
HeaderLines(c) == IF c.split THEN 2 ELSE 1

\* The shape of a map.
LEMMA MapShape ==
    ASSUME NEW m \in Maps
    PROVE  /\ m.load \in Seq(LoadEntries) /\ Len(m.load) \in Nat
           /\ Len(m.contribs) \in Nat /\ DOMAIN m.contribs = 1..Len(m.contribs)
           /\ \A k \in 1..Len(m.contribs) :
                 /\ m.contribs[k] \in Contributions => "gap" \notin DOMAIN m.contribs[k]
                 /\ m.contribs[k] \notin Contributions => "gap" \in DOMAIN m.contribs[k]
           /\ \A j, k \in 1..Len(m.contribs) :
                 j # k /\ m.contribs[j] \in Contributions /\ m.contribs[k] \in Contributions =>
                    \A a \in DOMAIN m.contribs[j].syms, b \in DOMAIN m.contribs[k].syms :
                        m.contribs[j].syms[a] # m.contribs[k].syms[b]
<1>1. /\ m.load \in Seq([obj : STRING \ {""}, member : BOOLEAN, short : BOOLEAN,
                         by : STRING, byMember : BOOLEAN, sym : STRING])
      /\ m.contribs \in Seq([obj : STRING \ {""}, member : BOOLEAN, split : BOOLEAN, syms : Seq(STRING)]
                              \cup [gap : {TRUE}])
      /\ \A j, k \in DOMAIN m.contribs :
            /\ j # k /\ "gap" \notin DOMAIN m.contribs[j] /\ "gap" \notin DOMAIN m.contribs[k]
            => \A a \in DOMAIN m.contribs[j].syms, b \in DOMAIN m.contribs[k].syms :
                  m.contribs[j].syms[a] # m.contribs[k].syms[b]
  BY MapsAssumption, Zenon
<1>2. m.load \in Seq(LoadEntries) /\ m.contribs \in Seq(Contributions \cup [gap : {TRUE}])
  BY <1>1, Zenon DEF LoadEntries, NoObj, Contributions
<1>3. \A c \in Contributions : "gap" \notin DOMAIN c
  BY DEF Contributions
<1>4. \A c \in [gap : {TRUE}] : "gap" \in DOMAIN c
  OBVIOUS
<1> DEFINE E == Contributions \cup [gap : {TRUE}]
           cs == m.contribs
           ld == m.load
<1>5. /\ Len(cs) \in Nat /\ DOMAIN cs = 1..Len(cs)
      /\ \A k \in 1..Len(cs) : cs[k] \in E
  <2>1. cs \in Seq(E)
    BY <1>2
  <2> HIDE DEF E, cs
  <2> QED
    BY <2>1
<1>7. Len(ld) \in Nat
  <2>1. ld \in Seq(LoadEntries)
    BY <1>2
  <2> HIDE DEF ld
  <2> QED
    BY <2>1
<1>6. ASSUME NEW k \in 1..Len(m.contribs)
      PROVE  /\ m.contribs[k] \in Contributions => "gap" \notin DOMAIN m.contribs[k]
             /\ m.contribs[k] \notin Contributions => "gap" \in DOMAIN m.contribs[k]
  BY <1>3, <1>4, <1>5
<1> QED
  BY <1>1, <1>2, <1>3, <1>5, <1>6, <1>7

\* The entries of the text.
LEMMA MapText ==
    ASSUME NEW m \in Maps
    PROVE  /\ TitleAt(m) \in Nat /\ TitleAt(m) >= 1
           /\ DOMAIN Map!Text(m) = 1..TitleAt(m) + Len(m.contribs)
           /\ Len(Map!Text(m)) = TitleAt(m) + Len(m.contribs)
           /\ m.load # <<>> =>
                 /\ Map!Text(m)[1] = <<[is |-> "archives"], [is |-> "blank"]>>
                 /\ \A k \in 1..Len(m.load) : Map!Text(m)[k + 1] = Map!LoadLines(m.load[k])
           /\ Map!Text(m)[TitleAt(m)] = <<[is |-> "title"]>>
           /\ \A k \in 1..Len(m.contribs) :
                 Map!Text(m)[TitleAt(m) + k] = Map!ContribText(m.contribs[k])
<1> DEFINE L == Len(m.load)
           N == Len(m.contribs)
           piece(k) == Map!LoadLines(m.load[k])
           first == <<[is |-> "archives"], [is |-> "blank"]>>
           title == <<[is |-> "title"]>>
           loads == [k \in 1..L |-> piece(k)]
           cs == [k \in 1..N |-> Map!ContribText(m.contribs[k])]
           A == {piece(k) : k \in 1..L} \cup {first, title} \cup {Map!ContribText(m.contribs[k]) : k \in 1..N}
<1>1. L \in Nat /\ N \in Nat /\ DOMAIN m.contribs = 1..N /\ DOMAIN m.load = 1..L /\ (L = 0 <=> m.load = <<>>)
  BY MapShape
<1>2. Map!LoadText(m.load) = IF m.load = <<>> THEN <<>> ELSE <<first>> \o loads
  BY <1>1 DEF Map!LoadText
<1>3. Map!Text(m) = Map!LoadText(m.load) \o <<title>> \o cs
  BY <1>1 DEF Map!Text
<1>4. /\ \A k \in 1..L : piece(k) \in A
      /\ first \in A /\ title \in A
      /\ \A k \in 1..N : Map!ContribText(m.contribs[k]) \in A
  OBVIOUS
<1> HIDE DEF A, piece, first, title
<1>5. /\ loads \in Seq(A) /\ Len(loads) = L /\ \A k \in 1..L : loads[k] = piece(k)
      /\ cs \in Seq(A) /\ Len(cs) = N /\ \A k \in 1..N : cs[k] = Map!ContribText(m.contribs[k])
      /\ <<first>> \in Seq(A) /\ Len(<<first>>) = 1 /\ <<first>>[1] = first
      /\ <<title>> \in Seq(A) /\ Len(<<title>>) = 1 /\ <<title>>[1] = title
  BY <1>1, <1>4
<1> HIDE DEF loads, cs
<1> DEFINE lt == Map!LoadText(m.load)
<1>6. /\ lt \in Seq(A) /\ Len(lt) = TitleAt(m) - 1 /\ TitleAt(m) \in Nat /\ TitleAt(m) >= 1
      /\ m.load # <<>> => lt[1] = first /\ \A k \in 1..L : lt[k + 1] = piece(k)
  <2>1. CASE m.load = <<>>
    BY <1>2, <2>1 DEF TitleAt
  <2>2. CASE m.load # <<>>
    <3>1. /\ <<first>> \o loads \in Seq(A) /\ Len(<<first>> \o loads) = 1 + L
          /\ \A x \in 1..1 : (<<first>> \o loads)[x] = <<first>>[x]
          /\ \A r \in 1..L : (<<first>> \o loads)[1 + r] = loads[r]
      BY <1>5
    <3> QED
      BY <1>1, <1>2, <1>5, <2>2, <3>1 DEF TitleAt
  <2> QED
    BY <2>1, <2>2
<1> HIDE DEF lt
<1> DEFINE h == lt \o <<title>>
<1>7. /\ h \in Seq(A) /\ Len(h) = TitleAt(m)
      /\ \A x \in 1..TitleAt(m) - 1 : h[x] = lt[x]
      /\ h[TitleAt(m)] = title
  BY <1>5, <1>6
<1> HIDE DEF h
<1>8. /\ DOMAIN (h \o cs) = 1..TitleAt(m) + N /\ Len(h \o cs) = TitleAt(m) + N
      /\ \A x \in 1..TitleAt(m) : (h \o cs)[x] = h[x]
      /\ \A r \in 1..N : (h \o cs)[TitleAt(m) + r] = cs[r]
  <2> DEFINE T == TitleAt(m)
             N1 == Len(cs)
  <2>1. h \in Seq(A) /\ cs \in Seq(A) /\ Len(h) = T /\ N1 = N
    BY <1>5, <1>7
  <2>2. /\ DOMAIN (h \o cs) = 1..Len(h) + Len(cs) /\ h \o cs \in Seq(A)
        /\ \A x \in 1..Len(h) : (h \o cs)[x] = h[x]
        /\ \A r \in 1..Len(cs) : (h \o cs)[Len(h) + r] = cs[r]
    <3>1. h \in Seq(A) /\ cs \in Seq(A)
      BY <2>1
    <3> HIDE DEF L, N, T, N1
    <3> QED
      BY ONLY <3>1, Concatenated
  <2>3. Len(h \o cs) = Len(h) + Len(cs)
    BY <2>1
  <2> QED
    BY <2>1, <2>2, <2>3, Zenon
<1>9. Map!Text(m) = h \o cs
  BY <1>3 DEF h, lt
<1> HIDE DEF L, N
<1>10. m.load # <<>> => Map!Text(m)[1] = first /\ \A k \in 1..L : Map!Text(m)[k + 1] = piece(k)
  <2>1. ASSUME m.load # <<>> PROVE TitleAt(m) = L + 2 /\ L >= 1
    BY <1>1, <2>1 DEF TitleAt, L
  <2>2. ASSUME m.load # <<>>, NEW k \in 1..L PROVE Map!Text(m)[k + 1] = piece(k)
    <3>1. k + 1 \in 1..TitleAt(m) - 1 /\ k + 1 \in 1..TitleAt(m)
      BY <1>1, <2>1, <2>2
    <3>2. (h \o cs)[k + 1] = h[k + 1] /\ h[k + 1] = lt[k + 1] /\ lt[k + 1] = piece(k)
      BY <1>6, <1>7, <1>8, <2>2, <3>1, Zenon
    <3> QED
      BY <1>9, <3>2, Zenon
  <2>3. ASSUME m.load # <<>> PROVE Map!Text(m)[1] = first
    <3>1. 1 \in 1..TitleAt(m) - 1 /\ 1 \in 1..TitleAt(m)
      BY <1>1, <2>1, <2>3
    <3>2. (h \o cs)[1] = h[1] /\ h[1] = lt[1] /\ lt[1] = first
      BY <1>6, <1>7, <1>8, <2>3, <3>1, Zenon
    <3> QED
      BY <1>9, <3>2, Zenon
  <2> QED
    BY <2>2, <2>3, Zenon
<1>11. Map!Text(m)[TitleAt(m)] = title
  <2>1. TitleAt(m) \in 1..TitleAt(m)
    BY <1>6
  <2> QED
    BY <1>7, <1>8, <1>9, <2>1, Zenon
<1> QED
  BY <1>5, <1>6, <1>8, <1>9, <1>10, <1>11 DEF L, N, piece, first, title

\* The lines of an entry.
LEMMA ContribLines ==
    ASSUME NEW c \in Contributions
    PROVE  /\ HeaderLines(c) \in 1..2 /\ Len(c.syms) \in Nat /\ DOMAIN c.syms = 1..Len(c.syms)
           /\ Len(Map!ContribText(c)) = HeaderLines(c) + Len(c.syms)
           /\ ~c.split => Map!ContribText(c)[1] = [is |-> "contrib", obj |-> c.obj, member |-> c.member]
           /\ c.split => /\ Map!ContribText(c)[1] = [is |-> "head"]
                         /\ Map!ContribText(c)[2] = [is |-> "tail", obj |-> c.obj, member |-> c.member]
           /\ \A k \in 1..Len(c.syms) :
                 Map!ContribText(c)[HeaderLines(c) + k] = [is |-> "sym", name |-> c.syms[k]]
<1> DEFINE one == [is |-> "contrib", obj |-> c.obj, member |-> c.member]
           h1 == [is |-> "head"]
           h2 == [is |-> "tail", obj |-> c.obj, member |-> c.member]
           line(k) == [is |-> "sym", name |-> c.syms[k]]
           ls == [k \in 1..Len(c.syms) |-> line(k)]
           A == {one, h1, h2} \cup {line(k) : k \in 1..Len(c.syms)}
           hd == IF c.split THEN <<h1, h2>> ELSE <<one>>
<1>1. c.split \in BOOLEAN /\ Len(c.syms) \in Nat /\ DOMAIN c.syms = 1..Len(c.syms) /\ "gap" \notin DOMAIN c
  <2>1. "gap" \notin DOMAIN c
    BY DEF Contributions
  <2>2. c.split \in BOOLEAN /\ c.syms \in Seq(STRING)
    BY DEF Contributions
  <2> DEFINE s == c.syms
  <2>3. s \in Seq(STRING)
    BY <2>2
  <2> HIDE DEF s
  <2>4. Len(s) \in Nat /\ DOMAIN s = 1..Len(s)
    BY <2>3
  <2> QED
    BY <2>1, <2>2, <2>4 DEF s
<1>2. Map!ContribText(c) = hd \o ls
  BY <1>1 DEF Map!ContribText, Map!SymText
<1>3. one \in A /\ h1 \in A /\ h2 \in A /\ \A k \in 1..Len(c.syms) : line(k) \in A
  OBVIOUS
<1> HIDE DEF one, h1, h2, line, A
<1>4. ls \in Seq(A) /\ Len(ls) = Len(c.syms) /\ \A k \in 1..Len(c.syms) : ls[k] = line(k)
  BY <1>1, <1>3
<1>5. CASE c.split
  <2>1. hd = <<h1, h2>> /\ HeaderLines(c) = 2
    BY <1>5 DEF HeaderLines
  <2>2. <<h1, h2>> \in Seq(A) /\ Len(<<h1, h2>>) = 2 /\ <<h1, h2>>[1] = h1 /\ <<h1, h2>>[2] = h2
    BY <1>3
  <2> HIDE DEF ls, hd
  <2>3. /\ Len(hd \o ls) = 2 + Len(c.syms)
        /\ (hd \o ls)[1] = h1 /\ (hd \o ls)[2] = h2
        /\ \A k \in 1..Len(c.syms) : (hd \o ls)[2 + k] = line(k)
    BY <1>1, <1>4, <2>1, <2>2
  <2> QED
    BY <1>1, <1>2, <1>5, <2>1, <2>3 DEF h1, h2, line
<1>6. CASE ~c.split
  <2>1. hd = <<one>> /\ HeaderLines(c) = 1
    BY <1>6 DEF HeaderLines
  <2>2. <<one>> \in Seq(A) /\ Len(<<one>>) = 1 /\ <<one>>[1] = one
    BY <1>3
  <2> HIDE DEF ls, hd
  <2>3. /\ Len(hd \o ls) = 1 + Len(c.syms)
        /\ (hd \o ls)[1] = one
        /\ \A k \in 1..Len(c.syms) : (hd \o ls)[1 + k] = line(k)
    BY <1>1, <1>4, <2>1, <2>2
  <2> QED
    BY <1>1, <1>2, <1>6, <2>1, <2>3 DEF one, line
<1> QED
  BY <1>5, <1>6

\* Where the scan is: an entry of the text and a line of it.
MapPlace ==
    /\ map \in Maps /\ cursor = <<cursor[1], cursor[2]>>
    /\ cursor[1] \in Nat /\ cursor[2] \in Nat /\ cursor[1] >= 1 /\ cursor[2] >= 1
    /\ cursor[1] <= TitleAt(map) + Len(map.contribs) + 1
    /\ cursor[1] <= TitleAt(map) + Len(map.contribs) => cursor[2] <= Len(Map!Text(map)[cursor[1]])
    /\ cursor[1] > TitleAt(map) + Len(map.contribs) => cursor[2] = 1

\* The phase the scan is in: it stays in the first when there is no load list.
MapPhase ==
    phase = IF map.load = <<>> \/ cursor = <<1, 1>> THEN 0
            ELSE IF cursor[1] <= TitleAt(map) THEN 1 ELSE 2

\* The entries of the load list that the expressions read and the scan has left.
ReadBy(m, n) == {k \in 1..Len(m.load) : k + 1 < n /\ Map!Readable(m.load[k])}

PullsOf(m) == [k \in 1..Len(m.load) |-> Map!PullOf(m.load[k])]

\* No entry is left pending.
NoneHangs(m) == \A k \in 1..Len(m.load) : ~Map!Hangs(m.load[k])

\* out has those entries; and nothing else, if none is left pending.
Noted(m, n, out) ==
    /\ \A k \in ReadBy(m, n) : \E x \in 1..Len(out) : out[x] = Map!PullOf(m.load[k])
    /\ NoneHangs(m) => InOrder(out, ReadBy(m, n), PullsOf(m))

\* The scan is between the two lines of an entry whose first was matched.
Between(m, n, j) == n - 1 \in 1..Len(m.load) /\ j = 2 /\ ~m.load[n - 1].member

\* The pulls are those of the part of the load list that was scanned, and between
\* the lines of an entry its object is pending.
MapPulls ==
    /\ pulls \in Seq(Pulls) /\ loadObj \in STRING \cup {NoObj}
    /\ Noted(map, cursor[1], pulls)
    /\ phase = 1 /\ Between(map, cursor[1], cursor[2]) => loadObj = map.load[cursor[1] - 1].obj
    /\ phase < 2 /\ ~Between(map, cursor[1], cursor[2]) /\ NoneHangs(map) => loadObj = NoObj

\* Among the symbols of a contribution the scope is its object, or none for a
\* member of an archive.
MapScope ==
    phase = 2 /\ cursor[2] > 1 =>
       LET c == map.contribs[cursor[1] - TitleAt(map)] IN
       /\ c.split /\ cursor[2] = 2 => split
       /\ cursor[2] > HeaderLines(c) =>
             /\ ~c.member => curObj = c.obj
             /\ c.member /\ ~c.split => curObj = ""

\* c lists a symbol of that name, and obj is its object unless it slips.
Lists(c, name, obj) ==
    /\ c \in Contributions
    /\ \E a \in 1..Len(c.syms) : c.syms[a] = name
    /\ ~(c.member /\ c.split) => obj = c.obj

\* The line of symbol a of contribution k lies before the cursor.
Passed(m, k, a, n, j) ==
    \/ k < n - TitleAt(m)
    \/ k = n - TitleAt(m) /\ a + HeaderLines(m.contribs[k]) < j

\* Every origin is that of a symbol listed, and the symbols of the plain objects
\* that were scanned have one.
MapOrigins ==
    /\ phase < 2 => DOMAIN origin = {}
    /\ \A name \in DOMAIN origin :
          \E k \in 1..Len(map.contribs) : Lists(map.contribs[k], name, origin[name])
    /\ phase = 2 =>
          \A k \in 1..Len(map.contribs) :
             map.contribs[k] \in Contributions /\ ~map.contribs[k].member =>
                \A a \in 1..Len(map.contribs[k].syms) :
                   Passed(map, k, a, cursor[1], cursor[2]) => map.contribs[k].syms[a] \in DOMAIN origin

MapInv == MapPlace /\ MapPhase /\ MapPulls /\ MapScope /\ MapOrigins

MapIInv == turn = "map" => MapInv

\* What an entry is, by where it stands.
LEMMA MapLines ==
    ASSUME NEW m \in Maps, NEW n \in Nat, n >= 1, n <= TitleAt(m) + Len(m.contribs)
    PROVE  LET t == Map!Text(m)[n]
               T == TitleAt(m)
               c == m.contribs[n - T]
           IN
           /\ Len(t) \in Nat /\ Len(t) >= 1
           /\ n = 1 /\ m.load # <<>> =>
                 n < T /\ Len(t) = 2 /\ t[1].is = "archives" /\ t[2].is = "blank"
           /\ n > 1 /\ n < T =>
                 m.load # <<>> /\ n - 1 \in 1..Len(m.load) /\ t = Map!LoadLines(m.load[n - 1])
           /\ n = T => Len(t) = 1 /\ t[1].is = "title"
           /\ n > T =>
                 /\ n - T \in 1..Len(m.contribs)
                 /\ c \notin Contributions => Len(t) = 1 /\ t[1].is = "output"
                 /\ c \in Contributions => t = Map!ContribText(c)
<1> DEFINE t == Map!Text(m)[n]
           T == TitleAt(m)
           N == Len(m.contribs)
           L == Len(m.load)
           c == m.contribs[n - T]
<1>1. /\ T \in Nat /\ T >= 1 /\ N \in Nat /\ L \in Nat
      /\ m.load = <<>> => T = 1
      /\ m.load # <<>> => T = L + 2
  BY MapText, MapShape DEF TitleAt
<1>2. ASSUME n = 1, m.load # <<>>
      PROVE  n < T /\ Len(t) = 2 /\ t[1].is = "archives" /\ t[2].is = "blank"
  <2>1. t = <<[is |-> "archives"], [is |-> "blank"]>>
    BY <1>2, MapText
  <2> QED
    BY <1>1, <1>2, <2>1
<1>3. ASSUME n > 1, n < T
      PROVE  /\ m.load # <<>> /\ n - 1 \in 1..L /\ t = Map!LoadLines(m.load[n - 1])
             /\ Len(t) \in Nat /\ Len(t) >= 1
  <2>1. m.load # <<>> /\ n - 1 \in 1..L /\ (n - 1) + 1 = n
    BY <1>1, <1>3
  <2>2. t = Map!LoadLines(m.load[n - 1])
    BY <2>1, MapText
  <2>3. Len(t) = IF m.load[n - 1].short THEN 1 ELSE 2
    BY <2>2 DEF Map!LoadLines
  <2> HIDE DEF t
  <2>4. Len(t) = 1 \/ Len(t) = 2
    BY <2>3, Zenon
  <2>5. Len(t) \in Nat /\ Len(t) >= 1
    <3>1. \A z : z = 1 \/ z = 2 => z \in Nat /\ z >= 1
      OBVIOUS
    <3> QED
      BY <2>4, <3>1, Zenon
  <2> QED
    BY <2>1, <2>2, <2>5, Zenon
<1>4. ASSUME n = T PROVE Len(t) = 1 /\ t[1].is = "title"
  <2>1. t = <<[is |-> "title"]>>
    BY <1>4, MapText
  <2> QED
    BY <2>1
<1>5. ASSUME n > T PROVE n - T \in 1..N /\ t = Map!ContribText(c)
  <2>1. n - T \in 1..N /\ T + (n - T) = n
    BY <1>1, <1>5
  <2> QED
    BY <2>1, MapText
<1>6. ASSUME n > T, c \notin Contributions PROVE Len(t) = 1 /\ t[1].is = "output"
  <2>1. "gap" \in DOMAIN c
    BY <1>5, <1>6, MapShape
  <2>2. t = <<[is |-> "output"]>>
    BY <1>5, <1>6, <2>1 DEF Map!ContribText
  <2> QED
    BY <2>2
<1>7. ASSUME n > T, c \in Contributions PROVE Len(t) \in Nat /\ Len(t) >= 1
  <2>1. /\ HeaderLines(c) \in 1..2 /\ Len(c.syms) \in Nat
        /\ Len(Map!ContribText(c)) = HeaderLines(c) + Len(c.syms)
    <3> HIDE DEF c
    <3> QED
      BY <1>7, ContribLines
  <2>2. t = Map!ContribText(c)
    BY <1>5, <1>7
  <2> HIDE DEF c, t
  <2> QED
    BY <2>1, <2>2
<1>8. Len(t) \in Nat /\ Len(t) >= 1
  <2>1. n = 1 \/ (n > 1 /\ n < T) \/ n = T \/ n > T
    BY <1>1
  <2>2. n = 1 /\ m.load = <<>> => n = T
    BY <1>1
  <2> QED
    BY <1>2, <1>3, <1>4, <1>6, <1>7, <2>1, <2>2
<1> QED
  BY <1>2, <1>3, <1>4, <1>5, <1>6, <1>8

\* A step of the scan goes to the next line, or to the next entry.
LEMMA MapAdvance ==
    ASSUME MapPlace, Map!Advance
    PROVE  /\ cursor[1] <= TitleAt(map) + Len(map.contribs) /\ map' = map
           /\ MapPlace'
           /\ cursor[2] <= Len(Map!Text(map)[cursor[1]])
           /\ cursor[2] < Len(Map!Text(map)[cursor[1]]) =>
                 cursor'[1] = cursor[1] /\ cursor'[2] = cursor[2] + 1
           /\ cursor[2] = Len(Map!Text(map)[cursor[1]]) =>
                 cursor'[1] = cursor[1] + 1 /\ cursor'[2] = 1
<1> DEFINE n == cursor[1]
           j == cursor[2]
           E == TitleAt(map) + Len(map.contribs)
           Ln(x) == Len(Map!Text(map)[x])
<1>1. n \in Nat /\ j \in Nat /\ n >= 1 /\ j >= 1 /\ map \in Maps
  BY DEF MapPlace
<1>2. E \in Nat /\ Len(Map!Text(map)) = E
  BY <1>1, MapText, MapShape
<1>3. n <= E /\ map' = map
  BY <1>1, <1>2 DEF Map!Advance, Map!AtEnd
<1>4. \A x \in Nat : x >= 1 /\ x <= E => Ln(x) \in Nat /\ Ln(x) >= 1
  BY <1>1, MapLines
<1>5. j <= Ln(n) /\ Ln(n) \in Nat
  BY <1>1, <1>3, <1>4 DEF MapPlace
<1>6. cursor' = IF j < Ln(n) THEN <<n, j + 1>> ELSE <<n + 1, 1>>
  BY DEF Map!Advance
<1>7. /\ cursor' = <<cursor'[1], cursor'[2]>> /\ cursor'[1] \in Nat /\ cursor'[2] \in Nat
      /\ cursor'[1] >= 1 /\ cursor'[2] >= 1
      /\ j < Ln(n) => cursor'[1] = n /\ cursor'[2] = j + 1
      /\ ~(j < Ln(n)) => cursor'[1] = n + 1 /\ cursor'[2] = 1
  <2>1. CASE j < Ln(n)
    <3>1. cursor' = <<n, j + 1>>
      BY <1>6, <2>1
    <3> QED
      BY <1>1, <2>1, <3>1
  <2>2. CASE ~(j < Ln(n))
    <3>1. cursor' = <<n + 1, 1>>
      BY <1>6, <2>2
    <3> QED
      BY <1>1, <2>2, <3>1
  <2> QED
    BY <2>1, <2>2
<1> HIDE DEF E, Ln
<1>8. /\ cursor'[1] <= E + 1
      /\ cursor'[1] <= E => cursor'[2] <= Ln(cursor'[1])
      /\ cursor'[1] > E => cursor'[2] = 1
  BY <1>1, <1>2, <1>3, <1>4, <1>5, <1>7
<1>9. MapPlace'
  BY <1>1, <1>3, <1>7, <1>8 DEF MapPlace, E, Ln
<1> QED
  BY <1>1, <1>3, <1>5, <1>7, <1>9 DEF E, Ln

\* The instance's InOrder is the one of the lemmas.
LEMMA SameMapOrder ==
    ASSUME NEW o, NEW S, NEW f, InOrder(o, S, f)
    PROVE  Map!InOrder(o, S, f)
<1>1. \A T : Map!Cardinality(T) = Cardinality(T)
  BY DEF Cardinality, Map!Cardinality, IsFiniteSet, Map!IsFiniteSet
<1> QED
  BY <1>1 DEF InOrder, Rank, Map!InOrder, Map!Rank

\* Nothing is noted before the list.
LEMMA NotedNothing ==
    ASSUME NEW m
    PROVE  Noted(m, 1, <<>>)
<1>1. ReadBy(m, 1) = {}
  BY DEF ReadBy
<1>2. InOrder(<<>>, {}, PullsOf(m))
  BY InOrderEmpty
<1> QED
  BY <1>1, <1>2 DEF Noted

\* One more entry is scanned: what is noted of it, if anything.
LEMMA NotedStep ==
    ASSUME NEW m \in Maps, NEW k \in 1..Len(m.load), NEW out \in Seq(Pulls), Noted(m, k + 1, out),
           NEW q \in Pulls
    PROVE  /\ ~Map!Readable(m.load[k]) => Noted(m, k + 2, out)
           /\ ~Map!Readable(m.load[k]) /\ ~NoneHangs(m) => Noted(m, k + 2, Append(out, q))
           /\ Map!Readable(m.load[k]) /\ q = Map!PullOf(m.load[k]) => Noted(m, k + 2, Append(out, q))
<1> DEFINE R == ReadBy(m, k + 1)
           R2 == ReadBy(m, k + 2)
           o2 == Append(out, q)
           L == Len(m.load)
           P(e) == Map!Readable(e)
<1>1. L \in Nat /\ k \in Nat
  BY MapShape
<1>2. \A x \in 1..L : x + 1 < k + 2 <=> x + 1 < k + 1 \/ x = k
  BY <1>1
<1>3. ~(k + 1 < k + 1)
  BY <1>1
<1>4. ~P(m.load[k]) => R2 = R
  BY <1>2 DEF ReadBy
<1>5. P(m.load[k]) => R2 = R \cup {k}
  BY <1>2 DEF ReadBy
<1>6. R \in SUBSET Nat /\ \A x \in R : x < k
  BY <1>1 DEF ReadBy
<1>7. IsFiniteSet(R)
  <2>1. R \subseteq 1..L
    BY DEF ReadBy
  <2>2. IsFiniteSet(1..L)
    BY <1>1, RankInterval
  <2> QED
    BY <2>1, <2>2, FS_Subset
<1>8. /\ Len(out) \in Nat /\ Len(o2) = Len(out) + 1 /\ o2[Len(out) + 1] = q
      /\ \A x \in 1..Len(out) : o2[x] = out[x]
  OBVIOUS
<1> HIDE DEF R, R2, o2, P
<1>9. ASSUME NEW x \in R PROVE \E y \in 1..Len(o2) : o2[y] = Map!PullOf(m.load[x])
  <2>1. PICK y \in 1..Len(out) : out[y] = Map!PullOf(m.load[x])
    BY <1>9, Zenon DEF Noted, R
  <2>2. y \in 1..Len(o2) /\ o2[y] = out[y]
    BY <1>8
  <2> QED
    BY <2>1, <2>2
<1>10. ASSUME ~P(m.load[k]) PROVE Noted(m, k + 2, out)
  BY <1>4, <1>10, Zenon DEF Noted, R, R2
<1>11. ASSUME ~P(m.load[k]), ~NoneHangs(m) PROVE Noted(m, k + 2, o2)
  BY <1>4, <1>9, <1>11, Zenon DEF Noted, R2
<1>12. ASSUME P(m.load[k]), q = Map!PullOf(m.load[k]) PROVE Noted(m, k + 2, o2)
  <2>1. ASSUME NEW x \in R2 PROVE \E y \in 1..Len(o2) : o2[y] = Map!PullOf(m.load[x])
    <3>1. CASE x = k
      <4>1. Len(out) + 1 \in 1..Len(o2)
        BY <1>8
      <4> QED
        BY <1>8, <1>12, <3>1, <4>1
    <3> QED
      BY <1>5, <1>9, <1>12, <2>1, <3>1, Zenon
  <2>2. ASSUME NoneHangs(m) PROVE InOrder(o2, R2, PullsOf(m))
    <3> DEFINE f == PullsOf(m)
    <3>1. InOrder(out, R, f)
      BY <2>2, Zenon DEF Noted, R
    <3>2. q = f[k]
      BY <1>12 DEF PullsOf
    <3> HIDE DEF f
    <3>3. InOrder(Append(out, q), R \cup {k}, f)
      BY <1>1, <1>6, <1>7, <3>1, <3>2, InOrderAppend
    <3> QED
      BY <1>5, <1>12, <3>3 DEF f, o2
  <2> QED
    BY <2>1, <2>2, Zenon DEF Noted, R2
<1> QED
  BY <1>10, <1>11, <1>12 DEF P, o2

\* The scan starts before the first line.
LEMMA MapStarts ==
    ASSUME Map!Init
    PROVE  MapInv
<1>1. /\ map \in Maps /\ cursor = <<1, 1>> /\ phase = 0 /\ origin = <<>> /\ pulls = <<>>
      /\ loadObj = NoObj
  <2>1. Map!Init => loadObj = NoObj
    BY Zenon DEF Map!Init, NoObj
  <2>2. Map!Init => /\ map \in Maps /\ cursor = <<1, 1>> /\ phase = 0
                    /\ origin = <<>> /\ pulls = <<>>
    BY Zenon DEF Map!Init
  <2> QED
    BY <2>1, <2>2, Zenon
<1>2. TitleAt(map) \in Nat /\ TitleAt(map) >= 1 /\ Len(map.contribs) \in Nat
  BY <1>1, MapText, MapShape
<1>3. Len(Map!Text(map)[1]) \in Nat /\ Len(Map!Text(map)[1]) >= 1
  <2>1. 1 \in Nat /\ 1 >= 1 /\ 1 <= TitleAt(map) + Len(map.contribs)
    BY <1>2
  <2> QED
    BY <1>1, <2>1, MapLines, Zenon
<1>4. cursor[1] = 1 /\ cursor[2] = 1
  BY <1>1
<1>5. MapPlace
  BY <1>1, <1>2, <1>3, <1>4 DEF MapPlace
<1>6. MapPhase
  BY <1>1 DEF MapPhase
<1>7. MapPulls
  <2>1. pulls \in Seq(Pulls) /\ loadObj \in STRING \cup {NoObj} /\ phase # 1
    BY <1>1
  <2>2. Noted(map, cursor[1], pulls)
    BY <1>1, <1>4, NotedNothing
  <2> QED
    BY <1>1, <2>1, <2>2, Zenon DEF MapPulls
<1>8. MapScope
  <2>1. phase # 2
    BY <1>1
  <2> QED
    BY <2>1, Zenon DEF MapScope
<1>9. DOMAIN origin = {}
  BY <1>1
<1>10. MapOrigins
  BY <1>1, <1>9 DEF MapOrigins
<1> QED
  BY <1>5, <1>6, <1>7, <1>8, <1>10 DEF MapInv

\* What the lines of a contribution match.
LEMMA ContribKinds ==
    ASSUME NEW c \in Contributions, NEW j \in 1..Len(Map!ContribText(c))
    PROVE  LET l == Map!ContribText(c)[j]
               H == HeaderLines(c)
           IN
           /\ l.is \in {"contrib", "head", "tail", "sym"}
           /\ j <= H => l.is # "sym"
           /\ ~c.split /\ j = 1 => l.is = "contrib" /\ l.obj = c.obj /\ l.member = c.member
           /\ c.split /\ j = 1 => l.is = "head"
           /\ c.split /\ j = 2 => l.is = "tail" /\ l.obj = c.obj /\ l.member = c.member
           /\ j > H => j - H \in 1..Len(c.syms) /\ l.is = "sym" /\ l.name = c.syms[j - H]
<1> DEFINE l == Map!ContribText(c)[j]
           H == HeaderLines(c)
           S == Len(c.syms)
<1>1. /\ H \in 1..2 /\ S \in Nat /\ j \in 1..H + S /\ c.split \in BOOLEAN
      /\ H = IF c.split THEN 2 ELSE 1
  BY ContribLines DEF HeaderLines, Contributions
<1>2. ASSUME ~c.split, j = 1 PROVE l.is = "contrib" /\ l.obj = c.obj /\ l.member = c.member
  <2>1. l = [is |-> "contrib", obj |-> c.obj, member |-> c.member]
    BY <1>2, ContribLines
  <2> QED
    BY <2>1
<1>3. ASSUME c.split, j = 1 PROVE l.is = "head"
  <2>1. l = [is |-> "head"]
    BY <1>3, ContribLines
  <2> QED
    BY <2>1
<1>4. ASSUME c.split, j = 2 PROVE l.is = "tail" /\ l.obj = c.obj /\ l.member = c.member
  <2>1. l = [is |-> "tail", obj |-> c.obj, member |-> c.member]
    BY <1>4, ContribLines
  <2> QED
    BY <2>1
<1>5. ASSUME j > H PROVE j - H \in 1..S /\ l.is = "sym" /\ l.name = c.syms[j - H]
  <2>1. j - H \in 1..S /\ H + (j - H) = j
    <3> HIDE DEF H, S
    <3>1. H \in Nat /\ S \in Nat /\ j \in 1..H + S /\ j > H
      BY <1>1, <1>5
    <3> QED
      BY <3>1
  <2>2. l = [is |-> "sym", name |-> c.syms[j - H]]
    <3>1. \A k \in 1..S : Map!ContribText(c)[H + k] = [is |-> "sym", name |-> c.syms[k]]
      BY ContribLines, Zenon
    <3>2. Map!ContribText(c)[H + (j - H)] = [is |-> "sym", name |-> c.syms[j - H]]
      BY <2>1, <3>1, Zenon
    <3> QED
      BY <2>1, <3>2, Zenon
  <2> QED
    BY <2>1, <2>2
<1>6. \/ j > H
      \/ j <= H /\ ~c.split /\ j = 1
      \/ j <= H /\ c.split /\ j = 1
      \/ j <= H /\ c.split /\ j = 2
  BY <1>1
<1>7. ~(j > H /\ j <= H)
  BY <1>1
<1> QED
  BY <1>2, <1>3, <1>4, <1>5, <1>6, <1>7

\* A step in the preamble.
LEMMA PreambleKeeps ==
    ASSUME MapInv, Map!Preamble
    PROVE  MapInv'
<1> DEFINE n == cursor[1]
           j == cursor[2]
           T == TitleAt(map)
           N == Len(map.contribs)
<1>1. /\ phase = 0 /\ Map!Advance /\ phase' = IF Map!Line.is = "archives" THEN 1 ELSE 0
      /\ loadObj' = loadObj /\ curObj' = curObj /\ split' = split /\ origin' = origin /\ pulls' = pulls
  BY DEF Map!Preamble
<1>2. /\ n <= T + N /\ map' = map /\ MapPlace' /\ j <= Len(Map!Text(map)[n])
      /\ j < Len(Map!Text(map)[n]) => cursor'[1] = n /\ cursor'[2] = j + 1
      /\ j = Len(Map!Text(map)[n]) => cursor'[1] = n + 1 /\ cursor'[2] = 1
  BY <1>1, MapAdvance DEF MapInv
<1>3. /\ n \in Nat /\ j \in Nat /\ n >= 1 /\ j >= 1 /\ map \in Maps /\ cursor = <<n, j>>
      /\ cursor' = <<cursor'[1], cursor'[2]>> /\ cursor'[1] \in Nat /\ cursor'[2] \in Nat
  BY <1>2 DEF MapInv, MapPlace
<1>4. T \in Nat /\ T >= 1 /\ N \in Nat /\ (map.load = <<>> => T = 1)
  BY <1>3, MapText, MapShape DEF TitleAt
<1>5. Map!Line = Map!Text(map)[n][j]
  BY DEF Map!Line
<1>6. DOMAIN origin = {}
  BY <1>1 DEF MapInv, MapOrigins
<1>7. CASE map.load = <<>>
  <2>1. Map!Line.is # "archives"
    <3>1. CASE n = T
      BY <1>2, <1>3, <1>4, <1>5, <3>1, MapLines
    <3>2. CASE n > T /\ map.contribs[n - T] \notin Contributions
      <4>1. Len(Map!Text(map)[n]) = 1 /\ Map!Text(map)[n][1].is = "output"
        BY <1>2, <1>3, <3>2, MapLines
      <4> QED
        BY <1>2, <1>3, <1>5, <4>1
    <3>3. CASE n > T /\ map.contribs[n - T] \in Contributions
      <4>1. Map!Text(map)[n] = Map!ContribText(map.contribs[n - T]) /\ Len(Map!Text(map)[n]) \in Nat
        BY <1>2, <1>3, <3>3, MapLines
      <4>2. j \in 1..Len(Map!ContribText(map.contribs[n - T]))
        BY <1>2, <1>3, <4>1
      <4>3. Map!ContribText(map.contribs[n - T])[j].is \in {"contrib", "head", "tail", "sym"}
        BY <3>3, <4>2, ContribKinds
      <4> QED
        BY <1>5, <4>1, <4>3
    <3> QED
      BY <1>3, <1>4, <1>7, <3>1, <3>2, <3>3
  <2>2. phase' = 0
    BY <1>1, <2>1
  <2>3. MapPhase'
    BY <1>2, <1>7, <2>2 DEF MapPhase
  <2>4. MapPulls'
    <3>1. ReadBy(map, n) = ReadBy(map, cursor'[1])
      BY <1>7 DEF ReadBy
    <3>2. /\ pulls \in Seq(Pulls) /\ loadObj \in STRING \cup {NoObj} /\ Noted(map, n, pulls)
          /\ NoneHangs(map) => loadObj = NoObj
      <4>1. ~Between(map, n, j) /\ phase < 2
        BY <1>1, <1>3, <1>7 DEF Between
      <4> QED
        BY <4>1, Zenon DEF MapInv, MapPulls
    <3>3. Noted(map, cursor'[1], pulls)
      BY <3>1, <3>2 DEF Noted
    <3>4. phase' # 1
      BY <2>2
    <3> QED
      BY <1>1, <1>2, <3>2, <3>3, <3>4, Zenon DEF MapPulls
  <2>5. phase' # 2 /\ phase' < 2
    BY <2>2
  <2>6. MapScope'
    BY <2>5, Zenon DEF MapScope
  <2>7. MapOrigins'
    BY <1>1, <1>6, <2>5 DEF MapOrigins
  <2> QED
    BY <1>2, <2>3, <2>4, <2>6, <2>7 DEF MapInv
<1>8. CASE map.load # <<>>
  <2>1. cursor = <<1, 1>>
    BY <1>1, <1>8 DEF MapInv, MapPhase
  <2>2. n = 1 /\ j = 1
    BY <2>1
  <2>3. Len(Map!Text(map)[n]) = 2 /\ Map!Text(map)[1][1].is = "archives" /\ 1 < T
    BY <1>2, <1>3, <1>8, <2>2, MapLines
  <2>4. phase' = 1 /\ cursor'[1] = 1 /\ cursor'[2] = 2
    BY <1>1, <1>2, <1>5, <2>2, <2>3
  <2>5. MapPhase'
    <3>1. cursor' # <<1, 1>> /\ cursor'[1] <= T
      BY <2>3, <2>4, <1>4
    <3> QED
      BY <1>2, <1>8, <2>4, <3>1 DEF MapPhase
  <2>6. MapPulls'
    <3>1. ~Between(map, n, j) /\ ~Between(map, cursor'[1], cursor'[2]) /\ phase < 2
      BY <1>1, <2>2, <2>4 DEF Between
    <3>2. /\ pulls \in Seq(Pulls) /\ loadObj \in STRING \cup {NoObj} /\ Noted(map, n, pulls)
          /\ NoneHangs(map) => loadObj = NoObj
      BY <3>1, Zenon DEF MapInv, MapPulls
    <3>3. Noted(map, cursor'[1], pulls)
      BY <2>2, <2>4, <3>2
    <3> QED
      BY <1>1, <1>2, <3>1, <3>2, <3>3, Zenon DEF MapPulls
  <2>7. phase' # 2 /\ phase' < 2
    BY <2>4
  <2>8. MapScope'
    BY <2>7, Zenon DEF MapScope
  <2>9. MapOrigins'
    BY <1>1, <1>6, <2>7 DEF MapOrigins
  <2> QED
    BY <1>2, <2>5, <2>6, <2>8, <2>9 DEF MapInv
<1> QED
  BY <1>7, <1>8

\* A step in the load list.
LEMMA LoadListKeeps ==
    ASSUME MapInv, Map!LoadList
    PROVE  MapInv'
<1> DEFINE n == cursor[1]
           j == cursor[2]
           T == TitleAt(map)
           N == Len(map.contribs)
           L == Len(map.load)
<1>1. phase = 1 /\ Map!Advance
  BY DEF Map!LoadList
<1>21. phase' = IF Map!Line.is = "title" THEN 2 ELSE 1
  BY DEF Map!LoadList
<1>22. curObj' = curObj /\ split' = split /\ origin' = origin
  BY DEF Map!LoadList
<1>23. loadObj' = IF Map!Line.is = "loaded" /\ ~Map!Line.member THEN Map!Line.obj
                    ELSE IF Map!Line.is = "by" /\ ~Map!Line.member THEN NoObj ELSE loadObj
  BY Zenon DEF Map!LoadList, Map!EndsInO, NoObj
<1>24. pulls' = IF Map!Line.is = "by" /\ ~Map!Line.member /\ loadObj # NoObj
                  THEN Append(pulls, [obj |-> loadObj, by |-> Map!Line.obj, sym |-> Map!Line.sym])
                  ELSE pulls
  BY Zenon DEF Map!LoadList, Map!EndsInO, NoObj
<1>2. /\ n <= T + N /\ map' = map /\ MapPlace' /\ j <= Len(Map!Text(map)[n])
      /\ j < Len(Map!Text(map)[n]) => cursor'[1] = n /\ cursor'[2] = j + 1
      /\ j = Len(Map!Text(map)[n]) => cursor'[1] = n + 1 /\ cursor'[2] = 1
  BY <1>1, MapAdvance DEF MapInv
<1>3. /\ n \in Nat /\ j \in Nat /\ n >= 1 /\ j >= 1 /\ map \in Maps /\ cursor = <<n, j>>
      /\ cursor' = <<cursor'[1], cursor'[2]>> /\ cursor'[1] \in Nat /\ cursor'[2] \in Nat
  BY <1>2 DEF MapInv, MapPlace
<1>4. map.load # <<>> /\ cursor # <<1, 1>> /\ n <= T
  <2>1. phase # 0 /\ phase # 2
    BY <1>1
  <2> QED
    BY <2>1, Zenon DEF MapInv, MapPhase
<1>5. T \in Nat /\ N \in Nat /\ L \in Nat /\ T = L + 2 /\ map.load \in Seq(LoadEntries) /\ L >= 1
  BY <1>3, <1>4, MapText, MapShape DEF TitleAt
<1>6. Map!Line = Map!Text(map)[n][j]
  BY DEF Map!Line
<1>7. DOMAIN origin = {}
  <2>1. phase < 2
    BY <1>1
  <2> QED
    BY <2>1, Zenon DEF MapInv, MapOrigins
<1>8. /\ pulls \in Seq(Pulls) /\ loadObj \in STRING \cup {NoObj} /\ Noted(map, n, pulls)
      /\ Between(map, n, j) => loadObj = map.load[n - 1].obj
      /\ ~Between(map, n, j) /\ NoneHangs(map) => loadObj = NoObj
  <2>1. phase = 1 /\ phase < 2
    BY <1>1
  <2> QED
    BY <2>1, Zenon DEF MapInv, MapPulls
<1>9. ASSUME phase' = 1, cursor'[1] > 1, cursor'[1] <= T PROVE MapPhase'
  <2>1. cursor' # <<1, 1>>
    BY <1>3, <1>9
  <2> QED
    BY <1>2, <1>4, <1>9, <2>1 DEF MapPhase
<1>10. ASSUME phase' = 1 PROVE MapScope' /\ MapOrigins'
  <2>1. phase' # 2 /\ phase' < 2
    BY <1>10
  <2>2. MapScope'
    BY <2>1, Zenon DEF MapScope
  <2> QED
    BY <1>22, <1>7, <2>1, <2>2 DEF MapOrigins
<1>11. CASE n = 1
  <2>1. Len(Map!Text(map)[n]) = 2 /\ Map!Text(map)[1][2].is = "blank"
    BY <1>2, <1>3, <1>4, <1>11, MapLines
  <2>2. j = 2
    <3>1. j # 1
      BY <1>3, <1>4, <1>11
    <3> QED
      BY <1>2, <1>3, <2>1, <3>1
  <2>3. /\ phase' = 1 /\ pulls' = pulls /\ loadObj' = loadObj
        /\ cursor'[1] = 2 /\ cursor'[2] = 1
    <3>1. Map!Line.is = "blank"
      BY <1>6, <1>11, <2>1, <2>2
    <3>2. phase' = 1
      BY <1>21, <3>1
    <3>3. pulls' = pulls /\ loadObj' = loadObj
      BY <1>23, <1>24, <3>1, Zenon
    <3> QED
      BY <1>2, <1>11, <2>1, <2>2, <3>2, <3>3
  <2>4. /\ ReadBy(map, n) = ReadBy(map, cursor'[1])
        /\ ~Between(map, n, j) /\ ~Between(map, cursor'[1], cursor'[2])
    BY <1>5, <1>11, <2>3 DEF ReadBy, Between
  <2>6. Noted(map, cursor'[1], pulls)
    BY <1>8, <2>4 DEF Noted
  <2>5. MapPulls'
    BY <1>2, <1>8, <2>3, <2>4, <2>6, Zenon DEF MapPulls
  <2> QED
    BY <1>2, <1>5, <1>9, <1>10, <2>3, <2>5 DEF MapInv
<1>12. CASE n > 1 /\ n < T
  <2> DEFINE e == map.load[n - 1]
             k == n - 1
  <2>1. /\ k \in 1..L /\ k + 1 = n /\ k + 2 = n + 1 /\ e = map.load[k]
        /\ Map!Text(map)[n] = Map!LoadLines(e) /\ e \in LoadEntries
    <3>1. k \in 1..L /\ Map!Text(map)[n] = Map!LoadLines(e)
      BY <1>2, <1>3, <1>12, MapLines
    <3> QED
      BY <1>3, <1>5, <3>1
  <2>2. /\ e.obj \in STRING /\ e.obj # NoObj /\ e.by \in STRING /\ e.sym \in STRING
        /\ e.short \in BOOLEAN /\ e.member \in BOOLEAN /\ e.byMember \in BOOLEAN
    <3> HIDE DEF e
    <3> QED
      BY <2>1 DEF LoadEntries
  <2>3. Noted(map, k + 1, pulls)
    BY <1>8, <2>1
  <2> HIDE DEF k
  <2>4. ASSUME NEW q \in Pulls
        PROVE  /\ ~Map!Readable(e) => Noted(map, n + 1, pulls)
               /\ ~Map!Readable(e) /\ ~NoneHangs(map) => Noted(map, n + 1, Append(pulls, q))
               /\ Map!Readable(e) /\ q = Map!PullOf(e) => Noted(map, n + 1, Append(pulls, q))
    <3>1. /\ ~Map!Readable(map.load[k]) => Noted(map, k + 2, pulls)
          /\ ~Map!Readable(map.load[k]) /\ ~NoneHangs(map) => Noted(map, k + 2, Append(pulls, q))
          /\ Map!Readable(map.load[k]) /\ q = Map!PullOf(map.load[k]) => Noted(map, k + 2, Append(pulls, q))
      BY <1>3, <1>8, <2>1, <2>3, NotedStep
    <3> QED
      BY <2>1, <3>1
  <2>5. ~Map!Readable(e) => Noted(map, n + 1, pulls)
    <3>1. Map!PullOf(e) \in Pulls
      BY <2>2 DEF Map!PullOf, Pulls
    <3> QED
      BY <2>4, <3>1
  <2>6. NoneHangs(map) => ~Map!Hangs(e)
    BY <2>1 DEF NoneHangs
  <2>7. cursor'[1] = n + 1 => cursor'[1] > 1 /\ cursor'[1] <= T
    BY <1>3, <1>5, <1>12
  <2>8. ASSUME phase' = 1, cursor'[1] = n + 1, cursor'[2] = 1, pulls' \in Seq(Pulls), loadObj' \in STRING \cup {NoObj},
               Noted(map, n + 1, pulls'), NoneHangs(map) => loadObj' = NoObj
        PROVE  MapInv'
    <3>1. ~Between(map, cursor'[1], cursor'[2])
      BY <2>8 DEF Between
    <3>2. MapPulls'
      BY <1>2, <2>8, <3>1, Zenon DEF MapPulls
    <3> QED
      BY <1>2, <1>9, <1>10, <2>7, <2>8, <3>2 DEF MapInv
  <2>9. CASE e.short
    <3>1. Map!Text(map)[n] = <<[is |-> "pair"]>>
      BY <2>1, <2>9, Zenon DEF Map!LoadLines
    <3>2. Len(Map!Text(map)[n]) = 1 /\ Map!Text(map)[n][1].is = "pair"
      BY <3>1
    <3>3. j = 1
      BY <1>2, <1>3, <3>2
    <3>4. Map!Line.is = "pair"
      BY <1>6, <3>2, <3>3
    <3>5. phase' = 1 /\ cursor'[1] = n + 1 /\ cursor'[2] = 1
      BY <1>2, <1>21, <3>2, <3>3, <3>4
    <3>6. pulls' = pulls /\ loadObj' = loadObj
      BY <1>23, <1>24, <3>4, Zenon
    <3>7. ~Map!Readable(e)
      BY <2>9, Zenon DEF Map!Readable
    <3>8. ~Between(map, n, j)
      BY <3>3 DEF Between
    <3> QED
      BY <1>8, <2>5, <2>8, <3>5, <3>6, <3>7, <3>8, Zenon
  <2>10. ASSUME ~e.short
         PROVE  /\ Len(Map!Text(map)[n]) = 2
                /\ Map!Text(map)[n][1] = [is |-> "loaded", obj |-> e.obj, member |-> e.member]
                /\ Map!Text(map)[n][2] = [is |-> "by", obj |-> e.by, member |-> e.byMember, sym |-> e.sym]
    <3>1. Map!Text(map)[n] = <<[is |-> "loaded", obj |-> e.obj, member |-> e.member],
                               [is |-> "by", obj |-> e.by, member |-> e.byMember, sym |-> e.sym]>>
      BY <2>1, <2>10, Zenon DEF Map!LoadLines
    <3> QED
      BY <3>1
  <2>11. CASE ~e.short /\ j = 1
    <3>1. Map!Line.is = "loaded" /\ Map!Line.obj = e.obj /\ (Map!Line.member <=> e.member)
      <4>1. Map!Line = [is |-> "loaded", obj |-> e.obj, member |-> e.member]
        BY <1>6, <2>10, <2>11, Zenon
      <4> QED
        BY <4>1, Zenon
    <3>2. phase' = 1 /\ cursor'[1] = n /\ cursor'[2] = 2
      BY <1>2, <1>21, <2>10, <2>11, <3>1
    <3>3. /\ pulls' = pulls
          /\ ~e.member => loadObj' = e.obj
          /\ e.member => loadObj' = loadObj
      BY <1>23, <1>24, <3>1, Zenon
    <3>4. loadObj' \in STRING \cup {NoObj}
      BY <1>8, <2>2, <3>3, Zenon
    <3>5. ~Between(map, n, j)
      BY <2>11 DEF Between
    <3>6. Between(map, cursor'[1], cursor'[2]) <=> ~e.member
      BY <2>1, <3>2 DEF Between, k
    <3>7. /\ Noted(map, cursor'[1], pulls')
          /\ Between(map, cursor'[1], cursor'[2]) => loadObj' = map.load[cursor'[1] - 1].obj
          /\ ~Between(map, cursor'[1], cursor'[2]) /\ NoneHangs(map) => loadObj' = NoObj
      BY <1>8, <3>2, <3>3, <3>5, <3>6, Zenon
    <3>8. MapPulls'
      BY <1>2, <1>8, <3>3, <3>4, <3>7, Zenon DEF MapPulls
    <3>9. cursor'[1] > 1 /\ cursor'[1] <= T
      BY <1>3, <1>5, <1>12, <3>2
    <3> QED
      BY <1>2, <1>9, <1>10, <3>2, <3>8, <3>9 DEF MapInv
  <2>12. CASE ~e.short /\ j = 2
    <3>1. /\ Map!Line.is = "by" /\ Map!Line.obj = e.by /\ Map!Line.sym = e.sym
          /\ (Map!Line.member <=> e.byMember)
      <4>1. Map!Line = [is |-> "by", obj |-> e.by, member |-> e.byMember, sym |-> e.sym]
        BY <1>6, <2>10, <2>12, Zenon
      <4> QED
        BY <4>1, Zenon
    <3>2. phase' = 1 /\ cursor'[1] = n + 1 /\ cursor'[2] = 1
      BY <1>2, <1>21, <2>10, <2>12, <3>1
    <3>3. Between(map, n, j) <=> ~e.member
      BY <2>1, <2>12 DEF Between, k
    <3> DEFINE q == [obj |-> loadObj, by |-> e.by, sym |-> e.sym]
    <3>4. q \in Pulls /\ Append(pulls, q) \in Seq(Pulls)
      BY <1>8, <2>2 DEF Pulls
    <3>5. CASE e.byMember
      <4>1. pulls' = pulls /\ loadObj' = loadObj
        BY <1>23, <1>24, <3>1, <3>5, Zenon
      <4>2. ~Map!Readable(e)
        BY <3>5, Zenon DEF Map!Readable
      <4>3. NoneHangs(map) => e.member
        BY <2>6, <2>12, <3>5, Zenon DEF Map!Hangs
      <4> QED
        BY <1>8, <2>5, <2>8, <3>2, <3>3, <4>1, <4>2, <4>3, Zenon
    <3>6. CASE ~e.byMember /\ ~e.member
      <4>1. loadObj = e.obj /\ loadObj # NoObj
        BY <1>8, <2>2, <3>3, <3>6, Zenon
      <4>2. loadObj' = NoObj /\ pulls' = Append(pulls, q)
        BY <1>23, <1>24, <3>1, <3>6, <4>1, Zenon
      <4>3. Map!Readable(e)
        BY <2>12, <3>6, Zenon DEF Map!Readable
      <4>4. q = Map!PullOf(e)
        BY <4>1 DEF Map!PullOf
      <4>5. Noted(map, n + 1, pulls')
        BY <2>4, <3>4, <4>2, <4>3, <4>4
      <4>6. loadObj' \in STRING \cup {NoObj} /\ pulls' \in Seq(Pulls)
        BY <3>4, <4>2
      <4> QED
        BY <2>8, <3>2, <4>2, <4>5, <4>6, Zenon
    <3>7. CASE ~e.byMember /\ e.member /\ loadObj # NoObj
      <4>1. loadObj' = NoObj /\ pulls' = Append(pulls, q)
        BY <1>23, <1>24, <3>1, <3>7, Zenon
      <4>2. ~Map!Readable(e) /\ ~NoneHangs(map)
        BY <1>8, <3>3, <3>7, Zenon DEF Map!Readable
      <4>3. Noted(map, n + 1, pulls')
        BY <2>4, <3>4, <4>1, <4>2
      <4>4. loadObj' \in STRING \cup {NoObj} /\ pulls' \in Seq(Pulls)
        BY <3>4, <4>1
      <4> QED
        BY <2>8, <3>2, <4>1, <4>3, <4>4, Zenon
    <3>8. CASE ~e.byMember /\ e.member /\ loadObj = NoObj
      <4>1. loadObj' = NoObj /\ pulls' = pulls
        BY <1>23, <1>24, <3>1, <3>8, Zenon
      <4>2. ~Map!Readable(e)
        BY <3>8, Zenon DEF Map!Readable
      <4>3. loadObj' \in STRING \cup {NoObj}
        BY <4>1
      <4> QED
        BY <1>8, <2>5, <2>8, <3>2, <4>1, <4>2, <4>3, Zenon
    <3> QED
      BY <3>5, <3>6, <3>7, <3>8, Zenon
  <2>13. ~e.short => j = 1 \/ j = 2
    <3>1. ASSUME ~e.short PROVE j = 1 \/ j = 2
      <4>1. Len(Map!Text(map)[n]) = 2
        BY <2>10, <3>1, Zenon
      <4> QED
        BY <1>2, <1>3, <4>1
    <3> QED
      BY <3>1, Zenon
  <2> QED
    BY <2>9, <2>11, <2>12, <2>13, Zenon
<1>13. CASE n = T
  <2>1. Len(Map!Text(map)[n]) = 1 /\ Map!Text(map)[n][1].is = "title"
    BY <1>2, <1>3, <1>13, MapLines
  <2>2. /\ phase' = 2 /\ pulls' = pulls /\ loadObj' = loadObj
        /\ cursor'[1] = T + 1 /\ cursor'[2] = 1
    <3>1. j = 1
      BY <1>2, <1>3, <2>1
    <3>2. Map!Line.is = "title"
      BY <1>6, <2>1, <3>1
    <3>3. phase' = 2
      BY <1>21, <3>2
    <3>4. pulls' = pulls /\ loadObj' = loadObj
      BY <1>23, <1>24, <3>2, Zenon
    <3> QED
      BY <1>2, <1>13, <2>1, <3>1, <3>3, <3>4
  <2>3. ReadBy(map, n) = ReadBy(map, cursor'[1])
    <3>1. \A k \in 1..L : k + 1 < n /\ k + 1 < cursor'[1]
      BY <1>3, <1>5, <1>13, <2>2
    <3> QED
      BY <3>1 DEF ReadBy
  <2>8. Noted(map, cursor'[1], pulls) /\ phase' # 1 /\ ~(phase' < 2)
    BY <1>8, <2>2, <2>3 DEF Noted
  <2>4. MapPulls'
    BY <1>2, <1>8, <2>2, <2>8, Zenon DEF MapPulls
  <2>5. MapScope'
    <3>1. ~(cursor'[2] > 1)
      BY <2>2
    <3> QED
      BY <3>1, Zenon DEF MapScope
  <2>6. MapPhase'
    <3>1. cursor' # <<1, 1>> /\ ~(cursor'[1] <= T)
      BY <1>3, <1>5, <2>2
    <3> QED
      BY <1>2, <1>4, <2>2, <3>1 DEF MapPhase
  <2>7. MapOrigins'
    <3>1. ASSUME NEW k \in 1..N, NEW a \in Nat, a >= 1, map.contribs[k] \in Contributions
          PROVE  ~Passed(map, k, a, T + 1, 1)
      <4>1. HeaderLines(map.contribs[k]) \in 1..2
        BY <3>1, ContribLines
      <4> QED
        BY <1>5, <3>1, <4>1 DEF Passed
    <3>2. ASSUME NEW k \in 1..N, map.contribs[k] \in Contributions,
                 NEW a \in 1..Len(map.contribs[k].syms)
          PROVE  ~Passed(map, k, a, T + 1, 1)
      <4>1. a \in Nat /\ a >= 1
        BY <3>2, ContribLines
      <4> QED
        BY <3>1, <3>2, <4>1
    <3>3. ~(phase' < 2)
      BY <2>2
    <3> QED
      BY <1>22, <1>2, <1>7, <2>2, <3>2, <3>3 DEF MapOrigins
  <2> QED
    BY <1>2, <2>4, <2>5, <2>6, <2>7 DEF MapInv
<1> QED
  BY <1>3, <1>4, <1>5, <1>11, <1>12, <1>13

\* In the sections of m, the scan goes from line j of entry n to line j2 of entry n2.
Follows(m, n, j, n2, j2) ==
    /\ m \in Maps /\ n \in Nat /\ j \in Nat /\ n2 \in Nat /\ j2 \in Nat
    /\ n > TitleAt(m) /\ n <= TitleAt(m) + Len(m.contribs)
    /\ j >= 1 /\ j <= Len(Map!Text(m)[n])
    /\ j < Len(Map!Text(m)[n]) => n2 = n /\ j2 = j + 1
    /\ j = Len(Map!Text(m)[n]) => n2 = n + 1 /\ j2 = 1

\* A symbol that a step of the scan passes is the one on its line.
LEMMA PassedStep ==
    ASSUME NEW m, NEW n, NEW j, NEW n2, NEW j2, Follows(m, n, j, n2, j2),
           NEW k \in 1..Len(m.contribs), m.contribs[k] \in Contributions,
           NEW a \in 1..Len(m.contribs[k].syms), Passed(m, k, a, n2, j2)
    PROVE  \/ Passed(m, k, a, n, j)
           \/ /\ k = n - TitleAt(m) /\ j > HeaderLines(m.contribs[k])
              /\ a = j - HeaderLines(m.contribs[k])
<1> USE DEF Follows
<1> DEFINE T == TitleAt(m)
           H == HeaderLines(m.contribs[k])
           S == Len(m.contribs[k].syms)
           Ln == Len(Map!Text(m)[n])
<1>1. T \in Nat /\ Ln \in Nat /\ n >= 1 /\ n - T \in 1..Len(m.contribs)
  <2>1. T \in Nat /\ n >= 1
    BY MapText
  <2> QED
    BY <2>1, MapLines
<1>2. H \in 1..2 /\ S \in Nat /\ Len(Map!ContribText(m.contribs[k])) = H + S
  BY ContribLines
<1>3. k = n - T => Ln = H + S
  <2>1. n - T \in 1..Len(m.contribs) /\ (m.contribs[n - T] \in Contributions =>
            Map!Text(m)[n] = Map!ContribText(m.contribs[n - T]))
    BY <1>1, MapLines
  <2> QED
    BY <1>2, <2>1
<1>4. (k < n2 - T) \/ (k = n2 - T /\ a + H < j2)
  BY DEF Passed
<1>5. j < Ln => n2 = n /\ j2 = j + 1
  OBVIOUS
<1>6. j = Ln => n2 = n + 1 /\ j2 = 1
  OBVIOUS
<1>7. k \in Nat /\ k >= 1 /\ a \in Nat /\ a >= 1 /\ a <= S /\ j <= Ln /\ j >= 1
  BY <1>2, MapShape
<1>8. (k < n - T) \/ (k = n - T /\ a + H < j) \/ (k = n - T /\ j > H /\ a = j - H)
  <2> HIDE DEF T, H, S, Ln
  <2>1. CASE j < Ln
    <3>1. n2 = n /\ j2 = j + 1
      BY <1>5, <2>1
    <3>2. (k < n - T) \/ (k = n - T /\ a + H < j + 1)
      BY <1>4, <3>1
    <3>3. a + H < j + 1 => a + H < j \/ (j > H /\ a = j - H)
      BY <1>2, <1>7
    <3> QED
      BY <3>2, <3>3
  <2>2. CASE j = Ln
    BY <1>1, <1>2, <1>3, <1>4, <1>6, <1>7, <2>2
  <2> QED
    BY <1>1, <1>7, <2>1, <2>2
<1> QED
  BY <1>8 DEF Passed

\* A step in the sections.
LEMMA SectionsKeeps ==
    ASSUME MapInv, Map!Sections
    PROVE  MapInv'
<1> DEFINE n == cursor[1]
           j == cursor[2]
           T == TitleAt(map)
           N == Len(map.contribs)
           L == Len(map.load)
           c == map.contribs[n - T]
           H == HeaderLines(c)
           ln == Map!Text(map)[n][j]
           Ln == Len(Map!Text(map)[n])
<1>1. phase = 2 /\ Map!Advance /\ phase' = phase /\ loadObj' = loadObj /\ pulls' = pulls
  BY DEF Map!Sections
<1>2. Map!Line = ln
  BY DEF Map!Line
<1>3. split' = (ln.is = "head")
  BY <1>2 DEF Map!Sections
<1>4. curObj' = IF (split /\ ln.is = "tail" /\ ~ln.member) \/ (ln.is = "contrib" /\ ~ln.member) THEN ln.obj
                ELSE IF Map!Closes(ln) THEN "" ELSE curObj
  BY <1>2 DEF Map!Sections, Map!SplitTail, Map!EndsInO
<1>5. origin' = IF ln.is = "sym" /\ curObj # ""
                THEN [x \in DOMAIN origin \cup {ln.name} |->
                         IF x \in DOMAIN origin THEN origin[x] ELSE curObj]
                ELSE origin
  BY <1>2 DEF Map!Sections
<1>6. /\ n <= T + N /\ map' = map /\ MapPlace' /\ j <= Ln
      /\ j < Ln => cursor'[1] = n /\ cursor'[2] = j + 1
      /\ j = Ln => cursor'[1] = n + 1 /\ cursor'[2] = 1
  BY <1>1, MapAdvance DEF MapInv
<1>7. /\ n \in Nat /\ j \in Nat /\ n >= 1 /\ j >= 1 /\ map \in Maps /\ cursor = <<n, j>>
      /\ cursor' = <<cursor'[1], cursor'[2]>> /\ cursor'[1] \in Nat /\ cursor'[2] \in Nat
  BY <1>6 DEF MapInv, MapPlace
<1>8. map.load # <<>> /\ ~(n <= T)
  <2>1. phase # 0 /\ phase # 1
    BY <1>1
  <2> QED
    BY <2>1, Zenon DEF MapInv, MapPhase
<1>9. T \in Nat /\ T >= 1 /\ N \in Nat /\ n > T
  BY <1>7, <1>8, MapText, MapShape
<1>10. /\ Ln \in Nat /\ Ln >= 1 /\ n - T \in 1..N
       /\ c \notin Contributions => Ln = 1 /\ Map!Text(map)[n][1].is = "output"
       /\ c \in Contributions => Map!Text(map)[n] = Map!ContribText(c)
  BY <1>6, <1>7, <1>9, MapLines
<1>11. cursor'[1] >= n /\ phase' = 2
  BY <1>1, <1>6, <1>7, <1>10
<1>12. MapPhase'
  <2>1. cursor' # <<1, 1>> /\ ~(cursor'[1] <= T)
    BY <1>7, <1>9, <1>11
  <2> QED
    BY <1>6, <1>8, <1>11, <2>1 DEF MapPhase
<1>13. MapPulls'
  <2>1. ReadBy(map, n) = ReadBy(map, cursor'[1])
    <3>1. T = L + 2 /\ L \in Nat
      BY <1>7, <1>8, MapShape DEF TitleAt
    <3>2. \A k \in 1..L : k + 1 < n /\ k + 1 < cursor'[1]
      BY <1>7, <1>9, <1>11, <3>1
    <3> QED
      BY <3>2 DEF ReadBy
  <2>2. phase' # 1 /\ ~(phase' < 2)
    BY <1>11
  <2>3. pulls \in Seq(Pulls) /\ loadObj \in STRING \cup {NoObj} /\ Noted(map, n, pulls)
    BY DEF MapInv, MapPulls
  <2>4. Noted(map, cursor'[1], pulls)
    BY <2>1, <2>3 DEF Noted
  <2> QED
    BY <1>1, <1>6, <2>2, <2>3, <2>4, Zenon DEF MapPulls
<1>14. ASSUME c \in Contributions
       PROVE  /\ ln.is \in {"contrib", "head", "tail", "sym"}
              /\ j <= H => ln.is # "sym"
              /\ ~c.split /\ j = 1 => ln.is = "contrib" /\ ln.obj = c.obj /\ ln.member = c.member
              /\ c.split /\ j = 1 => ln.is = "head"
              /\ c.split /\ j = 2 => ln.is = "tail" /\ ln.obj = c.obj /\ ln.member = c.member
              /\ j > H => j - H \in 1..Len(c.syms) /\ ln.is = "sym" /\ ln.name = c.syms[j - H]
  <2>1. Map!Text(map)[n] = Map!ContribText(c) /\ j \in 1..Len(Map!ContribText(c))
    BY <1>6, <1>7, <1>10, <1>14
  <2>2. ln = Map!ContribText(c)[j]
    BY <2>1
  <2> HIDE DEF c, ln
  <2> QED
    BY <1>14, <2>1, <2>2, ContribKinds, Zenon DEF H
<1>15. /\ c.split /\ j = 2 => split
       /\ j > 1 /\ j > H => (~c.member => curObj = c.obj) /\ (c.member /\ ~c.split => curObj = "")
  <2>1. j = 2 => j > 1
    OBVIOUS
  <2> QED
    BY <1>1, <2>1, Zenon DEF MapInv, MapScope
<1>16. ASSUME c \in Contributions
       PROVE  H \in 1..2 /\ H = (IF c.split THEN 2 ELSE 1) /\ c.split \in BOOLEAN /\ c.member \in BOOLEAN
  <2> HIDE DEF c
  <2>1. c.split \in BOOLEAN /\ c.member \in BOOLEAN
    BY <1>16 DEF Contributions
  <2> QED
    BY <2>1 DEF HeaderLines
<1>17. ASSUME cursor'[2] > 1
       PROVE  c \in Contributions /\ cursor'[1] = n /\ cursor'[2] = j + 1
  <2>1. ~(j = Ln) /\ j < Ln
    BY <1>6, <1>7, <1>10, <1>17
  <2>2. c \in Contributions
    <3>1. Ln # 1
      <4>1. Ln \in Nat
        BY <1>10
      <4> HIDE DEF Ln
      <4> QED
        BY <1>7, <2>1, <4>1
    <3> QED
      BY <1>10, <3>1
  <2> QED
    BY <1>6, <2>1, <2>2
<1>18. ASSUME cursor'[2] > 1, c.split, cursor'[2] = 2 PROVE split'
  <2>1. j = 1 /\ c \in Contributions
    BY <1>7, <1>17, <1>18
  <2> QED
    BY <1>3, <1>14, <1>18, <2>1, Zenon
<1>19. ASSUME cursor'[2] > 1, cursor'[2] > H
       PROVE  (~c.member => curObj' = c.obj) /\ (c.member /\ ~c.split => curObj' = "")
  <2>1. c \in Contributions /\ cursor'[2] = j + 1
    BY <1>17, <1>19
  <2>2. H \in 1..2 /\ H = (IF c.split THEN 2 ELSE 1) /\ c.split \in BOOLEAN /\ c.member \in BOOLEAN
    BY <1>16, <2>1
  <2> HIDE DEF c, H, ln
  <2>3. CASE j > H
    <3>1. j > 1
      BY <1>7, <2>2, <2>3
    <3>2. ln.is = "sym"
      BY <1>14, <2>1, <2>3
    <3>3. curObj' = curObj
      BY <1>4, <3>2 DEF Map!Closes
    <3> QED
      BY <1>15, <2>3, <3>1, <3>3, Zenon
  <2>4. CASE ~c.split /\ j = 1
    <3>1. ln.is = "contrib" /\ ln.obj = c.obj /\ ln.member = c.member
      BY <1>14, <2>1, <2>4, Zenon
    <3>2. Map!Closes(ln)
      BY <3>1 DEF Map!Closes
    <3> QED
      BY <1>4, <3>1, <3>2
  <2>5. CASE c.split /\ j = 2
    <3>1. ln.is = "tail" /\ ln.obj = c.obj /\ ln.member = c.member /\ split
      BY <1>14, <1>15, <2>1, <2>5, Zenon
    <3> QED
      BY <1>4, <2>5, <3>1
  <2> QED
    <3>1. j + 1 > H /\ (c.split => H = 2) /\ (~c.split => H = 1)
      BY <1>19, <2>1, <2>2
    <3>2. (j > H) \/ (~c.split /\ j = 1) \/ (c.split /\ j = 2)
      BY <1>7, <2>2, <3>1
    <3> QED
      BY <2>3, <2>4, <2>5, <3>2, Zenon
<1>20. MapScope'
  <2>1. ASSUME cursor'[2] > 1 PROVE cursor'[1] = n
    BY <1>17, <2>1
  <2> QED
    BY <1>6, <1>18, <1>19, <2>1, Zenon DEF MapScope
<1>21. \A name \in DOMAIN origin :
          \E k \in 1..N : Lists(map.contribs[k], name, origin[name])
  BY DEF MapInv, MapOrigins
<1>22. ASSUME NEW k \in 1..N, map.contribs[k] \in Contributions, ~map.contribs[k].member,
              NEW a \in 1..Len(map.contribs[k].syms), Passed(map, k, a, n, j)
       PROVE  map.contribs[k].syms[a] \in DOMAIN origin
  BY <1>1, <1>22, Zenon DEF MapInv, MapOrigins
<1>23. ASSUME NEW k \in 1..N, map.contribs[k] \in Contributions,
              NEW a \in 1..Len(map.contribs[k].syms), Passed(map, k, a, cursor'[1], cursor'[2])
       PROVE  Passed(map, k, a, n, j) \/ (k = n - T /\ c \in Contributions /\ j > H /\ a = j - H)
  <2>1. Passed(map, k, a, n, j) \/ (k = n - T /\ j > HeaderLines(map.contribs[k])
                                       /\ a = j - HeaderLines(map.contribs[k]))
    <3>1. /\ map \in Maps /\ n \in Nat /\ j \in Nat /\ cursor'[1] \in Nat /\ cursor'[2] \in Nat
          /\ n > TitleAt(map) /\ n <= TitleAt(map) + Len(map.contribs) /\ j >= 1
          /\ j <= Len(Map!Text(map)[n])
          /\ j < Len(Map!Text(map)[n]) => cursor'[1] = n /\ cursor'[2] = j + 1
          /\ j = Len(Map!Text(map)[n]) => cursor'[1] = n + 1 /\ cursor'[2] = 1
      BY <1>6, <1>7, <1>9
    <3>2. /\ k \in 1..Len(map.contribs) /\ map.contribs[k] \in Contributions
          /\ a \in 1..Len(map.contribs[k].syms) /\ Passed(map, k, a, cursor'[1], cursor'[2])
      BY <1>23
    <3>3. Follows(map, n, j, cursor'[1], cursor'[2])
      BY <3>1 DEF Follows
    <3>4. \/ Passed(map, k, a, n, j)
          \/ /\ k = n - TitleAt(map) /\ j > HeaderLines(map.contribs[k])
             /\ a = j - HeaderLines(map.contribs[k])
      <4> HIDE DEF n, j, T, N, c, H, ln, Ln
      <4> QED
        BY ONLY <3>2, <3>3, PassedStep
    <3> QED
      BY <3>4
  <2> QED
    BY <1>23, <2>1
<1>24. DOMAIN origin \subseteq DOMAIN origin'
  BY <1>5
<1>25. ASSUME NEW name \in DOMAIN origin', name \notin DOMAIN origin \/ origin'[name] # origin[name]
       PROVE  ln.is = "sym" /\ curObj # "" /\ name = ln.name /\ origin'[name] = curObj
  BY <1>5, <1>25
<1>26. ASSUME c \notin Contributions PROVE ln.is # "sym"
  <2>1. j = 1
    <3>1. Ln = 1
      BY <1>10, <1>26
    <3> QED
      BY <1>6, <1>7, <3>1
  <2> QED
    BY <1>10, <1>26, <2>1
<1>27. ASSUME NEW name \in DOMAIN origin'
       PROVE  \E k \in 1..N : Lists(map.contribs[k], name, origin'[name])
  <2>1. CASE name \notin DOMAIN origin \/ origin'[name] # origin[name]
    <3>1. ln.is = "sym" /\ curObj # "" /\ name = ln.name /\ origin'[name] = curObj
      BY <1>25, <2>1
    <3>2. c \in Contributions
      BY <1>26, <3>1
    <3>3. H \in 1..2 /\ c.member \in BOOLEAN /\ c.split \in BOOLEAN
      BY <1>16, <3>2
    <3>4. j > H
      <4>1. ~(j <= H)
        BY <1>14, <3>1, <3>2, Zenon
      <4> HIDE DEF H
      <4> QED
        BY <1>7, <3>3, <4>1
    <3>5. j - H \in 1..Len(c.syms) /\ name = c.syms[j - H]
      BY <1>14, <3>1, <3>2, <3>4, Zenon
    <3>6. j > 1
      <4> HIDE DEF H
      <4> QED
        BY <1>7, <3>3, <3>4
    <3>7. ~(c.member /\ c.split) => curObj = c.obj
      BY <1>15, <3>1, <3>4, <3>6, Zenon
    <3>8. Lists(c, name, origin'[name])
      <4> HIDE DEF c, H
      <4> QED
        BY <3>1, <3>2, <3>5, <3>7, Zenon DEF Lists
    <3> QED
      BY <1>10, <3>8
  <2>2. CASE name \in DOMAIN origin /\ origin'[name] = origin[name]
    BY <1>21, <2>2
  <2> QED
    BY <2>1, <2>2
<1>28. ASSUME NEW k \in 1..N, map.contribs[k] \in Contributions, ~map.contribs[k].member,
              NEW a \in 1..Len(map.contribs[k].syms), Passed(map, k, a, cursor'[1], cursor'[2])
       PROVE  map.contribs[k].syms[a] \in DOMAIN origin'
  <2>1. CASE Passed(map, k, a, n, j)
    BY <1>22, <1>24, <1>28, <2>1
  <2>2. CASE k = n - T /\ c \in Contributions /\ j > H /\ a = j - H
    <3>1. map.contribs[k] = c /\ map.contribs[k].syms[a] = c.syms[j - H]
      BY <2>2
    <3>2. ln.is = "sym" /\ ln.name = c.syms[j - H]
      BY <1>14, <2>2, Zenon
    <3>3. j > 1
      <4>1. H \in 1..2
        BY <1>16, <2>2
      <4> HIDE DEF H
      <4> QED
        BY <1>7, <2>2, <4>1
    <3>4. curObj = c.obj
      BY <1>15, <1>28, <2>2, <3>1, <3>3, Zenon
    <3>5. c.obj # ""
      <4>1. c \in Contributions
        BY <2>2
      <4> HIDE DEF c
      <4> QED
        BY <4>1 DEF Contributions
    <3>6. ln.name \in DOMAIN origin'
      <4> HIDE DEF ln, c
      <4> QED
        BY <1>5, <3>2, <3>4, <3>5
    <3> QED
      BY <3>1, <3>2, <3>6
  <2> QED
    BY <1>23, <1>28, <2>1, <2>2
<1>29. MapOrigins'
  <2>1. ~(phase' < 2)
    BY <1>11
  <2> QED
    BY <1>6, <1>27, <1>28, <2>1, Zenon DEF MapOrigins
<1> QED
  BY <1>6, <1>12, <1>13, <1>20, <1>29 DEF MapInv

\* The contribution that lists a symbol is its supplier, and there is no other.
LEMMA SuppliedBy ==
    ASSUME map \in Maps, NEW k \in 1..Len(map.contribs), map.contribs[k] \in Contributions,
           NEW a \in 1..Len(map.contribs[k].syms)
    PROVE  Map!Supplier(map.contribs[k].syms[a]) = map.contribs[k]
<1> DEFINE cs == map.contribs
           name == cs[k].syms[a]
           S == {c \in Map!Contribs : name \in Map!ToSet(c.syms)}
<1>1. /\ DOMAIN cs = 1..Len(cs)
      /\ \A q \in 1..Len(cs) : cs[q] \in Contributions <=> "gap" \notin DOMAIN cs[q]
  BY MapShape
<1>2. \A q \in 1..Len(cs) : cs[q] \in Contributions => DOMAIN cs[q].syms = 1..Len(cs[q].syms)
  BY ContribLines
<1>3. Map!Contribs = {c \in {cs[q] : q \in DOMAIN cs} : "gap" \notin DOMAIN c}
  BY DEF Map!Contribs, Map!ToSet
<1>4. cs[k] \in Map!Contribs
  BY <1>1, <1>3
<1>5. name \in Map!ToSet(cs[k].syms)
  BY <1>2 DEF Map!ToSet
<1>6. ASSUME NEW c \in Map!Contribs, name \in Map!ToSet(c.syms) PROVE c = cs[k]
  <2>1. PICK q \in 1..Len(cs) : c = cs[q] /\ "gap" \notin DOMAIN cs[q]
    BY <1>1, <1>3, <1>6
  <2>2. PICK b \in DOMAIN cs[q].syms : cs[q].syms[b] = name
    BY <1>6, <2>1 DEF Map!ToSet
  <2>3. a \in DOMAIN cs[k].syms /\ cs[q] \in Contributions
    BY <1>1, <1>2, <2>1
  <2>4. q = k
    BY <2>2, <2>3, MapShape
  <2> QED
    BY <2>1, <2>4
<1>7. Map!Supplier(name) = CHOOSE c \in Map!Contribs : name \in Map!ToSet(c.syms)
  BY DEF Map!Supplier
<1> HIDE DEF name, cs
<1>8. Map!Supplier(name) = cs[k]
  BY <1>4, <1>5, <1>6, <1>7
<1> QED
  BY <1>8 DEF name, cs

\* What the scan has found is the map's, and all of it at the end.
LEMMA MapExact ==
    ASSUME MapInv
    PROVE  Map!OriginsExact
<1> DEFINE n == cursor[1]
           T == TitleAt(map)
           N == Len(map.contribs)
           L == Len(map.load)
<1>1. /\ map \in Maps /\ n \in Nat /\ n >= 1 /\ n <= T + N + 1 /\ cursor = <<cursor[1], cursor[2]>>
  BY DEF MapInv, MapPlace
<1>2. /\ T \in Nat /\ T >= 1 /\ N \in Nat /\ L \in Nat /\ map.load \in Seq(LoadEntries)
      /\ Len(Map!Text(map)) = T + N
  BY <1>1, MapText, MapShape
<1>3. ASSUME NEW name \in DOMAIN origin, ~Map!Slips(Map!Supplier(name))
      PROVE  origin[name] = Map!Supplier(name).obj
  <2>1. PICK k \in 1..N : Lists(map.contribs[k], name, origin[name])
    BY DEF MapInv, MapOrigins
  <2>2. PICK a \in 1..Len(map.contribs[k].syms) : map.contribs[k].syms[a] = name
    BY <2>1 DEF Lists
  <2>3. map.contribs[k] \in Contributions
    BY <2>1 DEF Lists
  <2>4. Map!Supplier(name) = map.contribs[k]
    BY <1>1, <2>2, <2>3, SuppliedBy
  <2>5. ~(map.contribs[k].member /\ map.contribs[k].split)
    BY <1>3, <2>4 DEF Map!Slips
  <2>6. origin[name] = map.contribs[k].obj
    BY <2>1, <2>5, Zenon DEF Lists
  <2> QED
    BY <2>4, <2>6
<1>4. ASSUME Map!AtEnd PROVE n = T + N + 1
  <2>1. n > T + N
    BY <1>2, <1>4 DEF Map!AtEnd
  <2> HIDE DEF n, T, N
  <2> QED
    BY <1>1, <1>2, <2>1
<1>5. ASSUME Map!AtEnd, map.load # <<>>, NEW name \in Map!Symbols, ~Map!Supplier(name).member
      PROVE  name \in DOMAIN origin
  <2>1. PICK c \in Map!Contribs : name \in Map!ToSet(c.syms)
    BY DEF Map!Symbols
  <2>2. PICK k \in DOMAIN map.contribs : c = map.contribs[k] /\ "gap" \notin DOMAIN map.contribs[k]
    BY <2>1 DEF Map!Contribs, Map!ToSet
  <2>3. k \in 1..N /\ map.contribs[k] \in Contributions
    BY <1>1, <2>2, MapShape
  <2>4. PICK a \in DOMAIN map.contribs[k].syms : map.contribs[k].syms[a] = name
    BY <2>1, <2>2 DEF Map!ToSet
  <2>5. a \in 1..Len(map.contribs[k].syms)
    BY <2>3, <2>4, ContribLines
  <2>6. ~map.contribs[k].member
    BY <1>1, <1>5, <2>3, <2>4, <2>5, SuppliedBy
  <2>7. phase = 2
    <3>1. cursor # <<1, 1>> /\ ~(n <= T)
      BY <1>1, <1>2, <1>4, <1>5
    <3> QED
      BY <1>5, <3>1, Zenon DEF MapInv, MapPhase
  <2>8. Passed(map, k, a, cursor[1], cursor[2])
    <3>1. k < n - T
      BY <1>2, <1>4, <1>5, <2>3
    <3> QED
      BY <3>1 DEF Passed
  <2>9. map.contribs[k].syms[a] \in DOMAIN origin
    BY <2>3, <2>5, <2>6, <2>7, <2>8, Zenon DEF MapInv, MapOrigins
  <2> QED
    BY <2>4, <2>9
<1>6. ASSUME Map!AtEnd PROVE Noted(map, n, pulls) /\ ReadBy(map, n) = {k \in 1..L : Map!Readable(map.load[k])}
  <2>1. T = IF L = 0 THEN 1 ELSE L + 2
    BY <1>2 DEF TitleAt
  <2>2. \A k \in 1..L : k + 1 < n
    <3>1. n = T + N + 1
      BY <1>4, <1>6
    <3> HIDE DEF n, T, N, L
    <3> QED
      BY <1>2, <2>1, <3>1
  <2>3. Noted(map, n, pulls) /\ pulls \in Seq(Pulls)
    BY DEF MapInv, MapPulls
  <2> QED
    BY <2>2, <2>3 DEF ReadBy
<1>7. DOMAIN map.load = 1..L /\ DOMAIN pulls = 1..Len(pulls)
  <2>1. pulls \in Seq(Pulls)
    BY DEF MapInv, MapPulls
  <2> QED
    BY <1>2, <2>1
<1>8. ASSUME Map!AtEnd
      PROVE  /\ \A e \in Map!ToSet(map.load) : Map!Readable(e) => Map!PullOf(e) \in Map!ToSet(pulls)
             /\ (\A e \in Map!ToSet(map.load) : ~Map!Hangs(e)) =>
                   Map!InOrder(pulls, {k \in DOMAIN map.load : Map!Readable(map.load[k])},
                               [k \in DOMAIN map.load |-> Map!PullOf(map.load[k])])
  <2>1. ASSUME NEW e \in Map!ToSet(map.load), Map!Readable(e) PROVE Map!PullOf(e) \in Map!ToSet(pulls)
    <3>1. PICK k \in 1..L : e = map.load[k]
      BY <1>7 DEF Map!ToSet
    <3>2. k \in ReadBy(map, n)
      BY <1>6, <1>8, <2>1, <3>1
    <3>3. PICK i1 \in 1..Len(pulls) : pulls[i1] = Map!PullOf(map.load[k])
      BY <1>6, <1>8, <3>2, Zenon DEF Noted
    <3> QED
      BY <1>7, <3>1, <3>3 DEF Map!ToSet
  <2>2. ASSUME \A e \in Map!ToSet(map.load) : ~Map!Hangs(e)
        PROVE  Map!InOrder(pulls, {k \in DOMAIN map.load : Map!Readable(map.load[k])},
                           [k \in DOMAIN map.load |-> Map!PullOf(map.load[k])])
    <3>1. NoneHangs(map)
      BY <1>7, <2>2 DEF NoneHangs, Map!ToSet
    <3>2. InOrder(pulls, ReadBy(map, n), PullsOf(map))
      BY <1>6, <1>8, <3>1, Zenon DEF Noted
    <3>3. Map!InOrder(pulls, ReadBy(map, n), PullsOf(map))
      BY <3>2, SameMapOrder
    <3>4. ReadBy(map, n) = {k \in DOMAIN map.load : Map!Readable(map.load[k])}
      BY <1>6, <1>8, <1>7
    <3>5. PullsOf(map) = [k \in DOMAIN map.load |-> Map!PullOf(map.load[k])]
      BY <1>7, Zenon DEF PullsOf
    <3> QED
      BY <3>3, <3>4, <3>5, Zenon
  <2> QED
    BY <2>1, <2>2, Zenon
<1> QED
  BY <1>3, <1>5, <1>8, Zenon DEF Map!OriginsExact

\* The map reader starts at the first line, and the others do not scan.
LEMMA MapInitially ==
    ASSUME Init
    PROVE  MapIInv
  BY MapStarts DEF Init, MapIInv

\* A step of any reader keeps the invariant of the scan.
LEMMA MapStep ==
    ASSUME MapIInv, [Next]_vars
    PROVE  MapIInv'
<1>1. turn' = turn
  BY DEF Next, vars, ReadLog, ReadMap, ParseCgraph, FilterTargets, ParseIpaDump, ReadDwarf, ParseCallSite
<1>2. SUFFICES ASSUME turn = "map" PROVE MapInv'
  BY <1>1 DEF MapIInv
<1>3. MapInv
  BY <1>2 DEF MapIInv
<1>4. ASSUME UNCHANGED linker PROVE MapInv'
  <2>1. /\ map' = map /\ cursor' = cursor /\ phase' = phase /\ loadObj' = loadObj /\ curObj' = curObj
        /\ split' = split /\ origin' = origin /\ pulls' = pulls
    BY <1>4 DEF linker
  <2> QED
    BY <1>3, <2>1 DEF MapInv, MapPlace, MapPhase, MapPulls, MapScope, MapOrigins
<1>5. CASE ReadMap
  <2>1. CASE Map!Preamble
    BY <1>3, <2>1, PreambleKeeps
  <2>2. CASE Map!LoadList
    BY <1>3, <2>2, LoadListKeeps
  <2>3. CASE Map!Sections
    BY <1>3, <2>3, SectionsKeeps
  <2>4. CASE Map!Done
    BY <1>4, <2>4 DEF Map!Done, Map!vars, linker
  <2> QED
    BY <1>5, <2>1, <2>2, <2>3, <2>4 DEF ReadMap, Map!Next
<1>6. CASE UNCHANGED vars
  BY <1>4, <1>6 DEF vars
<1> QED
  BY <1>2, <1>5, <1>6 DEF Next, ReadLog, ParseCgraph, FilterTargets, ParseIpaDump, ReadDwarf, ParseCallSite

\* For every map GNU ld wrote, in whatever order contributions, split headers and
\* output sections follow each other: a symbol goes to the object it is listed
\* under and to no other, and at the end of a map with a load list no symbol of a
\* plain object is missed.  Whatever entries of that list the expressions cannot
\* read, those they can are among the pulls; and when no entry is left pending the
\* pulls are those and no others, in their order (mapfile.go ReadMap).
THEOREM OriginsAlwaysExact == Spec => []OriginsExact
<1>1. MapIInv => OriginsExact
  BY MapExact DEF MapIInv, OriginsExact
<1> QED
  BY <1>1, MapInitially, MapStep, PTL DEF Spec
=============================================================================
