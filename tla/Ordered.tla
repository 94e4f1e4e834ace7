------------------------------ MODULE Ordered ------------------------------
(***************************************************************************)
(* What it means that a sequence lists a set of positions in their order.  *)
(* Several loops of the program go over numbered lines, rows or entries    *)
(* and keep something for some of them; the properties of those loops say  *)
(* so with InOrder, which, unlike a recursive selection, a proof can use.  *)
(***************************************************************************)
EXTENDS Naturals, Sequences, FiniteSets

\* How many members of S come no later than i.
Rank(S, i) == Cardinality({j \in S : j <= i})

\* out holds f[i] for each i of S, each once, in the order of S.
InOrder(out, S, f) ==
    /\ DOMAIN out = 1..Cardinality(S)
    /\ \A i \in S : out[Rank(S, i)] = f[i]

\* The sequence that does.
Selected(S, f) == [r \in 1..Cardinality(S) |-> f[CHOOSE i \in S : Rank(S, i) = r]]

\* Where each of a sequence of sequences ends when they follow each other.
Ends(ss) == LET e[k \in 0..Len(ss)] == IF k = 0 THEN 0 ELSE e[k - 1] + Len(ss[k]) IN e

\* Their members, one sequence after the other.
Joined(ss) ==
    LET e == Ends(ss) IN
    [x \in 1..e[Len(ss)] |->
        LET k == CHOOSE k \in 1..Len(ss) : e[k - 1] < x /\ x <= e[k]
        IN  ss[k][x - e[k - 1]]]
============================================================================
