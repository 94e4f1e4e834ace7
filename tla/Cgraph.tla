------------------------------- MODULE Cgraph -------------------------------
(***************************************************************************)
(* ParseCgraph and mergeSymbol (internal/gccdump/cgraph.go).  GCC prints a *)
(* symbol once per table (Initial, Reclaimed, Optimized, Final); the       *)
(* parser collects each printing, and mergeSymbol folds the printings of   *)
(* one id together.  One action is one line.  A dump is any sequence of    *)
(* lines: diagnostics cut into tables anywhere.                            *)
(***************************************************************************)
EXTENDS Naturals, Sequences, FiniteSets, SequencesExt

CONSTANTS Ids, Flags, CallLists, MaxLines
    \* local ids; analyzed, body removed, address taken; what a "Calls:" line
    \* may list, as sequences of [to, inlined]; bound on the lines of a dump

VARIABLES
    dump,     \* the lines read so far
    cur,      \* the printing under way: no record, or one
    symbols,  \* cg.Symbols: per id no record, or one
    needed    \* cg.TrivialNeeded

vars == <<dump, cur, symbols, needed>>

(* The lines, by what the parser does with them.                           *)
Headers == [kind : {"header"}, id : Ids]
\* A table's title, a blank or diagnostic line, any other text in column 0.
Breaks == [kind : {"break"}]
Needed == [kind : {"needed"}, id : Ids]
FlagLines == [kind : {"flag"}, flag : Flags]
CloneLines == [kind : {"clone"}, id : Ids]
CallLines == [kind : {"calls"}, list : CallLists]
\* Aux:, Availability:, Called by:, pretty-printed code.
Ignored == [kind : {"ignored"}]
Lines == Headers \cup Breaks \cup Needed \cup FlagLines \cup CloneLines \cup CallLines \cup Ignored

\* Function, to the fields that merge differently: booleans, the parent of a
\* clone, and the lists (Called stands for Refs, IndirectSites and the flag
\* arrays, which follow the same rule).
Function(i) == [id |-> i, flags |-> {}, clone |-> {}, called |-> <<>>]

Init ==
    /\ dump = <<>> /\ cur = {}
    /\ symbols = [i \in Ids |-> {}] /\ needed = <<>>

\* Mutant of Richer: the longer list is kept, the first one on ties.
RicherStrictly(new, old) == IF Len(new) > Len(old) THEN new ELSE old

\* ">= is load-bearing": on a tie the later table wins.
Richer(new, old) == IF Len(new) >= Len(old) /\ new # <<>> THEN new ELSE old

\* The rest of mergeSymbol, for an id that has a record.
Merge(prev, obs) ==
    [id |-> obs.id,
     flags |-> prev.flags \cup obs.flags,
     clone |-> IF obs.clone # {} THEN obs.clone ELSE prev.clone,
     called |-> Richer(obs.called, prev.called)]

\* mergeSymbol: what dst has for an id, and the printing of it, if any.
MergeSymbol(dst, obs) ==
    IF dst = {} \/ obs = {} THEN dst \cup obs ELSE {Merge(p, o) : p \in dst, o \in obs}

\* flush.
Flush == symbols' = [i \in Ids |-> MergeSymbol(symbols[i], {f \in cur : f.id = i})]

Read(line) == Len(dump) < MaxLines /\ dump' = Append(dump, line)

Header ==
    \E l \in Headers : Read(l) /\ Flush /\ cur' = {Function(l.id)} /\ needed' = needed

\* Mutant of Break: only a header ends a printing.
BreakKeepsOn ==
    \E l \in Breaks : Read(l) /\ UNCHANGED <<cur, symbols, needed>>

Break ==
    \E l \in Breaks : Read(l) /\ Flush /\ cur' = {} /\ needed' = needed

TriviallyNeeded ==
    \E l \in Needed : Read(l) /\ Flush /\ cur' = {} /\ needed' = Append(needed, l.id)

Flag ==
    \E l \in FlagLines :
        /\ Read(l)
        /\ cur' = {[f EXCEPT !.flags = @ \cup {l.flag}] : f \in cur}
        /\ UNCHANGED <<symbols, needed>>

CloneOf ==
    \E l \in CloneLines :
        /\ Read(l)
        /\ cur' = {[f EXCEPT !.clone = {l.id}] : f \in cur}
        /\ UNCHANGED <<symbols, needed>>

Calls ==
    \E l \in CallLines :
        /\ Read(l)
        /\ cur' = {[f EXCEPT !.called = @ \o l.list] : f \in cur}
        /\ UNCHANGED <<symbols, needed>>

Ignore ==
    \E l \in Ignored : Read(l) /\ UNCHANGED <<cur, symbols, needed>>

\* The flush after the last line.
EOF ==
    /\ Len(dump) = MaxLines /\ cur # {}
    /\ Flush /\ cur' = {}
    /\ UNCHANGED <<dump, needed>>

Done == Len(dump) = MaxLines /\ cur = {} /\ UNCHANGED vars

Next == Header \/ Break \/ TriviallyNeeded \/ Flag \/ CloneOf \/ Calls \/ Ignore \/ EOF \/ Done

Spec == Init /\ [][Next]_vars

-----------------------------------------------------------------------------
(* What the dump says, read off its text: the printings of an id, each the *)
(* lines from one header to the next line that is not a symbol's.          *)

Detail == {"flag", "clone", "calls", "ignored"}

\* The lines that belong to the header at k.
Body(k) ==
    {j \in k + 1..Len(dump) : \A m \in k + 1..j : dump[m].kind \in Detail}

Printings(i) == {k \in 1..Len(dump) : dump[k].kind = "header" /\ dump[k].id = i}

\* The calls one printing lists, as <<line, place in the line>>.
Said(k) ==
    UNION {{<<j, n>> : n \in DOMAIN dump[j].list} : j \in {j \in Body(k) : dump[j].kind = "calls"}}

\* out lists them, its lines in order.
Lists(out, k) ==
    /\ DOMAIN out = 1..Cardinality(Said(k))
    /\ \A c \in Said(k) :
          out[Cardinality({b \in Said(k) : b[1] < c[1]}) + c[2]] = dump[c[1]].list[c[2]]

\* The parser has read everything.
AtEnd == Len(dump) = MaxLines /\ cur = {}

\* What a symbol's record says was said under one of its own headers: no line
\* of a diagnostic, of code or of a neighbour is taken for the symbol's, and
\* no flag a table drops is lost ("The Final table's stripped rows never lose
\* us data").  Every symbol printed has a record.
FlagsAreTheDumps ==
    AtEnd => \A i \in Ids :
        /\ symbols[i] = {} <=> Printings(i) = {}
        /\ \A f \in symbols[i] :
              f.flags = {dump[j].flag : j \in {j \in UNION {Body(k) : k \in Printings(i)} :
                                                  dump[j].kind = "flag"}}

\* The call list kept for a symbol is the latest of its longest ones: an
\* Optimized list displaces an Initial one of the same length, a stripped
\* Final list displaces nothing.
CallsAreLatestLongest ==
    AtEnd => \A i \in Ids : \A f \in symbols[i] : \E k \in Printings(i) :
        /\ Lists(f.called, k)
        /\ \A m \in Printings(i) :
              /\ Cardinality(Said(m)) <= Cardinality(Said(k))
              /\ m > k => Cardinality(Said(m)) < Cardinality(Said(k))
=============================================================================
