------------------------------ MODULE MapFile ------------------------------
(***************************************************************************)
(* linkplane.ReadMap (internal/linkplane/mapfile.go): one scan over a GNU  *)
(* ld map, line by line, that must say which object supplied each symbol.  *)
(* The scan keeps a phase, the contribution it is in and one line of       *)
(* lookahead for headers that ld split in two.                             *)
(*                                                                         *)
(* A line is abstracted to the pattern it matches, [is |-> ...]:           *)
(*   "archives"   the title of the archive-member list                     *)
(*   "title"      a later title (Merging program properties, Discarded     *)
(*                input sections, As-needed library, Memory Configuration) *)
(*   "blank"                                                               *)
(*   "loaded"     obj, member: an entry of that list, on a line of its own *)
(*   "by"         obj, member, sym: who referenced it, for which symbol    *)
(*   "pair"       both on one line, which ld prints when the name is short *)
(*   "contrib"    obj, member: section, address, size and object           *)
(*   "head"       a section name alone                                     *)
(*   "tail"       obj, member: address, size and object, deeply indented   *)
(*   "sym"        name: address and symbol                                 *)
(*   "output"     anything else that is not indented by two                *)
(* member says that ld printed libx.a(obj), which ends in ".o)", and not   *)
(* the path of a plain object or of a thin archive's member.               *)
(***************************************************************************)
EXTENDS Naturals, Sequences, SequencesExt, Ordered

CONSTANT Maps   \* the maps to read, each the sequence of its contributions

(***************************************************************************)
(* A map is [load, contribs].  load is the sequence of the archive members *)
(* that were pulled, [obj, member, short, by, byMember, sym], and contribs *)
(* that of the contributions [obj, member, split, syms], with the gap      *)
(* [gap |-> TRUE] where a new output section starts.                       *)
(***************************************************************************)
VARIABLES
    map,      \* what the linker did
    cursor,   \* the line the scan is at: <<entry of the map, line of the entry>>
    phase,    \* 0, 1 or 2
    loadObj,  \* pendingLoadObject
    curObj,   \* curContribObject
    split,    \* pendingSplitHeader
    origin,   \* SymbolOrigin
    pulls     \* ArchivePulls

vars == <<map, cursor, phase, loadObj, curObj, split, origin, pulls>>

-----------------------------------------------------------------------------
(* GNU ld: the text of a map, each of its entries the sequence of its      *)
(* lines.                                                                  *)

LoadLines(e) ==
    IF e.short THEN <<[is |-> "pair"]>>
    ELSE <<[is |-> "loaded", obj |-> e.obj, member |-> e.member],
           [is |-> "by", obj |-> e.by, member |-> e.byMember, sym |-> e.sym]>>

LoadText(load) ==
    IF load = <<>> THEN <<>>   \* ld prints the title with the first member
    ELSE <<<<[is |-> "archives"], [is |-> "blank"]>>>>
           \o [i \in DOMAIN load |-> LoadLines(load[i])]

SymText(syms) == [i \in DOMAIN syms |-> [is |-> "sym", name |-> syms[i]]]

ContribText(c) ==
    IF "gap" \in DOMAIN c THEN <<[is |-> "output"]>>
    ELSE (IF c.split
          THEN <<[is |-> "head"], [is |-> "tail", obj |-> c.obj, member |-> c.member]>>
          ELSE <<[is |-> "contrib", obj |-> c.obj, member |-> c.member]>>)
         \o SymText(c.syms)

Text(m) == LoadText(m.load) \o <<<<[is |-> "title"]>>>>
             \o [i \in DOMAIN m.contribs |-> ContribText(m.contribs[i])]

Init ==
    /\ map \in Maps /\ cursor = <<1, 1>>
    /\ phase = 0 /\ loadObj = "" /\ curObj = "" /\ split = FALSE
    /\ origin = <<>> /\ pulls = <<>>

-----------------------------------------------------------------------------
(* ReadMap.                                                                *)

\* The last line was scanned.
AtEnd == cursor[1] > Len(Text(map))

Line == Text(map)[cursor[1]][cursor[2]]

Advance ==
    /\ ~AtEnd
    /\ cursor' = IF cursor[2] < Len(Text(map)[cursor[1]]) THEN <<cursor[1], cursor[2] + 1>>
                 ELSE <<cursor[1] + 1, 1>>
    /\ UNCHANGED map

Preamble ==
    /\ phase = 0 /\ Advance
    /\ phase' = IF Line.is = "archives" THEN 1 ELSE 0
    /\ UNCHANGED <<loadObj, curObj, split, origin, pulls>>

\* The object that mfLoadObject, mfLoadRef, mfContribRe and mfContribTailRe
\* capture ends in .o: that of libx.a(obj.o) does not.
EndsInO(line) == ~line.member

LoadList ==
    /\ phase = 1 /\ Advance
    /\ phase' = IF Line.is = "title" THEN 2 ELSE 1
    /\ loadObj' = IF Line.is = "loaded" /\ EndsInO(Line) THEN Line.obj
                  ELSE IF Line.is = "by" /\ EndsInO(Line) THEN "" ELSE loadObj
    /\ pulls' = IF Line.is = "by" /\ EndsInO(Line) /\ loadObj # ""
                THEN Append(pulls, [obj |-> loadObj, by |-> Line.obj, sym |-> Line.sym])
                ELSE pulls
    /\ UNCHANGED <<curObj, split, origin>>

\* Mutant of Closes: only a contribution moves the scope.
ClosesNever(line) == FALSE

\* A line with no deep indent closes the scope of the contribution.
Closes(line) == line.is \in {"output", "contrib", "title", "archives", "blank"}

SplitTail == split /\ Line.is = "tail" /\ EndsInO(Line)

Sections ==
    /\ phase = 2 /\ Advance
    /\ split' = (Line.is = "head")
    /\ curObj' = IF SplitTail \/ (Line.is = "contrib" /\ EndsInO(Line)) THEN Line.obj
                 ELSE IF Closes(Line) THEN "" ELSE curObj
    /\ origin' = IF Line.is = "sym" /\ curObj # ""
                 THEN [n \in DOMAIN origin \cup {Line.name} |->
                          IF n \in DOMAIN origin THEN origin[n] ELSE curObj]
                 ELSE origin
    /\ UNCHANGED <<phase, loadObj, pulls>>

Done == AtEnd /\ UNCHANGED vars

Next == Preamble \/ LoadList \/ Sections \/ Done

Spec == Init /\ [][Next]_vars

-----------------------------------------------------------------------------
(* Properties.                                                             *)

Contribs == {c \in ToSet(map.contribs) : "gap" \notin DOMAIN c}

Symbols == UNION {ToSet(c.syms) : c \in Contribs}

\* The contribution the linker listed a global symbol under.
Supplier(name) == CHOOSE c \in Contribs : name \in ToSet(c.syms)

\* An archive member in a header ld split in two: the tail matches neither
\* expression, so its symbols go to the contribution before it.
Slips(c) == c.member /\ c.split

\* An entry of the load list both of whose lines the expressions match.
Readable(e) == ~e.short /\ ~e.member /\ ~e.byMember

\* An entry of whose lines only the first is matched: it stays pending, and a
\* later referrer is filed under it.
Hangs(e) == ~e.short /\ ~e.member /\ e.byMember

PullOf(e) == [obj |-> e.obj, by |-> e.by, sym |-> e.sym]

\* A symbol is attributed to the object it is listed under and to no other, in
\* whatever order contributions, split headers and output sections follow each
\* other; with a load list no plain object's symbol is missed.  Of the load list,
\* every entry that the expressions can read is among the archive pulls, whatever
\* entries stand between; and if none is left pending the pulls are those entries
\* and no others, in their order.
OriginsExact ==
    /\ \A n \in DOMAIN origin : ~Slips(Supplier(n)) => origin[n] = Supplier(n).obj
    /\ AtEnd /\ map.load # <<>> =>
          \A n \in Symbols : ~Supplier(n).member => n \in DOMAIN origin
    /\ AtEnd => \A e \in ToSet(map.load) : Readable(e) => PullOf(e) \in ToSet(pulls)
    /\ AtEnd /\ (\A e \in ToSet(map.load) : ~Hangs(e)) =>
          InOrder(pulls, {k \in DOMAIN map.load : Readable(map.load[k])},
                  [k \in DOMAIN map.load |-> PullOf(map.load[k])])
=============================================================================
