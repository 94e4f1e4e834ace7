----------------------------- MODULE DwarfReader -----------------------------
(***************************************************************************)
(* dwarfingest.Read (internal/dwarfingest/reader.go): one pass over the    *)
(* debugging entries of an object, in the order debug/dwarf hands them     *)
(* out, with a stack of frames to know what encloses what.                 *)
(*                                                                         *)
(* The object is the environment: Next() shows the reader an entry GCC may *)
(* have put there, or the null entry that closes a list of children.  dies *)
(* is what was shown and open the entries whose children are being read,   *)
(* so an entry's true ancestors are known whatever the reader's stack      *)
(* says.  A function's name is the number of its entry, and 0 is no name.  *)
(***************************************************************************)
EXTENDS Naturals, Sequences, FiniteSets, SequencesExt

CONSTANTS MaxDies, MaxDepth   \* bounds: entries in an object, open at a time

VARIABLES
    dies,    \* entries shown so far: tag, named, up (true ancestors, outermost first)
    open,    \* entries of dies whose children are being shown
    reading, \* "walk", or "type" inside parseStruct and parseEnum, then "done"
    skip,    \* how many entries SkipChildren still has to see closed
    stack,   \* the reader's frames
    info     \* what it returns

vars == <<dies, open, reading, skip, stack, info>>

-----------------------------------------------------------------------------
(* What GCC puts under what.  A type may be local to a function or a       *)
(* block; a member of a type has children only where it is a method.       *)
Body == {"inlined", "callsite", "type", "variable", "block"}

Under(tag) ==
    CASE tag = "cu"         -> {"subprogram", "type", "variable"}
      [] tag = "subprogram" -> Body \cup {"subprogram"}
      [] tag = "block"      -> Body
      [] tag = "inlined"    -> {"inlined", "callsite", "block"}
      [] tag = "type"       -> {"member", "method"}
      [] tag = "method"     -> {"variable"}
      [] OTHER              -> {"member"}   \* of a call site: its parameters

HasChildren == {"cu", "subprogram", "block", "inlined", "type", "method", "callsite"}

Legal(tag) == IF open = <<>> THEN tag = "cu" ELSE tag \in Under(dies[Last(open)].tag)

\* An entry: its tag, whether the reader finds a name (DW_AT_name, or the name
\* of its abstract origin; of a call site, its file or line; of a variable, its
\* name and where it is declared), and whether a list of children follows it.
Entries ==
    [tag : {"cu", "type", "block", "method"}, named : {TRUE}, children : BOOLEAN]
        \cup [tag : {"subprogram", "inlined"}, named : BOOLEAN, children : {TRUE}]
        \cup [tag : {"callsite"}, named : BOOLEAN, children : BOOLEAN]
        \cup [tag : {"variable"}, named : BOOLEAN, children : {FALSE}]
        \cup [tag : {"member"}, named : {TRUE}, children : {FALSE}]

\* lookupName and DW_AT_name: the name of the function entry i is about.
Name(i) == IF dies[i].named THEN i ELSE 0

-----------------------------------------------------------------------------
Init ==
    /\ dies = <<>> /\ open = <<>>
    /\ reading = "walk" /\ skip = 0 /\ stack = <<>>
    /\ info = [functions |-> {}, instances |-> {}, sites |-> {}, variables |-> {}, members |-> {}]

\* The library moves over one entry.
Show(e) ==
    /\ Len(dies) < MaxDies /\ Legal(e.tag)
    /\ e.children => Len(open) < MaxDepth
    /\ dies' = Append(dies, [tag |-> e.tag, named |-> e.named, up |-> open])
    /\ open' = IF e.children THEN Append(open, Len(dies) + 1) ELSE open

\* What the walk outward over the frames meets: the subprograms, of which it stops
\* at the first, and up to there the copies of functions, of which some have a name.
Subprograms == {k \in DOMAIN stack : stack[k].tag = "subprogram"}
Copies == {k \in DOMAIN stack : stack[k].tag = "inlined" /\ \A s \in Subprograms : s < k}
NamedCopies == {k \in Copies : stack[k].name # 0}

\* The name of the innermost of some frames.
NameIn(frames) == IF frames = {} THEN 0 ELSE stack[Max(frames)].name

\* Mutant of InlineInstance: an unnamed copy in between is not counted.
InlineInstanceNamedDepth(i, named) ==
    IF ~named \/ NameIn(Subprograms) = 0 THEN {}
    ELSE {[die |-> i, caller |-> NameIn(Subprograms),
           parent |-> NameIn(NamedCopies), depth |-> 1 + Cardinality(NamedCopies)]}

\* parseInlineInstance: the fact, or none without an origin or a caller.
InlineInstance(i, named) ==
    IF ~named \/ NameIn(Subprograms) = 0 THEN {}
    ELSE {[die |-> i, caller |-> NameIn(Subprograms),
           parent |-> NameIn(NamedCopies), depth |-> 1 + Cardinality(Copies)]}

\* parseCallSite: who physically holds the call, and whose source it is in.
CallSite(i) ==
    [die |-> i, enclosing |-> NameIn(Subprograms),
     source |-> IF NamedCopies = {} THEN NameIn(Subprograms) ELSE NameIn(NamedCopies)]

\* What one entry adds to the result.
Facts(e, i) ==
    CASE e.tag = "subprogram" -> [info EXCEPT !.functions = @ \cup {i}]
      [] e.tag = "inlined"  -> [info EXCEPT !.instances = @ \cup InlineInstance(i, e.named)]
      [] e.tag = "callsite" -> [info EXCEPT !.sites =
                                    IF e.named THEN @ \cup {CallSite(i)} ELSE @]
      [] e.tag = "variable" -> [info EXCEPT !.variables =
                                    IF e.named /\ Len(stack) <= 1 THEN @ \cup {i} ELSE @]
      [] OTHER -> info

\* newFrame.
Frame(e, i) == [tag |-> e.tag, name |-> IF e.named THEN i ELSE 0]

\* An entry that is no type: its facts, then a frame if children follow.
Entry(e) ==
    /\ reading = "walk" /\ e.tag # "type" /\ Show(e)
    /\ info' = Facts(e, Len(dies) + 1)
    /\ stack' = IF e.children THEN Append(stack, Frame(e, Len(dies) + 1)) ELSE stack
    /\ UNCHANGED <<reading, skip>>

\* Mutant of TypeEntry: the frame is pushed for a type as for any entry.
TypeEntryPushes(e) ==
    /\ reading = "walk" /\ e.tag = "type" /\ Show(e)
    /\ reading' = IF e.children THEN "type" ELSE "walk"
    /\ stack' = IF e.children THEN Append(stack, Frame(e, Len(dies) + 1)) ELSE stack
    /\ UNCHANGED <<skip, info>>

\* A struct, union or enumeration: parseStruct and parseEnum read the children
\* themselves, up to and with the null entry, and no frame is pushed.
TypeEntry(e) ==
    /\ reading = "walk" /\ e.tag = "type" /\ Show(e)
    /\ reading' = IF e.children THEN "type" ELSE "walk"
    /\ UNCHANGED <<skip, stack, info>>

\* The loop of parseStruct and parseEnum: a member is kept, and what is below
\* a child is skipped.
TypeChild(e) ==
    /\ reading = "type" /\ skip = 0 /\ Show(e)
    /\ info' = IF e.tag = "member"
               THEN [info EXCEPT !.members = @ \cup {<<Last(open), Len(dies) + 1>>}] ELSE info
    /\ skip' = IF e.children THEN 1 ELSE 0
    /\ UNCHANGED <<reading, stack>>

\* SkipChildren.
Skipped(e) ==
    /\ reading = "type" /\ skip > 0 /\ Show(e)
    /\ skip' = IF e.children THEN skip + 1 ELSE skip
    /\ UNCHANGED <<reading, stack, info>>

\* The null entry that ends a list of children.
Close == open # <<>> /\ open' = Front(open) /\ UNCHANGED <<dies, info>>

\* In Read it pops a frame.
Pop ==
    /\ reading = "walk" /\ Close
    /\ stack' = IF stack = <<>> THEN stack ELSE Front(stack)
    /\ UNCHANGED <<reading, skip>>

\* In parseStruct and parseEnum it ends the members, and in SkipChildren what
\* is skipped.
TypeClosed ==
    /\ reading = "type" /\ Close
    /\ reading' = IF skip = 0 THEN "walk" ELSE "type"
    /\ skip' = IF skip = 0 THEN 0 ELSE skip - 1
    /\ UNCHANGED stack

\* The end of .debug_info, after the last unit is closed.
End ==
    /\ reading = "walk" /\ open = <<>> /\ dies # <<>>
    /\ reading' = "done"
    /\ UNCHANGED <<dies, open, skip, stack, info>>

Done == reading = "done" /\ UNCHANGED vars

Next ==
    \/ \E e \in Entries : Entry(e) \/ TypeEntry(e) \/ TypeChild(e) \/ Skipped(e)
    \/ Pop \/ TypeClosed \/ End \/ Done

Spec == Init /\ [][Next]_vars

-----------------------------------------------------------------------------
(* The truth, from the entries' own ancestors.                             *)

Up(i) == ToSet(dies[i].up)
Innermost(S) == IF S = {} THEN 0 ELSE Max(S)

\* The entry of the function whose code entry i is in, 0 when there is none.
Enclosing(i) == Innermost({a \in Up(i) : dies[a].tag = "subprogram"})

\* The copies around entry i in that function, and those of them with a name.
Around(i) == {a \in Up(i) : dies[a].tag = "inlined" /\ a > Enclosing(i)}
NamedAround(i) == {a \in Around(i) : dies[a].named}

TrueName(i) == IF i = 0 THEN 0 ELSE Name(i)

TrueInstance(i) ==
    [die |-> i, caller |-> TrueName(Enclosing(i)), parent |-> Innermost(NamedAround(i)),
     depth |-> 1 + Cardinality(Around(i))]

TrueSite(i) ==
    [die |-> i, enclosing |-> TrueName(Enclosing(i)),
     source |-> IF NamedAround(i) = {} THEN TrueName(Enclosing(i)) ELSE Innermost(NamedAround(i))]

\* Not below a type: parseStruct and parseEnum keep nothing but the members.
Walked(i) == \A a \in Up(i) : dies[a].tag # "type"
Of(tag) == {i \in DOMAIN dies : dies[i].tag = tag /\ Walked(i)}
NamedOf(tag) == {i \in Of(tag) : dies[i].named}

\* Every function is noted, and every copy, every call whose place is known and
\* every global is filed under the functions that really enclose it, at its real
\* depth, and no other is; a type has its own members
\* and no others, however types, blocks, nested functions and unnamed copies are
\* nested around them: the stack of Read never gains or loses a frame (reader.go
\* Read, parseInlineInstance, parseCallSite, parseStruct).
AttributionExact ==
    /\ info.functions = Of("subprogram")
    /\ info.instances =
          {TrueInstance(i) : i \in {j \in Of("inlined") : dies[j].named /\ TrueName(Enclosing(j)) # 0}}
    /\ info.sites = {TrueSite(i) : i \in NamedOf("callsite")}
    /\ info.variables = {i \in NamedOf("variable") : dies[Last(dies[i].up)].tag = "cu"}
    /\ info.members =
          {<<Last(dies[i].up), i>> :
              i \in {j \in DOMAIN dies : /\ dies[j].tag = "member" /\ dies[j].up # <<>>
                                          /\ dies[Last(dies[j].up)].tag = "type"}}
=============================================================================
