---------------------------- MODULE PassesProof ----------------------------
(***************************************************************************)
(* Proofs about the passes of collect (Passes), for every build.           *)
(***************************************************************************)
EXTENDS Passes, Lemmas

-----------------------------------------------------------------------------
(* The DWARF pass: dwarf.go DWARF.                                         *)

\* What an object may say, and that the symbols kept are symbols of the build.
BuildInv ==
    /\ \A o \in Objects, n \in Names :
          /\ die[o][n].scope \in {"external", "static"}
          /\ die[o][n].kind \in {"absent", "declared", "body", "inlined", "both"}
    /\ \A o \in Objects : \A l, m \in layout[o] : l = m /\ l.inProject \in BOOLEAN
    /\ \A s \in ids : \E o \in Objects : \E n \in Names : s = Owner(o, n)

\* An object is being walked.
Busy == pc \in {"subprograms", "callsites", "inlines", "types"}

\* Objects are walked in their order.
WalkInv ==
    /\ Objects \in SUBSET (Nat \ {0}) /\ todo \in SUBSET Objects
    /\ pc \in {"next", "done", "failed"} \/ Busy
    /\ Busy => obj \in Objects /\ obj \notin todo
    /\ \A o \in Objects \ todo : \A p \in todo : o < p
    /\ pc = "done" => todo = {}

\* The subprograms of object o have been dealt with, and all of it has.
Enriched(o) == pc # "failed" /\ o \notin todo /\ ~(pc = "subprograms" /\ obj = o)
Walked(o) == pc # "failed" /\ o \notin todo /\ ~(Busy /\ obj = o)

TablesInv ==
    /\ tables = [sig |-> tables.sig, defs |-> tables.defs, indirect |-> tables.indirect,
                 inline |-> tables.inline, types |-> tables.types, fields |-> tables.fields,
                 fts |-> tables.fts]
    /\ tables.sig \in [Symbols -> Nat]

\* A row of symbol_definitions that .ci anchored has left line 0; another one is
\* there until a place was found for it, at the latest in its own object.
RowInv(row) ==
    /\ row = [sym |-> row.sym, in |-> row.in, line0 |-> row.line0, at |-> row.at, decl |-> row.decl]
    /\ row.in \in Objects /\ row.sym \in ids /\ row.line0 \in BOOLEAN
    /\ \A n \in Names : row.sym = Owner(row.in, n) =>
          /\ Defines(die[row.in][n])
          /\ Anchored(row.in, n) => ~row.line0 /\ row.at = Unset
          /\ ~Anchored(row.in, n) => row.line0 \/ row.at # Unset
          /\ ~Anchored(row.in, n) /\ NoCollision /\ Enriched(row.in) => row.at # Unset

RowsInv == \A row \in tables.defs : RowInv(row)

SigInv ==
    \A o \in Objects, n \in Names :
        Enriched(o) /\ Defines(die[o][n]) /\ Owner(o, n) \in ids =>
            tables.sig[Owner(o, n)] # Unset \/ <<n, 0>> \in ids

\* While no type is stored no object that was walked had one to store.
TypesInv ==
    /\ tables.types = {} => tables.fields = {}
    /\ tables.types = {} => \A o \in Objects : Walked(o) => \A l \in layout[o] : ~l.inProject
    /\ TypeFromOneUnit

SavedInv ==
    /\ pc # "done" => saved = CompilerTables
    /\ pc = "done" => saved = tables /\ tables.fts = tables.sig
    /\ pc = "failed" => tables = CompilerTables

WritesInv == TablesInv /\ FactsBelong /\ RowsInv /\ SigInv /\ TypesInv

DwarfIInv ==
    IF pass = "dwarf" THEN BuildInv /\ WalkInv /\ WritesInv /\ SavedInv
    ELSE /\ ids = {} /\ pc = "" /\ tables = CompilerTables /\ saved = CompilerTables

\* Nothing is written, and nothing was read that should be.
Untouched == tables = CompilerTables /\ \A o \in Objects : ~Enriched(o) /\ ~Walked(o)

-----------------------------------------------------------------------------
\* Whose symbol an entry is.
LEMMA OwnerIs ==
    ASSUME BuildInv, Objects \in SUBSET (Nat \ {0}), NEW o \in Objects, NEW n \in Names
    PROVE  /\ die[o][n].scope = "external" => Owner(o, n) = <<n, 0>>
           /\ die[o][n].scope = "static" => Owner(o, n) = <<n, o>>
           /\ die[o][n].scope \in {"external", "static"}
           /\ Owner(o, n) \in Symbols
           /\ <<n, o>> \in ids => die[o][n].scope = "static"
           /\ \A m \in Names : Owner(o, n) = Owner(o, m) => n = m
<1>1. die[o][n].scope \in {"external", "static"}
  BY DEF BuildInv
<1>2. \A m : Owner(o, m) = <<m, IF die[o][m].scope = "external" THEN 0 ELSE o>>
  BY DEF Owner
<1>3. Owner(o, n) \in Symbols
  BY <1>2 DEF Symbols
<1>4. ASSUME <<n, o>> \in ids PROVE die[o][n].scope = "static"
  <2>1. PICK p \in Objects, m \in Names : <<n, o>> = Owner(p, m)
    BY <1>4 DEF BuildInv
  <2>2. n = m /\ o = IF die[p][m].scope = "external" THEN 0 ELSE p
    BY <2>1 DEF Owner
  <2>3. o # 0
    OBVIOUS
  <2>4. die[o][n].scope # "external"
    BY <2>2, <2>3
  <2> QED
    BY <1>1, <2>4
<1> QED
  BY <1>1, <1>2, <1>3, <1>4

\* Without a namesake an entry resolves to its own symbol.
LEMMA ResolvesOwn ==
    ASSUME BuildInv, Objects \in SUBSET (Nat \ {0}), NoCollision,
           NEW o \in Objects, NEW n \in Names, die[o][n].kind # "absent"
    PROVE  Resolve(n, o) = {Owner(o, n)} \cap ids
<1>1. /\ die[o][n].scope = "external" => Owner(o, n) = <<n, 0>>
      /\ die[o][n].scope = "static" => Owner(o, n) = <<n, o>>
      /\ die[o][n].scope \in {"external", "static"}
      /\ <<n, o>> \in ids => die[o][n].scope = "static"
  BY OwnerIs
<1>2. die[o][n].scope = "static" => <<n, 0>> \notin ids
  BY DEF NoCollision
<1> QED
  BY <1>1, <1>2 DEF Resolve

\* A name the object's DWARF speaks of has a row, and the row is its own.
LEMMA HitsSpeak ==
    ASSUME BuildInv, Objects \in SUBSET (Nat \ {0}), NoCollision, obj \in Objects,
           NEW kinds, "absent" \notin kinds, NEW s \in Hits(kinds)
    PROVE  Speaks(obj, s)
<1>1. PICK n \in Names : die[obj][n].kind \in kinds /\ s \in Resolve(n, obj)
  BY DEF Hits
<1>2. die[obj][n].kind # "absent"
  BY <1>1
<1>3. Resolve(n, obj) = {Owner(obj, n)} \cap ids
  BY <1>2, ResolvesOwn
<1> QED
  BY <1>1, <1>2, <1>3 DEF Speaks

\* What the Compiler pass left says nothing false.
LEMMA CompilerLeft == BuildInv /\ Untouched => WritesInv
<1> SUFFICES ASSUME BuildInv, Objects \in SUBSET (Nat \ {0}), tables = CompilerTables,
                      \A o \in Objects : ~Enriched(o) /\ ~Walked(o)
               PROVE  WritesInv
  BY DwarfPlaneAssumption DEF Untouched
<1>1. /\ tables.sig = [s \in Symbols |-> Unset] /\ tables.defs = CompilerDefs
      /\ tables.indirect = {} /\ tables.inline = {} /\ tables.types = {} /\ tables.fields = {}
      /\ tables = [sig |-> tables.sig, defs |-> tables.defs, indirect |-> tables.indirect,
                   inline |-> tables.inline, types |-> tables.types, fields |-> tables.fields,
                   fts |-> tables.fts]
  BY DEF CompilerTables
<1>2. TablesInv
  BY <1>1 DEF TablesInv, Unset
<1>3. ASSUME NEW row \in CompilerDefs
      PROVE  RowInv(row) /\ row.at = Unset /\ row.decl = Unset
  <2>1. PICK o \in Objects, n \in Names :
           /\ Defines(die[o][n]) /\ Owner(o, n) \in ids
           /\ row = [sym |-> Owner(o, n), in |-> o, line0 |-> ~Anchored(o, n),
                     at |-> Unset, decl |-> Unset]
    BY DEF CompilerDefs
  <2>2. /\ row.sym = Owner(o, n) /\ row.in = o /\ row.at = Unset /\ row.decl = Unset
        /\ row.line0 = ~Anchored(o, n)
        /\ row = [sym |-> row.sym, in |-> row.in, line0 |-> row.line0, at |-> row.at, decl |-> row.decl]
    BY <2>1
  <2>3. \A m \in Names : row.sym = Owner(row.in, m) => n = m
    <3>1. \A m \in Names : Owner(o, n) = Owner(o, m) => n = m
      BY OwnerIs
    <3> QED
      BY <2>2, <3>1
  <2>4. row.line0 \in BOOLEAN
    BY <2>2, Zenon DEF Anchored
  <2>5. ~Enriched(row.in)
    BY <2>2
  <2>6. ASSUME NEW m \in Names, row.sym = Owner(row.in, m)
        PROVE  /\ Defines(die[row.in][m])
               /\ Anchored(row.in, m) => ~row.line0 /\ row.at = Unset
               /\ ~Anchored(row.in, m) => row.line0 \/ row.at # Unset
    BY <2>1, <2>2, <2>3, <2>6
  <2> QED
    BY <2>1, <2>2, <2>4, <2>5, <2>6 DEF RowInv
<1>4. FactsBelong
  BY <1>1, <1>3 DEF FactsBelong
<1>5. SigInv
  BY DEF SigInv
<1>6. TypesInv
  BY <1>1 DEF TypesInv, TypeFromOneUnit
<1> QED
  BY <1>1, <1>2, <1>3, <1>4, <1>5, <1>6 DEF WritesInv, RowsInv

\* What is true of a build stays true of it.
LEMMA SameBuild ==
    ASSUME UNCHANGED <<die, layout, ids>>
    PROVE  /\ \A o, n : Owner(o, n)' = Owner(o, n)
           /\ \A o, n : Anchored(o, n)' <=> Anchored(o, n)
           /\ \A o, s : Speaks(o, s)' <=> Speaks(o, s)
           /\ NoCollision' <=> NoCollision
           /\ BuildInv' <=> BuildInv
           /\ CompilerTables' = CompilerTables
<1>1. \A o, n : Owner(o, n)' = Owner(o, n)
  BY DEF Owner
<1>2. \A o, n : Anchored(o, n)' <=> Anchored(o, n)
  BY DEF Anchored
<1>3. \A o, s : Speaks(o, s)' <=> Speaks(o, s)
  BY <1>1 DEF Speaks
<1>4. NoCollision' <=> NoCollision
  BY DEF NoCollision
<1>5. BuildInv' <=> BuildInv
  BY <1>1 DEF BuildInv
<1>6. CompilerTables' = CompilerTables
  BY DEF CompilerTables, CompilerDefs, Owner, Anchored
<1> QED
  BY <1>1, <1>2, <1>3, <1>4, <1>5, <1>6

\* The loop over the subprograms of an object: what a row becomes.
LEMMA UpdatedRow ==
    ASSUME BuildInv, WalkInv, Subprograms, NEW row, RowInv(row)
    PROVE  RowInv(Update(row))'
<1> DEFINE moved == Hits(Abstract)
<1>1. /\ pc = "subprograms" /\ pc' = "callsites" /\ obj \in Objects /\ obj # 0
      /\ obj' = obj /\ todo' = todo /\ UNCHANGED <<die, layout, ids>>
  BY DEF Subprograms, WalkInv, Busy, build
<1>2. PICK r : r = Update(row)
  OBVIOUS
<1>3. /\ r.sym = row.sym /\ r.in = row.in
      /\ r.line0 <=> row.line0 /\ row.sym \notin moved
      /\ r.at = IF row.sym \in moved /\ row.line0 THEN obj ELSE row.at
      /\ r = [sym |-> r.sym, in |-> r.in, line0 |-> r.line0, at |-> r.at, decl |-> r.decl]
  BY <1>2 DEF Update, MayRelocate
<1>4. r.line0 \in BOOLEAN
  <2>1. r.line0 = (row.line0 /\ row.sym \notin moved)
    BY <1>2, Zenon DEF Update, MayRelocate
  <2> QED
    BY <2>1, Zenon
<1>5. /\ row.in \in Objects /\ row.sym \in ids
      /\ \A n \in Names : row.sym = Owner(row.in, n) =>
            /\ Defines(die[row.in][n])
            /\ Anchored(row.in, n) => ~row.line0 /\ row.at = Unset
            /\ ~Anchored(row.in, n) => row.line0 \/ row.at # Unset
            /\ ~Anchored(row.in, n) /\ NoCollision /\ Enriched(row.in) => row.at # Unset
  BY DEF RowInv
<1>6. obj # Unset
  BY <1>1 DEF Unset
<1>7. ASSUME NEW n \in Names, row.sym = Owner(row.in, n)
      PROVE  /\ Anchored(row.in, n) => ~r.line0 /\ r.at = Unset
             /\ ~Anchored(row.in, n) => r.line0 \/ r.at # Unset
  BY <1>3, <1>5, <1>6, <1>7
<1>8. ASSUME NEW n \in Names, row.sym = Owner(row.in, n), ~Anchored(row.in, n), NoCollision,
             Enriched(row.in)'
      PROVE  r.at # Unset
  <2>1. row.in \notin todo
    BY <1>1, <1>8 DEF Enriched
  <2>2. CASE row.in # obj
    <3>1. Enriched(row.in)
      BY <1>1, <2>1, <2>2 DEF Enriched
    <3> QED
      BY <1>3, <1>5, <1>6, <1>8, <3>1
  <2>3. CASE row.in = obj
    <3>1. die[obj][n].kind \in Abstract /\ die[obj][n].kind # "absent"
      BY <1>5, <1>8, <2>3 DEF Defines, Anchored, Abstract, Bodies
    <3>2. Resolve(n, obj) = {Owner(obj, n)} \cap ids
      BY <1>1, <1>8, <3>1, ResolvesOwn DEF WalkInv
    <3>3. row.sym \in Resolve(n, obj)
      BY <1>5, <1>8, <2>3, <3>2
    <3>4. row.sym \in moved
      BY <3>1, <3>3 DEF Hits
    <3> QED
      BY <1>3, <1>5, <1>6, <1>8, <3>4
  <2> QED
    BY <2>2, <2>3
<1>9. /\ \A n \in Names : Owner(row.in, n)' = Owner(row.in, n) /\ (Anchored(row.in, n)' <=> Anchored(row.in, n))
      /\ NoCollision' <=> NoCollision
  BY <1>1 DEF Owner, Anchored, NoCollision
<1>10. r.in \in Objects /\ r.sym \in ids'
  BY <1>1, <1>3, <1>5
<1>11. ASSUME NEW n \in Names, r.sym = Owner(r.in, n)'
       PROVE  /\ Defines(die'[r.in][n])
              /\ Anchored(r.in, n)' => ~r.line0 /\ r.at = Unset
              /\ ~Anchored(r.in, n)' => r.line0 \/ r.at # Unset
              /\ ~Anchored(r.in, n)' /\ NoCollision' /\ Enriched(r.in)' => r.at # Unset
  <2>1. row.sym = Owner(row.in, n)
    BY <1>3, <1>9, <1>11
  <2>2. Defines(die'[r.in][n])
    BY <1>1, <1>3, <1>5, <2>1
  <2>3. r.in = row.in
    BY <1>3
  <2> QED
    BY <1>7, <1>8, <1>9, <2>1, <2>2, <2>3
<1>12. RowInv(r)'
  BY <1>3, <1>4, <1>10, <1>11 DEF RowInv
<1>13. Update(row)' = Update(row)
  BY <1>1 DEF Update, MayRelocate, Hits, Resolve
<1> QED
  BY <1>2, <1>12, <1>13

\* The walk of the subprograms writes only what the current object says.
LEMMA SubprogramsStep ==
    ASSUME BuildInv, WalkInv, WritesInv, Subprograms
    PROVE  WritesInv'
<1>1. /\ pc = "subprograms" /\ pc' = "callsites" /\ obj \in Objects /\ obj \in Nat /\ obj # Unset
      /\ obj' = obj /\ todo' = todo /\ UNCHANGED <<die, layout, ids>>
  BY DEF Subprograms, WalkInv, Busy, build, Unset
<1>2. /\ tables = [sig |-> tables.sig, defs |-> tables.defs, indirect |-> tables.indirect,
                   inline |-> tables.inline, types |-> tables.types, fields |-> tables.fields,
                   fts |-> tables.fts]
      /\ tables.sig \in [Symbols -> Nat]
  BY DEF WritesInv, TablesInv
<1> DEFINE new == [s \in Symbols |-> IF s \in Hits(Abstract \cup Bodies) THEN obj ELSE tables.sig[s]]
           rows == {Update(row) : row \in tables.defs}
<1>3. tables' = [tables EXCEPT !.sig = new, !.defs = rows]
  BY DEF Subprograms
<1> HIDE DEF new, rows
<1>4. /\ tables'.sig = new /\ tables'.defs = rows /\ tables'.indirect = tables.indirect
      /\ tables'.inline = tables.inline /\ tables'.types = tables.types
      /\ tables'.fields = tables.fields
      /\ tables' = [sig |-> tables'.sig, defs |-> tables'.defs, indirect |-> tables'.indirect,
                    inline |-> tables'.inline, types |-> tables'.types, fields |-> tables'.fields,
                    fts |-> tables'.fts]
  BY <1>2, <1>3
<1>5. new \in [Symbols -> Nat]
  BY <1>1, <1>2 DEF new
<1>6. /\ \A o, n : Owner(o, n)' = Owner(o, n)
      /\ \A o, s : Speaks(o, s)' <=> Speaks(o, s)
      /\ NoCollision' <=> NoCollision
  BY <1>1, SameBuild
<1>7. FactsBelong'
  <2>1. SUFFICES ASSUME NoCollision
                 PROVE  /\ \A s \in Symbols : tables'.sig[s] # Unset => Speaks(tables'.sig[s], s)
                        /\ \A row \in tables'.defs :
                              /\ row.at # Unset => Speaks(row.at, row.sym)
                              /\ row.decl # Unset => Speaks(row.decl, row.sym)
                        /\ \A r \in tables'.indirect : Speaks(r.in, r.caller)
                        /\ \A r \in tables'.inline : Speaks(r.in, r.callee) /\ Speaks(r.in, r.caller)
    BY <1>6 DEF FactsBelong
  <2>2. /\ \A s \in Symbols : tables.sig[s] # Unset => Speaks(tables.sig[s], s)
        /\ \A row \in tables.defs :
              /\ row.at # Unset => Speaks(row.at, row.sym)
              /\ row.decl # Unset => Speaks(row.decl, row.sym)
        /\ \A r \in tables.indirect : Speaks(r.in, r.caller)
        /\ \A r \in tables.inline : Speaks(r.in, r.callee) /\ Speaks(r.in, r.caller)
    BY <2>1 DEF WritesInv, FactsBelong
  <2>3. /\ "absent" \notin Abstract \cup Bodies /\ "absent" \notin Abstract
        /\ "absent" \notin {"declared"} /\ Objects \in SUBSET (Nat \ {0})
    BY DEF Abstract, Bodies, WalkInv
  <2>4. /\ \A s \in Hits(Abstract \cup Bodies) : Speaks(obj, s)
        /\ \A s \in Hits(Abstract) : Speaks(obj, s)
        /\ \A s \in Hits({"declared"}) : Speaks(obj, s)
    BY <1>1, <2>1, <2>3, HitsSpeak
  <2>5. \A s \in Symbols : new[s] # Unset => Speaks(new[s], s)
    BY <2>2, <2>4 DEF new
  <2>6. ASSUME NEW row \in tables.defs
        PROVE  /\ Update(row).at # Unset => Speaks(Update(row).at, Update(row).sym)
               /\ Update(row).decl # Unset => Speaks(Update(row).decl, Update(row).sym)
    <3>1. /\ Update(row).sym = row.sym
          /\ Update(row).at = IF row.sym \in Hits(Abstract) /\ row.line0 THEN obj ELSE row.at
          /\ Update(row).decl =
                IF row.sym \in Hits({"declared"}) /\ row.decl = Unset THEN obj ELSE row.decl
      BY DEF Update, MayRelocate
    <3> QED
      BY <2>2, <2>4, <3>1
  <2> QED
    BY <1>4, <2>2, <2>5, <2>6 DEF rows
<1>8. RowsInv'
  <2>1. ASSUME NEW row \in tables.defs PROVE RowInv(Update(row))'
    BY UpdatedRow DEF WritesInv, RowsInv
  <2>2. ASSUME NEW row \in tables'.defs PROVE RowInv(row)'
    <3>1. PICK old \in tables.defs : row = Update(old)
      BY <1>4, <2>2 DEF rows
    <3>2. Update(old)' = Update(old)
      BY <1>1 DEF Update, MayRelocate, Hits, Resolve
    <3> QED
      BY <2>1, <3>1, <3>2
  <2> QED
    BY <2>2 DEF RowsInv
<1>9. SigInv'
  <2>1. SUFFICES ASSUME NEW o \in Objects, NEW n \in Names, Enriched(o)', Defines(die[o][n]),
                        Owner(o, n) \in ids, <<n, 0>> \notin ids
                 PROVE  tables'.sig[Owner(o, n)] # Unset
    BY <1>1, <1>6 DEF SigInv
  <2>2. Owner(o, n) \in Symbols
    BY OwnerIs DEF WalkInv
  <2>3. CASE o = obj
    <3>1. Owner(o, n) = <<n, o>>
      BY <2>1, OwnerIs DEF WalkInv
    <3>2. die[obj][n].kind \in Abstract \cup Bodies
      BY <2>1, <2>3 DEF Defines
    <3>3. Owner(o, n) \in Resolve(n, obj)
      BY <2>1, <2>3, <3>1 DEF Resolve
    <3>4. Owner(o, n) \in Hits(Abstract \cup Bodies)
      BY <3>2, <3>3 DEF Hits
    <3> QED
      BY <1>1, <1>4, <2>2, <3>4 DEF new
  <2>4. CASE o # obj
    <3>1. Enriched(o)
      BY <1>1, <2>1, <2>4 DEF Enriched
    <3>2. tables.sig[Owner(o, n)] # Unset
      BY <2>1, <3>1 DEF WritesInv, SigInv
    <3> QED
      BY <1>1, <1>4, <2>2, <3>2 DEF new
  <2> QED
    BY <2>3, <2>4
<1>10. TypesInv'
  <2>1. \A o : Walked(o)' => Walked(o)
    BY <1>1 DEF Walked, Busy
  <2> QED
    BY <1>1, <1>4, <2>1 DEF WritesInv, TypesInv, TypeFromOneUnit
<1> QED
  BY <1>4, <1>5, <1>7, <1>8, <1>9, <1>10 DEF WritesInv, TablesInv

\* A step that leaves what is written on symbols, and what was walked, as it was.
LEMMA RestStays ==
    ASSUME UNCHANGED <<die, layout, ids>>, WritesInv,
           tables'.sig = tables.sig, tables'.defs = tables.defs,
           \A o \in Objects : Enriched(o)' => Enriched(o)
    PROVE  RowsInv' /\ SigInv'
<1>1. /\ \A o, n : Owner(o, n)' = Owner(o, n)
      /\ \A o, n : Anchored(o, n)' <=> Anchored(o, n)
      /\ NoCollision' <=> NoCollision
  BY SameBuild
<1>2. SigInv'
  BY <1>1 DEF SigInv, WritesInv
<1>3. ASSUME NEW row \in tables'.defs PROVE RowInv(row)'
  <2>1. RowInv(row)
    BY <1>3 DEF WritesInv, RowsInv
  <2>2. /\ row = [sym |-> row.sym, in |-> row.in, line0 |-> row.line0, at |-> row.at, decl |-> row.decl]
        /\ row.in \in Objects /\ row.sym \in ids /\ row.line0 \in BOOLEAN
    BY <2>1 DEF RowInv
  <2>3. ASSUME NEW n \in Names, row.sym = Owner(row.in, n)
        PROVE  /\ Defines(die[row.in][n])
               /\ Anchored(row.in, n) => ~row.line0 /\ row.at = Unset
               /\ ~Anchored(row.in, n) => row.line0 \/ row.at # Unset
               /\ ~Anchored(row.in, n) /\ NoCollision /\ Enriched(row.in)' => row.at # Unset
    BY <2>1, <2>2, <2>3 DEF RowInv
  <2> QED
    BY <1>1, <2>2, <2>3 DEF RowInv
<1> QED
  BY <1>2, <1>3 DEF RowsInv

\* The walk of the call sites writes only what the current object says.
LEMMA CallSitesStep ==
    ASSUME BuildInv, WalkInv, WritesInv, CallSites
    PROVE  WritesInv'
<1> DEFINE new == tables.indirect \cup {[caller |-> s, in |-> obj] : s \in Hits(Bodies)}
<1>1. /\ pc = "callsites" /\ pc' = "inlines" /\ obj \in Objects
      /\ obj' = obj /\ todo' = todo /\ UNCHANGED <<die, layout, ids>>
      /\ tables' = [tables EXCEPT !.indirect = new]
  BY DEF CallSites, WalkInv, Busy, build
<1>2. /\ tables = [sig |-> tables.sig, defs |-> tables.defs, indirect |-> tables.indirect,
                   inline |-> tables.inline, types |-> tables.types, fields |-> tables.fields,
                   fts |-> tables.fts]
      /\ tables.sig \in [Symbols -> Nat]
  BY DEF WritesInv, TablesInv
<1> HIDE DEF new
<1>3. /\ tables'.sig = tables.sig /\ tables'.defs = tables.defs /\ tables'.indirect = new
      /\ tables'.inline = tables.inline /\ tables'.types = tables.types
      /\ tables'.fields = tables.fields
      /\ tables' = [sig |-> tables'.sig, defs |-> tables'.defs, indirect |-> tables'.indirect,
                    inline |-> tables'.inline, types |-> tables'.types, fields |-> tables'.fields,
                    fts |-> tables'.fts]
  BY <1>1, <1>2
<1>4. /\ \A o, s : Speaks(o, s)' <=> Speaks(o, s)
      /\ NoCollision' <=> NoCollision
  BY <1>1, SameBuild
<1>5. NoCollision => \A r \in new : Speaks(r.in, r.caller)
  <2>1. SUFFICES ASSUME NoCollision, NEW r \in new PROVE Speaks(r.in, r.caller)
    OBVIOUS
  <2>2. "absent" \notin Bodies /\ Objects \in SUBSET (Nat \ {0})
    BY DEF Bodies, WalkInv
  <2>3. \A s \in Hits(Bodies) : Speaks(obj, s)
    BY <1>1, <2>1, <2>2, HitsSpeak
  <2>4. \A q \in tables.indirect : Speaks(q.in, q.caller)
    BY <2>1 DEF WritesInv, FactsBelong
  <2> QED
    BY <2>1, <2>3, <2>4 DEF new
<1>6. FactsBelong'
  BY <1>3, <1>4, <1>5 DEF FactsBelong, WritesInv
<1>7. \A o : (Enriched(o)' => Enriched(o)) /\ (Walked(o)' => Walked(o))
  BY <1>1 DEF Enriched, Walked, Busy
<1>8. RowsInv' /\ SigInv'
  BY <1>1, <1>3, <1>7, RestStays
<1>9. TypesInv'
  BY <1>1, <1>3, <1>7 DEF WritesInv, TypesInv, TypeFromOneUnit
<1> QED
  BY <1>2, <1>3, <1>6, <1>8, <1>9 DEF WritesInv, TablesInv

\* The walk of the inlined calls writes only what the current object says.
LEMMA InlineInstancesStep ==
    ASSUME BuildInv, WalkInv, WritesInv, InlineInstances
    PROVE  WritesInv'
<1> DEFINE pairs == {p \in Names \X Names : /\ p[1] # p[2]
                                            /\ die[obj][p[1]].kind \in Abstract
                                            /\ die[obj][p[2]].kind \in Bodies}
           new == tables.inline \cup
                     UNION {[callee : Resolve(p[1], obj), caller : Resolve(p[2], obj),
                             names : {p}, in : {obj}] : p \in pairs}
<1>1. /\ pc = "inlines" /\ pc' = "types" /\ obj \in Objects
      /\ obj' = obj /\ todo' = todo /\ UNCHANGED <<die, layout, ids>>
      /\ tables' = [tables EXCEPT !.inline = new]
  BY DEF InlineInstances, WalkInv, Busy, build
<1>2. /\ tables = [sig |-> tables.sig, defs |-> tables.defs, indirect |-> tables.indirect,
                   inline |-> tables.inline, types |-> tables.types, fields |-> tables.fields,
                   fts |-> tables.fts]
      /\ tables.sig \in [Symbols -> Nat]
  BY DEF WritesInv, TablesInv
<1>3. NoCollision => \A r \in new : Speaks(r.in, r.callee) /\ Speaks(r.in, r.caller)
  <2>1. SUFFICES ASSUME NoCollision, NEW r \in new
                 PROVE  Speaks(r.in, r.callee) /\ Speaks(r.in, r.caller)
    OBVIOUS
  <2>2. /\ "absent" \notin Bodies /\ "absent" \notin Abstract /\ Objects \in SUBSET (Nat \ {0})
    BY DEF Abstract, Bodies, WalkInv
  <2>3. /\ \A s \in Hits(Bodies) : Speaks(obj, s)
        /\ \A s \in Hits(Abstract) : Speaks(obj, s)
    BY <1>1, <2>1, <2>2, HitsSpeak
  <2>4. \A q \in tables.inline : Speaks(q.in, q.callee) /\ Speaks(q.in, q.caller)
    BY <2>1 DEF WritesInv, FactsBelong
  <2>5. CASE r \notin tables.inline
    <3>1. PICK p \in pairs : r \in [callee : Resolve(p[1], obj), caller : Resolve(p[2], obj),
                                    names : {p}, in : {obj}]
      BY <2>5
    <3>2. r.callee \in Resolve(p[1], obj) /\ r.caller \in Resolve(p[2], obj) /\ r.in = obj
      BY <3>1
    <3>3. /\ p[1] \in Names /\ p[2] \in Names
          /\ die[obj][p[1]].kind \in Abstract /\ die[obj][p[2]].kind \in Bodies
      BY <3>1
    <3>4. r.callee \in Hits(Abstract) /\ r.caller \in Hits(Bodies)
      BY <3>2, <3>3 DEF Hits
    <3> QED
      BY <2>3, <3>2, <3>4
  <2> QED
    BY <2>4, <2>5
<1> HIDE DEF new
<1>4. /\ tables'.sig = tables.sig /\ tables'.defs = tables.defs /\ tables'.inline = new
      /\ tables'.indirect = tables.indirect /\ tables'.types = tables.types
      /\ tables'.fields = tables.fields
      /\ tables' = [sig |-> tables'.sig, defs |-> tables'.defs, indirect |-> tables'.indirect,
                    inline |-> tables'.inline, types |-> tables'.types, fields |-> tables'.fields,
                    fts |-> tables'.fts]
  BY <1>1, <1>2
<1>5. /\ \A o, s : Speaks(o, s)' <=> Speaks(o, s)
      /\ NoCollision' <=> NoCollision
  BY <1>1, SameBuild
<1>6. FactsBelong'
  BY <1>3, <1>4, <1>5 DEF FactsBelong, WritesInv
<1>7. \A o : (Enriched(o)' => Enriched(o)) /\ (Walked(o)' => Walked(o))
  BY <1>1 DEF Enriched, Walked, Busy
<1>8. RowsInv' /\ SigInv'
  BY <1>1, <1>4, <1>7, RestStays
<1>9. TypesInv'
  BY <1>1, <1>4, <1>7 DEF WritesInv, TypesInv, TypeFromOneUnit
<1> QED
  BY <1>2, <1>4, <1>6, <1>8, <1>9 DEF WritesInv, TablesInv

\* The first object that has the type stores it, with the members it saw.
LEMMA TypesStep ==
    ASSUME BuildInv, WalkInv, WritesInv, Types
    PROVE  WritesInv'
<1> DEFINE had == {l \in layout[obj] : l.inProject}
           newTypes == IF tables.types = {} /\ had # {} THEN {obj} ELSE tables.types
           newFields == IF tables.types = {}
                        THEN tables.fields \cup {[member |-> m, in |-> obj] :
                                                    m \in UNION {l.members : l \in had}}
                        ELSE tables.fields
<1>1. /\ pc = "types" /\ pc' = "next" /\ obj \in Objects /\ obj \notin todo /\ obj \in Nat
      /\ obj' = obj /\ todo' = todo /\ UNCHANGED <<die, layout, ids>>
      /\ tables' = [tables EXCEPT !.types = newTypes, !.fields = newFields]
  BY DEF Types, Fresh, WalkInv, Busy, build
<1>2. /\ tables = [sig |-> tables.sig, defs |-> tables.defs, indirect |-> tables.indirect,
                   inline |-> tables.inline, types |-> tables.types, fields |-> tables.fields,
                   fts |-> tables.fts]
      /\ tables.sig \in [Symbols -> Nat]
  BY DEF WritesInv, TablesInv
<1> HIDE DEF newTypes, newFields
<1>3. /\ tables'.sig = tables.sig /\ tables'.defs = tables.defs /\ tables'.inline = tables.inline
      /\ tables'.indirect = tables.indirect /\ tables'.types = newTypes
      /\ tables'.fields = newFields
      /\ tables' = [sig |-> tables'.sig, defs |-> tables'.defs, indirect |-> tables'.indirect,
                    inline |-> tables'.inline, types |-> tables'.types, fields |-> tables'.fields,
                    fts |-> tables'.fts]
  BY <1>1, <1>2
<1>4. /\ \A o, s : Speaks(o, s)' <=> Speaks(o, s)
      /\ NoCollision' <=> NoCollision
  BY <1>1, SameBuild
<1>5. FactsBelong'
  BY <1>3, <1>4 DEF FactsBelong, WritesInv
<1>6. \A o : Enriched(o)' => Enriched(o)
  BY <1>1 DEF Enriched
<1>7. RowsInv' /\ SigInv'
  BY <1>1, <1>3, <1>6, RestStays
<1>8. /\ tables.types = {} => tables.fields = {}
      /\ tables.types = {} => \A o \in Objects : Walked(o) => \A l \in layout[o] : ~l.inProject
      /\ TypeFromOneUnit
  BY DEF WritesInv, TypesInv
<1>9. \A o \in Objects : o # obj => (Walked(o)' => Walked(o))
  BY <1>1 DEF Walked, Busy
<1>10. newTypes = {} => newFields = {}
  BY <1>8 DEF newTypes, newFields
<1>11. newTypes = {} => \A o \in Objects : Walked(o)' => \A l \in layout[o] : ~l.inProject
  BY <1>8, <1>9 DEF newTypes
<1>12. ASSUME NEW f \in newFields
       PROVE  /\ newTypes = {f.in}
              /\ \A l \in layout[f.in] : f.member \in l.members
              /\ \A o \in Objects : o < f.in => \A l \in layout[o] : ~l.inProject
  <2>1. CASE tables.types # {}
    BY <1>8, <1>12, <2>1 DEF newTypes, newFields, TypeFromOneUnit
  <2>2. CASE tables.types = {}
    <3>1. PICK l \in had : f.in = obj /\ f.member \in l.members
      BY <1>8, <1>12, <2>2 DEF newFields
    <3>2. \A m \in layout[obj] : m = l
      BY <1>1 DEF BuildInv
    <3>3. newTypes = {f.in}
      BY <2>2, <3>1 DEF newTypes
    <3>4. ASSUME NEW o \in Objects, o < obj PROVE Walked(o)
      <4>1. o \in Nat /\ o # obj
        BY <1>1, <3>4 DEF WalkInv
      <4>2. o \notin todo
        <5>1. SUFFICES ASSUME o \in todo PROVE FALSE
          OBVIOUS
        <5>2. obj < o
          BY <1>1, <5>1 DEF WalkInv
        <5> QED
          BY <1>1, <3>4, <4>1, <5>2
      <4> QED
        BY <1>1, <4>1, <4>2 DEF Walked
    <3> QED
      BY <1>8, <2>2, <3>1, <3>2, <3>3, <3>4
  <2> QED
    BY <2>1, <2>2
<1>13. TypesInv'
  BY <1>1, <1>3, <1>10, <1>11, <1>12 DEF TypesInv, TypeFromOneUnit
<1> QED
  BY <1>2, <1>3, <1>5, <1>7, <1>13 DEF WritesInv, TablesInv

\* A step that writes nothing and enriches nothing.
LEMMA NothingWritten ==
    ASSUME UNCHANGED <<die, layout, ids>>, WritesInv,
           tables'.sig = tables.sig, tables'.defs = tables.defs,
           tables'.indirect = tables.indirect, tables'.inline = tables.inline,
           tables'.types = tables.types, tables'.fields = tables.fields,
           tables' = [sig |-> tables'.sig, defs |-> tables'.defs, indirect |-> tables'.indirect,
                      inline |-> tables'.inline, types |-> tables'.types, fields |-> tables'.fields,
                      fts |-> tables'.fts],
           \A o \in Objects : (Enriched(o)' => Enriched(o)) /\ (Walked(o)' => Walked(o))
    PROVE  WritesInv'
<1>1. /\ \A o, s : Speaks(o, s)' <=> Speaks(o, s)
      /\ NoCollision' <=> NoCollision
  BY SameBuild
<1>2. FactsBelong'
  BY <1>1 DEF FactsBelong, WritesInv
<1>3. RowsInv' /\ SigInv'
  BY RestStays
<1>4. TypesInv'
  BY DEF WritesInv, TypesInv, TypeFromOneUnit
<1> QED
  BY <1>2, <1>3, <1>4 DEF WritesInv, TablesInv

\* The invariant holds while nothing of the DWARF pass changes.
LEMMA DwarfPlaneStill ==
    ASSUME BuildInv, WalkInv, WritesInv, SavedInv,
           UNCHANGED <<die, layout, ids, todo, pc, obj, tables, saved>>
    PROVE  BuildInv' /\ WalkInv' /\ WritesInv' /\ SavedInv'
<1>1. BuildInv' /\ CompilerTables' = CompilerTables
  BY SameBuild
<1>2. WalkInv'
  BY DEF WalkInv, Busy
<1>3. SavedInv'
  BY <1>1 DEF SavedInv
<1>4. tables = [sig |-> tables.sig, defs |-> tables.defs, indirect |-> tables.indirect,
                inline |-> tables.inline, types |-> tables.types, fields |-> tables.fields,
                fts |-> tables.fts]
  BY DEF WritesInv, TablesInv
<1>5. \A o \in Objects : (Enriched(o)' => Enriched(o)) /\ (Walked(o)' => Walked(o))
  BY DEF Enriched, Walked, Busy
<1>6. WritesInv'
  BY <1>4, <1>5, NothingWritten
<1> QED
  BY <1>1, <1>2, <1>3, <1>6

\* Every step of the DWARF pass keeps its invariant.
LEMMA DwarfPlaneSteps ==
    ASSUME BuildInv, WalkInv, WritesInv, SavedInv, Next
    PROVE  BuildInv' /\ WalkInv' /\ WritesInv' /\ SavedInv'
<1>1. UNCHANGED <<die, layout, ids>>
  BY DEF Next, ReadObject, ReadFails, Subprograms, CallSites, InlineInstances, Types, Commit,
         Done, build, vars
<1>2. BuildInv' /\ CompilerTables' = CompilerTables
  BY <1>1, SameBuild
<1>3. /\ Objects \in SUBSET (Nat \ {0}) /\ todo \in SUBSET Objects /\ todo \in SUBSET Nat
      /\ \A o \in Objects \ todo : \A p \in todo : o < p
      /\ pc = "done" => todo = {}
      /\ Busy => obj \in Objects /\ obj \notin todo
  BY DEF WalkInv
<1>4. /\ pc # "done" => saved = CompilerTables
      /\ pc = "done" => saved = tables /\ tables.fts = tables.sig
      /\ pc = "failed" => tables = CompilerTables
  BY DEF SavedInv
<1>5. tables = [sig |-> tables.sig, defs |-> tables.defs, indirect |-> tables.indirect,
                inline |-> tables.inline, types |-> tables.types, fields |-> tables.fields,
                fts |-> tables.fts]
  BY DEF WritesInv, TablesInv
<1>6. CASE ReadObject
  <2>1. /\ pc = "next" /\ todo # {} /\ obj' = NextObject /\ todo' = todo \ {NextObject}
        /\ pc' = "subprograms" /\ tables' = tables /\ saved' = saved
    BY <1>6 DEF ReadObject
  <2>2. NextObject \in todo /\ \A p \in todo : NextObject <= p
    <3>1. \E o \in todo : \A p \in todo : o <= p
      BY <1>3, <2>1, LeastElement
    <3> QED
      BY <3>1 DEF NextObject
  <2>3. PICK o : o = NextObject
    OBVIOUS
  <2>4. \A q \in Objects \ todo' : \A p \in todo' : q < p
    <3>1. SUFFICES ASSUME NEW q \in Objects \ todo', NEW p \in todo' PROVE q < p
      OBVIOUS
    <3>2. p \in todo /\ p # o /\ p \in Nat /\ o \in Nat /\ q \in Nat /\ (q = o \/ q \notin todo)
      BY <1>3, <2>1, <2>2, <2>3, <3>1
    <3>3. CASE q = o
      BY <2>2, <2>3, <3>2, <3>3
    <3>4. CASE q \notin todo
      BY <1>3, <3>1, <3>2, <3>4
    <3> QED
      BY <3>2, <3>3, <3>4
  <2>5. WalkInv'
    BY <1>3, <2>1, <2>2, <2>4 DEF WalkInv, Busy
  <2>6. \A q \in Objects : (Enriched(q)' => Enriched(q)) /\ (Walked(q)' => Walked(q))
    BY <2>1 DEF Enriched, Walked, Busy
  <2>7. WritesInv'
    BY <1>1, <1>5, <2>1, <2>6, NothingWritten
  <2> QED
    BY <1>2, <1>4, <2>1, <2>5, <2>7 DEF SavedInv
<1>7. CASE ReadFails
  <2>1. /\ pc = "next" /\ pc' = "failed" /\ tables' = saved /\ saved' = saved
        /\ obj' = obj /\ todo' = todo
    BY <1>7 DEF ReadFails
  <2>2. tables' = CompilerTables' /\ saved' = CompilerTables'
    BY <1>2, <1>4, <2>1
  <2>3. WalkInv'
    BY <1>3, <2>1 DEF WalkInv, Busy
  <2>4. \A o \in Objects : ~Enriched(o)' /\ ~Walked(o)'
    BY <2>1 DEF Enriched, Walked
  <2>5. WritesInv'
    <3>1. Untouched'
      BY <2>2, <2>4 DEF Untouched
    <3> QED
      BY <1>2, <3>1, CompilerLeft, PTL
  <2> QED
    BY <1>2, <2>1, <2>2, <2>3, <2>5 DEF SavedInv
<1>8. ASSUME obj' = obj, todo' = todo, saved' = saved, Busy, pc' \in {"callsites", "inlines", "types", "next"}
      PROVE  WalkInv' /\ SavedInv'
  <2>1. WalkInv'
    BY <1>3, <1>8 DEF WalkInv, Busy
  <2>2. pc # "done" /\ pc' # "done" /\ pc' # "failed"
    BY <1>8 DEF Busy
  <2> QED
    BY <1>2, <1>4, <1>8, <2>1, <2>2 DEF SavedInv
<1>9. CASE Subprograms
  BY <1>2, <1>8, <1>9, SubprogramsStep DEF Subprograms, Busy
<1>10. CASE CallSites
  BY <1>2, <1>8, <1>10, CallSitesStep DEF CallSites, Busy
<1>11. CASE InlineInstances
  BY <1>2, <1>8, <1>11, InlineInstancesStep DEF InlineInstances, Busy
<1>12. CASE Types
  BY <1>2, <1>8, <1>12, TypesStep DEF Types, Busy
<1>13. CASE Commit
  <2>1. /\ pc = "next" /\ todo = {} /\ pc' = "done" /\ todo' = todo /\ obj' = obj
        /\ tables' = [tables EXCEPT !.fts = tables.sig] /\ saved' = tables'
    BY <1>13 DEF Commit
  <2>2. /\ tables'.sig = tables.sig /\ tables'.defs = tables.defs /\ tables'.inline = tables.inline
        /\ tables'.indirect = tables.indirect /\ tables'.types = tables.types
        /\ tables'.fields = tables.fields /\ tables'.fts = tables.sig
        /\ tables' = [sig |-> tables'.sig, defs |-> tables'.defs, indirect |-> tables'.indirect,
                      inline |-> tables'.inline, types |-> tables'.types, fields |-> tables'.fields,
                      fts |-> tables'.fts]
    BY <1>5, <2>1
  <2>3. WalkInv'
    BY <1>3, <2>1 DEF WalkInv, Busy
  <2>4. \A q \in Objects : (Enriched(q)' => Enriched(q)) /\ (Walked(q)' => Walked(q))
    BY <2>1 DEF Enriched, Walked, Busy
  <2>5. WritesInv'
    BY <1>1, <2>2, <2>4, NothingWritten
  <2> QED
    BY <1>2, <2>1, <2>2, <2>3, <2>5 DEF SavedInv
<1>14. CASE Done
  BY <1>14, DwarfPlaneStill DEF Done, vars
<1> QED
  BY <1>6, <1>7, <1>9, <1>10, <1>11, <1>12, <1>13, <1>14 DEF Next

\* The invariant holds before the DWARF pass, and while it is idle.
LEMMA DwarfPlaneInitially == PassInit => DwarfIInv
<1>1. SUFFICES ASSUME PassInit PROVE DwarfIInv
  OBVIOUS
<1>2. CASE pass # "dwarf"
  <2>1. DwarfIdle
    BY <1>1, <1>2 DEF PassInit
  <2> QED
    BY <1>2, <2>1 DEF DwarfIdle, DwarfIInv
<1>3. CASE pass = "dwarf"
  <2>1. Init
    BY <1>1, <1>3 DEF PassInit
  <2>2. Objects \in SUBSET (Nat \ {0})
    BY DwarfPlaneAssumption
  <2>3. PICK b \in Builds : die = b.die /\ layout = b.layout
    BY <2>1 DEF Init
  <2>4. /\ b.die \in [Objects -> [Names ->
               [scope : {"external", "static"},
                kind : {"absent", "declared", "body", "inlined", "both"}]]]
        /\ \A o \in Objects : \A l, m \in b.layout[o] : l = m /\ l.inProject \in BOOLEAN
    BY DwarfPlaneAssumption
  <2>5. \A o \in Objects, n \in Names :
           /\ die[o][n].scope \in {"external", "static"}
           /\ die[o][n].kind \in {"absent", "declared", "body", "inlined", "both"}
    <3>1. SUFFICES ASSUME NEW o \in Objects, NEW n \in Names
                   PROVE  /\ die[o][n].scope \in {"external", "static"}
                          /\ die[o][n].kind \in {"absent", "declared", "body", "inlined", "both"}
      OBVIOUS
    <3>2. die[o][n] \in [scope : {"external", "static"},
                         kind : {"absent", "declared", "body", "inlined", "both"}]
      BY <2>3, <2>4
    <3> QED
      BY <3>2
  <2>6. \A s \in ids : \E o \in Objects : \E n \in Names : s = Owner(o, n)
    <3>1. ids \in SUBSET {Owner(o, n) : o \in Objects, n \in Names}
      BY <2>1 DEF Init
    <3> QED
      BY <3>1
  <2>7. BuildInv
    BY <2>3, <2>4, <2>5, <2>6 DEF BuildInv
  <2>8. todo = Objects /\ pc = "next" /\ tables = CompilerTables /\ saved = CompilerTables
    BY <2>1 DEF Init
  <2>9. WalkInv
    BY <2>2, <2>8 DEF WalkInv, Busy
  <2>10. \A o \in Objects : ~Enriched(o) /\ ~Walked(o)
    BY <2>8 DEF Enriched, Walked
  <2>11. WritesInv
    BY <2>7, <2>8, <2>10, CompilerLeft DEF Untouched
  <2> QED
    BY <1>3, <2>7, <2>8, <2>9, <2>11 DEF DwarfIInv, SavedInv
<1> QED
  BY <1>2, <1>3

\* Every step of collect keeps the invariant of the DWARF pass.
LEMMA DwarfPlaneStep ==
    ASSUME DwarfIInv, [PassNext]_passVars
    PROVE  DwarfIInv'
<1>1. pass' = pass
  BY DEF PassNext, passVars, IngestCompiler, IngestDwarf, IngestLink, IngestSources
<1>2. CASE pass # "dwarf"
  <2>1. UNCHANGED vars
    BY <1>2 DEF PassNext, passVars, IngestCompiler, IngestDwarf, IngestLink, IngestSources
  <2>2. UNCHANGED <<die, layout, ids, pc, tables, saved>>
    BY <2>1 DEF vars
  <2>3. CompilerTables' = CompilerTables
    BY <2>2, SameBuild
  <2> QED
    BY <1>1, <1>2, <2>2, <2>3 DEF DwarfIInv
<1>3. CASE pass = "dwarf"
  <2>1. BuildInv /\ WalkInv /\ WritesInv /\ SavedInv
    BY <1>3 DEF DwarfIInv
  <2>2. CASE IngestDwarf
    BY <1>1, <1>3, <2>1, <2>2, DwarfPlaneSteps DEF IngestDwarf, DwarfIInv
  <2>3. CASE UNCHANGED passVars
    BY <1>1, <1>3, <2>1, <2>3, DwarfPlaneStill DEF passVars, vars, DwarfIInv
  <2> QED
    BY <1>3, <2>2, <2>3 DEF PassNext, IngestCompiler, IngestLink, IngestSources
<1> QED
  BY <1>2, <1>3

\* What the inductive invariant says about an index that is not the pass's turn.
LEMMA DwarfPlaneIdle ==
    ASSUME DwarfIInv, pass # "dwarf"
    PROVE  FactsBelong /\ PlacedOnce /\ TypeFromOneUnit /\ AllOrNothing
<1>1. ids = {} /\ pc = "" /\ tables = CompilerTables /\ saved = CompilerTables
  BY DEF DwarfIInv
<1>2. CompilerDefs = {}
  BY <1>1 DEF CompilerDefs
<1>3. /\ tables.sig = [s \in Symbols |-> Unset] /\ tables.defs = {} /\ tables.indirect = {}
      /\ tables.inline = {} /\ tables.fields = {}
  BY <1>1, <1>2 DEF CompilerTables
<1> QED
  BY <1>1, <1>3 DEF FactsBelong, PlacedOnce, TypeFromOneUnit, AllOrNothing

\* For every build without namesakes, at every moment of the DWARF pass, a signature,
\* place, prototype, call or copy is written on a symbol of the object it was read
\* from (dwarf.go DWARF, resolveSymbolID).
THEOREM FactsAlwaysBelong == PassSpec => []FactsBelong
<1>1. DwarfIInv => FactsBelong
  BY DwarfPlaneIdle DEF DwarfIInv, WritesInv
<1> QED
  BY <1>1, DwarfPlaneInitially, DwarfPlaneStep, PTL DEF PassSpec

\* For every build, the place .ci gave a definition is never moved, and the pass
\* ends with a place for every other one (dwarf.go "WHERE line = 0").
THEOREM AlwaysPlacedOnce == PassSpec => []PlacedOnce
<1>1. ASSUME DwarfIInv PROVE PlacedOnce
  <2>1. CASE pass # "dwarf"
    BY <1>1, <2>1, DwarfPlaneIdle
  <2>2. CASE pass = "dwarf"
    <3>1. SUFFICES ASSUME NEW row \in tables.defs, NEW n \in Names, row.sym = Owner(row.in, n)
                   PROVE  /\ Anchored(row.in, n) => row.at = Unset
                          /\ pc = "done" /\ ~Anchored(row.in, n) /\ NoCollision => row.at # Unset
      BY DEF PlacedOnce
    <3>2. RowInv(row) /\ WalkInv
      BY <1>1, <2>2 DEF DwarfIInv, WritesInv, RowsInv
    <3>3. pc = "done" => Enriched(row.in)
      BY <3>2 DEF WalkInv, Enriched
    <3> QED
      BY <3>1, <3>2, <3>3 DEF RowInv
  <2> QED
    BY <2>1, <2>2
<1> QED
  BY <1>1, DwarfPlaneInitially, DwarfPlaneStep, PTL DEF PassSpec

\* For every build, the members stored of a type are those of the first object that
\* uses it and of no other (dwarf.go insertType and its callers).
THEOREM TypeAlwaysFromOneUnit == PassSpec => []TypeFromOneUnit
<1>1. DwarfIInv => TypeFromOneUnit
  BY DwarfPlaneIdle DEF DwarfIInv, WritesInv, TypesInv
<1> QED
  BY <1>1, DwarfPlaneInitially, DwarfPlaneStep, PTL DEF PassSpec

-----------------------------------------------------------------------------
(* The link pass: link.go Link.                                            *)

\* The lookup points every name at a row that has it, and at a defined row where
\* one of the rows read so far is.
LookupInv ==
    /\ \A n \in DOMAIN nameToID :
          nameToID[n] \in DOMAIN linked.rows /\ n \in Link!NamesOf(nameToID[n])
    /\ \A i \in DOMAIN linked.rows : (lpc = "lookup" => i < lat) =>
          \A n \in Link!NamesOf(i) :
              /\ n \in DOMAIN nameToID
              /\ linked.rows[i].hasDef => linked.rows[nameToID[n]].hasDef

LinkWalkInv ==
    /\ linked \in Links /\ lat \in Nat \ {0}
    /\ lpc \in {"lookup", "scan", "target", "objdump", "done", "failed"}
    /\ lpc = "scan" => lat = 1
    /\ lpc = "objdump" => lat <= Len(linked.targets) /\ Link!Linked(linked.targets[lat])
    /\ lpc = "done" => lat > Len(linked.targets)
    /\ lpc \in {"lookup", "scan", "failed"} => resolutions = {} /\ edges = {}

\* The objects have been scanned.
Scanned == lpc \in {"target", "objdump", "done"}

\* A candidate for a name is what an object on disk defines.
CandidatesInv ==
    Scanned => \A n, c : c \in Link!Candidates(n) <=>
        \E i \in DOMAIN linked.objects : \E s \in ToSet(linked.objects[i].syms) :
            s.name = n /\ c = [object |-> linked.objects[i].object, kind |-> s.kind]

\* Target t, a linked binary, has been resolved, and its calls read.
Resolved(t) ==
    /\ Scanned /\ Link!Linked(t)
    /\ \E i \in DOMAIN linked.targets :
          t = linked.targets[i] /\ (i < lat \/ (lpc = "objdump" /\ i = lat))
Objdumped(t) ==
    /\ Scanned /\ Link!Linked(t)
    /\ \E i \in DOMAIN linked.targets : t = linked.targets[i] /\ i < lat

\* Symbols of target t that get a row of link_resolutions.
Resolvable(t) ==
    {s \in ToSet(t.syms) : Link!LinkageKind(s) # "" /\ Link!ResolveNMSymbol(t, s) # Link!None}

ResolutionsInv ==
    /\ \A t : Resolved(t) => \A s \in Resolvable(t) : Link!ResolutionFor(t, s) \in resolutions
    /\ \A r \in resolutions : \E t \in ToSet(linked.targets) :
          \E s \in Resolvable(t) : r = Link!ResolutionFor(t, s)

AddrInv == lpc = "objdump" => \A t : t = linked.targets[lat] => addrToID = Link!BuildAddrIndex(t)

\* Call c of target t has its edge.
HasEdge(t, c) ==
    {c.caller, c.callee[1]} \subseteq DOMAIN nameToID =>
        \E e \in edges : /\ e[1] = t.name
                         /\ c.caller \in Link!NamesOf(e[2]) /\ c.callee[1] \in Link!NamesOf(e[3])

EdgesInv ==
    \A t : Objdumped(t) /\ Link!NoAliases(t) => \A c \in ToSet(t.calls) : HasEdge(t, c)

LinkParts == LookupInv /\ LinkWalkInv /\ CandidatesInv /\ ResolutionsInv /\ AddrInv /\ EdgesInv

LinkIInv == pass = "link" => LinkParts

-----------------------------------------------------------------------------
\* What LinkAssumption says of the build at hand, its sets written out.
LEMMA LinkFacts ==
    ASSUME linked \in Links
    PROVE  /\ DOMAIN linked.rows = 1..Len(linked.rows) /\ Len(linked.rows) \in Nat
           /\ DOMAIN linked.targets = 1..Len(linked.targets) /\ Len(linked.targets) \in Nat
           /\ DOMAIN linked.objects = 1..Len(linked.objects) /\ Len(linked.objects) \in Nat
<1>1. NamedOnce(linked)
  BY LinkAssumption
<1>2. /\ linked.rows \in Seq(ToSet(linked.rows)) /\ linked.targets \in Seq(ToSet(linked.targets))
      /\ linked.objects \in Seq(ToSet(linked.objects))
  BY <1>1 DEF NamedOnce
<1> QED
  BY <1>2

\* While the tables and the build stay, so does what they resolve to.
LEMMA LinkSame ==
    ASSUME UNCHANGED <<linked, nameToID, defsByName>>
    PROVE  /\ \A i : Link!NamesOf(i)' = Link!NamesOf(i)
           /\ \A n : Link!Candidates(n)' = Link!Candidates(n)
           /\ \A t, s : Link!ResolveNMSymbol(t, s)' = Link!ResolveNMSymbol(t, s)
           /\ \A t, s : Link!ResolutionFor(t, s)' = Link!ResolutionFor(t, s)
           /\ \A t : Resolvable(t)' = Resolvable(t)
           /\ \A t : Link!BuildAddrIndex(t)' = Link!BuildAddrIndex(t)
<1>1. \A i : Link!NamesOf(i)' = Link!NamesOf(i)
  BY DEF Link!NamesOf
<1>2. \A n : Link!Candidates(n)' = Link!Candidates(n)
  BY DEF Link!Candidates
<1>3. \A u : Link!RowOf(u)' = Link!RowOf(u)
  BY DEF Link!RowOf
<1>4. \A s, o : Link!ResolveStaticViaObject(s, o)' = Link!ResolveStaticViaObject(s, o)
  BY <1>3 DEF Link!ResolveStaticViaObject
<1>5. \A n : Link!ByName(n)' = Link!ByName(n)
  BY DEF Link!ByName
<1>6. \A t, s : Link!ResolveNMSymbol(t, s)' = Link!ResolveNMSymbol(t, s)
  <2>1. \A t, s : Link!ViaMap(t, s)' = Link!ViaMap(t, s)
    BY <1>4 DEF Link!ViaMap
  <2>2. \A s : Link!ViaSole(s)' = Link!ViaSole(s)
    BY DEF Link!ViaSole, Link!Candidates, Link!Sole, Link!ResolveStaticViaObject, Link!RowOf
  <2> QED
    BY <1>5, <2>1, <2>2 DEF Link!ResolveNMSymbol
<1>7. \A c : Link!PickWinningObject(c)' = Link!PickWinningObject(c)
  BY DEF Link!PickWinningObject, Link!Beats, Link!Place
<1>8. \A t, s : Link!WinningObject(t, s)' = Link!WinningObject(t, s)
  BY <1>2, <1>7 DEF Link!WinningObject
<1>9. \A t, s : Link!ResolutionFor(t, s)' = Link!ResolutionFor(t, s)
  BY <1>2, <1>6, <1>8 DEF Link!ResolutionFor, Link!ArchiveFor
<1>10. \A t : Resolvable(t)' = Resolvable(t)
  BY <1>6 DEF Resolvable
<1>11. \A t : Link!Known(t)' = Link!Known(t)
  BY <1>6 DEF Link!Known
<1>12. \A t : Link!BuildAddrIndex(t)' = Link!BuildAddrIndex(t)
  <2>1. \A t, a : Link!LastAt(t, a)' = Link!LastAt(t, a)
    BY <1>11 DEF Link!LastAt
  <2> QED
    BY <1>6, <1>11, <2>1 DEF Link!BuildAddrIndex
<1> QED
  BY <1>1, <1>2, <1>6, <1>9, <1>10, <1>12
\* A row that a symbol resolves to is there and has the symbol's name.
LEMMA ResolvedNamed ==
    ASSUME LookupInv, linked \in Links, NEW t, NEW s, Link!ResolveNMSymbol(t, s) # Link!None
    PROVE  s.name \in Link!NamesOf(Link!ResolveNMSymbol(t, s))
<1>1. \A u : Link!RowOf(u) # Link!None => linked.rows[Link!RowOf(u)].usr = u
  BY DEF Link!RowOf
<1>2. \A o : Link!ResolveStaticViaObject(s, o) # Link!None =>
          s.name \in Link!NamesOf(Link!ResolveStaticViaObject(s, o))
  <2>1. SUFFICES ASSUME NEW o, Link!ResolveStaticViaObject(s, o) # Link!None
                 PROVE  s.name \in Link!NamesOf(Link!ResolveStaticViaObject(s, o))
    OBVIOUS
  <2>2. PICK k : Link!ResolveStaticViaObject(s, o) = Link!RowOf(<<linked.source[o], k, s.name>>)
    BY <2>1 DEF Link!ResolveStaticViaObject
  <2>3. linked.rows[Link!ResolveStaticViaObject(s, o)].usr = <<linked.source[o], k, s.name>>
    BY <1>1, <2>1, <2>2
  <2>4. linked.rows[Link!ResolveStaticViaObject(s, o)].usr[3] = s.name
    BY <2>3
  <2> QED
    BY <2>4 DEF Link!NamesOf
<1>3. Link!ByName(s.name) # Link!None => s.name \in Link!NamesOf(Link!ByName(s.name))
  BY DEF Link!ByName, LookupInv
<1>4. Link!ViaMap(t, s) # Link!None => s.name \in Link!NamesOf(Link!ViaMap(t, s))
  BY <1>2 DEF Link!ViaMap
<1>5. Link!ViaSole(s) # Link!None => s.name \in Link!NamesOf(Link!ViaSole(s))
  BY <1>2 DEF Link!ViaSole
<1> QED
  BY <1>3, <1>4, <1>5 DEF Link!ResolveNMSymbol

\* A name in the lookup is a row's, and a symbol of that name resolves.
LEMMA NameResolves ==
    ASSUME LookupInv, linked \in Links
    PROVE  /\ \A n \in DOMAIN nameToID :
                 Link!ByName(n) # Link!None /\ n \in Link!NamesOf(Link!ByName(n))
           /\ \A t, s : s.name \in DOMAIN nameToID => Link!ResolveNMSymbol(t, s) # Link!None
<1>1. \A i \in DOMAIN linked.rows : i # 0
  BY LinkFacts
<1>2. \A n \in DOMAIN nameToID :
          Link!ByName(n) # Link!None /\ n \in Link!NamesOf(Link!ByName(n))
  BY <1>1 DEF LookupInv, Link!ByName, Link!None
<1> QED
  BY <1>2 DEF Link!ResolveNMSymbol

\* One turn of the loop over the rows of symbols.
LEMMA LookupRowStep ==
    ASSUME LookupInv, LinkWalkInv, Link!LookupRow
    PROVE  LookupInv'
<1>1. /\ lpc = "lookup" /\ lat <= Len(linked.rows) /\ nameToID' = Link!Put(nameToID, lat)
      /\ lat' = lat + 1 /\ lpc' = lpc /\ linked' = linked /\ lat \in Nat \ {0}
  BY DEF Link!LookupRow, LinkWalkInv
<1>2. \A i : Link!NamesOf(i)' = Link!NamesOf(i)
  BY <1>1 DEF Link!NamesOf
<1>3. lat \in DOMAIN linked.rows /\ DOMAIN linked.rows = 1..Len(linked.rows) /\ Len(linked.rows) \in Nat
  BY <1>1, LinkFacts DEF LinkWalkInv
<1>4. DOMAIN nameToID' = DOMAIN nameToID \cup Link!NamesOf(lat)
  BY <1>1 DEF Link!Put
<1>5. ASSUME NEW n \in DOMAIN nameToID'
      PROVE  /\ nameToID'[n] = lat \/ (n \in DOMAIN nameToID /\ nameToID'[n] = nameToID[n])
             /\ nameToID'[n] = lat => n \in Link!NamesOf(lat) \/ (n \in DOMAIN nameToID /\ nameToID[n] = lat)
             /\ n \in DOMAIN nameToID /\ nameToID'[n] # nameToID[n] =>
                    linked.rows[lat].hasDef /\ ~linked.rows[nameToID[n]].hasDef
             /\ n \in Link!NamesOf(lat) /\ linked.rows[lat].hasDef =>
                    linked.rows[nameToID'[n]].hasDef
  <2>1. nameToID'[n] = IF n \notin DOMAIN nameToID THEN lat
                       ELSE IF n \in Link!NamesOf(lat) /\ Link!Displaces(nameToID[n], lat) THEN lat
                       ELSE nameToID[n]
    BY <1>1, <1>4, <1>5 DEF Link!Put
  <2>2. Link!Displaces(nameToID[n], lat) <=> ~linked.rows[nameToID[n]].hasDef /\ linked.rows[lat].hasDef
    BY DEF Link!Displaces
  <2>3. n \in DOMAIN nameToID \/ n \in Link!NamesOf(lat)
    BY <1>4, <1>5
  <2> QED
    BY <2>1, <2>2, <2>3
<1>6. \A n \in DOMAIN nameToID' :
          nameToID'[n] \in DOMAIN linked'.rows /\ n \in Link!NamesOf(nameToID[n])'
  <2>1. SUFFICES ASSUME NEW n \in DOMAIN nameToID'
                 PROVE  nameToID'[n] \in DOMAIN linked.rows /\ n \in Link!NamesOf(nameToID'[n])
    BY <1>1 DEF Link!NamesOf
  <2>2. \A m \in DOMAIN nameToID : nameToID[m] \in DOMAIN linked.rows /\ m \in Link!NamesOf(nameToID[m])
    BY DEF LookupInv
  <2> QED
    BY <1>3, <1>5, <2>1, <2>2
<1>7. ASSUME NEW i \in DOMAIN linked.rows, i < lat', NEW n \in Link!NamesOf(i)
      PROVE  /\ n \in DOMAIN nameToID'
             /\ linked.rows[i].hasDef => linked.rows[nameToID'[n]].hasDef
  <2>1. CASE i = lat
    BY <1>4, <1>5, <1>7, <2>1
  <2>2. CASE i < lat
    <3>1. /\ n \in DOMAIN nameToID
          /\ linked.rows[i].hasDef => linked.rows[nameToID[n]].hasDef
      BY <1>7, <2>2 DEF LookupInv
    <3> QED
      BY <1>4, <1>5, <3>1
  <2> QED
    BY <1>1, <1>3, <1>7, <2>1, <2>2
<1> QED
  <2>1. \A i \in DOMAIN linked'.rows : (lpc' = "lookup" => i < lat') =>
          \A n \in Link!NamesOf(i)' :
              /\ n \in DOMAIN nameToID'
              /\ linked'.rows[i].hasDef => linked'.rows[nameToID'[n]].hasDef
    BY <1>1, <1>2, <1>7
  <2> QED
    BY <1>6, <2>1 DEF LookupInv
\* After the scan the candidates are what the objects define.
LEMMA ScanStep ==
    ASSUME Link!ScanBuilddirObjectDefs
    PROVE  CandidatesInv'
<1>1. linked' = linked
  BY DEF Link!ScanBuilddirObjectDefs
<1> DEFINE all == Link!ObjectDefs
<1>2. defsByName' = [n \in {d.name : d \in all} |->
                        {[object |-> d.object, kind |-> d.kind] : d \in {e \in all : e.name = n}}]
  BY DEF Link!ScanBuilddirObjectDefs
<1>3. \A d : d \in all <=>
          \E i \in DOMAIN linked.objects : \E s \in ToSet(linked.objects[i].syms) :
              d = [object |-> linked.objects[i].object, name |-> s.name, kind |-> s.kind]
  <2>1. \A q : Link!ToSet(q) = ToSet(q)
    BY DEF Link!ToSet, ToSet
  <2> QED
    BY <2>1 DEF Link!ObjectDefs, Link!DefsIn
<1> HIDE DEF all
<1>4. \A n, c : c \in Link!Candidates(n)' <=>
          \E d \in all : d.name = n /\ c = [object |-> d.object, kind |-> d.kind]
  BY <1>2 DEF Link!Candidates
<1>5. \A n, c : c \in Link!Candidates(n)' <=>
          \E i \in DOMAIN linked.objects : \E s \in ToSet(linked.objects[i].syms) :
              s.name = n /\ c = [object |-> linked.objects[i].object, kind |-> s.kind]
  <2>1. SUFFICES ASSUME NEW n, NEW c
                 PROVE  c \in Link!Candidates(n)' <=>
                          \E i \in DOMAIN linked.objects : \E s \in ToSet(linked.objects[i].syms) :
                            s.name = n /\ c = [object |-> linked.objects[i].object, kind |-> s.kind]
    OBVIOUS
  <2>2. ASSUME NEW d \in all, d.name = n, c = [object |-> d.object, kind |-> d.kind]
        PROVE  \E i \in DOMAIN linked.objects : \E s \in ToSet(linked.objects[i].syms) :
                   s.name = n /\ c = [object |-> linked.objects[i].object, kind |-> s.kind]
    <3>1. PICK i \in DOMAIN linked.objects : \E s \in ToSet(linked.objects[i].syms) :
             d = [object |-> linked.objects[i].object, name |-> s.name, kind |-> s.kind]
      BY <1>3, <2>2
    <3> QED
      BY <2>2, <3>1
  <2>3. ASSUME NEW i \in DOMAIN linked.objects, NEW s \in ToSet(linked.objects[i].syms),
               s.name = n, c = [object |-> linked.objects[i].object, kind |-> s.kind]
        PROVE  \E d \in all : d.name = n /\ c = [object |-> d.object, kind |-> d.kind]
    <3>1. PICK d : d = [object |-> linked.objects[i].object, name |-> s.name, kind |-> s.kind]
      OBVIOUS
    <3>2. d \in all
      BY <1>3, <3>1
    <3> QED
      BY <2>3, <3>1, <3>2
  <2> QED
    BY <1>4, <2>2, <2>3
<1> QED
  BY <1>1, <1>5 DEF CandidatesInv

\* Without aliases the address of a function stands for that function.
LEMMA AtAddress ==
    ASSUME NEW t, Link!NoAliases(t), t.syms \in Seq(ToSet(t.syms)), NEW i \in Link!Known(t)
    PROVE  Link!BuildAddrIndex(t)[t.syms[i].addr] = Link!ResolveNMSymbol(t, t.syms[i])
<1> DEFINE a == t.syms[i].addr
           P(k) == t.syms[k].addr = a /\ \A j \in Link!Known(t) : t.syms[j].addr = a => j <= k
<1>1. i \in Nat /\ \A j \in Link!Known(t) : t.syms[j].addr = a => j = i
  <2>1. \A j \in Link!Known(t) : j \in DOMAIN t.syms /\ Link!IsFunction(t.syms[j])
    BY DEF Link!Known
  <2> QED
    BY <2>1 DEF Link!NoAliases
<1>2. P(i)
  <2>1. \A j \in Link!Known(t) : t.syms[j].addr = a => j <= i
    BY <1>1
  <2> QED
    BY <2>1
<1>3. Link!LastAt(t, a) = CHOOSE k \in Link!Known(t) : P(k)
  BY DEF Link!LastAt
<1>4. Link!LastAt(t, a) = i
  <2> HIDE DEF P
  <2>1. Link!LastAt(t, a) \in Link!Known(t) /\ P(Link!LastAt(t, a))
    BY <1>2, <1>3
  <2> QED
    BY <1>1, <2>1 DEF P
<1> QED
  BY <1>4 DEF Link!BuildAddrIndex

\* An end of a call is found, and has the name objdump gives it.
LEMMA EndNamed ==
    ASSUME LookupInv, linked \in Links, NEW t, Link!NoAliases(t),
           t.syms \in Seq(ToSet(t.syms)), addrToID = Link!BuildAddrIndex(t),
           NEW a, NEW n \in DOMAIN nameToID,
           \A s \in ToSet(t.syms) : Link!IsFunction(s) /\ s.addr = a => s.name = n
    PROVE  Link!EndOf(a, n) # Link!None /\ n \in Link!NamesOf(Link!EndOf(a, n))
<1>1. CASE a \notin DOMAIN addrToID
  BY <1>1, NameResolves DEF Link!EndOf
<1>2. CASE a \in DOMAIN addrToID
  <2>1. PICK i \in Link!Known(t) : t.syms[i].addr = a
    BY <1>2 DEF Link!BuildAddrIndex
  <2>2. /\ Link!IsFunction(t.syms[i]) /\ t.syms[i] \in ToSet(t.syms)
        /\ Link!ResolveNMSymbol(t, t.syms[i]) # Link!None
    BY DEF Link!Known, ToSet
  <2>3. Link!EndOf(a, n) = Link!ResolveNMSymbol(t, t.syms[i])
    BY <1>2, <2>1, AtAddress DEF Link!EndOf
  <2>4. t.syms[i].name = n
    BY <2>1, <2>2
  <2> QED
    BY <2>2, <2>3, <2>4, ResolvedNamed
<1> QED
  BY <1>1, <1>2

\* The lookup and the candidates stay once they are built.
LEMMA LinkTablesStay ==
    ASSUME LookupInv, CandidatesInv, UNCHANGED <<linked, nameToID, defsByName>>,
           lpc # "lookup", lpc' # "lookup", Scanned' => Scanned
    PROVE  LookupInv' /\ CandidatesInv'
<1>1. /\ \A i : Link!NamesOf(i)' = Link!NamesOf(i)
      /\ \A n : Link!Candidates(n)' = Link!Candidates(n)
  BY LinkSame
<1>2. \A n : n \in Link!NamesOf(nameToID[n])' <=> n \in Link!NamesOf(nameToID[n])
  BY DEF Link!NamesOf
<1>3. LookupInv'
  BY <1>1, <1>2 DEF LookupInv
<1>4. CandidatesInv'
  BY <1>1 DEF CandidatesInv
<1> QED
  BY <1>3, <1>4

\* What is recorded of the targets dealt with stays right.
LEMMA LinkRowsStay ==
    ASSUME ResolutionsInv, EdgesInv, UNCHANGED <<linked, nameToID, defsByName, resolutions, edges>>,
           \A t : (Resolved(t)' => Resolved(t)) /\ (Objdumped(t)' => Objdumped(t))
    PROVE  ResolutionsInv' /\ EdgesInv'
<1>1. /\ \A i : Link!NamesOf(i)' = Link!NamesOf(i)
      /\ \A t, s : Link!ResolutionFor(t, s)' = Link!ResolutionFor(t, s)
      /\ \A t : Resolvable(t)' = Resolvable(t)
  BY LinkSame
<1>2. \A t, c : HasEdge(t, c)' <=> HasEdge(t, c)
  BY DEF HasEdge, Link!NamesOf
<1>3. ResolutionsInv'
  BY <1>1 DEF ResolutionsInv
<1>4. EdgesInv'
  BY <1>2 DEF EdgesInv
<1> QED
  BY <1>3, <1>4
\* The pass rests.
LEMMA LinkStill ==
    ASSUME LinkParts, UNCHANGED Link!vars
    PROVE  LinkParts'
<1>1. UNCHANGED <<linked, lpc, lat, nameToID, defsByName, addrToID, resolutions, edges>>
  BY DEF Link!vars
<1>2. \A t : (Resolved(t)' => Resolved(t)) /\ (Objdumped(t)' => Objdumped(t))
  BY <1>1 DEF Resolved, Objdumped, Scanned
<1>3. ResolutionsInv' /\ EdgesInv'
  BY <1>1, <1>2, LinkRowsStay DEF LinkParts
<1>4. LinkWalkInv'
  BY <1>1 DEF LinkParts, LinkWalkInv, Link!Linked
<1>5. /\ \A n : Link!Candidates(n)' = Link!Candidates(n)
      /\ \A t : Link!BuildAddrIndex(t)' = Link!BuildAddrIndex(t)
  BY <1>1, LinkSame
<1>6. CandidatesInv'
  BY <1>1, <1>5 DEF LinkParts, CandidatesInv, Scanned
<1>7. AddrInv'
  BY <1>1, <1>5 DEF LinkParts, AddrInv
<1>8. LookupInv'
  BY <1>1 DEF LinkParts, LookupInv, Link!NamesOf
<1> QED
  BY <1>3, <1>4, <1>6, <1>7, <1>8 DEF LinkParts
\* The current target gets its resolutions and its address index.
LEMMA ResolveTargetStep ==
    ASSUME LinkParts, Link!ResolveTarget
    PROVE  ResolutionsInv' /\ AddrInv' /\ EdgesInv'
<1>1. /\ lpc = "target" /\ lat <= Len(linked.targets) /\ lpc' = "objdump" /\ lat' = lat
      /\ UNCHANGED <<linked, nameToID, defsByName>> /\ edges' = edges
  BY DEF Link!ResolveTarget
<1>2. PICK t : t = linked.targets[lat]
  OBVIOUS
<1>3. Link!Linked(t) /\ addrToID' = Link!BuildAddrIndex(t)
  BY <1>2 DEF Link!ResolveTarget, Link!Target
<1>4. resolutions' = resolutions \cup {Link!ResolutionFor(t, s) : s \in Resolvable(t)}
  <2>1. \A q : Link!ToSet(q) = ToSet(q)
    BY DEF Link!ToSet, ToSet
  <2>2. Resolvable(t) = {s \in Link!ToSet(t.syms) :
                           Link!LinkageKind(s) # "" /\ Link!ResolveNMSymbol(t, s) # Link!None}
    BY <2>1 DEF Resolvable
  <2>3. Link!Target = t
    BY <1>2 DEF Link!Target
  <2> QED
    BY <2>2, <2>3 DEF Link!ResolveTarget
<1>5. /\ \A i : Link!NamesOf(i)' = Link!NamesOf(i)
      /\ \A u, s : Link!ResolutionFor(u, s)' = Link!ResolutionFor(u, s)
      /\ \A u : Resolvable(u)' = Resolvable(u)
      /\ \A u : Link!BuildAddrIndex(u)' = Link!BuildAddrIndex(u)
  BY <1>1, LinkSame
<1>6. lat \in DOMAIN linked.targets /\ t \in ToSet(linked.targets)
  <2>1. DOMAIN linked.targets = 1..Len(linked.targets) /\ Len(linked.targets) \in Nat /\ lat \in Nat \ {0}
    BY LinkFacts DEF LinkParts, LinkWalkInv
  <2> QED
    BY <1>1, <1>2, <2>1 DEF ToSet
<1>7. \A u : Resolved(u)' => Resolved(u) \/ u = t
  BY <1>1, <1>2 DEF Resolved, Scanned
<1>8. ASSUME NEW u, Resolved(u)', NEW s \in Resolvable(u)
      PROVE  Link!ResolutionFor(u, s) \in resolutions'
  BY <1>4, <1>7, <1>8 DEF LinkParts, ResolutionsInv
<1>9. ASSUME NEW r \in resolutions'
      PROVE  \E u \in ToSet(linked.targets) : \E s \in Resolvable(u) : r = Link!ResolutionFor(u, s)
  <2>1. CASE r \in resolutions
    BY <2>1 DEF LinkParts, ResolutionsInv
  <2>2. CASE r \in {Link!ResolutionFor(t, s) : s \in Resolvable(t)}
    BY <1>6, <2>2
  <2> QED
    BY <1>4, <2>1, <2>2
<1>10. ResolutionsInv'
  BY <1>1, <1>5, <1>8, <1>9 DEF ResolutionsInv
<1>11. AddrInv'
  BY <1>1, <1>2, <1>3, <1>5 DEF AddrInv
<1>12. EdgesInv'
  <2>1. \A u : Objdumped(u)' => Objdumped(u)
    BY <1>1 DEF Objdumped, Scanned
  <2>2. \A u, c : HasEdge(u, c)' <=> HasEdge(u, c)
    BY <1>1 DEF HasEdge, Link!NamesOf
  <2> QED
    BY <2>1, <2>2 DEF LinkParts, EdgesInv
<1> QED
  BY <1>10, <1>11, <1>12

\* The calls of the current target become edges.
LEMMA ObjdumpTargetStep ==
    ASSUME LinkParts, Link!ObjdumpTarget
    PROVE  ResolutionsInv' /\ AddrInv' /\ EdgesInv'
<1>1. /\ lpc = "objdump" /\ lpc' = "target" /\ lat' = lat + 1 /\ lat \in Nat \ {0}
      /\ UNCHANGED <<linked, nameToID, defsByName, addrToID>> /\ resolutions' = resolutions
      /\ linked \in Links /\ LookupInv /\ lat <= Len(linked.targets)
  BY DEF Link!ObjdumpTarget, LinkParts, LinkWalkInv
<1>2. PICK t : t = linked.targets[lat]
  OBVIOUS
<1>3. addrToID = Link!BuildAddrIndex(t)
  BY <1>1, <1>2 DEF LinkParts, AddrInv
<1>4. /\ DOMAIN linked.targets = 1..Len(linked.targets) /\ Len(linked.targets) \in Nat
      /\ t \in ToSet(linked.targets)
  <2>1. DOMAIN linked.targets = 1..Len(linked.targets) /\ Len(linked.targets) \in Nat
    BY <1>1, LinkFacts
  <2> QED
    BY <1>1, <1>2, <2>1 DEF ToSet
<1>5. \A i \in DOMAIN linked.targets : i < lat' => i < lat \/ i = lat
  BY <1>1, <1>4
<1>6. /\ \A u : Resolved(u)' => Resolved(u)
      /\ \A u : Objdumped(u)' => Objdumped(u) \/ u = t
  BY <1>1, <1>2, <1>5 DEF Resolved, Objdumped, Scanned
<1>7. /\ \A i : Link!NamesOf(i)' = Link!NamesOf(i)
      /\ \A u, s : Link!ResolutionFor(u, s)' = Link!ResolutionFor(u, s)
      /\ \A u : Resolvable(u)' = Resolvable(u)
  BY <1>1, LinkSame
<1>8. ResolutionsInv'
  BY <1>1, <1>6, <1>7 DEF LinkParts, ResolutionsInv
<1>9. edges \subseteq edges' /\ \A c \in ToSet(t.calls) :
          LET e == <<t.name, Link!EndOf(c.callerAddr, c.caller), Link!EndOf(c.calleeAddr, c.callee[1])>>
          IN  e[2] # Link!None /\ e[3] # Link!None => e \in edges'
  <2>1. Link!ToSet(t.calls) = ToSet(t.calls) /\ Link!Target = t
    BY <1>2 DEF Link!ToSet, ToSet, Link!Target
  <2>2. \A c : Link!EdgeOf(c) = <<t.name, Link!EndOf(c.callerAddr, c.caller),
                                  Link!EndOf(c.calleeAddr, c.callee[1])>>
    BY <2>1 DEF Link!EdgeOf, Link!CalleeStripped
  <2>3. edges' = edges \cup {e \in {Link!EdgeOf(c) : c \in ToSet(t.calls)} :
                               e[2] # Link!None /\ e[3] # Link!None}
    BY <2>1 DEF Link!ObjdumpTarget
  <2> QED
    BY <2>2, <2>3
<1>10. ASSUME Link!NoAliases(t), NEW c \in ToSet(t.calls),
              {c.caller, c.callee[1]} \subseteq DOMAIN nameToID
       PROVE  \E e \in edges' : /\ e[1] = t.name
                                /\ c.caller \in Link!NamesOf(e[2]) /\ c.callee[1] \in Link!NamesOf(e[3])
  <2>1. NamedOnce(linked) /\ ObjdumpAgrees(t)
    BY <1>1, <1>4, LinkAssumption
  <2>2. t.syms \in Seq(ToSet(t.syms))
    BY <1>4, <2>1 DEF NamedOnce
  <2>3. \A s \in ToSet(t.syms) : Link!IsFunction(s) =>
           /\ s.addr = c.callerAddr => s.name = c.caller
           /\ s.addr = c.calleeAddr => s.name = c.callee[1]
    BY <1>10, <2>1 DEF ObjdumpAgrees
  <2>4. /\ Link!EndOf(c.callerAddr, c.caller) # Link!None
        /\ c.caller \in Link!NamesOf(Link!EndOf(c.callerAddr, c.caller))
    BY <1>1, <1>3, <1>10, <2>2, <2>3, EndNamed
  <2>5. /\ Link!EndOf(c.calleeAddr, c.callee[1]) # Link!None
        /\ c.callee[1] \in Link!NamesOf(Link!EndOf(c.calleeAddr, c.callee[1]))
    BY <1>1, <1>3, <1>10, <2>2, <2>3, EndNamed
  <2> DEFINE e == <<t.name, Link!EndOf(c.callerAddr, c.caller), Link!EndOf(c.calleeAddr, c.callee[1])>>
  <2>6. e \in edges'
    BY <1>9, <1>10, <2>4, <2>5
  <2> QED
    BY <2>4, <2>5, <2>6
<1>11. ASSUME Link!NoAliases(t), NEW c \in ToSet(t.calls)
       PROVE  HasEdge(t, c)'
  BY <1>1, <1>10, <1>11 DEF HasEdge, Link!NamesOf
<1>12. \A u, c : HasEdge(u, c) => HasEdge(u, c)'
  BY <1>1, <1>9 DEF HasEdge, Link!NamesOf
<1>13. EdgesInv'
  BY <1>6, <1>11, <1>12 DEF LinkParts, EdgesInv
<1> QED
  BY <1>1, <1>8, <1>13 DEF AddrInv

\* One step of the pass.
LEMMA LinkSteps ==
    ASSUME LinkParts, Link!Next
    PROVE  LinkParts'
<1>1. /\ LookupInv /\ LinkWalkInv /\ CandidatesInv /\ ResolutionsInv /\ AddrInv /\ EdgesInv
  BY DEF LinkParts
<1>2. linked' = linked /\ linked \in Links
  BY <1>1 DEF LinkWalkInv, Link!Next, Link!LookupRow, Link!LookupBuilt, Link!ScanBuilddirObjectDefs,
     Link!SkipTarget, Link!ResolveTarget, Link!ObjdumpTarget, Link!ToolFails, Link!Commit, Link!Done,
     Link!vars
<1>3. /\ DOMAIN linked.rows = 1..Len(linked.rows) /\ Len(linked.rows) \in Nat
      /\ DOMAIN linked.targets = 1..Len(linked.targets) /\ Len(linked.targets) \in Nat
  BY <1>2, LinkFacts
<1>4. ASSUME resolutions' = {}, edges' = {}, ~Scanned' \/ (lpc' = "target" /\ lat' = 1)
      PROVE  ResolutionsInv' /\ AddrInv' /\ EdgesInv'
  <2>1. \A i \in DOMAIN linked'.targets : ~(i < 1)
    BY <1>2, <1>3
  <2>2. \A t : ~Resolved(t)' /\ ~Objdumped(t)'
    BY <1>4, <2>1 DEF Resolved, Objdumped
  <2>3. AddrInv'
    BY <1>4 DEF AddrInv, Scanned
  <2> QED
    BY <1>4, <2>2, <2>3 DEF ResolutionsInv, EdgesInv
<1>5. CASE Link!LookupRow
  <2>1. /\ lpc = "lookup" /\ lpc' = "lookup" /\ lat' = lat + 1
        /\ resolutions' = {} /\ edges' = {}
    BY <1>1, <1>5 DEF Link!LookupRow, LinkWalkInv
  <2>2. LinkWalkInv'
    BY <1>1, <1>2, <2>1 DEF LinkWalkInv
  <2>3. CandidatesInv' /\ ~Scanned'
    BY <2>1 DEF CandidatesInv, Scanned
  <2> QED
    BY <1>1, <1>4, <1>5, <2>1, <2>2, <2>3, LookupRowStep DEF LinkParts
<1>6. CASE Link!LookupBuilt
  <2>1. /\ lpc = "lookup" /\ lat > Len(linked.rows) /\ lpc' = "scan" /\ lat' = 1
        /\ nameToID' = nameToID /\ resolutions' = {} /\ edges' = {} /\ lat \in Nat
    BY <1>1, <1>6 DEF Link!LookupBuilt, LinkWalkInv
  <2>2. LinkWalkInv'
    BY <1>1, <1>2, <2>1 DEF LinkWalkInv
  <2>3. CandidatesInv' /\ ~Scanned'
    BY <2>1 DEF CandidatesInv, Scanned
  <2>4. \A i \in DOMAIN linked.rows : i < lat
    BY <1>3, <2>1
  <2>5. LookupInv'
    BY <1>1, <1>2, <2>1, <2>4 DEF LookupInv, Link!NamesOf
  <2> QED
    BY <1>4, <2>1, <2>2, <2>3, <2>5 DEF LinkParts
<1>7. CASE Link!ScanBuilddirObjectDefs
  <2>1. /\ lpc = "scan" /\ lpc' = "target" /\ lat' = 1
        /\ nameToID' = nameToID /\ resolutions' = {} /\ edges' = {}
    BY <1>1, <1>7 DEF Link!ScanBuilddirObjectDefs, LinkWalkInv
  <2>2. LinkWalkInv'
    BY <1>1, <1>2, <2>1 DEF LinkWalkInv
  <2>3. LookupInv'
    BY <1>1, <1>2, <2>1 DEF LookupInv, Link!NamesOf
  <2> QED
    BY <1>4, <1>7, <2>1, <2>2, <2>3, ScanStep DEF LinkParts
<1>8. CASE Link!SkipTarget
  <2>1. /\ lpc = "target" /\ lpc' = lpc /\ lat' = lat + 1 /\ lat <= Len(linked.targets)
        /\ ~Link!Linked(linked.targets[lat]) /\ lat \in Nat \ {0}
        /\ UNCHANGED <<linked, nameToID, defsByName, resolutions, edges>>
    BY <1>1, <1>8 DEF Link!SkipTarget, LinkWalkInv, Link!Target
  <2>2. LinkWalkInv'
    BY <1>1, <1>2, <2>1 DEF LinkWalkInv
  <2>3. LookupInv' /\ CandidatesInv'
    BY <1>1, <2>1, LinkTablesStay DEF Scanned
  <2>4. \A i \in DOMAIN linked.targets : i < lat' => i < lat \/ i = lat
    BY <1>3, <2>1
  <2>5. \A t : (Resolved(t)' => Resolved(t)) /\ (Objdumped(t)' => Objdumped(t))
    BY <2>1, <2>4 DEF Resolved, Objdumped, Scanned
  <2>6. ResolutionsInv' /\ EdgesInv'
    BY <1>1, <2>1, <2>5, LinkRowsStay
  <2> QED
    BY <2>1, <2>2, <2>3, <2>6 DEF LinkParts, AddrInv
<1>9. CASE Link!ResolveTarget
  <2>1. /\ lpc = "target" /\ lpc' = "objdump" /\ lat' = lat /\ lat <= Len(linked.targets)
        /\ Link!Linked(linked.targets[lat])
        /\ UNCHANGED <<linked, nameToID, defsByName>>
    BY <1>9 DEF Link!ResolveTarget, Link!Target
  <2>2. LinkWalkInv'
    BY <1>1, <1>2, <2>1 DEF LinkWalkInv, Link!Linked
  <2>3. LookupInv' /\ CandidatesInv'
    BY <1>1, <2>1, LinkTablesStay DEF Scanned
  <2> QED
    BY <1>9, <2>2, <2>3, ResolveTargetStep DEF LinkParts
<1>10. CASE Link!ObjdumpTarget
  <2>1. /\ lpc = "objdump" /\ lpc' = "target" /\ lat' = lat + 1
        /\ UNCHANGED <<linked, nameToID, defsByName>>
    BY <1>10 DEF Link!ObjdumpTarget
  <2>2. LinkWalkInv'
    BY <1>1, <1>2, <2>1 DEF LinkWalkInv
  <2>3. LookupInv' /\ CandidatesInv'
    BY <1>1, <2>1, LinkTablesStay DEF Scanned
  <2> QED
    BY <1>10, <2>2, <2>3, ObjdumpTargetStep DEF LinkParts
<1>11. CASE Link!ToolFails
  <2>1. /\ lpc \in {"scan", "objdump", "target"} /\ lpc' = "failed" /\ lat' = lat
        /\ resolutions' = {} /\ edges' = {} /\ UNCHANGED <<linked, nameToID, defsByName>>
    BY <1>11 DEF Link!ToolFails, Link!ToolRuns
  <2>2. LinkWalkInv'
    BY <1>1, <1>2, <2>1 DEF LinkWalkInv
  <2>3. LookupInv' /\ CandidatesInv' /\ ~Scanned'
    BY <1>1, <2>1, LinkTablesStay DEF Scanned
  <2> QED
    BY <1>4, <2>1, <2>2, <2>3 DEF LinkParts
<1>12. CASE Link!Commit
  <2>1. /\ lpc = "target" /\ lpc' = "done" /\ lat' = lat /\ lat > Len(linked.targets)
        /\ UNCHANGED <<linked, nameToID, defsByName, resolutions, edges>>
    BY <1>12 DEF Link!Commit
  <2>2. LinkWalkInv'
    BY <1>1, <1>2, <2>1 DEF LinkWalkInv
  <2>3. LookupInv' /\ CandidatesInv'
    BY <1>1, <2>1, LinkTablesStay DEF Scanned
  <2>4. \A t : (Resolved(t)' => Resolved(t)) /\ (Objdumped(t)' => Objdumped(t))
    BY <2>1 DEF Resolved, Objdumped, Scanned
  <2>5. ResolutionsInv' /\ EdgesInv'
    BY <1>1, <2>1, <2>4, LinkRowsStay
  <2> QED
    BY <2>1, <2>2, <2>3, <2>5 DEF LinkParts, AddrInv
<1>13. CASE Link!Done
  BY <1>13, LinkStill DEF Link!Done
<1> QED
  BY <1>5, <1>6, <1>7, <1>8, <1>9, <1>10, <1>11, <1>12, <1>13 DEF Link!Next
\* The pass starts with empty tables.
LEMMA LinkInitially == PassInit => LinkIInv
<1> SUFFICES ASSUME PassInit, pass = "link" PROVE LinkParts
  BY DEF LinkIInv
<1>1. Link!Init
  BY DEF PassInit
<1>2. /\ linked \in Links /\ lpc = "lookup" /\ lat = 1 /\ nameToID = <<>>
      /\ resolutions = {} /\ edges = {}
  BY <1>1 DEF Link!Init
<1>3. \A i \in DOMAIN linked.rows : ~(i < 1)
  BY <1>2, LinkFacts
<1>4. LookupInv
  BY <1>2, <1>3 DEF LookupInv
<1>5. LinkWalkInv
  BY <1>2 DEF LinkWalkInv
<1>6. ~Scanned
  BY <1>2 DEF Scanned
<1>7. CandidatesInv /\ AddrInv /\ EdgesInv /\ ResolutionsInv
  BY <1>2, <1>6 DEF CandidatesInv, AddrInv, EdgesInv, ResolutionsInv, Resolved, Objdumped
<1> QED
  BY <1>4, <1>5, <1>7 DEF LinkParts

\* Every step of collect keeps the invariant of the link pass.
LEMMA LinkStep ==
    ASSUME LinkIInv, [PassNext]_passVars
    PROVE  LinkIInv'
<1>1. pass' = pass
  BY DEF PassNext, passVars, IngestCompiler, IngestDwarf, IngestLink, IngestSources
<1> SUFFICES ASSUME pass = "link" PROVE LinkParts'
  BY <1>1 DEF LinkIInv
<1>2. LinkParts
  BY DEF LinkIInv
<1>3. CASE IngestLink
  BY <1>2, <1>3, LinkSteps DEF IngestLink
<1>4. CASE UNCHANGED passVars
  BY <1>2, <1>4, LinkStill DEF passVars, link, Link!vars
<1> QED
  BY <1>3, <1>4 DEF PassNext, IngestCompiler, IngestDwarf, IngestSources

\* For every symbol table, in any order of its rows, a declaration-only row never
\* keeps a name from a defined one (link.go buildSymbolLookup).
THEOREM DefinedAlwaysWins == PassSpec => []DefinedWins
<1>1. LinkIInv => DefinedWins
  <2> SUFFICES ASSUME LookupInv, lpc # "lookup",
                      NEW i \in DOMAIN linked.rows, NEW n \in Link!NamesOf(i)
               PROVE  /\ n \in DOMAIN nameToID
                      /\ n \in Link!NamesOf(nameToID[n])
                      /\ linked.rows[i].hasDef => linked.rows[nameToID[n]].hasDef
    BY DEF LinkIInv, LinkParts, DefinedWins, Link!DefinedWins
  <2> QED
    BY DEF LookupInv
<1> QED
  BY <1>1, LinkInitially, LinkStep, PTL DEF PassSpec

\* For every build, no direct call between two functions of the index is lost (link.go
\* edge loop, objdump.go CalleeStripped).
THEOREM CallNeverLost == PassSpec => []NoCallLost
<1>1. LinkIInv => NoCallLost
  <2> SUFFICES ASSUME LinkParts, lpc = "done", NEW t \in Link!ToSet(linked.targets),
                      Link!Linked(t), Link!NoAliases(t), NEW c \in Link!ToSet(t.calls)
               PROVE  HasEdge(t, c)
    BY DEF LinkIInv, NoCallLost, Link!NoCallLost, HasEdge
  <2>1. Objdumped(t)
    <3>1. /\ DOMAIN linked.targets = 1..Len(linked.targets) /\ Len(linked.targets) \in Nat
          /\ lat > Len(linked.targets) /\ lat \in Nat
      BY LinkFacts DEF LinkParts, LinkWalkInv
    <3>2. PICK i \in DOMAIN linked.targets : t = linked.targets[i]
      BY DEF Link!ToSet
    <3> QED
      BY <3>1, <3>2 DEF Objdumped, Scanned
  <2>2. c \in ToSet(t.calls)
    BY DEF Link!ToSet, ToSet
  <2> QED
    BY <2>1, <2>2 DEF LinkParts, EdgesInv
<1> QED
  BY <1>1, LinkInitially, LinkStep, PTL DEF PassSpec

\* For every build, a static that one object of the builddir defines is attributed to
\* the row of its own unit, with or without a map that has the name, unless the map puts
\* it in an object that has not (link.go resolveNMSymbol, buildAddrIndex).
THEOREM SoleStaticAlwaysOwn == PassSpec => []SoleStaticIsOwn
<1>1. LinkIInv => SoleStaticIsOwn
  <2> SUFFICES ASSUME LinkParts, lpc = "objdump", Link!NoAliases(Link!Target),
                      NEW s \in Link!ToSet(Link!Target.syms), s.kind = "t", Link!OnDisk(s),
                      Link!Sole(Link!Candidates(s.name)), Link!OwnRow(s) # Link!None,
                      ~Link!Misnamed(Link!Target, s.name)
               PROVE  addrToID[s.addr] = Link!OwnRow(s)
    BY DEF LinkIInv, SoleStaticIsOwn, Link!SoleStaticIsOwn
  <2>1. PICK t : t = linked.targets[lat] /\ t = Link!Target
    BY DEF Link!Target
  <2>2. /\ linked \in Links /\ lat \in DOMAIN linked.targets /\ t \in ToSet(linked.targets)
        /\ addrToID = Link!BuildAddrIndex(t) /\ CandidatesInv /\ Scanned
    <3>1. /\ linked \in Links /\ lat \in Nat \ {0} /\ lat <= Len(linked.targets)
          /\ addrToID = Link!BuildAddrIndex(t) /\ CandidatesInv
      BY <2>1 DEF LinkParts, LinkWalkInv, AddrInv
    <3>2. lat \in DOMAIN linked.targets
      BY <3>1, LinkFacts
    <3> QED
      BY <2>1, <3>1, <3>2 DEF Scanned, ToSet
  <2>3. NamedOnce(linked)
    BY <2>2, LinkAssumption
  <2>4. PICK c : Link!Candidates(s.name) = {c}
    BY DEF Link!Sole
  <2>5. c.object = s.from
    BY <2>4 DEF Link!OnDisk
  <2>6. s.from # "" /\ s.from \in DOMAIN linked.source =>
            Link!ResolveStaticViaObject(s, s.from) = Link!OwnRow(s)
    BY DEF Link!ResolveStaticViaObject, Link!OwnRow
  <2>7. Link!ViaSole(s) = Link!ResolveStaticViaObject(s, s.from)
    BY <2>4, <2>5 DEF Link!ViaSole, Link!Sole
  <2>8. Link!ViaMap(t, s) # Link!None => Link!ViaMap(t, s) = Link!ResolveStaticViaObject(s, s.from)
    <3> SUFFICES ASSUME Link!ViaMap(t, s) # Link!None
                 PROVE  Link!MapObjectFor(t, s.name) = s.from
      BY DEF Link!ViaMap
    <3>1. PICK o : o = Link!MapObjectFor(t, s.name)
      OBVIOUS
    <3>2. o # "" /\ o \in DOMAIN linked.source
      BY <3>1 DEF Link!ViaMap, Link!ResolveStaticViaObject
    <3>3. PICK d \in Link!Candidates(s.name) : d.object = o
      BY <2>1, <3>1, <3>2 DEF Link!Misnamed
    <3> QED
      BY <2>4, <2>5, <3>1, <3>3
  <2>9. s.from # ""
    <3>1. PICK i \in DOMAIN linked.objects : \E d \in ToSet(linked.objects[i].syms) :
             c = [object |-> linked.objects[i].object, kind |-> d.kind]
      BY <2>2, <2>4 DEF CandidatesInv
    <3>2. linked.objects[i].object # ""
      BY <2>3 DEF NamedOnce, ToSet
    <3>3. c.object = linked.objects[i].object
      BY <3>1
    <3> QED
      BY <2>5, <3>2, <3>3
  <2>10. Link!ResolveNMSymbol(t, s) = Link!OwnRow(s)
    <3>1. Link!Local(s)
      BY DEF Link!Local
    <3>2. s.from \in DOMAIN linked.source
      BY DEF Link!OwnRow
    <3> QED
      BY <2>6, <2>7, <2>8, <2>9, <3>1, <3>2 DEF Link!ResolveNMSymbol
  <2>11. PICK k \in DOMAIN t.syms : s = t.syms[k]
    BY <2>1 DEF Link!ToSet
  <2>12. k \in Link!Known(t)
    BY <2>10, <2>11 DEF Link!Known, Link!IsFunction
  <2>13. t.syms \in Seq(ToSet(t.syms)) /\ Link!NoAliases(t)
    BY <2>1, <2>2, <2>3 DEF NamedOnce
  <2> QED
    BY <2>2, <2>10, <2>11, <2>12, <2>13, AtAddress
<1> QED
  BY <1>1, LinkInitially, LinkStep, PTL DEF PassSpec
\* Of the candidates for a name, the one picked is beaten by none.
LEMMA PickedWins ==
    ASSUME CandidatesInv, Scanned, linked \in Links, NEW n, Link!Candidates(n) # {}
    PROVE  \E c \in Link!Candidates(n) :
               /\ Link!PickWinningObject(Link!Candidates(n)) = c.object
               /\ \A d \in Link!Candidates(n) : ~Link!Beats(d, c)
<1> DEFINE cands == Link!Candidates(n)
           rank(c) == Link!KindRank(c.kind)
           place(c) == Link!Place(c.object)
<1>1. \A k : Link!KindRank(k) \in Int /\ Link!KindRank(k) + 1 \in Nat /\ Link!KindRank(k) + 1 <= 4
  BY DEF Link!KindRank
<1>2. \A c \in cands : place(c) \in Nat
  <2>1. SUFFICES ASSUME NEW c \in cands PROVE place(c) \in Nat
    OBVIOUS
  <2>2. PICK i \in DOMAIN linked.objects : \E s \in ToSet(linked.objects[i].syms) :
           c = [object |-> linked.objects[i].object, kind |-> s.kind]
    BY DEF CandidatesInv
  <2>3. linked.objects[i].object = c.object
    BY <2>2
  <2>4. place(c) \in DOMAIN linked.objects
    BY <2>3 DEF Link!Place
  <2> QED
    BY <2>4, LinkFacts
<1>3. \A c, d : Link!Beats(d, c) <=> rank(d) > rank(c) \/ (rank(d) = rank(c) /\ place(d) < place(c))
  BY DEF Link!Beats
<1>4. cands # {} /\ Link!PickWinningObject(cands) =
          (CHOOSE c \in cands : \A d \in cands : ~Link!Beats(d, c)).object
  BY DEF Link!PickWinningObject
<1> HIDE DEF cands, rank, place
<1>5. \A c : rank(c) \in Int /\ rank(c) + 1 \in Nat /\ rank(c) + 1 <= 4
  BY <1>1 DEF rank
<1>6. PICK b \in cands : \A d \in cands : rank(d) <= rank(b)
  <2> DEFINE R == {rank(c) + 1 : c \in cands}
  <2>1. R \in SUBSET Nat /\ R # {} /\ \A x \in R : x <= 4
    BY <1>4, <1>5
  <2>2. PICK x \in R : \A y \in R : y <= x
    BY <2>1, GreatestElement
  <2>3. PICK b \in cands : x = rank(b) + 1
    BY <2>2
  <2>4. ASSUME NEW d \in cands PROVE rank(d) <= rank(b)
    <3>1. rank(d) + 1 <= rank(b) + 1
      BY <2>2, <2>3
    <3> QED
      BY <1>5, <3>1
  <2> QED
    BY <2>4
<1>7. PICK c \in cands : /\ rank(c) = rank(b)
                         /\ \A d \in cands : rank(d) = rank(b) => place(c) <= place(d)
  <2> DEFINE P == {place(d) : d \in {e \in cands : rank(e) = rank(b)}}
  <2>1. P \in SUBSET Nat /\ P # {}
    BY <1>2
  <2>2. PICK x \in P : \A y \in P : x <= y
    BY <2>1, LeastElement
  <2> QED
    BY <2>2
<1>8. ASSUME NEW d \in cands PROVE ~Link!Beats(d, c)
  <2>1. rank(d) <= rank(c)
    BY <1>6, <1>7
  <2>2. rank(d) = rank(c) => place(c) <= place(d)
    BY <1>7
  <2> QED
    BY <1>2, <1>3, <1>5, <2>1, <2>2
<1>9. PICK w : w = CHOOSE e \in cands : \A d \in cands : ~Link!Beats(d, e)
  OBVIOUS
<1>10. w \in cands /\ \A d \in cands : ~Link!Beats(d, w)
  BY <1>8, <1>9
<1>11. Link!PickWinningObject(cands) = w.object
  BY <1>4, <1>9
<1> QED
  BY <1>10, <1>11 DEF cands

\* A strongest candidate that is the only one is the one picked.
LEMMA StrongestPicked ==
    ASSUME CandidatesInv, Scanned, linked \in Links, NEW n, NEW c, Link!Strongest(n) = {c}
    PROVE  Link!PickWinningObject(Link!Candidates(n)) = c.object
<1>1. /\ c \in Link!Candidates(n)
      /\ \A d \in Link!Candidates(n) : Link!KindRank(c.kind) >= Link!KindRank(d.kind)
      /\ \A e \in Link!Candidates(n) :
            (\A d \in Link!Candidates(n) : Link!KindRank(e.kind) >= Link!KindRank(d.kind)) => e = c
  BY DEF Link!Strongest
<1>2. PICK w \in Link!Candidates(n) :
          /\ Link!PickWinningObject(Link!Candidates(n)) = w.object
          /\ \A d \in Link!Candidates(n) : ~Link!Beats(d, w)
  BY <1>1, PickedWins
<1>3. \A k : Link!KindRank(k) \in Int
  BY DEF Link!KindRank
<1>4. ~(Link!KindRank(c.kind) > Link!KindRank(w.kind))
  BY <1>1, <1>2 DEF Link!Beats
<1>5. \A d \in Link!Candidates(n) : Link!KindRank(w.kind) >= Link!KindRank(d.kind)
  BY <1>1, <1>3, <1>4
<1> QED
  BY <1>1, <1>2, <1>5

\* For every build and whatever ReadMap got of its maps, the winning object is the one
\* the linker took the definition from where the map names that one, or names none and
\* a single strongest definition tells, and the losers are then the other objects that
\* define the name (link.go Link, pickWinningObject).
THEOREM WinnerAlwaysTheLinkers == PassSpec => []WinnerIsTheLinkers
<1>1. LinkIInv => WinnerIsTheLinkers
  <2> SUFFICES ASSUME LinkParts, NEW r \in resolutions
               PROVE  LET t == Link!TargetNamed(r.target)
                          s == r.symbol
                      IN  /\ Link!MapIsRight(t, s) =>
                                /\ \/ Link!MapObjectFor(t, s.name) # ""
                                   \/ Link!Strongest(s.name) = {[object |-> s.from, kind |-> s.kind]}
                                   => r.winner = s.from
                                /\ Link!OnDisk(s) =>
                                      {c.object : c \in Link!Candidates(s.name)} =
                                          r.losers \cup {r.winner}
                          /\ r.winner \notin r.losers
    BY DEF LinkIInv, WinnerIsTheLinkers, Link!WinnerIsTheLinkers
  <2>1. linked \in Links /\ CandidatesInv /\ Scanned /\ LookupInv
    BY DEF LinkParts, LinkWalkInv, Scanned
  <2>2. PICK t \in ToSet(linked.targets) : \E s \in Resolvable(t) : r = Link!ResolutionFor(t, s)
    BY DEF LinkParts, ResolutionsInv
  <2>3. PICK s \in Resolvable(t) : r = Link!ResolutionFor(t, s)
    BY <2>2
  <2>4. s \in ToSet(t.syms) /\ Link!LinkageKind(s) # ""
    BY DEF Resolvable
  <2> DEFINE cands == Link!Candidates(s.name)
  <2>5. /\ r.target = t.name /\ r.symbol = s /\ r.winner = Link!WinningObject(t, s)
        /\ r.losers = {c.object : c \in cands} \ {r.winner}
    BY <2>3 DEF Link!ResolutionFor, Link!CollectLosingObjects
  <2>6. NamedOnce(linked)
    BY <2>1, LinkAssumption
  <2>7. Link!TargetNamed(r.target) = t
    <3>1. \A u \in Link!ToSet(linked.targets) : u.name = t.name => u = t
      BY <2>6 DEF NamedOnce, Link!ToSet, ToSet
    <3>2. t \in Link!ToSet(linked.targets)
      BY DEF Link!ToSet, ToSet
    <3> QED
      BY <2>5, <3>1, <3>2 DEF Link!TargetNamed
  <2> DEFINE named == Link!MapObjectFor(t, s.name)
  <2>8. named # "" /\ Link!MapIsRight(t, s) => r.winner = s.from
    BY <2>5 DEF Link!MapIsRight, Link!WinningObject
  <2>9. named = "" => r.winner = Link!PickWinningObject(cands)
    BY <2>5 DEF Link!WinningObject
  <2>10. Link!MapIsRight(t, s) /\ Link!Strongest(s.name) = {[object |-> s.from, kind |-> s.kind]}
            => r.winner = s.from
    BY <2>1, <2>8, <2>9, StrongestPicked
  <2>11. Link!OnDisk(s) /\ Link!MapIsRight(t, s) => r.winner \in {c.object : c \in cands}
    <3> SUFFICES ASSUME Link!OnDisk(s), Link!MapIsRight(t, s) PROVE \E c \in cands : r.winner = c.object
      OBVIOUS
    <3>1. [object |-> s.from, kind |-> s.kind] \in cands
      BY DEF Link!OnDisk
    <3>2. CASE named # ""
      BY <2>8, <3>1, <3>2
    <3>3. CASE named = ""
      BY <2>1, <2>9, <3>1, <3>3, PickedWins
    <3> QED
      BY <3>2, <3>3
  <2> QED
    BY <2>5, <2>7, <2>8, <2>10, <2>11
<1> QED
  BY <1>1, LinkInitially, LinkStep, PTL DEF PassSpec

\* The link plane has all the targets or none.
LEMMA LinkAtomic == LinkIInv => (pass = "link" => Link!AllTargetsOrNone)
<1> SUFFICES ASSUME LinkParts PROVE Link!AllTargetsOrNone
  BY DEF LinkIInv
<1>1. lpc = "failed" => resolutions = {} /\ edges = {}
  BY DEF LinkParts, LinkWalkInv
<1>2. ASSUME lpc = "done", NEW t \in Link!ToSet(linked.targets), Link!Linked(t),
             NEW s \in Link!ToSet(t.syms), Link!LinkageKind(s) # "", s.name \in DOMAIN nameToID
      PROVE  \E r \in resolutions : r.target = t.name /\ r.symbol = s
  <2>1. Resolved(t)
    <3>1. /\ DOMAIN linked.targets = 1..Len(linked.targets) /\ Len(linked.targets) \in Nat
          /\ lat > Len(linked.targets) /\ lat \in Nat
      BY <1>2, LinkFacts DEF LinkParts, LinkWalkInv
    <3>2. PICK i \in DOMAIN linked.targets : t = linked.targets[i]
      BY DEF Link!ToSet
    <3> QED
      <4>1. i < lat
        BY <3>1, <3>2
      <4> QED
        BY <1>2, <3>2, <4>1 DEF Resolved, Scanned
  <2>2. s \in Resolvable(t)
    <3>1. Link!ResolveNMSymbol(t, s) # Link!None
      BY <1>2, NameResolves DEF LinkParts, LinkWalkInv
    <3> QED
      BY <1>2, <3>1 DEF Resolvable, Link!ToSet, ToSet
  <2>3. Link!ResolutionFor(t, s) \in resolutions
    BY <2>1, <2>2 DEF LinkParts, ResolutionsInv
  <2>4. Link!ResolutionFor(t, s).target = t.name /\ Link!ResolutionFor(t, s).symbol = s
    BY DEF Link!ResolutionFor
  <2> QED
    BY <2>3, <2>4
<1> QED
  BY <1>1, <1>2 DEF Link!AllTargetsOrNone

-----------------------------------------------------------------------------
\* For every build, a pass writes everything or nothing: the database is what the
\* Compiler pass left until the DWARF pass commits, and then every signature is in it
\* and in the search index; and the link plane has all the targets or none (dwarf.go
\* DWARF, link.go Link).
THEOREM PassesAlwaysAtomic == PassSpec => []PassesAreAtomic
<1>1. ASSUME DwarfIInv PROVE AllOrNothing
  <2>1. CASE pass # "dwarf"
    BY <1>1, <2>1, DwarfPlaneIdle
  <2>2. CASE pass = "dwarf"
    <3>1. SavedInv /\ SigInv /\ WalkInv
      BY <1>1, <2>2 DEF DwarfIInv, WritesInv
    <3>2. pc = "done" => \A o \in Objects : Enriched(o)
      BY <3>1 DEF WalkInv, Enriched
    <3> QED
      BY <3>1, <3>2 DEF SavedInv, SigInv, AllOrNothing
  <2> QED
    BY <2>1, <2>2
<1>2. DwarfIInv /\ LinkIInv => PassesAreAtomic
  BY <1>1, LinkAtomic DEF PassesAreAtomic
<1> QED
  BY <1>2, DwarfPlaneInitially, DwarfPlaneStep, LinkInitially, LinkStep, PTL DEF PassSpec
-----------------------------------------------------------------------------
(* The source pass: sources.go Sources over blobstore.go Writer.           *)

\* The files are known; before that, and after a failure, nothing is stored.
Crawled == spc \in {"sources", "check", "generated", "external", "done"}

\* What each of the three loops still has to pack.
SourcesLeft == IF spc \in {"sources", "check"} THEN keys ELSE {}
GeneratedLeft ==
    IF spc \in {"sources", "check"} THEN genEntries ELSE IF spc = "generated" THEN keys ELSE {}
ExternalLeft ==
    IF spc \in {"sources", "check", "generated"} THEN extEntries
    ELSE IF spc = "external" THEN keys ELSE {}

PackWalkInv ==
    /\ packed \in Packs
    /\ spc \in {"crawl", "sources", "check", "generated", "external", "done",
                "misplaced", "log", "missing", "unreadable", "strict", "globs"}
    /\ keys \subseteq ToSet(Paths)
    /\ spc = "check" => keys # {}
    /\ spc = "done" => keys = {}

\* The lists are those of the crawl, and no file lies where it may not.
CrawlInv ==
    Crawled =>
        /\ ~Pack!Misplaced /\ entries = Pack!Entries /\ genEntries = Pack!GeneratedEntries
        /\ extEntries = {f \in Pack!External : Pack!FirstGlob(f) # 0}
        /\ SourcesLeft \subseteq DOMAIN entries /\ GeneratedLeft \subseteq genEntries
        /\ ExternalLeft \subseteq extEntries

\* A table holds what its loop has been through, except what was not there.
PackedInv ==
    IF Crawled
    THEN /\ DOMAIN sources \subseteq DOMAIN entries \ SourcesLeft
         /\ \A f \in DOMAIN entries \ SourcesLeft :
               f \in DOMAIN sources \/ (f \notin DOMAIN disk /\ ~entries[f].required)
         /\ DOMAIN generated \subseteq genEntries \ GeneratedLeft
         /\ \A f \in genEntries \ GeneratedLeft : f \in DOMAIN generated \/ f \notin DOMAIN disk
         /\ DOMAIN external \subseteq extEntries \ ExternalLeft
         /\ \A f \in extEntries \ ExternalLeft : f \in DOMAIN external \/ f \notin DOMAIN disk
    ELSE sources = <<>> /\ generated = <<>> /\ external = <<>>

CountInv ==
    /\ sum \in [Pack!Tallies -> Nat]
    /\ IsFiniteSet(blobs) /\ IsFiniteSet(DOMAIN sources) /\ IsFiniteSet(DOMAIN generated)
    /\ IsFiniteSet(DOMAIN external)
    /\ blobs = Pack!Stored
    /\ sum["blobs"] = Cardinality(blobs)
    /\ sum["files"] + sum["genFiles"] + sum["extFiles"] = sum["blobs"] + sum["dups"]
    /\ sum["files"] = Cardinality(DOMAIN sources)
    /\ sum["genFiles"] = Cardinality(DOMAIN generated)
    /\ sum["extFiles"] = Cardinality(DOMAIN external)

\* mtimes do not go back: what was read is no newer than the file is now.
TimesInv ==
    /\ \A f \in DOMAIN disk : disk[f].mtime \in 0..Pack!Now
    /\ spc = "check" => /\ hold.mtime \in 0..Pack!Now
                        /\ \A f : f = Pack!Key /\ f \in DOMAIN disk => hold.mtime <= disk[f].mtime

StrictInv ==
    /\ \A f \in DOMAIN sources : sources[f].row.mtime \in 0..Pack!Now
    /\ packed.strict =>
          \A f \in DOMAIN sources : \A o \in entries[f].consumers \cap DOMAIN disk :
              sources[f].row.mtime <= disk[o].mtime

PackParts == PackWalkInv /\ CrawlInv /\ PackedInv /\ CountInv /\ TimesInv /\ StrictInv

PackIInv == pass = "sources" => PackParts

-----------------------------------------------------------------------------
\* What the crawl finds depends on the build alone.
LEMMA SameCrawl ==
    ASSUME packed' = packed
    PROVE  /\ Pack!Misplaced' <=> Pack!Misplaced
           /\ Pack!Entries' = Pack!Entries /\ Pack!GeneratedEntries' = Pack!GeneratedEntries
           /\ Pack!External' = Pack!External
           /\ \A f : Pack!FirstGlob(f)' = Pack!FirstGlob(f)
<1>1. /\ \A f : Pack!InProject(f)' <=> Pack!InProject(f)
      /\ \A f : Pack!UnderBuildDir(f)' <=> Pack!UnderBuildDir(f)
  BY DEF Pack!InProject, Pack!UnderBuildDir
<1>2. Pack!BuiltObjects' = Pack!BuiltObjects /\ \A o : Pack!DepsFor(o)' = Pack!DepsFor(o)
  BY DEF Pack!BuiltObjects, Pack!DepsFor
<1>3. Pack!Deps' = Pack!Deps
  BY <1>2 DEF Pack!Deps
<1>4. Pack!Required' = Pack!Required
  BY <1>1 DEF Pack!Required
<1>5. Pack!Entries' = Pack!Entries
  BY <1>1, <1>2, <1>3, <1>4 DEF Pack!Entries
<1>6. Pack!GeneratedEntries' = Pack!GeneratedEntries
  BY <1>1, <1>3 DEF Pack!GeneratedEntries
<1>7. Pack!External' = Pack!External
  BY <1>1, <1>3 DEF Pack!External
<1>8. \A f : Pack!FirstGlob(f)' = Pack!FirstGlob(f)
  BY DEF Pack!FirstGlob
<1>9. Pack!Misplaced' <=> Pack!Misplaced
  BY <1>1 DEF Pack!Misplaced
<1> QED
  BY <1>5, <1>6, <1>7, <1>8, <1>9

\* What the crawl finds is among the paths.
LEMMA CrawlPaths ==
    ASSUME packed \in Packs
    PROVE  /\ DOMAIN Pack!Entries \subseteq ToSet(Paths) /\ Pack!GeneratedEntries \subseteq ToSet(Paths)
           /\ Pack!External \subseteq ToSet(Paths)
           /\ \A f \in DOMAIN Pack!Entries :
                 /\ Pack!Entries[f].consumers \subseteq Pack!BuiltObjects
                 /\ Pack!Entries[f].required <=> f \in Pack!Required
           /\ DOMAIN Pack!Entries = Pack!Required \cup {d \in Pack!Deps : Pack!InProject(d)}
<1>1. packed.sources \cup packed.generated \subseteq ToSet(Paths)
  BY PackAssumption
<1>2. Pack!Deps \subseteq ToSet(Paths)
  <2>1. \A o \in DOMAIN packed.deps : packed.deps[o] \subseteq ToSet(Paths)
    BY PackAssumption
  <2> QED
    BY <2>1 DEF Pack!Deps, Pack!DepsFor, Pack!BuiltObjects
<1>3. Pack!Required \subseteq ToSet(Paths)
  BY <1>1 DEF Pack!Required
<1>4. DOMAIN Pack!Entries = Pack!Required \cup {d \in Pack!Deps : Pack!InProject(d)}
  BY DEF Pack!Entries
<1>5. \A f \in DOMAIN Pack!Entries :
         /\ Pack!Entries[f].consumers \subseteq Pack!BuiltObjects
         /\ Pack!Entries[f].required <=> f \in Pack!Required
  BY <1>4 DEF Pack!Entries
<1> QED
  BY <1>1, <1>2, <1>3, <1>4, <1>5 DEF Pack!GeneratedEntries, Pack!External

\* There is a first key while there are keys.
LEMMA KeyIsLeft ==
    ASSUME keys \subseteq ToSet(Paths), keys # {}
    PROVE  Pack!Key \in keys
<1>1. \A f \in keys : Pack!Position(f) \in Nat
  <2>1. SUFFICES ASSUME NEW f \in keys PROVE Pack!Position(f) \in Nat
    OBVIOUS
  <2>2. \E i \in DOMAIN Paths : Paths[i] = f
    BY DEF ToSet
  <2>3. Pack!Position(f) \in DOMAIN Paths
    BY <2>2 DEF Pack!Position
  <2> QED
    BY <2>3, PackAssumption
<1> DEFINE P == {Pack!Position(f) : f \in keys}
<1>2. P \in SUBSET Nat /\ P # {}
  BY <1>1
<1>3. PICK x \in P : \A y \in P : x <= y
  BY <1>2, LeastElement
<1>4. \E f \in keys : \A g \in keys : Pack!Position(f) <= Pack!Position(g)
  BY <1>3
<1> QED
  BY <1>4 DEF Pack!Key

\* The counters are numbers.
LEMMA NumbersAre ==
    ASSUME sum \in [Pack!Tallies -> Nat]
    PROVE  /\ sum["files"] \in Nat /\ sum["genFiles"] \in Nat /\ sum["extFiles"] \in Nat
           /\ sum["blobs"] \in Nat /\ sum["dups"] \in Nat
BY DEF Pack!Tallies
\* Storing a content, one of the counters of blobs and one of the counters of files.
LEMMA BlobAdded ==
    ASSUME CountInv, NEW c, Pack!PutBlob(c),
           NEW file \in {"files", "genFiles", "extFiles"}, NEW more,
           more \subseteq {"generated", "genBlobs", "extBlobs"},
           sum' = Pack!Counted({file, Pack!BlobTally(c)} \cup more)
    PROVE  /\ sum' \in [Pack!Tallies -> Nat]
           /\ IsFiniteSet(blobs') /\ blobs' = blobs \cup {c}
           /\ sum'["blobs"] = Cardinality(blobs')
           /\ sum'["blobs"] + sum'["dups"] = sum["blobs"] + sum["dups"] + 1
           /\ sum'[file] = sum[file] + 1
           /\ \A t \in {"files", "genFiles", "extFiles"} \ {file} : sum'[t] = sum[t]
<1>1. /\ sum \in [Pack!Tallies -> Nat] /\ IsFiniteSet(blobs) /\ sum["blobs"] = Cardinality(blobs)
  BY DEF CountInv
<1>2. blobs' = blobs \cup {c}
  BY DEF Pack!PutBlob
<1> DEFINE S == {file, Pack!BlobTally(c)} \cup more
<1>3. \A t \in Pack!Tallies : sum'[t] = IF t \in S THEN sum[t] + 1 ELSE sum[t]
  BY DEF Pack!Counted
<1>4. sum' \in [Pack!Tallies -> Nat]
  <2>1. sum' = [t \in Pack!Tallies |-> IF t \in S THEN sum[t] + 1 ELSE sum[t]]
    BY DEF Pack!Counted
  <2> QED
    BY <1>1, <2>1
<1>5. /\ "files" \in Pack!Tallies /\ "genFiles" \in Pack!Tallies /\ "extFiles" \in Pack!Tallies
      /\ "blobs" \in Pack!Tallies /\ "dups" \in Pack!Tallies
  BY DEF Pack!Tallies
<1>6. Pack!BlobTally(c) = IF c \notin blobs THEN "blobs" ELSE "dups"
  BY DEF Pack!BlobTally, Pack!IsNew
<1>7. /\ file \in S
      /\ \A t \in {"files", "genFiles", "extFiles"} : t \in S => t = file
      /\ "blobs" \in S <=> c \notin blobs
      /\ "dups" \in S <=> c \in blobs
  BY <1>6
<1> HIDE DEF S
<1>8. sum'[file] = sum[file] + 1
  BY <1>3, <1>5, <1>7
<1>9. \A t \in {"files", "genFiles", "extFiles"} \ {file} : sum'[t] = sum[t]
  BY <1>3, <1>5, <1>7
<1>10. CASE c \in blobs
  <2>1. blobs' = blobs
    BY <1>2, <1>10
  <2>2. sum'["blobs"] = sum["blobs"] /\ sum'["dups"] = sum["dups"] + 1
    BY <1>3, <1>5, <1>7, <1>10
  <2> QED
    BY <1>1, <1>2, <1>4, <1>5, <1>8, <1>9, <2>1, <2>2
<1>11. CASE c \notin blobs
  <2>1. IsFiniteSet(blobs') /\ Cardinality(blobs') = Cardinality(blobs) + 1
    BY <1>1, <1>2, <1>11, FS_AddElement
  <2>2. sum'["blobs"] = sum["blobs"] + 1 /\ sum'["dups"] = sum["dups"]
    BY <1>3, <1>5, <1>7, <1>11
  <2> QED
    BY <1>1, <1>2, <1>4, <1>5, <1>8, <1>9, <2>1, <2>2, SMTT(30)
<1> QED
  BY <1>10, <1>11

\* Storing a row of sources keeps the store and the summary in agreement.
LEMMA PutCounted ==
    ASSUME CountInv, Pack!Put, Pack!Key \notin DOMAIN sources
    PROVE  CountInv'
<1>1. PICK f, c : f = Pack!Key /\ c = hold.content
  OBVIOUS
<1>2. PICK row : /\ row.row.content = c /\ sources' = Pack!Upsert(sources, f, row)
                 /\ UNCHANGED <<generated, external>>
  BY <1>1 DEF Pack!Put
<1>3. /\ DOMAIN sources' = DOMAIN sources \cup {f} /\ IsFiniteSet(DOMAIN sources')
      /\ Cardinality(DOMAIN sources') = Cardinality(DOMAIN sources) + 1
      /\ sources'[f] = row /\ \A g \in DOMAIN sources : sources'[g] = sources[g]
  <2>1. IsFiniteSet(DOMAIN sources) /\ f \notin DOMAIN sources
    BY <1>1 DEF CountInv
  <2>2. /\ IsFiniteSet(DOMAIN sources \cup {f})
        /\ Cardinality(DOMAIN sources \cup {f}) = Cardinality(DOMAIN sources) + 1
    BY <2>1, FS_AddElement
  <2>3. sources' = [g \in DOMAIN sources \cup {f} |-> IF g = f THEN row ELSE sources[g]]
    BY <1>2 DEF Pack!Upsert
  <2> QED
    BY <2>1, <2>2, <2>3
<1>4. /\ sum' \in [Pack!Tallies -> Nat] /\ IsFiniteSet(blobs') /\ blobs' = blobs \cup {c}
      /\ sum'["blobs"] = Cardinality(blobs')
      /\ sum'["blobs"] + sum'["dups"] = sum["blobs"] + sum["dups"] + 1
      /\ sum'["files"] = sum["files"] + 1
      /\ sum'["genFiles"] = sum["genFiles"] /\ sum'["extFiles"] = sum["extFiles"]
  <2>1. PICK more \in SUBSET {"generated", "genBlobs", "extBlobs"} :
            sum' = Pack!Counted({"files", Pack!BlobTally(c)} \cup more)
    BY <1>1 DEF Pack!Put
  <2>2. Pack!PutBlob(c)
    BY <1>1 DEF Pack!Put
  <2>3. /\ sum' \in [Pack!Tallies -> Nat] /\ IsFiniteSet(blobs') /\ blobs' = blobs \cup {c}
        /\ sum'["blobs"] = Cardinality(blobs')
        /\ sum'["blobs"] + sum'["dups"] = sum["blobs"] + sum["dups"] + 1
        /\ sum'["files"] = sum["files"] + 1
        /\ \A t \in {"files", "genFiles", "extFiles"} \ {"files"} : sum'[t] = sum[t]
    BY <2>1, <2>2, BlobAdded
  <2> QED
    BY <2>3
<1>5. blobs' = Pack!Stored'
  <2>1. blobs = Pack!Stored
    BY DEF CountInv
  <2>2. {sources'[g].row.content : g \in DOMAIN sources'} =
            {sources[g].row.content : g \in DOMAIN sources} \cup {c}
    BY <1>2, <1>3
  <2>3. blobs' = blobs \cup {c}
    BY <1>4
  <2> QED
    BY <1>2, <2>1, <2>2, <2>3 DEF Pack!Stored
<1>6. sum'["files"] + sum'["genFiles"] + sum'["extFiles"] = sum'["blobs"] + sum'["dups"]
  BY <1>4, NumbersAre DEF CountInv
<1> QED
  BY <1>2, <1>3, <1>4, <1>5, <1>6 DEF CountInv

\* Storing a row of generated keeps the store and the summary in agreement.
LEMMA PutGeneratedCounted ==
    ASSUME CountInv, Pack!PutGenerated, Pack!Key \notin DOMAIN generated
    PROVE  CountInv'
<1>1. PICK f, c : f = Pack!Key /\ c = disk[Pack!Key].content
  OBVIOUS
<1>2. PICK row : /\ row.content = c /\ generated' = Pack!Upsert(generated, f, row)
                 /\ UNCHANGED <<sources, external>>
  BY <1>1 DEF Pack!PutGenerated
<1>3. /\ DOMAIN generated' = DOMAIN generated \cup {f} /\ IsFiniteSet(DOMAIN generated')
      /\ Cardinality(DOMAIN generated') = Cardinality(DOMAIN generated) + 1
      /\ generated'[f] = row /\ \A g \in DOMAIN generated : generated'[g] = generated[g]
  <2>1. IsFiniteSet(DOMAIN generated) /\ f \notin DOMAIN generated
    BY <1>1 DEF CountInv
  <2>2. /\ IsFiniteSet(DOMAIN generated \cup {f})
        /\ Cardinality(DOMAIN generated \cup {f}) = Cardinality(DOMAIN generated) + 1
    BY <2>1, FS_AddElement
  <2>3. generated' = [g \in DOMAIN generated \cup {f} |-> IF g = f THEN row ELSE generated[g]]
    BY <1>2 DEF Pack!Upsert
  <2> QED
    BY <2>1, <2>2, <2>3
<1>4. /\ sum' \in [Pack!Tallies -> Nat] /\ IsFiniteSet(blobs') /\ blobs' = blobs \cup {c}
      /\ sum'["blobs"] = Cardinality(blobs')
      /\ sum'["blobs"] + sum'["dups"] = sum["blobs"] + sum["dups"] + 1
      /\ sum'["genFiles"] = sum["genFiles"] + 1
      /\ sum'["files"] = sum["files"] /\ sum'["extFiles"] = sum["extFiles"]
  <2>1. PICK more \in SUBSET {"generated", "genBlobs", "extBlobs"} :
            sum' = Pack!Counted({"genFiles", Pack!BlobTally(c)} \cup more)
    BY <1>1 DEF Pack!PutGenerated
  <2>2. Pack!PutBlob(c)
    BY <1>1 DEF Pack!PutGenerated
  <2>3. /\ sum' \in [Pack!Tallies -> Nat] /\ IsFiniteSet(blobs') /\ blobs' = blobs \cup {c}
        /\ sum'["blobs"] = Cardinality(blobs')
        /\ sum'["blobs"] + sum'["dups"] = sum["blobs"] + sum["dups"] + 1
        /\ sum'["genFiles"] = sum["genFiles"] + 1
        /\ \A t \in {"files", "genFiles", "extFiles"} \ {"genFiles"} : sum'[t] = sum[t]
    BY <2>1, <2>2, BlobAdded
  <2> QED
    BY <2>3
<1>5. blobs' = Pack!Stored'
  <2>1. blobs = Pack!Stored
    BY DEF CountInv
  <2>2. {generated'[g].content : g \in DOMAIN generated'} =
            {generated[g].content : g \in DOMAIN generated} \cup {c}
    BY <1>2, <1>3
  <2>3. blobs' = blobs \cup {c}
    BY <1>4
  <2> QED
    BY <1>2, <2>1, <2>2, <2>3 DEF Pack!Stored
<1>6. sum'["files"] + sum'["genFiles"] + sum'["extFiles"] = sum'["blobs"] + sum'["dups"]
  BY <1>4, NumbersAre DEF CountInv
<1> QED
  BY <1>2, <1>3, <1>4, <1>5, <1>6 DEF CountInv

\* Storing a row of external keeps the store and the summary in agreement.
LEMMA PutExternalCounted ==
    ASSUME CountInv, Pack!PutExternal, Pack!Key \notin DOMAIN external
    PROVE  CountInv'
<1>1. PICK f, c : f = Pack!Key /\ c = disk[Pack!Key].content
  OBVIOUS
<1>2. PICK row : /\ row.content = c /\ external' = Pack!Upsert(external, f, row)
                 /\ UNCHANGED <<sources, generated>>
  BY <1>1 DEF Pack!PutExternal
<1>3. /\ DOMAIN external' = DOMAIN external \cup {f} /\ IsFiniteSet(DOMAIN external')
      /\ Cardinality(DOMAIN external') = Cardinality(DOMAIN external) + 1
      /\ external'[f] = row /\ \A g \in DOMAIN external : external'[g] = external[g]
  <2>1. IsFiniteSet(DOMAIN external) /\ f \notin DOMAIN external
    BY <1>1 DEF CountInv
  <2>2. /\ IsFiniteSet(DOMAIN external \cup {f})
        /\ Cardinality(DOMAIN external \cup {f}) = Cardinality(DOMAIN external) + 1
    BY <2>1, FS_AddElement
  <2>3. external' = [g \in DOMAIN external \cup {f} |-> IF g = f THEN row ELSE external[g]]
    BY <1>2 DEF Pack!Upsert
  <2> QED
    BY <2>1, <2>2, <2>3
<1>4. /\ sum' \in [Pack!Tallies -> Nat] /\ IsFiniteSet(blobs') /\ blobs' = blobs \cup {c}
      /\ sum'["blobs"] = Cardinality(blobs')
      /\ sum'["blobs"] + sum'["dups"] = sum["blobs"] + sum["dups"] + 1
      /\ sum'["extFiles"] = sum["extFiles"] + 1
      /\ sum'["files"] = sum["files"] /\ sum'["genFiles"] = sum["genFiles"]
  <2>1. PICK more \in SUBSET {"generated", "genBlobs", "extBlobs"} :
            sum' = Pack!Counted({"extFiles", Pack!BlobTally(c)} \cup more)
    BY <1>1 DEF Pack!PutExternal
  <2>2. Pack!PutBlob(c)
    BY <1>1 DEF Pack!PutExternal
  <2>3. /\ sum' \in [Pack!Tallies -> Nat] /\ IsFiniteSet(blobs') /\ blobs' = blobs \cup {c}
        /\ sum'["blobs"] = Cardinality(blobs')
        /\ sum'["blobs"] + sum'["dups"] = sum["blobs"] + sum["dups"] + 1
        /\ sum'["extFiles"] = sum["extFiles"] + 1
        /\ \A t \in {"files", "genFiles", "extFiles"} \ {"extFiles"} : sum'[t] = sum[t]
    BY <2>1, <2>2, BlobAdded
  <2> QED
    BY <2>3
<1>5. blobs' = Pack!Stored'
  <2>1. blobs = Pack!Stored
    BY DEF CountInv
  <2>2. {external'[g].content : g \in DOMAIN external'} =
            {external[g].content : g \in DOMAIN external} \cup {c}
    BY <1>2, <1>3
  <2>3. blobs' = blobs \cup {c}
    BY <1>4
  <2> QED
    BY <1>2, <2>1, <2>2, <2>3 DEF Pack!Stored
<1>6. sum'["files"] + sum'["genFiles"] + sum'["extFiles"] = sum'["blobs"] + sum'["dups"]
  BY <1>4, NumbersAre DEF CountInv
<1> QED
  BY <1>2, <1>3, <1>4, <1>5, <1>6 DEF CountInv
\* The first key depends on the keys alone.
LEMMA KeyStays ==
    ASSUME keys' = keys
    PROVE  Pack!Key' = Pack!Key
BY DEF Pack!Key, Pack!Position

\* An empty store adds up.
LEMMA EmptyCounted ==
    (/\ blobs = {} /\ sources = <<>> /\ generated = <<>> /\ external = <<>>
     /\ sum = Pack!NoRows)
    => CountInv
<1> SUFFICES ASSUME blobs = {}, sources = <<>>, generated = <<>>, external = <<>>,
                    sum = Pack!NoRows
             PROVE  CountInv
  OBVIOUS
<1>1. DOMAIN sources = {} /\ DOMAIN generated = {} /\ DOMAIN external = {}
  OBVIOUS
<1>2. IsFiniteSet({}) /\ Cardinality({}) = 0
  BY FS_EmptySet
<1>3. sum \in [Pack!Tallies -> Nat] /\ \A t \in Pack!Tallies : sum[t] = 0
  BY DEF Pack!NoRows
<1>4. /\ sum["files"] = 0 /\ sum["genFiles"] = 0 /\ sum["extFiles"] = 0
      /\ sum["blobs"] = 0 /\ sum["dups"] = 0
  BY <1>3 DEF Pack!Tallies
<1>5. Pack!Stored = {}
  BY <1>1 DEF Pack!Stored
<1> QED
  BY <1>1, <1>2, <1>3, <1>4, <1>5 DEF CountInv

\* The store adds up while no table changes.
LEMMA SameTables ==
    ASSUME CountInv, UNCHANGED <<blobs, sources, generated, external, sum>>
    PROVE  CountInv'
<1>1. Pack!Stored' = Pack!Stored
  BY DEF Pack!Stored
<1> QED
  BY <1>1 DEF CountInv

\* A failure rolls everything back.
LEMMA FailStep ==
    ASSUME PackParts, NEW why \in {"misplaced", "log", "missing", "unreadable", "strict", "globs"},
           Pack!Fail(why)
    PROVE  PackParts'
<1>1. /\ spc' = why /\ packed' = packed /\ disk' = disk /\ keys' = keys
      /\ blobs' = {} /\ sources' = <<>> /\ generated' = <<>> /\ external' = <<>>
      /\ sum' = Pack!NoRows
  BY DEF Pack!Fail, Pack!Rollback, Pack!crawl
<1>2. PackWalkInv'
  BY <1>1 DEF PackParts, PackWalkInv
<1>3. CrawlInv' /\ PackedInv'
  BY <1>1 DEF CrawlInv, PackedInv, Crawled
<1>4. CountInv'
  <2>1. (/\ blobs = {} /\ sources = <<>> /\ generated = <<>> /\ external = <<>>
         /\ sum = Pack!NoRows)'
    BY <1>1
  <2> QED
    BY <2>1, EmptyCounted, PTL
<1>5. TimesInv'
  BY <1>1 DEF PackParts, TimesInv
<1>6. StrictInv'
  BY <1>1 DEF StrictInv
<1> QED
  BY <1>2, <1>3, <1>4, <1>5, <1>6 DEF PackParts

\* The crawl: every list is new and every loop has all of its list to do.
LEMMA CrawlStep ==
    ASSUME PackParts, Pack!Crawl
    PROVE  PackParts'
<1>1. /\ spc = "crawl" /\ ~Pack!Misplaced /\ spc' = "sources"
      /\ entries' = Pack!Entries /\ genEntries' = Pack!GeneratedEntries
      /\ extEntries' = {f \in Pack!External : Pack!FirstGlob(f) # 0}
      /\ keys' = DOMAIN Pack!Entries /\ packed' = packed /\ disk' = disk
      /\ UNCHANGED <<blobs, sources, generated, external, sum>>
  BY DEF Pack!Crawl, Pack!tables
<1>2. sources' = <<>> /\ generated' = <<>> /\ external' = <<>>
  BY <1>1 DEF PackParts, PackedInv, Crawled
<1>3. PackWalkInv'
  BY <1>1, CrawlPaths DEF PackParts, PackWalkInv
<1>4. CrawlInv'
  BY <1>1, SameCrawl DEF CrawlInv, SourcesLeft, GeneratedLeft, ExternalLeft
<1>5. PackedInv'
  BY <1>1, <1>2 DEF PackedInv, Crawled, SourcesLeft, GeneratedLeft, ExternalLeft
<1>6. CountInv'
  BY <1>1, SameTables DEF PackParts
<1>7. TimesInv' /\ StrictInv'
  BY <1>1, <1>2 DEF PackParts, TimesInv, StrictInv
<1> QED
  BY <1>3, <1>4, <1>5, <1>6, <1>7 DEF PackParts

\* The lists stay those of the crawl while the loops go through them.
LEMMA SameLists ==
    ASSUME CrawlInv, Crawled, UNCHANGED <<packed, entries, genEntries, extEntries>>,
           SourcesLeft' \subseteq SourcesLeft, GeneratedLeft' \subseteq GeneratedLeft,
           ExternalLeft' \subseteq ExternalLeft
    PROVE  CrawlInv'
<1>1. /\ ~Pack!Misplaced /\ entries = Pack!Entries /\ genEntries = Pack!GeneratedEntries
      /\ extEntries = {f \in Pack!External : Pack!FirstGlob(f) # 0}
      /\ SourcesLeft \subseteq DOMAIN entries /\ GeneratedLeft \subseteq genEntries
      /\ ExternalLeft \subseteq extEntries
  BY DEF CrawlInv
<1>2. /\ ~Pack!Misplaced' /\ entries' = Pack!Entries' /\ genEntries' = Pack!GeneratedEntries'
      /\ extEntries' = {f \in Pack!External' : Pack!FirstGlob(f)' # 0}
  BY <1>1, SameCrawl
<1> QED
  BY <1>1, <1>2 DEF CrawlInv

\* ReadFile of a source: what is held is what the file has now.
LEMMA ReadSourceStep ==
    ASSUME PackParts, Pack!ReadSource
    PROVE  PackParts'
<1>1. /\ spc = "sources" /\ keys # {} /\ Pack!Key \in DOMAIN disk
      /\ hold' = disk[Pack!Key] /\ spc' = "check"
      /\ UNCHANGED <<packed, entries, genEntries, extEntries, disk, keys>>
      /\ UNCHANGED <<blobs, sources, generated, external, sum>>
  BY DEF Pack!ReadSource, Pack!tables, Pack!crawl
<1>2. PackWalkInv'
  BY <1>1 DEF PackParts, PackWalkInv
<1>3. SourcesLeft' = SourcesLeft /\ GeneratedLeft' = GeneratedLeft /\ ExternalLeft' = ExternalLeft
  BY <1>1 DEF SourcesLeft, GeneratedLeft, ExternalLeft
<1>4. Crawled /\ Crawled'
  BY <1>1 DEF Crawled
<1>5. CrawlInv'
  BY <1>1, <1>3, <1>4, SameLists DEF PackParts
<1>6. PackedInv'
  BY <1>1, <1>3, <1>4 DEF PackParts, PackedInv
<1>7. CountInv'
  BY <1>1, SameTables DEF PackParts
<1>8. TimesInv'
  <2>1. PICK f : f = Pack!Key
    OBVIOUS
  <2>2. Pack!Key' = f
    BY <1>1, <2>1, KeyStays
  <2>3. /\ f \in DOMAIN disk /\ hold' = disk[f] /\ disk[f].mtime \in 0..Pack!Now
        /\ \A g \in DOMAIN disk : disk[g].mtime \in 0..Pack!Now
    BY <1>1, <2>1 DEF PackParts, TimesInv
  <2>4. Pack!Now \in Nat
    BY DEF Pack!Now
  <2> QED
    BY <1>1, <2>2, <2>3, <2>4 DEF TimesInv
<1>9. StrictInv'
  BY <1>1 DEF PackParts, StrictInv
<1> QED
  BY <1>2, <1>5, <1>6, <1>7, <1>8, <1>9 DEF PackParts

\* A file that is not there, and that no target lists, is passed over.
LEMMA SkipMissingStep ==
    ASSUME PackParts, Pack!SkipMissing
    PROVE  PackParts'
<1>1. PICK f : f = Pack!Key
  OBVIOUS
<1>2. /\ spc = "sources" /\ keys # {} /\ f \notin DOMAIN disk
      /\ ~entries[f].required /\ keys' = keys \ {f} /\ spc' = spc
      /\ UNCHANGED <<packed, entries, genEntries, extEntries, disk>>
      /\ UNCHANGED <<blobs, sources, generated, external, sum>>
  BY <1>1 DEF Pack!SkipMissing, Pack!Missing, Pack!tables, Pack!crawl
<1>3. PackWalkInv'
  BY <1>2 DEF PackParts, PackWalkInv
<1>4. /\ SourcesLeft' = SourcesLeft \ {f} /\ GeneratedLeft' = GeneratedLeft
      /\ ExternalLeft' = ExternalLeft
  BY <1>2 DEF SourcesLeft, GeneratedLeft, ExternalLeft
<1>5. Crawled /\ Crawled'
  BY <1>2 DEF Crawled
<1>6. CrawlInv'
  BY <1>2, <1>4, <1>5, SameLists DEF PackParts
<1>7. PackedInv'
  BY <1>2, <1>4, <1>5 DEF PackParts, PackedInv
<1>8. CountInv'
  BY <1>2, SameTables DEF PackParts
<1>9. TimesInv' /\ StrictInv'
  BY <1>2 DEF PackParts, TimesInv, StrictInv
<1> QED
  BY <1>3, <1>6, <1>7, <1>8, <1>9 DEF PackParts
\* A source is stored, and with --strict it is no newer than its objects.
LEMMA PutStep ==
    ASSUME PackParts, Pack!Put
    PROVE  PackParts'
<1>1. PICK f : f = Pack!Key
  OBVIOUS
<1>2. /\ spc = "check" /\ keys' = keys \ {f} /\ spc' = "sources"
      /\ packed.strict => Pack!StrictOK(f)
      /\ UNCHANGED <<packed, entries, genEntries, extEntries, disk, generated, external>>
  BY <1>1 DEF Pack!Put, Pack!crawl
<1>3. f \in keys
  BY <1>1, <1>2, KeyIsLeft DEF PackParts, PackWalkInv
<1>4. /\ SourcesLeft' = SourcesLeft \ {f} /\ GeneratedLeft' = GeneratedLeft
      /\ ExternalLeft' = ExternalLeft /\ f \in SourcesLeft
  BY <1>2, <1>3 DEF SourcesLeft, GeneratedLeft, ExternalLeft
<1>5. Crawled /\ Crawled'
  BY <1>2 DEF Crawled
<1>6. f \notin DOMAIN sources /\ f \in DOMAIN entries
  BY <1>4, <1>5 DEF PackParts, PackedInv, CrawlInv
<1>7. /\ DOMAIN sources' = DOMAIN sources \cup {f} /\ sources'[f].row = hold
      /\ \A g \in DOMAIN sources : sources'[g] = sources[g]
  <2>1. PICK row : row.row = hold /\ sources' = Pack!Upsert(sources, f, row)
    BY <1>1 DEF Pack!Put
  <2>2. sources' = [g \in DOMAIN sources \cup {f} |-> IF g = f THEN row ELSE sources[g]]
    BY <2>1 DEF Pack!Upsert
  <2> QED
    BY <1>6, <2>1, <2>2
<1>8. PackWalkInv'
  BY <1>2 DEF PackParts, PackWalkInv
<1>9. CrawlInv'
  BY <1>2, <1>4, <1>5, SameLists DEF PackParts
<1>10. PackedInv'
  BY <1>2, <1>4, <1>5, <1>6, <1>7 DEF PackParts, PackedInv
<1>11. CountInv'
  BY <1>1, <1>6, PutCounted DEF PackParts
<1>12. TimesInv'
  BY <1>2 DEF PackParts, TimesInv
<1>13. StrictInv'
  <2>0. \A g \in DOMAIN sources' : sources'[g].row.mtime \in 0..Pack!Now
    BY <1>2, <1>7 DEF PackParts, TimesInv, StrictInv
  <2>1. SUFFICES ASSUME packed.strict, NEW g \in DOMAIN sources',
                        NEW o \in entries[g].consumers \cap DOMAIN disk
                 PROVE  sources'[g].row.mtime <= disk[o].mtime
    BY <1>2, <2>0 DEF StrictInv, Pack!Now
  <2>2. CASE g \in DOMAIN sources
    BY <1>7, <2>1, <2>2 DEF PackParts, StrictInv
  <2>3. CASE g = f
    <3>1. f \in DOMAIN disk /\ disk[f].mtime <= disk[o].mtime
      BY <1>2, <2>1, <2>3 DEF Pack!StrictOK
    <3>2. hold.mtime <= disk[f].mtime
      BY <1>1, <1>2, <3>1 DEF PackParts, TimesInv
    <3>3. hold.mtime \in Nat /\ disk[f].mtime \in Nat /\ disk[o].mtime \in Nat
      BY <1>2, <3>1 DEF PackParts, TimesInv, Pack!Now
    <3> QED
      BY <1>7, <2>3, <3>1, <3>2, <3>3
  <2> QED
    BY <1>7, <2>2, <2>3
<1> QED
  BY <1>8, <1>9, <1>10, <1>11, <1>12, <1>13 DEF PackParts

\* A generated file outside the project is stored.
LEMMA PutGeneratedStep ==
    ASSUME PackParts, Pack!PutGenerated
    PROVE  PackParts'
<1>1. PICK f : f = Pack!Key
  OBVIOUS
<1>2. /\ spc = "generated" /\ keys # {} /\ keys' = keys \ {f} /\ spc' = spc
      /\ UNCHANGED <<packed, entries, genEntries, extEntries, disk, hold, sources, external>>
  BY <1>1 DEF Pack!PutGenerated, Pack!crawl
<1>3. f \in keys
  BY <1>1, <1>2, KeyIsLeft DEF PackParts, PackWalkInv
<1>4. /\ SourcesLeft' = SourcesLeft /\ GeneratedLeft' = GeneratedLeft \ {f}
      /\ ExternalLeft' = ExternalLeft /\ f \in GeneratedLeft
  BY <1>2, <1>3 DEF SourcesLeft, GeneratedLeft, ExternalLeft
<1>5. Crawled /\ Crawled'
  BY <1>2 DEF Crawled
<1>6. f \notin DOMAIN generated /\ f \in genEntries
  BY <1>4, <1>5 DEF PackParts, PackedInv, CrawlInv
<1>7. DOMAIN generated' = DOMAIN generated \cup {f}
  BY <1>1 DEF Pack!PutGenerated, Pack!Upsert
<1>8. PackWalkInv'
  BY <1>2 DEF PackParts, PackWalkInv
<1>9. CrawlInv'
  BY <1>2, <1>4, <1>5, SameLists DEF PackParts
<1>10. PackedInv'
  BY <1>2, <1>4, <1>5, <1>6, <1>7 DEF PackParts, PackedInv
<1>11. CountInv'
  BY <1>1, <1>6, PutGeneratedCounted DEF PackParts
<1>12. TimesInv' /\ StrictInv'
  BY <1>2 DEF PackParts, TimesInv, StrictInv
<1> QED
  BY <1>8, <1>9, <1>10, <1>11, <1>12 DEF PackParts

\* An external header that a glob includes is stored.
LEMMA PutExternalStep ==
    ASSUME PackParts, Pack!PutExternal
    PROVE  PackParts'
<1>1. PICK f : f = Pack!Key
  OBVIOUS
<1>2. /\ spc = "external" /\ keys # {} /\ keys' = keys \ {f} /\ spc' = spc
      /\ UNCHANGED <<packed, entries, genEntries, extEntries, disk, hold, sources, generated>>
  BY <1>1 DEF Pack!PutExternal, Pack!crawl
<1>3. f \in keys
  BY <1>1, <1>2, KeyIsLeft DEF PackParts, PackWalkInv
<1>4. /\ SourcesLeft' = SourcesLeft /\ GeneratedLeft' = GeneratedLeft
      /\ ExternalLeft' = ExternalLeft \ {f} /\ f \in ExternalLeft
  BY <1>2, <1>3 DEF SourcesLeft, GeneratedLeft, ExternalLeft
<1>5. Crawled /\ Crawled'
  BY <1>2 DEF Crawled
<1>6. f \notin DOMAIN external /\ f \in extEntries
  BY <1>4, <1>5 DEF PackParts, PackedInv, CrawlInv
<1>7. DOMAIN external' = DOMAIN external \cup {f}
  BY <1>1 DEF Pack!PutExternal, Pack!Upsert
<1>8. PackWalkInv'
  BY <1>2 DEF PackParts, PackWalkInv
<1>9. CrawlInv'
  BY <1>2, <1>4, <1>5, SameLists DEF PackParts
<1>10. PackedInv'
  BY <1>2, <1>4, <1>5, <1>6, <1>7 DEF PackParts, PackedInv
<1>11. CountInv'
  BY <1>1, <1>6, PutExternalCounted DEF PackParts
<1>12. TimesInv' /\ StrictInv'
  BY <1>2 DEF PackParts, TimesInv, StrictInv
<1> QED
  BY <1>8, <1>9, <1>10, <1>11, <1>12 DEF PackParts

\* A header that has gone is passed over.
LEMMA SkipGoneStep ==
    ASSUME PackParts, Pack!SkipGone
    PROVE  PackParts'
<1>1. PICK f : f = Pack!Key
  OBVIOUS
<1>2. /\ spc \in {"generated", "external"} /\ keys # {} /\ f \notin DOMAIN disk
      /\ keys' = keys \ {f} /\ spc' = spc
      /\ UNCHANGED <<packed, entries, genEntries, extEntries, disk, hold>>
      /\ UNCHANGED <<blobs, sources, generated, external, sum>>
  BY <1>1 DEF Pack!SkipGone, Pack!tables, Pack!crawl
<1>3. PackWalkInv'
  BY <1>2 DEF PackParts, PackWalkInv
<1>4. /\ SourcesLeft' = SourcesLeft
      /\ GeneratedLeft' = IF spc = "generated" THEN GeneratedLeft \ {f} ELSE GeneratedLeft
      /\ ExternalLeft' = IF spc = "external" THEN ExternalLeft \ {f} ELSE ExternalLeft
  BY <1>2 DEF SourcesLeft, GeneratedLeft, ExternalLeft
<1>5. Crawled /\ Crawled'
  BY <1>2 DEF Crawled
<1>6. CrawlInv'
  BY <1>2, <1>4, <1>5, SameLists DEF PackParts
<1>7. PackedInv'
  BY <1>2, <1>4, <1>5 DEF PackParts, PackedInv
<1>8. CountInv'
  BY <1>2, SameTables DEF PackParts
<1>9. TimesInv' /\ StrictInv'
  BY <1>2 DEF PackParts, TimesInv, StrictInv
<1> QED
  BY <1>3, <1>6, <1>7, <1>8, <1>9 DEF PackParts

\* One loop is done and the next begins, or the pass commits.
LEMMA LoopStep ==
    ASSUME PackParts, Pack!NextLoop \/ Pack!Commit
    PROVE  PackParts'
<1>1. /\ keys = {}
      /\ \/ spc = "sources" /\ spc' = "generated" /\ keys' = genEntries
         \/ spc = "generated" /\ spc' = "external" /\ keys' = extEntries
         \/ spc = "external" /\ spc' = "done" /\ keys' = keys
      /\ UNCHANGED <<packed, entries, genEntries, extEntries, disk, hold>>
      /\ UNCHANGED <<blobs, sources, generated, external, sum>>
  BY DEF Pack!NextLoop, Pack!Commit, Pack!tables, Pack!crawl
<1>2. SourcesLeft' = SourcesLeft /\ GeneratedLeft' = GeneratedLeft /\ ExternalLeft' = ExternalLeft
  BY <1>1 DEF SourcesLeft, GeneratedLeft, ExternalLeft
<1>3. Crawled /\ Crawled'
  BY <1>1 DEF Crawled
<1>4. genEntries \subseteq ToSet(Paths) /\ extEntries \subseteq ToSet(Paths)
  BY <1>3, CrawlPaths DEF PackParts, PackWalkInv, CrawlInv
<1>5. PackWalkInv'
  BY <1>1, <1>4 DEF PackParts, PackWalkInv
<1>6. CrawlInv'
  BY <1>1, <1>2, <1>3, SameLists DEF PackParts
<1>7. PackedInv'
  BY <1>1, <1>2, <1>3 DEF PackParts, PackedInv
<1>8. CountInv'
  BY <1>1, SameTables DEF PackParts
<1>9. TimesInv' /\ StrictInv'
  BY <1>1 DEF PackParts, TimesInv, StrictInv
<1> QED
  BY <1>5, <1>6, <1>7, <1>8, <1>9 DEF PackParts
\* The disk loses files, and one that is saved or rebuilt is newer than what was
\* read of it.
LEMMA DiskStep ==
    ASSUME PackParts, NEW f, Pack!Save(f) \/ Pack!Unlink(f)
    PROVE  PackParts'
<1>1. /\ UNCHANGED <<packed, entries, genEntries, extEntries, spc, keys, hold>>
      /\ UNCHANGED <<blobs, sources, generated, external, sum>>
  BY DEF Pack!Save, Pack!Unlink, Pack!tables, Pack!crawl
<1>2. /\ DOMAIN disk' \subseteq DOMAIN disk
      /\ \A g \in DOMAIN disk' :
            disk'[g] = disk[g] \/ disk'[g].mtime = Pack!Now
  <2>1. CASE Pack!Save(f)
    <3>1. /\ f \in DOMAIN disk
          /\ disk' = [disk EXCEPT ![f] = [content |-> "edited", mtime |-> Pack!Now]]
      BY <2>1 DEF Pack!Save
    <3>2. DOMAIN disk' = DOMAIN disk
      BY <3>1
    <3>3. disk'[f].mtime = Pack!Now
      BY <3>1
    <3>4. \A g \in DOMAIN disk \ {f} : disk'[g] = disk[g]
      BY <3>1
    <3> QED
      BY <3>1, <3>2, <3>3, <3>4
  <2>2. CASE Pack!Unlink(f)
    BY <2>2 DEF Pack!Unlink
  <2> QED
    BY <2>1, <2>2
<1>3. SourcesLeft' = SourcesLeft /\ GeneratedLeft' = GeneratedLeft /\ ExternalLeft' = ExternalLeft
  BY <1>1 DEF SourcesLeft, GeneratedLeft, ExternalLeft
<1>4. Crawled' <=> Crawled
  BY <1>1 DEF Crawled
<1>5. PackWalkInv'
  BY <1>1 DEF PackParts, PackWalkInv
<1>6. CrawlInv'
  <2>1. CASE Crawled
    BY <1>1, <1>3, <2>1, SameLists DEF PackParts
  <2>2. CASE ~Crawled
    BY <1>4, <2>2 DEF CrawlInv
  <2> QED
    BY <2>1, <2>2
<1>7. PackedInv'
  BY <1>1, <1>2, <1>3, <1>4 DEF PackParts, PackedInv
<1>8. CountInv'
  BY <1>1, SameTables DEF PackParts
<1>9. TimesInv'
  <2>1. Pack!Now = 9
    BY DEF Pack!Now
  <2>2. \A g \in DOMAIN disk' : disk'[g].mtime \in 0..Pack!Now
    BY <1>2, <2>1 DEF PackParts, TimesInv
  <2>3. ASSUME spc = "check"
        PROVE  /\ hold.mtime \in 0..Pack!Now
               /\ \A g : g = Pack!Key' /\ g \in DOMAIN disk' => hold.mtime <= disk'[g].mtime
    <3>1. hold.mtime \in 0..9 /\ Pack!Key' = Pack!Key
      BY <1>1, <2>1, <2>3, KeyStays DEF PackParts, TimesInv
    <3>2. SUFFICES ASSUME NEW g, g = Pack!Key, g \in DOMAIN disk'
                   PROVE  hold.mtime <= disk'[g].mtime
      BY <2>1, <3>1
    <3>3. hold.mtime <= disk[g].mtime
      BY <1>2, <2>3, <3>2 DEF PackParts, TimesInv
    <3> QED
      BY <1>2, <2>1, <3>1, <3>2, <3>3
  <2> QED
    BY <1>1, <2>2, <2>3 DEF TimesInv, Pack!Now
<1>10. StrictInv'
  <2>1. SUFFICES ASSUME packed.strict, NEW g \in DOMAIN sources,
                        NEW o \in entries[g].consumers \cap DOMAIN disk'
                 PROVE  sources[g].row.mtime <= disk'[o].mtime
    BY <1>1 DEF PackParts, StrictInv
  <2>2. o \in DOMAIN disk /\ sources[g].row.mtime <= disk[o].mtime
    BY <1>2, <2>1 DEF PackParts, StrictInv
  <2>3. Pack!Now = 9 /\ sources[g].row.mtime \in 0..Pack!Now
    BY DEF PackParts, StrictInv, Pack!Now
  <2> QED
    BY <1>2, <2>2, <2>3
<1> QED
  BY <1>5, <1>6, <1>7, <1>8, <1>9, <1>10 DEF PackParts

\* The invariant holds while nothing changes.
LEMMA PackStill ==
    ASSUME PackParts, UNCHANGED pack
    PROVE  PackParts'
<1>1. /\ UNCHANGED <<packed, entries, genEntries, extEntries, disk, spc, keys, hold>>
      /\ UNCHANGED <<blobs, sources, generated, external, sum>>
  BY DEF pack
<1>2. SourcesLeft' = SourcesLeft /\ GeneratedLeft' = GeneratedLeft /\ ExternalLeft' = ExternalLeft
  BY <1>1 DEF SourcesLeft, GeneratedLeft, ExternalLeft
<1>3. Crawled' <=> Crawled
  BY <1>1 DEF Crawled
<1>4. PackWalkInv' /\ PackedInv' /\ StrictInv'
  BY <1>1, <1>2, <1>3 DEF PackParts, PackWalkInv, PackedInv, StrictInv
<1>5. CrawlInv'
  <2>1. CASE Crawled
    BY <1>1, <1>2, <2>1, SameLists DEF PackParts
  <2>2. CASE ~Crawled
    BY <1>3, <2>2 DEF CrawlInv
  <2> QED
    BY <2>1, <2>2
<1>6. CountInv'
  BY <1>1, SameTables DEF PackParts
<1>7. TimesInv'
  BY <1>1, KeyStays DEF PackParts, TimesInv, Pack!Now
<1> QED
  BY <1>4, <1>5, <1>6, <1>7 DEF PackParts

\* Every step of the source pass keeps its invariant.
LEMMA PackSteps ==
    ASSUME PackParts, Pack!Next
    PROVE  PackParts'
<1>1. CASE Pack!Crawl
  BY <1>1, CrawlStep
<1>2. CASE \/ Pack!RefuseMisplaced \/ Pack!RefuseLog \/ Pack!RefuseMissing
           \/ Pack!RefuseUnreadable \/ Pack!RefuseStrict \/ Pack!RefuseZeroMatch
  <2>1. PICK why \in {"misplaced", "log", "missing", "unreadable", "strict", "globs"} :
            Pack!Fail(why)
    BY <1>2 DEF Pack!RefuseMisplaced, Pack!RefuseLog, Pack!RefuseMissing,
                Pack!RefuseUnreadable, Pack!RefuseStrict, Pack!RefuseZeroMatch
  <2> QED
    BY <2>1, FailStep
<1>3. CASE Pack!ReadSource
  BY <1>3, ReadSourceStep
<1>4. CASE Pack!SkipMissing
  BY <1>4, SkipMissingStep
<1>5. CASE Pack!Put
  BY <1>5, PutStep
<1>6. CASE Pack!PutGenerated
  BY <1>6, PutGeneratedStep
<1>7. CASE Pack!PutExternal
  BY <1>7, PutExternalStep
<1>8. CASE Pack!SkipGone
  BY <1>8, SkipGoneStep
<1>9. CASE Pack!NextLoop \/ Pack!Commit
  BY <1>9, LoopStep
<1>10. CASE \E f \in ToSet(Paths) : Pack!Save(f) \/ Pack!Unlink(f)
  BY <1>10, DiskStep
<1>11. CASE Pack!Stopped
  BY <1>11, PackStill DEF Pack!Stopped, Pack!vars, Pack!crawl, Pack!tables, pack
<1>12. \A q : Pack!ToSet(q) = ToSet(q)
  BY DEF Pack!ToSet, ToSet
<1> QED
  BY <1>1, <1>2, <1>3, <1>4, <1>5, <1>6, <1>7, <1>8, <1>9, <1>10, <1>11, <1>12 DEF Pack!Next

\* The invariant holds before the source pass.
LEMMA PackInitially == PassInit => PackIInv
<1> SUFFICES ASSUME PassInit, pass = "sources" PROVE PackParts
  BY DEF PackIInv
<1>1. Pack!Init
  BY DEF PassInit
<1>2. /\ packed \in Packs /\ disk = packed.disk /\ spc = "crawl" /\ keys = {}
      /\ blobs = {} /\ sources = <<>> /\ generated = <<>> /\ external = <<>>
      /\ sum = Pack!NoRows
  BY <1>1 DEF Pack!Init
<1>3. PackWalkInv
  BY <1>2 DEF PackWalkInv
<1>4. CrawlInv /\ PackedInv
  BY <1>2 DEF CrawlInv, PackedInv, Crawled
<1>5. CountInv
  BY <1>2, EmptyCounted
<1>6. TimesInv
  BY <1>2, PackAssumption DEF TimesInv
<1>7. StrictInv
  BY <1>2 DEF StrictInv
<1> QED
  BY <1>3, <1>4, <1>5, <1>6, <1>7 DEF PackParts

\* Every step of collect keeps the invariant of the source pass.
LEMMA PackStep ==
    ASSUME PackIInv, [PassNext]_passVars
    PROVE  PackIInv'
<1>1. pass' = pass
  BY DEF PassNext, passVars, IngestCompiler, IngestDwarf, IngestLink, IngestSources
<1> SUFFICES ASSUME pass = "sources" PROVE PackParts'
  BY <1>1 DEF PackIInv
<1>2. PackParts
  BY DEF PackIInv
<1>3. CASE IngestSources
  BY <1>2, <1>3, PackSteps DEF IngestSources
<1>4. CASE UNCHANGED passVars
  BY <1>2, <1>4, PackStill DEF passVars
<1> QED
  BY <1>3, <1>4 DEF PassNext, IngestCompiler, IngestDwarf, IngestLink

\* For every build, with files saved and removed at any moment, a blob is stored
\* exactly if a row refers to it, and the summary adds up (sources.go, blobstore.go).
THEOREM StoreAlwaysAddsUp == PassSpec => []StoreAddsUp
<1>1. \A S : Pack!Cardinality(S) = Cardinality(S)
  BY DEF Pack!Cardinality, Cardinality
<1>2. PackIInv => StoreAddsUp
  BY <1>1 DEF PackIInv, PackParts, CountInv, StoreAddsUp, Pack!StoreAddsUp
<1> QED
  BY <1>2, PackInitially, PackStep, PTL DEF PassSpec

\* For every build, an index has every source Meson lists, and every header the log
\* names that is there is in the table of the place it lies in (sources.go Sources).
THEOREM NothingEverSkipped == PassSpec => []NothingSkipped
<1>1. PackIInv => NothingSkipped
  <2> SUFFICES ASSUME PackParts, spc = "done"
               PROVE  /\ Pack!Required \subseteq DOMAIN sources
                      /\ \A f \in Pack!Deps \cap DOMAIN disk :
                          /\ Pack!InProject(f) <=> f \in DOMAIN sources
                          /\ ~Pack!InProject(f) /\ Pack!UnderBuildDir(f) <=> f \in DOMAIN generated
                          /\ f \in Pack!External /\ Pack!FirstGlob(f) # 0 <=> f \in DOMAIN external
    BY DEF PackIInv, NothingSkipped, Pack!NothingSkipped
  <2>1. /\ Crawled /\ SourcesLeft = {} /\ GeneratedLeft = {} /\ ExternalLeft = {}
    BY DEF Crawled, SourcesLeft, GeneratedLeft, ExternalLeft
  <2>2. /\ packed \in Packs /\ ~Pack!Misplaced /\ entries = Pack!Entries
        /\ genEntries = Pack!GeneratedEntries
        /\ extEntries = {f \in Pack!External : Pack!FirstGlob(f) # 0}
    BY <2>1 DEF PackParts, PackWalkInv, CrawlInv
  <2>3. /\ DOMAIN sources \subseteq DOMAIN entries /\ DOMAIN generated \subseteq genEntries
        /\ DOMAIN external \subseteq extEntries
        /\ \A f \in DOMAIN entries :
               f \in DOMAIN sources \/ (f \notin DOMAIN disk /\ ~entries[f].required)
        /\ \A f \in genEntries : f \in DOMAIN generated \/ f \notin DOMAIN disk
        /\ \A f \in extEntries : f \in DOMAIN external \/ f \notin DOMAIN disk
    BY <2>1 DEF PackParts, PackedInv
  <2>4. /\ DOMAIN entries = Pack!Required \cup {d \in Pack!Deps : Pack!InProject(d)}
        /\ \A f \in DOMAIN entries : entries[f].required <=> f \in Pack!Required
    BY <2>2, CrawlPaths
  <2>5. \A f \in Pack!Required : Pack!InProject(f)
    BY <2>2 DEF Pack!Required, Pack!Misplaced
  <2>6. \A f \in Pack!GeneratedEntries : ~Pack!InProject(f) /\ Pack!UnderBuildDir(f)
    BY <2>2 DEF Pack!GeneratedEntries, Pack!Misplaced
  <2>7. Pack!Required \subseteq DOMAIN sources
    BY <2>3, <2>4
  <2>8. ASSUME NEW f \in Pack!Deps \cap DOMAIN disk
        PROVE  /\ Pack!InProject(f) <=> f \in DOMAIN sources
               /\ ~Pack!InProject(f) /\ Pack!UnderBuildDir(f) <=> f \in DOMAIN generated
               /\ f \in Pack!External /\ Pack!FirstGlob(f) # 0 <=> f \in DOMAIN external
    <3>1. Pack!InProject(f) <=> f \in DOMAIN sources
      BY <2>3, <2>4, <2>5
    <3>2. ~Pack!InProject(f) /\ Pack!UnderBuildDir(f) <=> f \in DOMAIN generated
      BY <2>2, <2>3, <2>6 DEF Pack!GeneratedEntries
    <3>3. f \in Pack!External /\ Pack!FirstGlob(f) # 0 <=> f \in DOMAIN external
      BY <2>2, <2>3
    <3> QED
      BY <3>1, <3>2, <3>3
  <2> QED
    BY <2>7, <2>8
<1> QED
  BY <1>1, PackInitially, PackStep, PTL DEF PassSpec

\* For every build, with --strict the bytes packed are no newer than any object built
\* from them, although sources are saved and objects rebuilt during the pass (sources.go
\* checkStrictMtime).
THEOREM StrictAlwaysHolds == PassSpec => []StrictHoldsForTheBytes
<1>1. PackIInv => StrictHoldsForTheBytes
  BY DEF PackIInv, PackParts, StrictInv, StrictHoldsForTheBytes, Pack!StrictHoldsForTheBytes
<1> QED
  BY <1>1, PackInitially, PackStep, PTL DEF PassSpec

-----------------------------------------------------------------------------
(* The compiler pass: ingest.go Compiler.                                  *)

NodeIds(k) == DOMAIN tus[k].nodes
OwnUSR(k, id) == Compiler!USR(tus[k], tus[k].nodes[id])

\* The node is still to be visited by aggregateSymbols.
Waiting(k, id) == cpc = "aggregate" /\ (k > cat \/ (k = cat /\ id \in left))

UnitWalkInv ==
    /\ tus \in Units /\ cat \in Nat \ {0}
    /\ cpc \in {"aggregate", "edges", "icf", "done", "failed"}
    /\ cpc = "aggregate" => left \subseteq Compiler!NodesOf(cat)
    /\ cpc = "failed" => symbols = <<>>

\* A node that was visited and is no clone has its own USR, and so has a clone that
\* one of its clones made a symbol of before its turn came.
ResolvesInv ==
    /\ DOMAIN resolves = DOMAIN tus
    /\ \A k \in DOMAIN tus :
          /\ DOMAIN resolves[k] \subseteq NodeIds(k)
          /\ \A id \in NodeIds(k) :
                ~Compiler!IsClone(k, id) /\ ~Waiting(k, id) => id \in DOMAIN resolves[k]
          /\ \A id \in DOMAIN resolves[k] :
                ~Compiler!IsClone(k, id) \/ Waiting(k, id) => resolves[k][id] = OwnUSR(k, id)

\* Every USR the units resolve to has a record until the prune, and after it those
\* that the later loops will look up still do; nothing else is without a reason.
KeptInv ==
    /\ cpc = "aggregate" =>
          \A k \in DOMAIN tus : \A id \in DOMAIN resolves[k] : resolves[k][id] \in DOMAIN symbols
    /\ cpc \in {"edges", "icf", "done"} =>
          /\ Compiler!ReferencedUSRs \subseteq DOMAIN symbols
          /\ \A u \in DOMAIN symbols :
                \/ symbols[u].defs # {} \/ symbols[u].addr \/ symbols[u].linkage # "internal"
                \/ u \in Compiler!ReferencedUSRs

\* The plain nodes observed so far under u.
Seen(u) ==
    UNION {{Compiler!RecordFor(tus[k], tus[k].nodes[id]) :
               id \in {i \in DOMAIN resolves[k] : ~Compiler!IsClone(k, i) /\ OwnUSR(k, i) = u}} :
           k \in DOMAIN tus}

\* Record rec is the merge of the observations S and of clones, of which some had
\* its address taken if taken.
IsMergeOf(rec, S, taken) ==
    /\ \A o \in S : Compiler!Rank[rec.linkage] >= Compiler!Rank[o.linkage]
    /\ \E o \in S : rec.linkage = o.linkage
    /\ rec.addr <=> taken \/ \E o \in S : o.addr
    /\ {Compiler!Key(d) : d \in rec.defs} = UNION {{Compiler!Key(d) : d \in o.defs} : o \in S}

MergedInv ==
    \A u \in DOMAIN symbols : ~Compiler!CloneNamed(u) => \A rec : rec = symbols[u] =>
        IsMergeOf(rec, Seen(u), Compiler!CloneTakesAddress(u))

\* Call p of unit k, which of its ends resolve, and the edge it makes.
CallOf(k, p) == tus[k].nodes[p[1]].calls[p[2]]
Joins(k, p) == Compiler!Resolved(k, p[1]) /\ Compiler!Resolved(k, CallOf(k, p).target)
EdgeOf(k, p) == <<resolves[k][p[1]], resolves[k][CallOf(k, p).target]>>

\* Unit k has had its edges inserted.
Inserted(k) == cpc \in {"icf", "done"} \/ (cpc = "edges" /\ k < cat)

CallsInv ==
    /\ \A k \in DOMAIN tus : Inserted(k) =>
          \A p \in Compiler!CallPairs(k) : Joins(k, p) => EdgeOf(k, p) \in calls
    /\ \A e \in calls : \E k \in DOMAIN tus : \E p \in Compiler!CallPairs(k) :
          Inserted(k) /\ Joins(k, p) /\ e = EdgeOf(k, p)
    /\ DOMAIN inlineOf = calls
    /\ \A e \in calls : inlineOf[e] <=>
          \E k \in DOMAIN tus : \E p \in Compiler!CallPairs(k) :
              Inserted(k) /\ Joins(k, p) /\ CallOf(k, p).inlined /\ e = EdgeOf(k, p)

RecordsInv ==
    cpc \in {"icf", "done"} => \A k \in DOMAIN tus : \A r \in tus[k].records :
        Compiler!Resolved(k, r.caller) /\ Compiler!Resolved(k, r.callee) =>
            <<k, resolves[k][r.caller], resolves[k][r.callee]>> \in records

MembersOf(h) == {h.winner} \cup {h.losers[l] : l \in DOMAIN h.losers}

GroupsInv ==
    cpc = "done" => \A k \in DOMAIN tus : \A g \in tus[k].groups :
        Compiler!GroupUSRs(k, g) # {} =>
            \E h \in groups : h.unit = k /\ Compiler!GroupUSRs(k, g) = MembersOf(h)

CompilerParts ==
    /\ UnitWalkInv /\ ResolvesInv /\ KeptInv /\ MergedInv /\ CallsInv /\ RecordsInv /\ GroupsInv

CompilerIInv == pass = "compiler" => CompilerParts

-----------------------------------------------------------------------------
\* Units are listed, and what there is to visit is a unit's.
LEMMA UnitsAre ==
    ASSUME tus \in Units
    PROVE  /\ Len(tus) \in Nat /\ DOMAIN tus = 1..Len(tus)
           /\ \A k \in DOMAIN tus : Compiler!NodesOf(k) = NodeIds(k)
           /\ \A k \in DOMAIN tus : NodeIds(k) \subseteq ToSet(Ids)
BY UnitAssumption DEF Compiler!NodesOf, NodeIds

\* strongerLinkage takes one of the two, and the stronger.
LEMMA StrongerIs ==
    ASSUME NEW a \in Compiler!Linkages, NEW b \in Compiler!Linkages
    PROVE  /\ Compiler!StrongerLinkage(a, b) \in {a, b}
           /\ Compiler!Rank[Compiler!StrongerLinkage(a, b)] >= Compiler!Rank[a]
           /\ Compiler!Rank[Compiler!StrongerLinkage(a, b)] >= Compiler!Rank[b]
           /\ Compiler!Rank[a] \in Nat
BY DEF Compiler!Linkages, Compiler!StrongerLinkage, Compiler!Rank

\* An observation's linkage is one of three.
LEMMA ObservedLinkage ==
    ASSUME NEW tu, NEW node
    PROVE  Compiler!RecordFor(tu, node).linkage \in Compiler!Linkages
BY DEF Compiler!RecordFor, Compiler!Linkage, Compiler!Linkages

\* mergeSymbol adds one observation to a merge.
LEMMA FoldMerges ==
    ASSUME NEW rec, NEW S, NEW taken, NEW o, IsMergeOf(rec, S, taken),
           o.linkage \in Compiler!Linkages, \A s \in S : s.linkage \in Compiler!Linkages
    PROVE  IsMergeOf(Compiler!Fold(rec, o), S \cup {o}, taken)
<1> DEFINE f == Compiler!Fold(rec, o)
<1>1. /\ f.linkage = Compiler!StrongerLinkage(rec.linkage, o.linkage)
      /\ f.addr = (rec.addr \/ o.addr)
      /\ f.defs = rec.defs \cup {d \in o.defs : ~Compiler!HasDef(rec.defs, d)}
  BY DEF Compiler!Fold
<1>2. /\ rec.linkage \in Compiler!Linkages /\ \E s \in S : rec.linkage = s.linkage
      /\ \A s \in S : Compiler!Rank[rec.linkage] >= Compiler!Rank[s.linkage]
  BY DEF IsMergeOf
<1> HIDE DEF f
<1>3. /\ \A s \in S \cup {o} : Compiler!Rank[f.linkage] >= Compiler!Rank[s.linkage]
      /\ \E s \in S \cup {o} : f.linkage = s.linkage
  <2>1. /\ f.linkage \in {rec.linkage, o.linkage} /\ f.linkage \in Compiler!Linkages
        /\ Compiler!Rank[f.linkage] >= Compiler!Rank[rec.linkage]
        /\ Compiler!Rank[f.linkage] >= Compiler!Rank[o.linkage]
    BY <1>1, <1>2, StrongerIs
  <2>2. \A s \in S : Compiler!Rank[s.linkage] \in Nat
    BY StrongerIs
  <2>3. Compiler!Rank[f.linkage] \in Nat /\ Compiler!Rank[rec.linkage] \in Nat
    BY <1>2, <2>1, StrongerIs
  <2> QED
    BY <1>2, <2>1, <2>2, <2>3
<1>4. f.addr <=> taken \/ \E s \in S \cup {o} : s.addr
  BY <1>1 DEF IsMergeOf
<1>5. {Compiler!Key(d) : d \in f.defs} = UNION {{Compiler!Key(d) : d \in s.defs} : s \in S \cup {o}}
  <2>1. {Compiler!Key(d) : d \in rec.defs} = UNION {{Compiler!Key(d) : d \in s.defs} : s \in S}
    BY DEF IsMergeOf
  <2>2. \A d : Compiler!HasDef(rec.defs, d) => Compiler!Key(d) \in {Compiler!Key(e) : e \in rec.defs}
    BY DEF Compiler!HasDef, Compiler!Key
  <2>3. {Compiler!Key(d) : d \in f.defs} =
            {Compiler!Key(d) : d \in rec.defs} \cup {Compiler!Key(d) : d \in o.defs}
    BY <1>1, <2>2
  <2> QED
    BY <2>1, <2>3
<1> QED
  BY <1>3, <1>4, <1>5 DEF IsMergeOf, f

\* The first observation of a USR is a merge of itself.
LEMMA FirstMerges ==
    ASSUME NEW o, o.linkage \in Compiler!Linkages
    PROVE  IsMergeOf(o, {o}, FALSE)
<1>1. Compiler!Rank[o.linkage] \in Nat
  BY StrongerIs
<1> QED
  BY <1>1 DEF IsMergeOf

\* A clone adds to a record that its address is taken.
LEMMA CloneMerges ==
    ASSUME NEW rec, NEW S, NEW taken, NEW node, IsMergeOf(rec, S, taken)
    PROVE  IsMergeOf(Compiler!Attributed(rec, node), S, taken \/ node.addr)
<1> DEFINE f == Compiler!Attributed(rec, node)
<1>1. f.linkage = rec.linkage /\ f.addr = (rec.addr \/ node.addr) /\ f.defs = rec.defs
  BY DEF Compiler!Attributed
<1> HIDE DEF f
<1>2. f.addr <=> (taken \/ node.addr) \/ \E o \in S : o.addr
  BY <1>1 DEF IsMergeOf
<1> QED
  BY <1>1, <1>2 DEF IsMergeOf, f

-----------------------------------------------------------------------------
(* aggregateSymbols.                                                       *)

\* What the units say does not change.
LEMMA SameUnits ==
    ASSUME tus' = tus
    PROVE  /\ \A k : NodeIds(k)' = NodeIds(k) /\ Compiler!NodesOf(k)' = Compiler!NodesOf(k)
           /\ \A k, id : /\ Compiler!IsClone(k, id)' <=> Compiler!IsClone(k, id)
                         /\ OwnUSR(k, id)' = OwnUSR(k, id)
           /\ \A u : Compiler!CloneNamed(u)' <=> Compiler!CloneNamed(u)
<1>1. \A k : NodeIds(k)' = NodeIds(k) /\ Compiler!NodesOf(k)' = Compiler!NodesOf(k)
  BY DEF NodeIds, Compiler!NodesOf
<1>2. \A k, id : /\ Compiler!IsClone(k, id)' <=> Compiler!IsClone(k, id)
                 /\ OwnUSR(k, id)' = OwnUSR(k, id)
  BY DEF Compiler!IsClone, OwnUSR
<1>3. \A u : Compiler!CloneNamed(u)' <=> Compiler!CloneNamed(u)
  BY <1>2 DEF Compiler!CloneNamed
<1> QED
  BY <1>1, <1>2, <1>3

\* An observation of u, and a clone that had u's address taken.
LEMMA SeenIs ==
    /\ \A u, o : o \in Seen(u) <=>
          \E k \in DOMAIN tus : \E i \in DOMAIN resolves[k] :
              /\ ~Compiler!IsClone(k, i) /\ OwnUSR(k, i) = u
              /\ o = Compiler!RecordFor(tus[k], tus[k].nodes[i])
    /\ \A u : Compiler!CloneTakesAddress(u) <=>
          \E k \in DOMAIN tus : \E i \in NodeIds(k) :
              /\ Compiler!IsClone(k, i) /\ tus[k].nodes[i].addr
              /\ i \in DOMAIN resolves[k] /\ resolves[k][i] = u
<1>1. \A u, o : o \in Seen(u) <=>
          \E k \in DOMAIN tus : \E i \in DOMAIN resolves[k] :
              /\ ~Compiler!IsClone(k, i) /\ OwnUSR(k, i) = u
              /\ o = Compiler!RecordFor(tus[k], tus[k].nodes[i])
  BY DEF Seen
<1>2. \A u : Compiler!CloneTakesAddress(u) <=>
          \E k \in DOMAIN tus : \E i \in NodeIds(k) :
              /\ Compiler!IsClone(k, i) /\ tus[k].nodes[i].addr
              /\ i \in DOMAIN resolves[k] /\ resolves[k][i] = u
  BY DEF Compiler!CloneTakesAddress, Compiler!IsClone, Compiler!Resolved, NodeIds
<1> QED
  BY <1>1, <1>2

\* The same of the next state.
LEMMA SeenNext ==
    /\ \A u, o : o \in Seen(u)' <=>
          \E k \in DOMAIN tus' : \E i \in DOMAIN resolves'[k] :
              /\ ~Compiler!IsClone(k, i)' /\ OwnUSR(k, i)' = u
              /\ o = Compiler!RecordFor(tus'[k], tus'[k].nodes[i])
    /\ \A u : Compiler!CloneTakesAddress(u)' <=>
          \E k \in DOMAIN tus' : \E i \in NodeIds(k)' :
              /\ Compiler!IsClone(k, i)' /\ tus'[k].nodes[i].addr
              /\ i \in DOMAIN resolves'[k] /\ resolves'[k][i] = u
<1>1. \A u, o : o \in Seen(u)' <=>
          \E k \in DOMAIN tus' : \E i \in DOMAIN resolves'[k] :
              /\ ~Compiler!IsClone(k, i)' /\ OwnUSR(k, i)' = u
              /\ o = Compiler!RecordFor(tus'[k], tus'[k].nodes[i])
  BY DEF Seen
<1>2. \A u : Compiler!CloneTakesAddress(u)' <=>
          \E k \in DOMAIN tus' : \E i \in NodeIds(k)' :
              /\ Compiler!IsClone(k, i)' /\ tus'[k].nodes[i].addr
              /\ i \in DOMAIN resolves'[k] /\ resolves'[k][i] = u
  BY DEF Compiler!CloneTakesAddress, Compiler!IsClone, Compiler!Resolved, NodeIds
<1> QED
  BY <1>1, <1>2

\* Before the prune a USR without a record was never met.
LEMMA NoRecord ==
    ASSUME CompilerParts, cpc = "aggregate", NEW u, u \notin DOMAIN symbols
    PROVE  Seen(u) = {} /\ ~Compiler!CloneTakesAddress(u)
<1>1. \A k \in DOMAIN tus : \A i \in DOMAIN resolves[k] : resolves[k][i] # u
  BY DEF CompilerParts, KeptInv
<1>2. \A k \in DOMAIN tus : \A i \in DOMAIN resolves[k] :
         ~Compiler!IsClone(k, i) => resolves[k][i] = OwnUSR(k, i)
  BY DEF CompilerParts, ResolvesInv
<1> QED
  BY <1>1, <1>2, SeenIs

\* Until the prune nothing but symbols is written.
LEMMA OnlySymbols ==
    ASSUME CompilerParts, cpc = "aggregate", cpc' = "aggregate",
           UNCHANGED <<calls, inlineOf>>
    PROVE  CallsInv' /\ RecordsInv' /\ GroupsInv'
<1>1. calls = {} /\ DOMAIN inlineOf = {}
  BY DEF CompilerParts, CallsInv, Inserted
<1>2. \A k : ~Inserted(k)'
  BY DEF Inserted
<1> QED
  BY <1>1, <1>2 DEF CallsInv, RecordsInv, GroupsInv

\* A node is observed under its own USR.
LEMMA Observing ==
    ASSUME CompilerParts, cpc = "aggregate", cat \in DOMAIN tus,
           NEW id \in NodeIds(cat), Compiler!Observe(id),
           ~Compiler!IsClone(cat, id) \/ id \notin DOMAIN resolves[cat],
           left' = left \/ (left' = left \ {id} /\ ~Compiler!IsClone(cat, id)),
           UNCHANGED <<tus, cpc, cat, calls, inlineOf>>
    PROVE  CompilerParts'
<1> DEFINE usr == OwnUSR(cat, id)
           obs == Compiler!RecordFor(tus[cat], tus[cat].nodes[id])
<1>1. /\ symbols' = Compiler!MergeSymbol(symbols, usr, obs)
      /\ resolves' = [resolves EXCEPT ![cat] = Compiler!With(resolves[cat], id, usr)]
  BY DEF Compiler!Observe, OwnUSR
<1>2. obs.linkage \in Compiler!Linkages
  BY ObservedLinkage
<1>3. /\ \A k : NodeIds(k)' = NodeIds(k) /\ Compiler!NodesOf(k)' = Compiler!NodesOf(k)
      /\ \A k, i : /\ Compiler!IsClone(k, i)' <=> Compiler!IsClone(k, i)
                   /\ OwnUSR(k, i)' = OwnUSR(k, i)
      /\ \A u : Compiler!CloneNamed(u)' <=> Compiler!CloneNamed(u)
  BY SameUnits
<1>4. Compiler!IsClone(cat, id) => Compiler!CloneNamed(usr)
  BY DEF Compiler!CloneNamed, OwnUSR, NodeIds
<1> HIDE DEF usr, obs
<1>5. /\ DOMAIN symbols' = DOMAIN symbols \cup {usr}
      /\ \A u \in DOMAIN symbols : u # usr => symbols'[u] = symbols[u]
      /\ symbols'[usr] = IF usr \in DOMAIN symbols THEN Compiler!Fold(symbols[usr], obs) ELSE obs
  BY <1>1 DEF Compiler!MergeSymbol, Compiler!With
<1>6. /\ DOMAIN resolves = DOMAIN tus /\ DOMAIN resolves' = DOMAIN resolves
      /\ \A k \in DOMAIN tus : k # cat => resolves'[k] = resolves[k]
      /\ DOMAIN resolves'[cat] = DOMAIN resolves[cat] \cup {id}
      /\ \A i \in DOMAIN resolves[cat] : i # id => resolves'[cat][i] = resolves[cat][i]
      /\ resolves'[cat][id] = usr
  BY <1>1 DEF CompilerParts, ResolvesInv, Compiler!With
<1>7. \A k, i : Waiting(k, i)' => Waiting(k, i)
  BY DEF Waiting
<1>8. UnitWalkInv'
  BY <1>3 DEF CompilerParts, UnitWalkInv
<1>9. ResolvesInv'
  <2> SUFFICES ASSUME NEW k \in DOMAIN tus
               PROVE  /\ DOMAIN resolves'[k] \subseteq NodeIds(k)
                      /\ \A i \in NodeIds(k) :
                            ~Compiler!IsClone(k, i) /\ ~Waiting(k, i)' => i \in DOMAIN resolves'[k]
                      /\ \A i \in DOMAIN resolves'[k] :
                            ~Compiler!IsClone(k, i) \/ Waiting(k, i)' => resolves'[k][i] = OwnUSR(k, i)
    BY <1>3, <1>6 DEF ResolvesInv
  <2>1. /\ DOMAIN resolves[k] \subseteq NodeIds(k)
        /\ \A i \in NodeIds(k) :
              ~Compiler!IsClone(k, i) /\ ~Waiting(k, i) => i \in DOMAIN resolves[k]
        /\ \A i \in DOMAIN resolves[k] :
              ~Compiler!IsClone(k, i) \/ Waiting(k, i) => resolves[k][i] = OwnUSR(k, i)
    BY DEF CompilerParts, ResolvesInv
  <2>2. \A i : ~Waiting(k, i)' => ~Waiting(k, i) \/ (k = cat /\ i = id)
    BY DEF Waiting
  <2>3. CASE k = cat
    BY <1>6, <1>7, <2>1, <2>2, <2>3 DEF usr
  <2>4. CASE k # cat
    BY <1>6, <1>7, <2>1, <2>2, <2>4
  <2> QED
    BY <2>3, <2>4
<1>10. KeptInv'
  <2>1. \A k \in DOMAIN tus : \A i \in DOMAIN resolves[k] : resolves[k][i] \in DOMAIN symbols
    BY DEF CompilerParts, KeptInv
  <2>2. \A k \in DOMAIN tus : \A i \in DOMAIN resolves'[k] : resolves'[k][i] \in DOMAIN symbols'
    BY <1>5, <1>6, <2>1
  <2> QED
    BY <2>2 DEF KeptInv
<1>11. MergedInv'
  <2> SUFFICES ASSUME NEW u \in DOMAIN symbols', ~Compiler!CloneNamed(u)
               PROVE  IsMergeOf(symbols'[u], Seen(u)', Compiler!CloneTakesAddress(u)')
    BY <1>3 DEF MergedInv
  <2>1. Compiler!CloneTakesAddress(u)' <=> Compiler!CloneTakesAddress(u)
    <3>1. ASSUME NEW k \in DOMAIN tus, NEW i \in NodeIds(k), Compiler!IsClone(k, i)
          PROVE  i \in DOMAIN resolves'[k] /\ resolves'[k][i] = u
                    <=> i \in DOMAIN resolves[k] /\ resolves[k][i] = u
      <4>1. k = cat /\ i = id => u # usr /\ id \notin DOMAIN resolves[cat]
        BY <1>4, <3>1
      <4> QED
        BY <1>6, <4>1
    <3> QED
      BY <1>3, <3>1, SeenIs, SeenNext
  <2>2. CASE u # usr
    <3>1. Seen(u)' = Seen(u)
      <4>1. \A k \in DOMAIN tus : \A i :
               OwnUSR(k, i) = u => (i \in DOMAIN resolves'[k] <=> i \in DOMAIN resolves[k])
        BY <1>6, <2>2 DEF usr
      <4>2. \A o : o \in Seen(u)' <=> o \in Seen(u)
        BY <1>3, <4>1, SeenIs, SeenNext
      <4> QED
        BY <4>2
    <3>2. symbols'[u] = symbols[u] /\ u \in DOMAIN symbols
      BY <1>5, <2>2
    <3>3. IsMergeOf(symbols[u], Seen(u), Compiler!CloneTakesAddress(u))
      BY <3>2 DEF CompilerParts, MergedInv
    <3> QED
      BY <2>1, <3>1, <3>2, <3>3 DEF IsMergeOf
  <2>3. CASE u = usr
    <3>1. ~Compiler!IsClone(cat, id)
      BY <1>4, <2>3
    <3>2. Seen(u)' = Seen(u) \cup {obs}
      <4>1. \A k \in DOMAIN tus : \A i :
               i \in DOMAIN resolves'[k] <=> i \in DOMAIN resolves[k] \/ (k = cat /\ i = id)
        BY <1>6
      <4>2. \A o : o \in Seen(u)' <=> o \in Seen(u) \/ o = obs
        BY <1>3, <2>3, <3>1, <4>1, SeenIs, SeenNext DEF usr, obs
      <4> QED
        BY <4>2
    <3>3. CASE u \in DOMAIN symbols
      <4>1. \A o \in Seen(u) : o.linkage \in Compiler!Linkages
        BY SeenIs, ObservedLinkage
      <4>2. IsMergeOf(symbols[u], Seen(u), Compiler!CloneTakesAddress(u))
        BY <3>3 DEF CompilerParts, MergedInv
      <4>3. IsMergeOf(Compiler!Fold(symbols[u], obs), Seen(u) \cup {obs}, Compiler!CloneTakesAddress(u))
        BY <1>2, <4>1, <4>2, FoldMerges
      <4> QED
        BY <1>5, <2>1, <2>3, <3>2, <3>3, <4>3 DEF IsMergeOf
    <3>4. CASE u \notin DOMAIN symbols
      <4>1. Seen(u) = {} /\ ~Compiler!CloneTakesAddress(u)
        BY <3>4, NoRecord
      <4>2. IsMergeOf(obs, {obs}, FALSE)
        BY <1>2, FirstMerges
      <4> QED
        BY <1>5, <2>1, <2>3, <3>2, <3>4, <4>1, <4>2 DEF IsMergeOf
    <3> QED
      BY <3>3, <3>4
  <2> QED
    BY <2>2, <2>3
<1>12. CallsInv' /\ RecordsInv' /\ GroupsInv'
  BY OnlySymbols
<1> QED
  BY <1>8, <1>9, <1>10, <1>11, <1>12 DEF CompilerParts

\* A record that is left alone stays the merge it is.
LEMMA SameMerges ==
    ASSUME MergedInv, tus' = tus, resolves' = resolves, DOMAIN symbols' \subseteq DOMAIN symbols,
           \A u \in DOMAIN symbols' : symbols'[u] = symbols[u]
    PROVE  MergedInv'
<1>1. /\ \A k : NodeIds(k)' = NodeIds(k)
      /\ \A k, i : /\ Compiler!IsClone(k, i)' <=> Compiler!IsClone(k, i)
                   /\ OwnUSR(k, i)' = OwnUSR(k, i)
      /\ \A u : Compiler!CloneNamed(u)' <=> Compiler!CloneNamed(u)
  BY SameUnits
<1>2. \A u : Compiler!CloneTakesAddress(u)' <=> Compiler!CloneTakesAddress(u)
  BY <1>1, SeenIs, SeenNext
<1>3. \A u, o : o \in Seen(u)' <=> o \in Seen(u)
  BY <1>1, SeenIs, SeenNext
<1>4. \A u : Seen(u)' = Seen(u)
  BY <1>3
<1> SUFFICES ASSUME NEW u \in DOMAIN symbols', ~Compiler!CloneNamed(u)
             PROVE  IsMergeOf(symbols'[u], Seen(u)', Compiler!CloneTakesAddress(u)')
  BY <1>1 DEF MergedInv
<1>5. IsMergeOf(symbols[u], Seen(u), Compiler!CloneTakesAddress(u))
  BY DEF MergedInv
<1> QED
  BY <1>2, <1>4, <1>5 DEF IsMergeOf

\* A node that is visited is one of the unit's.
LEMMA InUnit ==
    ASSUME CompilerParts, cpc = "aggregate", NEW id \in left
    PROVE  cat \in DOMAIN tus /\ id \in NodeIds(cat)
<1>1. id \in Compiler!NodesOf(cat)
  BY DEF CompilerParts, UnitWalkInv
<1> QED
  BY <1>1 DEF Compiler!NodesOf, NodeIds

\* A clone is made a name of its parent, whatever it was before.
LEMMA AddCloneStep ==
    ASSUME CompilerParts, Compiler!AddClone
    PROVE  CompilerParts'
<1>1. /\ cpc = "aggregate" /\ cpc' = "aggregate" /\ tus' = tus /\ cat' = cat
      /\ calls' = calls /\ inlineOf' = inlineOf
  BY DEF Compiler!AddClone
<1>2. PICK id \in left :
         /\ Compiler!IsClone(cat, id) /\ Compiler!Parent(id) \in DOMAIN resolves[cat]
         /\ symbols' = Compiler!With(symbols, resolves[cat][Compiler!Parent(id)],
                           Compiler!Attributed(symbols[resolves[cat][Compiler!Parent(id)]],
                                               tus[cat].nodes[id]))
         /\ resolves' = [resolves EXCEPT ![cat] =
                            Compiler!With(@, id, resolves[cat][Compiler!Parent(id)])]
         /\ left' = left \ {id}
  BY DEF Compiler!AddClone
<1>3. cat \in DOMAIN tus /\ id \in NodeIds(cat)
  BY <1>1, InUnit
<1> DEFINE usr == resolves[cat][Compiler!Parent(id)]
           node == tus[cat].nodes[id]
<1>4. usr \in DOMAIN symbols
  BY <1>1, <1>2, <1>3 DEF CompilerParts, KeptInv
<1>5. /\ \A k : NodeIds(k)' = NodeIds(k) /\ Compiler!NodesOf(k)' = Compiler!NodesOf(k)
      /\ \A k, i : /\ Compiler!IsClone(k, i)' <=> Compiler!IsClone(k, i)
                   /\ OwnUSR(k, i)' = OwnUSR(k, i)
      /\ \A u : Compiler!CloneNamed(u)' <=> Compiler!CloneNamed(u)
  BY <1>1, SameUnits
<1>6. Compiler!CloneNamed(OwnUSR(cat, id))
  BY <1>2, <1>3 DEF Compiler!CloneNamed, OwnUSR, NodeIds
<1>7. id \in DOMAIN resolves[cat] => resolves[cat][id] = OwnUSR(cat, id)
  BY <1>1, <1>3 DEF CompilerParts, ResolvesInv, Waiting
<1>8. /\ symbols' = Compiler!With(symbols, usr, Compiler!Attributed(symbols[usr], node))
      /\ resolves' = [resolves EXCEPT ![cat] = Compiler!With(resolves[cat], id, usr)]
  BY <1>2
<1> HIDE DEF usr, node
<1>9. /\ DOMAIN symbols' = DOMAIN symbols
      /\ \A u \in DOMAIN symbols : u # usr => symbols'[u] = symbols[u]
      /\ symbols'[usr] = Compiler!Attributed(symbols[usr], node)
  BY <1>4, <1>8 DEF Compiler!With
<1>10. /\ DOMAIN resolves = DOMAIN tus /\ DOMAIN resolves' = DOMAIN resolves
       /\ \A k \in DOMAIN tus : k # cat => resolves'[k] = resolves[k]
       /\ DOMAIN resolves'[cat] = DOMAIN resolves[cat] \cup {id}
       /\ \A i \in DOMAIN resolves[cat] : i # id => resolves'[cat][i] = resolves[cat][i]
       /\ resolves'[cat][id] = usr
  BY <1>3, <1>8 DEF CompilerParts, ResolvesInv, Compiler!With
<1>11. /\ \A k, i : Waiting(k, i)' => Waiting(k, i)
       /\ \A k, i : ~Waiting(k, i)' => ~Waiting(k, i) \/ (k = cat /\ i = id)
       /\ \A k : k = cat => ~Waiting(k, id)'
  <2>1. cat \in Nat
    BY DEF CompilerParts, UnitWalkInv
  <2> QED
    BY <1>1, <1>2, <2>1 DEF Waiting
<1>12. UnitWalkInv'
  BY <1>1, <1>2, <1>5 DEF CompilerParts, UnitWalkInv
<1>13. ResolvesInv'
  <2> SUFFICES ASSUME NEW k \in DOMAIN tus
               PROVE  /\ DOMAIN resolves'[k] \subseteq NodeIds(k)
                      /\ \A i \in NodeIds(k) :
                            ~Compiler!IsClone(k, i) /\ ~Waiting(k, i)' => i \in DOMAIN resolves'[k]
                      /\ \A i \in DOMAIN resolves'[k] :
                            ~Compiler!IsClone(k, i) \/ Waiting(k, i)' => resolves'[k][i] = OwnUSR(k, i)
    BY <1>1, <1>5, <1>10 DEF ResolvesInv
  <2>1. /\ DOMAIN resolves[k] \subseteq NodeIds(k)
        /\ \A i \in NodeIds(k) :
              ~Compiler!IsClone(k, i) /\ ~Waiting(k, i) => i \in DOMAIN resolves[k]
        /\ \A i \in DOMAIN resolves[k] :
              ~Compiler!IsClone(k, i) \/ Waiting(k, i) => resolves[k][i] = OwnUSR(k, i)
    BY DEF CompilerParts, ResolvesInv
  <2>2. CASE k = cat
    <3>1. Compiler!IsClone(k, id) /\ id \in NodeIds(k)
      BY <1>2, <1>3, <2>2
    <3>4. ~Waiting(k, id)'
      BY <1>11, <2>2
    <3>2. /\ DOMAIN resolves'[k] = DOMAIN resolves[k] \cup {id}
          /\ \A i \in DOMAIN resolves[k] : i # id => resolves'[k][i] = resolves[k][i]
      BY <1>10, <2>2
    <3>3. \A i : i # id => (Waiting(k, i)' <=> Waiting(k, i))
      BY <1>11
    <3> QED
      BY <2>1, <3>1, <3>2, <3>3, <3>4
  <2>3. CASE k # cat
    BY <1>10, <1>11, <2>1, <2>3
  <2> QED
    BY <2>2, <2>3
<1>14. KeptInv'
  <2>1. \A k \in DOMAIN tus : \A i \in DOMAIN resolves[k] : resolves[k][i] \in DOMAIN symbols
    BY <1>1 DEF CompilerParts, KeptInv
  <2>2. \A k \in DOMAIN tus : \A i \in DOMAIN resolves'[k] : resolves'[k][i] \in DOMAIN symbols'
    BY <1>4, <1>9, <1>10, <2>1
  <2> QED
    BY <1>1, <2>2 DEF KeptInv
<1>15. MergedInv'
  <2> SUFFICES ASSUME NEW u \in DOMAIN symbols', ~Compiler!CloneNamed(u)
               PROVE  IsMergeOf(symbols'[u], Seen(u)', Compiler!CloneTakesAddress(u)')
    BY <1>5 DEF MergedInv
  <2>1. u \in DOMAIN symbols /\ IsMergeOf(symbols[u], Seen(u), Compiler!CloneTakesAddress(u))
    BY <1>9 DEF CompilerParts, MergedInv
  <2>2. Seen(u)' = Seen(u)
    <3>1. \A k \in DOMAIN tus : \A i :
             ~Compiler!IsClone(k, i) => (i \in DOMAIN resolves'[k] <=> i \in DOMAIN resolves[k])
      BY <1>2, <1>10
    <3>2. \A o : o \in Seen(u)' <=> o \in Seen(u)
      BY <1>1, <1>5, <3>1, SeenIs, SeenNext
    <3> QED
      BY <3>2
  <2>3. Compiler!CloneTakesAddress(u)' <=> Compiler!CloneTakesAddress(u) \/ (u = usr /\ node.addr)
    <3>1. ASSUME NEW k \in DOMAIN tus, NEW i \in NodeIds(k)
          PROVE  i \in DOMAIN resolves'[k] /\ resolves'[k][i] = u
                    <=> \/ i \in DOMAIN resolves[k] /\ resolves[k][i] = u
                        \/ k = cat /\ i = id /\ u = usr
      <4>1. id \in DOMAIN resolves[cat] => resolves[cat][id] # u
        BY <1>6, <1>7
      <4>2. CASE k = cat /\ i = id
        BY <1>10, <4>1, <4>2
      <4>3. CASE k = cat /\ i # id
        BY <1>10, <4>3
      <4>4. CASE k # cat
        BY <1>10, <4>4
      <4> QED
        BY <4>2, <4>3, <4>4
    <3> QED
      BY <1>1, <1>2, <1>3, <1>5, <3>1, SeenIs, SeenNext DEF node
  <2>4. CASE u # usr
    BY <1>9, <2>1, <2>2, <2>3, <2>4 DEF IsMergeOf
  <2>5. CASE u = usr
    <3>1. IsMergeOf(Compiler!Attributed(symbols[u], node), Seen(u),
                    Compiler!CloneTakesAddress(u) \/ node.addr)
      BY <2>1, CloneMerges
    <3> QED
      BY <1>9, <2>2, <2>3, <2>5, <3>1 DEF IsMergeOf
  <2> QED
    BY <2>4, <2>5
<1>16. CallsInv' /\ RecordsInv' /\ GroupsInv'
  BY <1>1, OnlySymbols
<1> QED
  BY <1>12, <1>13, <1>14, <1>15, <1>16 DEF CompilerParts

\* A clone of a function that is not in the dump leaves no trace.
LEMMA SkipCloneStep ==
    ASSUME CompilerParts, Compiler!SkipClone
    PROVE  CompilerParts'
<1>1. /\ cpc = "aggregate" /\ cpc' = "aggregate" /\ tus' = tus /\ cat' = cat
      /\ calls' = calls /\ inlineOf' = inlineOf /\ symbols' = symbols /\ resolves' = resolves
  BY DEF Compiler!SkipClone
<1>2. PICK id \in left : Compiler!IsClone(cat, id) /\ left' = left \ {id}
  BY DEF Compiler!SkipClone
<1>3. /\ \A k : NodeIds(k)' = NodeIds(k) /\ Compiler!NodesOf(k)' = Compiler!NodesOf(k)
      /\ \A k, i : /\ Compiler!IsClone(k, i)' <=> Compiler!IsClone(k, i)
                   /\ OwnUSR(k, i)' = OwnUSR(k, i)
  BY <1>1, SameUnits
<1>4. /\ \A k, i : Waiting(k, i)' => Waiting(k, i)
      /\ \A k, i : ~Waiting(k, i)' /\ ~Compiler!IsClone(k, i) => ~Waiting(k, i)
  <2>1. \A k, i : Waiting(k, i)' <=> k > cat \/ (k = cat /\ i \in left /\ i # id)
    BY <1>1, <1>2 DEF Waiting
  <2>2. \A k, i : Waiting(k, i) <=> k > cat \/ (k = cat /\ i \in left)
    BY <1>1 DEF Waiting
  <2> QED
    BY <1>2, <2>1, <2>2
<1>5. UnitWalkInv'
  BY <1>1, <1>2, <1>3 DEF CompilerParts, UnitWalkInv
<1>6. ResolvesInv'
  BY <1>1, <1>3, <1>4 DEF CompilerParts, ResolvesInv
<1>7. KeptInv'
  BY <1>1 DEF CompilerParts, KeptInv
<1>8. MergedInv'
  BY <1>1, SameMerges DEF CompilerParts
<1>9. CallsInv' /\ RecordsInv' /\ GroupsInv'
  BY <1>1, OnlySymbols
<1> QED
  BY <1>5, <1>6, <1>7, <1>8, <1>9 DEF CompilerParts

\* The next unit's nodes wait already.
LEMMA NextUnitStep ==
    ASSUME CompilerParts, Compiler!NextUnit
    PROVE  CompilerParts'
<1>1. /\ cpc = "aggregate" /\ cpc' = "aggregate" /\ tus' = tus /\ cat' = cat + 1 /\ left = {}
      /\ calls' = calls /\ inlineOf' = inlineOf /\ symbols' = symbols /\ resolves' = resolves
      /\ left' = Compiler!NodesOf(cat + 1)
  BY DEF Compiler!NextUnit
<1>2. /\ \A k : NodeIds(k)' = NodeIds(k) /\ Compiler!NodesOf(k)' = Compiler!NodesOf(k)
      /\ \A k, i : /\ Compiler!IsClone(k, i)' <=> Compiler!IsClone(k, i)
                   /\ OwnUSR(k, i)' = OwnUSR(k, i)
  BY <1>1, SameUnits
<1>3. /\ cat \in Nat \ {0} /\ tus \in Units
  BY DEF CompilerParts, UnitWalkInv
<1>4. ASSUME NEW k \in DOMAIN tus, NEW i \in NodeIds(k)
      PROVE  Waiting(k, i)' <=> Waiting(k, i)
  <2>1. k \in Nat /\ Compiler!NodesOf(k) = NodeIds(k)
    BY <1>3, UnitsAre
  <2> QED
    BY <1>1, <1>3, <2>1 DEF Waiting
<1>5. UnitWalkInv'
  BY <1>1, <1>2, <1>3 DEF UnitWalkInv
<1>6. ResolvesInv'
  BY <1>1, <1>2, <1>4 DEF CompilerParts, ResolvesInv
<1>7. KeptInv'
  BY <1>1 DEF CompilerParts, KeptInv
<1>8. MergedInv'
  BY <1>1, SameMerges DEF CompilerParts
<1>9. CallsInv' /\ RecordsInv' /\ GroupsInv'
  BY <1>1, OnlySymbols
<1> QED
  BY <1>5, <1>6, <1>7, <1>8, <1>9 DEF CompilerParts

-----------------------------------------------------------------------------
(* pruneUnreferenced and the loops after it.                               *)

\* What is read of the units and of their USRs does not change.
LEMMA SameReferences ==
    ASSUME tus' = tus, resolves' = resolves
    PROVE  /\ \A k, g : Compiler!GroupUSRs(k, g)' = Compiler!GroupUSRs(k, g)
           /\ \A k : Compiler!CallPairs(k)' = Compiler!CallPairs(k)
           /\ \A k, p : Joins(k, p)' <=> Joins(k, p)
           /\ \A k, p : CallOf(k, p)' = CallOf(k, p) /\ EdgeOf(k, p)' = EdgeOf(k, p)
           /\ \A k, id : Compiler!Resolved(k, id)' <=> Compiler!Resolved(k, id)
           /\ Compiler!ReferencedUSRs' = Compiler!ReferencedUSRs
<1>1. \A k, g : Compiler!GroupUSRs(k, g)' = Compiler!GroupUSRs(k, g)
  BY DEF Compiler!GroupUSRs, Compiler!NameToUSR, Compiler!Resolved, Compiler!NodesOf
<1>2. \A k : Compiler!CallPairs(k)' = Compiler!CallPairs(k)
  BY DEF Compiler!CallPairs
<1>3. \A k, id : Compiler!Resolved(k, id)' <=> Compiler!Resolved(k, id)
  BY DEF Compiler!Resolved
<1>4. \A k, p : Joins(k, p)' <=> Joins(k, p)
  BY DEF Joins, CallOf, Compiler!Resolved
<1>5. \A k, p : CallOf(k, p)' = CallOf(k, p) /\ EdgeOf(k, p)' = EdgeOf(k, p)
  BY DEF EdgeOf, CallOf
<1>6. \A k : Compiler!EdgeUSRs(k)' = Compiler!EdgeUSRs(k) /\ Compiler!RecordUSRs(k)' = Compiler!RecordUSRs(k)
  BY DEF Compiler!EdgeUSRs, Compiler!RecordUSRs, Compiler!CallPairs, Compiler!Resolved
<1>7. Compiler!ReferencedUSRs' = Compiler!ReferencedUSRs
  BY <1>1, <1>6 DEF Compiler!ReferencedUSRs
<1> QED
  BY <1>1, <1>2, <1>3, <1>4, <1>5, <1>7

\* A name resolves to the USR of a node that has the name.
LEMMA NameIs ==
    ASSUME tus \in Units, NEW k \in DOMAIN tus, NEW name \in DOMAIN Compiler!NameToUSR(k)
    PROVE  \E id \in DOMAIN resolves[k] : Compiler!NameToUSR(k)[name] = resolves[k][id]
<1> DEFINE nodes == {id \in Compiler!NodesOf(k) : Compiler!Resolved(k, id)}
           named == {id \in nodes : tus[k].nodes[id].name = name}
           first == CHOOSE i \in named : \A j \in named : Compiler!Position(i) <= Compiler!Position(j)
<1>1. name \in {tus[k].nodes[id].name : id \in nodes} /\ Compiler!NameToUSR(k)[name] = resolves[k][first]
  BY DEF Compiler!NameToUSR
<1>2. /\ Compiler!NodesOf(k) \subseteq ToSet(Ids)
  BY UnitsAre
<1>3. \A id \in ToSet(Ids) : Compiler!Position(id) \in DOMAIN Ids /\ Ids[Compiler!Position(id)] = id
  <2> SUFFICES ASSUME NEW id \in ToSet(Ids)
               PROVE  Compiler!Position(id) \in DOMAIN Ids /\ Ids[Compiler!Position(id)] = id
    OBVIOUS
  <2>1. \E i \in DOMAIN Ids : Ids[i] = id
    BY DEF ToSet
  <2> QED
    BY <2>1 DEF Compiler!Position
<1>4. DOMAIN Ids \subseteq Nat
  BY UnitAssumption
<1> DEFINE places == {Compiler!Position(id) : id \in named}
<1>5. places \subseteq Nat /\ places # {}
  BY <1>1, <1>2, <1>3, <1>4
<1>6. PICK m \in places : \A n \in places : m <= n
  BY <1>5, LeastElement
<1>7. PICK i \in named : \A j \in named : Compiler!Position(i) <= Compiler!Position(j)
  BY <1>6
<1>8. first \in named
  BY <1>7
<1> QED
  BY <1>1, <1>8 DEF Compiler!Resolved

\* The USRs of a group are those its names resolve to.
LEMMA GroupIs ==
    ASSUME NEW k, NEW g
    PROVE  \A u : u \in Compiler!GroupUSRs(k, g) <=>
              /\ g.winner \in DOMAIN Compiler!NameToUSR(k)
              /\ \E l \in g.losers \cap DOMAIN Compiler!NameToUSR(k) :
                    /\ Compiler!NameToUSR(k)[l] # Compiler!NameToUSR(k)[g.winner]
                    /\ \/ u = Compiler!NameToUSR(k)[g.winner]
                       \/ \E m \in g.losers \cap DOMAIN Compiler!NameToUSR(k) :
                             u = Compiler!NameToUSR(k)[m]
<1> DEFINE n2u == Compiler!NameToUSR(k)
           usrs == {n2u[l] : l \in g.losers \cap DOMAIN n2u} \ {n2u[g.winner]}
<1>1. Compiler!GroupUSRs(k, g) = IF g.winner \notin DOMAIN n2u THEN {}
                                 ELSE IF usrs = {} THEN {} ELSE usrs \cup {n2u[g.winner]}
  BY DEF Compiler!GroupUSRs
<1>2. usrs # {} <=> \E l \in g.losers \cap DOMAIN n2u : n2u[l] # n2u[g.winner]
  OBVIOUS
<1>3. \A u : u \in usrs \cup {n2u[g.winner]} <=>
               u = n2u[g.winner] \/ \E m \in g.losers \cap DOMAIN n2u : u = n2u[m]
  OBVIOUS
<1> HIDE DEF usrs, n2u
<1>4. \A u : u \in Compiler!GroupUSRs(k, g) <=>
         /\ g.winner \in DOMAIN n2u
         /\ \E l \in g.losers \cap DOMAIN n2u :
               /\ n2u[l] # n2u[g.winner]
               /\ u = n2u[g.winner] \/ \E m \in g.losers \cap DOMAIN n2u : u = n2u[m]
  BY <1>1, <1>2, <1>3
<1> QED
  BY <1>4 DEF n2u

\* What the later loops will look up.
LEMMA ReferencedIs ==
    \A u : u \in Compiler!ReferencedUSRs <=> \E k \in DOMAIN tus :
        \/ \E p \in Compiler!CallPairs(k) : Joins(k, p) /\ u \in {EdgeOf(k, p)[1], EdgeOf(k, p)[2]}
        \/ \E r \in tus[k].records :
              /\ Compiler!Resolved(k, r.caller) /\ Compiler!Resolved(k, r.callee)
              /\ u \in {resolves[k][r.caller], resolves[k][r.callee]}
        \/ \E g \in tus[k].groups : u \in Compiler!GroupUSRs(k, g)
<1>1. \A k, u : u \in Compiler!EdgeUSRs(k) <=>
         \E p \in Compiler!CallPairs(k) : Joins(k, p) /\ u \in {EdgeOf(k, p)[1], EdgeOf(k, p)[2]}
  BY DEF Compiler!EdgeUSRs, Joins, EdgeOf, CallOf
<1>2. \A k, u : u \in Compiler!RecordUSRs(k) <=>
         \E r \in tus[k].records :
            /\ Compiler!Resolved(k, r.caller) /\ Compiler!Resolved(k, r.callee)
            /\ u \in {resolves[k][r.caller], resolves[k][r.callee]}
  BY DEF Compiler!RecordUSRs
<1>3. \A u : u \in Compiler!ReferencedUSRs <=> \E k \in DOMAIN tus :
         \/ u \in Compiler!EdgeUSRs(k) \/ u \in Compiler!RecordUSRs(k)
         \/ \E g \in tus[k].groups : u \in Compiler!GroupUSRs(k, g)
  BY DEF Compiler!ReferencedUSRs
<1> QED
  BY <1>1, <1>2, <1>3

\* A USR that is looked up is one a unit resolves to.
LEMMA ReferencedResolves ==
    ASSUME tus \in Units, NEW u \in Compiler!ReferencedUSRs
    PROVE  \E k \in DOMAIN tus : \E id \in DOMAIN resolves[k] : u = resolves[k][id]
<1>1. PICK k \in DOMAIN tus :
        \/ \E p \in Compiler!CallPairs(k) : Joins(k, p) /\ u \in {EdgeOf(k, p)[1], EdgeOf(k, p)[2]}
        \/ \E r \in tus[k].records :
              /\ Compiler!Resolved(k, r.caller) /\ Compiler!Resolved(k, r.callee)
              /\ u \in {resolves[k][r.caller], resolves[k][r.callee]}
        \/ \E g \in tus[k].groups : u \in Compiler!GroupUSRs(k, g)
  BY ReferencedIs
<1>2. ASSUME NEW p \in Compiler!CallPairs(k), Joins(k, p), u \in {EdgeOf(k, p)[1], EdgeOf(k, p)[2]}
      PROVE  \E id \in DOMAIN resolves[k] : u = resolves[k][id]
  BY <1>2 DEF Joins, EdgeOf, Compiler!Resolved
<1>3. ASSUME NEW r \in tus[k].records,
             Compiler!Resolved(k, r.caller) /\ Compiler!Resolved(k, r.callee),
             u \in {resolves[k][r.caller], resolves[k][r.callee]}
      PROVE  \E id \in DOMAIN resolves[k] : u = resolves[k][id]
  BY <1>3 DEF Compiler!Resolved
<1>4. ASSUME NEW g \in tus[k].groups, u \in Compiler!GroupUSRs(k, g)
      PROVE  \E id \in DOMAIN resolves[k] : u = resolves[k][id]
  <2>1. PICK name \in DOMAIN Compiler!NameToUSR(k) : u = Compiler!NameToUSR(k)[name]
    BY <1>4, GroupIs
  <2> QED
    BY <2>1, NameIs
<1> QED
  BY <1>1, <1>2, <1>3, <1>4

\* The prune keeps what will be looked up, decided by the same lookups.
LEMMA PruneStep ==
    ASSUME CompilerParts, Compiler!PruneUnreferenced
    PROVE  CompilerParts'
<1>1. /\ cpc = "aggregate" /\ cpc' = "edges" /\ tus' = tus /\ cat > Len(tus) /\ cat' = 1
      /\ calls' = calls /\ inlineOf' = inlineOf /\ resolves' = resolves
  BY DEF Compiler!PruneUnreferenced
<1>2. \A u : u \in DOMAIN symbols' <=>
         /\ u \in DOMAIN symbols
         /\ \/ symbols[u].defs # {} \/ symbols[u].addr \/ symbols[u].linkage # "internal"
            \/ u \in Compiler!ReferencedUSRs
  BY DEF Compiler!PruneUnreferenced
<1>3. \A u \in DOMAIN symbols' : symbols'[u] = symbols[u]
  BY DEF Compiler!PruneUnreferenced
<1>4. /\ tus \in Units /\ cat \in Nat
  BY DEF CompilerParts, UnitWalkInv
<1>5. Len(tus) \in Nat /\ DOMAIN tus = 1..Len(tus)
  BY <1>4, UnitsAre
<1>6. /\ \A k : NodeIds(k)' = NodeIds(k)
      /\ \A k, i : /\ Compiler!IsClone(k, i)' <=> Compiler!IsClone(k, i)
                   /\ OwnUSR(k, i)' = OwnUSR(k, i)
  BY <1>1, SameUnits
<1>7. \A k \in DOMAIN tus : \A i : ~Waiting(k, i) /\ ~Waiting(k, i)'
  <2>1. \A k \in DOMAIN tus : ~(k > cat) /\ k # cat
    BY <1>1, <1>4, <1>5
  <2> QED
    BY <1>1, <2>1 DEF Waiting
<1>8. UnitWalkInv'
  BY <1>1, <1>4 DEF UnitWalkInv
<1>9. ResolvesInv'
  BY <1>1, <1>6, <1>7 DEF CompilerParts, ResolvesInv
<1>10. KeptInv'
  <2>1. Compiler!ReferencedUSRs' = Compiler!ReferencedUSRs
    BY <1>1, SameReferences
  <2>2. Compiler!ReferencedUSRs \subseteq DOMAIN symbols
    BY <1>1, <1>4, ReferencedResolves DEF CompilerParts, KeptInv
  <2>3. Compiler!ReferencedUSRs \subseteq DOMAIN symbols'
    BY <1>2, <2>2
  <2>4. \A u \in DOMAIN symbols' :
           \/ symbols'[u].defs # {} \/ symbols'[u].addr \/ symbols'[u].linkage # "internal"
           \/ u \in Compiler!ReferencedUSRs
    BY <1>2, <1>3
  <2> QED
    BY <1>1, <2>1, <2>3, <2>4 DEF KeptInv
<1>11. MergedInv'
  BY <1>1, <1>2, <1>3, SameMerges DEF CompilerParts
<1>12. CallsInv' /\ RecordsInv' /\ GroupsInv'
  <2>1. calls = {} /\ DOMAIN inlineOf = {}
    BY <1>1 DEF CompilerParts, CallsInv, Inserted
  <2>2. \A k \in DOMAIN tus : ~Inserted(k)'
    BY <1>1, <1>5 DEF Inserted
  <2> QED
    BY <1>1, <2>1, <2>2 DEF CallsInv, RecordsInv, GroupsInv
<1> QED
  BY <1>8, <1>9, <1>10, <1>11, <1>12 DEF CompilerParts

\* After the prune the symbols and the USRs stay.
LEMMA SymbolsStay ==
    ASSUME CompilerParts, cpc \in {"edges", "icf"}, cpc' \in {"edges", "icf", "done"},
           UNCHANGED <<tus, symbols, resolves>>, cat' \in Nat \ {0}
    PROVE  UnitWalkInv' /\ ResolvesInv' /\ KeptInv' /\ MergedInv'
<1>1. /\ \A k : NodeIds(k)' = NodeIds(k)
      /\ \A k, i : /\ Compiler!IsClone(k, i)' <=> Compiler!IsClone(k, i)
                   /\ OwnUSR(k, i)' = OwnUSR(k, i)
  BY SameUnits
<1>2. \A k, i : ~Waiting(k, i) /\ ~Waiting(k, i)'
  BY DEF Waiting
<1>3. UnitWalkInv'
  BY DEF CompilerParts, UnitWalkInv
<1>4. ResolvesInv'
  BY <1>1, <1>2 DEF CompilerParts, ResolvesInv
<1>5. KeptInv'
  <2>1. Compiler!ReferencedUSRs' = Compiler!ReferencedUSRs
    BY SameReferences
  <2> QED
    BY <2>1 DEF CompilerParts, KeptInv
<1>6. MergedInv'
  BY SameMerges DEF CompilerParts
<1> QED
  BY <1>3, <1>4, <1>5, <1>6

\* A call between two functions that resolve joins two rows.
LEMMA JoinsRows ==
    ASSUME CompilerParts, cpc \in {"edges", "icf", "done"},
           NEW k \in DOMAIN tus, NEW p \in Compiler!CallPairs(k)
    PROVE  Joins(k, p) <=> Compiler!HasRow(k, p[1]) /\ Compiler!HasRow(k, CallOf(k, p).target)
<1>1. Joins(k, p) => /\ EdgeOf(k, p)[1] \in Compiler!ReferencedUSRs
                     /\ EdgeOf(k, p)[2] \in Compiler!ReferencedUSRs
  BY ReferencedIs
<1>2. Compiler!ReferencedUSRs \subseteq DOMAIN symbols
  BY DEF CompilerParts, KeptInv
<1>3. EdgeOf(k, p)[1] = resolves[k][p[1]] /\ EdgeOf(k, p)[2] = resolves[k][CallOf(k, p).target]
  BY DEF EdgeOf
<1> QED
  BY <1>1, <1>2, <1>3 DEF Joins, Compiler!HasRow

\* The edges of one unit are added to those of the units before it.
LEMMA InsertEdgesStep ==
    ASSUME CompilerParts, Compiler!InsertEdges
    PROVE  CompilerParts'
<1>1. /\ cpc = "edges" /\ cpc' = "edges" /\ cat <= Len(tus) /\ cat' = cat + 1
      /\ tus' = tus /\ symbols' = symbols /\ resolves' = resolves
  BY DEF Compiler!InsertEdges
<1>2. tus \in Units /\ cat \in Nat \ {0}
  BY DEF CompilerParts, UnitWalkInv
<1>3. cat \in DOMAIN tus /\ DOMAIN tus \subseteq Nat
  <2>1. Len(tus) \in Nat /\ DOMAIN tus = 1..Len(tus)
    BY <1>2, UnitsAre
  <2> QED
    BY <1>1, <1>2, <2>1
<1>4. UnitWalkInv' /\ ResolvesInv' /\ KeptInv' /\ MergedInv'
  BY <1>1, <1>2, SymbolsStay
<1> DEFINE joined == {p \in Compiler!CallPairs(cat) :
                         Compiler!HasRow(cat, p[1]) /\ Compiler!HasRow(cat, CallOf(cat, p).target)}
           made == {[edge |-> EdgeOf(cat, p), inlined |-> CallOf(cat, p).inlined] : p \in joined}
           pairs == {c.edge : c \in made}
<1>5. /\ calls' = calls \cup pairs
      /\ inlineOf' = [e \in DOMAIN inlineOf \cup pairs |-> Compiler!Inlined(inlineOf, e, made)]
  BY DEF Compiler!InsertEdges, CallOf, EdgeOf
<1>6. \A p : p \in joined <=> p \in Compiler!CallPairs(cat) /\ Joins(cat, p)
  BY <1>1, <1>3, JoinsRows
<1> HIDE DEF joined
<1>7. /\ \A e : e \in pairs <=> \E p \in joined : e = EdgeOf(cat, p)
      /\ \A e : (\E c \in made : c.edge = e /\ c.inlined) <=>
                    \E p \in joined : e = EdgeOf(cat, p) /\ CallOf(cat, p).inlined
  <2>1. \A p \in joined : \E c \in made : c.edge = EdgeOf(cat, p) /\ c.inlined = CallOf(cat, p).inlined
    <3> SUFFICES ASSUME NEW p \in joined
                 PROVE  \E c \in made : c.edge = EdgeOf(cat, p) /\ c.inlined = CallOf(cat, p).inlined
      OBVIOUS
    <3> DEFINE c == [edge |-> EdgeOf(cat, p), inlined |-> CallOf(cat, p).inlined]
    <3>1. c \in made
      OBVIOUS
    <3>2. c.edge = EdgeOf(cat, p) /\ c.inlined = CallOf(cat, p).inlined
      OBVIOUS
    <3> HIDE DEF c, made
    <3> QED
      BY <3>1, <3>2
  <2>2. \A c \in made : \E p \in joined : c.edge = EdgeOf(cat, p) /\ c.inlined = CallOf(cat, p).inlined
    OBVIOUS
  <2>3. \A e : e \in pairs <=> \E c \in made : e = c.edge
    OBVIOUS
  <2> HIDE DEF made, pairs
  <2>4. \A e : e \in pairs <=> \E p \in joined : e = EdgeOf(cat, p)
    BY <2>1, <2>2, <2>3
  <2>5. ASSUME NEW e
        PROVE  (\E c \in made : c.edge = e /\ c.inlined) <=>
                   \E p \in joined : e = EdgeOf(cat, p) /\ CallOf(cat, p).inlined
    BY <2>1, <2>2
  <2> QED
    BY <2>4, <2>5
<1> HIDE DEF made, pairs
<1>8. DOMAIN inlineOf = calls
  BY DEF CompilerParts, CallsInv
<1>9. /\ DOMAIN inlineOf' = calls'
      /\ \A e : e \in calls' <=> \/ e \in calls
                               \/ \E p \in Compiler!CallPairs(cat) : Joins(cat, p) /\ e = EdgeOf(cat, p)
      /\ \A e \in calls' : inlineOf'[e] <=>
            \/ e \in calls /\ inlineOf[e]
            \/ \E p \in Compiler!CallPairs(cat) :
                  Joins(cat, p) /\ CallOf(cat, p).inlined /\ e = EdgeOf(cat, p)
  <2>1. DOMAIN inlineOf' = calls'
    BY <1>5, <1>8
  <2>2. \A e : e \in calls' <=> \/ e \in calls
                               \/ \E p \in Compiler!CallPairs(cat) : Joins(cat, p) /\ e = EdgeOf(cat, p)
    BY <1>5, <1>6, <1>7
  <2>3. \A e \in calls' : inlineOf'[e] <=>
           (e \in DOMAIN inlineOf /\ inlineOf[e]) \/ \E c \in made : c.edge = e /\ c.inlined
    BY <1>5, <1>8 DEF Compiler!Inlined
  <2>4. \A e \in calls' : inlineOf'[e] <=>
            \/ e \in calls /\ inlineOf[e]
            \/ \E p \in Compiler!CallPairs(cat) :
                  Joins(cat, p) /\ CallOf(cat, p).inlined /\ e = EdgeOf(cat, p)
    BY <1>6, <1>7, <1>8, <2>3
  <2> QED
    BY <2>1, <2>2, <2>4
<1>10. \A k \in DOMAIN tus : Inserted(k)' <=> Inserted(k) \/ k = cat
  BY <1>1, <1>2, <1>3 DEF Inserted
<1>11. /\ \A k : Compiler!CallPairs(k)' = Compiler!CallPairs(k)
       /\ \A k, p : Joins(k, p)' <=> Joins(k, p)
       /\ \A k, p : CallOf(k, p)' = CallOf(k, p) /\ EdgeOf(k, p)' = EdgeOf(k, p)
  BY <1>1, SameReferences
<1>12. CallsInv'
  <2>1. /\ \A k \in DOMAIN tus : Inserted(k) =>
              \A p \in Compiler!CallPairs(k) : Joins(k, p) => EdgeOf(k, p) \in calls
        /\ \A e \in calls : \E k \in DOMAIN tus : \E p \in Compiler!CallPairs(k) :
              Inserted(k) /\ Joins(k, p) /\ e = EdgeOf(k, p)
        /\ \A e \in calls : inlineOf[e] <=>
              \E k \in DOMAIN tus : \E p \in Compiler!CallPairs(k) :
                  Inserted(k) /\ Joins(k, p) /\ CallOf(k, p).inlined /\ e = EdgeOf(k, p)
    BY DEF CompilerParts, CallsInv
  <2>2. \A k \in DOMAIN tus : Inserted(k)' =>
           \A p \in Compiler!CallPairs(k) : Joins(k, p) => EdgeOf(k, p) \in calls'
    BY <1>9, <1>10, <2>1
  <2>3. \A e \in calls' : \E k \in DOMAIN tus : \E p \in Compiler!CallPairs(k) :
           Inserted(k)' /\ Joins(k, p) /\ e = EdgeOf(k, p)
    BY <1>3, <1>9, <1>10, <2>1
  <2>4. ASSUME NEW e \in calls'
        PROVE  inlineOf'[e] <=>
                 \E k \in DOMAIN tus : \E p \in Compiler!CallPairs(k) :
                     Inserted(k)' /\ Joins(k, p) /\ CallOf(k, p).inlined /\ e = EdgeOf(k, p)
    <3>1. inlineOf'[e] => \E k \in DOMAIN tus : \E p \in Compiler!CallPairs(k) :
             Inserted(k)' /\ Joins(k, p) /\ CallOf(k, p).inlined /\ e = EdgeOf(k, p)
      BY <1>3, <1>9, <1>10, <2>1
    <3>2. ASSUME NEW k \in DOMAIN tus, NEW p \in Compiler!CallPairs(k),
                 Inserted(k)' /\ Joins(k, p) /\ CallOf(k, p).inlined /\ e = EdgeOf(k, p)
          PROVE  inlineOf'[e]
      <4>1. CASE k = cat
        BY <1>9, <3>2, <4>1
      <4>2. CASE Inserted(k)
        BY <1>9, <2>1, <3>2, <4>2
      <4> QED
        BY <1>10, <3>2, <4>1, <4>2
    <3> QED
      BY <3>1, <3>2
  <2> QED
    BY <1>1, <1>9, <1>11, <2>2, <2>3, <2>4 DEF CallsInv
<1>13. RecordsInv' /\ GroupsInv'
  BY <1>1 DEF RecordsInv, GroupsInv
<1> QED
  BY <1>4, <1>12, <1>13 DEF CompilerParts

\* The calls stay once every unit's are inserted.
LEMMA CallsStay ==
    ASSUME CompilerParts, UNCHANGED <<tus, resolves, calls, inlineOf>>,
           \A k \in DOMAIN tus : Inserted(k)' <=> Inserted(k)
    PROVE  CallsInv'
<1>1. /\ \A k : Compiler!CallPairs(k)' = Compiler!CallPairs(k)
      /\ \A k, p : Joins(k, p)' <=> Joins(k, p)
      /\ \A k, p : CallOf(k, p)' = CallOf(k, p) /\ EdgeOf(k, p)' = EdgeOf(k, p)
  BY SameReferences
<1> QED
  BY <1>1 DEF CompilerParts, CallsInv

\* Every inline record whose functions resolve is written.
LEMMA InsertInlineRecordsStep ==
    ASSUME CompilerParts, Compiler!InsertInlineRecords
    PROVE  CompilerParts'
<1>1. /\ cpc = "edges" /\ cpc' = "icf" /\ cat > Len(tus) /\ cat' = cat
      /\ UNCHANGED <<tus, symbols, resolves, calls, inlineOf>>
  BY DEF Compiler!InsertInlineRecords
<1>2. tus \in Units /\ cat \in Nat \ {0}
  BY DEF CompilerParts, UnitWalkInv
<1>3. UnitWalkInv' /\ ResolvesInv' /\ KeptInv' /\ MergedInv'
  BY <1>1, <1>2, SymbolsStay
<1>4. \A k \in DOMAIN tus : Inserted(k)' <=> Inserted(k)
  <2>1. Len(tus) \in Nat /\ DOMAIN tus = 1..Len(tus)
    BY <1>2, UnitsAre
  <2>2. \A k \in DOMAIN tus : k < cat
    BY <1>1, <1>2, <2>1
  <2> QED
    BY <1>1, <2>2 DEF Inserted
<1>5. CallsInv'
  BY <1>1, <1>4, CallsStay
<1>6. ASSUME NEW k \in DOMAIN tus, NEW r \in tus[k].records,
             Compiler!Resolved(k, r.caller), Compiler!Resolved(k, r.callee)
      PROVE  <<k, resolves[k][r.caller], resolves[k][r.callee]>> \in records'
  <2>1. /\ resolves[k][r.caller] \in Compiler!ReferencedUSRs
        /\ resolves[k][r.callee] \in Compiler!ReferencedUSRs
    BY <1>6, ReferencedIs
  <2>2. Compiler!HasRow(k, r.caller) /\ Compiler!HasRow(k, r.callee)
    BY <1>1, <1>6, <2>1 DEF CompilerParts, KeptInv, Compiler!HasRow
  <2> QED
    BY <2>2 DEF Compiler!InsertInlineRecords
<1>7. RecordsInv' /\ GroupsInv'
  <2>1. \A k, id : Compiler!Resolved(k, id)' <=> Compiler!Resolved(k, id)
    BY <1>1, SameReferences
  <2> QED
    BY <1>1, <1>6, <2>1 DEF RecordsInv, GroupsInv
<1> QED
  BY <1>3, <1>5, <1>7 DEF CompilerParts

\* A group that can be written is, with the rows of the USRs the prune kept.
LEMMA GroupWritten ==
    ASSUME CompilerParts, cpc = "icf", NEW k \in DOMAIN tus, NEW g \in tus[k].groups,
           Compiler!GroupUSRs(k, g) # {}
    PROVE  \E h \in Compiler!WritableGroups(k) :
              h.unit = k /\ Compiler!GroupUSRs(k, g) = MembersOf(h)
<1> DEFINE n2u == Compiler!NameToUSR(k)
           n2id == Compiler!NameToSymbolID(k)
           W == Compiler!LosersOf(n2id, g)
<1>1. /\ g.winner \in DOMAIN n2u
      /\ \E l \in g.losers \cap DOMAIN n2u : n2u[l] # n2u[g.winner]
      /\ \A u : u \in Compiler!GroupUSRs(k, g) <=>
            u = n2u[g.winner] \/ \E m \in g.losers \cap DOMAIN n2u : u = n2u[m]
  <2>1. PICK u : u \in Compiler!GroupUSRs(k, g)
    OBVIOUS
  <2> HIDE DEF n2u
  <2>2. \A v : v \in Compiler!GroupUSRs(k, g) <=>
              /\ g.winner \in DOMAIN n2u
              /\ \E l \in g.losers \cap DOMAIN n2u :
                    /\ n2u[l] # n2u[g.winner]
                    /\ v = n2u[g.winner] \/ \E m \in g.losers \cap DOMAIN n2u : v = n2u[m]
    BY GroupIs DEF n2u
  <2> QED
    BY <2>1, <2>2
<1>2. Compiler!GroupUSRs(k, g) \subseteq DOMAIN symbols
  BY ReferencedIs DEF CompilerParts, KeptInv
<1>3. /\ DOMAIN n2id = {m \in DOMAIN n2u : n2u[m] \in DOMAIN symbols}
      /\ \A m \in DOMAIN n2id : n2id[m] = n2u[m]
  BY DEF Compiler!NameToSymbolID
<1> HIDE DEF n2u, n2id
<1>4. /\ g.winner \in DOMAIN n2id /\ n2id[g.winner] = n2u[g.winner]
      /\ \A m \in g.losers \cap DOMAIN n2u : m \in DOMAIN n2id /\ n2id[m] = n2u[m]
  BY <1>1, <1>2, <1>3
<1>5. /\ DOMAIN W = {m \in g.losers \cap DOMAIN n2id : n2id[m] # n2id[g.winner]}
      /\ \A l \in DOMAIN W : W[l] = n2id[l]
  BY DEF Compiler!LosersOf
<1> HIDE DEF W
<1>6. /\ \A l : l \in DOMAIN W <=> l \in g.losers \cap DOMAIN n2u /\ n2u[l] # n2u[g.winner]
      /\ \A l \in DOMAIN W : W[l] = n2u[l]
  BY <1>3, <1>4, <1>5
<1>7. W # <<>>
  BY <1>1, <1>6
<1> DEFINE h == [unit |-> k, names |-> g, winner |-> n2id[g.winner], losers |-> W]
<1>8. h \in Compiler!WritableGroups(k)
  BY <1>4, <1>7 DEF Compiler!WritableGroups, n2id, W
<1>9. h.unit = k /\ h.winner = n2u[g.winner] /\ h.losers = W
  BY <1>4
<1> HIDE DEF h
<1>10. \A u : u \in MembersOf(h) <=> u = n2u[g.winner] \/ \E l \in DOMAIN W : u = W[l]
  BY <1>9 DEF MembersOf
<1>11. \A u : u \in MembersOf(h) <=> u \in Compiler!GroupUSRs(k, g)
  BY <1>1, <1>6, <1>10
<1>12. Compiler!GroupUSRs(k, g) = MembersOf(h)
  BY <1>11
<1> QED
  BY <1>8, <1>9, <1>12

\* Every group that can be written is.
LEMMA InsertICFGroupsStep ==
    ASSUME CompilerParts, Compiler!InsertICFGroups
    PROVE  CompilerParts'
<1>1. /\ cpc = "icf" /\ cpc' = "done" /\ cat' = cat
      /\ UNCHANGED <<tus, symbols, resolves, calls, inlineOf, records>>
      /\ groups' = UNION {Compiler!WritableGroups(k) : k \in DOMAIN tus}
  BY DEF Compiler!InsertICFGroups
<1>2. cat \in Nat \ {0}
  BY DEF CompilerParts, UnitWalkInv
<1>3. UnitWalkInv' /\ ResolvesInv' /\ KeptInv' /\ MergedInv'
  BY <1>1, <1>2, SymbolsStay
<1>4. CallsInv'
  BY <1>1, CallsStay DEF Inserted
<1>5. /\ \A k, id : Compiler!Resolved(k, id)' <=> Compiler!Resolved(k, id)
      /\ \A k, g : Compiler!GroupUSRs(k, g)' = Compiler!GroupUSRs(k, g)
  BY <1>1, SameReferences
<1>6. RecordsInv'
  BY <1>1, <1>5 DEF CompilerParts, RecordsInv
<1>7. \A k \in DOMAIN tus : \A g \in tus[k].groups : Compiler!GroupUSRs(k, g) # {} =>
         \E h \in groups' : h.unit = k /\ Compiler!GroupUSRs(k, g) = MembersOf(h)
  BY <1>1, GroupWritten
<1>8. GroupsInv'
  BY <1>1, <1>5, <1>7 DEF GroupsInv, MembersOf
<1> QED
  BY <1>3, <1>4, <1>6, <1>8 DEF CompilerParts

\* Rollback leaves nothing.
LEMMA RollbackStep ==
    ASSUME CompilerParts, Compiler!Rollback
    PROVE  CompilerParts'
<1>1. /\ cpc = "icf" /\ cpc' = "failed" /\ cat' = cat /\ UNCHANGED <<tus, resolves>>
      /\ symbols' = <<>> /\ calls' = {} /\ inlineOf' = <<>>
  BY DEF Compiler!Rollback
<1>2. /\ \A k : NodeIds(k)' = NodeIds(k)
      /\ \A k, i : /\ Compiler!IsClone(k, i)' <=> Compiler!IsClone(k, i)
                   /\ OwnUSR(k, i)' = OwnUSR(k, i)
  BY <1>1, SameUnits
<1>3. \A k, i : ~Waiting(k, i) /\ ~Waiting(k, i)'
  BY <1>1 DEF Waiting
<1>4. UnitWalkInv'
  BY <1>1 DEF CompilerParts, UnitWalkInv
<1>5. ResolvesInv'
  BY <1>1, <1>2, <1>3 DEF CompilerParts, ResolvesInv
<1>6. KeptInv' /\ RecordsInv' /\ GroupsInv'
  BY <1>1 DEF KeptInv, RecordsInv, GroupsInv
<1>7. MergedInv'
  BY <1>1 DEF MergedInv
<1>8. CallsInv'
  <2>1. \A k : ~Inserted(k)'
    BY <1>1 DEF Inserted
  <2> QED
    BY <1>1, <2>1 DEF CallsInv
<1> QED
  BY <1>4, <1>5, <1>6, <1>7, <1>8 DEF CompilerParts

\* The pass starts with nothing read.
LEMMA CompilerInitially == PassInit => CompilerIInv
<1> SUFFICES ASSUME Compiler!Init PROVE CompilerParts
  BY DEF PassInit, CompilerIInv
<1>1. /\ tus \in Units /\ cpc = "aggregate" /\ cat = 1 /\ left = Compiler!NodesOf(1)
      /\ symbols = <<>> /\ resolves = [k \in DOMAIN tus |-> <<>>] /\ calls = {} /\ inlineOf = <<>>
  BY DEF Compiler!Init
<1>2. UnitWalkInv
  BY <1>1 DEF UnitWalkInv
<1>3. ASSUME NEW k \in DOMAIN tus, NEW i \in NodeIds(k) PROVE Waiting(k, i)
  <2>1. k \in Nat \ {0} /\ Compiler!NodesOf(k) = NodeIds(k)
    BY <1>1, UnitsAre
  <2> QED
    BY <1>1, <2>1 DEF Waiting
<1>4. \A k \in DOMAIN tus : DOMAIN resolves[k] = {}
  BY <1>1
<1>5. DOMAIN resolves = DOMAIN tus
  BY <1>1
<1>6. ResolvesInv
  BY <1>3, <1>4, <1>5 DEF ResolvesInv
<1>7. KeptInv /\ RecordsInv /\ GroupsInv
  BY <1>1, <1>4 DEF KeptInv, RecordsInv, GroupsInv
<1>8. MergedInv
  BY <1>1 DEF MergedInv
<1>9. CallsInv
  BY <1>1 DEF CallsInv, Inserted
<1> QED
  BY <1>2, <1>6, <1>7, <1>8, <1>9 DEF CompilerParts

\* A step that does not touch the pass's state.
LEMMA CompilerStill ==
    ASSUME CompilerIInv, UNCHANGED <<pass, compiler>>
    PROVE  CompilerIInv'
<1>1. UNCHANGED <<pass, tus, cpc, cat, left, symbols, resolves, calls, inlineOf, records, groups>>
  BY DEF compiler
<1> SUFFICES ASSUME CompilerParts PROVE CompilerParts'
  BY <1>1 DEF CompilerIInv
<1>2. /\ \A k : NodeIds(k)' = NodeIds(k) /\ Compiler!NodesOf(k)' = Compiler!NodesOf(k)
      /\ \A k, i : /\ Compiler!IsClone(k, i)' <=> Compiler!IsClone(k, i)
                   /\ OwnUSR(k, i)' = OwnUSR(k, i)
  BY <1>1, SameUnits
<1>3. \A k, i : Waiting(k, i)' <=> Waiting(k, i)
  BY <1>1 DEF Waiting
<1>4. UnitWalkInv'
  BY <1>1, <1>2 DEF CompilerParts, UnitWalkInv
<1>5. ResolvesInv'
  BY <1>1, <1>2, <1>3 DEF CompilerParts, ResolvesInv
<1>6. /\ Compiler!ReferencedUSRs' = Compiler!ReferencedUSRs
      /\ \A k, id : Compiler!Resolved(k, id)' <=> Compiler!Resolved(k, id)
      /\ \A k, g : Compiler!GroupUSRs(k, g)' = Compiler!GroupUSRs(k, g)
  BY <1>1, SameReferences
<1>7. KeptInv'
  BY <1>1, <1>6 DEF CompilerParts, KeptInv
<1>8. MergedInv'
  BY <1>1, SameMerges DEF CompilerParts
<1>9. CallsInv'
  BY <1>1, CallsStay DEF Inserted
<1>10. RecordsInv' /\ GroupsInv'
  BY <1>1, <1>6 DEF CompilerParts, RecordsInv, GroupsInv, MembersOf
<1> QED
  BY <1>4, <1>5, <1>7, <1>8, <1>9, <1>10 DEF CompilerParts

\* Every step of the pass, and of every other, keeps the invariant.
LEMMA CompilerStep == CompilerIInv /\ [PassNext]_passVars => CompilerIInv'
<1> SUFFICES ASSUME CompilerIInv, [PassNext]_passVars PROVE CompilerIInv'
  OBVIOUS
<1>1. CASE IngestCompiler
  <2>1. pass = "compiler" /\ pass' = pass /\ Compiler!Next
    BY <1>1 DEF IngestCompiler
  <2>2. CompilerParts
    BY <2>1 DEF CompilerIInv
  <2> SUFFICES ASSUME ~(UNCHANGED compiler) PROVE CompilerParts'
    BY <2>1, CompilerStill DEF CompilerIInv
  <2>3. CASE Compiler!AddSymbol
    <3>1. PICK id \in left : ~Compiler!IsClone(cat, id) /\ Compiler!Observe(id) /\ left' = left \ {id}
      BY <2>3 DEF Compiler!AddSymbol
    <3>2. cpc = "aggregate" /\ UNCHANGED <<tus, cpc, cat, calls, inlineOf>>
      BY <2>3 DEF Compiler!AddSymbol
    <3>3. cat \in DOMAIN tus /\ id \in NodeIds(cat)
      BY <2>2, <3>2, InUnit
    <3> QED
      BY <2>2, <3>1, <3>2, <3>3, Observing
  <2>4. CASE Compiler!SynthesizeParent
    <3>1. PICK id \in left : /\ Compiler!Parent(id) \notin DOMAIN resolves[cat]
                             /\ Compiler!Parent(id) \in Compiler!NodesOf(cat)
                             /\ Compiler!Observe(Compiler!Parent(id))
      BY <2>4 DEF Compiler!SynthesizeParent
    <3>2. cpc = "aggregate" /\ UNCHANGED <<tus, cpc, cat, left, calls, inlineOf>>
      BY <2>4 DEF Compiler!SynthesizeParent
    <3>3. cat \in DOMAIN tus
      BY <2>2, <3>2, InUnit
    <3>4. Compiler!Parent(id) \in NodeIds(cat)
      BY <3>1, <3>3 DEF Compiler!NodesOf, NodeIds
    <3> QED
      BY <2>2, <3>1, <3>2, <3>3, <3>4, Observing
  <2>5. CASE Compiler!AddClone
    BY <2>2, <2>5, AddCloneStep
  <2>6. CASE Compiler!SkipClone
    BY <2>2, <2>6, SkipCloneStep
  <2>7. CASE Compiler!NextUnit
    BY <2>2, <2>7, NextUnitStep
  <2>8. CASE Compiler!PruneUnreferenced
    BY <2>2, <2>8, PruneStep
  <2>9. CASE Compiler!InsertEdges
    BY <2>2, <2>9, InsertEdgesStep
  <2>10. CASE Compiler!InsertInlineRecords
    BY <2>2, <2>10, InsertInlineRecordsStep
  <2>11. CASE Compiler!InsertICFGroups
    BY <2>2, <2>11, InsertICFGroupsStep
  <2>12. CASE Compiler!Rollback
    BY <2>2, <2>12, RollbackStep
  <2>13. CASE Compiler!Done
    BY <2>13 DEF Compiler!Done, Compiler!vars, compiler
  <2> QED
    BY <2>1, <2>3, <2>4, <2>5, <2>6, <2>7, <2>8, <2>9, <2>10, <2>11, <2>12, <2>13 DEF Compiler!Next
<1>2. CASE ~IngestCompiler
  <2>1. UNCHANGED <<pass, compiler>>
    BY <1>2 DEF PassNext, IngestDwarf, IngestLink, IngestSources, passVars
  <2> QED
    BY <2>1, CompilerStill
<1> QED
  BY <1>1, <1>2

\* The prune of the symbol table keeps every row a later loop of the pass points at
\* and no other, although it is decided before any row exists (ingest.go
\* referencedUSRs, pruneUnreferenced).
THEOREM PruneAlwaysExact == PassSpec => []PruneIsExact
<1>1. CompilerIInv => PruneIsExact
  <2> SUFFICES ASSUME CompilerParts, cpc = "done"
               PROVE  /\ Compiler!NothingLost /\ Compiler!NoDeadRows
                      /\ calls \subseteq (DOMAIN symbols) \X (DOMAIN symbols)
    BY DEF CompilerIInv, PruneIsExact, Compiler!PruneIsExact
  <2>1. \A k \in DOMAIN tus : \A p \in Compiler!CallPairs(k) : Joins(k, p) => EdgeOf(k, p) \in calls
    BY DEF CompilerParts, CallsInv, Inserted
  <2>2. \A k \in DOMAIN tus : \A r \in tus[k].records :
           Compiler!Resolved(k, r.caller) /\ Compiler!Resolved(k, r.callee) =>
               <<k, resolves[k][r.caller], resolves[k][r.callee]>> \in records
    BY DEF CompilerParts, RecordsInv
  <2>3. \A k \in DOMAIN tus : \A g \in tus[k].groups : Compiler!GroupUSRs(k, g) # {} =>
           \E h \in groups : h.unit = k /\ Compiler!GroupUSRs(k, g) = MembersOf(h)
    BY DEF CompilerParts, GroupsInv
  <2>4. Compiler!NothingLost
    BY <2>1, <2>2, <2>3 DEF Compiler!NothingLost, Joins, EdgeOf, CallOf, MembersOf
  <2>5. Compiler!NoDeadRows
    <3> SUFFICES ASSUME NEW u \in DOMAIN symbols, u \in Compiler!ReferencedUSRs
                 PROVE  \/ \E e \in calls : u \in {e[1], e[2]}
                        \/ \E r \in records : u \in {r[2], r[3]}
                        \/ \E g \in groups : u \in MembersOf(g)
      BY DEF CompilerParts, KeptInv, Compiler!NoDeadRows, MembersOf
    <3>1. PICK k \in DOMAIN tus :
            \/ \E p \in Compiler!CallPairs(k) : Joins(k, p) /\ u \in {EdgeOf(k, p)[1], EdgeOf(k, p)[2]}
            \/ \E r \in tus[k].records :
                  /\ Compiler!Resolved(k, r.caller) /\ Compiler!Resolved(k, r.callee)
                  /\ u \in {resolves[k][r.caller], resolves[k][r.callee]}
            \/ \E g \in tus[k].groups : u \in Compiler!GroupUSRs(k, g)
      BY ReferencedIs
    <3>2. ASSUME NEW p \in Compiler!CallPairs(k), Joins(k, p), u \in {EdgeOf(k, p)[1], EdgeOf(k, p)[2]}
          PROVE  \E e \in calls : u \in {e[1], e[2]}
      BY <2>1, <3>2
    <3>3. ASSUME NEW r \in tus[k].records,
                 Compiler!Resolved(k, r.caller) /\ Compiler!Resolved(k, r.callee),
                 u \in {resolves[k][r.caller], resolves[k][r.callee]}
          PROVE  \E s \in records : u \in {s[2], s[3]}
      <4>1. <<k, resolves[k][r.caller], resolves[k][r.callee]>> \in records
        BY <2>2, <3>3
      <4> QED
        BY <3>3, <4>1
    <3>4. ASSUME NEW g \in tus[k].groups, u \in Compiler!GroupUSRs(k, g)
          PROVE  \E h \in groups : u \in MembersOf(h)
      BY <2>3, <3>4
    <3> QED
      BY <3>1, <3>2, <3>3, <3>4
  <2>6. calls \subseteq (DOMAIN symbols) \X (DOMAIN symbols)
    <3> SUFFICES ASSUME NEW e \in calls PROVE e \in (DOMAIN symbols) \X (DOMAIN symbols)
      OBVIOUS
    <3>1. PICK k \in DOMAIN tus : \E p \in Compiler!CallPairs(k) : Joins(k, p) /\ e = EdgeOf(k, p)
      BY DEF CompilerParts, CallsInv
    <3>2. PICK p \in Compiler!CallPairs(k) : Joins(k, p) /\ e = EdgeOf(k, p)
      BY <3>1
    <3>3. Compiler!HasRow(k, p[1]) /\ Compiler!HasRow(k, CallOf(k, p).target)
      BY <3>2, JoinsRows
    <3> QED
      BY <3>2, <3>3 DEF EdgeOf, Compiler!HasRow
  <2> QED
    BY <2>4, <2>5, <2>6
<1> QED
  BY <1>1, CompilerInitially, CompilerStep, PTL DEF PassSpec

\* What is stored of a symbol or a call does not depend on the order in which the
\* units are read (ingest.go mergeSymbol, collapseEdges).
THEOREM AlwaysOrderIndependent == PassSpec => []OrderIndependent
<1>1. CompilerIInv => OrderIndependent
  <2> SUFFICES ASSUME CompilerParts, cpc = "done"
               PROVE  Compiler!RowsAreMerged /\ Compiler!InlineIsAny
    BY DEF CompilerIInv, OrderIndependent, Compiler!OrderIndependent
  <2>1. \A k \in DOMAIN tus : \A i : i \in NodeIds(k) /\ ~Compiler!IsClone(k, i) <=>
           i \in DOMAIN resolves[k] /\ ~Compiler!IsClone(k, i)
    BY DEF CompilerParts, ResolvesInv, Waiting
  <2>2. ASSUME NEW u PROVE Compiler!Observations(u) = Seen(u)
    <3>1. \A o : o \in Compiler!Observations(u) <=>
             \E k \in DOMAIN tus : \E i \in NodeIds(k) :
                 /\ ~Compiler!IsClone(k, i) /\ OwnUSR(k, i) = u
                 /\ o = Compiler!RecordFor(tus[k], tus[k].nodes[i])
      <4> DEFINE plain(k) == {i \in DOMAIN tus[k].nodes :
                                 tus[k].nodes[i].cloneOf = "" /\ Compiler!USR(tus[k], tus[k].nodes[i]) = u}
                 rec(k, i) == Compiler!RecordFor(tus[k], tus[k].nodes[i])
                 recs(k) == {rec(k, i) : i \in plain(k)}
      <4>1. Compiler!Observations(u) = UNION {recs(k) : k \in DOMAIN tus}
        BY DEF Compiler!Observations
      <4>2. \A k, i : i \in plain(k) <=> i \in NodeIds(k) /\ ~Compiler!IsClone(k, i) /\ OwnUSR(k, i) = u
        BY DEF Compiler!IsClone, OwnUSR, NodeIds
      <4> HIDE DEF plain, rec
      <4>3. \A k, o : o \in recs(k) <=> \E i \in plain(k) : o = rec(k, i)
        OBVIOUS
      <4> HIDE DEF recs
      <4>4. \A o : o \in Compiler!Observations(u) <=> \E k \in DOMAIN tus : o \in recs(k)
        BY <4>1
      <4> QED
        BY <4>2, <4>3, <4>4 DEF rec
    <3>2. \A o : o \in Compiler!Observations(u) <=> o \in Seen(u)
      BY <2>1, <3>1, SeenIs
    <3> QED
      BY <3>2
  <2>3. Compiler!RowsAreMerged
    <3> SUFFICES ASSUME NEW u \in DOMAIN symbols, ~Compiler!CloneNamed(u)
                 PROVE  IsMergeOf(symbols[u], Compiler!Observations(u), Compiler!CloneTakesAddress(u))
      BY DEF Compiler!RowsAreMerged, IsMergeOf
    <3>1. IsMergeOf(symbols[u], Seen(u), Compiler!CloneTakesAddress(u))
      BY DEF CompilerParts, MergedInv
    <3> QED
      BY <2>2, <3>1
  <2>4. Compiler!InlineIsAny
    <3>1. \A e \in calls : inlineOf[e] <=>
             \E k \in DOMAIN tus : \E p \in Compiler!CallPairs(k) :
                 Joins(k, p) /\ CallOf(k, p).inlined /\ e = EdgeOf(k, p)
      BY DEF CompilerParts, CallsInv, Inserted
    <3> DEFINE c(k, p) == tus[k].nodes[p[1]].calls[p[2]]
    <3>2. \A k, p, e : Joins(k, p) /\ CallOf(k, p).inlined /\ e = EdgeOf(k, p) <=>
             /\ c(k, p).inlined /\ Compiler!Resolved(k, p[1]) /\ Compiler!Resolved(k, c(k, p).target)
             /\ e = <<resolves[k][p[1]], resolves[k][c(k, p).target]>>
      BY DEF Joins, CallOf, EdgeOf
    <3> HIDE DEF c
    <3> SUFFICES \A e \in calls : inlineOf[e] <=>
             \E k \in DOMAIN tus : \E p \in Compiler!CallPairs(k) :
                 /\ c(k, p).inlined /\ Compiler!Resolved(k, p[1]) /\ Compiler!Resolved(k, c(k, p).target)
                 /\ e = <<resolves[k][p[1]], resolves[k][c(k, p).target]>>
      BY Zenon DEF Compiler!InlineIsAny, c
    <3> QED
      BY <3>1, <3>2
  <2> QED
    BY <2>3, <2>4
<1> QED
  BY <1>1, CompilerInitially, CompilerStep, PTL DEF PassSpec
=============================================================================
