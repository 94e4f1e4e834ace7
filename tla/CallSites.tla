------------------------------ MODULE CallSites ------------------------------
(***************************************************************************)
(* One indirect call of an object: where it is written (resolveLine in     *)
(* internal/dwarfingest/reader.go) and what it dispatches through          *)
(* (indirectResolver in internal/dwarfingest/calltarget.go), told from the *)
(* call's return address, its DW_AT_call_target and the object's symbols,  *)
(* relocations and parameter types.                                        *)
(*                                                                         *)
(* A site carries its truth: via is the parameter, or the member of a      *)
(* variable, whose value was called.  Addresses are as in a relocatable    *)
(* object, where every section starts at 0.                                *)
(***************************************************************************)
EXTENDS Integers, Sequences, SequencesExt

CONSTANTS
    Sites,   \* the indirect calls, each with the object around it
    Extent,  \* Extent[s]: the size of the code of section s, for every section
    AddressTaken  \* the functions whose address is taken, each with its signature

VARIABLES
    site,    \* the call
    stage,   \* "line", "target", "reloc", "stored", "done"
    place,   \* section and offset whose line table row gave file and line
    answer,  \* CalleeType and FieldHint, as what they are taken from
    candidates \* what resolve_indirect_call answers about the site

vars == <<site, stage, place, answer, candidates>>

Nowhere == <<0, 0>>
Untold == [kind |-> "untold"]
Param(k) == [kind |-> "param", k |-> k]
Member(v, m, off) == [kind |-> "member", var |-> v, name |-> m, off |-> off]

-----------------------------------------------------------------------------
(* The calling convention: what each class of parameter takes of the six   *)
(* integer registers, when it still fits.                                  *)
argRegOrder == <<5, 4, 1, 2, 8, 9>>

Width(class) ==
    IF class \in {"fn", "int"} THEN 1 ELSE IF class \in {"int128", "pair"} THEN 2 ELSE 0

Taken(n, class) == IF n + Width(class) <= 6 THEN n + Width(class) ELSE n

\* Integer registers used by the result and the first n parameters: a large
\* result takes one.
Used(x) ==
    LET used[n \in 0..Len(x.params)] ==
            IF n = 0 THEN IF x.returns = "large" THEN 1 ELSE 0
            ELSE Taken(used[n - 1], x.params[n])
    IN  used

UsedBefore(x, k) == Used(x)[k - 1]

InRegister(x, k) == UsedBefore(x, k) < 6

\* DW_AT_call_target: GCC describes a pointer that was a parameter in a register
\* as that register's value on entry, on AArch64 with that machine's numbers; one
\* it kept in a saved register by its number (3 is rbx), and others not at all.
CallTarget(x) ==
    IF x.via.kind = "param" /\ InRegister(x, x.via.k)
    THEN [form |-> "entry", reg |-> IF x.machine = "amd64"
                                    THEN argRegOrder[UsedBefore(x, x.via.k) + 1]
                                    ELSE UsedBefore(x, x.via.k)]
    ELSE x.saved

\* The relocations of the section the function's symbol is in.  A call through
\* a variable has one on its displacement, against the variable's symbol or, if it
\* is static, against its section; where the call is in another section, what
\* lies at its offset here belongs to other code.
RelocAt(x) ==
    IF x.home # "own" THEN x.alias
    ELSE IF x.via.kind # "member" THEN {}
    ELSE {[sym |-> IF x.via.var \in x.statics THEN "" ELSE x.via.var, addend |-> x.via.off - 4]}

-----------------------------------------------------------------------------
Init ==
    /\ site \in Sites
    /\ stage = "line" /\ place = Nowhere /\ answer = Untold /\ candidates = {}

\* SeekPC: rows are scanned in order, and the sequence of every section starts
\* at 0, so the first section long enough has the row.
SeekPC(off) ==
    LET long == {s \in DOMAIN Extent : off < Extent[s]}
    IN  IF long = {} THEN Nowhere ELSE <<CHOOSE s \in long : \A t \in long : s <= t, off>>

\* parseCallSite: call_file and call_line when GCC gave them, else the row of
\* the byte before the return address.  A site without either is dropped.
ResolveLine ==
    /\ stage = "line"
    /\ place' = IF site.located THEN <<site.section, site.returnPC - 1>> ELSE SeekPC(site.returnPC - 1)
    /\ stage' = IF place' = Nowhere THEN "done" ELSE "target"
    /\ UNCHANGED <<site, answer, candidates>>

\* decodeRegExpr: the register of the forms it recognises.
Register(expr) == IF expr.form \in {"entry", "plain"} THEN {expr.reg} ELSE {}

\* isIntegerClass, on the types the enclosing entry itself gives: a concrete
\* instance of an abstract function has its parameters' types elsewhere.
IsIntegerClass(x, k) == x.typed /\ x.params[k] \in {"fn", "int"}

\* Mutant of ArgIndex: a parameter that is not an integer is stepped over.
ArgIndexSkipping(x, reg) ==
    LET ints == SelectSeq([k \in DOMAIN x.params |-> k], LAMBDA k : IsIntegerClass(x, k))
    IN  {ints[j] : j \in {j \in DOMAIN ints : j <= 6 /\ argRegOrder[j] = reg}}

\* argIndexForReg: the parameter in the register, if every one up to it takes
\* one integer register.
ArgIndex(x, reg) ==
    {k \in DOMAIN x.params :
        /\ k <= 6 /\ argRegOrder[k] = reg
        /\ \A j \in 1..k : IsIntegerClass(x, j)}

\* resolveViaCallTarget: declined where the function returns an aggregate, and
\* for a parameter that is no pointer to a function (fnPtrSignature).
ViaCallTarget(x) ==
    IF x.typed /\ x.returns \in {"aggregate", "large"} THEN {}
    ELSE {Param(k) : k \in {k \in UNION {ArgIndex(x, r) : r \in Register(CallTarget(x))} :
                              x.params[k] = "fn"}}

\* resolve: not on another machine.
ResolveViaCallTarget ==
    /\ stage = "target"
    /\ LET found == IF site.machine = "amd64" THEN ViaCallTarget(site) ELSE {} IN
       /\ answer' = IF found = {} THEN Untold ELSE CHOOSE p \in found : TRUE
       /\ stage' = IF found # {} \/ site.machine # "amd64" THEN "stored" ELSE "reloc"
    /\ UNCHANGED <<site, place, candidates>>

\* funcSyms and the range check: the symbol of the enclosing function's name
\* covers the return address, its end included.
SymbolCovers(x) == x.symbol # <<>> /\ x.symbol[1] <= x.returnPC /\ x.returnPC <= x.symbol[2]

\* resolveMember: the places of the members at the addressed byte of the variable.
MembersAt(x, rel) ==
    {k \in DOMAIN x.vars[rel.sym] : x.vars[rel.sym][k].off = rel.addend + 4}

\* The first of them.
MemberAt(x, rel) ==
    x.vars[rel.sym][CHOOSE k \in MembersAt(x, rel) : \A j \in MembersAt(x, rel) : k <= j]

\* resolveViaReloc: the relocation of the call's last four bytes, the variable it
\* names if the unit has its type, and the first member there, if that is a named
\* pointer to a function.
ViaReloc(x) ==
    LET usable == {r \in RelocAt(x) : SymbolCovers(x) /\ r.sym \in DOMAIN x.vars}
        hits == {r \in usable : MembersAt(x, r) # {} /\ MemberAt(x, r).fn}
    IN  {Member(r.sym, MemberAt(x, r).name, MemberAt(x, r).off) : r \in hits}

ResolveViaReloc ==
    /\ stage = "reloc" /\ stage' = "stored"
    /\ answer' = IF ViaReloc(site) = {} THEN Untold ELSE CHOOSE m \in ViaReloc(site) : TRUE
    /\ UNCHANGED <<site, place, candidates>>

\* The signature of the pointer that is said to be called: CalleeType.
CalleeType(x, said) ==
    IF said.kind = "param" THEN x.types[said.k]
    ELSE (CHOOSE m \in ToSet(x.vars[said.var]) : m.name = said.name).type

\* resolve_indirect_call: the address-taken functions of the stored type, and
\* every address-taken function when none is stored.
ResolveIndirectCall ==
    /\ stage = "stored" /\ stage' = "done"
    /\ candidates' = {f \in AddressTaken :
                        answer # Untold => f.signature = CalleeType(site, answer)}
    /\ UNCHANGED <<site, place, answer>>

Done == stage = "done" /\ UNCHANGED vars

Next == ResolveLine \/ ResolveViaCallTarget \/ ResolveViaReloc \/ ResolveIndirectCall \/ Done

Spec == Init /\ [][Next]_vars

-----------------------------------------------------------------------------
\* The replay of the calling convention is exact as far as it goes.
Replayable(x) ==
    /\ x.machine = "amd64" /\ x.typed /\ x.returns = "scalar"
    /\ \A j \in 1..x.via.k : IsIntegerClass(x, j)
    /\ x.via.k <= 6

\* A union may have several pointers at the called place.
Shared(x) ==
    /\ x.via.kind = "member" /\ x.via.var \in DOMAIN x.vars
    /\ \E m \in ToSet(x.vars[x.via.var]) : m.off = x.via.off /\ m.name # x.via.name

\* What resolve has the evidence to tell.
Told(x) ==
    \/ x.via.kind = "param" /\ Replayable(x)
    \/ x.via.kind = "member" /\ x.machine = "amd64" /\ x.via.var \in (DOMAIN x.vars) \ x.statics

\* resolve_indirect_call never leaves out a function the call may reach: whatever
\* the calling convention did with the parameters before the pointer, the types
\* stored for a call in its function's own section are those of the pointer that
\* was really called (of a union's members the first is taken, so those are left
\* aside).  And where the evidence suffices the answer is narrowed to that type
\* (calltarget.go resolve: "a wrong answer here silently narrows
\* resolve_indirect_call to the wrong candidates").
NoCandidateLost ==
    stage = "done" /\ place # Nowhere /\ site.home = "own" /\ ~Shared(site) =>
        /\ answer # Untold => answer = site.via
        /\ Told(site) => candidates = {f \in AddressTaken : f.signature = CalleeType(site, site.via)}
        /\ ~Told(site) /\ answer = Untold => candidates = AddressTaken

\* reader.go says of the byte before the return address that it "maps to its
\* source line": the row found for a call is the row of that call.
LineIsTheCalls ==
    place # Nowhere => place = <<site.section, site.returnPC - 1>>
=============================================================================
