----------------------------- MODULE ToolsProof -----------------------------
(***************************************************************************)
(* Proofs about the MCP tools that compute (Tools): list_source_drift      *)
(* reports truly on a checkout that is being edited, explain_call's        *)
(* verdict is the whole evidence's, list_call_paths answers with exactly   *)
(* the simple paths of the graph, search_source's rows and counts are      *)
(* those of all the matches, and the eighteen query tools agree on a       *)
(* target, for every index.                                                *)
(***************************************************************************)
EXTENDS Tools, Lemmas

-----------------------------------------------------------------------------
(* list_source_drift: source_tools.go handleListSourceDrift.               *)

Files == ToSet(SourcePaths)
Stamps == Contents \cup {Drift!Gone, Drift!Unreadable}

\* What the checkout was and is; nothing was it that it did not become.
CheckoutInv ==
    /\ indexed \in [Files -> Contents] /\ wanted \in SUBSET Files /\ live \in [Files -> Stamps]
    /\ past \in [Files -> SUBSET Stamps] /\ \A p \in Files : live[p] \in past[p]
    /\ saves \in Nat /\ (saves = 0 => \A p \in Files : past[p] = {live[p]})

CursorInv ==
    /\ cursor \in 1..(Len(SourcePaths) + 1)
    /\ outcome \in {"running", "ok", "error", "refused"}
    /\ outcome = "ok" => cursor = Len(SourcePaths) + 1

\* The rows before the cursor that the request admits.
Compared == {i \in DOMAIN SourcePaths : i < cursor /\ SourcePaths[i] \in wanted}

CheckedInv == checked = Cardinality(Compared)

\* Every entry of the report was true when it was written.
DriftedInv ==
    /\ drifted \in Seq([path : Files, live : Stamps])
    /\ \A k \in DOMAIN drifted :
          /\ drifted[k].path \in wanted /\ drifted[k].live \in past[drifted[k].path]
          /\ drifted[k].live \notin {indexed[drifted[k].path], Drift!Unreadable}

\* A row without an entry held the packed bytes, and none failed yet.
OmittedInv ==
    outcome \in {"running", "ok"} => \A i \in Compared :
        /\ \/ \E k \in DOMAIN drifted : drifted[k].path = SourcePaths[i]
           \/ indexed[SourcePaths[i]] \in past[SourcePaths[i]]
        /\ saves = 0 => live[SourcePaths[i]] # Drift!Unreadable

FailedInv ==
    outcome = "error" /\ saves = 0 => \E p \in wanted : live[p] = Drift!Unreadable

DriftParts == CheckoutInv /\ CursorInv /\ CheckedInv /\ DriftedInv /\ OmittedInv /\ FailedInv

DriftIInv == tool = "list_source_drift" => DriftParts

\* SourcePaths is a sequence.
LEMMA DriftFacts ==
    /\ Len(SourcePaths) \in Nat /\ DOMAIN SourcePaths = 1..Len(SourcePaths)
    /\ \A i \in DOMAIN SourcePaths : SourcePaths[i] \in Files
    /\ Drift!All = Files /\ Drift!States = Stamps /\ \A s : Drift!ToSet(s) = ToSet(s)
<1>1. \A s : Drift!ToSet(s) = ToSet(s)
  BY DEF Drift!ToSet, ToSet
<1> QED
  BY <1>1, DriftAssumption DEF Files, Stamps, Drift!All, Drift!States, ToSet

\* Somebody saves or removes a file.
LEMMA SaveStep ==
    ASSUME DriftParts, NEW p \in Files, NEW c \in Stamps, Drift!Save(p, c)
    PROVE  DriftParts'
<1>1. /\ outcome = "running" /\ live' = [live EXCEPT ![p] = c]
      /\ past' = [past EXCEPT ![p] = @ \cup {c}] /\ saves' = saves + 1
      /\ UNCHANGED <<indexed, wanted, cursor, drifted, checked, outcome>>
  BY DEF Drift!Save
<1>2. CheckoutInv'
  BY <1>1 DEF DriftParts, CheckoutInv
<1>3. saves' # 0 /\ \A f \in Files : past[f] \subseteq past'[f]
  BY <1>1 DEF DriftParts, CheckoutInv
<1>4. Compared' = Compared
  BY <1>1 DEF Compared
<1>5. CursorInv' /\ CheckedInv'
  BY <1>1, <1>4 DEF DriftParts, CursorInv, CheckedInv
<1>6. DriftedInv'
  BY <1>1, <1>3 DEF DriftParts, DriftedInv, CheckoutInv
<1>7. OmittedInv'
  BY <1>1, <1>3, <1>4, DriftFacts DEF DriftParts, OmittedInv, Compared
<1>8. FailedInv'
  BY <1>3 DEF FailedInv
<1> QED
  BY <1>2, <1>5, <1>6, <1>7, <1>8 DEF DriftParts

\* A row the request does not admit.
LEMMA SkipPathStep ==
    ASSUME DriftParts, Drift!SkipPath
    PROVE  DriftParts'
<1>1. /\ outcome = "running" /\ cursor \in DOMAIN SourcePaths
      /\ SourcePaths[cursor] \notin wanted /\ cursor' = cursor + 1
      /\ UNCHANGED <<indexed, wanted, live, past, saves, drifted, checked, outcome>>
  BY DEF Drift!SkipPath
<1>2. cursor \in 1..Len(SourcePaths) /\ Len(SourcePaths) \in Nat
  BY <1>1, DriftFacts
<1>3. \A i \in DOMAIN SourcePaths : i < cursor + 1 <=> i < cursor \/ i = cursor
  BY <1>2, DriftFacts
<1>4. Compared' = Compared
  BY <1>1, <1>3 DEF Compared
<1>5. CursorInv'
  BY <1>1, <1>2 DEF DriftParts, CursorInv
<1>6. CheckoutInv' /\ CheckedInv' /\ DriftedInv' /\ OmittedInv' /\ FailedInv'
  BY <1>1, <1>4 DEF DriftParts, CheckoutInv, CheckedInv, DriftedInv, OmittedInv, FailedInv
<1> QED
  BY <1>5, <1>6 DEF DriftParts

\* A row is read and compared.
LEMMA CompareStep ==
    ASSUME DriftParts, Drift!Compare
    PROVE  DriftParts'
<1>1. PICK p : p = SourcePaths[cursor]
  OBVIOUS
<1>2. /\ outcome = "running" /\ cursor \in DOMAIN SourcePaths /\ p \in wanted
      /\ checked' = checked + 1 /\ cursor' = cursor + 1
      /\ outcome' = IF live[p] = Drift!Unreadable THEN "error" ELSE "running"
      /\ drifted' = IF live[p] # Drift!Unreadable /\ live[p] # indexed[p]
                    THEN Append(drifted, [path |-> p, live |-> live[p]]) ELSE drifted
      /\ UNCHANGED <<indexed, wanted, live, past, saves>>
  BY <1>1 DEF Drift!Compare, Drift!Entry
<1>3. cursor \in 1..Len(SourcePaths) /\ Len(SourcePaths) \in Nat /\ p \in Files
  BY <1>1, <1>2, DriftFacts
<1>4. \A i \in DOMAIN SourcePaths : i < cursor + 1 <=> i < cursor \/ i = cursor
  BY <1>3, DriftFacts
<1>5. Compared' = Compared \cup {cursor} /\ cursor \notin Compared
  BY <1>1, <1>2, <1>3, <1>4 DEF Compared
<1>6. CheckoutInv' /\ CursorInv'
  BY <1>2, <1>3 DEF DriftParts, CheckoutInv, CursorInv
<1>7. CheckedInv'
  <2>1. IsFiniteSet(Compared)
    <3>1. IsFiniteSet(1..Len(SourcePaths))
      BY <1>3, RankInterval
    <3>2. Compared \in SUBSET (1..Len(SourcePaths))
      BY DriftFacts DEF Compared
    <3> QED
      BY <3>1, <3>2, FS_Subset, Zenon
  <2>2. Cardinality(Compared') = Cardinality(Compared) + 1
    BY <1>5, <2>1, FS_AddElement
  <2> QED
    BY <1>2, <2>2 DEF DriftParts, CheckedInv
<1>8. /\ live[p] \in past[p] /\ live[p] \in Stamps
  BY <1>3 DEF DriftParts, CheckoutInv
<1>9. DriftedInv' /\ DOMAIN drifted \subseteq DOMAIN drifted'
      /\ \A k \in DOMAIN drifted : drifted'[k] = drifted[k]
  <2> DEFINE e == [path |-> p, live |-> live[p]]
  <2>1. drifted \in Seq([path : Files, live : Stamps]) /\ e \in [path : Files, live : Stamps]
    BY <1>3, <1>8 DEF DriftParts, DriftedInv
  <2>2. CASE drifted' = drifted
    BY <1>2, <2>2 DEF DriftParts, DriftedInv
  <2>3. CASE /\ drifted' = Append(drifted, e)
             /\ live[p] # Drift!Unreadable /\ live[p] # indexed[p]
    <3>1. /\ drifted' \in Seq([path : Files, live : Stamps])
          /\ DOMAIN drifted' = DOMAIN drifted \cup {Len(drifted) + 1}
          /\ drifted'[Len(drifted) + 1] = e
          /\ \A k \in DOMAIN drifted : drifted'[k] = drifted[k]
      BY <2>1, <2>3
    <3>2. e.path = p /\ e.live = live[p]
      OBVIOUS
    <3> HIDE DEF e
    <3> QED
      BY <1>2, <1>8, <2>3, <3>1, <3>2 DEF DriftParts, DriftedInv
  <2> QED
    BY <1>2, <2>2, <2>3
<1>10. OmittedInv'
  <2> SUFFICES ASSUME outcome' # "error", NEW i \in Compared'
               PROVE  /\ \/ \E k \in DOMAIN drifted' : drifted'[k].path = SourcePaths[i]
                         \/ indexed[SourcePaths[i]] \in past[SourcePaths[i]]
                      /\ saves = 0 => live[SourcePaths[i]] # Drift!Unreadable
    BY <1>2 DEF OmittedInv
  <2>1. CASE i \in Compared
    BY <1>2, <1>9, <2>1 DEF DriftParts, OmittedInv
  <2>2. CASE i = cursor
    <3>1. live[p] # Drift!Unreadable
      BY <1>2
    <3>2. CASE live[p] = indexed[p]
      BY <1>1, <1>8, <2>2, <3>1, <3>2
    <3>3. CASE live[p] # indexed[p]
      <4>1. drifted' = Append(drifted, [path |-> p, live |-> live[p]])
        BY <1>2, <3>1, <3>3
      <4>2. drifted \in Seq([path : Files, live : Stamps])
        BY DEF DriftParts, DriftedInv
      <4>3. Len(drifted) + 1 \in DOMAIN drifted' /\ drifted'[Len(drifted) + 1].path = p
        BY <1>3, <1>8, <4>1, <4>2
      <4> QED
        BY <1>1, <2>2, <3>1, <4>3
    <3> QED
      BY <3>2, <3>3
  <2> QED
    BY <1>5, <2>1, <2>2
<1>11. FailedInv'
  BY <1>2 DEF FailedInv
<1> QED
  BY <1>6, <1>7, <1>9, <1>10, <1>11 DEF DriftParts

\* Nothing changes.
LEMMA DriftStill ==
    ASSUME DriftParts, UNCHANGED drift
    PROVE  DriftParts'
<1>1. UNCHANGED <<indexed, wanted, live, past, saves, cursor, drifted, checked, outcome>>
  BY DEF drift
<1>2. Compared' = Compared
  BY <1>1 DEF Compared
<1> QED
  BY <1>1, <1>2 DEF DriftParts, CheckoutInv, CursorInv, CheckedInv, DriftedInv, OmittedInv,
                    FailedInv

\* Every step of list_source_drift and of the editor keeps the invariant.
LEMMA DriftSteps ==
    ASSUME DriftParts, Drift!Next
    PROVE  DriftParts'
<1>1. ASSUME NEW p \in Files, NEW c \in Stamps, Drift!Save(p, c) PROVE DriftParts'
  BY <1>1, SaveStep
<1>2. CASE Drift!SkipPath
  BY <1>2, SkipPathStep
<1>3. CASE Drift!Compare
  BY <1>3, CompareStep
<1>4. CASE Drift!Answer
  <2>1. /\ outcome = "running" /\ cursor \notin DOMAIN SourcePaths /\ outcome' = "ok"
        /\ UNCHANGED <<indexed, wanted, live, past, saves, cursor, drifted, checked>>
    BY <1>4 DEF Drift!Answer
  <2>2. cursor = Len(SourcePaths) + 1
    BY <2>1, DriftFacts DEF DriftParts, CursorInv
  <2>3. Compared' = Compared
    BY <2>1 DEF Compared
  <2> QED
    BY <2>1, <2>2, <2>3 DEF DriftParts, CheckoutInv, CursorInv, CheckedInv, DriftedInv,
                            OmittedInv, FailedInv
<1>5. CASE Drift!Done
  BY <1>5, DriftStill DEF Drift!Done, Drift!vars, drift
<1> QED
  BY <1>1, <1>2, <1>3, <1>4, <1>5, DriftFacts DEF Drift!Next

\* The invariant holds when the call begins.
LEMMA DriftInitially == ToolInit => DriftIInv
<1> SUFFICES ASSUME ToolInit, tool = "list_source_drift" PROVE DriftParts
  BY DEF DriftIInv
<1>1. Drift!Init
  BY DEF ToolInit
<1>2. /\ indexed \in [Files -> Contents] /\ wanted \in SUBSET Files
      /\ live \in [Files -> Stamps] /\ past = [p \in Files |-> {live[p]}] /\ saves = 0
      /\ cursor = 1 /\ drifted = <<>> /\ checked = 0 /\ outcome \in {"running", "refused"}
  BY <1>1, DriftFacts DEF Drift!Init
<1>3. Compared = {}
  BY <1>2, DriftFacts DEF Compared
<1>4. CheckoutInv
  BY <1>2 DEF CheckoutInv
<1>5. CursorInv /\ DriftedInv
  BY <1>2, DriftFacts DEF CursorInv, DriftedInv
<1>6. CheckedInv /\ OmittedInv /\ FailedInv
  BY <1>2, <1>3, FS_EmptySet DEF CheckedInv, OmittedInv, FailedInv
<1> QED
  BY <1>4, <1>5, <1>6 DEF DriftParts

\* Every step keeps it.
LEMMA DriftStep ==
    ASSUME DriftIInv, [ToolNext]_<<tool, vars, explain, search, drift, query>>
    PROVE  DriftIInv'
<1>1. tool' = tool
  BY DEF ToolNext, ListCallPaths, ExplainCall, SearchSource, ListSourceDrift, AskQueries
<1> SUFFICES ASSUME tool = "list_source_drift" PROVE DriftParts'
  BY <1>1 DEF DriftIInv
<1>2. DriftParts
  BY DEF DriftIInv
<1>3. CASE ListSourceDrift
  BY <1>2, <1>3, DriftSteps DEF ListSourceDrift
<1>4. CASE UNCHANGED <<tool, vars, explain, search, drift, query>>
  BY <1>2, <1>4, DriftStill
<1> QED
  BY <1>3, <1>4 DEF ToolNext, ListCallPaths, ExplainCall, SearchSource, AskQueries

\* For every checkout, edited at any moment, a drift report is true file by file, and
\* agrees with verify_source when nothing was edited (source_tools.go).
THEOREM DriftAlwaysExact == ToolSpec => []DriftExact
<1>1. DriftIInv => DriftExact
  <2> SUFFICES ASSUME DriftParts PROVE Drift!DriftIsTrue
    BY DEF DriftIInv, DriftExact
  <2>1. \A S : Drift!Cardinality(S) = Cardinality(S)
    BY DEF Drift!Cardinality, Cardinality
  <2>2. /\ \A d \in ToSet(drifted) : \E k \in DOMAIN drifted : d = drifted[k]
        /\ \A k \in DOMAIN drifted : drifted[k] \in ToSet(drifted)
    BY DEF ToSet
  <2>3. \A d \in ToSet(drifted) :
            /\ d.path \in wanted /\ d.live \in past[d.path]
            /\ d.live \notin {indexed[d.path], Drift!Unreadable}
    BY <2>2 DEF DriftParts, DriftedInv
  <2>4. outcome = "ok" => Compared = {i \in DOMAIN SourcePaths : SourcePaths[i] \in wanted}
    BY DriftFacts DEF DriftParts, CursorInv, Compared
  <2>5. \A p \in wanted : \E i \in DOMAIN SourcePaths : SourcePaths[i] = p
    BY DEF DriftParts, CheckoutInv, Files, ToSet
  <2>6. ASSUME outcome = "ok", NEW p \in wanted
        PROVE  /\ \/ \E d \in ToSet(drifted) : d.path = p
                  \/ indexed[p] \in past[p]
               /\ saves = 0 => live[p] # Drift!Unreadable
    BY <2>2, <2>4, <2>5, <2>6 DEF DriftParts, OmittedInv
  <2>7. ASSUME outcome = "ok"
        PROVE  /\ checked = Cardinality({i \in DOMAIN SourcePaths : SourcePaths[i] \in wanted})
               /\ \A p \in wanted :
                     /\ \A d \in {x \in ToSet(drifted) : x.path = p} :
                           d.live \in past[p] /\ d.live # indexed[p]
                     /\ {x \in ToSet(drifted) : x.path = p} = {} => indexed[p] \in past[p]
    BY <2>3, <2>4, <2>6, <2>7, Zenon DEF DriftParts, CheckedInv
  <2>8. ASSUME outcome \in {"ok", "error"}, saves = 0
        PROVE  /\ outcome = "error" <=> \E p \in wanted : Drift!VerifySource(p) = "error"
               /\ outcome = "ok" =>
                     {d.path : d \in ToSet(drifted)} =
                         {p \in wanted : Drift!VerifySource(p) \in {"missing", "differs"}}
    <3>1. \A p \in wanted : p \in Files /\ past[p] = {live[p]} /\ indexed[p] \in Contents
      BY <2>8 DEF DriftParts, CheckoutInv
    <3>2. \A p \in wanted :
              /\ Drift!VerifySource(p) = "error" <=> live[p] = Drift!Unreadable
              /\ Drift!VerifySource(p) \in {"missing", "differs"} <=>
                    live[p] # Drift!Unreadable /\ live[p] # indexed[p]
      BY <3>1, DriftAssumption DEF Drift!VerifySource, Drift!Gone, Drift!Unreadable
    <3>3. outcome = "error" <=> \E p \in wanted : live[p] = Drift!Unreadable
      BY <2>6, <2>8 DEF DriftParts, FailedInv
    <3>4. ASSUME outcome = "ok"
          PROVE  {d.path : d \in ToSet(drifted)} =
                     {p \in wanted : live[p] # Drift!Unreadable /\ live[p] # indexed[p]}
      <4>1. \A d \in ToSet(drifted) :
                d.path \in wanted /\ live[d.path] # Drift!Unreadable /\ live[d.path] # indexed[d.path]
        BY <2>3, <3>1
      <4>2. \A p \in wanted : live[p] # indexed[p] => \E d \in ToSet(drifted) : d.path = p
        BY <2>6, <3>1, <3>4
      <4> QED
        BY <4>1, <4>2
    <3> QED
      BY <3>2, <3>3, <3>4
  <2> QED
    BY <2>1, <2>7, <2>8, DriftFacts DEF Drift!DriftIsTrue
<1> QED
  BY <1>1, DriftInitially, DriftStep, PTL DEF ToolSpec

-----------------------------------------------------------------------------
(* explain_call: callgraph_runtime_tools.go handleExplainCall.             *)

Span(s) == {s[i] : i \in DOMAIN s}

\* The rows of the pair, and what the two queries returned of them.
EvidenceInv ==
    /\ recs \in Seq(Explain!Records) /\ insts \in Seq(Objects)
    /\ records \in Seq(Explain!Records) /\ instances \in Seq(Objects)
    /\ stage \in {"query", "fold", "done"}
    /\ stage # "query" /\ Explain!InScan =>
          Span(records) = Span(recs) /\ Span(instances) = Span(insts)

EchoInv == stage # "query" => Len(echo.records) <= RowLimit /\ Len(echo.instances) <= RowLimit

NextInv ==
    /\ next \in 0..(Len(instances) + Len(records))
    /\ stage = "query" => next = 0
    /\ stage = "done" => next = Len(instances) + Len(records)

\* The rows folded so far.
FoldedInstances == {k \in DOMAIN instances : k <= next}
FoldedRecords == {k \in DOMAIN records : k + Len(instances) <= next}

\* The accumulator of o is what the folded rows say of o.
AccOf(o, a) ==
    /\ a.seen <=> \/ \E k \in FoldedInstances : instances[k] = o
                  \/ \E k \in FoldedRecords : records[k].object = o
    /\ a.hasInstance <=> \E k \in FoldedInstances : instances[k] = o
    /\ a.inlined <=> \E k \in FoldedRecords : records[k].object = o /\ records[k].inlined

\* The reason it would give: a declining remark of its own, and of the IPA pass if
\* that left one.
ReasonOf(o, a) ==
    /\ (\E k \in FoldedRecords : records[k].object = o /\ ~records[k].inlined) =>
          \E k \in FoldedRecords :
              /\ records[k].object = o /\ ~records[k].inlined
              /\ a.declPass = records[k].pass /\ a.declReason = records[k].reason
    /\ (\E k \in FoldedRecords : /\ records[k].object = o /\ ~records[k].inlined
                                 /\ records[k].pass = "inline") => a.declPass = "inline"
    /\ a.declPass = "inline" =>
          \E k \in FoldedRecords : records[k].object = o /\ ~records[k].inlined

AccInv ==
    /\ DOMAIN acc = Objects
    /\ \A o \in Objects : \A a : a = acc[o] => AccOf(o, a) /\ ReasonOf(o, a)

ResponseInv ==
    stage = "done" =>
        /\ \A per : per = response.perObject =>
              /\ \A o \in Objects : \A a : a = acc[o] => per[o] = Explain!OneVerdict(a)
              /\ response.verdict = Explain!Overall(per)
        /\ response.verdict = "declined" => response.reason = Explain!FirstReason

VerdictParts == EvidenceInv /\ EchoInv /\ NextInv /\ AccInv /\ ResponseInv

VerdictIInv == tool = "explain_call" => VerdictParts

-----------------------------------------------------------------------------
\* The fields of a row.
LEMMA RecordFields ==
    \A r \in Explain!Records : r.object \in Objects /\ r.pass \in {"einline", "inline"}
BY DEF Explain!Records

\* ORDER BY pass loses no row and adds none.
LEMMA ByPassHolds ==
    ASSUME NEW s \in Seq(Explain!Records)
    PROVE  /\ Explain!ByPass(s) \in Seq(Explain!Records)
           /\ Len(Explain!ByPass(s)) = Len(s) /\ Span(Explain!ByPass(s)) = Span(s)
<1> DEFINE R == Explain!Records
           E == {i \in DOMAIN s : s[i].pass = "einline"}
           I == {i \in DOMAIN s : s[i].pass = "inline"}
<1>1. /\ DOMAIN s = 1..Len(s) /\ Len(s) \in Nat /\ \A i \in DOMAIN s : s[i] \in R
  OBVIOUS
<1>2. E \cup I = 1..Len(s) /\ E \cap I = {}
  BY <1>1, RecordFields
<1>3. IsFiniteSet(1..Len(s)) /\ Cardinality(1..Len(s)) = Len(s)
  BY <1>1, RankInterval
<1>4. IsFiniteSet(E) /\ IsFiniteSet(I)
  <2>1. E \in SUBSET (1..Len(s)) /\ I \in SUBSET (1..Len(s))
    BY <1>2
  <2> QED
    BY <1>3, <2>1, FS_Subset
<1>5. E \in SUBSET Nat /\ I \in SUBSET Nat /\ (\A i \in E : s[i] \in R) /\ (\A i \in I : s[i] \in R)
  BY <1>1
<1> DEFINE e == Selected(E, s)
           n == Selected(I, s)
<1>6. Explain!ByPass(s) = e \o n
  <2>1. \A S, f : Explain!Selected(S, f) = Selected(S, f)
    BY DEF Explain!Selected, Selected, Explain!Rank, Rank, Explain!Cardinality, Cardinality
  <2> QED
    BY <2>1, Zenon DEF Explain!ByPass
<1> HIDE DEF E, I, R
<1>7. /\ Cardinality(E) \in Nat /\ e \in [1..Cardinality(E) -> {s[i] : i \in E}]
      /\ \A i \in E : \E r \in 1..Cardinality(E) : e[r] = s[i]
  BY <1>4, <1>5, SelectedHolds, Zenon
<1>8. /\ Cardinality(I) \in Nat /\ n \in [1..Cardinality(I) -> {s[i] : i \in I}]
      /\ \A i \in I : \E r \in 1..Cardinality(I) : n[r] = s[i]
  BY <1>4, <1>5, SelectedHolds, Zenon
<1>9. Cardinality(E) + Cardinality(I) = Len(s)
  <2>1. Cardinality(E \cup I) = Cardinality(E) + Cardinality(I) - Cardinality(E \cap I)
    BY <1>4, FS_Union
  <2>2. Cardinality(E \cap I) = 0
    BY <1>2, FS_EmptySet, Zenon
  <2>3. Cardinality(E \cup I) = Len(s)
    BY <1>2, <1>3, Zenon
  <2>4. Cardinality(E) \in Nat /\ Cardinality(I) \in Nat
    BY <1>4, FS_CardinalityType
  <2> QED
    BY <2>1, <2>2, <2>3, <2>4
<1> HIDE DEF e, n
<1>10. e \in Seq(R) /\ Len(e) = Cardinality(E) /\ n \in Seq(R) /\ Len(n) = Cardinality(I)
  <2>1. \A c \in Nat : \A S, g : S \subseteq R /\ g \in [1..c -> S] => g \in Seq(R) /\ Len(g) = c
    <3>1. SUFFICES ASSUME NEW c \in Nat, NEW S, NEW g, S \subseteq R, g \in [1..c -> S]
                   PROVE  g \in Seq(R) /\ Len(g) = c
      OBVIOUS
    <3>2. g \in [1..c -> R]
      BY <3>1
    <3> QED
      BY <3>2
  <2>2. {s[i] : i \in E} \subseteq R /\ {s[i] : i \in I} \subseteq R
    BY <1>5
  <2> QED
    BY <1>7, <1>8, <2>1, <2>2, Zenon
<1>11. /\ e \o n \in Seq(R) /\ Len(e \o n) = Len(e) + Len(n)
       /\ \A r \in 1..Len(e) : (e \o n)[r] = e[r]
       /\ \A r \in 1..Len(n) : (e \o n)[Len(e) + r] = n[r]
  BY <1>10, SMTT(30)
<1>12. Span(e \o n) = Span(s)
  <2>1. ASSUME NEW r \in DOMAIN (e \o n) PROVE \E i \in DOMAIN s : (e \o n)[r] = s[i]
    <3>1. r \in 1..(Len(e) + Len(n))
      BY <1>10, <1>11, <2>1
    <3>2. CASE r <= Len(e)
      BY <1>1, <1>2, <1>7, <1>10, <1>11, <3>1, <3>2
    <3>3. CASE r > Len(e)
      <4>1. r - Len(e) \in 1..Len(n) /\ r = Len(e) + (r - Len(e))
        BY <1>10, <3>1, <3>3
      <4>2. (e \o n)[r] = n[r - Len(e)]
        BY <1>11, <4>1
      <4> QED
        BY <1>1, <1>2, <1>8, <1>10, <4>1, <4>2
    <3> QED
      BY <1>10, <3>1, <3>2, <3>3
  <2>2. ASSUME NEW i \in DOMAIN s PROVE \E r \in DOMAIN (e \o n) : (e \o n)[r] = s[i]
    <3>1. CASE i \in E
      <4>1. PICK r \in 1..Len(e) : e[r] = s[i]
        BY <1>7, <1>10, <3>1
      <4>2. r \in DOMAIN (e \o n) /\ (e \o n)[r] = e[r]
        BY <1>10, <1>11
      <4> QED
        BY <4>1, <4>2
    <3>2. CASE i \in I
      <4>1. PICK r \in 1..Len(n) : n[r] = s[i]
        BY <1>8, <1>10, <3>2
      <4>2. Len(e) + r \in DOMAIN (e \o n) /\ (e \o n)[Len(e) + r] = n[r]
        BY <1>10, <1>11
      <4> QED
        BY <4>1, <4>2, Zenon
    <3> QED
      BY <1>1, <1>2, <3>1, <3>2
  <2> QED
    BY <2>1, <2>2, SMTT(30) DEF Span
<1> QED
  BY <1>6, <1>9, <1>10, <1>11, <1>12 DEF R

\* LIMIT: no more than n rows, and all of them if there are no more.
LEMMA CapHolds ==
    ASSUME NEW T, NEW s \in Seq(T), NEW n \in Nat
    PROVE  /\ Explain!Cap(s, n) \in Seq(T) /\ Len(Explain!Cap(s, n)) <= n
           /\ Len(s) <= n => Explain!Cap(s, n) = s
<1>1. CASE Len(s) < n
  <2>1. Explain!Cap(s, n) = SubSeq(s, 1, Len(s))
    BY <1>1 DEF Explain!Cap
  <2>2. SubSeq(s, 1, Len(s)) = s
    OBVIOUS
  <2> QED
    BY <1>1, <2>1, <2>2
<1>2. CASE ~(Len(s) < n)
  <2>1. Explain!Cap(s, n) = SubSeq(s, 1, n) /\ n <= Len(s)
    BY <1>2 DEF Explain!Cap
  <2>2. SubSeq(s, 1, n) \in Seq(T) /\ Len(SubSeq(s, 1, n)) = n
    BY <2>1
  <2>3. Len(s) <= n => SubSeq(s, 1, n) = s
    BY <2>1
  <2> QED
    BY <2>1, <2>2, <2>3
<1> QED
  BY <1>1, <1>2

\* The two queries: whatever the limits, within the scan limit no row is lost.
LEMMA QueryStep ==
    ASSUME VerdictParts, Explain!Query
    PROVE  VerdictParts'
<1>1. /\ stage = "query" /\ stage' = "fold"
      /\ records' = Explain!Scanned(Explain!ByPass(recs)) /\ instances' = Explain!Scanned(insts)
      /\ UNCHANGED <<recs, insts, next, acc, response>>
  BY DEF Explain!Query
<1>2. recs \in Seq(Explain!Records) /\ insts \in Seq(Objects) /\ ScanLimit \in Nat /\ RowLimit \in Nat
  BY VerdictAssumption DEF VerdictParts, EvidenceInv
<1>3. PICK s : s = Explain!ByPass(recs)
  OBVIOUS
<1>4. s \in Seq(Explain!Records) /\ Len(s) = Len(recs) /\ Span(s) = Span(recs)
  BY <1>2, <1>3, ByPassHolds
<1>5. PICK t : t = insts
  OBVIOUS
<1>6. records' = Explain!Cap(s, ScanLimit) /\ instances' = Explain!Cap(t, ScanLimit)
  BY <1>1, <1>3, <1>5 DEF Explain!Scanned
<1>7. /\ records' \in Seq(Explain!Records) /\ (Len(s) <= ScanLimit => records' = s)
      /\ instances' \in Seq(Objects) /\ (Len(t) <= ScanLimit => instances' = t)
  BY <1>2, <1>4, <1>5, <1>6, CapHolds
<1>8. EvidenceInv'
  <2>1. Explain!InScan' => Len(recs) <= ScanLimit /\ Len(insts) <= ScanLimit
    BY <1>1 DEF Explain!InScan
  <2>2. Explain!InScan' => records' = s /\ instances' = t
    BY <1>4, <1>5, <1>7, <2>1
  <2>3. Explain!InScan' => Span(records') = Span(recs) /\ Span(instances') = Span(insts)
    BY <1>4, <1>5, <2>2
  <2>4. /\ Span(records)' = Span(records') /\ Span(instances)' = Span(instances')
        /\ Span(recs)' = Span(recs) /\ Span(insts)' = Span(insts)
    BY <1>1 DEF Span
  <2> QED
    BY <1>1, <1>2, <1>7, <2>3, <2>4 DEF EvidenceInv
<1>9. EchoInv'
  <2>1. PICK x, y : x = records' /\ y = instances'
    OBVIOUS
  <2>2. echo'.records = Explain!Cap(x, RowLimit) /\ echo'.instances = Explain!Cap(y, RowLimit)
    BY <2>1, Zenon DEF Explain!Query
  <2>3. /\ Len(Explain!Cap(x, RowLimit)) <= RowLimit /\ Len(Explain!Cap(y, RowLimit)) <= RowLimit
    BY <1>2, <1>7, <2>1, CapHolds
  <2> QED
    BY <2>2, <2>3 DEF EchoInv
<1>10. next = 0 /\ FoldedInstances = {} /\ FoldedRecords = {}
  BY <1>1 DEF VerdictParts, NextInv, EvidenceInv, FoldedInstances, FoldedRecords
<1>11. NextInv' /\ FoldedInstances' = {} /\ FoldedRecords' = {}
  BY <1>1, <1>7, <1>10 DEF NextInv, FoldedInstances, FoldedRecords
<1>12. AccInv'
  BY <1>1, <1>10, <1>11 DEF VerdictParts, AccInv, AccOf, ReasonOf
<1>13. ResponseInv'
  BY <1>1 DEF ResponseInv
<1> QED
  BY <1>8, <1>9, <1>11, <1>12, <1>13 DEF VerdictParts

\* The rows stay what they were.
LEMMA SameEvidence ==
    ASSUME VerdictParts, UNCHANGED <<recs, insts, records, instances, echo>>,
           stage' \in {"query", "fold", "done"}, stage = "query" <=> stage' = "query"
    PROVE  EvidenceInv' /\ EchoInv'
<1>1. Explain!InScan' <=> Explain!InScan
  BY DEF Explain!InScan
<1>2. /\ Span(recs)' = Span(recs) /\ Span(insts)' = Span(insts)
      /\ Span(records)' = Span(records) /\ Span(instances)' = Span(instances)
  BY DEF Span
<1> QED
  BY <1>1, <1>2 DEF VerdictParts, EvidenceInv, EchoInv

\* A row of inline_instances.
LEMMA FoldInstanceStep ==
    ASSUME VerdictParts, Explain!FoldInstance
    PROVE  VerdictParts'
<1>1. PICK x, y, z : x = instances[next + 1] /\ y = acc[x] /\ z = Explain!Present(y)
  OBVIOUS
<1>2. /\ stage = "fold" /\ next < Len(instances) /\ next' = next + 1
      /\ acc' = [acc EXCEPT ![x] = z]
      /\ UNCHANGED <<recs, insts, stage, records, instances, echo, response>>
  BY <1>1 DEF Explain!FoldInstance
<1>3. EvidenceInv' /\ EchoInv'
  BY <1>2, SameEvidence DEF VerdictParts, EvidenceInv
<1>4. /\ Len(instances) \in Nat /\ Len(records) \in Nat /\ next \in Nat
      /\ DOMAIN instances = 1..Len(instances) /\ DOMAIN records = 1..Len(records)
      /\ next + 1 \in DOMAIN instances /\ x \in Objects
  BY <1>1, <1>2 DEF VerdictParts, EvidenceInv, NextInv
<1>5. NextInv' /\ ResponseInv'
  BY <1>2, <1>4 DEF NextInv, ResponseInv
<1>6. FoldedInstances' = FoldedInstances \cup {next + 1} /\ FoldedRecords = {} /\ FoldedRecords' = {}
  BY <1>2, <1>4 DEF FoldedInstances, FoldedRecords
<1>7. DOMAIN acc' = Objects /\ acc'[x] = z /\ \A o \in Objects \ {x} : acc'[o] = acc[o]
  BY <1>2, <1>4 DEF VerdictParts, AccInv
<1>8. AccOf(x, y)
  BY <1>1, <1>4 DEF VerdictParts, AccInv
<1>9. z.seen /\ z.hasInstance /\ (z.inlined <=> y.inlined)
  BY <1>1, Zenon DEF Explain!Present
<1>10. z.declPass = y.declPass /\ z.declReason = y.declReason
  BY <1>1, Zenon DEF Explain!Present
<1>11. AccOf(x, z)'
  BY <1>1, <1>2, <1>6, <1>8, <1>9 DEF AccOf
<1>12. ReasonOf(x, z)'
  <2>1. ReasonOf(x, y)
    BY <1>1, <1>4 DEF VerdictParts, AccInv
  <2> QED
    BY <1>6, <1>10, <2>1 DEF ReasonOf
<1>13. ASSUME NEW o \in Objects \ {x}, NEW a, a = acc[o] PROVE AccOf(o, a)' /\ ReasonOf(o, a)'
  <2>1. AccOf(o, a) /\ ReasonOf(o, a)
    BY <1>13 DEF VerdictParts, AccInv
  <2>2. AccOf(o, a)'
    BY <1>1, <1>2, <1>6, <2>1 DEF AccOf
  <2>3. ReasonOf(o, a)'
    BY <1>6, <2>1 DEF ReasonOf
  <2> QED
    BY <2>2, <2>3
<1>14. AccInv'
  BY <1>7, <1>11, <1>12, <1>13 DEF AccInv
<1> QED
  BY <1>3, <1>5, <1>14 DEF VerdictParts

\* A row of inline_records: a remark that inlines only adds to it, and one that
\* declines is remembered unless the IPA pass has spoken.
LEMMA FoldRecordStep ==
    ASSUME VerdictParts, Explain!FoldRecord
    PROVE  VerdictParts'
<1>1. PICK k, r, x : k = next + 1 - Len(instances) /\ r = records[k] /\ x = r.object
  OBVIOUS
<1>2. PICK y, z : y = acc[x] /\ z = Explain!Noted(y, r)
  OBVIOUS
<1>3. /\ stage = "fold" /\ next >= Len(instances) /\ k <= Len(records) /\ next' = next + 1
      /\ acc' = [acc EXCEPT ![x] = z]
      /\ UNCHANGED <<recs, insts, stage, records, instances, echo, response>>
  BY <1>1, <1>2 DEF Explain!FoldRecord
<1>4. EvidenceInv' /\ EchoInv'
  BY <1>3, SameEvidence DEF VerdictParts, EvidenceInv
<1>5. /\ Len(instances) \in Nat /\ Len(records) \in Nat /\ next \in Nat
      /\ DOMAIN instances = 1..Len(instances) /\ DOMAIN records = 1..Len(records)
      /\ k \in DOMAIN records /\ r \in Explain!Records
  BY <1>1, <1>3 DEF VerdictParts, EvidenceInv, NextInv
<1>6. x \in Objects
  BY <1>1, <1>5, RecordFields
<1>7. NextInv' /\ ResponseInv'
  BY <1>1, <1>3, <1>5 DEF NextInv, ResponseInv
<1>8. FoldedInstances' = FoldedInstances /\ FoldedRecords' = FoldedRecords \cup {k}
  BY <1>1, <1>3, <1>5 DEF FoldedInstances, FoldedRecords
<1>9. DOMAIN acc' = Objects /\ acc'[x] = z /\ \A o \in Objects \ {x} : acc'[o] = acc[o]
  BY <1>3, <1>6 DEF VerdictParts, AccInv
<1>10. AccOf(x, y) /\ ReasonOf(x, y)
  BY <1>2, <1>6 DEF VerdictParts, AccInv
<1>11. z.seen /\ (z.hasInstance <=> y.hasInstance) /\ (z.inlined <=> y.inlined \/ r.inlined)
  BY <1>2, Zenon DEF Explain!Noted
<1>12. /\ z.declPass = IF ~r.inlined /\ y.declPass # "inline" THEN r.pass ELSE y.declPass
       /\ z.declReason = IF ~r.inlined /\ y.declPass # "inline" THEN r.reason ELSE y.declReason
  BY <1>2, Zenon DEF Explain!Noted, Explain!Sticks
<1>13. AccOf(x, z)'
  BY <1>1, <1>3, <1>8, <1>10, <1>11 DEF AccOf
<1>14. ReasonOf(x, z)'
  <2>1. CASE r.inlined
    <3>1. z.declPass = y.declPass /\ z.declReason = y.declReason
      BY <1>12, <2>1
    <3> QED
      BY <1>1, <1>3, <1>8, <1>10, <2>1, <3>1 DEF ReasonOf
  <2>2. CASE ~r.inlined /\ y.declPass # "inline"
    <3>1. z.declPass = r.pass /\ z.declReason = r.reason
      BY <1>12, <2>2
    <3> QED
      BY <1>1, <1>3, <1>8, <1>10, <2>2, <3>1 DEF ReasonOf
  <2>3. CASE ~r.inlined /\ y.declPass = "inline"
    <3>1. z.declPass = y.declPass /\ z.declReason = y.declReason
      BY <1>12, <2>3
    <3> QED
      BY <1>1, <1>3, <1>8, <1>10, <2>3, <3>1 DEF ReasonOf
  <2> QED
    BY <2>1, <2>2, <2>3
<1>15. ASSUME NEW o \in Objects \ {x}, NEW a, a = acc[o] PROVE AccOf(o, a)' /\ ReasonOf(o, a)'
  <2>1. AccOf(o, a) /\ ReasonOf(o, a)
    BY <1>15 DEF VerdictParts, AccInv
  <2>2. AccOf(o, a)'
    BY <1>1, <1>3, <1>8, <2>1 DEF AccOf
  <2>3. ReasonOf(o, a)'
    BY <1>1, <1>3, <1>8, <2>1 DEF ReasonOf
  <2> QED
    BY <2>2, <2>3
<1>16. AccInv'
  BY <1>9, <1>13, <1>14, <1>15 DEF AccInv
<1> QED
  BY <1>4, <1>7, <1>16 DEF VerdictParts

\* The answer is made of the accumulators; and nothing changes afterwards.
LEMMA AnswerStep ==
    ASSUME VerdictParts, Explain!Answer
    PROVE  VerdictParts'
<1>1. /\ stage = "fold" /\ next = Len(instances) + Len(records) /\ stage' = "done"
      /\ UNCHANGED <<recs, insts, records, instances, next, acc, echo>>
  BY Zenon DEF Explain!Answer
<1>2. EvidenceInv' /\ EchoInv'
  BY <1>1, SameEvidence
<1>3. NextInv'
  BY <1>1 DEF VerdictParts, NextInv
<1>4. FoldedInstances' = FoldedInstances /\ FoldedRecords' = FoldedRecords
  BY <1>1 DEF FoldedInstances, FoldedRecords
<1>5. AccInv'
  BY <1>1, <1>4 DEF VerdictParts, AccInv, AccOf, ReasonOf
<1>6. ResponseInv'
  <2>1. PICK per, v, why : /\ per = [o \in Objects |-> Explain!OneVerdict(acc[o])]
                           /\ v = Explain!Overall(per) /\ why = Explain!FirstReason
    BY Zenon
  <2>2. response' = [perObject |-> per, verdict |-> v,
                     reason |-> IF v = "declined" THEN why ELSE ""]
    BY <2>1, Zenon DEF Explain!Answer
  <2>3. /\ response'.perObject = per /\ response'.verdict = v
        /\ v = "declined" => response'.reason = why
    BY <2>2, Zenon
  <2>4. \A o \in Objects : \A a : a = acc[o] => per[o] = Explain!OneVerdict(a)
    BY <2>1
  <2>5. Explain!FirstReason' = why
    BY <1>1, <2>1 DEF Explain!FirstReason
  <2> QED
    BY <1>1, <2>1, <2>3, <2>4, <2>5 DEF ResponseInv
<1> QED
  BY <1>2, <1>3, <1>5, <1>6 DEF VerdictParts

\* Nothing changes.
LEMMA VerdictStill ==
    ASSUME VerdictParts, UNCHANGED explain
    PROVE  VerdictParts'
<1>1. UNCHANGED <<recs, insts, stage, records, instances, next, acc, echo, response>>
  BY DEF explain
<1>2. EvidenceInv' /\ EchoInv'
  BY <1>1, SameEvidence DEF VerdictParts, EvidenceInv
<1>3. FoldedInstances' = FoldedInstances /\ FoldedRecords' = FoldedRecords
  BY <1>1 DEF FoldedInstances, FoldedRecords
<1>4. NextInv' /\ AccInv'
  BY <1>1, <1>3 DEF VerdictParts, NextInv, AccInv, AccOf, ReasonOf
<1>5. Explain!FirstReason' = Explain!FirstReason
  BY <1>1 DEF Explain!FirstReason
<1>6. ResponseInv'
  BY <1>1, <1>5 DEF VerdictParts, ResponseInv
<1> QED
  BY <1>2, <1>4, <1>6 DEF VerdictParts

\* The invariant holds when the call begins.
LEMMA VerdictInitially == ToolInit => VerdictIInv
<1> SUFFICES ASSUME ToolInit, tool = "explain_call" PROVE VerdictParts
  BY DEF VerdictIInv
<1>1. Explain!Init
  BY DEF ToolInit
<1>2. /\ stage = "query" /\ records = <<>> /\ instances = <<>> /\ next = 0
      /\ acc = [o \in Objects |-> Explain!NoAcc]
  BY <1>1 DEF Explain!Init
<1>3. recs \in Seq(Explain!Records) /\ insts \in Seq(Objects)
  <2>1. \A S, T : S \subseteq T => \A s \in Explain!Rows(S) : s \in Seq(T)
    <3>1. SUFFICES ASSUME NEW S, NEW T, S \subseteq T, NEW s \in Explain!Rows(S) PROVE s \in Seq(T)
      OBVIOUS
    <3>2. PICK n \in 0..MaxRows : s \in [1..n -> S]
      BY DEF Explain!Rows
    <3>3. n \in Nat /\ s \in [1..n -> T]
      BY <3>1, <3>2
    <3> QED
      BY <3>3
  <2>2. {r \in Explain!Records : r.inlined => r.reason = CHOOSE x \in Reasons : TRUE}
            \subseteq Explain!Records
    OBVIOUS
  <2> QED
    BY <1>1, <2>1, <2>2 DEF Explain!Init
<1>4. EvidenceInv
  BY <1>2, <1>3 DEF EvidenceInv
<1>5. EchoInv /\ NextInv /\ ResponseInv
  BY <1>2 DEF EchoInv, NextInv, ResponseInv
<1>6. FoldedInstances = {} /\ FoldedRecords = {}
  BY <1>2 DEF FoldedInstances, FoldedRecords
<1>7. ~Explain!NoAcc.seen /\ ~Explain!NoAcc.hasInstance /\ ~Explain!NoAcc.inlined
  BY Zenon DEF Explain!NoAcc
<1>8. Explain!NoAcc.declPass = ""
  BY Zenon DEF Explain!NoAcc
<1>9. AccInv
  BY <1>2, <1>6, <1>7, <1>8, Zenon DEF AccInv, AccOf, ReasonOf
<1> QED
  BY <1>4, <1>5, <1>9 DEF VerdictParts

\* Every step keeps it.
LEMMA VerdictStep ==
    ASSUME VerdictIInv, [ToolNext]_<<tool, vars, explain, search, drift, query>>
    PROVE  VerdictIInv'
<1>1. tool' = tool
  BY DEF ToolNext, ListCallPaths, ExplainCall, SearchSource, ListSourceDrift, AskQueries
<1> SUFFICES ASSUME tool = "explain_call" PROVE VerdictParts'
  BY <1>1 DEF VerdictIInv
<1>2. VerdictParts
  BY DEF VerdictIInv
<1>3. CASE ExplainCall
  <2>1. CASE Explain!Done
    BY <1>2, <2>1, VerdictStill DEF Explain!Done, Explain!vars, explain
  <2> QED
    BY <1>2, <1>3, <2>1, QueryStep, FoldInstanceStep, FoldRecordStep, AnswerStep
    DEF ExplainCall, Explain!Next
<1>4. CASE UNCHANGED <<tool, vars, explain, search, drift, query>>
  BY <1>2, <1>4, VerdictStill
<1> QED
  BY <1>3, <1>4 DEF ToolNext, ListCallPaths, SearchSource, ListSourceDrift, AskQueries

\* When every row has been folded and none was cut, the accumulators are the tables'.
LEMMA AllFolded ==
    ASSUME VerdictParts, stage = "done", Explain!InScan, NEW o \in Objects, NEW a, a = acc[o]
    PROVE  /\ a.seen <=> Explain!HasBody(o) \/ Explain!Remarked(o)
           /\ a.hasInstance <=> Explain!HasBody(o)
           /\ a.inlined <=> Explain!Inlined(o)
           /\ ReasonOf(o, a) /\ FoldedRecords = DOMAIN records /\ Span(records) = Span(recs)
<1>1. /\ Len(instances) \in Nat /\ Len(records) \in Nat /\ next = Len(instances) + Len(records)
      /\ DOMAIN instances = 1..Len(instances) /\ DOMAIN records = 1..Len(records)
      /\ Span(records) = Span(recs) /\ Span(instances) = Span(insts)
  BY DEF VerdictParts, EvidenceInv, NextInv
<1>2. FoldedInstances = DOMAIN instances /\ FoldedRecords = DOMAIN records
  BY <1>1 DEF FoldedInstances, FoldedRecords
<1>3. AccOf(o, a) /\ ReasonOf(o, a)
  BY DEF VerdictParts, AccInv
<1>4. \A s : Explain!Range(s) = Span(s)
  BY DEF Explain!Range, Span
<1>5. Explain!HasBody(o) <=> \E k \in DOMAIN instances : instances[k] = o
  BY <1>1, <1>4, Zenon DEF Explain!HasBody, Span
<1>6. /\ Explain!Remarked(o) <=> \E r \in Span(records) : r.object = o
      /\ Explain!Inlined(o) <=> \E r \in Span(records) : r.object = o /\ r.inlined
  BY <1>1, <1>4 DEF Explain!Remarked, Explain!Inlined
<1>7. /\ Explain!Remarked(o) <=> \E k \in DOMAIN records : records[k].object = o
      /\ Explain!Inlined(o) <=> \E k \in DOMAIN records : records[k].object = o /\ records[k].inlined
  BY <1>6 DEF Span
<1> QED
  BY <1>1, <1>2, <1>3, <1>5, <1>7 DEF AccOf

\* overallVerdict: mixed exactly if two objects differ.
LEMMA OverallHolds ==
    \A per, said :
        /\ \A v : v \in said <=> v # "" /\ \E o \in Objects : per[o] = v
        /\ \A o \in Objects :
              per[o] \in {"", "inlined_and_present", "inlined_then_folded", "declined"}
        => /\ Explain!Overall(per) = "mixed" <=> Cardinality(said) > 1
           /\ Explain!Overall(per) = "no_decision_logged" <=> said = {}
           /\ Explain!Overall(per) = "declined" => said = {"declined"}
<1>0. SUFFICES ASSUME NEW per, NEW said,
                      \A v : v \in said <=> v # "" /\ \E o \in Objects : per[o] = v,
                      \A o \in Objects :
                         per[o] \in {"", "inlined_and_present", "inlined_then_folded", "declined"}
               PROVE  /\ Explain!Overall(per) = "mixed" <=> Cardinality(said) > 1
                      /\ Explain!Overall(per) = "no_decision_logged" <=> said = {}
                      /\ Explain!Overall(per) = "declined" => said = {"declined"}
  BY Zenon
<1>1. \A S : Explain!Cardinality(S) = Cardinality(S)
  BY DEF Explain!Cardinality, Cardinality
<1>2. Explain!Overall(per) =
          CASE said = {}             -> "no_decision_logged"
            [] Cardinality(said) = 1 -> CHOOSE v \in said : TRUE
            [] OTHER                 -> "mixed"
  <2>1. said = {per[o] : o \in Objects} \ {""}
    BY <1>0, Zenon
  <2> QED
    BY <1>1, <2>1, Zenon DEF Explain!Overall
<1> DEFINE words == {"inlined_and_present", "inlined_then_folded", "declined"}
<1>3. said \in SUBSET words
  BY <1>0, Zenon
<1>4. IsFiniteSet(said) /\ Cardinality(said) \in Nat
  <2>1. IsFiniteSet({"inlined_and_present"})
    BY FS_Singleton
  <2>2. IsFiniteSet({"inlined_and_present"} \cup {"inlined_then_folded"})
    BY <2>1, FS_AddElement
  <2>3. IsFiniteSet(({"inlined_and_present"} \cup {"inlined_then_folded"}) \cup {"declined"})
    BY <2>2, FS_AddElement
  <2>4. words = ({"inlined_and_present"} \cup {"inlined_then_folded"}) \cup {"declined"}
    OBVIOUS
  <2> QED
    BY <1>3, <2>3, <2>4, FS_Subset, FS_CardinalityType, Zenon
<1>5. CASE said = {}
  <2>1. Explain!Overall(per) = "no_decision_logged"
    BY <1>2, <1>5
  <2>2. Cardinality(said) = 0
    BY <1>5, FS_EmptySet
  <2>3. ~(Cardinality(said) > 1)
    BY <2>2
  <2> QED
    BY <1>5, <2>1, <2>3
<1>6. CASE said # {} /\ Cardinality(said) = 1
  <2>1. PICK v : said = {v}
    BY <1>4, <1>6, FS_Singleton
  <2>2. Explain!Overall(per) = v
    <3>1. (CHOOSE w \in said : TRUE) = v
      BY <2>1
    <3> QED
      BY <1>2, <1>6, <3>1
  <2>3. v \in words
    BY <1>3, <2>1
  <2>4. v # "mixed" /\ v # "no_decision_logged"
    BY <2>3
  <2>5. ~(Cardinality(said) > 1)
    BY <1>6
  <2> QED
    BY <1>6, <2>1, <2>2, <2>4, <2>5, Zenon
<1>7. CASE said # {} /\ Cardinality(said) # 1
  <2>1. Explain!Overall(per) = "mixed"
    BY <1>2, <1>7
  <2>2. Cardinality(said) # 0
    BY <1>4, <1>7, FS_EmptySet
  <2>3. Cardinality(said) > 1
    BY <1>4, <1>7, <2>2
  <2> QED
    BY <1>7, <2>1, <2>3
<1> QED
  BY <1>5, <1>6, <1>7

\* For every evidence within the scan limit, explain_call's verdict and reason are those
\* of all of it, however few rows are shown (callgraph_runtime_tools.go perObjectVerdicts,
\* overallVerdict).
THEOREM VerdictAlwaysExact == ToolSpec => []VerdictExact
<1>1. VerdictIInv => VerdictExact
  <2> SUFFICES ASSUME VerdictParts, stage = "done", Explain!InScan
               PROVE  /\ Explain!FullSetDecides /\ Explain!LastPassExplains
                      /\ Len(echo.records) <= RowLimit /\ Len(echo.instances) <= RowLimit
    BY DEF VerdictIInv, VerdictExact, Explain!VerdictIsTheEvidences
  <2>1. PICK per : per = response.perObject
    OBVIOUS
  <2>2. /\ response.verdict = Explain!Overall(per)
        /\ response.verdict = "declined" => response.reason = Explain!FirstReason
        /\ \A o \in Objects : \A a : a = acc[o] => per[o] = Explain!OneVerdict(a)
    BY <2>1 DEF VerdictParts, ResponseInv
  <2> DEFINE Truth(o) == IF Explain!HasBody(o) THEN "inlined_and_present"
                         ELSE IF Explain!Inlined(o) THEN "inlined_then_folded"
                         ELSE IF Explain!Remarked(o) THEN "declined" ELSE ""
  <2>3. ASSUME NEW o \in Objects
        PROVE  /\ per[o] = Truth(o)
               /\ per[o] \in {"", "inlined_and_present", "inlined_then_folded", "declined"}
               /\ acc[o].seen <=> per[o] # ""
    <3>1. PICK a : a = acc[o]
      OBVIOUS
    <3>2. /\ a.seen <=> Explain!HasBody(o) \/ Explain!Remarked(o)
          /\ a.hasInstance <=> Explain!HasBody(o)
          /\ a.inlined <=> Explain!Inlined(o)
      BY <3>1, AllFolded
    <3>3. per[o] = Explain!OneVerdict(a)
      BY <2>2, <3>1
    <3>4. Explain!Inlined(o) => Explain!Remarked(o)
      BY DEF Explain!Inlined, Explain!Remarked
    <3>5. per[o] = Truth(o)
      BY <3>2, <3>3, <3>4, Zenon DEF Explain!OneVerdict
    <3>6. a.seen <=> Truth(o) # ""
      BY <3>2, <3>4
    <3>7. Truth(o) \in {"", "inlined_and_present", "inlined_then_folded", "declined"}
      OBVIOUS
    <3> QED
      BY <3>1, <3>5, <3>6, <3>7, Zenon
  <2>4. PICK said : said = {per[o] : o \in Objects} \ {""}
    BY Zenon
  <2>5. /\ Explain!Overall(per) = "mixed" <=> Cardinality(said) > 1
        /\ Explain!Overall(per) = "no_decision_logged" <=> said = {}
        /\ Explain!Overall(per) = "declined" => said = {"declined"}
    <3>1. \A v : v \in said <=> v # "" /\ \E o \in Objects : per[o] = v
      BY <2>4, Zenon
    <3> QED
      BY <2>3, <3>1, OverallHolds, Zenon
  <2>6. Explain!FullSetDecides
    <3>1. {Truth(o) : o \in Objects} \ {""} = said
      BY <2>3, <2>4, Zenon
    <3>2. \A S : Explain!Cardinality(S) = Cardinality(S)
      BY DEF Explain!Cardinality, Cardinality
    <3>3. /\ \A o \in Objects : response.perObject[o] = Truth(o)
          /\ response.verdict = "mixed" <=> Explain!Cardinality(said) > 1
          /\ response.verdict = "no_decision_logged" <=> said = {}
      BY <2>1, <2>2, <2>3, <2>5, <3>2, Zenon
    <3> QED
      BY <3>1, <3>3, Zenon DEF Explain!FullSetDecides
  <2>7. Explain!LastPassExplains
    <3> SUFFICES ASSUME response.verdict = "declined"
                 PROVE  \E o \in Objects : \E r \in Explain!Range(recs) :
                            /\ r.object = o /\ r.reason = response.reason /\ ~r.inlined
                            /\ r.pass = "einline" =>
                                  ~\E w \in Explain!Range(recs) : w.object = o /\ w.pass = "inline"
      BY DEF Explain!LastPassExplains
    <3>1. said = {"declined"}
      BY <2>2, <2>5
    <3> DEFINE T == {o \in Objects : acc[o].seen}
    <3>2. T \in SUBSET Nat /\ T # {} /\ \A o \in T : per[o] = "declined"
      <4>1. \A o \in T : per[o] = "declined"
        BY <2>3, <2>4, <3>1, Zenon
      <4>2. PICK o \in Objects : per[o] = "declined"
        BY <2>4, <3>1, Zenon
      <4>3. o \in T
        BY <2>3, <4>2, Zenon
      <4> QED
        BY <4>1, <4>3, VerdictAssumption, Zenon
    <3>3. PICK o \in T : \A p \in T : o <= p
      BY <3>2, LeastElement, Zenon
    <3>4. Explain!FirstReason = acc[CHOOSE x \in Objects :
                                      acc[x].seen /\ \A p \in Objects : acc[p].seen => x <= p].declReason
      BY DEF Explain!FirstReason
    <3>5. PICK f \in Objects : /\ acc[f].seen
                               /\ Explain!FirstReason = acc[f].declReason
      <4>1. \E x \in Objects : acc[x].seen /\ \A p \in Objects : acc[p].seen => x <= p
        BY <3>3
      <4> QED
        BY <3>4, <4>1, Zenon
    <3>6. PICK a : a = acc[f]
      OBVIOUS
    <3>7. /\ a.inlined <=> Explain!Inlined(f)
          /\ a.seen <=> Explain!HasBody(f) \/ Explain!Remarked(f)
          /\ a.hasInstance <=> Explain!HasBody(f)
          /\ ReasonOf(f, a) /\ FoldedRecords = DOMAIN records /\ Span(records) = Span(recs)
      BY <3>6, AllFolded
    <3>8. per[f] = "declined"
      BY <3>2, <3>5
    <3>9. ~Explain!Inlined(f) /\ ~Explain!HasBody(f) /\ Explain!Remarked(f)
      <4>1. Truth(f) = "declined"
        BY <2>3, <3>8, Zenon
      <4> QED
        BY <4>1
    <3>10. \A s : Explain!Range(s) = Span(s)
      BY DEF Explain!Range, Span
    <3>11. \A k \in DOMAIN records : records[k].object = f => ~records[k].inlined
      BY <3>7, <3>9, <3>10 DEF Explain!Inlined, Span
    <3>12. \E k \in DOMAIN records : records[k].object = f
      BY <3>7, <3>9, <3>10 DEF Explain!Remarked, Span
    <3>13. PICK k \in DOMAIN records :
               /\ records[k].object = f /\ ~records[k].inlined
               /\ a.declPass = records[k].pass /\ a.declReason = records[k].reason
      BY <3>7, <3>11, <3>12 DEF ReasonOf
    <3>14. PICK r : r = records[k]
      OBVIOUS
    <3>15. r \in Span(recs) /\ r.reason = response.reason
      BY <2>2, <3>5, <3>6, <3>7, <3>13, <3>14 DEF Span
    <3>16. ASSUME r.pass = "einline", NEW w \in Span(recs), w.object = f, w.pass = "inline"
           PROVE  FALSE
      <4>1. PICK j \in DOMAIN records : records[j] = w
        BY <3>7 DEF Span
      <4>2. ~records[j].inlined
        BY <3>11, <3>16, <4>1
      <4>3. a.declPass = "inline"
        BY <3>7, <3>16, <4>1, <4>2 DEF ReasonOf
      <4> QED
        BY <3>13, <3>14, <3>16, <4>3
    <3> QED
      BY <3>10, <3>13, <3>14, <3>15, <3>16
  <2> QED
    BY <2>6, <2>7 DEF VerdictParts, EchoInv
<1> QED
  BY <1>1, VerdictInitially, VerdictStep, PTL DEF ToolSpec

-----------------------------------------------------------------------------
(* list_call_paths: callgraph_source_tools.go enumeratePaths.              *)

AskedInv ==
    /\ edges \in SUBSET EdgeSpace /\ req \in Requests
    /\ target = NoTarget \/ (target.given = TRUE /\ target.reaches \in Reachables)

\* Every row of the adjacency lists the callees of its symbol in their order.
AdjInv ==
    \A s \in Syms :
        /\ adj[s] \in Seq(Syms)
        /\ \A c : c \in CalleesOf(s) <=> \E i \in 1..Len(adj[s]) : adj[s][i] = c
        /\ \A i, j \in 1..Len(adj[s]) : i < j => adj[s][i] < adj[s][j]

\* A simple path from the start of the request.
IsWalk(p) ==
    /\ p \in Seq(Syms) /\ Len(p) >= 1 /\ p[1] = req.start
    /\ \A j, k \in 1..Len(p) : p[j] = p[k] => j = k
    /\ \A k \in 1..Len(p) - 1 : p[k + 1] \in CalleesOf(p[k])

\* The stack is a path, every loop below the innermost stands at the callee that
\* was entered, and no loop runs beyond the depth.
StackInv ==
    /\ stack \in Seq(Syms) /\ pos \in Seq(Nat) /\ Len(pos) = Len(stack)
    /\ \A s : s \in visited <=> \E k \in 1..Len(stack) : stack[k] = s
    /\ stack # <<>> => IsWalk(stack)
    /\ \A k \in 1..Len(stack) : stack[k] # req.end /\ (pos[k] >= 1 => k <= Depth)
    /\ \A k \in 1..Len(stack) - 1 :
          pos[k] \in 1..Len(adj[stack[k]]) /\ adj[stack[k]][pos[k]] = stack[k + 1]

\* p leaves the stack st at its k-th symbol, for a callee before the loop's place.
LeavesAt(p, k, st, ps, ad) ==
    /\ k < Len(p) /\ \A m \in 1..k : p[m] = st[m]
    /\ \E i \in 1..Len(ad[st[k]]) : i < ps[k] /\ ad[st[k]][i] = p[k + 1]

\* The walk is past p.
Explored(p, st, ps, ad) == st = <<>> \/ \E k \in 1..Len(st) : LeavesAt(p, k, st, ps, ad)

\* The paths the walk looks for.  A walk from a symbol to itself asks nothing of the target.
PathsFound ==
    IF req.start = req.end THEN {<<req.start>>}
    ELSE {p \in UNION {[1..n -> Syms] : n \in 2..Cardinality(Syms)} : IsPath(p)}

\* The answer holds those, or as many as are shown.
FoundExact ==
    pc = "done" =>
        /\ answer.truncated <=> Cardinality(PathsFound) > ResultLimit
        /\ IF answer.truncated
           THEN /\ Len(answer.paths) = ResultLimit
                /\ Range(answer.paths) \subseteq PathsFound
           ELSE Range(answer.paths) = PathsFound
        /\ \A j \in 2..Len(out) : Before(out[j - 1], out[j])

\* Beyond the limit every path is shorter than the one before.
Shrinks == \A j \in 2..Len(out) : j > Limit => Len(out[j]) < Len(out[j - 1])

\* At the limit the stack is shorter than the last path by two, or by one and the
\* innermost call has yet to see the limit.
Unwinds ==
    Len(out) >= Limit /\ stack # <<>> =>
        \/ Len(stack) + 2 <= Len(out[Len(out)])
        \/ Len(stack) + 1 <= Len(out[Len(out)]) /\ pos[Len(stack)] = 0

\* What was noted are paths the walk is past, each before the next; and until the
\* limit is reached they are all of those.
OutInv ==
    /\ out \in Seq(PathsFound)
    /\ \A j \in 1..Len(out) : Explored(out[j], stack, pos, adj)
    /\ \A j, k \in 1..Len(out) : out[j] = out[k] => j = k
    /\ \A j \in 2..Len(out) : Before(out[j - 1], out[j])
    /\ Len(out) < Limit =>
          \A p \in PathsFound : Explored(p, stack, pos, adj) => \E j \in 1..Len(out) : out[j] = p

PathsInv ==
    /\ AskedInv
    /\ pc = "load" => stack = <<>> /\ visited = {} /\ pos = <<>> /\ out = <<>>
    /\ pc = "walk" => AdjInv /\ StackInv /\ OutInv /\ Unwinds
    /\ FoundExact /\ Shrinks

PathsIInv == tool = "list_call_paths" => PathsInv

\* The members of a set of numbers, listed in their order.
LEMMA SelectedSorts ==
    ASSUME NEW S \in SUBSET Nat, IsFiniteSet(S)
    PROVE  LET t == Selected(S, [c \in S |-> c]) IN
           /\ t \in Seq(S)
           /\ \A c : c \in S <=> \E i \in 1..Len(t) : t[i] = c
           /\ \A i, j \in 1..Len(t) : i < j => t[i] < t[j]
<1> DEFINE n == Cardinality(S)
           id == [c \in S |-> c]
           At(r) == CHOOSE i \in S : Rank(S, i) = r
           t == Selected(S, id)
<1>1. /\ n \in Nat
      /\ \A i \in S : Rank(S, i) \in 1..n
      /\ \A i, j \in S : Rank(S, i) = Rank(S, j) => i = j
      /\ \A r \in 1..n : \E i \in S : Rank(S, i) = r
  BY RankOnto
<1>2. \A r \in 1..n : At(r) \in S /\ Rank(S, At(r)) = r
  BY <1>1
<1>3. \A i \in S : At(Rank(S, i)) = i
  BY <1>1
<1>4. t = [r \in 1..n |-> id[At(r)]]
  BY DEF Selected
<1> HIDE DEF At, n
<1>5. \A r \in 1..n : id[At(r)] = At(r)
  BY <1>2
<1>6. t = [r \in 1..n |-> At(r)]
  BY <1>4, <1>5, Zenon
<1> HIDE DEF t, id
<1>7. t \in Seq(S) /\ Len(t) = n /\ \A r \in 1..n : t[r] = At(r)
  BY <1>1, <1>2, <1>6
<1>8. ASSUME NEW c PROVE c \in S <=> \E i \in 1..n : t[i] = c
  <2>1. ASSUME c \in S PROVE \E i \in 1..n : t[i] = c
    BY <1>1, <1>3, <1>7, <2>1
  <2>2. ASSUME NEW i \in 1..n, t[i] = c PROVE c \in S
    BY <1>2, <1>7, <2>2
  <2> QED
    BY <2>1, <2>2
<1>9. ASSUME NEW a \in S, NEW b \in S, Rank(S, a) < Rank(S, b) PROVE a < b
  <2>1. SUFFICES ASSUME b <= a PROVE FALSE
    OBVIOUS
  <2> DEFINE A == {j \in S : j <= a}
             B == {j \in S : j <= b}
  <2>2. B \subseteq A /\ A \subseteq S
    <3>1. ASSUME NEW j \in S, j <= b PROVE j <= a
      <4>1. j \in Nat /\ a \in Nat /\ b \in Nat
        OBVIOUS
      <4> QED
        BY <2>1, <3>1, <4>1
    <3> QED
      BY <3>1, Zenon
  <2>3. IsFiniteSet(A)
    BY <2>2, FS_Subset
  <2>4. Cardinality(B) <= Cardinality(A)
    BY <2>2, <2>3, FS_Subset
  <2>5. Rank(S, a) = Cardinality(A) /\ Rank(S, b) = Cardinality(B)
    BY DEF Rank
  <2>6. Rank(S, a) \in Nat /\ Rank(S, b) \in Nat
    BY <1>1
  <2> HIDE DEF A, B
  <2> QED
    BY <1>9, <2>4, <2>5, <2>6
<1>10. ASSUME NEW i \in 1..n, NEW j \in 1..n, i < j PROVE t[i] < t[j]
  <2>1. Rank(S, At(i)) < Rank(S, At(j)) /\ At(i) \in S /\ At(j) \in S
    BY <1>2, <1>10
  <2> QED
    BY <1>7, <1>9, <2>1, Zenon
<1> QED
  BY <1>7, <1>8, <1>10, Zenon DEF t, id

\* The rows loadCgraphAdjacency makes.
LEMMA RowsSorted ==
    ASSUME AskedInv, NEW s \in Syms
    PROVE  /\ CalleesOf(s) \subseteq Syms
           /\ Callees(s) \in Seq(Syms)
           /\ \A c : c \in CalleesOf(s) <=> \E i \in 1..Len(Callees(s)) : Callees(s)[i] = c
           /\ \A i, j \in 1..Len(Callees(s)) : i < j => Callees(s)[i] < Callees(s)[j]
<1>1. ByID \subseteq Syms
  <2>1. CASE target = NoTarget
    <3>1. target.given = FALSE
      BY <2>1 DEF NoTarget
    <3> QED
      BY <3>1 DEF ByID
  <2>2. CASE target.given = TRUE /\ target.reaches \in Reachables
    BY <2>2, CallPathsAssumption, Zenon DEF ByID
  <2> QED
    BY <2>1, <2>2, Zenon DEF AskedInv
<1>2. CalleesOf(s) \in SUBSET Syms
  BY <1>1 DEF CalleesOf
<1>3. CalleesOf(s) \in SUBSET Nat /\ IsFiniteSet(CalleesOf(s))
  BY <1>2, CallPathsAssumption, FS_Subset, Zenon
<1> DEFINE S == CalleesOf(s)
           r == Callees(s)
<1>4. r = Selected(S, [c \in S |-> c])
  BY DEF Callees
<1> HIDE DEF S, r
<1>5. /\ r \in Seq(S)
      /\ \A c : c \in S <=> \E i \in 1..Len(r) : r[i] = c
      /\ \A i, j \in 1..Len(r) : i < j => r[i] < r[j]
  BY <1>3, <1>4, SelectedSorts, Zenon DEF S
<1>6. r \in Seq(Syms)
  BY <1>2, <1>5 DEF S
<1> QED
  BY <1>2, <1>5, <1>6 DEF S, r

\* The depth the walk keeps to is the one a path may have.
LEMMA DepthFacts ==
    ASSUME AskedInv
    PROVE  /\ req.start \in Syms /\ req.end \in Syms /\ Depth \in Nat
           /\ Depth = IF req.depth \in 1..MaxDepth THEN req.depth ELSE DefaultDepth
<1>1. req \in [start : Syms, end : Syms, depth : Nat]
  BY CallPathsAssumption DEF AskedInv
<1>2. req.start \in Syms /\ req.end \in Syms /\ req.depth \in Nat
  BY <1>1
<1>3. DefaultDepth \in Nat /\ MaxDepth \in Nat
  BY CallPathsAssumption
<1> QED
  BY <1>2, <1>3 DEF Depth

\* A sequence without repetitions is no longer than the set it draws from.
LEMMA InjectiveLength ==
    ASSUME NEW S, IsFiniteSet(S), NEW t \in Seq(S),
           \A j, k \in 1..Len(t) : t[j] = t[k] => j = k
    PROVE  Len(t) <= Cardinality(S)
<1> DEFINE n == Len(t)
<1>1. n \in Nat /\ t \in [1..n -> S]
  OBVIOUS
<1>2. \A j, k \in 1..n : t[j] = t[k] => j = k
  OBVIOUS
<1> HIDE DEF n
<1>3. IsInjective(t)
  BY <1>1, <1>2 DEF IsInjective
<1>4. t \in Injection(1..n, S)
  BY <1>1, <1>3 DEF Injection
<1>5. Cardinality(1..n) <= Cardinality(S) /\ Cardinality(1..n) = n
  BY <1>1, <1>4, FS_Injection, RankInterval
<1> QED
  BY <1>5 DEF n

\* The paths of a request whose ends differ are the walks that end at its end.
LEMMA PathsAreWalks ==
    ASSUME AskedInv, req.start # req.end, NEW p
    PROVE  p \in PathsFound <=>
              IsWalk(p) /\ p[Len(p)] = req.end /\ Len(p) >= 2 /\ Len(p) - 1 <= Depth
<1>1. /\ req.start \in Syms /\ req.end \in Syms /\ Depth \in Nat
      /\ Depth = IF req.depth \in 1..MaxDepth THEN req.depth ELSE DefaultDepth
  BY DepthFacts
<1>2. p \in PathsFound <=> p \in UNION {[1..n -> Syms] : n \in 2..Cardinality(Syms)} /\ IsPath(p)
  BY DEF PathsFound
<1>3. IsFiniteSet(Syms) /\ Cardinality(Syms) \in Nat
  BY CallPathsAssumption, FS_CardinalityType
<1>4. \A x : x \in ByID <=> x \in Syms /\ (target.given => x \in target.reaches)
  <2>1. CASE target = NoTarget
    <3>1. target.given = FALSE
      BY <2>1 DEF NoTarget
    <3> QED
      BY <3>1 DEF ByID
  <2>2. CASE target.given = TRUE /\ target.reaches \in Reachables
    BY <2>2, CallPathsAssumption, Zenon DEF ByID
  <2> QED
    BY <2>1, <2>2, Zenon DEF AskedInv
<1>5. ASSUME p \in PathsFound
      PROVE  IsWalk(p) /\ p[Len(p)] = req.end /\ Len(p) >= 2 /\ Len(p) - 1 <= Depth
  <2>1. PICK n \in 2..Cardinality(Syms) : p \in [1..n -> Syms]
    BY <1>2, <1>5
  <2>2. n \in Nat /\ n >= 2
    BY <1>3
  <2>3. p \in Seq(Syms) /\ Len(p) = n /\ DOMAIN p = 1..n
    BY <2>1, <2>2
  <2>4. IsPath(p)
    BY <1>2, <1>5
  <2>5. p[1] = req.start /\ p[n] = req.end /\ n - 1 <= Depth
    BY <1>1, <2>3, <2>4 DEF IsPath, Last
  <2>6. \A j, k \in 1..n : p[j] = p[k] => j = k
    BY <2>3, <2>4 DEF IsPath, IsInjective
  <2>7. ASSUME NEW k \in 1..n - 1 PROVE p[k + 1] \in CalleesOf(p[k])
    <3>1. k \in 1..n /\ k + 1 \in 1..n
      BY <2>2
    <3>2. <<p[k], p[k + 1]>> \in edges
      BY <2>3, <2>4 DEF IsPath
    <3>3. p[k] \in ByID /\ p[k + 1] \in ByID
      BY <1>4, <2>1, <2>3, <2>4, <3>1 DEF IsPath
    <3> QED
      BY <3>2, <3>3 DEF CalleesOf
  <2> QED
    BY <2>2, <2>3, <2>5, <2>6, <2>7 DEF IsWalk
<1>6. ASSUME IsWalk(p), p[Len(p)] = req.end, Len(p) >= 2, Len(p) - 1 <= Depth
      PROVE  p \in PathsFound
  <2> DEFINE n == Len(p)
  <2>1. p \in Seq(Syms) /\ n \in Nat /\ n >= 2 /\ p \in [1..n -> Syms] /\ DOMAIN p = 1..n
    BY <1>6 DEF IsWalk
  <2>2. \A j, k \in 1..n : p[j] = p[k] => j = k
    BY <1>6 DEF IsWalk
  <2>3. n <= Cardinality(Syms)
    BY <1>3, <2>1, <2>2, InjectiveLength
  <2>4. \A k \in 1..n - 1 : p[k + 1] \in CalleesOf(p[k])
    BY <1>6 DEF IsWalk
  <2>5. \A k \in 1..n - 1 : <<p[k], p[k + 1]>> \in edges /\ p[k] \in ByID /\ p[k + 1] \in ByID
    BY <2>4, Zenon DEF CalleesOf
  <2>6. ASSUME NEW k \in 1..n PROVE p[k] \in ByID
    <3>1. CASE k \in 1..n - 1
      BY <2>5, <3>1, Zenon
    <3>2. CASE k = n
      <4>1. n - 1 \in 1..n - 1 /\ (n - 1) + 1 = n
        BY <2>1
      <4>2. p[(n - 1) + 1] \in ByID
        BY <2>5, <4>1, Zenon
      <4> QED
        BY <3>2, <4>1, <4>2
    <3>3. k \in 1..n - 1 \/ k = n
      <4>1. n \in Nat
        BY <2>1
      <4> HIDE DEF n
      <4> QED
        BY <4>1
    <3> QED
      BY <3>1, <3>2, <3>3, Zenon
  <2>7. target.given => \A k \in 1..n : p[k] \in target.reaches
    BY <1>4, <2>6
  <2>8. p # <<>> /\ p[1] = req.start /\ p[n] = req.end /\ n - 1 <= Depth
    BY <1>6, <2>1 DEF IsWalk
  <2>9. IsInjective(p)
    BY <2>1, <2>2 DEF IsInjective
  <2>10. IsPath(p)
    <3>1. /\ Last(p) = req.end
          /\ Len(p) - 1 <= IF req.depth \in 1..MaxDepth THEN req.depth ELSE DefaultDepth
      BY <1>1, <2>8 DEF Last
    <3> QED
      BY <2>5, <2>7, <2>8, <2>9, <3>1 DEF IsPath
  <2>11. n \in 2..Cardinality(Syms)
    BY <1>3, <2>1, <2>3
  <2> QED
    BY <1>2, <2>1, <2>10, <2>11
<1> QED
  BY <1>5, <1>6

\* What an element of a sequence is after the last one is dropped.
LEMMA FrontFacts ==
    ASSUME NEW A, NEW t \in Seq(A), Len(t) >= 1
    PROVE  /\ Front(t) \in Seq(A) /\ Len(Front(t)) = Len(t) - 1
           /\ \A k \in 1..Len(t) - 1 : Front(t)[k] = t[k]
<1> DEFINE n == Len(t) - 1
<1>1. n \in Nat /\ n <= Len(t) /\ Len(t) \in Nat
  OBVIOUS
<1>2. Front(t) = SubSeq(t, 1, n)
  BY DEF Front
<1> HIDE DEF n
<1>3. /\ SubSeq(t, 1, n) \in Seq(A) /\ Len(SubSeq(t, 1, n)) = n
      /\ \A k \in 1..n : SubSeq(t, 1, n)[k] = t[k]
  BY <1>1
<1> QED
  BY <1>2, <1>3 DEF n

\* dfs returns to its caller, or the walk is over.
LEMMA ReturnFacts ==
    ASSUME AskedInv, AdjInv, StackInv, stack # <<>>, Return
    PROVE  /\ stack' \in Seq(Syms) /\ Len(stack') = Len(stack) - 1
           /\ \A k \in 1..Len(stack) - 1 : stack'[k] = stack[k]
           /\ pos' \in Seq(Nat) /\ Len(pos') = Len(stack) - 1
           /\ \A k \in 1..Len(stack) - 2 : pos'[k] = pos[k]
           /\ Len(stack) > 1 => pos'[Len(stack) - 1] = pos[Len(stack) - 1] + 1
           /\ visited' = visited \ {stack[Len(stack)]}
<1> DEFINE n == Len(stack)
<1>1. stack \in Seq(Syms) /\ pos \in Seq(Nat) /\ n \in Nat /\ n >= 1 /\ Len(pos) = n
  BY DEF StackInv
<1>2. /\ stack' = Front(stack) /\ visited' = visited \ {stack[n]}
      /\ pos' = IF n = 1 THEN <<>> ELSE [Front(pos) EXCEPT ![n - 1] = @ + 1]
  BY DEF Return, Unvisit, Last, Top
<1> HIDE DEF n
<1>3. /\ stack' \in Seq(Syms) /\ Len(stack') = n - 1
      /\ \A k \in 1..n - 1 : stack'[k] = stack[k]
  BY <1>1, <1>2, FrontFacts, Zenon DEF n
<1> DEFINE f == Front(pos)
<1>4. f \in Seq(Nat) /\ Len(f) = n - 1 /\ \A k \in 1..n - 1 : f[k] = pos[k]
  BY <1>1, FrontFacts, Zenon
<1> HIDE DEF f
<1>5. /\ pos' \in Seq(Nat) /\ Len(pos') = n - 1
      /\ \A k \in 1..n - 2 : pos'[k] = pos[k]
      /\ n > 1 => pos'[n - 1] = pos[n - 1] + 1
  <2>1. CASE n = 1
    BY <1>2, <2>1
  <2>2. CASE n > 1
    <3>1. pos' = [f EXCEPT ![n - 1] = @ + 1]
      BY <1>1, <1>2, <2>2 DEF f
    <3>2. n - 1 \in 1..Len(f)
      BY <1>1, <1>4, <2>2
    <3>3. f[n - 1] \in Nat /\ f[n - 1] = pos[n - 1]
      BY <1>4, <3>2
    <3>4. pos' \in Seq(Nat) /\ Len(pos') = n - 1
      BY <1>4, <3>1, <3>2, <3>3
    <3>5. ASSUME NEW k \in 1..n - 2 PROVE pos'[k] = pos[k]
      <4>1. k \in 1..n - 1 /\ k \in 1..Len(f) /\ k # n - 1
        BY <1>1, <1>4
      <4> QED
        BY <1>4, <3>1, <4>1
    <3>6. pos'[n - 1] = pos[n - 1] + 1
      BY <1>4, <3>1, <3>2, <3>3
    <3> QED
      BY <3>4, <3>5, <3>6
  <2> QED
    BY <1>1, <2>1, <2>2
<1> QED
  BY <1>2, <1>3, <1>5, Zenon DEF n

\* Whether the stack's properties survive a return.
LEMMA ReturnStack ==
    ASSUME AskedInv, AdjInv, StackInv, stack # <<>>, Return, adj' = adj, UNCHANGED asked
    PROVE  StackInv'
<1> DEFINE n == Len(stack)
<1>1. /\ stack' \in Seq(Syms) /\ Len(stack') = n - 1
      /\ \A k \in 1..n - 1 : stack'[k] = stack[k]
      /\ pos' \in Seq(Nat) /\ Len(pos') = n - 1
      /\ \A k \in 1..n - 2 : pos'[k] = pos[k]
      /\ n > 1 => pos'[n - 1] = pos[n - 1] + 1
      /\ visited' = visited \ {stack[n]}
  BY ReturnFacts
<1>2. /\ stack \in Seq(Syms) /\ pos \in Seq(Nat) /\ Len(pos) = n /\ n \in Nat /\ n >= 1
      /\ \A s : s \in visited <=> \E k \in 1..n : stack[k] = s
      /\ IsWalk(stack)
      /\ \A k \in 1..n : stack[k] # req.end /\ (pos[k] >= 1 => k <= Depth)
      /\ \A k \in 1..n - 1 : pos[k] \in 1..Len(adj[stack[k]]) /\ adj[stack[k]][pos[k]] = stack[k + 1]
  BY DEF StackInv
<1>3. req' = req /\ edges' = edges /\ target' = target
  BY DEF asked
<1>4. /\ stack[1] = req.start
      /\ \A j, k \in 1..n : stack[j] = stack[k] => j = k
      /\ \A k \in 1..n - 1 : stack[k + 1] \in CalleesOf(stack[k])
  BY <1>2 DEF IsWalk
<1>5. Depth' = Depth /\ \A s : CalleesOf(s)' = CalleesOf(s)
  BY <1>3 DEF Depth, CalleesOf, ByID
<1> HIDE DEF n
<1>6. ASSUME NEW s PROVE s \in visited' <=> \E k \in 1..n - 1 : stack'[k] = s
  <2>1. ASSUME s \in visited' PROVE \E k \in 1..n - 1 : stack'[k] = s
    <3>1. PICK k \in 1..n : stack[k] = s
      BY <1>1, <1>2, <2>1
    <3>2. k # n
      BY <1>1, <2>1, <3>1
    <3>3. k \in 1..n - 1
      BY <1>2, <3>2
    <3> QED
      BY <1>1, <3>1, <3>3
  <2>2. ASSUME NEW k \in 1..n - 1, stack'[k] = s PROVE s \in visited'
    <3>1. k \in 1..n /\ n \in 1..n /\ k # n
      BY <1>2
    <3>2. stack[k] = s /\ s # stack[n]
      BY <1>1, <1>4, <2>2, <3>1
    <3> QED
      BY <1>1, <1>2, <3>1, <3>2, Zenon
  <2> QED
    BY <2>1, <2>2
<1>7. ASSUME stack' # <<>> PROVE IsWalk(stack)'
  <2>1. n - 1 >= 1
    BY <1>1, <1>2, <1>7
  <2>2. stack'[1] = req.start
    BY <1>1, <1>2, <1>4, <2>1
  <2>3. \A j, k \in 1..n - 1 : stack'[j] = stack'[k] => j = k
    <3>1. \A j \in 1..n - 1 : j \in 1..n
      BY <1>2
    <3> QED
      BY <1>1, <1>4, <3>1, Zenon
  <2>4. ASSUME NEW k \in 1..(n - 1) - 1 PROVE stack'[k + 1] \in CalleesOf(stack'[k])
    <3>1. k \in 1..n - 1 /\ k + 1 \in 1..n - 1
      BY <1>2
    <3> QED
      BY <1>1, <1>4, <3>1, Zenon
  <2>5. \A k \in 1..(n - 1) - 1 : stack'[k + 1] \in CalleesOf(stack[k])'
    <3>1. ASSUME NEW k \in 1..(n - 1) - 1 PROVE CalleesOf(stack[k])' = CalleesOf(stack'[k])
      BY <1>3 DEF CalleesOf, ByID
    <3> QED
      BY <2>4, <3>1
  <2> QED
    BY <1>1, <1>3, <2>1, <2>2, <2>3, <2>5, Zenon DEF IsWalk
<1>8. ASSUME NEW k \in 1..n - 1 PROVE stack'[k] # req.end /\ (pos'[k] >= 1 => k <= Depth)
  <2>1. k \in 1..n /\ pos[k] \in 1..Len(adj[stack[k]])
    BY <1>2
  <2>2. pos[k] >= 1
    <3>1. stack[k] \in Syms
      BY <1>2, <2>1 DEF n
    <3>2. Len(adj[stack[k]]) \in Nat
      BY <3>1 DEF AdjInv
    <3> QED
      BY <2>1, <3>2
  <2> QED
    BY <1>1, <1>2, <2>1, <2>2, Zenon
<1>9. ASSUME NEW k \in 1..(n - 1) - 1
      PROVE  pos'[k] \in 1..Len(adj[stack'[k]]) /\ adj[stack'[k]][pos'[k]] = stack'[k + 1]
  <2>1. k \in 1..n - 1 /\ k + 1 \in 1..n - 1 /\ k \in 1..n - 2
    BY <1>2
  <2> QED
    BY <1>1, <1>2, <2>1, Zenon
<1> QED
  BY <1>1, <1>3, <1>5, <1>6, <1>7, <1>8, <1>9 DEF StackInv

\* p goes on from where the stack ends.
GoesOn(p, st) == Len(p) > Len(st) /\ \A m \in 1..Len(st) : p[m] = st[m]

\* A return leaves behind what was left behind, and what goes on from the stack.
LEMMA ReturnExplores ==
    ASSUME AskedInv, AdjInv, StackInv, stack # <<>>, Return, NEW p \in PathsFound
    PROVE  /\ Explored(p, stack, pos, adj) => Explored(p, stack', pos', adj)
           /\ Explored(p, stack', pos', adj) => Explored(p, stack, pos, adj) \/ GoesOn(p, stack)
<1> DEFINE n == Len(stack)
           row(k) == adj[stack[k]]
<1>1. /\ stack' \in Seq(Syms) /\ Len(stack') = n - 1
      /\ \A k \in 1..n - 1 : stack'[k] = stack[k]
      /\ pos' \in Seq(Nat) /\ Len(pos') = n - 1
      /\ \A k \in 1..n - 2 : pos'[k] = pos[k]
      /\ n > 1 => pos'[n - 1] = pos[n - 1] + 1
  BY ReturnFacts
<1>2. /\ stack \in Seq(Syms) /\ pos \in Seq(Nat) /\ Len(pos) = n /\ n \in Nat /\ n >= 1
      /\ stack[1] = req.start
      /\ \A k \in 1..n : stack[k] # req.end /\ pos[k] \in Nat /\ stack[k] \in Syms
      /\ \A k \in 1..n - 1 : pos[k] \in 1..Len(row(k)) /\ row(k)[pos[k]] = stack[k + 1]
  BY DEF StackInv, IsWalk
<1>3. req.start # req.end
  BY <1>2
<1>4. p[1] = req.start /\ p[Len(p)] = req.end /\ Len(p) \in Nat /\ Len(p) >= 2
  BY <1>3, PathsAreWalks DEF IsWalk
<1>5. \A k \in 1..n : Len(row(k)) \in Nat
  BY <1>2 DEF AdjInv
<1> DEFINE Old(k) == LeavesAt(p, k, stack, pos, adj)
           New(k) == LeavesAt(p, k, stack', pos', adj)
<1>6. /\ Explored(p, stack, pos, adj) <=> \E k \in 1..n : Old(k)
      /\ Explored(p, stack', pos', adj) <=> stack' = <<>> \/ \E k \in 1..n - 1 : New(k)
  BY <1>1 DEF Explored
<1>7. ASSUME NEW k \in 1..n
      PROVE  Old(k) <=> /\ k < Len(p) /\ \A m \in 1..k : p[m] = stack[m]
                        /\ \E i \in 1..Len(row(k)) : i < pos[k] /\ row(k)[i] = p[k + 1]
  BY DEF LeavesAt
<1> HIDE DEF n
<1>8. ASSUME NEW k \in 1..n - 1
      PROVE  New(k) <=> /\ k < Len(p) /\ \A m \in 1..k : p[m] = stack[m]
                        /\ \E i \in 1..Len(row(k)) : i < pos'[k] /\ row(k)[i] = p[k + 1]
  <2>0. \A m \in 1..k : m \in 1..n - 1
    BY <1>2
  <2>1. stack'[k] = stack[k] /\ \A m \in 1..k : stack'[m] = stack[m]
    BY <1>1, <2>0
  <2> QED
    BY <2>1 DEF LeavesAt
<1>9. CASE n = 1
  <2>1. stack' = <<>>
    BY <1>1, <1>9
  <2>2. GoesOn(p, stack)
    BY <1>2, <1>4, <1>9 DEF GoesOn, n
  <2> QED
    BY <1>6, <2>1, <2>2
<1>10. CASE n > 1
  <2>0. stack' # <<>> /\ n - 1 \in 1..n /\ n - 1 \in 1..n - 1 /\ n \in 1..n /\ (n - 1) + 1 = n
    BY <1>1, <1>2, <1>10
  <2>1. ASSUME NEW k \in 1..n, Old(k) PROVE \E j \in 1..n - 1 : New(j)
    <3>1. CASE k \in 1..n - 2
      <4>1. k \in 1..n - 1 /\ pos'[k] = pos[k]
        <5>1. k \in 1..n - 1
          BY <1>2, <3>1
        <5> QED
          BY <1>1, <3>1, <5>1, Zenon
      <4>2. New(k)
        BY <1>7, <1>8, <2>1, <4>1, Zenon
      <4> QED
        BY <4>1, <4>2
    <3>2. CASE k = n - 1
      <4>1. PICK i \in 1..Len(row(k)) : i < pos[k] /\ row(k)[i] = p[k + 1]
        BY <1>7, <2>1
      <4>2. i < pos'[k]
        <5>1. Len(row(k)) \in Nat /\ pos[k] \in Nat /\ pos'[k] = pos[k] + 1
          BY <1>1, <1>2, <1>5, <1>10, <2>0, <3>2
        <5>2. i \in Nat /\ i < pos[k]
          BY <4>1, <5>1
        <5> QED
          BY <5>1, <5>2
      <4>3. New(k)
        BY <1>7, <1>8, <2>0, <2>1, <3>2, <4>1, <4>2, Zenon
      <4> QED
        BY <2>0, <3>2, <4>3
    <3>3. CASE k = n
      <4>1. n < Len(p) /\ \A m \in 1..n : p[m] = stack[m]
        BY <1>7, <2>1, <3>3
      <4>2. p[n] = stack[n]
        BY <2>0, <4>1
      <4>3. pos[n - 1] \in 1..Len(row(n - 1)) /\ row(n - 1)[pos[n - 1]] = stack[n]
        BY <1>2, <2>0, Zenon
      <4>4. pos[n - 1] < pos'[n - 1]
        <5>1. pos[n - 1] \in Nat /\ pos'[n - 1] = pos[n - 1] + 1
          BY <1>1, <1>2, <1>10, <2>0
        <5> QED
          BY <5>1
      <4>5. n - 1 < Len(p) /\ \A m \in 1..n - 1 : p[m] = stack[m]
        BY <1>2, <1>4, <4>1
      <4>6. row(n - 1)[pos[n - 1]] = p[(n - 1) + 1]
        BY <2>0, <4>2, <4>3
      <4>7. New(n - 1)
        BY <1>8, <2>0, <4>3, <4>4, <4>5, <4>6, Zenon
      <4> QED
        BY <2>0, <4>7
    <3>4. k \in 1..n - 2 \/ k = n - 1 \/ k = n
      BY <1>2
    <3> QED
      BY <3>1, <3>2, <3>3, <3>4
  <2>2. ASSUME NEW k \in 1..n - 1, New(k) PROVE (\E j \in 1..n : Old(j)) \/ GoesOn(p, stack)
    <3>0. k \in 1..n
      BY <1>2
    <3>1. CASE k \in 1..n - 2
      <4>1. pos'[k] = pos[k]
        BY <1>1, <3>1
      <4>2. Old(k)
        BY <1>7, <1>8, <2>2, <3>0, <4>1
      <4> QED
        BY <3>0, <4>2
    <3>2. CASE k = n - 1
      <4>1. PICK i \in 1..Len(row(k)) : i < pos'[k] /\ row(k)[i] = p[k + 1]
        BY <1>8, <2>2
      <4>2. i < pos[k] \/ i = pos[k]
        <5>1. pos'[k] = pos[k] + 1 /\ pos[k] \in Nat
          BY <1>1, <1>2, <1>10, <3>0, <3>2
        <5>2. i \in Nat
          BY <1>5, <3>0
        <5> QED
          BY <4>1, <5>1, <5>2
      <4>3. CASE i < pos[k]
        <5>1. Old(k)
          BY <1>7, <1>8, <2>2, <3>0, <4>1, <4>3, Zenon
        <5> QED
          BY <3>0, <5>1
      <4>4. CASE i = pos[k]
        <5>1. p[n] = stack[n]
          BY <1>2, <2>0, <3>2, <4>1, <4>4, Zenon
        <5>2. n - 1 < Len(p) /\ \A m \in 1..n - 1 : p[m] = stack[m]
          BY <1>8, <2>2, <3>2
        <5>3. \A m \in 1..n : p[m] = stack[m]
          <6>1. \A m \in 1..n : m \in 1..n - 1 \/ m = n
            BY <1>2
          <6> QED
            BY <5>1, <5>2, <6>1
        <5>4. Len(p) # n
          BY <1>2, <1>4, <2>0, <5>1, Zenon
        <5>5. Len(p) > n
          BY <1>2, <1>4, <5>2, <5>4
        <5> QED
          BY <5>3, <5>5 DEF GoesOn, n
      <4> QED
        BY <4>2, <4>3, <4>4
    <3> QED
      BY <1>2, <3>1, <3>2
  <2> QED
    BY <1>6, <2>0, <2>1, <2>2
<1> QED
  BY <1>2, <1>9, <1>10

\* The innermost loop goes on to its next callee.
Advances ==
    /\ stack' = stack /\ visited' = visited /\ adj' = adj
    /\ pos' = [pos EXCEPT ![Len(stack)] = pos[Len(stack)] + 1]

\* What the loop's step leaves alone.
LEMMA AdvanceFacts ==
    ASSUME StackInv, stack # <<>>, Advances
    PROVE  /\ Len(stack) \in Nat /\ Len(stack) >= 1
           /\ pos' \in Seq(Nat) /\ Len(pos') = Len(stack) /\ pos[Len(stack)] \in Nat
           /\ \A k \in 1..Len(stack) - 1 : pos'[k] = pos[k]
           /\ pos'[Len(stack)] = pos[Len(stack)] + 1
<1> DEFINE n == Len(stack)
<1>1. stack \in Seq(Syms) /\ n \in Nat /\ n >= 1 /\ pos \in Seq(Nat) /\ Len(pos) = n
  BY DEF StackInv
<1>2. pos' = [pos EXCEPT ![n] = pos[n] + 1]
  BY DEF Advances
<1> HIDE DEF n
<1>3. n \in 1..Len(pos) /\ pos[n] \in Nat
  BY <1>1
<1>4. pos' \in Seq(Nat) /\ Len(pos') = n
  BY <1>1, <1>2, <1>3
<1>5. \A k \in 1..n - 1 : pos'[k] = pos[k]
  <2>1. \A k \in 1..n - 1 : k \in 1..Len(pos) /\ k # n
    BY <1>1
  <2> QED
    BY <1>1, <1>2, <2>1
<1>6. pos'[n] = pos[n] + 1
  BY <1>1, <1>2, <1>3
<1> QED
  BY <1>1, <1>3, <1>4, <1>5, <1>6 DEF n

\* The stack's properties survive it, as long as the depth allows the loop.
LEMMA AdvanceStack ==
    ASSUME StackInv, stack # <<>>, Advances, UNCHANGED asked, Len(stack) <= Depth
    PROVE  StackInv'
<1> DEFINE n == Len(stack)
<1>1. /\ n \in Nat /\ n >= 1 /\ pos' \in Seq(Nat) /\ Len(pos') = n
      /\ \A k \in 1..n - 1 : pos'[k] = pos[k]
  BY AdvanceFacts
<1>2. stack' = stack /\ visited' = visited /\ adj' = adj
  BY DEF Advances
<1>3. req' = req /\ edges' = edges /\ target' = target
  BY DEF asked
<1>4. Depth' = Depth
  BY <1>3 DEF Depth
<1>5. IsWalk(stack)' <=> IsWalk(stack)
  BY <1>2, <1>3 DEF IsWalk, CalleesOf, ByID
<1>6. /\ stack \in Seq(Syms)
      /\ \A s : s \in visited <=> \E k \in 1..n : stack[k] = s
      /\ IsWalk(stack)
      /\ \A k \in 1..n : stack[k] # req.end /\ (pos[k] >= 1 => k <= Depth)
      /\ \A k \in 1..n - 1 : pos[k] \in 1..Len(adj[stack[k]]) /\ adj[stack[k]][pos[k]] = stack[k + 1]
  BY DEF StackInv
<1> HIDE DEF n
<1>7. \A k \in 1..n : k \in 1..n - 1 \/ k = n
  BY <1>1
<1>8. n <= Depth
  BY DEF n
<1>9. \A k \in 1..n : stack[k] # req.end /\ (pos'[k] >= 1 => k <= Depth)
  BY <1>1, <1>6, <1>7, <1>8, Zenon
<1>10. \A k \in 1..n - 1 : pos'[k] \in 1..Len(adj[stack[k]]) /\ adj[stack[k]][pos'[k]] = stack[k + 1]
  BY <1>1, <1>6, Zenon
<1> QED
  BY <1>1, <1>2, <1>3, <1>4, <1>5, <1>6, <1>9, <1>10, Zenon DEF StackInv, n

\* It leaves behind what goes on over the callee the loop was at.
LEMMA AdvanceExplores ==
    ASSUME AdjInv, StackInv, stack # <<>>, Advances, NEW p
    PROVE  /\ Explored(p, stack, pos, adj) => Explored(p, stack', pos', adj)
           /\ Explored(p, stack', pos', adj) =>
                 \/ Explored(p, stack, pos, adj)
                 \/ /\ GoesOn(p, stack) /\ pos[Len(stack)] \in 1..Len(adj[stack[Len(stack)]])
                    /\ p[Len(stack) + 1] = adj[stack[Len(stack)]][pos[Len(stack)]]
<1> DEFINE n == Len(stack)
           row(k) == adj[stack[k]]
<1>1. /\ n \in Nat /\ n >= 1 /\ pos[n] \in Nat
      /\ \A k \in 1..n - 1 : pos'[k] = pos[k]
      /\ pos'[n] = pos[n] + 1
  BY AdvanceFacts
<1>2. stack' = stack /\ stack \in Seq(Syms)
  BY DEF Advances, StackInv
<1>3. Len(row(n)) \in Nat
  BY <1>1, <1>2 DEF AdjInv
<1> DEFINE Old(k) == LeavesAt(p, k, stack, pos, adj)
           New(k) == LeavesAt(p, k, stack, pos', adj)
<1>4. /\ Explored(p, stack, pos, adj) <=> \E k \in 1..n : Old(k)
      /\ Explored(p, stack', pos', adj) <=> \E k \in 1..n : New(k)
  BY <1>2 DEF Explored
<1>5. /\ Old(n) <=> /\ n < Len(p) /\ \A m \in 1..n : p[m] = stack[m]
                    /\ \E i \in 1..Len(row(n)) : i < pos[n] /\ row(n)[i] = p[n + 1]
      /\ New(n) <=> /\ n < Len(p) /\ \A m \in 1..n : p[m] = stack[m]
                    /\ \E i \in 1..Len(row(n)) : i < pos'[n] /\ row(n)[i] = p[n + 1]
  BY DEF LeavesAt
<1>6. ASSUME NEW k \in 1..n - 1 PROVE Old(k) <=> New(k)
  BY <1>1, Zenon DEF LeavesAt
<1>7. GoesOn(p, stack) <=> Len(p) > n /\ \A m \in 1..n : p[m] = stack[m]
  BY DEF GoesOn
<1>8. n < Len(p) <=> Len(p) > n
  OBVIOUS
<1> HIDE DEF n, Old, New, row
<1>9. \A k \in 1..n : k \in 1..n - 1 \/ k = n
  BY <1>1
<1>10. ASSUME Old(n) PROVE New(n)
  <2>1. PICK i \in 1..Len(row(n)) : i < pos[n] /\ row(n)[i] = p[n + 1]
    BY <1>5, <1>10
  <2>2. i < pos'[n]
    BY <1>1, <1>3, <2>1
  <2> QED
    BY <1>5, <1>10, <2>1, <2>2
<1>11. ASSUME New(n)
       PROVE  Old(n) \/ (GoesOn(p, stack) /\ pos[n] \in 1..Len(row(n)) /\ p[n + 1] = row(n)[pos[n]])
  <2>1. PICK i \in 1..Len(row(n)) : i < pos'[n] /\ row(n)[i] = p[n + 1]
    BY <1>5, <1>11
  <2>2. i < pos[n] \/ i = pos[n]
    BY <1>1, <1>3, <2>1
  <2> QED
    BY <1>5, <1>7, <1>8, <1>11, <2>1, <2>2
<1>12. Explored(p, stack, pos, adj) => Explored(p, stack', pos', adj)
  BY <1>4, <1>6, <1>9, <1>10
<1>13. Explored(p, stack', pos', adj) =>
          \/ Explored(p, stack, pos, adj)
          \/ (GoesOn(p, stack) /\ pos[n] \in 1..Len(row(n)) /\ p[n + 1] = row(n)[pos[n]])
  <2>1. n \in 1..n
    BY <1>1
  <2> QED
    BY <1>4, <1>6, <1>9, <1>11, <2>1
<1> QED
  BY <1>12, <1>13 DEF n, row

\* A call of dfs for a symbol that is not on the path begins.
Enters(c) ==
    /\ stack' = Append(stack, c) /\ visited' = visited \cup {c} /\ adj' = adj
    /\ pos' = Append(pos, 0)

\* What the new call adds.
LEMMA DescendFacts ==
    ASSUME StackInv, NEW c \in Syms, Enters(c)
    PROVE  /\ Len(stack) \in Nat
           /\ stack' \in Seq(Syms) /\ Len(stack') = Len(stack) + 1
           /\ pos' \in Seq(Nat) /\ Len(pos') = Len(stack) + 1
           /\ \A k \in 1..Len(stack) : stack'[k] = stack[k] /\ pos'[k] = pos[k]
           /\ stack'[Len(stack) + 1] = c /\ pos'[Len(stack) + 1] = 0
<1> DEFINE n == Len(stack)
<1>1. stack \in Seq(Syms) /\ pos \in Seq(Nat) /\ n \in Nat /\ Len(pos) = n
  BY DEF StackInv
<1>2. stack' = Append(stack, c) /\ pos' = Append(pos, 0) /\ 0 \in Nat
  BY DEF Enters
<1>3. /\ stack' \in Seq(Syms) /\ Len(stack') = n + 1
      /\ (\A k \in 1..n : stack'[k] = stack[k]) /\ stack'[n + 1] = c
  BY <1>1, <1>2
<1> HIDE DEF n
<1>4. /\ pos' \in Seq(Nat) /\ Len(pos') = n + 1
      /\ (\A k \in 1..n : pos'[k] = pos[k]) /\ pos'[n + 1] = 0
  BY <1>1, <1>2
<1> QED
  BY <1>1, <1>3, <1>4 DEF n

\* The stack's properties survive it.
LEMMA DescendStack ==
    ASSUME AskedInv, AdjInv, StackInv, stack # <<>>, UNCHANGED asked,
           NEW i \in 1..Len(adj[stack[Len(stack)]]), pos[Len(stack)] = i,
           NEW c \in Syms, c = adj[stack[Len(stack)]][i], c \notin visited, c # req.end,
           Enters(c)
    PROVE  StackInv'
<1> DEFINE n == Len(stack)
<1>0. /\ \A s : s \in visited <=> \E k \in 1..n : stack[k] = s
      /\ IsWalk(stack)
      /\ \A k \in 1..n : stack[k] # req.end /\ (pos[k] >= 1 => k <= Depth)
      /\ \A k \in 1..n - 1 : pos[k] \in 1..Len(adj[stack[k]]) /\ adj[stack[k]][pos[k]] = stack[k + 1]
  BY DEF StackInv
<1>1. /\ n \in Nat /\ n >= 1 /\ \A k \in 1..n : stack[k] \in Syms
  <2>1. stack \in Seq(Syms)
    BY DEF StackInv
  <2> QED
    BY <2>1
<1>2. /\ stack' \in Seq(Syms) /\ Len(stack') = n + 1
      /\ pos' \in Seq(Nat) /\ Len(pos') = n + 1
      /\ \A k \in 1..n : stack'[k] = stack[k] /\ pos'[k] = pos[k]
      /\ stack'[n + 1] = c /\ pos'[n + 1] = 0
  BY DescendFacts
<1>3. visited' = visited \cup {c} /\ adj' = adj
  BY DEF Enters
<1>4. req' = req /\ edges' = edges /\ target' = target
  BY DEF asked
<1>5. Depth' = Depth /\ \A s : CalleesOf(s)' = CalleesOf(s)
  BY <1>4 DEF Depth, CalleesOf, ByID
<1>6. /\ stack[1] = req.start
      /\ \A j, k \in 1..n : stack[j] = stack[k] => j = k
      /\ \A k \in 1..n - 1 : stack[k + 1] \in CalleesOf(stack[k])
  BY <1>0 DEF IsWalk
<1>7. c \in CalleesOf(stack[n])
  BY <1>1 DEF AdjInv
<1>8. pos[n] \in 1..Len(adj[stack[n]]) /\ adj[stack[n]][pos[n]] = c
  OBVIOUS
<1> HIDE DEF n
<1>9. /\ n + 1 \in 1..n + 1 /\ \A k \in 1..n + 1 : k \in 1..n \/ k = n + 1
      /\ \A k \in 1..(n + 1) - 1 : k \in 1..n /\ (k \in 1..n - 1 \/ k = n)
      /\ \A k \in 1..n : k \in 1..n + 1
      /\ \A k \in 1..n - 1 : k + 1 \in 1..n
  BY <1>1
<1>10. \A s : s \in visited' <=> \E k \in 1..n + 1 : stack'[k] = s
  <2>1. ASSUME NEW s, s \in visited' PROVE \E k \in 1..n + 1 : stack'[k] = s
    <3>1. CASE s = c
      BY <1>2, <1>9, <3>1
    <3>2. CASE s \in visited
      <4>1. PICK k \in 1..n : stack[k] = s
        BY <1>0, <3>2
      <4> QED
        BY <1>2, <1>9, <4>1
    <3> QED
      BY <1>3, <2>1, <3>1, <3>2
  <2>2. ASSUME NEW s, NEW k \in 1..n + 1, stack'[k] = s PROVE s \in visited'
    <3>1. CASE k \in 1..n
      BY <1>0, <1>2, <1>3, <2>2, <3>1
    <3>2. CASE k = n + 1
      BY <1>2, <1>3, <2>2, <3>2
    <3> QED
      BY <1>9, <3>1, <3>2
  <2> QED
    BY <2>1, <2>2
<1>11. ASSUME NEW j \in 1..n + 1, NEW k \in 1..n + 1, stack'[j] = stack'[k] PROVE j = k
  <2>1. \A m \in 1..n : stack'[m] = stack[m] /\ stack'[m] # c
    BY <1>0, <1>2, Zenon
  <2>2. CASE j \in 1..n /\ k \in 1..n
    BY <1>6, <1>11, <2>1, <2>2
  <2>3. CASE j = n + 1 \/ k = n + 1
    BY <1>2, <1>9, <1>11, <2>1, <2>3
  <2> QED
    BY <1>9, <2>2, <2>3
<1>12. ASSUME NEW k \in 1..(n + 1) - 1 PROVE stack'[k + 1] \in CalleesOf(stack'[k])
  <2>1. CASE k \in 1..n - 1
    <3>1. k \in 1..n /\ k + 1 \in 1..n
      BY <1>9, <2>1
    <3>2. stack'[k] = stack[k] /\ stack'[k + 1] = stack[k + 1]
      BY <1>2, <3>1
    <3> QED
      BY <1>6, <2>1, <3>2
  <2>2. CASE k = n
    <3>1. stack'[n] = stack[n] /\ stack'[n + 1] = c
      BY <1>2, <1>9, <2>2
    <3> QED
      BY <1>7, <2>2, <3>1
  <2> QED
    BY <1>9, <2>1, <2>2
<1>13. ASSUME NEW k \in 1..n + 1 PROVE stack'[k] # req.end /\ (pos'[k] >= 1 => k <= Depth)
  <2>1. CASE k \in 1..n
    BY <1>0, <1>2, <2>1, Zenon
  <2>2. CASE k = n + 1
    <3>1. stack'[k] = c /\ pos'[k] = 0 /\ ~(0 >= 1)
      BY <1>2, <2>2
    <3> QED
      BY <3>1
  <2> QED
    BY <1>9, <2>1, <2>2
<1>14. ASSUME NEW k \in 1..(n + 1) - 1
       PROVE  pos'[k] \in 1..Len(adj[stack'[k]]) /\ adj[stack'[k]][pos'[k]] = stack'[k + 1]
  <2>1. CASE k \in 1..n - 1
    <3>1. k \in 1..n /\ k + 1 \in 1..n
      BY <1>9, <2>1
    <3>2. stack'[k] = stack[k] /\ stack'[k + 1] = stack[k + 1] /\ pos'[k] = pos[k]
      BY <1>2, <3>1, Zenon
    <3> QED
      BY <1>0, <2>1, <3>2
  <2>2. CASE k = n
    <3>1. stack'[n] = stack[n] /\ stack'[n + 1] = c /\ pos'[n] = pos[n]
      BY <1>2, <1>9, <2>2
    <3> QED
      BY <1>8, <2>2, <3>1
  <2> QED
    BY <1>9, <2>1, <2>2
<1>15. IsWalk(stack)'
  <2>1. n + 1 >= 1 /\ 1 \in 1..n
    BY <1>1
  <2>2. stack'[1] = req.start
    BY <1>2, <1>6, <2>1
  <2> QED
    BY <1>2, <1>4, <1>5, <1>11, <1>12, <2>1, <2>2 DEF IsWalk
<1> QED
  BY <1>2, <1>3, <1>4, <1>5, <1>10, <1>13, <1>14, <1>15 DEF StackInv

\* It leaves nothing behind.
LEMMA DescendExplores ==
    ASSUME StackInv, stack # <<>>, NEW c \in Syms, Enters(c), NEW p
    PROVE  Explored(p, stack', pos', adj) <=> Explored(p, stack, pos, adj)
<1> DEFINE n == Len(stack)
           Old(k) == LeavesAt(p, k, stack, pos, adj)
           New(k) == LeavesAt(p, k, stack', pos', adj)
<1>1. /\ n \in Nat /\ stack' \in Seq(Syms) /\ Len(stack') = n + 1
      /\ \A k \in 1..n : stack'[k] = stack[k] /\ pos'[k] = pos[k]
      /\ pos'[n + 1] = 0
  BY DescendFacts
<1>2. stack' # <<>>
  BY <1>1
<1>3. /\ Explored(p, stack, pos, adj) <=> \E k \in 1..n : Old(k)
      /\ Explored(p, stack', pos', adj) <=> \E k \in 1..n + 1 : New(k)
  BY <1>1, <1>2 DEF Explored
<1>4. ASSUME NEW k \in 1..n PROVE Old(k) <=> New(k)
  <2>1. \A m \in 1..k : m \in 1..n
    BY <1>1
  <2> QED
    BY <1>1, <2>1, Zenon DEF LeavesAt
<1>5. ~ New(n + 1)
  <2>1. \A i \in 1..Len(adj[stack'[n + 1]]) : ~(i < 0)
    OBVIOUS
  <2> QED
    BY <1>1, <2>1 DEF LeavesAt
<1> HIDE DEF n, Old, New
<1>6. \A k \in 1..n + 1 : k \in 1..n \/ k = n + 1
  BY <1>1
<1>7. \A k \in 1..n : k \in 1..n + 1
  BY <1>1
<1> QED
  BY <1>3, <1>4, <1>5, <1>6, <1>7

\* A request keeps its paths.
LEMMA PathsKept ==
    ASSUME UNCHANGED asked
    PROVE  PathsFound' = PathsFound /\ AskedInv' = AskedInv /\ Depth' = Depth
<1>1. req' = req /\ edges' = edges /\ target' = target
  BY DEF asked
<1> QED
  BY <1>1 DEF PathsFound, IsPath, AskedInv, Depth

\* A step that notes nothing, and leaves behind no path that is not noted.
LEMMA OutKept ==
    ASSUME OutInv, UNCHANGED asked, adj' = adj, out' = out,
           \A p \in PathsFound : Explored(p, stack, pos, adj) => Explored(p, stack', pos', adj),
           Len(out) < Limit =>
              \A p \in PathsFound : Explored(p, stack', pos', adj) => Explored(p, stack, pos, adj)
    PROVE  OutInv'
<1>1. PathsFound' = PathsFound
  BY PathsKept
<1>2. \A p : Explored(p, stack, pos, adj)' <=> Explored(p, stack', pos', adj)
  BY DEF Explored, LeavesAt
<1>3. \A a, b : Before(a, b)' <=> Before(a, b)
  BY DEF Before
<1>4. out \in Seq(PathsFound)
  BY DEF OutInv
<1>5. \A j \in 1..Len(out) : out[j] \in PathsFound
  BY <1>4
<1>6. \A j \in 1..Len(out) : Explored(out[j], stack', pos', adj)
  BY <1>5 DEF OutInv
<1>7. Limit' = Limit
  BY DEF Limit
<1>8. Len(out) < Limit =>
        \A p \in PathsFound : Explored(p, stack', pos', adj) => \E j \in 1..Len(out) : out[j] = p
  BY DEF OutInv
<1>9. /\ \A j, k \in 1..Len(out) : out[j] = out[k] => j = k
      /\ \A j \in 2..Len(out) : Before(out[j - 1], out[j])
  BY DEF OutInv
<1> QED
  BY <1>1, <1>2, <1>3, <1>4, <1>6, <1>7, <1>8, <1>9 DEF OutInv

\* A step that notes a path.
LEMMA OutNoted ==
    ASSUME OutInv, UNCHANGED asked, adj' = adj, NEW np \in PathsFound, out' = Append(out, np),
           \A j \in 1..Len(out) : Before(out[j], np) /\ out[j] # np,
           \A p \in PathsFound : Explored(p, stack, pos, adj) => Explored(p, stack', pos', adj),
           Explored(np, stack', pos', adj),
           Len(out') < Limit =>
              \A p \in PathsFound :
                 Explored(p, stack', pos', adj) => Explored(p, stack, pos, adj) \/ p = np
    PROVE  OutInv'
<1> DEFINE n == Len(out)
           o == out'
<1>1. PathsFound' = PathsFound
  BY PathsKept
<1>2. \A p : Explored(p, stack, pos, adj)' <=> Explored(p, stack', pos', adj)
  BY DEF Explored, LeavesAt
<1>3. \A a, b : Before(a, b)' <=> Before(a, b)
  BY DEF Before
<1>4. /\ out \in Seq(PathsFound) /\ n \in Nat /\ \A j \in 1..n : out[j] \in PathsFound
      /\ \A j \in 1..n : Explored(out[j], stack, pos, adj)
      /\ \A j, k \in 1..n : out[j] = out[k] => j = k
      /\ \A j \in 2..n : Before(out[j - 1], out[j])
      /\ n < Limit =>
            \A p \in PathsFound : Explored(p, stack, pos, adj) => \E j \in 1..n : out[j] = p
  BY DEF OutInv
<1>5. /\ o \in Seq(PathsFound) /\ Len(o) = n + 1 /\ o[n + 1] = np
      /\ \A j \in 1..n : o[j] = out[j]
  BY <1>4
<1>6. Limit \in Nat
  BY CallPathsAssumption DEF Limit
<1>7. Len(o) < Limit =>
        \A p \in PathsFound : Explored(p, stack', pos', adj) => Explored(p, stack, pos, adj) \/ p = np
  OBVIOUS
<1>8. \A j \in 1..n : Before(out[j], np) /\ out[j] # np
  OBVIOUS
<1> HIDE DEF n, o
<1>9. /\ n + 1 \in 1..n + 1 /\ \A j \in 1..n : j \in 1..n + 1
      /\ \A j \in 1..n + 1 : j \in 1..n \/ j = n + 1
      /\ \A j \in 2..n + 1 : j - 1 \in 1..n /\ (j \in 2..n \/ j = n + 1)
      /\ \A j \in 2..n : j \in 1..n
  BY <1>4
<1>10. \A j \in 1..n + 1 : Explored(o[j], stack', pos', adj)
  BY <1>4, <1>5, <1>9
<1>11. ASSUME NEW j \in 1..n + 1, NEW k \in 1..n + 1, o[j] = o[k] PROVE j = k
  <2>1. CASE j \in 1..n /\ k \in 1..n
    BY <1>4, <1>5, <1>11, <2>1
  <2>2. CASE j = n + 1 \/ k = n + 1
    BY <1>5, <1>8, <1>9, <1>11, <2>2, Zenon
  <2> QED
    BY <1>9, <2>1, <2>2
<1>12. ASSUME NEW j \in 2..n + 1 PROVE Before(o[j - 1], o[j])
  <2>1. j - 1 \in 1..n /\ o[j - 1] = out[j - 1]
    BY <1>5, <1>9
  <2>2. CASE j \in 2..n
    <3>1. o[j] = out[j]
      BY <1>5, <1>9, <2>2
    <3> QED
      BY <1>4, <2>1, <2>2, <3>1
  <2>3. CASE j = n + 1
    <3>1. Before(out[j - 1], np)
      BY <1>8, <2>1
    <3> QED
      BY <1>5, <2>1, <2>3, <3>1
  <2> QED
    BY <1>9, <2>2, <2>3
<1>13. ASSUME Len(o) < Limit, NEW p \in PathsFound, Explored(p, stack', pos', adj)
       PROVE  \E j \in 1..n + 1 : o[j] = p
  <2>1. n < Limit
    BY <1>4, <1>5, <1>6, <1>13
  <2>2. CASE p = np
    BY <1>5, <1>9, <2>2
  <2>3. CASE Explored(p, stack, pos, adj)
    <3>1. PICK j \in 1..n : out[j] = p
      BY <1>4, <2>1, <2>3
    <3> QED
      BY <1>5, <1>9, <3>1
  <2> QED
    BY <1>7, <1>13, <2>2, <2>3
<1>14. Limit' = Limit
  BY DEF Limit
<1> QED
  BY <1>1, <1>2, <1>3, <1>5, <1>10, <1>11, <1>12, <1>13, <1>14 DEF OutInv, o

\* What the walk is past comes before the path that ends at the innermost loop's callee.
LEMMA ExploredBefore ==
    ASSUME AskedInv, AdjInv, StackInv, stack # <<>>,
           pos[Len(stack)] \in 1..Len(adj[stack[Len(stack)]]),
           NEW c \in Syms, c = adj[stack[Len(stack)]][pos[Len(stack)]],
           NEW p, Explored(p, stack, pos, adj)
    PROVE  Before(p, Append(stack, c)) /\ p # Append(stack, c)
<1> DEFINE n == Len(stack)
           b == Append(stack, c)
           row(k) == adj[stack[k]]
<1>1. /\ stack \in Seq(Syms) /\ n \in Nat /\ \A k \in 1..n : stack[k] \in Syms
      /\ \A k \in 1..n - 1 : pos[k] \in 1..Len(row(k)) /\ row(k)[pos[k]] = stack[k + 1]
  BY DEF StackInv
<1>2. Len(b) = n + 1 /\ b[n + 1] = c /\ \A k \in 1..n : b[k] = stack[k]
  BY <1>1
<1>3. PICK k \in 1..n : LeavesAt(p, k, stack, pos, adj)
  BY DEF Explored
<1>4. k < Len(p) /\ \A m \in 1..k : p[m] = stack[m]
  BY <1>3 DEF LeavesAt
<1>5. PICK i \in 1..Len(row(k)) : i < pos[k] /\ row(k)[i] = p[k + 1]
  BY <1>3 DEF LeavesAt
<1>6. row(k) \in Seq(Syms) /\ \A x, y \in 1..Len(row(k)) : x < y => row(k)[x] < row(k)[y]
  BY <1>1 DEF AdjInv
<1>7. row(n)[pos[n]] = c /\ pos[n] \in 1..Len(row(n))
  OBVIOUS
<1> HIDE DEF n, b, row
<1>8. pos[k] \in 1..Len(row(k)) /\ row(k)[pos[k]] = b[k + 1]
  <2>1. CASE k = n
    BY <1>2, <1>7, <2>1
  <2>2. CASE k \in 1..n - 1
    <3>1. k + 1 \in 1..n
      BY <1>1, <2>2
    <3> QED
      BY <1>1, <1>2, <2>2, <3>1
  <2>3. k = n \/ k \in 1..n - 1
    BY <1>1
  <2> QED
    BY <2>1, <2>2, <2>3
<1>9. p[k + 1] < b[k + 1]
  BY <1>5, <1>6, <1>8
<1>10. row(k)[i] \in Nat /\ row(k)[pos[k]] \in Nat
  <2>1. row(k)[i] \in Syms /\ row(k)[pos[k]] \in Syms
    BY <1>5, <1>6, <1>8
  <2> QED
    BY <2>1, CallPathsAssumption, Zenon
<1>11. p # b
  <2>1. p[k + 1] # b[k + 1]
    BY <1>5, <1>8, <1>9, <1>10
  <2> QED
    BY <2>1
<1>12. k + 1 \in 1..Len(b)
  BY <1>1, <1>2
<1>13. ASSUME NEW m \in 1..(k + 1) - 1 PROVE m <= Len(p) /\ p[m] = b[m]
  <2>1. m \in 1..k /\ m \in 1..n
    BY <1>1
  <2>2. p[m] = b[m]
    BY <1>2, <1>4, <2>1
  <2>3. m <= Len(p)
    BY <1>1, <1>4, <2>1
  <2> QED
    BY <2>2, <2>3
<1>14. Before(p, b)
  BY <1>9, <1>12, <1>13, Zenon DEF Before
<1> QED
  BY <1>11, <1>14 DEF b

\* A return leaves behind all that goes on from the stack.
LEMMA ReturnLeaves ==
    ASSUME AskedInv, AdjInv, StackInv, stack # <<>>, Return, NEW p, GoesOn(p, stack)
    PROVE  Explored(p, stack', pos', adj)
<1> DEFINE n == Len(stack)
<1>1. /\ stack' \in Seq(Syms) /\ Len(stack') = n - 1
      /\ \A k \in 1..n - 1 : stack'[k] = stack[k]
      /\ n > 1 => pos'[n - 1] = pos[n - 1] + 1
  BY ReturnFacts
<1>2. /\ n \in Nat /\ n >= 1 /\ stack \in Seq(Syms) /\ pos \in Seq(Nat)
      /\ \A k \in 1..n - 1 : pos[k] \in 1..Len(adj[stack[k]]) /\ adj[stack[k]][pos[k]] = stack[k + 1]
  BY DEF StackInv
<1>3. Len(p) > n /\ \A m \in 1..n : p[m] = stack[m]
  BY DEF GoesOn
<1> HIDE DEF n
<1>4. CASE n = 1
  <2>1. Len(stack') = 0
    BY <1>1, <1>4
  <2>2. stack' = <<>>
    BY <1>1, <2>1
  <2> QED
    BY <2>2 DEF Explored
<1>5. CASE n > 1
  <2> DEFINE k == n - 1
  <2>1. k \in 1..n - 1 /\ k + 1 \in 1..n /\ k + 1 = n /\ k < Len(p) /\ \A m \in 1..k : m \in 1..n
    BY <1>2, <1>3, <1>5
  <2>2. pos'[k] = pos[k] + 1 /\ pos[k] \in 1..Len(adj[stack[k]])
    BY <1>1, <1>2, <1>5, <2>1
  <2>3. adj[stack[k]][pos[k]] = p[k + 1]
    BY <1>2, <1>3, <2>1, Zenon
  <2> HIDE DEF k
  <2>4. pos[k] < pos'[k]
    BY <2>2
  <2>5. stack'[k] = stack[k] /\ \A m \in 1..k : p[m] = stack'[m]
    <3>1. \A m \in 1..k : m \in 1..n - 1
      BY <2>1, <1>2
    <3> QED
      BY <1>1, <1>3, <2>1, <3>1
  <2>6. LeavesAt(p, k, stack', pos', adj)
    BY <2>1, <2>2, <2>3, <2>4, <2>5 DEF LeavesAt
  <2>7. k \in 1..Len(stack')
    BY <1>1, <2>1
  <2> QED
    BY <2>6, <2>7 DEF Explored
<1> QED
  BY <1>2, <1>4, <1>5

\* Where the walk is, in the words of the innermost call.
LEMMA WalkFacts ==
    ASSUME AskedInv, AdjInv, StackInv, stack # <<>>
    PROVE  /\ Len(stack) \in Nat /\ Len(stack) >= 1 /\ Top = Len(stack)
           /\ Last(pos) = pos[Len(stack)] /\ Last(stack) = stack[Len(stack)]
           /\ pos[Len(stack)] \in Nat /\ stack[Len(stack)] \in Syms
           /\ adj[stack[Len(stack)]] \in Seq(Syms)
           /\ Depth \in Nat /\ req.start # req.end
<1> DEFINE n == Len(stack)
<1>1. /\ stack \in Seq(Syms) /\ pos \in Seq(Nat) /\ Len(pos) = n /\ n \in Nat /\ n >= 1
      /\ \A k \in 1..n : stack[k] # req.end
      /\ stack[1] = req.start
  BY DEF StackInv, IsWalk
<1>2. Depth \in Nat
  BY DepthFacts
<1>3. Last(pos) = pos[n] /\ Last(stack) = stack[n] /\ Top = n
  BY <1>1 DEF Last, Top
<1>4. 1 \in 1..n /\ n \in 1..n
  BY <1>1
<1>5. pos[n] \in Nat /\ stack[n] \in Syms
  BY <1>1, <1>4
<1>6. adj[stack[n]] \in Seq(Syms)
  BY <1>5 DEF AdjInv
<1>7. req.start # req.end
  BY <1>1, <1>4
<1> QED
  BY <1>1, <1>2, <1>3, <1>5, <1>6, <1>7

\* Entering dfs: at the limit or the depth it returns, else its loop begins.
LEMMA EnterKeeps ==
    ASSUME AskedInv, AdjInv, StackInv, OutInv, Enter
    PROVE  StackInv' /\ OutInv'
<1> DEFINE n == Len(stack)
<1>1. stack # <<>> /\ adj' = adj /\ out' = out /\ UNCHANGED asked /\ Last(pos) = 0
  BY DEF Enter, asked
<1>2. /\ n \in Nat /\ n >= 1 /\ Top = n /\ Last(pos) = pos[n]
      /\ Depth \in Nat /\ req.start # req.end
  BY <1>1, WalkFacts
<1>3. CASE Len(out) >= Limit \/ AtDepth
  <2>1. Return
    BY <1>3 DEF Enter
  <2>2. ASSUME NEW p \in PathsFound, Len(out) < Limit PROVE ~ GoesOn(p, stack)
    <3>1. Limit \in Nat
      BY CallPathsAssumption DEF Limit
    <3>2. Len(out) \in Nat
      BY DEF OutInv
    <3>3. AtDepth
      BY <1>3, <2>2, <3>1, <3>2
    <3>4. n - 1 >= Depth
      BY <1>2, <3>3 DEF AtDepth
    <3>5. Len(p) - 1 <= Depth /\ Len(p) \in Nat
      BY <1>2, PathsAreWalks DEF IsWalk
    <3> HIDE DEF n
    <3>6. ~(Len(p) > n)
      BY <1>2, <3>4, <3>5
    <3> QED
      BY <3>6 DEF GoesOn, n
  <2>3. StackInv'
    BY <1>1, <2>1, ReturnStack
  <2>4. \A p \in PathsFound :
           /\ Explored(p, stack, pos, adj) => Explored(p, stack', pos', adj)
           /\ Explored(p, stack', pos', adj) => Explored(p, stack, pos, adj) \/ GoesOn(p, stack)
    BY <1>1, <2>1, ReturnExplores
  <2>5. OutInv'
    BY <1>1, <2>2, <2>4, OutKept
  <2> QED
    BY <2>3, <2>5
<1>4. CASE ~(Len(out) >= Limit \/ AtDepth)
  <2>1. pos' = [pos EXCEPT ![n] = 1] /\ stack' = stack /\ visited' = visited
    BY <1>4 DEF Enter, Top
  <2>2. pos[n] = 0 /\ 0 + 1 = 1
    BY <1>1, <1>2
  <2>3. Advances
    BY <1>1, <2>1, <2>2 DEF Advances
  <2>4. n <= Depth
    <3>1. ~(n - 1 >= Depth)
      BY <1>2, <1>4 DEF AtDepth
    <3> HIDE DEF n
    <3> QED
      BY <1>2, <3>1
  <2>5. StackInv'
    BY <1>1, <2>3, <2>4, AdvanceStack
  <2>6. \A i : pos[n] \notin 1..Len(i)
    BY <2>2
  <2>7. \A p : /\ Explored(p, stack, pos, adj) => Explored(p, stack', pos', adj)
               /\ Explored(p, stack', pos', adj) => Explored(p, stack, pos, adj)
    BY <1>1, <2>3, <2>6, AdvanceExplores
  <2>8. OutInv'
    BY <1>1, <2>7, OutKept
  <2> QED
    BY <2>5, <2>8
<1> QED
  BY <1>3, <1>4

\* The loop goes past a callee that is on the path.
LEMMA SkipKeeps ==
    ASSUME AskedInv, AdjInv, StackInv, OutInv, Skip
    PROVE  StackInv' /\ OutInv'
<1> DEFINE n == Len(stack)
<1>1. /\ stack # <<>> /\ adj' = adj /\ out' = out /\ UNCHANGED asked
      /\ Last(pos) \in 1..Len(adj[Last(stack)])
      /\ adj[Last(stack)][Last(pos)] \in visited
      /\ pos' = [pos EXCEPT ![Top] = @ + 1] /\ stack' = stack /\ visited' = visited
  BY DEF Skip, asked, Looping, Callee
<1>2. /\ n \in Nat /\ n >= 1 /\ Top = n /\ Last(pos) = pos[n] /\ Last(stack) = stack[n]
      /\ pos[n] \in Nat /\ Depth \in Nat /\ req.start # req.end
  BY <1>1, WalkFacts
<1>3. Advances
  BY <1>1, <1>2 DEF Advances
<1>4. pos[n] >= 1 /\ n \in 1..n
  BY <1>1, <1>2
<1>5. n <= Depth
  BY <1>4 DEF StackInv
<1>6. StackInv'
  BY <1>1, <1>3, <1>5, AdvanceStack
<1>7. PICK k \in 1..n : stack[k] = adj[stack[n]][pos[n]]
  BY <1>1, <1>2 DEF StackInv
<1>8. ASSUME NEW p \in PathsFound, GoesOn(p, stack) PROVE p[n + 1] # adj[stack[n]][pos[n]]
  <2>1. Len(p) \in Nat /\ \A i, j \in 1..Len(p) : p[i] = p[j] => i = j
    BY <1>2, PathsAreWalks DEF IsWalk
  <2>2. Len(p) > n /\ p[k] = stack[k]
    BY <1>8 DEF GoesOn
  <2> HIDE DEF n
  <2>3. k \in 1..Len(p) /\ n + 1 \in 1..Len(p) /\ k # n + 1
    BY <1>2, <2>1, <2>2
  <2> QED
    BY <1>7, <2>1, <2>2, <2>3
<1>9. \A p \in PathsFound :
         /\ Explored(p, stack, pos, adj) => Explored(p, stack', pos', adj)
         /\ Explored(p, stack', pos', adj) => Explored(p, stack, pos, adj)
  BY <1>1, <1>3, <1>8, AdvanceExplores, Zenon
<1>10. OutInv'
  BY <1>1, <1>9, OutKept, Zenon
<1> QED
  BY <1>6, <1>10

\* The loop is over: every callee was tried.
LEMMA ExhaustedKeeps ==
    ASSUME AskedInv, AdjInv, StackInv, OutInv, Exhausted
    PROVE  StackInv' /\ OutInv'
<1> DEFINE n == Len(stack)
           row == adj[stack[n]]
<1>1. /\ stack # <<>> /\ adj' = adj /\ out' = out /\ UNCHANGED asked /\ Return
      /\ Last(pos) > Len(adj[Last(stack)])
  BY DEF Exhausted, asked
<1>2. /\ n \in Nat /\ n >= 1 /\ Last(pos) = pos[n] /\ Last(stack) = stack[n]
      /\ pos[n] \in Nat /\ req.start # req.end /\ stack[n] \in Syms /\ row \in Seq(Syms)
  BY <1>1, WalkFacts
<1>3. StackInv'
  BY <1>1, ReturnStack
<1>4. ASSUME NEW p \in PathsFound, GoesOn(p, stack) PROVE Explored(p, stack, pos, adj)
  <2>1. Len(p) \in Nat /\ \A k \in 1..Len(p) - 1 : p[k + 1] \in CalleesOf(p[k])
    BY <1>2, PathsAreWalks DEF IsWalk
  <2>2. Len(p) > n /\ \A m \in 1..n : p[m] = stack[m]
    BY <1>4 DEF GoesOn
  <2>3. n \in 1..Len(p) - 1 /\ n \in 1..n
    <3> HIDE DEF n
    <3> QED
      BY <1>2, <2>1, <2>2
  <2>4. p[n + 1] \in CalleesOf(stack[n])
    BY <2>1, <2>2, <2>3
  <2>5. PICK i \in 1..Len(row) : row[i] = p[n + 1]
    BY <1>2, <2>4 DEF AdjInv
  <2>6. i < pos[n]
    <3>1. pos[n] > Len(row) /\ Len(row) \in Nat
      BY <1>1, <1>2
    <3> HIDE DEF row, n
    <3> QED
      BY <1>2, <3>1
  <2>7. LeavesAt(p, n, stack, pos, adj)
    BY <2>2, <2>5, <2>6 DEF LeavesAt
  <2> QED
    BY <2>3, <2>7 DEF Explored
<1>5. \A p \in PathsFound :
         /\ Explored(p, stack, pos, adj) => Explored(p, stack', pos', adj)
         /\ Explored(p, stack', pos', adj) => Explored(p, stack, pos, adj)
  BY <1>1, <1>4, ReturnExplores
<1>6. OutInv'
  BY <1>1, <1>5, OutKept
<1> QED
  BY <1>3, <1>6

\* A callee that is neither on the path nor the end is entered.
LEMMA DescendKeeps ==
    ASSUME AskedInv, AdjInv, StackInv, OutInv, Descend
    PROVE  StackInv' /\ OutInv'
<1> DEFINE n == Len(stack)
           row == adj[stack[n]]
           c == Callee
<1>1. /\ stack # <<>> /\ adj' = adj /\ out' = out /\ UNCHANGED asked
      /\ Last(pos) \in 1..Len(adj[Last(stack)])
      /\ c = adj[Last(stack)][Last(pos)] /\ c \notin visited /\ c # req.end
      /\ Enters(c)
  BY DEF Descend, asked, Looping, Callee, Enters
<1>2. /\ Last(pos) = pos[n] /\ Last(stack) = stack[n]
      /\ pos[n] \in Nat /\ row \in Seq(Syms)
  BY <1>1, WalkFacts
<1>3. pos[n] \in 1..Len(row) /\ c = row[pos[n]] /\ c \in Syms
  BY <1>1, <1>2
<1> HIDE DEF c
<1>4. StackInv'
  BY <1>1, <1>3, DescendStack
<1>5. \A p : Explored(p, stack', pos', adj) <=> Explored(p, stack, pos, adj)
  BY <1>1, <1>3, DescendExplores
<1>6. OutInv'
  BY <1>1, <1>5, OutKept
<1> QED
  BY <1>4, <1>6

\* The path that ends at the end of the request is noted.
LEMMA FoundKeeps ==
    ASSUME AskedInv, AdjInv, StackInv, OutInv, Found
    PROVE  StackInv' /\ OutInv'
<1> DEFINE n == Len(stack)
           row == adj[stack[n]]
           c == Callee
           np == Append(stack, c)
<1>1. /\ stack # <<>> /\ adj' = adj /\ UNCHANGED asked
      /\ Last(pos) \in 1..Len(adj[Last(stack)])
      /\ c = adj[Last(stack)][Last(pos)] /\ c \notin visited /\ c = req.end
      /\ out' = Append(out, np)
      /\ IF Len(out') >= Limit
         THEN Return
         ELSE pos' = [pos EXCEPT ![Top] = @ + 1] /\ stack' = stack /\ visited' = visited
  BY DEF Found, asked, Looping, Callee
<1>2. /\ n \in Nat /\ n >= 1 /\ Top = n
      /\ Last(pos) = pos[n] /\ Last(stack) = stack[n] /\ stack[n] \in Syms
      /\ pos[n] \in Nat /\ row \in Seq(Syms) /\ Depth \in Nat /\ req.start # req.end
  BY <1>1, WalkFacts
<1>3. pos[n] \in 1..Len(row) /\ c = row[pos[n]] /\ c \in Syms
  <2>1. pos[n] \in 1..Len(row) /\ c = row[pos[n]]
    BY <1>1, <1>2, Zenon
  <2> HIDE DEF n, row, c
  <2> QED
    BY <1>2, <2>1
<1>4. n <= Depth
  <2>1. pos[n] >= 1 /\ n \in 1..n
    BY <1>2, <1>3
  <2> QED
    BY <2>1 DEF StackInv
<1>5. /\ stack \in Seq(Syms) /\ stack[1] = req.start
      /\ \A j, k \in 1..n : stack[j] = stack[k] => j = k
      /\ \A k \in 1..n - 1 : stack[k + 1] \in CalleesOf(stack[k])
  BY <1>1 DEF StackInv, IsWalk
<1>6. \A k \in 1..n : stack[k] # c
  BY <1>1 DEF StackInv
<1>7. c \in CalleesOf(stack[n])
  BY <1>2, <1>3 DEF AdjInv
<1>8. /\ np \in Seq(Syms) /\ Len(np) = n + 1 /\ np[n + 1] = c
      /\ \A k \in 1..n : np[k] = stack[k]
  BY <1>3, <1>5
<1> HIDE DEF n, row, c, np
<1>9. /\ n + 1 \in 1..n + 1 /\ 1 \in 1..n /\ n \in 1..n
      /\ \A k \in 1..n + 1 : k \in 1..n \/ k = n + 1
      /\ \A k \in 1..(n + 1) - 1 : k \in 1..n /\ (k \in 1..n - 1 \/ k = n)
      /\ \A k \in 1..n - 1 : k + 1 \in 1..n
      /\ n + 1 >= 1 /\ n + 1 >= 2 /\ (n + 1) - 1 = n
  BY <1>2
<1>10. np \in PathsFound
  <2>1. ASSUME NEW j \in 1..n + 1, NEW k \in 1..n + 1, np[j] = np[k] PROVE j = k
    <3>1. CASE j \in 1..n /\ k \in 1..n
      BY <1>5, <1>8, <2>1, <3>1
    <3>2. CASE j = n + 1 \/ k = n + 1
      BY <1>6, <1>8, <1>9, <2>1, <3>2
    <3> QED
      BY <1>9, <3>1, <3>2
  <2>2. ASSUME NEW k \in 1..(n + 1) - 1 PROVE np[k + 1] \in CalleesOf(np[k])
    <3>1. CASE k = n
      BY <1>7, <1>8, <1>9, <3>1
    <3>2. CASE k \in 1..n - 1
      <4>1. k \in 1..n /\ k + 1 \in 1..n
        BY <1>9, <3>2
      <4>2. np[k] = stack[k] /\ np[k + 1] = stack[k + 1]
        BY <1>8, <4>1
      <4> QED
        BY <1>5, <3>2, <4>2
    <3> QED
      BY <1>9, <3>1, <3>2
  <2>3. IsWalk(np)
    BY <1>5, <1>8, <1>9, <2>1, <2>2 DEF IsWalk
  <2>4. np[Len(np)] = req.end /\ Len(np) >= 2 /\ Len(np) - 1 <= Depth
    BY <1>1, <1>4, <1>8, <1>9
  <2> QED
    BY <1>2, <2>3, <2>4, PathsAreWalks
<1>11. \A p : Explored(p, stack, pos, adj) => Before(p, np) /\ p # np
  BY <1>1, <1>3, ExploredBefore DEF n, row, np
<1>12. \A j \in 1..Len(out) : Before(out[j], np) /\ out[j] # np
  BY <1>11 DEF OutInv
<1>13. GoesOn(np, stack)
  <2>1. Len(np) > n
    BY <1>2, <1>8
  <2> QED
    BY <1>8, <2>1 DEF GoesOn, n
<1>14. CASE Len(out') >= Limit
  <2>1. Return
    BY <1>1, <1>14
  <2>2. StackInv'
    BY <1>1, <2>1, ReturnStack
  <2>3. Explored(np, stack', pos', adj)
    BY <1>1, <1>13, <2>1, ReturnLeaves
  <2>4. \A p \in PathsFound : Explored(p, stack, pos, adj) => Explored(p, stack', pos', adj)
    BY <1>1, <2>1, ReturnExplores
  <2>5. ~(Len(out') < Limit)
    <3>1. Limit \in Nat
      BY CallPathsAssumption DEF Limit
    <3>2. out' \in Seq(PathsFound)
      BY <1>1, <1>10 DEF OutInv
    <3>3. Len(out') \in Nat
      BY <3>2
    <3> QED
      BY <1>14, <3>1, <3>3
  <2>6. OutInv'
    BY <1>1, <1>10, <1>12, <2>3, <2>4, <2>5, OutNoted
  <2> QED
    BY <2>2, <2>6
<1>15. CASE ~(Len(out') >= Limit)
  <2>1. pos' = [pos EXCEPT ![n] = pos[n] + 1] /\ stack' = stack /\ visited' = visited
    BY <1>1, <1>2, <1>15
  <2>2. Advances
    BY <1>1, <2>1 DEF Advances, n
  <2>3. StackInv'
    BY <1>1, <1>4, <2>2, AdvanceStack DEF n
  <2>4. /\ \A p : Explored(p, stack, pos, adj) => Explored(p, stack', pos', adj)
        /\ \A p : Explored(p, stack', pos', adj) =>
              \/ Explored(p, stack, pos, adj)
              \/ (GoesOn(p, stack) /\ p[n + 1] = row[pos[n]])
    BY <1>1, <2>2, AdvanceExplores DEF n, row
  <2>5. Explored(np, stack', pos', adj)
    <3>1. pos'[n] = pos[n] + 1
      BY <1>1, <2>2, AdvanceFacts DEF n
    <3>2. pos[n] < pos'[n]
      BY <1>2, <3>1
    <3>3. LeavesAt(np, n, stack', pos', adj)
      <4>1. n < Len(np) /\ \A m \in 1..n : np[m] = stack[m]
        BY <1>2, <1>8
      <4>2. np[n + 1] = row[pos[n]]
        BY <1>3, <1>8
      <4> QED
        BY <1>3, <2>1, <3>2, <4>1, <4>2 DEF LeavesAt, row
    <3>4. n \in 1..Len(stack')
      BY <1>9, <2>1, Zenon DEF n
    <3> QED
      BY <3>3, <3>4 DEF Explored
  <2>6. ASSUME NEW p \in PathsFound, GoesOn(p, stack), p[n + 1] = row[pos[n]] PROVE p = np
    <3>1. /\ p \in Seq(Syms) /\ Len(p) \in Nat /\ p[Len(p)] = c
          /\ \A j, k \in 1..Len(p) : p[j] = p[k] => j = k
      BY <1>1, <1>2, PathsAreWalks DEF IsWalk
    <3>2. Len(p) > n /\ \A m \in 1..n : p[m] = stack[m]
      BY <2>6 DEF GoesOn, n
    <3>3. n + 1 \in 1..Len(p) /\ Len(p) \in 1..Len(p)
      BY <1>2, <3>1, <3>2
    <3>4. Len(p) = n + 1
      BY <1>3, <2>6, <3>1, <3>3
    <3>5. \A k \in 1..n + 1 : p[k] = np[k]
      BY <1>3, <1>8, <1>9, <2>6, <3>2, Zenon
    <3> QED
      BY <1>8, <3>1, <3>4, <3>5
  <2>7. OutInv'
    BY <1>1, <1>10, <1>12, <2>4, <2>5, <2>6, OutNoted
  <2> QED
    BY <2>3, <2>7
<1> QED
  BY <1>14, <1>15

\* What was noted in a walk are sequences.
LEMMA NotedLengths ==
    ASSUME AskedInv, OutInv, req.start # req.end
    PROVE  /\ Len(out) \in Nat /\ Limit \in Nat /\ Limit >= 1
           /\ \A j \in 1..Len(out) : Len(out[j]) \in Nat
<1>1. out \in Seq(PathsFound) /\ \A j \in 1..Len(out) : out[j] \in PathsFound
  BY DEF OutInv
<1>2. \A p \in PathsFound : Len(p) \in Nat
  BY PathsAreWalks DEF IsWalk
<1>3. Limit \in Nat /\ Limit >= 1
  BY CallPathsAssumption DEF Limit
<1> QED
  BY <1>1, <1>2, <1>3

\* A return takes a symbol off the stack.
LEMMA ReturnUnwinds ==
    ASSUME AskedInv, AdjInv, StackInv, OutInv, Unwinds, stack # <<>>, Return, out' = out
    PROVE  Unwinds'
<1> DEFINE n == Len(stack)
           m == Len(out)
           L == Len(out[m])
<1>1. n \in Nat /\ n >= 1 /\ req.start # req.end
  BY WalkFacts
<1>2. Len(stack') = n - 1
  BY ReturnFacts
<1>3. m \in Nat /\ Limit \in Nat /\ Limit >= 1 /\ (m >= 1 => L \in Nat)
  <2>1. m \in Nat /\ Limit \in Nat /\ Limit >= 1 /\ \A j \in 1..m : Len(out[j]) \in Nat
    BY <1>1, NotedLengths
  <2> HIDE DEF m
  <2> QED
    BY <2>1
<1>4. Limit' = Limit
  BY DEF Limit
<1>5. m >= Limit => n + 2 <= L \/ n + 1 <= L
  BY DEF Unwinds
<1> HIDE DEF n, m, L
<1>6. m >= Limit => (n - 1) + 2 <= L
  BY <1>1, <1>3, <1>5
<1> QED
  BY <1>2, <1>4, <1>6 DEF Unwinds, m, L

\* What is noted stays, so its lengths do.
LEMMA ShrinksKept ==
    ASSUME Shrinks, out' = out
    PROVE  Shrinks'
<1>1. Limit' = Limit
  BY DEF Limit
<1> QED
  BY <1>1 DEF Shrinks

LEMMA EnterUnwinds ==
    ASSUME AskedInv, AdjInv, StackInv, OutInv, Unwinds, Shrinks, Enter
    PROVE  Unwinds' /\ Shrinks'
<1>1. stack # <<>> /\ out' = out
  BY DEF Enter
<1>2. CASE Len(out) >= Limit \/ AtDepth
  BY <1>1, <1>2, ReturnUnwinds, ShrinksKept DEF Enter
<1>3. CASE ~(Len(out) >= Limit \/ AtDepth)
  <2>1. Limit' = Limit
    BY DEF Limit
  <2> QED
    BY <1>1, <1>3, <2>1, ShrinksKept DEF Unwinds
<1> QED
  BY <1>2, <1>3

LEMMA SkipUnwinds ==
    ASSUME AskedInv, AdjInv, StackInv, OutInv, Unwinds, Shrinks, Skip
    PROVE  Unwinds' /\ Shrinks'
<1>1. /\ stack # <<>> /\ out' = out /\ stack' = stack
      /\ Last(pos) \in 1..Len(adj[Last(stack)])
  BY DEF Skip, Looping
<1>2. Last(pos) = pos[Len(stack)] /\ pos[Len(stack)] \in Nat
  BY <1>1, WalkFacts
<1>3. pos[Len(stack)] # 0
  BY <1>1, <1>2
<1>4. Limit' = Limit
  BY DEF Limit
<1> QED
  BY <1>1, <1>3, <1>4, ShrinksKept DEF Unwinds

LEMMA ExhaustedUnwinds ==
    ASSUME AskedInv, AdjInv, StackInv, OutInv, Unwinds, Shrinks, Exhausted
    PROVE  Unwinds' /\ Shrinks'
<1>1. stack # <<>> /\ out' = out /\ Return
  BY DEF Exhausted
<1> QED
  BY <1>1, ReturnUnwinds, ShrinksKept

LEMMA DescendUnwinds ==
    ASSUME AskedInv, AdjInv, StackInv, OutInv, Unwinds, Shrinks, Descend
    PROVE  Unwinds' /\ Shrinks'
<1> DEFINE n == Len(stack)
           m == Len(out)
           L == Len(out[m])
           c == Callee
<1>1. /\ stack # <<>> /\ out' = out /\ stack' = Append(stack, c) /\ pos' = Append(pos, 0)
      /\ Last(pos) \in 1..Len(adj[Last(stack)])
  BY DEF Descend, Looping
<1>2. /\ n \in Nat /\ n >= 1 /\ Last(pos) = pos[n] /\ pos[n] \in Nat /\ req.start # req.end
  BY <1>1, WalkFacts
<1>3. pos[n] # 0
  BY <1>1, <1>2
<1>4. stack \in Seq(Syms) /\ pos \in Seq(Nat) /\ Len(pos) = n
  BY DEF StackInv
<1> HIDE DEF c
<1>5. Len(stack') = n + 1 /\ pos'[n + 1] = 0
  BY <1>1, <1>4
<1>6. m \in Nat /\ Limit \in Nat /\ Limit >= 1 /\ (m >= 1 => L \in Nat)
  <2>1. m \in Nat /\ Limit \in Nat /\ Limit >= 1 /\ \A j \in 1..m : Len(out[j]) \in Nat
    BY <1>2, NotedLengths
  <2> HIDE DEF m
  <2> QED
    BY <2>1
<1>7. m >= Limit => n + 2 <= L
  BY <1>1, <1>3 DEF Unwinds
<1>8. Limit' = Limit
  BY DEF Limit
<1> HIDE DEF n, m, L
<1>9. m >= Limit => (n + 1) + 1 <= L
  BY <1>2, <1>6, <1>7
<1> QED
  BY <1>1, <1>5, <1>8, <1>9, ShrinksKept DEF Unwinds, m, L

LEMMA FoundUnwinds ==
    ASSUME AskedInv, AdjInv, StackInv, OutInv, Unwinds, Shrinks, Found
    PROVE  Unwinds' /\ Shrinks'
<1> DEFINE n == Len(stack)
           m == Len(out)
           L == Len(out[m])
           c == Callee
           np == Append(stack, c)
<1>1. /\ stack # <<>> /\ out' = Append(out, np)
      /\ Last(pos) \in 1..Len(adj[Last(stack)])
      /\ Len(out') >= Limit => Return
  BY DEF Found, Looping
<1>2. /\ n \in Nat /\ n >= 1 /\ Last(pos) = pos[n] /\ pos[n] \in Nat /\ req.start # req.end
  BY <1>1, WalkFacts
<1>3. pos[n] # 0
  BY <1>1, <1>2
<1>4. stack \in Seq(Syms) /\ out \in Seq(PathsFound) /\ Len(np) = n + 1
  BY DEF StackInv, OutInv
<1>5. m \in Nat /\ Limit \in Nat /\ Limit >= 1 /\ \A j \in 1..m : Len(out[j]) \in Nat
  BY <1>2, NotedLengths
<1>6. Limit' = Limit
  BY DEF Limit
<1> HIDE DEF c, np
<1>7. /\ Len(out') = m + 1 /\ out'[m + 1] = np
      /\ \A j \in 1..m : out'[j] = out[j]
  BY <1>1, <1>4
<1>8. m >= Limit => n + 2 <= L
  BY <1>1, <1>3 DEF Unwinds
<1>9. m >= 1 => L \in Nat
  <2> HIDE DEF m
  <2> QED
    BY <1>5
<1>10. \A j \in 2..m : j > Limit => Len(out[j]) < Len(out[j - 1])
  BY DEF Shrinks
<1> HIDE DEF n, m, L
<1>11. Shrinks'
  <2> SUFFICES ASSUME NEW j \in 2..m + 1, j > Limit PROVE Len(out'[j]) < Len(out'[j - 1])
    BY <1>6, <1>7 DEF Shrinks
  <2>1. CASE j \in 2..m
    <3>1. j \in 1..m /\ j - 1 \in 1..m
      BY <1>5, <2>1
    <3> QED
      BY <1>7, <1>10, <2>1, <3>1
  <2>2. CASE j = m + 1
    <3>1. m >= Limit /\ m \in 1..m /\ j - 1 = m /\ m >= 1
      BY <1>5, <2>2
    <3>2. n + 1 < L
      BY <1>2, <1>8, <1>9, <3>1
    <3> QED
      BY <1>4, <1>7, <2>2, <3>1, <3>2 DEF L
  <2> QED
    BY <1>5, <2>1, <2>2
<1>12. Unwinds'
  <2>1. CASE m + 1 >= Limit
    <3>1. Len(stack') = n - 1
      BY <1>1, <1>7, <2>1, ReturnFacts DEF n
    <3>2. (n - 1) + 2 <= n + 1
      BY <1>2
    <3> QED
      BY <1>4, <1>7, <3>1, <3>2 DEF Unwinds
  <2>2. CASE ~(m + 1 >= Limit)
    BY <1>6, <1>7, <2>2 DEF Unwinds
  <2> QED
    BY <2>1, <2>2
<1> QED
  BY <1>11, <1>12

\* The graph is loaded and the walk begins, or the start is the end.
LEMMA LoadKeeps ==
    ASSUME AskedInv, stack = <<>>, visited = {}, pos = <<>>, out = <<>>, Load
    PROVE  AdjInv' /\ StackInv' /\ OutInv' /\ Unwinds' /\ Shrinks'
<1>1. /\ UNCHANGED asked /\ adj' = [s \in Syms |-> Callees(s)]
      /\ IF req.start = req.end
         THEN /\ out' = <<<<req.start>>>> /\ stack' = stack
              /\ visited' = visited /\ pos' = pos
         ELSE /\ stack' = <<req.start>> /\ visited' = {req.start} /\ pos' = <<0>>
              /\ out' = out
  BY DEF Load, asked
<1>2. req' = req /\ edges' = edges /\ target' = target
  BY <1>1 DEF asked
<1>3. \A s : CalleesOf(s)' = CalleesOf(s)
  BY <1>2 DEF CalleesOf, ByID
<1>4. AdjInv'
  <2>1. ASSUME NEW s \in Syms
        PROVE  /\ adj'[s] \in Seq(Syms)
               /\ \A c : c \in CalleesOf(s)' <=> \E i \in 1..Len(adj'[s]) : adj'[s][i] = c
               /\ \A i, j \in 1..Len(adj'[s]) : i < j => adj'[s][i] < adj'[s][j]
    <3>1. adj'[s] = Callees(s)
      BY <1>1
    <3> QED
      BY <1>3, <3>1, RowsSorted
  <2> QED
    BY <2>1 DEF AdjInv
<1>5. Depth' = Depth /\ Limit' = Limit /\ PathsFound' = PathsFound
  BY <1>1, PathsKept DEF Limit
<1>6. Limit \in Nat /\ 2 <= Limit
  BY CallPathsAssumption DEF Limit
<1>7. req.start \in Syms
  BY DepthFacts
<1>8. CASE req.start = req.end
  <2>1. stack' = <<>> /\ visited' = {} /\ pos' = <<>> /\ out' = <<<<req.start>>>>
    BY <1>1, <1>8
  <2>2. StackInv'
    BY <2>1 DEF StackInv
  <2>3. PathsFound = {<<req.start>>}
    BY <1>8 DEF PathsFound
  <2>4. out' \in Seq(PathsFound) /\ Len(out') = 1 /\ out'[1] = <<req.start>>
    BY <2>1, <2>3
  <2>5. \A p : Explored(p, stack, pos, adj)'
    BY <2>1 DEF Explored
  <2>6. \A j \in 1..1 : j = 1
    OBVIOUS
  <2>7. 2..1 = {} /\ 1 \in 1..1
    OBVIOUS
  <2>8. \A p \in PathsFound : \E j \in 1..1 : out'[j] = p
    BY <2>3, <2>4, <2>7
  <2>9. OutInv'
    BY <1>5, <2>4, <2>5, <2>6, <2>7, <2>8 DEF OutInv
  <2>10. Unwinds' /\ Shrinks'
    BY <2>1, <2>4, <2>7 DEF Unwinds, Shrinks
  <2> QED
    BY <1>4, <2>2, <2>9, <2>10
<1>9. CASE req.start # req.end
  <2>1. stack' = <<req.start>> /\ visited' = {req.start} /\ pos' = <<0>> /\ out' = <<>>
    BY <1>1, <1>9
  <2>2. /\ stack' \in Seq(Syms) /\ Len(stack') = 1 /\ stack'[1] = req.start /\ stack' # <<>>
        /\ pos' \in Seq(Nat) /\ Len(pos') = 1 /\ pos'[1] = 0
    BY <1>7, <2>1
  <2>3. (\A j \in 1..1 : j = 1) /\ 1 \in 1..1 /\ 1..1 - 1 = {} /\ ~(0 >= 1)
    OBVIOUS
  <2>4. IsWalk(stack)'
    <3>1. \A k \in 1..1 - 1 : stack'[k + 1] \in CalleesOf(stack[k])'
      BY <2>3
    <3>2. \A j, k \in 1..1 : stack'[j] = stack'[k] => j = k
      BY <2>3
    <3>3. Len(stack') >= 1
      BY <2>2
    <3> QED
      BY <1>2, <2>2, <3>1, <3>2, <3>3 DEF IsWalk
  <2>5. StackInv'
    <3>1. \A s : s \in visited' <=> \E k \in 1..1 : stack'[k] = s
      BY <2>1, <2>2, <2>3
    <3>2. \A k \in 1..1 : stack'[k] # req.end /\ (pos'[k] >= 1 => k <= Depth)
      BY <1>9, <2>2, <2>3
    <3> QED
      BY <1>2, <1>5, <2>2, <2>3, <2>4, <3>1, <3>2 DEF StackInv
  <2>6. ASSUME NEW p PROVE ~ Explored(p, stack, pos, adj)'
    <3>1. \A i \in 1..Len(adj'[stack'[1]]) : ~(i < 0)
      OBVIOUS
    <3>2. ~ LeavesAt(p, 1, stack', pos', adj')
      BY <2>2, <3>1 DEF LeavesAt
    <3> QED
      BY <2>2, <2>3, <3>2 DEF Explored
  <2>7. out' \in Seq(PathsFound) /\ Len(out') = 0 /\ 1..0 = {} /\ 2..0 = {}
    BY <2>1
  <2>8. OutInv'
    BY <1>5, <2>6, <2>7 DEF OutInv
  <2>9. ~(0 >= Limit)
    BY <1>6
  <2>10. Unwinds' /\ Shrinks'
    BY <1>5, <2>7, <2>9 DEF Unwinds, Shrinks
  <2> QED
    BY <1>4, <2>5, <2>8, <2>10
<1> QED
  BY <1>8, <1>9

\* A request has finitely many paths.
LEMMA PathsFinite ==
    ASSUME AskedInv
    PROVE  IsFiniteSet(PathsFound) /\ Cardinality(PathsFound) \in Nat
<1>1. CASE req.start = req.end
  <2>1. PathsFound = {<<req.start>>}
    BY <1>1 DEF PathsFound
  <2> DEFINE x == <<req.start>>
  <2> HIDE DEF x
  <2>2. IsFiniteSet({x}) /\ Cardinality({x}) = 1
    BY FS_Singleton
  <2>3. IsFiniteSet(PathsFound)
    BY <2>1, <2>2 DEF x
  <2> QED
    BY <2>3, FS_CardinalityType
<1>2. CASE req.start # req.end
  <2> DEFINE N == Cardinality(Syms)
             T == SUBSET ((1..N) \X Syms)
             g == [p \in PathsFound |-> {<<k, p[k]>> : k \in 1..Len(p)}]
  <2>1. IsFiniteSet(Syms) /\ N \in Nat
    BY CallPathsAssumption, FS_CardinalityType
  <2>2. IsFiniteSet(1..N)
    BY <2>1, RankInterval
  <2>3. IsFiniteSet((1..N) \X Syms)
    BY <2>1, <2>2, FS_Product
  <2>4. IsFiniteSet(T)
    BY <2>3, FS_SUBSET
  <2>5. ASSUME NEW p \in PathsFound
        PROVE  p \in Seq(Syms) /\ Len(p) \in Nat /\ Len(p) <= N /\ \A k \in 1..Len(p) : p[k] \in Syms
    <3>1. p \in Seq(Syms) /\ \A j, k \in 1..Len(p) : p[j] = p[k] => j = k
      BY <1>2, PathsAreWalks DEF IsWalk
    <3>2. Len(p) <= N
      BY <2>1, <3>1, InjectiveLength
    <3> QED
      BY <3>1, <3>2
  <2> HIDE DEF N
  <2>6. ASSUME NEW p \in PathsFound PROVE g[p] \in T
    <3>1. \A k \in 1..Len(p) : k \in 1..N
      BY <2>1, <2>5
    <3>2. \A k \in 1..Len(p) : <<k, p[k]>> \in (1..N) \X Syms
      BY <2>5, <3>1
    <3> QED
      BY <3>2
  <2>7. ASSUME NEW a \in PathsFound, NEW b \in PathsFound, g[a] = g[b] PROVE a = b
    <3> DEFINE A == {<<k, a[k]>> : k \in 1..Len(a)}
               B == {<<k, b[k]>> : k \in 1..Len(b)}
    <3>1. A = B
      BY <2>7
    <3>2. \A k \in 1..Len(a) : k \in 1..Len(b) /\ a[k] = b[k]
      <4>1. \A k \in 1..Len(a) : <<k, a[k]>> \in B
        BY <3>1, Zenon
      <4> QED
        BY <4>1
    <3>3. \A k \in 1..Len(b) : k \in 1..Len(a)
      <4>1. \A k \in 1..Len(b) : <<k, b[k]>> \in A
        BY <3>1, Zenon
      <4> QED
        BY <4>1
    <3>4. Len(a) \in Nat /\ Len(b) \in Nat /\ a \in Seq(Syms) /\ b \in Seq(Syms)
      BY <2>5
    <3>5. Len(a) = Len(b)
      <4>1. Len(a) <= Len(b)
        <5>1. CASE Len(a) = 0
          BY <3>4, <5>1
        <5>2. CASE Len(a) \in 1..Len(a)
          BY <3>2, <3>4, <5>2
        <5> QED
          BY <3>4, <5>1, <5>2
      <4>2. Len(b) <= Len(a)
        <5>1. CASE Len(b) = 0
          BY <3>4, <5>1
        <5>2. CASE Len(b) \in 1..Len(b)
          BY <3>3, <3>4, <5>2
        <5> QED
          BY <3>4, <5>1, <5>2
      <4> QED
        BY <3>4, <4>1, <4>2
    <3> QED
      BY <3>2, <3>4, <3>5
  <2>8. g \in [PathsFound -> T]
    BY <2>6
  <2> HIDE DEF g, T
  <2>9. IsInjective(g)
    BY <2>7, <2>8 DEF IsInjective
  <2>10. g \in Injection(PathsFound, T)
    BY <2>8, <2>9 DEF Injection
  <2>11. IsFiniteSet(PathsFound)
    BY <2>4, <2>10, FS_Injection
  <2> QED
    BY <2>11, FS_CardinalityType
<1> QED
  BY <1>1, <1>2

\* The first members of a list.
LEMMA CutFacts ==
    ASSUME NEW A, NEW t \in Seq(A), NEW n \in Nat, n <= Len(t)
    PROVE  /\ Len(SubSeq(t, 1, n)) = n
           /\ DOMAIN SubSeq(t, 1, n) = 1..n /\ \A k \in 1..n : SubSeq(t, 1, n)[k] \in A
<1>1. Len(t) \in Nat
  OBVIOUS
<1>2. /\ SubSeq(t, 1, n) \in Seq(A) /\ Len(SubSeq(t, 1, n)) = n
      /\ \A k \in 1..n : SubSeq(t, 1, n)[k] = t[k]
  BY <1>1
<1>3. \A k \in 1..n : k \in 1..Len(t)
  BY <1>1
<1>4. \A k \in 1..n : t[k] \in A
  BY <1>3
<1> QED
  BY <1>2, <1>4

\* The answer is exact when the walk is over.
LEMMA AnswerKeeps ==
    ASSUME AskedInv, OutInv, Answer
    PROVE  FoundExact'
<1> DEFINE n == Len(out)
           P == PathsFound
           cut == SubSeq(out, 1, ResultLimit)
<1>1. /\ stack = <<>> /\ UNCHANGED asked /\ out' = out
      /\ answer' = [paths |-> IF Truncated THEN cut ELSE out, truncated |-> Truncated]
  BY DEF Answer, asked
<1>2. /\ out \in Seq(P) /\ n \in Nat
      /\ \A j, k \in 1..n : out[j] = out[k] => j = k
      /\ \A j \in 2..n : Before(out[j - 1], out[j])
      /\ n < Limit => \A p \in P : Explored(p, stack, pos, adj) => \E j \in 1..n : out[j] = p
  BY DEF OutInv
<1>3. \A p : Explored(p, stack, pos, adj)
  BY <1>1 DEF Explored
<1>4. ResultLimit \in Nat /\ Limit = ResultLimit + 1
  BY CallPathsAssumption DEF Limit
<1>5. IsFiniteSet(P) /\ Cardinality(P) \in Nat
  BY PathsFinite
<1>6. n <= Cardinality(P)
  BY <1>2, <1>5, InjectiveLength
<1>7. PathsFound' = P
  BY <1>1, PathsKept
<1>8. \A j \in 2..Len(out') : Before(out[j - 1], out[j])'
  BY <1>1, <1>2, Zenon DEF Before
<1>9. Truncated <=> n > ResultLimit
  BY DEF Truncated
<1> HIDE DEF n, P
<1>10. CASE n > ResultLimit
  <2>1. answer'.truncated = TRUE /\ answer'.paths = cut
    BY <1>1, <1>9, <1>10, Zenon
  <2>2. Cardinality(P) > ResultLimit
    BY <1>2, <1>4, <1>5, <1>6, <1>10
  <2>3. ResultLimit <= n
    BY <1>2, <1>4, <1>10
  <2>4. Len(cut) = ResultLimit /\ DOMAIN cut = 1..ResultLimit /\ \A k \in 1..ResultLimit : cut[k] \in P
    BY <1>2, <1>4, <2>3, CutFacts DEF n
  <2> HIDE DEF cut
  <2>5. Range(cut) \subseteq P
    BY <2>4 DEF Range
  <2> QED
    BY <1>7, <1>8, <2>1, <2>2, <2>4, <2>5 DEF FoundExact
<1>11. CASE ~(n > ResultLimit)
  <2>1. answer'.truncated = FALSE /\ answer'.paths = out
    BY <1>1, <1>9, <1>11
  <2>2. n < Limit /\ n <= ResultLimit
    BY <1>2, <1>4, <1>11
  <2>3. \A p \in P : \E j \in 1..n : out[j] = p
    BY <1>2, <1>3, <2>2
  <2>4. out \in [1..n -> P]
    BY <1>2 DEF n
  <2>5. Range(out) = P
    BY <2>3, <2>4 DEF Range
  <2>6. out \in Surjection(1..n, P)
    BY <2>3, <2>4 DEF Surjection
  <2>7. Cardinality(P) <= n
    BY <1>2, <2>6, FS_Surjection, RankInterval
  <2>8. ~(Cardinality(P) > ResultLimit)
    BY <1>2, <1>4, <1>5, <2>2, <2>7
  <2> QED
    BY <1>7, <1>8, <2>1, <2>5, <2>8 DEF FoundExact
<1> QED
  BY <1>10, <1>11

\* Nothing is said of an answer that is not given.
LEMMA StillWalking ==
    ASSUME AskedInv, AdjInv, UNCHANGED asked, adj' = adj, pc' = "walk", StackInv', OutInv',
           Unwinds', Shrinks'
    PROVE  PathsInv'
<1>1. AskedInv'
  BY PathsKept
<1>2. req' = req /\ edges' = edges /\ target' = target
  BY DEF asked
<1>3. AdjInv'
  BY <1>2 DEF AdjInv, CalleesOf, ByID
<1>4. pc' # "load" /\ pc' # "done"
  OBVIOUS
<1>5. FoundExact'
  BY <1>4 DEF FoundExact
<1> QED
  BY <1>1, <1>3, <1>4, <1>5 DEF PathsInv

\* A step that leaves the tool alone keeps the invariant.
LEMMA PathsStill ==
    ASSUME PathsInv, UNCHANGED vars
    PROVE  PathsInv'
<1>1. /\ edges' = edges /\ target' = target /\ req' = req /\ pc' = pc /\ adj' = adj /\ stack' = stack
      /\ visited' = visited /\ pos' = pos /\ out' = out /\ answer' = answer
  BY DEF vars
<1>2. UNCHANGED asked
  BY <1>1 DEF asked
<1>3. AskedInv' = AskedInv /\ PathsFound' = PathsFound
  BY <1>2, PathsKept
<1>4. AdjInv' = AdjInv
  BY <1>1 DEF AdjInv, CalleesOf, ByID
<1>5. StackInv' = StackInv
  BY <1>1 DEF StackInv, IsWalk, CalleesOf, ByID, Depth
<1>6. OutInv' = OutInv
  BY <1>1, <1>3 DEF OutInv, Explored, LeavesAt, Before, Limit
<1>7. FoundExact' = FoundExact
  BY <1>1, <1>3 DEF FoundExact, Before
<1>8. Unwinds' = Unwinds /\ Shrinks' = Shrinks
  BY <1>1 DEF Unwinds, Shrinks, Limit
<1> QED
  BY <1>1, <1>3, <1>4, <1>5, <1>6, <1>7, <1>8 DEF PathsInv

\* Every step of the tool keeps its invariant.
LEMMA PathsSteps ==
    ASSUME PathsInv, Next
    PROVE  PathsInv'
<1>1. AskedInv
  BY DEF PathsInv
<1>2. CASE Load
  <2>1. pc = "load" /\ pc' = "walk" /\ UNCHANGED asked
    BY <1>2 DEF Load, asked
  <2>2. stack = <<>> /\ visited = {} /\ pos = <<>> /\ out = <<>>
    BY <2>1 DEF PathsInv
  <2>3. AdjInv' /\ StackInv' /\ OutInv' /\ Unwinds' /\ Shrinks'
    BY <1>1, <1>2, <2>2, LoadKeeps
  <2>4. AskedInv'
    BY <1>1, <2>1, PathsKept
  <2>5. pc' # "load" /\ pc' # "done"
    BY <2>1
  <2>6. FoundExact'
    BY <2>5 DEF FoundExact
  <2> QED
    BY <2>3, <2>4, <2>5, <2>6 DEF PathsInv
<1>3. ASSUME pc = "walk" PROVE AdjInv /\ StackInv /\ OutInv /\ Unwinds /\ Shrinks
  BY <1>3 DEF PathsInv
<1>4. CASE Enter
  <2>1. pc = "walk" /\ pc' = "walk" /\ UNCHANGED asked /\ adj' = adj
    BY <1>4 DEF Enter, asked
  <2> QED
    BY <1>1, <1>3, <1>4, <2>1, EnterKeeps, EnterUnwinds, StillWalking
<1>5. CASE Skip
  <2>1. pc = "walk" /\ pc' = "walk" /\ UNCHANGED asked /\ adj' = adj
    BY <1>5 DEF Skip, Looping, asked
  <2> QED
    BY <1>1, <1>3, <1>5, <2>1, SkipKeeps, SkipUnwinds, StillWalking
<1>6. CASE Found
  <2>1. pc = "walk" /\ pc' = "walk" /\ UNCHANGED asked /\ adj' = adj
    BY <1>6 DEF Found, Looping, asked
  <2> QED
    BY <1>1, <1>3, <1>6, <2>1, FoundKeeps, FoundUnwinds, StillWalking
<1>7. CASE Descend
  <2>1. pc = "walk" /\ pc' = "walk" /\ UNCHANGED asked /\ adj' = adj
    BY <1>7 DEF Descend, Looping, asked
  <2> QED
    BY <1>1, <1>3, <1>7, <2>1, DescendKeeps, DescendUnwinds, StillWalking
<1>8. CASE Exhausted
  <2>1. pc = "walk" /\ pc' = "walk" /\ UNCHANGED asked /\ adj' = adj
    BY <1>8 DEF Exhausted, asked
  <2> QED
    BY <1>1, <1>3, <1>8, <2>1, ExhaustedKeeps, ExhaustedUnwinds, StillWalking
<1>9. CASE Answer
  <2>1. pc = "walk" /\ pc' = "done" /\ UNCHANGED asked
    BY <1>9 DEF Answer, asked
  <2>2. FoundExact'
    BY <1>1, <1>3, <1>9, <2>1, AnswerKeeps
  <2>3. AskedInv'
    BY <1>1, <2>1, PathsKept
  <2>4. pc' # "load" /\ pc' # "walk"
    BY <2>1
  <2>5. out' = out /\ Limit' = Limit
    BY <1>9 DEF Answer, Limit
  <2>6. Shrinks'
    BY <1>3, <2>1, <2>5 DEF Shrinks
  <2> QED
    BY <2>2, <2>3, <2>4, <2>6 DEF PathsInv
<1>10. CASE Done
  BY <1>10, PathsStill DEF Done
<1> QED
  BY <1>2, <1>4, <1>5, <1>6, <1>7, <1>8, <1>9, <1>10 DEF Next

\* The invariant holds when the call begins.
LEMMA PathsInitially ==
    ASSUME ToolInit
    PROVE  PathsIInv
<1> SUFFICES ASSUME tool = "list_call_paths" PROVE PathsInv
  BY DEF PathsIInv
<1>1. Init
  BY DEF ToolInit
<1>2. /\ edges \in SUBSET EdgeSpace /\ req \in Requests
      /\ target \in {NoTarget} \cup [given : {TRUE}, reaches : Reachables]
      /\ pc = "load" /\ stack = <<>> /\ visited = {} /\ pos = <<>> /\ out = <<>>
  BY <1>1, Zenon DEF Init
<1>3. AskedInv
  <2>1. target = NoTarget \/ target \in [given : {TRUE}, reaches : Reachables]
    BY <1>2, Zenon
  <2>2. target \in [given : {TRUE}, reaches : Reachables] =>
           target.given = TRUE /\ target.reaches \in Reachables
    BY Zenon
  <2> QED
    BY <1>2, <2>1, <2>2, Zenon DEF AskedInv
<1>4. pc # "walk" /\ pc # "done"
  BY <1>2
<1>5. FoundExact
  BY <1>4 DEF FoundExact
<1>6. Shrinks
  BY <1>2 DEF Shrinks
<1> QED
  BY <1>2, <1>3, <1>4, <1>5, <1>6 DEF PathsInv

\* Every step of a tool preserves it.
LEMMA PathsStep ==
    ASSUME PathsIInv, [ToolNext]_<<tool, vars, explain, search, drift, query>>
    PROVE  PathsIInv'
<1>1. tool' = tool
  BY DEF ToolNext, ListCallPaths, ExplainCall, SearchSource, ListSourceDrift, AskQueries
<1> SUFFICES ASSUME tool = "list_call_paths" PROVE PathsInv'
  BY <1>1 DEF PathsIInv
<1>2. PathsInv
  BY DEF PathsIInv
<1>3. CASE ListCallPaths
  BY <1>2, <1>3, PathsSteps DEF ListCallPaths
<1>4. CASE UNCHANGED <<tool, vars, explain, search, drift, query>>
  BY <1>2, <1>4, PathsStill
<1> QED
  BY <1>3, <1>4 DEF ToolNext, ExplainCall, SearchSource, ListSourceDrift, AskQueries

\* But for a walk from a symbol outside the target to itself, the paths the walk looks
\* for are those of the tool's description.
LEMMA FoundAreAll ==
    ASSUME AskedInv, Settled
    PROVE  PathsFound = AllPaths
<1>1. req.start \in Syms /\ req.end \in Syms
  BY DepthFacts
<1>2. IsFiniteSet(Syms) /\ Cardinality(Syms) \in Nat
  BY CallPathsAssumption, FS_CardinalityType
<1> DEFINE N == Cardinality(Syms)
<1>3. N >= 1
  <2>1. Cardinality(Syms) # 0
    BY <1>1, <1>2, FS_EmptySet
  <2> QED
    BY <1>2, <2>1
<1>4. \A p : p \in AllPaths <=> (\E n \in 1..N : p \in [1..n -> Syms]) /\ IsPath(p)
  BY DEF AllPaths
<1> HIDE DEF N
<1>5. CASE req.start # req.end
  <2>1. \A p : p \in PathsFound <=> (\E n \in 2..N : p \in [1..n -> Syms]) /\ IsPath(p)
    BY <1>5 DEF PathsFound, N
  <2>2. \A n \in 2..N : n \in 1..N
    BY <1>2 DEF N
  <2>3. ASSUME NEW p, NEW n \in 1..N, p \in [1..n -> Syms], IsPath(p)
        PROVE  n \in 2..N
    <3>1. n \in Nat /\ p \in Seq(Syms) /\ Len(p) = n
      BY <1>2, <2>3 DEF N
    <3>2. p[1] = req.start /\ p[n] = req.end
      BY <2>3, <3>1 DEF IsPath, Last
    <3>3. n # 1
      BY <1>5, <3>2
    <3> QED
      BY <1>2, <3>1, <3>3 DEF N
  <2> QED
    BY <1>4, <2>1, <2>2, <2>3
<1>6. CASE req.start = req.end
  <2> DEFINE x == <<req.start>>
  <2>1. PathsFound = {x}
    BY <1>6 DEF PathsFound
  <2>2. ASSUME NEW p \in AllPaths PROVE p = x
    <3>1. PICK n \in 1..N : p \in [1..n -> Syms]
      BY <1>4
    <3>2. IsPath(p)
      BY <1>4
    <3>3. n \in Nat /\ n >= 1 /\ p \in Seq(Syms) /\ Len(p) = n /\ DOMAIN p = 1..n
      BY <1>2, <3>1 DEF N
    <3>4. p[1] = req.start /\ p[n] = req.start
      BY <1>6, <3>2, <3>3 DEF IsPath, Last
    <3>5. \A j, k \in 1..n : p[j] = p[k] => j = k
      BY <3>2, <3>3 DEF IsPath, IsInjective
    <3>6. 1 \in 1..n /\ n \in 1..n
      BY <3>3
    <3>7. n = 1
      BY <3>4, <3>5, <3>6
    <3> QED
      BY <3>1, <3>4, <3>7
  <2>3. x \in AllPaths
    <3>1. x \in [1..1 -> Syms] /\ x \in Seq(Syms) /\ Len(x) = 1 /\ x[1] = req.start /\ x # <<>>
      BY <1>1
    <3>2. DOMAIN x = 1..1
      BY <3>1
    <3> HIDE DEF x
    <3>3. Last(x) = req.end /\ x[1] = req.start
      BY <1>6, <3>1 DEF Last
    <3>4. (\A k \in 1..1 : k = 1) /\ 1..Len(x) - 1 = {} /\ 1 \in 1..1
      BY <3>1
    <3>5. IsInjective(x)
      BY <3>2, <3>4 DEF IsInjective
    <3>6. Len(x) - 1 <= IF req.depth \in 1..MaxDepth THEN req.depth ELSE DefaultDepth
      <4>1. /\ Depth \in Nat
            /\ Depth = IF req.depth \in 1..MaxDepth THEN req.depth ELSE DefaultDepth
        BY DepthFacts
      <4>2. Len(x) - 1 <= Depth
        BY <3>1, <4>1
      <4> QED
        BY <4>1, <4>2
    <3>7. target.given => \A k \in 1..Len(x) : x[k] \in target.reaches
      BY <1>6, <3>1, <3>4 DEF Settled, ByID
    <3>8. IsPath(x)
      BY <3>1, <3>3, <3>4, <3>5, <3>6, <3>7 DEF IsPath
    <3>9. 1 \in 1..N
      BY <1>2, <1>3 DEF N
    <3> QED
      BY <1>4, <3>1, <3>8, <3>9
  <2> HIDE DEF x
  <2> QED
    BY <2>1, <2>2, <2>3
<1> QED
  BY <1>5, <1>6

\* So the invariant gives the exactness of the answer.
LEMMA AnswerTrue ==
    ASSUME PathsInv
    PROVE  AnswerIsExact
<1>1. AskedInv /\ FoundExact /\ Shrinks
  BY DEF PathsInv
<1>2. \A j \in 2..Len(out) : j > ResultLimit + 1 => Len(out[j]) < Len(out[j - 1])
  BY <1>1 DEF Shrinks, Limit
<1>3. Settled => PathsFound = AllPaths
  BY <1>1, FoundAreAll
<1> QED
  BY <1>1, <1>2, <1>3 DEF FoundExact, AnswerIsExact

\* For every call graph, target, depth and limit, list_call_paths answers with every
\* simple call path within the depth and the target, in the order of the names, says
\* truthfully whether it cut the list, and beyond its limit only unwinds; a request
\* from a symbol outside the target to itself is left out (callgraph_source_tools.go).
THEOREM CallPathsAlwaysExact == ToolSpec => []CallPathsExact
<1>1. PathsIInv => CallPathsExact
  BY AnswerTrue DEF PathsIInv, CallPathsExact
<1>2. ToolInit => PathsIInv
  BY PathsInitially
<1>3. PathsIInv /\ [ToolNext]_<<tool, vars, explain, search, drift, query>> => PathsIInv'
  BY PathsStep
<1> QED
  BY <1>1, <1>2, <1>3, PTL DEF ToolSpec

-----------------------------------------------------------------------------
(* search_source: source_tools.go handleSearchSource.                      *)

\* The rows of the tables in the order of the scan, and how many were read.
ScanRows == Search!Tables(request)
Read == Len(ScanRows) - Len(rows)

\* The matches of each row, and of all of them.
RowMatches == [k \in DOMAIN ScanRows |-> Search!MatchesIn(ScanRows[k])]

TableNames == {"sources", "generated", "external"}
MatchSet == [table : TableNames, path : Nat, line : Nat]

\* How many matches the rows up to k have.
MatchesTo(k) == Ends(RowMatches)[k]

ReadInv ==
    /\ index \in Indexes /\ request \in Searches
    /\ rows \in Seq({ScanRows[k] : k \in DOMAIN ScanRows}) /\ Len(rows) <= Len(ScanRows)
    /\ \A k \in 1..Len(rows) : rows[k] = ScanRows[Read + k]

\* Every match of the rows read is counted, until the scan is full.
TotalInv ==
    /\ resp.total \in Nat
    /\ scanFull \in BOOLEAN
    /\ IF scanFull THEN resp.total = MatchLimit /\ MatchLimit <= MatchesTo(Read)
       ELSE resp.total = MatchesTo(Read) /\ resp.total < MatchLimit

\* The rows returned are the first of those.
ShownInv ==
    /\ resp.matches \in Seq(MatchSet)
    /\ Len(resp.matches) = Search!Smaller(request.limit, resp.total)
    /\ \A k \in 1..Len(resp.matches) : resp.matches[k] = Search!AllMatches[k]

\* The counts are those of the matches counted.
TallyInv ==
    /\ resp.byFile \in [Search!Paths -> Nat]
    /\ \A p \in Search!Paths :
          resp.byFile[p] = Cardinality({x \in 1..resp.total : Search!AllMatches[x].path = p})
    /\ resp.byDir \in [Search!Dirs -> Nat]
    /\ \A d \in Search!Dirs :
          resp.byDir[d] = Cardinality({x \in 1..resp.total : Search!Dir(Search!AllMatches[x].path) = d})
    /\ resp.files = {Search!AllMatches[x].path : x \in 1..resp.total}

ScannedInv == resp.scanned = Cardinality({k \in Search!Searched : k <= Read})

ListedRows == {k \in DOMAIN ScanRows : Search!Listed(ScanRows[k])}

ListingInv ==
    \/ listing = Search!NotListed
    \/ listing = [done |-> TRUE, files |-> Selected(ListedRows, ScanRows)]

\* The answer is what was gathered, when there was no more to gather.
ReplyInv ==
    /\ listing.done /\ (rows = <<>> \/ scanFull)
    /\ reply.matches = resp.matches /\ reply.total = resp.total
    /\ reply.returned = Len(resp.matches)
    /\ reply.filesWithMatches = Cardinality(resp.files)
    /\ reply.byFile = [p \in Search!TopCounts(resp.byFile) |-> resp.byFile[p]]
    /\ reply.byDir = [d \in Search!TopCounts(resp.byDir) |-> resp.byDir[d]]
    /\ reply.truncated = (Len(resp.matches) < resp.total)
    /\ reply.scanTruncated = scanFull /\ reply.scanned = resp.scanned

SearchInv ==
    /\ ReadInv /\ TotalInv /\ ShownInv /\ TallyInv /\ ScannedInv /\ ListingInv
    /\ reply.done => ReplyInv

SearchIInv == tool = "search_source" => SearchInv

-----------------------------------------------------------------------------
(* The rows of the tables.                                                 *)

RowOf(t, p) == [table |-> t, file |-> CHOOSE f \in index[t] : f.path = p]
TableRows(t) == {RowOf(t, p) : p \in Search!Keys(t)}
AllRows == TableRows("sources") \cup TableRows("generated") \cup TableRows("external")

\* The module counts and selects as Ordered does.
LEMMA SearchInstance ==
    /\ \A S : Search!Cardinality(S) = Cardinality(S)
    /\ \A S, f : Search!Selected(S, f) = Selected(S, f)
    /\ \A ss : Search!Ends(ss) = Ends(ss)
    /\ \A ss : Search!Joined(ss) = Joined(ss)
<1>1. \A S : Search!Cardinality(S) = Cardinality(S)
  BY DEF Search!Cardinality, Cardinality
<1>2. \A S, f : Search!Selected(S, f) = Selected(S, f)
  BY DEF Search!Selected, Selected, Search!Rank, Rank, Search!Cardinality, Cardinality
<1>3. \A ss : Search!Ends(ss) = Ends(ss)
  BY Zenon DEF Search!Ends, Ends
<1>4. \A ss : Search!Joined(ss) = Joined(ss)
  BY Zenon DEF Search!Joined, Joined, Search!Ends, Ends
<1> QED
  BY <1>1, <1>2, <1>3, <1>4

\* What a row holds.
LEMMA RowFacts ==
    ASSUME index \in Indexes, NEW t \in TableNames, NEW row \in TableRows(t)
    PROVE  /\ row.table = t /\ row.file \in index[t] /\ row.file.path \in Nat
           /\ row.file.hits \in Seq(Nat) /\ row = RowOf(t, row.file.path)
<1>1. PICK p \in Search!Keys(t) : row = RowOf(t, p)
  BY DEF TableRows
<1>2. PICK f \in index[t] : f.path = p
  BY <1>1 DEF Search!Keys
<1> DEFINE c == CHOOSE g \in index[t] : g.path = p
<1>3. c \in index[t] /\ c.path = p
  BY <1>2
<1>4. row = [table |-> t, file |-> c]
  BY <1>1 DEF RowOf
<1> HIDE DEF c
<1>5. row.table = t /\ row.file = c
  BY <1>4
<1>6. c.path \in Nat /\ c.hits \in Seq(Nat)
  BY <1>3, SearchAssumption DEF TableNames
<1> QED
  BY <1>1, <1>3, <1>5, <1>6

\* A table's keys are finitely many numbers.
LEMMA KeysFinite ==
    ASSUME index \in Indexes, NEW t \in TableNames
    PROVE  Search!Keys(t) \in SUBSET Nat /\ IsFiniteSet(Search!Keys(t))
<1>1. IsFiniteSet(index[t]) /\ \A f \in index[t] : f.path \in Nat
  BY SearchAssumption DEF TableNames
<1> DEFINE g == [f \in index[t] |-> f.path]
<1>2. Search!Keys(t) = {f.path : f \in index[t]}
  BY DEF Search!Keys
<1>3. IsFiniteSet({g[f] : f \in index[t]})
  BY <1>1, FiniteImage, Zenon
<1> QED
  BY <1>1, <1>2, <1>3, Zenon

\* The rows of a table, each once.
LEMMA RowsFacts ==
    ASSUME index \in Indexes, NEW t \in TableNames
    PROVE  /\ Search!Rows(t) \in Seq(TableRows(t))
           /\ \A i, j \in 1..Len(Search!Rows(t)) : Search!Rows(t)[i] = Search!Rows(t)[j] => i = j
<1> DEFINE S == Search!Keys(t)
           f == [p \in S |-> RowOf(t, p)]
           R == Selected(S, f)
           n == Cardinality(S)
           At(r) == CHOOSE p \in S : Rank(S, p) = r
<1>1. S \in SUBSET Nat /\ IsFiniteSet(S)
  BY KeysFinite
<1>2. Search!Rows(t) = R
  BY SearchInstance DEF Search!Rows, RowOf
<1>3. /\ n \in Nat
      /\ \A r \in 1..n : \E p \in S : Rank(S, p) = r
  BY <1>1, RankOnto
<1>4. \A r \in 1..n : At(r) \in S /\ Rank(S, At(r)) = r
  BY <1>3
<1>5. R = [r \in 1..n |-> f[At(r)]]
  BY DEF Selected
<1>6. \A p \in S : RowOf(t, p).file.path = p
  <2>1. SUFFICES ASSUME NEW p \in S PROVE RowOf(t, p).file.path = p
    OBVIOUS
  <2>2. \E g \in index[t] : g.path = p
    BY DEF Search!Keys
  <2> QED
    BY <2>2 DEF RowOf
<1>7. \A p \in S : RowOf(t, p) \in TableRows(t)
  BY DEF TableRows
<1> HIDE DEF R, n, At, S
<1>8. \A r \in 1..n : R[r] = RowOf(t, At(r))
  BY <1>4, <1>5
<1>9. R \in Seq(TableRows(t)) /\ Len(R) = n
  <2>1. R \in [1..n -> TableRows(t)]
    BY <1>4, <1>5, <1>7, <1>8
  <2> QED
    BY <1>3, <2>1
<1>10. ASSUME NEW i \in 1..n, NEW j \in 1..n, R[i] = R[j] PROVE i = j
  <2>1. At(i) = At(j)
    BY <1>4, <1>6, <1>8, <1>10
  <2> QED
    BY <1>4, <2>1
<1> QED
  BY <1>2, <1>9, <1>10

\* A sequence without repetition.
Once(s) == \A i, j \in 1..Len(s) : s[i] = s[j] => i = j

\* Two sequences without repetition and without a common member, one after the other.
LEMMA ConcatOnce ==
    ASSUME NEW A, NEW B, A \cap B = {}, NEW a \in Seq(A), NEW b \in Seq(B), Once(a), Once(b)
    PROVE  a \o b \in Seq(A \cup B) /\ Once(a \o b)
<1> USE DEF Once
<1> DEFINE c == a \o b
           m == Len(a)
           n == Len(b)
<1>1. m \in Nat /\ n \in Nat /\ Len(c) = m + n
  OBVIOUS
<1>2. a \in Seq(A \cup B) /\ b \in Seq(A \cup B)
  OBVIOUS
<1>3. c \in Seq(A \cup B)
  BY <1>2
<1>4. /\ \A i \in 1..m : c[i] = a[i] /\ a[i] \in A
      /\ \A i \in 1..(m + n) : i \notin 1..m => /\ c[i] = b[i - m] /\ i - m \in 1..n /\ b[i - m] \in B
  OBVIOUS
<1> HIDE DEF c, m, n
<1>5. ASSUME NEW i \in 1..(m + n), NEW j \in 1..(m + n), c[i] = c[j] PROVE i = j
  <2>1. CASE i \in 1..m /\ j \in 1..m
    BY <1>4, <1>5, <2>1 DEF m
  <2>2. CASE i \in 1..m /\ j \notin 1..m
    BY <1>4, <1>5, <2>2
  <2>3. CASE i \notin 1..m /\ j \in 1..m
    BY <1>4, <1>5, <2>3
  <2>4. CASE i \notin 1..m /\ j \notin 1..m
    <3>1. b[i - m] = b[j - m] /\ i - m \in 1..n /\ j - m \in 1..n
      BY <1>4, <1>5, <2>4
    <3>2. i - m = j - m
      BY <3>1 DEF n
    <3> QED
      BY <1>1, <3>2
  <2> QED
    BY <2>1, <2>2, <2>3, <2>4
<1> QED
  BY <1>1, <1>3, <1>5 DEF c

\* The rows in the order of the scan, each once.
LEMMA ScanFacts ==
    ASSUME index \in Indexes
    PROVE  ScanRows \in Seq(AllRows) /\ Once(ScanRows)
<1> DEFINE a == Search!Rows("sources")
           b == IF request.target THEN <<>> ELSE Search!Rows("generated")
           c == IF request.external /\ ~request.target THEN Search!Rows("external") ELSE <<>>
           A == TableRows("sources")
           B == TableRows("generated")
           C == TableRows("external")
<1>1. A \cap B = {} /\ (A \cup B) \cap C = {}
  BY DEF TableRows, RowOf
<1>2. a \in Seq(A) /\ Once(a)
  <2>1. "sources" \in TableNames
    BY DEF TableNames
  <2> QED
    BY <2>1, RowsFacts DEF Once
<1>3. \A S : <<>> \in Seq(S) /\ Once(<<>>)
  BY DEF Once
<1>4. b \in Seq(B) /\ Once(b)
  <2>1. "generated" \in TableNames
    BY DEF TableNames
  <2>2. Search!Rows("generated") \in Seq(B) /\ Once(Search!Rows("generated"))
    BY <2>1, RowsFacts DEF Once
  <2> HIDE DEF B
  <2> QED
    BY <1>3, <2>2
<1>5. c \in Seq(C) /\ Once(c)
  <2>1. "external" \in TableNames
    BY DEF TableNames
  <2>2. Search!Rows("external") \in Seq(C) /\ Once(Search!Rows("external"))
    BY <2>1, RowsFacts DEF Once
  <2> HIDE DEF C
  <2> QED
    BY <1>3, <2>2
<1>6. ScanRows = a \o b \o c
  BY DEF ScanRows, Search!Tables
<1> HIDE DEF a, b, c, A, B, C
<1>7. a \o b \in Seq(A \cup B) /\ Once(a \o b)
  <2>1. A \cap B = {}
    BY <1>1
  <2> QED
    BY <1>2, <1>4, <2>1, ConcatOnce, Zenon
<1>8. (a \o b) \o c \in Seq((A \cup B) \cup C) /\ Once((a \o b) \o c)
  <2> DEFINE d == a \o b
             D == A \cup B
  <2>1. d \in Seq(D) /\ Once(d) /\ D \cap C = {}
    BY <1>1, <1>7
  <2> HIDE DEF d, D
  <2>2. d \o c \in Seq(D \cup C) /\ Once(d \o c)
    BY <1>5, <2>1, ConcatOnce, Zenon
  <2> QED
    BY <2>2 DEF d, D
<1>9. AllRows = (A \cup B) \cup C
  BY DEF AllRows, A, B, C
<1> QED
  BY <1>6, <1>8, <1>9

\* What the rows of the scan hold.
LEMMA ScanRowFacts ==
    ASSUME index \in Indexes, NEW row \in AllRows
    PROVE  /\ row.table \in TableNames /\ row.file \in index[row.table] /\ row.file.path \in Nat
           /\ row.file.hits \in Seq(Nat) /\ row = RowOf(row.table, row.file.path)
           /\ row.file \in Search!Files /\ row.file.path \in Search!Paths
           /\ Search!Dir(row.file.path) \in Search!Dirs
<1>1. PICK t \in TableNames : row \in TableRows(t)
  BY DEF AllRows, TableNames
<1>2. /\ row.table = t /\ row.file \in index[t] /\ row.file.path \in Nat
      /\ row.file.hits \in Seq(Nat) /\ row = RowOf(t, row.file.path)
  BY <1>1, RowFacts
<1>3. row.file \in Search!Files
  BY <1>2 DEF TableNames, Search!Files
<1>4. row.file.path \in Search!Paths
  BY <1>3 DEF Search!Paths
<1>5. Search!Dir(row.file.path) \in Search!Dirs
  <2> DEFINE c == CHOOSE f \in Search!Files : f.path = row.file.path
  <2>1. c \in Search!Files
    BY <1>3
  <2>2. Search!Dir(row.file.path) = c.dir
    BY DEF Search!Dir
  <2> HIDE DEF c
  <2> QED
    BY <2>1, <2>2 DEF Search!Dirs
<1> QED
  BY <1>1, <1>2, <1>3, <1>4, <1>5

-----------------------------------------------------------------------------
(* The matches.                                                            *)

\* The matches of a row are those of its lines, if it is searched.
LEMMA MatchFacts ==
    ASSUME index \in Indexes, NEW k \in 1..Len(ScanRows)
    PROVE  /\ RowMatches[k] \in Seq(MatchSet)
           /\ Len(RowMatches[k]) = IF k \in Search!Searched THEN Len(ScanRows[k].file.hits) ELSE 0
           /\ \A i \in 1..Len(RowMatches[k]) :
                 RowMatches[k][i] = Search!Match(ScanRows[k], ScanRows[k].file.hits[i])
<1> DEFINE row == ScanRows[k]
           hits == row.file.hits
<1>1. ScanRows \in Seq(AllRows) /\ k \in DOMAIN ScanRows /\ row \in AllRows
  <2>1. ScanRows \in Seq(AllRows)
    BY ScanFacts
  <2> QED
    BY <2>1
<1>2. RowMatches[k] = Search!MatchesIn(row)
  BY <1>1 DEF RowMatches
<1>3. k \in Search!Searched <=> Search!Admitted(row) /\ row.file.readable
  BY <1>1 DEF Search!Searched, ScanRows
<1>4. row.table \in TableNames /\ row.file.path \in Nat /\ hits \in Seq(Nat)
  BY <1>1, ScanRowFacts
<1> HIDE DEF row
<1>5. CASE k \in Search!Searched
  <2>1. RowMatches[k] = [j \in DOMAIN hits |-> Search!Match(row, hits[j])]
    BY <1>2, <1>3, <1>5 DEF Search!MatchesIn
  <2> HIDE DEF hits
  <2>2. DOMAIN hits = 1..Len(hits) /\ Len(hits) \in Nat /\ \A j \in 1..Len(hits) : hits[j] \in Nat
    BY <1>4
  <2>3. \A j \in 1..Len(hits) : Search!Match(row, hits[j]) \in MatchSet
    BY <1>4, <2>2 DEF Search!Match, MatchSet
  <2>4. RowMatches[k] \in [1..Len(hits) -> MatchSet]
    BY <2>1, <2>2, <2>3
  <2>5. RowMatches[k] \in Seq(MatchSet) /\ Len(RowMatches[k]) = Len(hits)
    BY <2>2, <2>4
  <2> QED
    BY <1>5, <2>1, <2>2, <2>5 DEF hits, row
<1>6. CASE k \notin Search!Searched
  <2>1. RowMatches[k] = <<>>
    BY <1>2, <1>3, <1>6 DEF Search!MatchesIn
  <2> QED
    BY <1>6, <2>1
<1> QED
  BY <1>5, <1>6

\* All the matches, and where those of each row stand.
LEMMA AllFacts ==
    ASSUME index \in Indexes
    PROVE  LET n == Len(ScanRows) IN
           /\ n \in Nat /\ MatchesTo(0) = 0
           /\ \A k \in 0..n : MatchesTo(k) \in Nat
           /\ \A k \in 1..n : MatchesTo(k) = MatchesTo(k - 1) + Len(RowMatches[k])
           /\ \A j, k \in 0..n : j <= k => MatchesTo(j) <= MatchesTo(k)
           /\ Search!AllMatches \in Seq(MatchSet) /\ Len(Search!AllMatches) = MatchesTo(n)
           /\ \A k \in 1..n : \A i \in 1..Len(RowMatches[k]) :
                 /\ MatchesTo(k - 1) + i \in 1..MatchesTo(n)
                 /\ Search!AllMatches[MatchesTo(k - 1) + i] = RowMatches[k][i]
           /\ \A x \in 1..MatchesTo(n) :
                 \E k \in 1..n : \E i \in 1..Len(RowMatches[k]) : x = MatchesTo(k - 1) + i
<1> DEFINE n == Len(ScanRows)
           ss == RowMatches
           e == Ends(ss)
<1>1. n \in Nat /\ DOMAIN ScanRows = 1..n
  <2>1. ScanRows \in Seq(AllRows)
    BY ScanFacts
  <2> QED
    BY <2>1
<1>2. ss \in Seq(Seq(MatchSet)) /\ Len(ss) = n
  <2>1. ss = [k \in 1..n |-> Search!MatchesIn(ScanRows[k])]
    BY <1>1 DEF RowMatches
  <2>2. \A k \in 1..n : ss[k] \in Seq(MatchSet)
    BY MatchFacts
  <2> HIDE DEF n, ss
  <2>3. ss \in [1..n -> Seq(MatchSet)]
    BY <2>1, <2>2
  <2> QED
    BY <1>1, <2>3
<1>3. Search!AllMatches = Joined(ss)
  BY SearchInstance DEF Search!AllMatches, RowMatches, ScanRows
<1>4. \A k : MatchesTo(k) = e[k]
  BY DEF MatchesTo
<1> HIDE DEF n, ss
<1>5. /\ e \in [0..n -> Nat] /\ e[0] = 0
      /\ \A k \in 1..n : e[k] = e[k - 1] + Len(ss[k])
  BY <1>2, EndsIs, Zenon
<1>6. \A j, k \in 0..n : j <= k => e[j] <= e[k]
  BY <1>2, EndsGrow
<1>7. /\ e[n] \in Nat
      /\ Joined(ss) \in [1..e[n] -> MatchSet]
      /\ \A k \in 1..n : \A i \in 1..Len(ss[k]) :
            /\ e[k - 1] + i \in 1..e[n]
            /\ Joined(ss)[e[k - 1] + i] = ss[k][i]
      /\ \A x \in 1..e[n] : \E k \in 1..n : \E i \in 1..Len(ss[k]) : x = e[k - 1] + i
  <2>1. ss \in Seq(Seq(MatchSet))
    BY <1>2
  <2>2. /\ Ends(ss)[Len(ss)] \in Nat
        /\ Joined(ss) \in [1..Ends(ss)[Len(ss)] -> MatchSet]
        /\ \A k \in 1..Len(ss) : \A i \in 1..Len(ss[k]) :
              /\ Ends(ss)[k - 1] + i \in 1..Ends(ss)[Len(ss)]
              /\ Joined(ss)[Ends(ss)[k - 1] + i] = ss[k][i]
        /\ \A x \in 1..Ends(ss)[Len(ss)] :
              \E k \in 1..Len(ss) : \E i \in 1..Len(ss[k]) : x = Ends(ss)[k - 1] + i
    BY <2>1, JoinedIs, Zenon
  <2> QED
    BY <1>2, <2>2
<1>8. Joined(ss) \in Seq(MatchSet) /\ Len(Joined(ss)) = e[n]
  <2> DEFINE J == Joined(ss)
             z == e[n]
  <2>1. z \in Nat /\ J \in [1..z -> MatchSet]
    BY <1>7
  <2> HIDE DEF J, z
  <2>2. J \in Seq(MatchSet) /\ Len(J) = z
    BY <2>1
  <2> QED
    BY <2>2 DEF J, z
<1> HIDE DEF e
<1>9. \A k \in 0..n : e[k] \in Nat
  BY <1>5
<1> HIDE DEF MatchesTo
<1> QED
  BY <1>1, <1>3, <1>4, <1>5, <1>6, <1>7, <1>8, <1>9, Zenon DEF n, ss

-----------------------------------------------------------------------------
(* The steps.                                                              *)

\* A call reads one index for one request.
LEMMA SearchKept ==
    ASSUME index' = index, request' = request
    PROVE  /\ ScanRows' = ScanRows /\ RowMatches' = RowMatches
           /\ Search!AllMatches' = Search!AllMatches
           /\ Search!Paths' = Search!Paths /\ Search!Dirs' = Search!Dirs
           /\ \A p : Search!Dir(p)' = Search!Dir(p)
           /\ Search!Searched' = Search!Searched /\ ListedRows' = ListedRows
<1>1. Search!Files' = Search!Files
  BY DEF Search!Files
<1>2. Search!Paths' = Search!Paths /\ Search!Dirs' = Search!Dirs
  BY <1>1 DEF Search!Paths, Search!Dirs
<1>3. \A p : Search!Dir(p)' = Search!Dir(p)
  BY <1>1 DEF Search!Dir
<1>4. \A t : Search!Rows(t)' = Search!Rows(t)
  BY DEF Search!Rows, Search!Keys
<1>5. ScanRows' = ScanRows
  BY <1>4, Zenon DEF ScanRows, Search!Tables
<1>6. \A row : Search!Listed(row)' <=> Search!Listed(row)
  BY DEF Search!Listed, Search!InScope, Search!MatchesKind
<1>7. \A row : Search!Admitted(row)' <=> Search!Admitted(row)
  BY DEF Search!Admitted, Search!InScope, Search!MatchesKind
<1>8. \A row : Search!MatchesIn(row)' = Search!MatchesIn(row)
  BY <1>7 DEF Search!MatchesIn
<1>9. RowMatches' = RowMatches
  BY <1>5, <1>8 DEF RowMatches
<1>10. Search!AllMatches' = Search!AllMatches
  <2>1. Search!AllMatches = Search!Joined(RowMatches)
    BY Zenon DEF Search!AllMatches, RowMatches, ScanRows
  <2>2. Search!AllMatches' = Search!Joined(RowMatches')
    BY Zenon DEF Search!AllMatches, RowMatches, ScanRows
  <2> QED
    BY <1>9, <2>1, <2>2
<1>11. Search!Searched' = Search!Searched
  BY <1>5, <1>7 DEF Search!Searched, ScanRows
<1>12. ListedRows' = ListedRows
  BY <1>5, <1>6 DEF ListedRows
<1> QED
  BY <1>2, <1>3, <1>5, <1>9, <1>10, <1>11, <1>12

\* How far the scan is.
LEMMA ReadFacts ==
    ASSUME ReadInv
    PROVE  /\ Len(ScanRows) \in Nat /\ Read \in 0..Len(ScanRows)
           /\ rows = <<>> => Read = Len(ScanRows)
<1>1. Len(ScanRows) \in Nat
  BY AllFacts DEF ReadInv
<1> DEFINE n == Len(ScanRows)
           m == Len(rows)
<1>2. m \in Nat /\ m <= n /\ (rows = <<>> => m = 0) /\ Read = n - m
  BY DEF ReadInv, Read
<1> HIDE DEF n, m
<1>3. n \in Nat
  BY <1>1 DEF n
<1> QED
  BY <1>2, <1>3 DEF n

\* The next row is taken from the tables.
LEMMA TakeRow ==
    ASSUME ReadInv, rows # <<>>, rows' = Tail(rows), index' = index, request' = request
    PROVE  /\ Read + 1 \in 1..Len(ScanRows) /\ Head(rows) = ScanRows[Read + 1]
           /\ Read' = Read + 1 /\ ReadInv'
<1> DEFINE S == {ScanRows[k] : k \in DOMAIN ScanRows}
           n == Len(ScanRows)
           m == Len(rows)
<1>1. n \in Nat /\ Read = n - m /\ m <= n
  BY ReadFacts DEF Read, ReadInv
<1>2. rows \in Seq(S) /\ \A k \in 1..m : rows[k] = ScanRows[Read + k]
  BY DEF ReadInv
<1>3. ScanRows' = ScanRows
  BY SearchKept
<1> HIDE DEF S, n
<1>4. /\ m \in Nat \ {0} /\ Head(rows) = rows[1]
      /\ Tail(rows) \in Seq(S) /\ Len(Tail(rows)) = m - 1
      /\ \A k \in 1..(m - 1) : Tail(rows)[k] = rows[k + 1]
  BY <1>2
<1>5. Len(rows') = m - 1
  BY <1>4
<1> HIDE DEF m
<1>6. Read \in Nat /\ Read + 1 \in 1..n /\ m - 1 <= n /\ n - (m - 1) = Read + 1
  BY <1>1, <1>4
<1>7. Read' = Read + 1
  BY <1>3, <1>5, <1>6 DEF Read, n
<1>8. Head(rows) = ScanRows[Read + 1]
  BY <1>2, <1>4
<1>9. \A k \in 1..(m - 1) : rows'[k] = ScanRows[(Read + 1) + k]
  <2>1. SUFFICES ASSUME NEW k \in 1..(m - 1) PROVE Tail(rows)[k] = ScanRows[(Read + 1) + k]
    BY Zenon
  <2>2. k + 1 \in 1..m /\ Read + (k + 1) = (Read + 1) + k
    BY <1>4, <1>6
  <2>3. Tail(rows)[k] = rows[k + 1] /\ rows[k + 1] = ScanRows[Read + (k + 1)]
    BY <1>2, <1>4, <2>2
  <2> QED
    BY <2>2, <2>3, Zenon
<1>10. ReadInv'
  <2>1. index' \in Indexes /\ request' \in Searches
    BY DEF ReadInv
  <2>2. rows' \in Seq({ScanRows'[k] : k \in DOMAIN ScanRows'})
    BY <1>3, <1>4 DEF S
  <2>3. Len(rows') <= Len(ScanRows')
    BY <1>3, <1>5, <1>6 DEF n
  <2>4. \A k \in 1..Len(rows') : rows'[k] = ScanRows'[Read' + k]
    BY <1>3, <1>5, <1>7, <1>9
  <2> QED
    BY <2>1, <2>2, <2>3, <2>4, Zenon DEF ReadInv
<1> QED
  BY <1>6, <1>7, <1>8, <1>10 DEF n

\* The files searched among the rows read, when one more is read.
LEMMA ScannedFacts ==
    ASSUME index \in Indexes, NEW r \in Nat, r + 1 \in 1..Len(ScanRows)
    PROVE  /\ Cardinality({k \in Search!Searched : k <= r}) \in Nat
           /\ Cardinality({k \in Search!Searched : k <= r + 1})
                  = Cardinality({k \in Search!Searched : k <= r})
                    + IF r + 1 \in Search!Searched THEN 1 ELSE 0
<1> DEFINE D == Search!Searched
           A == {k \in D : k <= r}
           B == {k \in D : k <= r + 1}
           n == Len(ScanRows)
<1>1. n \in Nat /\ D \in SUBSET (1..n)
  <2>1. ScanRows \in Seq(AllRows)
    BY ScanFacts
  <2> QED
    BY <2>1 DEF Search!Searched, ScanRows
<1> HIDE DEF D, n
<1>2. IsFiniteSet(A) /\ Cardinality(A) \in Nat
  <2>1. A \in SUBSET (1..n) /\ IsFiniteSet(1..n)
    BY <1>1, RankInterval, Zenon
  <2> QED
    BY <2>1, FS_Subset, FS_CardinalityType, Zenon
<1>3. r + 1 \notin A
  OBVIOUS
<1>4. \A k \in D : k <= r + 1 <=> k <= r \/ k = r + 1
  <2>1. \A k \in D : k \in Nat
    BY <1>1
  <2> QED
    BY <2>1
<1>5. CASE r + 1 \in D
  <2>1. B = A \cup {r + 1}
    BY <1>4, <1>5
  <2> HIDE DEF A, B
  <2>2. Cardinality(B) = Cardinality(A) + 1
    BY <1>2, <1>3, <2>1, FS_AddElement, Zenon
  <2> QED
    BY <1>2, <1>5, <2>2 DEF A, B, D
<1>6. CASE r + 1 \notin D
  <2>1. B = A
    BY <1>4, <1>6
  <2> HIDE DEF A, B
  <2>2. Cardinality(B) = Cardinality(A) + 0
    BY <1>2, <2>1
  <2> QED
    BY <1>2, <1>6, <2>2 DEF A, B, D
<1> QED
  BY <1>5, <1>6

\* Where the matches of the next row stand.
LEMMA NextRow ==
    ASSUME index \in Indexes, NEW r \in Nat, r + 1 \in 1..Len(ScanRows)
    PROVE  /\ MatchesTo(r) \in Nat /\ Len(RowMatches[r + 1]) \in Nat
           /\ MatchesTo(r + 1) = MatchesTo(r) + Len(RowMatches[r + 1])
           /\ MatchesTo(r + 1) <= Len(Search!AllMatches) /\ Len(Search!AllMatches) \in Nat
           /\ \A i \in 1..Len(RowMatches[r + 1]) :
                 /\ MatchesTo(r) + i \in 1..Len(Search!AllMatches)
                 /\ Search!AllMatches[MatchesTo(r) + i] = RowMatches[r + 1][i]
<1> DEFINE n == Len(ScanRows)
           k == r + 1
<1>1. n \in Nat
  BY AllFacts
<1>2. k \in 1..n /\ k \in 0..n /\ r \in 0..n /\ n \in 0..n /\ k - 1 = r /\ k <= n
  BY <1>1
<1> HIDE DEF k, n
<1>3. /\ \A j \in 0..n : MatchesTo(j) \in Nat
      /\ \A j \in 1..n : MatchesTo(j) = MatchesTo(j - 1) + Len(RowMatches[j])
      /\ \A i, j \in 0..n : i <= j => MatchesTo(i) <= MatchesTo(j)
      /\ Len(Search!AllMatches) = MatchesTo(n)
      /\ \A j \in 1..n : \A i \in 1..Len(RowMatches[j]) :
            /\ MatchesTo(j - 1) + i \in 1..MatchesTo(n)
            /\ Search!AllMatches[MatchesTo(j - 1) + i] = RowMatches[j][i]
  BY AllFacts DEF n
<1>4. RowMatches[k] \in Seq(MatchSet)
  BY <1>2, MatchFacts DEF n
<1> HIDE DEF MatchesTo
<1>5. Len(RowMatches[k]) \in Nat
  BY <1>4
<1>6. MatchesTo(k) = MatchesTo(k - 1) + Len(RowMatches[k])
  BY <1>2, <1>3
<1>7. MatchesTo(r) \in Nat /\ MatchesTo(k) <= MatchesTo(n) /\ MatchesTo(n) \in Nat
  BY <1>2, <1>3
<1>8. \A i \in 1..Len(RowMatches[k]) :
         /\ MatchesTo(k - 1) + i \in 1..MatchesTo(n)
         /\ Search!AllMatches[MatchesTo(k - 1) + i] = RowMatches[k][i]
  BY <1>2, <1>3, Zenon
<1> QED
  BY <1>2, <1>3, <1>5, <1>6, <1>7, <1>8 DEF k

\* What stays when the answer does.
LEMMA AnswerKept ==
    ASSUME SearchInv, index' = index, request' = request
    PROVE  /\ resp' = resp => ShownInv' /\ TallyInv'
           /\ listing' = listing => ListingInv'
           /\ rows' = rows => ReadInv' /\ Read' = Read
           /\ rows' = rows /\ resp' = resp => ScannedInv'
           /\ rows' = rows /\ resp' = resp /\ scanFull' = scanFull => TotalInv'
<1>1. /\ ScanRows' = ScanRows /\ RowMatches' = RowMatches
      /\ Search!AllMatches' = Search!AllMatches
      /\ Search!Paths' = Search!Paths /\ Search!Dirs' = Search!Dirs
      /\ \A p : Search!Dir(p)' = Search!Dir(p)
      /\ Search!Searched' = Search!Searched /\ ListedRows' = ListedRows
  BY SearchKept
<1>2. ASSUME resp' = resp PROVE ShownInv'
  BY <1>1, <1>2 DEF SearchInv, ShownInv, Search!Smaller
<1>3. ASSUME resp' = resp PROVE TallyInv'
  BY <1>1, <1>3 DEF SearchInv, TallyInv
<1>4. ASSUME listing' = listing PROVE ListingInv'
  BY <1>1, <1>4 DEF SearchInv, ListingInv, Search!NotListed
<1>5. ASSUME rows' = rows PROVE ReadInv' /\ Read' = Read
  BY <1>1, <1>5 DEF SearchInv, ReadInv, Read
<1>6. ASSUME rows' = rows, resp' = resp PROVE ScannedInv'
  BY <1>1, <1>5, <1>6 DEF SearchInv, ScannedInv
<1>7. ASSUME rows' = rows, resp' = resp, scanFull' = scanFull PROVE TotalInv'
  BY <1>1, <1>5, <1>7 DEF SearchInv, TotalInv, MatchesTo
<1> QED
  BY <1>2, <1>3, <1>4, <1>5, <1>6, <1>7

\* A row that is not searched is passed over.
LEMMA SkipRowStep ==
    ASSUME SearchInv, Search!SkipRow
    PROVE  SearchInv'
<1>1. /\ rows # <<>> /\ ~scanFull /\ rows' = Tail(rows)
      /\ index' = index /\ request' = request /\ listing' = listing
      /\ resp' = resp /\ scanFull' = scanFull /\ reply' = reply
      /\ ~Search!Admitted(Head(rows)) \/ ~Head(rows).file.readable
  BY DEF Search!SkipRow
<1>2. ReadInv /\ index \in Indexes
  BY DEF SearchInv, ReadInv
<1>3. /\ Read + 1 \in 1..Len(ScanRows) /\ Head(rows) = ScanRows[Read + 1]
      /\ Read' = Read + 1 /\ ReadInv'
  BY <1>1, <1>2, TakeRow
<1>4. Read \in Nat
  BY <1>2, ReadFacts
<1> DEFINE r == Read
<1>5. r + 1 \notin Search!Searched
  BY <1>1, <1>3 DEF Search!Searched, ScanRows
<1>6. MatchesTo(r + 1) = MatchesTo(r)
  <2>1. Len(RowMatches[r + 1]) = 0
    BY <1>2, <1>3, <1>5, MatchFacts
  <2>2. MatchesTo(r) \in Nat /\ MatchesTo(r + 1) = MatchesTo(r) + Len(RowMatches[r + 1])
    BY <1>2, <1>3, <1>4, NextRow
  <2> HIDE DEF r, MatchesTo
  <2> QED
    BY <2>1, <2>2
<1>7. RowMatches' = RowMatches /\ Search!Searched' = Search!Searched
  BY <1>1, SearchKept
<1>8. TotalInv'
  <2>1. MatchesTo(Read)' = MatchesTo(Read)
    BY <1>3, <1>6, <1>7 DEF MatchesTo
  <2> QED
    BY <1>1, <2>1 DEF SearchInv, TotalInv
<1>9. ScannedInv'
  <2>1. Cardinality({k \in Search!Searched : k <= r + 1}) = Cardinality({k \in Search!Searched : k <= r})
    BY <1>2, <1>3, <1>4, <1>5, ScannedFacts
  <2> QED
    BY <1>1, <1>3, <1>7, <2>1 DEF SearchInv, ScannedInv
<1>10. ShownInv' /\ TallyInv' /\ ListingInv'
  BY <1>1, AnswerKept
<1>11. ~reply'.done
  BY <1>1 DEF SearchInv, ReplyInv
<1> QED
  BY <1>3, <1>8, <1>9, <1>10, <1>11 DEF SearchInv

\* The first members of a sequence.
LEMMA Prefix ==
    ASSUME NEW A, NEW s \in Seq(A), NEW m \in 0..Len(s)
    PROVE  /\ SubSeq(s, 1, m) \in Seq(A) /\ Len(SubSeq(s, 1, m)) = m
           /\ \A i \in 1..m : SubSeq(s, 1, m)[i] = s[i]
<1>1. Len(s) \in Nat /\ m \in Nat
  OBVIOUS
<1>2. SubSeq(s, 1, m) = [i \in 1..m |-> s[i]]
  BY <1>1
<1>3. \A i \in 1..m : s[i] \in A
  BY <1>1
<1>4. [i \in 1..m |-> s[i]] \in Seq(A) /\ Len([i \in 1..m |-> s[i]]) = m
  BY <1>1, <1>3
<1> QED
  BY <1>2, <1>4

\* What a scanned row adds.
Row == Head(rows)
Hits == Search!Counted(Row.file.hits, resp.total)
Room == request.limit - Len(resp.matches)
Kept == SubSeq(Hits, 1, IF Room < Len(Hits) THEN Room ELSE Len(Hits))

\* A scanned row, field by field.
LEMMA ScanRowFields ==
    ASSUME Search!ScanRow
    PROVE  /\ listing.done /\ rows # <<>> /\ ~scanFull /\ rows' = Tail(rows)
           /\ Search!Admitted(Row) /\ Row.file.readable
           /\ index' = index /\ request' = request /\ listing' = listing /\ reply' = reply
           /\ scanFull' = (Len(Hits) > 0 /\ resp.total + Len(Hits) >= MatchLimit)
           /\ resp'.scanned = resp.scanned + 1 /\ resp'.total = resp.total + Len(Hits)
           /\ resp'.byFile = [resp.byFile EXCEPT ![Row.file.path] = resp.byFile[Row.file.path] + Len(Hits)]
           /\ resp'.byDir = [resp.byDir EXCEPT ![Search!Dir(Row.file.path)] =
                                resp.byDir[Search!Dir(Row.file.path)] + Len(Hits)]
           /\ resp'.files = IF Len(Hits) > 0 THEN resp.files \cup {Row.file.path} ELSE resp.files
           /\ resp'.matches = resp.matches \o [k \in DOMAIN Kept |-> Search!Match(Row, Kept[k])]
<1>1. /\ listing.done /\ rows # <<>> /\ ~scanFull /\ rows' = Tail(rows)
      /\ Search!Admitted(Row) /\ Row.file.readable
      /\ index' = index /\ request' = request /\ listing' = listing /\ reply' = reply
  BY DEF Search!ScanRow, Row
<1>2. scanFull' = (Len(Hits) > 0 /\ resp.total + Len(Hits) >= MatchLimit)
  BY DEF Search!ScanRow, Row, Hits
<1>3. resp' = [scanned |-> resp.scanned + 1, total |-> resp.total + Len(Hits),
               byFile |-> [resp.byFile EXCEPT ![Row.file.path] = resp.byFile[Row.file.path] + Len(Hits)],
               byDir |-> [resp.byDir EXCEPT ![Search!Dir(Row.file.path)] =
                             resp.byDir[Search!Dir(Row.file.path)] + Len(Hits)],
               files |-> IF Len(Hits) > 0 THEN resp.files \cup {Row.file.path} ELSE resp.files,
               matches |-> resp.matches \o [k \in DOMAIN Kept |-> Search!Match(Row, Kept[k])]]
  BY DEF Search!ScanRow, Row, Hits, Kept, Room
<1> DEFINE f == [resp.byFile EXCEPT ![Row.file.path] = resp.byFile[Row.file.path] + Len(Hits)]
           d == [resp.byDir EXCEPT ![Search!Dir(Row.file.path)] =
                             resp.byDir[Search!Dir(Row.file.path)] + Len(Hits)]
           s == IF Len(Hits) > 0 THEN resp.files \cup {Row.file.path} ELSE resp.files
           m == resp.matches \o [k \in DOMAIN Kept |-> Search!Match(Row, Kept[k])]
           c == resp.scanned + 1
           t == resp.total + Len(Hits)
<1>4. resp' = [scanned |-> c, total |-> t, byFile |-> f, byDir |-> d, files |-> s, matches |-> m]
  BY <1>3
<1> HIDE DEF f, d, s, m, c, t
<1>5. /\ resp'.scanned = c /\ resp'.total = t /\ resp'.byFile = f /\ resp'.byDir = d
      /\ resp'.files = s /\ resp'.matches = m
  BY <1>4
<1> QED
  BY <1>1, <1>2, <1>5 DEF f, d, s, m, c, t

\* The matches of a scanned row that are counted are the next of all the matches.
LEMMA ScanRowCounts ==
    ASSUME SearchInv, Search!ScanRow
    PROVE  /\ Len(Hits) \in Nat /\ Hits \in Seq(Nat) /\ resp.total \in Nat
           /\ resp.total < MatchLimit /\ MatchLimit \in Nat
           /\ Read \in Nat /\ Read + 1 \in 1..Len(ScanRows) /\ Read' = Read + 1 /\ ReadInv'
           /\ Row = ScanRows[Read + 1] /\ Row \in AllRows /\ Read + 1 \in Search!Searched
           /\ IF MatchesTo(Read + 1) <= MatchLimit
              THEN resp.total + Len(Hits) = MatchesTo(Read + 1)
              ELSE resp.total + Len(Hits) = MatchLimit
           /\ MatchesTo(Read + 1) \in Nat
           /\ \A i \in 1..Len(Hits) :
                 /\ resp.total + i \in 1..Len(Search!AllMatches)
                 /\ Search!AllMatches[resp.total + i] = Search!Match(Row, Hits[i])
<1> DEFINE t == resp.total
           hs == Row.file.hits
           r == Read
           l == Len(hs)
           n == Len(Hits)
<1>1. /\ rows # <<>> /\ ~scanFull /\ rows' = Tail(rows)
      /\ index' = index /\ request' = request
      /\ Search!Admitted(Row) /\ Row.file.readable
  BY ScanRowFields
<1>2. ReadInv /\ index \in Indexes
  BY DEF SearchInv, ReadInv
<1>3. r + 1 \in 1..Len(ScanRows) /\ Row = ScanRows[r + 1] /\ r' = r + 1 /\ ReadInv'
  BY <1>1, <1>2, TakeRow DEF Row
<1>4. r \in Nat
  BY <1>2, ReadFacts
<1>5. ScanRows \in Seq(AllRows)
  BY <1>2, ScanFacts
<1>6. Row \in AllRows /\ r + 1 \in DOMAIN ScanRows
  BY <1>3, <1>5
<1>7. hs \in Seq(Nat)
  BY <1>2, <1>6, ScanRowFacts
<1>8. r + 1 \in Search!Searched
  BY <1>1, <1>3, <1>6 DEF Search!Searched, ScanRows
<1>9. t \in Nat /\ t = MatchesTo(r) /\ t < MatchLimit
  BY <1>1 DEF SearchInv, TotalInv
<1>10. MatchLimit \in Nat
  BY SearchAssumption
<1>11. Len(RowMatches[r + 1]) = l /\ \A i \in 1..l : RowMatches[r + 1][i] = Search!Match(Row, hs[i])
  BY <1>2, <1>3, <1>8, MatchFacts
<1>12. /\ l \in Nat /\ MatchesTo(r + 1) = t + l
       /\ \A i \in 1..l : /\ t + i \in 1..Len(Search!AllMatches)
                          /\ Search!AllMatches[t + i] = RowMatches[r + 1][i]
  <2>1. /\ Len(RowMatches[r + 1]) \in Nat
        /\ MatchesTo(r + 1) = MatchesTo(r) + Len(RowMatches[r + 1])
        /\ \A i \in 1..Len(RowMatches[r + 1]) :
              /\ MatchesTo(r) + i \in 1..Len(Search!AllMatches)
              /\ Search!AllMatches[MatchesTo(r) + i] = RowMatches[r + 1][i]
    BY <1>2, <1>3, <1>4, NextRow
  <2> HIDE DEF MatchesTo, r, l, t
  <2> QED
    BY <1>9, <1>11, <2>1
<1>13. Hits = IF l + t <= MatchLimit THEN hs ELSE SubSeq(hs, 1, MatchLimit - t)
  BY DEF Hits, Search!Counted
<1> HIDE DEF MatchesTo, t, hs, r, l
<1>14. /\ n \in Nat /\ n <= l /\ Hits \in Seq(Nat)
       /\ n = IF t + l <= MatchLimit THEN l ELSE MatchLimit - t
       /\ \A i \in 1..n : Hits[i] = hs[i]
  <2>1. CASE l + t <= MatchLimit
    <3>1. Hits = hs
      BY <1>13, <2>1
    <3>2. n = l
      BY <3>1 DEF l
    <3> QED
      BY <1>7, <1>9, <1>12, <2>1, <3>1, <3>2
  <2>2. CASE ~(l + t <= MatchLimit)
    <3> DEFINE m == MatchLimit - t
    <3>1. m \in 0..l /\ m \in Nat
      BY <1>9, <1>10, <1>12, <2>2
    <3>2. Hits = SubSeq(hs, 1, m)
      BY <1>13, <2>2, Zenon
    <3> HIDE DEF m
    <3>3. Hits \in Seq(Nat) /\ n = m /\ \A i \in 1..m : Hits[i] = hs[i]
      <4>1. m \in 0..Len(hs)
        BY <3>1 DEF l
      <4> QED
        BY <1>7, <3>2, <4>1, Prefix
    <3>4. n = MatchLimit - t /\ n <= l
      BY <1>12, <3>1, <3>3 DEF m
    <3>5. ~(t + l <= MatchLimit)
      BY <1>9, <1>12, <2>2
    <3> QED
      BY <3>1, <3>3, <3>4, <3>5
  <2> QED
    BY <2>1, <2>2
<1> HIDE DEF n
<1>15. IF MatchesTo(r + 1) <= MatchLimit THEN t + n = MatchesTo(r + 1) ELSE t + n = MatchLimit
  BY <1>9, <1>10, <1>12, <1>14
<1>16. \A i \in 1..n : /\ t + i \in 1..Len(Search!AllMatches)
                       /\ Search!AllMatches[t + i] = Search!Match(Row, Hits[i])
  <2>1. \A i \in 1..n : i \in 1..l
    BY <1>12, <1>14
  <2> QED
    BY <1>11, <1>12, <1>14, <2>1
<1>17. MatchesTo(r + 1) \in Nat
  BY <1>9, <1>12
<1> QED
  BY <1>3, <1>4, <1>6, <1>8, <1>9, <1>10, <1>14, <1>15, <1>16, <1>17 DEF t, r, n

\* A scanned row keeps the count, and the scan stops when it is full.
LEMMA ScanRowTotal ==
    ASSUME SearchInv, Search!ScanRow
    PROVE  TotalInv'
<1> DEFINE t == resp.total
           n == Len(Hits)
           e == MatchesTo(Read + 1)
           M == MatchLimit
<1>1. /\ n \in Nat /\ t \in Nat /\ t < M /\ M \in Nat /\ e \in Nat
      /\ IF e <= M THEN t + n = e ELSE t + n = M
      /\ Read' = Read + 1
  BY ScanRowCounts
<1>2. /\ resp'.total = t + n /\ scanFull' = (n > 0 /\ t + n >= M)
      /\ index' = index /\ request' = request
  BY ScanRowFields
<1>3. MatchesTo(Read)' = e
  <2>1. RowMatches' = RowMatches
    BY <1>2, SearchKept
  <2> QED
    BY <1>1, <2>1 DEF MatchesTo
<1> DEFINE e1 == MatchesTo(Read)'
           t1 == resp'.total
           f1 == scanFull'
           c == n > 0 /\ t + n >= M
<1>4. e1 = e /\ t1 = t + n
  BY <1>2, <1>3
<1>5. f1 \in BOOLEAN /\ (f1 <=> c)
  <2> HIDE DEF n, t, M
  <2> QED
    BY <1>2, Zenon
<1> HIDE DEF e, e1, t, t1, n, M, f1
<1>6. /\ t1 \in Nat
      /\ c => t1 = M /\ M <= e1
      /\ ~c => t1 = e1 /\ t1 < M
  BY <1>1, <1>4
<1> HIDE DEF c
<1>7. IF f1 THEN t1 = M /\ M <= e1 ELSE t1 = e1 /\ t1 < M
  BY <1>5, <1>6, Zenon
<1> QED
  BY <1>5, <1>6, <1>7, Zenon DEF TotalInv, e1, t1, M, f1

\* The rows shown go on until there are as many as asked for.
LEMMA ScanRowShown ==
    ASSUME SearchInv, Search!ScanRow
    PROVE  ShownInv'
<1> DEFINE t == resp.total
           n == Len(Hits)
           ms == resp.matches
           m == Len(ms)
           L == request.limit
           k == IF Room < n THEN Room ELSE n
           new == [i \in DOMAIN Kept |-> Search!Match(Row, Kept[i])]
           all == Search!AllMatches
<1>1. /\ n \in Nat /\ Hits \in Seq(Nat) /\ t \in Nat /\ Row \in AllRows
      /\ \A i \in 1..n : /\ t + i \in 1..Len(all) /\ all[t + i] = Search!Match(Row, Hits[i])
  BY ScanRowCounts
<1>2. /\ resp'.total = t + n /\ resp'.matches = ms \o new
      /\ index' = index /\ request' = request
  BY ScanRowFields
<1>3. L \in Nat /\ index \in Indexes
  BY SearchAssumption DEF SearchInv, ReadInv
<1>4. ms \in Seq(MatchSet) /\ m = Search!Smaller(L, t) /\ \A i \in 1..m : ms[i] = all[i]
  BY DEF SearchInv, ShownInv
<1>5. m \in Nat /\ m = IF L < t THEN L ELSE t
  BY <1>1, <1>3, <1>4 DEF Search!Smaller
<1>6. Row.table \in TableNames /\ Row.file.path \in Nat
  BY <1>1, <1>3, ScanRowFacts
<1>7. Room = L - m /\ Kept = SubSeq(Hits, 1, k)
  BY DEF Room, Kept
<1> HIDE DEF t, n, m, L, k, ms, all
<1>8. k \in 0..n /\ m + k = (IF L < t + n THEN L ELSE t + n) /\ (k > 0 => m = t) /\ k \in Nat
  BY <1>1, <1>3, <1>5, <1>7 DEF k
<1>9. Kept \in Seq(Nat) /\ Len(Kept) = k /\ \A i \in 1..k : Kept[i] = Hits[i] /\ Kept[i] \in Nat
  <2>1. Kept \in Seq(Nat) /\ Len(Kept) = k /\ \A i \in 1..k : Kept[i] = Hits[i]
    BY <1>1, <1>7, <1>8, Prefix, Zenon DEF n
  <2> QED
    BY <2>1
<1>10. new \in [1..k -> MatchSet]
  <2>1. DOMAIN Kept = 1..k
    BY <1>9
  <2>2. \A i \in 1..k : Search!Match(Row, Kept[i]) \in MatchSet
    BY <1>6, <1>9 DEF Search!Match, MatchSet
  <2> QED
    BY <2>1, <2>2
<1>11. \A i \in 1..k : new[i] = Search!Match(Row, Hits[i])
  BY <1>9
<1> HIDE DEF new
<1>12. new \in Seq(MatchSet) /\ Len(new) = k
  BY <1>8, <1>10
<1>13. /\ ms \o new \in Seq(MatchSet) /\ Len(ms \o new) = m + k
       /\ \A i \in 1..m : (ms \o new)[i] = ms[i]
       /\ \A i \in 1..(m + k) : i \notin 1..m => (ms \o new)[i] = new[i - m] /\ i - m \in 1..k
  BY <1>4, <1>5, <1>8, <1>12 DEF m
<1>14. ASSUME NEW i \in 1..(m + k) PROVE (ms \o new)[i] = all[i]
  <2>1. CASE i \in 1..m
    BY <1>4, <1>13, <2>1
  <2>2. CASE i \notin 1..m
    <3> DEFINE j == i - m
    <3>1. j \in 1..k /\ (ms \o new)[i] = new[j]
      BY <1>13, <2>2
    <3>2. j \in 1..n /\ k > 0 /\ t + j = i
      BY <1>1, <1>5, <1>8, <3>1
    <3> HIDE DEF j
    <3>3. all[t + j] = new[j]
      BY <1>1, <1>11, <3>1, <3>2, Zenon
    <3> QED
      BY <3>1, <3>2, <3>3
  <2> QED
    BY <2>1, <2>2, Zenon
<1>15. Search!AllMatches' = all /\ request'.limit = L
  BY <1>2, SearchKept DEF all, L
<1>16. Len(resp'.matches) = Search!Smaller(request'.limit, resp'.total)
  BY <1>2, <1>8, <1>13, <1>15 DEF Search!Smaller
<1>17. \A i \in 1..Len(resp'.matches) : resp'.matches[i] = Search!AllMatches'[i]
  BY <1>2, <1>13, <1>14, <1>15
<1>18. resp'.matches \in Seq(MatchSet)
  BY <1>2, <1>13
<1> QED
  BY <1>16, <1>17, <1>18 DEF ShownInv, MatchSet, TableNames, Search!Smaller

\* A scanned row adds its matches to its file and its directory.
LEMMA ScanRowTally ==
    ASSUME SearchInv, Search!ScanRow
    PROVE  TallyInv'
<1> DEFINE t == resp.total
           n == Len(Hits)
           all == Search!AllMatches
           path == Row.file.path
           dir == Search!Dir(path)
           bf == resp.byFile
           bd == resp.byDir
           P == Search!Paths
           D == Search!Dirs
           g == [x \in Nat |-> all[x].path]
           h == [x \in Nat |-> Search!Dir(all[x].path)]
<1>1. /\ n \in Nat /\ t \in Nat /\ Row \in AllRows
      /\ \A i \in 1..n : all[t + i] = Search!Match(Row, Hits[i])
  BY ScanRowCounts
<1>2. /\ resp'.total = t + n
      /\ resp'.byFile = [bf EXCEPT ![path] = bf[path] + n]
      /\ resp'.byDir = [bd EXCEPT ![dir] = bd[dir] + n]
      /\ resp'.files = IF n > 0 THEN resp.files \cup {path} ELSE resp.files
      /\ index' = index /\ request' = request
  BY ScanRowFields
<1>3. index \in Indexes
  BY DEF SearchInv, ReadInv
<1>4. path \in P /\ dir \in D
  BY <1>1, <1>3, ScanRowFacts
<1>5. /\ bf \in [P -> Nat]
      /\ \A p \in P : bf[p] = Cardinality({x \in 1..t : all[x].path = p})
      /\ bd \in [D -> Nat]
      /\ \A d \in D : bd[d] = Cardinality({x \in 1..t : Search!Dir(all[x].path) = d})
      /\ resp.files = {all[x].path : x \in 1..t}
  BY DEF SearchInv, TallyInv
<1>6. \A i \in 1..n : all[t + i].path = path
  <2>1. \A i : Search!Match(Row, Hits[i]).path = path
    BY DEF Search!Match
  <2> HIDE DEF all, t, n, path
  <2> QED
    BY <1>1, <2>1
<1>7. /\ Search!AllMatches' = all /\ Search!Paths' = P /\ Search!Dirs' = D
      /\ \A p : Search!Dir(p)' = Search!Dir(p)
  BY <1>2, SearchKept
<1> HIDE DEF t, n, all, path, dir, bf, bd, P, D
<1>8. \A i \in 1..n : g[t + i] = path /\ h[t + i] = dir
  <2>1. \A i \in 1..n : t + i \in Nat
    BY <1>1
  <2> QED
    BY <1>6, <2>1 DEF dir
<1>9. \A m \in Nat : \A p : /\ {x \in 1..m : g[x] = p} = {x \in 1..m : all[x].path = p}
                            /\ {x \in 1..m : h[x] = p} = {x \in 1..m : Search!Dir(all[x].path) = p}
  <2>1. \A m \in Nat : \A x \in 1..m : g[x] = all[x].path /\ h[x] = Search!Dir(all[x].path)
    OBVIOUS
  <2> HIDE DEF g, h
  <2> QED
    BY <2>1
<1> HIDE DEF g, h
<1>10. t + n \in Nat
  BY <1>1
<1>11. \A p \in P : Cardinality({x \in 1..(t + n) : all[x].path = p}) = bf[p] + IF path = p THEN n ELSE 0
  <2>1. SUFFICES ASSUME NEW p \in P
                 PROVE  Cardinality({x \in 1..(t + n) : all[x].path = p}) = bf[p] + IF path = p THEN n ELSE 0
    OBVIOUS
  <2>2. CountOf(g, t + n, p) = CountOf(g, t, p) + IF path = p THEN n ELSE 0
    <3>1. Repeats(g, t, n, path)
      BY <1>8 DEF Repeats
    <3> QED
      BY <1>1, <3>1, CountAdd
  <2>3. {x \in 1..t : g[x] = p} = {x \in 1..t : all[x].path = p}
        /\ {x \in 1..(t + n) : g[x] = p} = {x \in 1..(t + n) : all[x].path = p}
    BY <1>1, <1>9, <1>10, Zenon
  <2> QED
    BY <1>5, <2>2, <2>3, Zenon DEF CountOf
<1>12. \A d \in D : Cardinality({x \in 1..(t + n) : Search!Dir(all[x].path) = d})
                        = bd[d] + IF dir = d THEN n ELSE 0
  <2>1. SUFFICES ASSUME NEW d \in D
                 PROVE  Cardinality({x \in 1..(t + n) : Search!Dir(all[x].path) = d})
                            = bd[d] + IF dir = d THEN n ELSE 0
    OBVIOUS
  <2>2. CountOf(h, t + n, d) = CountOf(h, t, d) + IF dir = d THEN n ELSE 0
    <3>1. Repeats(h, t, n, dir)
      BY <1>8 DEF Repeats
    <3> QED
      BY <1>1, <3>1, CountAdd
  <2>3. {x \in 1..t : h[x] = d} = {x \in 1..t : Search!Dir(all[x].path) = d}
        /\ {x \in 1..(t + n) : h[x] = d} = {x \in 1..(t + n) : Search!Dir(all[x].path) = d}
    BY <1>1, <1>9, <1>10
  <2> QED
    BY <1>5, <2>2, <2>3, Zenon DEF CountOf
<1>13. /\ resp'.byFile \in [P -> Nat]
       /\ \A p \in P : resp'.byFile[p] = bf[p] + IF path = p THEN n ELSE 0
  BY <1>1, <1>2, <1>4, <1>5
<1>14. /\ resp'.byDir \in [D -> Nat]
       /\ \A d \in D : resp'.byDir[d] = bd[d] + IF dir = d THEN n ELSE 0
  BY <1>1, <1>2, <1>4, <1>5
<1>15. resp'.files = {all[x].path : x \in 1..(t + n)}
  <2>1. \A x \in 1..(t + n) : x \in 1..t \/ (n > 0 /\ all[x].path = path)
    <3>1. SUFFICES ASSUME NEW x \in 1..(t + n), x \notin 1..t PROVE n > 0 /\ all[x].path = path
      OBVIOUS
    <3>2. x - t \in 1..n /\ t + (x - t) = x /\ n > 0
      BY <1>1, <3>1
    <3> QED
      BY <1>6, <3>2
  <2>2. \A x \in 1..t : x \in 1..(t + n)
    BY <1>1
  <2>3. n > 0 => t + 1 \in 1..(t + n) /\ all[t + 1].path = path
    <3>1. n > 0 => 1 \in 1..n /\ t + 1 \in 1..(t + n)
      BY <1>1
    <3> QED
      BY <1>6, <3>1
  <2> QED
    BY <1>2, <1>5, <2>1, <2>2, <2>3
<1>16. \A p \in P : resp'.byFile[p] = Cardinality({x \in 1..resp'.total : all[x].path = p})
  BY <1>2, <1>11, <1>13
<1>17. \A d \in D : resp'.byDir[d] = Cardinality({x \in 1..resp'.total : Search!Dir(all[x].path) = d})
  BY <1>2, <1>12, <1>14
<1>18. resp'.files = {all[x].path : x \in 1..resp'.total}
  BY <1>2, <1>15
<1> QED
  BY <1>7, <1>13, <1>14, <1>16, <1>17, <1>18 DEF TallyInv

\* A scanned row keeps the invariant.
LEMMA ScanRowStep ==
    ASSUME SearchInv, Search!ScanRow
    PROVE  SearchInv'
<1>1. /\ ~scanFull /\ rows # <<>> /\ resp'.scanned = resp.scanned + 1
      /\ index' = index /\ request' = request /\ listing' = listing /\ reply' = reply
  BY ScanRowFields
<1>2. ReadInv' /\ Read' = Read + 1 /\ Read \in Nat /\ Read + 1 \in 1..Len(ScanRows)
      /\ Read + 1 \in Search!Searched
  BY ScanRowCounts
<1>3. index \in Indexes
  BY DEF SearchInv, ReadInv
<1>4. ScannedInv'
  <2>1. Search!Searched' = Search!Searched
    BY <1>1, SearchKept
  <2>2. Cardinality({k \in Search!Searched : k <= Read + 1})
            = Cardinality({k \in Search!Searched : k <= Read}) + 1
    BY <1>2, <1>3, ScannedFacts, Zenon
  <2> QED
    BY <1>1, <1>2, <2>1, <2>2 DEF SearchInv, ScannedInv
<1>5. ListingInv'
  BY <1>1, AnswerKept
<1>6. ~reply'.done
  BY <1>1 DEF SearchInv, ReplyInv
<1> QED
  BY <1>2, <1>4, <1>5, <1>6, ScanRowTotal, ScanRowShown, ScanRowTally
     DEF SearchInv

-----------------------------------------------------------------------------
(* The answer.                                                             *)

\* Whatever topCounts leaves out has no more than anything it keeps.
LEMMA TopLeaves ==
    ASSUME NEW K, IsFiniteSet(K), NEW m \in [K -> Nat],
           NEW p \in K \ Search!TopCounts(m), NEW f \in Search!TopCounts(m)
    PROVE  m[p] <= m[f]
<1> DEFINE found == {k \in K : m[k] > 0}
           More(j, k) == m[j] > m[k] \/ (m[j] = m[k] /\ j < k)
           Ahead(k) == {j \in found : More(j, k)}
           Most == {k \in found : Cardinality(Ahead(k)) < MaxByFile}
<1>1. Search!TopCounts(m) = Most
  <2>1. DOMAIN m = K
    OBVIOUS
  <2> QED
    BY <2>1, SearchInstance DEF Search!TopCounts
<1>2. f \in found /\ Cardinality(Ahead(f)) < MaxByFile
  BY <1>1
<1>3. f \in K /\ m[f] \in Nat /\ m[p] \in Nat /\ p \in K
  BY <1>2
<1>4. ASSUME m[p] > m[f] PROVE FALSE
  <2>1. p \in found
    BY <1>3, <1>4
  <2>2. Ahead(p) \in SUBSET Ahead(f)
    <3>1. SUFFICES ASSUME NEW j \in found, More(j, p) PROVE More(j, f)
      OBVIOUS
    <3>2. m[j] \in Nat
      OBVIOUS
    <3>3. m[j] >= m[p]
      BY <1>3, <3>1, <3>2
    <3> QED
      BY <1>3, <1>4, <3>2, <3>3
  <2>3. IsFiniteSet(Ahead(f)) /\ IsFiniteSet(Ahead(p))
    <3>1. Ahead(f) \in SUBSET K /\ Ahead(p) \in SUBSET K
      OBVIOUS
    <3> HIDE DEF Ahead
    <3> QED
      BY <3>1, FS_Subset
  <2> HIDE DEF Ahead
  <2>4. /\ Cardinality(Ahead(p)) <= Cardinality(Ahead(f))
        /\ Cardinality(Ahead(p)) \in Nat /\ Cardinality(Ahead(f)) \in Nat
    BY <2>2, <2>3, FS_Subset, FS_CardinalityType
  <2>5. MaxByFile \in Nat
    BY SearchAssumption
  <2>6. Cardinality(Ahead(p)) < MaxByFile
    BY <1>2, <2>4, <2>5
  <2>7. p \in Most
    BY <2>1, <2>6
  <2> QED
    BY <1>1, <2>7
<1> QED
  BY <1>3, <1>4

\* There are finitely many paths and directories.
LEMMA FilesFinite ==
    ASSUME index \in Indexes
    PROVE  IsFiniteSet(Search!Paths) /\ IsFiniteSet(Search!Dirs)
<1>1. IsFiniteSet(Search!Files)
  <2>1. IsFiniteSet(index.sources) /\ IsFiniteSet(index.generated) /\ IsFiniteSet(index.external)
    BY SearchAssumption
  <2> DEFINE a == index.sources
             b == index.generated
             c == index.external
  <2> HIDE DEF a, b, c
  <2>2. IsFiniteSet(a) /\ IsFiniteSet(b) /\ IsFiniteSet(c)
    BY <2>1 DEF a, b, c
  <2>3. IsFiniteSet(a \cup b)
    BY <2>2, FS_Union, Zenon
  <2> DEFINE d == a \cup b
  <2>4. IsFiniteSet(d)
    BY <2>3
  <2> HIDE DEF d
  <2>5. IsFiniteSet(d \cup c)
    BY <2>2, <2>4, FS_Union, Zenon
  <2> QED
    BY <2>5 DEF Search!Files, a, b, c, d
<1> DEFINE g == [f \in Search!Files |-> f.path]
           h == [f \in Search!Files |-> f.dir]
<1>2. IsFiniteSet({g[f] : f \in Search!Files}) /\ IsFiniteSet({h[f] : f \in Search!Files})
  BY <1>1, FiniteImage, Zenon
<1>3. Search!Paths = {g[f] : f \in Search!Files} /\ Search!Dirs = {h[f] : f \in Search!Files}
  BY DEF Search!Paths, Search!Dirs
<1> QED
  BY <1>2, <1>3

\* Where generated files are not asked for, the rows listed are those admitted.
LEMMA ListedAdmitted ==
    ASSUME request.kind # "generated", NEW row
    PROVE  Search!Listed(row) <=> Search!Admitted(row)
BY Zenon DEF Search!Listed, Search!Admitted, Search!MatchesKind

\* As many of the rows listed are readable as rows are searched.
LEMMA ListedReadable ==
    ASSUME index \in Indexes, request.kind # "generated"
    PROVE  LET files == Selected(ListedRows, ScanRows) IN
           Cardinality({k \in DOMAIN files : files[k].file.readable}) = Cardinality(Search!Searched)
<1> DEFINE S == ListedRows
           D == Search!Searched
           files == Selected(S, ScanRows)
           n == Cardinality(S)
           g == [k \in S |-> Rank(S, k)]
           R == {r \in DOMAIN files : files[r].file.readable}
           At(r) == CHOOSE i \in S : Rank(S, i) = r
<1>1. ScanRows \in Seq(AllRows)
  BY ScanFacts
<1>2. S \in SUBSET (1..Len(ScanRows)) /\ Len(ScanRows) \in Nat
  BY <1>1 DEF ListedRows
<1>3. D = {k \in S : ScanRows[k].file.readable}
  BY ListedAdmitted DEF Search!Searched, ListedRows, ScanRows
<1> HIDE DEF S, D
<1>4. IsFiniteSet(S) /\ S \in SUBSET Nat
  <2>1. IsFiniteSet(1..Len(ScanRows))
    BY <1>2, RankInterval
  <2>2. IsFiniteSet(S)
    BY <1>2, <2>1, FS_Subset, Zenon
  <2>3. S \in SUBSET Nat
    BY <1>2
  <2> QED
    BY <2>2, <2>3
<1>5. /\ n \in Nat
      /\ \A i \in S : Rank(S, i) \in 1..n
      /\ \A i, j \in S : Rank(S, i) = Rank(S, j) => i = j
      /\ \A r \in 1..n : \E i \in S : Rank(S, i) = r
  BY <1>4, RankOnto
<1>6. files = [r \in 1..n |-> ScanRows[At(r)]]
  BY DEF Selected
<1>7. \A i \in S : At(Rank(S, i)) = i
  BY <1>5
<1> HIDE DEF At, n
<1>8. \A i \in S : files[Rank(S, i)] = ScanRows[i]
  BY <1>5, <1>6, <1>7
<1>9. DOMAIN files = 1..n
  BY <1>6
<1> HIDE DEF files
<1>10. R = {g[k] : k \in D}
  <2>1. ASSUME NEW k \in D PROVE g[k] \in R
    BY <1>3, <1>5, <1>8, <1>9
  <2>2. ASSUME NEW r \in R PROVE \E k \in D : g[k] = r
    <3>1. PICK k \in S : Rank(S, k) = r
      BY <1>5, <1>9
    <3>2. k \in D
      BY <1>3, <1>8, <3>1
    <3> QED
      BY <3>1, <3>2
  <2> HIDE DEF R, g
  <2> QED
    BY <2>1, <2>2
<1>11. IsFiniteSet(D) /\ \A j, k \in D : g[j] = g[k] => j = k
  <2>1. D \in SUBSET S
    BY <1>3
  <2>2. IsFiniteSet(D)
    BY <1>4, <2>1, FS_Subset, Zenon
  <2> QED
    BY <1>5, <2>1, <2>2
<1> HIDE DEF R, g
<1>12. Cardinality(R) = Cardinality(D)
  BY <1>10, <1>11, SameSize
<1> QED
  BY <1>12 DEF R, D, files, S

\* What is counted is a part of all the matches, and all of what is to be counted when the
\* scan is over.
LEMMA CountedPart ==
    ASSUME SearchInv
    PROVE  /\ resp.total \in Nat /\ Len(Search!AllMatches) \in Nat
           /\ resp.total <= Len(Search!AllMatches)
           /\ rows = <<>> \/ scanFull =>
                 resp.total = Search!Smaller(MatchLimit, Len(Search!AllMatches))
           /\ rows = <<>> /\ ~scanFull => resp.total = Len(Search!AllMatches)
<1> DEFINE n == Len(ScanRows)
           t == resp.total
           e == MatchesTo(Read)
           z == Len(Search!AllMatches)
           M == MatchLimit
<1>1. ReadInv /\ index \in Indexes
  BY DEF SearchInv, ReadInv
<1>2. n \in Nat /\ Read \in 0..n /\ (rows = <<>> => Read = n)
  BY <1>1, ReadFacts
<1>3. /\ z = MatchesTo(n) /\ \A k \in 0..n : MatchesTo(k) \in Nat
      /\ \A j, k \in 0..n : j <= k => MatchesTo(j) <= MatchesTo(k)
  BY <1>1, AllFacts
<1>4. n \in 0..n /\ Read <= n
  BY <1>2
<1>5. e \in Nat /\ z \in Nat /\ e <= z /\ (rows = <<>> => e = z)
  <2> HIDE DEF MatchesTo, n
  <2> QED
    BY <1>2, <1>3, <1>4
<1>6. t \in Nat /\ (scanFull => t = M /\ M <= e) /\ (~scanFull => t = e /\ t < M)
  BY DEF SearchInv, TotalInv
<1>7. M \in Nat
  BY SearchAssumption
<1> HIDE DEF e, z, M, t, n
<1>8. CASE scanFull
  BY <1>5, <1>6, <1>7, <1>8 DEF Search!Smaller, t, z, M
<1>9. CASE ~scanFull
  <2>1. t <= z /\ (rows = <<>> => t = z /\ ~(M < z))
    BY <1>5, <1>6, <1>7, <1>9
  <2> QED
    BY <1>5, <1>6, <1>9, <2>1 DEF Search!Smaller, t, z, M
<1> QED
  BY <1>8, <1>9

\* A row of the scan is known by its path, where no path is in two tables.
LEMMA KnownByPath ==
    ASSUME index \in Indexes, Search!DistinctKeys,
           NEW j \in 1..Len(ScanRows), NEW k \in 1..Len(ScanRows),
           ScanRows[j].file.path = ScanRows[k].file.path
    PROVE  j = k
<1> DEFINE a == ScanRows[j]
           b == ScanRows[k]
<1>1. ScanRows \in Seq(AllRows) /\ (ScanRows[j] = ScanRows[k] => j = k)
  BY ScanFacts DEF Once
<1>2. a \in AllRows /\ b \in AllRows
  BY <1>1
<1> HIDE DEF a, b
<1>3. /\ a.table \in TableNames /\ a.file \in index[a.table] /\ a = RowOf(a.table, a.file.path)
      /\ b.table \in TableNames /\ b.file \in index[b.table] /\ b = RowOf(b.table, b.file.path)
  BY <1>2, ScanRowFacts
<1>4. a.file.path = b.file.path
  BY DEF a, b
<1>5. /\ \A f \in index.sources, g \in index.generated : f.path # g.path
      /\ \A f \in index.external, g \in index.sources \cup index.generated : f.path # g.path
  BY SearchAssumption DEF Search!DistinctKeys
<1>6. a.table = b.table
  BY <1>3, <1>4, <1>5 DEF TableNames
<1>7. a = b
  BY <1>3, <1>4, <1>6
<1> QED
  BY <1>1, <1>7 DEF a, b

\* The paths with a match are as many as the files with one.
LEMMA FilesCounted ==
    ASSUME SearchInv, Search!DistinctKeys
    PROVE  Cardinality(resp.files) =
               Cardinality({k \in Search!Searched : \E x \in 1..resp.total :
                   /\ Search!AllMatches[x].table = ScanRows[k].table
                   /\ Search!AllMatches[x].path = ScanRows[k].file.path})
<1> DEFINE n == Len(ScanRows)
           t == resp.total
           all == Search!AllMatches
           D == Search!Searched
           g == [k \in 1..n |-> ScanRows[k].file.path]
           Hit(k) == \E x \in 1..t : all[x].table = ScanRows[k].table /\ all[x].path = ScanRows[k].file.path
           K == {k \in D : Hit(k)}
<1>1. index \in Indexes /\ resp.files = {all[x].path : x \in 1..t}
  BY DEF SearchInv, ReadInv, TallyInv
<1>2. t \in Nat /\ t <= Len(all) /\ Len(all) \in Nat
  BY CountedPart
<1>3. /\ n \in Nat /\ Len(all) = MatchesTo(n)
      /\ \A k \in 1..n : \A i \in 1..Len(RowMatches[k]) :
            all[MatchesTo(k - 1) + i] = RowMatches[k][i]
      /\ \A x \in 1..MatchesTo(n) :
            \E k \in 1..n : \E i \in 1..Len(RowMatches[k]) : x = MatchesTo(k - 1) + i
  BY <1>1, AllFacts
<1>4. D \in SUBSET (1..n)
  <2>1. ScanRows \in Seq(AllRows)
    BY <1>1, ScanFacts
  <2> QED
    BY <2>1 DEF Search!Searched, ScanRows
<1>5. \A j, k \in 1..n : g[j] = g[k] => j = k
  BY <1>1, KnownByPath
<1>6. \A k \in 1..n : /\ Len(RowMatches[k]) = IF k \in D THEN Len(ScanRows[k].file.hits) ELSE 0
                      /\ \A i \in 1..Len(RowMatches[k]) :
                            RowMatches[k][i] = Search!Match(ScanRows[k], ScanRows[k].file.hits[i])
  BY <1>1, MatchFacts
<1>7. \A k \in D : g[k] = ScanRows[k].file.path
  BY <1>4
<1> HIDE DEF n, t, all, D, g
<1>8. ASSUME NEW x \in 1..t PROVE \E k \in K : g[k] = all[x].path
  <2>1. x \in 1..MatchesTo(n)
    BY <1>2, <1>3
  <2>2. PICK k \in 1..n : \E i \in 1..Len(RowMatches[k]) : x = MatchesTo(k - 1) + i
    BY <1>3, <2>1
  <2>3. PICK i \in 1..Len(RowMatches[k]) : x = MatchesTo(k - 1) + i
    BY <2>2
  <2>4. all[x] = Search!Match(ScanRows[k], ScanRows[k].file.hits[i])
    BY <1>3, <1>6, <2>3
  <2>5. all[x].table = ScanRows[k].table /\ all[x].path = ScanRows[k].file.path
    BY <2>4 DEF Search!Match
  <2>6. k \in D
    <3>1. SUFFICES ASSUME k \notin D PROVE FALSE
      OBVIOUS
    <3>2. Len(RowMatches[k]) = 0
      BY <1>6, <3>1
    <3> QED
      BY <2>3, <3>2
  <2> QED
    BY <1>7, <2>5, <2>6
<1>9. ASSUME NEW k \in K PROVE \E x \in 1..t : g[k] = all[x].path
  BY <1>7
<1>10. {all[x].path : x \in 1..t} = {g[k] : k \in K}
  <2> HIDE DEF K
  <2> QED
    BY <1>8, <1>9
<1>11. IsFiniteSet(K) /\ \A j, k \in K : g[j] = g[k] => j = k
  <2>1. K \in SUBSET (1..n) /\ IsFiniteSet(1..n)
    BY <1>3, <1>4, RankInterval, Zenon
  <2> HIDE DEF K
  <2>2. IsFiniteSet(K)
    BY <2>1, FS_Subset, Zenon
  <2> QED
    BY <1>5, <2>1, <2>2
<1> HIDE DEF K
<1>12. Cardinality({g[k] : k \in K}) = Cardinality(K)
  BY <1>11, SameSize
<1> QED
  BY <1>1, <1>10, <1>12, Zenon DEF K, D, all, t

\* What there is to say of the matches counted when the scan is over.
LEMMA AnswerHolds ==
    ASSUME SearchInv, listing.done, rows = <<>> \/ scanFull
    PROVE  LET all == Search!AllMatches
               counted == SubSeq(all, 1, Search!Smaller(MatchLimit, Len(all)))
           IN
           /\ Len(counted) = resp.total /\ DOMAIN counted = 1..resp.total
           /\ \A x \in 1..resp.total : counted[x] = all[x]
           /\ resp.matches = SubSeq(all, 1, Search!Smaller(request.limit, Len(counted)))
           /\ request.kind # "generated" /\ ~scanFull =>
                 resp.scanned = Cardinality({k \in DOMAIN listing.files : listing.files[k].file.readable})
           /\ ~scanFull => resp.total = Len(all)
           /\ \A p \in Search!Paths :
                 resp.byFile[p] = Cardinality({k \in DOMAIN counted : counted[k].path \in {p}})
           /\ \A d \in Search!Dirs :
                 resp.byDir[d] = Cardinality({k \in DOMAIN counted : counted[k].path \in Search!InDir(d)})
           /\ Search!DistinctKeys => Cardinality(resp.files) =
                 Cardinality({k \in Search!Searched : \E j \in DOMAIN counted :
                     counted[j].table = ScanRows[k].table /\ counted[j].path = ScanRows[k].file.path})
<1> DEFINE all == Search!AllMatches
           z == Len(all)
           t == resp.total
           L == request.limit
           counted == SubSeq(all, 1, Search!Smaller(MatchLimit, z))
<1>1. /\ t \in Nat /\ z \in Nat /\ t <= z /\ t = Search!Smaller(MatchLimit, z)
      /\ (rows = <<>> /\ ~scanFull => t = z)
  BY CountedPart
<1>2. index \in Indexes /\ ReadInv
  BY DEF SearchInv, ReadInv
<1>3. all \in Seq(MatchSet)
  BY <1>2, AllFacts
<1>4. L \in Nat
  BY <1>2, SearchAssumption DEF ReadInv
<1>5. /\ resp.matches \in Seq(MatchSet) /\ Len(resp.matches) = Search!Smaller(L, t)
      /\ \A k \in 1..Len(resp.matches) : resp.matches[k] = all[k]
  BY DEF SearchInv, ShownInv
<1>6. /\ \A p \in Search!Paths : resp.byFile[p] = Cardinality({x \in 1..t : all[x].path = p})
      /\ \A d \in Search!Dirs : resp.byDir[d] = Cardinality({x \in 1..t : Search!Dir(all[x].path) = d})
      /\ resp.scanned = Cardinality({k \in Search!Searched : k <= Read})
  BY DEF SearchInv, TallyInv, ScannedInv
<1> HIDE DEF all, t, L
<1>7. t \in 0..Len(all) /\ counted = SubSeq(all, 1, t)
  BY <1>1
<1>8. counted \in Seq(MatchSet) /\ Len(counted) = t /\ \A x \in 1..t : counted[x] = all[x]
  <2> HIDE DEF counted
  <2> QED
    BY <1>3, <1>7, Prefix
<1>9. DOMAIN counted = 1..t
  <2> HIDE DEF counted
  <2> QED
    BY <1>1, <1>8
<1>10. resp.matches = SubSeq(all, 1, Search!Smaller(L, Len(counted)))
  <2> DEFINE m == Search!Smaller(L, t)
             s == SubSeq(all, 1, m)
  <2>1. m \in 0..Len(all)
    BY <1>1, <1>4 DEF Search!Smaller
  <2> HIDE DEF m
  <2>2. s \in Seq(MatchSet) /\ Len(s) = m /\ \A i \in 1..m : s[i] = all[i]
    BY <1>3, <2>1, Prefix
  <2>3. Len(resp.matches) = m
    BY <1>5 DEF m
  <2> HIDE DEF s
  <2>4. resp.matches = s
    BY <1>5, <2>2, <2>3
  <2> HIDE DEF counted
  <2> QED
    BY <1>8, <2>4 DEF s, m
<1> HIDE DEF counted
<1>11. ASSUME ~scanFull PROVE t = z /\ resp.scanned = Cardinality(Search!Searched)
  <2>1. rows = <<>>
    BY <1>11
  <2>2. Read = Len(ScanRows) /\ Len(ScanRows) \in Nat
    BY <1>2, <2>1, ReadFacts
  <2>3. \A k \in Search!Searched : k <= Len(ScanRows)
    <3>1. ScanRows \in Seq(AllRows)
      BY <1>2, ScanFacts
    <3> QED
      BY <3>1 DEF Search!Searched, ScanRows
  <2>4. {k \in Search!Searched : k <= Read} = Search!Searched
    BY <2>2, <2>3
  <2> QED
    BY <1>1, <1>6, <1>11, <2>1, <2>4
<1>12. ASSUME request.kind # "generated", ~scanFull
       PROVE  resp.scanned = Cardinality({k \in DOMAIN listing.files : listing.files[k].file.readable})
  <2>1. listing.files = Selected(ListedRows, ScanRows)
    <3>1. listing # Search!NotListed
      BY DEF Search!NotListed
    <3>2. listing = [done |-> TRUE, files |-> Selected(ListedRows, ScanRows)]
      BY <3>1 DEF SearchInv, ListingInv
    <3> QED
      BY <3>2
  <2> QED
    BY <1>2, <1>11, <1>12, <2>1, ListedReadable
<1>13. ASSUME NEW p \in Search!Paths
       PROVE  resp.byFile[p] = Cardinality({k \in DOMAIN counted : counted[k].path \in {p}})
  <2>1. {k \in DOMAIN counted : counted[k].path \in {p}} = {x \in 1..t : all[x].path = p}
    BY <1>8, <1>9
  <2> QED
    BY <1>6, <2>1
<1>14. \A x \in 1..t : all[x].path \in Search!Paths
  <2>1. ASSUME NEW x \in 1..t PROVE all[x].path \in Search!Paths
    <3> DEFINE n == Len(ScanRows)
    <3>1. /\ n \in Nat /\ Len(all) = MatchesTo(n)
          /\ \A k \in 1..n : \A i \in 1..Len(RowMatches[k]) :
                all[MatchesTo(k - 1) + i] = RowMatches[k][i]
          /\ \A y \in 1..MatchesTo(n) :
                \E k \in 1..n : \E i \in 1..Len(RowMatches[k]) : y = MatchesTo(k - 1) + i
      BY <1>2, AllFacts, Zenon DEF all
    <3>2. x \in 1..MatchesTo(n)
      BY <1>1, <3>1
    <3>3. PICK k \in 1..n : \E i \in 1..Len(RowMatches[k]) : x = MatchesTo(k - 1) + i
      BY <3>1, <3>2
    <3>4. PICK i \in 1..Len(RowMatches[k]) : x = MatchesTo(k - 1) + i
      BY <3>3
    <3>5. RowMatches[k][i] = Search!Match(ScanRows[k], ScanRows[k].file.hits[i])
      BY <1>2, <3>4, MatchFacts
    <3>6. all[x] = Search!Match(ScanRows[k], ScanRows[k].file.hits[i])
      BY <3>1, <3>4, <3>5
    <3>7. all[x].path = ScanRows[k].file.path
      BY <3>6 DEF Search!Match
    <3>8. ScanRows[k] \in AllRows
      <4>1. ScanRows \in Seq(AllRows)
        BY <1>2, ScanFacts
      <4> QED
        BY <4>1
    <3> QED
      BY <1>2, <3>7, <3>8, ScanRowFacts
  <2> QED
    BY <2>1
<1>15. ASSUME NEW d \in Search!Dirs
       PROVE  resp.byDir[d] = Cardinality({k \in DOMAIN counted : counted[k].path \in Search!InDir(d)})
  <2>1. \A x \in 1..t : all[x].path \in Search!InDir(d) <=> Search!Dir(all[x].path) = d
    BY <1>14 DEF Search!InDir
  <2>2. {k \in DOMAIN counted : counted[k].path \in Search!InDir(d)}
            = {x \in 1..t : Search!Dir(all[x].path) = d}
    BY <1>8, <1>9, <2>1
  <2> QED
    BY <1>6, <2>2
<1>16. ASSUME Search!DistinctKeys
       PROVE  Cardinality(resp.files) =
                  Cardinality({k \in Search!Searched : \E j \in DOMAIN counted :
                      counted[j].table = ScanRows[k].table /\ counted[j].path = ScanRows[k].file.path})
  <2> DEFINE H(k) == \E j \in 1..t : all[j].table = ScanRows[k].table /\ all[j].path = ScanRows[k].file.path
             G(k) == \E j \in DOMAIN counted :
                         counted[j].table = ScanRows[k].table /\ counted[j].path = ScanRows[k].file.path
  <2>1. \A k : H(k) <=> G(k)
    BY <1>8, <1>9
  <2>2. Cardinality(resp.files) = Cardinality({k \in Search!Searched : H(k)})
    BY <1>16, FilesCounted DEF all, t
  <2> HIDE DEF H, G
  <2>3. {k \in Search!Searched : H(k)} = {k \in Search!Searched : G(k)}
    BY <2>1
  <2>4. Cardinality(resp.files) = Cardinality({k \in Search!Searched : G(k)})
    BY <2>2, <2>3, Zenon
  <2> QED
    BY <2>4 DEF G
<1> QED
  BY <1>8, <1>9, <1>10, <1>11, <1>12, <1>13, <1>15, <1>16, Zenon DEF all, t, L, counted

\* What the answer says, field by field.
LEMMA ReplyFields ==
    ASSUME Search!Reply
    PROVE  /\ listing.done /\ (rows = <<>> \/ scanFull)
           /\ index' = index /\ request' = request /\ listing' = listing /\ rows' = rows
           /\ resp' = resp /\ scanFull' = scanFull
           /\ reply'.done /\ reply'.matches = resp.matches /\ reply'.total = resp.total
           /\ reply'.returned = Len(resp.matches)
           /\ reply'.filesWithMatches = Cardinality(resp.files)
           /\ reply'.byFile = [p \in Search!TopCounts(resp.byFile) |-> resp.byFile[p]]
           /\ reply'.byDir = [d \in Search!TopCounts(resp.byDir) |-> resp.byDir[d]]
           /\ reply'.truncated = (Len(resp.matches) < resp.total)
           /\ reply'.scanTruncated = scanFull /\ reply'.scanned = resp.scanned
<1>1. /\ listing.done /\ (rows = <<>> \/ scanFull)
      /\ index' = index /\ request' = request /\ listing' = listing /\ rows' = rows
      /\ resp' = resp /\ scanFull' = scanFull
  BY DEF Search!Reply
<1> DEFINE f == [p \in Search!TopCounts(resp.byFile) |-> resp.byFile[p]]
           d == [e \in Search!TopCounts(resp.byDir) |-> resp.byDir[e]]
           c == Cardinality(resp.files)
           m == resp.matches
           l == Len(resp.matches)
           t == resp.total
           u == Len(resp.matches) < resp.total
           s == resp.scanned
<1>2. reply' = [done |-> TRUE, matches |-> m, total |-> t, returned |-> l, filesWithMatches |-> c,
                byFile |-> f, byDir |-> d, truncated |-> u, scanTruncated |-> scanFull, scanned |-> s]
  BY SearchInstance, Zenon DEF Search!Reply
<1> HIDE DEF f, d, c, m, l, t, u, s
<1>3. /\ reply'.done /\ reply'.matches = m /\ reply'.total = t /\ reply'.returned = l
      /\ reply'.filesWithMatches = c /\ reply'.byFile = f /\ reply'.byDir = d
      /\ reply'.truncated = u /\ reply'.scanTruncated = scanFull /\ reply'.scanned = s
  BY <1>2
<1> QED
  BY <1>1, <1>3 DEF f, d, c, m, l, t, u, s

\* The answer keeps the invariant.
LEMMA ReplyStep ==
    ASSUME SearchInv, Search!Reply
    PROVE  SearchInv'
<1>1. /\ listing.done /\ (rows = <<>> \/ scanFull)
      /\ index' = index /\ request' = request /\ listing' = listing /\ rows' = rows
      /\ resp' = resp /\ scanFull' = scanFull
  BY ReplyFields
<1>2. ReadInv' /\ TotalInv' /\ ShownInv' /\ TallyInv' /\ ScannedInv' /\ ListingInv'
  BY <1>1, AnswerKept
<1>3. ReplyInv'
  <2>1. Search!TopCounts(resp.byFile)' = Search!TopCounts(resp.byFile)
        /\ Search!TopCounts(resp.byDir)' = Search!TopCounts(resp.byDir)
    BY <1>1 DEF Search!TopCounts
  <2> QED
    BY <1>1, <2>1, ReplyFields DEF ReplyInv
<1> QED
  BY <1>2, <1>3 DEF SearchInv

\* The answer is true of the index.
LEMMA ReplyTrue ==
    ASSUME SearchInv
    PROVE  Search!SearchIsTrue
<1> SUFFICES ASSUME reply.done PROVE Search!SearchIsTrue
  BY Zenon DEF Search!SearchIsTrue
<1> DEFINE all == Search!AllMatches
           counted == SubSeq(all, 1, Search!Smaller(MatchLimit, Len(all)))
           Path(p) == Cardinality({k \in DOMAIN counted : counted[k].path \in {p}})
           In(d) == Cardinality({k \in DOMAIN counted : counted[k].path \in Search!InDir(d)})
           Hit(k) == \E j \in DOMAIN counted :
                         counted[j].table = ScanRows[k].table /\ counted[j].path = ScanRows[k].file.path
<1>1. ReplyInv
  BY DEF SearchInv
<1>2. /\ Len(counted) = resp.total
      /\ resp.matches = SubSeq(all, 1, Search!Smaller(request.limit, Len(counted)))
      /\ request.kind # "generated" /\ ~scanFull =>
            resp.scanned = Cardinality({k \in DOMAIN listing.files : listing.files[k].file.readable})
      /\ ~scanFull => resp.total = Len(all)
      /\ \A p \in Search!Paths : resp.byFile[p] = Path(p)
      /\ \A d \in Search!Dirs : resp.byDir[d] = In(d)
      /\ Search!DistinctKeys => Cardinality(resp.files) = Cardinality({k \in Search!Searched : Hit(k)})
  BY <1>1, AnswerHolds, Zenon DEF ReplyInv
<1>3. index \in Indexes /\ resp.byFile \in [Search!Paths -> Nat] /\ resp.byDir \in [Search!Dirs -> Nat]
  BY DEF SearchInv, ReadInv, TallyInv
<1>4. IsFiniteSet(Search!Paths) /\ IsFiniteSet(Search!Dirs)
  BY <1>3, FilesFinite
<1>5. \A m : Search!TopCounts(m) \subseteq DOMAIN m
  BY DEF Search!TopCounts
<1> DEFINE F == Search!TopCounts(resp.byFile)
           E == Search!TopCounts(resp.byDir)
<1>6. F \subseteq Search!Paths /\ E \subseteq Search!Dirs
  BY <1>3, <1>5
<1>7. \A p \in Search!Paths \ F : \A f \in F : resp.byFile[p] <= resp.byFile[f]
  BY <1>3, <1>4, TopLeaves
<1>8. \A d \in Search!Dirs \ E : \A f \in E : resp.byDir[d] <= resp.byDir[f]
  BY <1>3, <1>4, TopLeaves
<1>9. \A S, ms : Search!CountIn(S, ms) = Cardinality({k \in DOMAIN ms : ms[k].path \in S})
  BY SearchInstance DEF Search!CountIn
<1>10. /\ \A p : Search!CountIn({p}, counted) = Path(p)
       /\ \A d : Search!CountIn(Search!InDir(d), counted) = In(d)
  BY <1>9, Zenon
<1> HIDE DEF Path, In, counted, all, F, E
<1>11. /\ DOMAIN reply.byFile = F /\ \A p \in F : reply.byFile[p] = resp.byFile[p] /\ resp.byFile[p] = Path(p)
       /\ DOMAIN reply.byDir = E /\ \A d \in E : reply.byDir[d] = resp.byDir[d] /\ resp.byDir[d] = In(d)
  BY <1>1, <1>2, <1>6 DEF F, E, ReplyInv
<1>12. /\ \A p \in Search!Paths \ F : \A f \in F : Path(p) <= reply.byFile[f]
       /\ \A d \in Search!Dirs \ E : \A f \in E : In(d) <= reply.byDir[f]
  BY <1>2, <1>7, <1>8, <1>11
<1>13. reply.matches = SubSeq(all, 1, Search!Smaller(request.limit, Len(counted)))
  BY <1>1, <1>2 DEF ReplyInv
<1>14. reply.total = Len(counted)
  BY <1>1, <1>2 DEF ReplyInv
<1>15. request.kind # "generated" => Search!FiltersMatchList
  <2>1. ASSUME request.kind # "generated", ~scanFull
        PROVE  resp.scanned = Search!Cardinality({k \in DOMAIN listing.files : listing.files[k].file.readable})
    BY <1>2, <2>1, SearchInstance
  <2> QED
    BY <1>1, <2>1 DEF Search!FiltersMatchList, ReplyInv
<1>16. reply.truncated <=> reply.returned < Len(counted)
  <2> DEFINE u == Len(resp.matches) < resp.total
  <2>1. reply.truncated = u
    BY <1>1 DEF ReplyInv
  <2>2. u <=> reply.returned < Len(counted)
    BY <1>1, <1>2 DEF ReplyInv
  <2> HIDE DEF u
  <2> QED
    BY <2>1, <2>2
<1>17. /\ reply.total < Len(all) => reply.scanTruncated
       /\ reply.scanTruncated =>
             reply.total = MatchLimit /\ (Len(all) # MatchLimit => reply.total < Len(all))
  <2> DEFINE z == Len(all)
             t == resp.total
  <2>1. t \in Nat /\ z \in Nat /\ t <= z
    BY <1>1, CountedPart DEF ReplyInv, all
  <2>2. ~scanFull => t = z
    BY <1>2
  <2>3. scanFull => t = MatchLimit
    BY DEF SearchInv, TotalInv
  <2>4. reply.total = t /\ reply.scanTruncated = scanFull
    BY <1>1 DEF ReplyInv
  <2> HIDE DEF z, t
  <2>5. t < z => scanFull
    BY <2>1, <2>2
  <2>6. scanFull => t = MatchLimit /\ (z # MatchLimit => t < z)
    BY <2>1, <2>3
  <2> QED
    BY <2>4, <2>5, <2>6, Zenon DEF z
<1>18. /\ \A p \in DOMAIN reply.byFile : reply.byFile[p] = Search!CountIn({p}, counted)
       /\ \A d \in DOMAIN reply.byDir : reply.byDir[d] = Search!CountIn(Search!InDir(d), counted)
  BY <1>10, <1>11
<1>19. /\ \A p \in Search!Paths \ DOMAIN reply.byFile : \A f \in DOMAIN reply.byFile :
             Search!CountIn({p}, counted) <= reply.byFile[f]
       /\ \A d \in Search!Dirs \ DOMAIN reply.byDir : \A f \in DOMAIN reply.byDir :
             Search!CountIn(Search!InDir(d), counted) <= reply.byDir[f]
  BY <1>10, <1>11, <1>12
<1>20. Search!DistinctKeys => reply.filesWithMatches = Search!Cardinality({k \in Search!Searched : Hit(k)})
  BY <1>1, <1>2, SearchInstance DEF ReplyInv
<1> QED
  BY <1>13, <1>14, <1>15, <1>16, <1>17, <1>18, <1>19, <1>20, Zenon
     DEF Search!SearchIsTrue, counted, all, ScanRows

\* Nothing changes.
LEMMA SearchStill ==
    ASSUME SearchInv, UNCHANGED search
    PROVE  SearchInv'
<1>1. UNCHANGED <<index, request, listing, rows, resp, scanFull, reply>>
  BY DEF search
<1>2. ReadInv' /\ TotalInv' /\ ShownInv' /\ TallyInv' /\ ScannedInv' /\ ListingInv'
  BY <1>1, AnswerKept
<1>3. reply'.done => ReplyInv'
  <2>1. Search!TopCounts(resp.byFile)' = Search!TopCounts(resp.byFile)
        /\ Search!TopCounts(resp.byDir)' = Search!TopCounts(resp.byDir)
    BY <1>1 DEF Search!TopCounts
  <2> QED
    BY <1>1, <2>1 DEF SearchInv, ReplyInv
<1> QED
  BY <1>2, <1>3 DEF SearchInv

\* A target without a source list is refused.
LEMMA RefuseTargetStep ==
    ASSUME SearchInv, Search!RefuseTarget
    PROVE  SearchInv'
<1>1. /\ index' = index /\ request' = request /\ listing' = listing /\ rows' = rows
      /\ resp' = resp /\ scanFull' = scanFull /\ ~reply'.done
  BY DEF Search!RefuseTarget, Search!Refusal
<1>2. ReadInv' /\ TotalInv' /\ ShownInv' /\ TallyInv' /\ ScannedInv' /\ ListingInv'
  BY <1>1, AnswerKept
<1> QED
  BY <1>1, <1>2 DEF SearchInv

\* The files are listed.
LEMMA ListSourceFilesStep ==
    ASSUME SearchInv, Search!ListSourceFiles
    PROVE  SearchInv'
<1>1. /\ listing = Search!NotListed
      /\ index' = index /\ request' = request /\ rows' = rows
      /\ resp' = resp /\ scanFull' = scanFull /\ reply' = reply
  BY DEF Search!ListSourceFiles
<1>2. ReadInv' /\ TotalInv' /\ ShownInv' /\ TallyInv' /\ ScannedInv'
  BY <1>1, AnswerKept
<1>3. listing' = [done |-> TRUE, files |-> Selected(ListedRows, ScanRows)]
  BY SearchInstance, Zenon DEF Search!ListSourceFiles, ListedRows, ScanRows
<1>4. ListingInv'
  <2>1. ScanRows' = ScanRows /\ ListedRows' = ListedRows
    BY <1>1, SearchKept
  <2> QED
    BY <1>3, <2>1 DEF ListingInv
<1>5. ~reply'.done
  <2>1. ~listing.done
    BY <1>1 DEF Search!NotListed
  <2> QED
    BY <1>1, <2>1 DEF SearchInv, ReplyInv
<1> QED
  BY <1>2, <1>4, <1>5 DEF SearchInv

\* The invariant holds when the call begins.
LEMMA SearchInitially == ToolInit => SearchIInv
<1> SUFFICES ASSUME ToolInit, tool = "search_source" PROVE SearchInv
  BY DEF SearchIInv
<1>1. Search!Init
  BY DEF ToolInit
<1>2. /\ index \in Indexes /\ request \in Searches /\ rows = ScanRows
      /\ scanFull = FALSE /\ reply = Search!NoReply /\ listing = Search!NotListed
  BY <1>1 DEF Search!Init, ScanRows
<1> DEFINE f == [p \in Search!Paths |-> 0]
           d == [e \in Search!Dirs |-> 0]
<1>3. resp = [matches |-> <<>>, files |-> {}, total |-> 0, scanned |-> 0, byFile |-> f, byDir |-> d]
  BY <1>1 DEF Search!Init
<1> HIDE DEF f, d
<1>4. /\ resp.matches = <<>> /\ resp.files = {} /\ resp.total = 0 /\ resp.scanned = 0
      /\ resp.byFile = f /\ resp.byDir = d
  BY <1>3
<1>5. ScanRows \in Seq(AllRows) /\ Len(ScanRows) \in Nat
  <2>1. ScanRows \in Seq(AllRows)
    BY <1>2, ScanFacts
  <2> QED
    BY <2>1
<1>6. Read = 0
  BY <1>2, <1>5 DEF Read
<1>7. ReadInv
  <2>1. ScanRows \in Seq({ScanRows[k] : k \in DOMAIN ScanRows})
    BY <1>5
  <2>2. \A k \in 1..Len(rows) : rows[k] = ScanRows[Read + k]
    <3>1. \A k \in 1..Len(rows) : 0 + k = k
      BY <1>2, <1>5
    <3> QED
      BY <1>2, <1>6, <3>1
  <2>3. Len(rows) <= Len(ScanRows)
    BY <1>2, <1>5
  <2> QED
    BY <1>2, <2>1, <2>2, <2>3 DEF ReadInv
<1>8. TotalInv
  <2>1. MatchesTo(0) = 0 /\ MatchLimit \in Nat \ {0}
    BY <1>2, AllFacts, SearchAssumption
  <2>2. MatchesTo(Read) = 0
    BY <1>6, <2>1
  <2> HIDE DEF MatchesTo
  <2>3. resp.total = MatchesTo(Read) /\ resp.total \in Nat /\ resp.total < MatchLimit
    BY <1>4, <2>1, <2>2
  <2> QED
    BY <1>2, <2>3, Zenon DEF TotalInv
<1>9. ShownInv
  <2>1. request.limit \in Nat
    BY <1>2, SearchAssumption
  <2> QED
    BY <1>4, <2>1 DEF ShownInv, Search!Smaller
<1>10. TallyInv
  <2>1. 1..0 = {} /\ Cardinality({}) = 0
    BY FS_EmptySet
  <2>2. \A p : {x \in 1..0 : Search!AllMatches[x].path = p} = {}
               /\ {x \in 1..0 : Search!Dir(Search!AllMatches[x].path) = p} = {}
    BY <2>1
  <2>3. f \in [Search!Paths -> Nat] /\ \A p \in Search!Paths : f[p] = 0
    BY DEF f
  <2>4. d \in [Search!Dirs -> Nat] /\ \A p \in Search!Dirs : d[p] = 0
    BY DEF d
  <2>5. {} = {Search!AllMatches[x].path : x \in 1..0}
    BY <2>1
  <2> QED
    BY <1>4, <2>1, <2>2, <2>3, <2>4, <2>5 DEF TallyInv
<1>11. ScannedInv
  <2>1. {k \in Search!Searched : k <= 0} = {}
    BY <1>5 DEF Search!Searched, ScanRows
  <2> QED
    BY <1>4, <1>6, <2>1, FS_EmptySet, Zenon DEF ScannedInv
<1>12. ListingInv
  BY <1>2 DEF ListingInv
<1>13. ~reply.done
  BY <1>2 DEF Search!NoReply
<1> QED
  BY <1>7, <1>8, <1>9, <1>10, <1>11, <1>12, <1>13 DEF SearchInv

\* Every step keeps it.
LEMMA SearchStep ==
    ASSUME SearchIInv, [ToolNext]_<<tool, vars, explain, search, drift, query>>
    PROVE  SearchIInv'
<1>1. tool' = tool
  BY DEF ToolNext, ListCallPaths, ExplainCall, SearchSource, ListSourceDrift, AskQueries
<1> SUFFICES ASSUME tool = "search_source" PROVE SearchInv'
  BY <1>1 DEF SearchIInv
<1>2. SearchInv
  BY DEF SearchIInv
<1>3. CASE SearchSource
  <2>1. CASE Search!Done
    BY <1>2, <2>1, SearchStill DEF Search!Done, Search!vars, search
  <2> QED
    BY <1>2, <1>3, <2>1, RefuseTargetStep, ListSourceFilesStep, SkipRowStep, ScanRowStep, ReplyStep
    DEF SearchSource, Search!Next
<1>4. CASE UNCHANGED <<tool, vars, explain, search, drift, query>>
  BY <1>2, <1>4, SearchStill
<1> QED
  BY <1>3, <1>4 DEF ToolNext, ListCallPaths, ExplainCall, ListSourceDrift, AskQueries

\* For every index and every arguments, what search_source answers is true of all the
\* matches: the rows are the first of them, the counts are of all that were scanned, the
\* files and directories left out have no more than those shown, the flags say what is
\* missing unless the matches just fill the scan limit, and the files searched are those list_source_files shows (source_tools.go
\* handleSearchSource, searchInBlob, topCounts).
THEOREM SearchAlwaysExact == ToolSpec => []SearchExact
<1>1. SearchIInv => SearchExact
  BY ReplyTrue DEF SearchIInv, SearchExact
<1>2. SearchIInv /\ [ToolNext]_<<tool, vars, explain, search, drift, query>> => SearchIInv'
  BY SearchStep
<1> QED
  BY <1>1, <1>2, SearchInitially, PTL DEF ToolSpec

-----------------------------------------------------------------------------
(* The query tools: pages, and rows in the order of names.                 *)

\* The operators of IndexQueries on sequences are those of the lemmas.
LEMMA QueryOperators ==
    /\ \A S : Query!Cardinality(S) = Cardinality(S)
    /\ \A S, f : Query!Selected(S, f) = Selected(S, f)
    /\ \A ss : Query!Joined(ss) = Joined(ss)
    /\ \A s : Query!ToSet(s) = {s[k] : k \in DOMAIN s}
<1>1. \A S : Query!Cardinality(S) = Cardinality(S)
  BY DEF Query!Cardinality, Cardinality
<1>2. \A S, f : Query!Selected(S, f) = Selected(S, f)
  BY DEF Query!Selected, Selected, Query!Rank, Rank, Query!Cardinality, Cardinality
<1>3. \A ss : Query!Joined(ss) = Joined(ss)
  BY Zenon DEF Query!Joined, Joined, Query!Ends, Ends
<1>4. \A s : Query!ToSet(s) = {s[k] : k \in DOMAIN s}
  BY DEF Query!ToSet
<1> QED
  BY <1>1, <1>2, <1>3, <1>4

\* The first n of a sequence.
LEMMA CutIs ==
    ASSUME NEW A, NEW s \in Seq(A), NEW n \in Nat
    PROVE  /\ Query!UpTo(s, n) \in Seq(A)
           /\ Len(Query!UpTo(s, n)) = IF Len(s) < n THEN Len(s) ELSE n
           /\ \A k \in 1..Len(Query!UpTo(s, n)) : Query!UpTo(s, n)[k] = s[k]
           /\ Len(s) <= n => Query!UpTo(s, n) = s
<1> DEFINE m == IF Len(s) < n THEN Len(s) ELSE n
           u == Query!UpTo(s, n)
<1>1. Len(s) \in Nat /\ s \in [1..Len(s) -> A]
  OBVIOUS
<1>2. m \in Nat /\ m <= Len(s)
  BY <1>1
<1>3. u = SubSeq(s, 1, m)
  BY DEF Query!UpTo
<1> HIDE DEF m, u
<1>4. u \in Seq(A) /\ Len(u) = m /\ \A k \in 1..m : u[k] = s[k]
  BY <1>1, <1>2, <1>3
<1>5. Len(s) <= n => u = s
  <2> HAVE Len(s) <= n
  <2>1. m = Len(s)
    <3>1. \A x, y \in Nat : x <= y => (IF x < y THEN x ELSE y) = x
      OBVIOUS
    <3> QED
      BY <1>1, <3>1, Zenon DEF m
  <2> QED
    BY <1>1, <1>4, <2>1
<1> QED
  BY <1>4, <1>5 DEF m, u

\* A page is the first rows, and its flag says whether there are more.
LEMMA PageIs ==
    ASSUME NEW A, NEW s \in Seq(A), NEW n \in Nat
    PROVE  /\ Query!Page(s, n).rows = Query!UpTo(s, n)
           /\ Query!Page(s, n).truncated <=> Len(s) > n
<1> DEFINE u == Query!UpTo(s, n + 1)
           v == Query!UpTo(u, n)
           w == Query!UpTo(s, n)
<1>1. n + 1 \in Nat /\ Len(s) \in Nat
  OBVIOUS
<1>2. Query!Page(s, n).rows = v /\ (Query!Page(s, n).truncated <=> Len(u) > n)
  BY Zenon DEF Query!Page
<1>3. u \in Seq(A) /\ (Len(u) = IF Len(s) < n + 1 THEN Len(s) ELSE n + 1)
        /\ \A k \in 1..Len(u) : u[k] = s[k]
  BY <1>1, CutIs
<1> HIDE DEF u
<1>4. v \in Seq(A) /\ (Len(v) = IF Len(u) < n THEN Len(u) ELSE n)
        /\ \A k \in 1..Len(v) : v[k] = u[k]
  BY <1>3, CutIs
<1>5. w \in Seq(A) /\ (Len(w) = IF Len(s) < n THEN Len(s) ELSE n)
        /\ \A k \in 1..Len(w) : w[k] = s[k]
  BY CutIs
<1> HIDE DEF v, w
<1>6. Len(u) > n <=> Len(s) > n
  BY <1>1, <1>3
<1>7. Len(v) = Len(w) /\ Len(v) <= Len(u) /\ Len(v) \in Nat
  BY <1>1, <1>3, <1>4, <1>5
<1>8. \A k \in 1..Len(v) : v[k] = w[k]
  BY <1>3, <1>4, <1>5, <1>7
<1>9. v = w
  BY <1>4, <1>5, <1>7, <1>8
<1> QED
  BY <1>2, <1>6, <1>9 DEF w

\* Symbols are sorted by their names, each once.
LEMMA SortedIs ==
    ASSUME NEW S \in SUBSET Nat, IsFiniteSet(S)
    PROVE  /\ Cardinality(S) \in Nat
           /\ Query!Sorted(S) \in Seq(S) /\ Len(Query!Sorted(S)) = Cardinality(S)
           /\ \A i \in S : \E r \in 1..Cardinality(S) : Query!Sorted(S)[r] = i
           /\ \A r, t \in 1..Cardinality(S) : r < t => Query!Sorted(S)[r] < Query!Sorted(S)[t]
<1> DEFINE f == [s \in S |-> s]
           n == Cardinality(S)
           o == Query!Sorted(S)
<1>1. o = Selected(S, f)
  BY QueryOperators DEF Query!Sorted
<1> HIDE DEF f, o
<1>2. /\ n \in Nat /\ DOMAIN Selected(S, f) = 1..n
      /\ \A i \in S : Rank(S, i) \in 1..n /\ Selected(S, f)[Rank(S, i)] = f[i]
      /\ \A r \in 1..n : \E i \in S : Rank(S, i) = r /\ Selected(S, f)[r] = f[i]
  BY SelectedAt
<1>3. /\ n \in Nat /\ DOMAIN o = 1..n
      /\ \A i \in S : Rank(S, i) \in 1..n /\ o[Rank(S, i)] = i
      /\ \A r \in 1..n : \E i \in S : Rank(S, i) = r /\ o[r] = i
  BY <1>1, <1>2 DEF f
<1>4. o = [r \in 1..n |-> o[r]]
  BY <1>1 DEF Selected
<1> HIDE DEF n
<1>5. o \in [1..n -> S]
  BY <1>3, <1>4
<1>6. o \in Seq(S) /\ Len(o) = n
  BY <1>3, <1>5
<1>7. \A r, t \in 1..n : r < t => o[r] < o[t]
  <2> SUFFICES ASSUME NEW r \in 1..n, NEW t \in 1..n, r < t
               PROVE  o[r] < o[t]
    OBVIOUS
  <2>1. o[r] \in S /\ o[t] \in S /\ Rank(S, o[r]) = r /\ Rank(S, o[t]) = t
    BY <1>3
  <2>2. o[t] < o[r] => Rank(S, o[t]) < Rank(S, o[r])
    BY <2>1, RankGrows, Zenon
  <2>3. o[r] # o[t] /\ o[r] \in Nat /\ o[t] \in Nat
    <3>1. r # t
      BY <1>3
    <3> QED
      BY <2>1, <3>1, Zenon
  <2>4. ~(o[t] < o[r])
    BY <1>3, <2>1, <2>2
  <2> QED
    BY <2>3, <2>4
<1> QED
  BY <1>3, <1>6, <1>7 DEF n, o

\* The first n of a sorted set are a page of it.
LEMMA SortedPage ==
    ASSUME NEW S \in SUBSET Nat, IsFiniteSet(S), NEW n \in Nat, NEW page,
           page.rows = Query!UpTo(Query!Sorted(S), n), page.truncated <=> Cardinality(S) > n
    PROVE  Query!PageOf(page, S, n)
<1> DEFINE o == Query!Sorted(S)
           c == Cardinality(S)
           u == Query!UpTo(o, n)
           m == IF c < n THEN c ELSE n
           P == {u[k] : k \in 1..m}
<1>1. /\ c \in Nat
      /\ o \in Seq(S) /\ Len(o) = c
      /\ \A i \in S : \E r \in 1..c : o[r] = i
      /\ \A r, t \in 1..c : r < t => o[r] < o[t]
  BY SortedIs
<1> HIDE DEF o
<1>2. /\ u \in Seq(S) /\ Len(u) = m
      /\ \A k \in 1..m : u[k] = o[k]
  BY <1>1, CutIs
<1>3. m \in Nat /\ m <= c /\ DOMAIN u = 1..m
  BY <1>1, <1>2
<1> HIDE DEF u, m, c
<1>4. \A j, k \in 1..m : u[j] = u[k] => j = k
  <2> SUFFICES ASSUME NEW j \in 1..m, NEW k \in 1..m, j < k
               PROVE  u[j] # u[k]
    BY <1>3
  <2>1. j \in 1..c /\ k \in 1..c
    BY <1>1, <1>3
  <2>2. o[j] < o[k] /\ o[j] \in S /\ o[k] \in S
    BY <1>1, <2>1
  <2>3. o[j] # o[k]
    <3>1. o[j] \in Nat /\ o[k] \in Nat
      BY <2>2, Zenon
    <3> QED
      BY <2>2, <3>1
  <2> QED
    BY <1>2, <2>3
<1>5. IsFiniteSet(1..m) /\ Cardinality(1..m) = m
  BY <1>3, RankInterval
<1>6. Cardinality({u[k] : k \in 1..m}) = m
  <2> DEFINE I == 1..m
  <2>1. IsFiniteSet(I) /\ \A j, k \in I : u[j] = u[k] => j = k
    BY <1>4, <1>5
  <2> HIDE DEF I
  <2>2. Cardinality({u[k] : k \in I}) = Cardinality(I)
    BY ONLY <2>1, SameSize
  <2> QED
    BY <1>5, <2>2 DEF I
<1>7. page.rows = u /\ Query!InPage(page) = P
  BY <1>3, QueryOperators DEF Query!InPage, u, o
<1>8. P \subseteq S
  BY <1>2, <1>3
<1>9. \A s \in P, v \in S \ P : s < v
  <2> SUFFICES ASSUME NEW k \in 1..m, NEW v \in S \ P
               PROVE  u[k] < v
    BY Zenon
  <2>1. PICK r \in 1..c : o[r] = v
    BY <1>1
  <2>2. ~(r \in 1..m)
    BY <1>2, <2>1
  <2>3. k < r /\ k \in 1..c
    BY <1>1, <1>3, <2>2
  <2>4. o[k] < o[r]
    BY <1>1, <2>3
  <2> QED
    BY <1>2, <2>1, <2>4
<1>10. \A T : Query!Cardinality(T) = Cardinality(T)
  BY QueryOperators
<1> HIDE DEF P
<1>11. Cardinality(P) = m
  BY <1>6 DEF P
<1> QED
  BY <1>2, <1>7, <1>8, <1>9, <1>10, <1>11, Zenon DEF Query!PageOf, m, c

-----------------------------------------------------------------------------
(* The query tools: what has been told.                                    *)

\* The answers about a target that is known, in the order of the questions.
FoundSymbols == Query!Page(Query!Sorted(q.match \cap Query!Reachable(q.target)), FindLimit)
SymbolsTold ==
    [s \in Query!Symbols |->
        [linkage |-> cat.linkage[s], defs |-> Query!ToSet(cat.defs[s]), targets |-> Query!TargetsOf(s)]]
LinksTold ==
    [s \in Query!Symbols |->
        IF s \in Query!Reachable(q.target)
        THEN [refused |-> FALSE, reachable |-> s \in Query!Reachable(q.target)] ELSE Query!Refused]
WeakTold ==
    [scoped \in BOOLEAN |->
        {[sym |-> s, defs |-> Query!WeakDefs(s), resolutions |-> Query!TargetsOf(s)] :
            s \in {s \in Query!Symbols : Query!IsWeak(s, scoped)}}]
UndefinedTold ==
    {[sym |-> s, calls |-> Query!Cardinality(Query!CallersIn(q.target, s))] :
        s \in {s \in Query!Symbols : Query!Undefined(s) /\ Query!CallersIn(q.target, s) # {}}}
UnreachablePage ==
    Query!Page(IF cat.kind[q.target] \in {"executable", "shared_library"}
               THEN Query!Sorted(Query!Symbols \ cat.linked[q.target]) ELSE <<>>, q.limit)
EntriesCut == Query!Distinct(Query!EntryRows(q.target), q.limit)
EntriesPage ==
    [refused |-> FALSE, rows |-> Query!UpTo(EntriesCut, q.limit), truncated |-> Len(EntriesCut) > q.limit]
FoldedTold == {g \in cat.folded : g.winner \in cat.linked[q.target]}
TargetTold ==
    [refused |-> FALSE, linked |-> Query!Cardinality(cat.linked[q.target]),
     reachable |-> Query!Cardinality(Query!Reachable(q.target)), mains |-> Query!MainFiles]
CallersTold ==
    [s \in Query!Symbols |->
        Query!Page(Query!Sorted({c \in Query!Reachable(q.target) : <<c, s>> \in cat.cgraph}), NeighborLimit)]
CalleesTold ==
    [s \in Query!Symbols |->
        Query!Page(Query!Sorted({c \in Query!Reachable(q.target) : <<s, c>> \in cat.cgraph}), NeighborLimit)]
LinkedCallersTold == [s \in Query!Symbols |-> Query!CallersIn(q.target, s)]
LinkedCalleesTold == [s \in Query!Symbols |-> {e[2] : e \in {e \in cat.objdump[q.target] : e[1] = s}}]
SitesPage ==
    Query!Page(Query!Selected({k \in DOMAIN cat.sites : cat.sites[k] \in Query!Reachable(q.target)},
                              cat.sites), q.limit)
TakenTold ==
    {[sym |-> s, targets |-> Query!TargetsOf(s)] : s \in cat.taken \cap Query!Reachable(q.target)}
InliningTold ==
    [s \in Query!Symbols |->
        LET edgeRows == Query!Page(Query!RowsOf(cat.decisions, "caller", s), q.limit)
            rest == Query!InliningOf("caller", s)
        IN  [rest |-> rest, edges |-> edgeRows.rows,
             truncated |-> rest.truncated \/ edgeRows.truncated]]
InstancesTold == [s \in Query!Symbols |-> Query!InliningOf("callee", s)]
TypesTold ==
    [kind \in Query!Kinds |->
        LET hits == Query!TypeHits(kind, q.limit)
        IN  [rows |-> Query!UpTo(hits, q.limit), truncated |-> Len(hits) > q.limit]]

AnswerList ==
    <<FoundSymbols, SymbolsTold, LinksTold, WeakTold, UndefinedTold, UnreachablePage,
      EntriesPage, FoldedTold, TargetTold, CallersTold, CalleesTold, LinkedCallersTold,
      LinkedCalleesTold, SitesPage, TakenTold, InliningTold, InstancesTold, TypesTold>>

\* A sequence, of whatever.
IsList(s) == Len(s) \in Nat /\ s = [k \in 1..Len(s) |-> s[k]]

\* Every answer so far is the one its tool gives.
ToldInv ==
    /\ cat \in Catalogs /\ q \in Questions
    /\ IsList(told)
    /\ q.target \in Query!Known => \A k \in 1..Len(told) : told[k] = AnswerList[k]

QueryIInv == tool = "queries" => ToldInv

\* The tool that is asked in the n-th place, and nowhere else.
InPlace(n, name) == Query!ToolAt(n) = name /\ \A k \in 1..18 : Query!ToolAt(k) = name => k = n

\* Where each tool stands in the dialogue.
LEMMA ToolPlaces ==
    /\ Len(Query!Dialogue) = 18 /\ DOMAIN Query!Dialogue = 1..18
    /\ InPlace(1, "find_symbol")
    /\ InPlace(2, "describe_symbol")
    /\ InPlace(3, "describe_link_resolution")
    /\ InPlace(4, "list_weak_symbols")
    /\ InPlace(5, "list_undefined_symbols")
    /\ InPlace(6, "list_unreachable_symbols")
    /\ InPlace(7, "list_entry_points")
    /\ InPlace(8, "list_icf_groups")
    /\ InPlace(9, "describe_target")
    /\ InPlace(10, "list_callers")
    /\ InPlace(11, "list_callees")
    /\ InPlace(12, "list_linked_callers")
    /\ InPlace(13, "list_linked_callees")
    /\ InPlace(14, "list_indirect_call_sites")
    /\ InPlace(15, "list_address_taken_functions")
    /\ InPlace(16, "describe_inlining")
    /\ InPlace(17, "list_inline_instances")
    /\ InPlace(18, "find_type")
<1>1. Len(Query!Dialogue) = 18 /\ DOMAIN Query!Dialogue = 1..18
  BY DEF Query!Dialogue
<1>2. InPlace(1, "find_symbol")
  BY DEF InPlace, Query!ToolAt, Query!Dialogue
<1>3. InPlace(2, "describe_symbol")
  BY DEF InPlace, Query!ToolAt, Query!Dialogue
<1>4. InPlace(3, "describe_link_resolution")
  BY DEF InPlace, Query!ToolAt, Query!Dialogue
<1>5. InPlace(4, "list_weak_symbols")
  BY DEF InPlace, Query!ToolAt, Query!Dialogue
<1>6. InPlace(5, "list_undefined_symbols")
  BY DEF InPlace, Query!ToolAt, Query!Dialogue
<1>7. InPlace(6, "list_unreachable_symbols")
  BY DEF InPlace, Query!ToolAt, Query!Dialogue
<1>8. InPlace(7, "list_entry_points")
  BY DEF InPlace, Query!ToolAt, Query!Dialogue
<1>9. InPlace(8, "list_icf_groups")
  BY DEF InPlace, Query!ToolAt, Query!Dialogue
<1>10. InPlace(9, "describe_target")
  BY DEF InPlace, Query!ToolAt, Query!Dialogue
<1>11. InPlace(10, "list_callers")
  BY DEF InPlace, Query!ToolAt, Query!Dialogue
<1>12. InPlace(11, "list_callees")
  BY DEF InPlace, Query!ToolAt, Query!Dialogue
<1>13. InPlace(12, "list_linked_callers")
  BY DEF InPlace, Query!ToolAt, Query!Dialogue
<1>14. InPlace(13, "list_linked_callees")
  BY DEF InPlace, Query!ToolAt, Query!Dialogue
<1>15. InPlace(14, "list_indirect_call_sites")
  BY DEF InPlace, Query!ToolAt, Query!Dialogue
<1>16. InPlace(15, "list_address_taken_functions")
  BY DEF InPlace, Query!ToolAt, Query!Dialogue
<1>17. InPlace(16, "describe_inlining")
  BY DEF InPlace, Query!ToolAt, Query!Dialogue
<1>18. InPlace(17, "list_inline_instances")
  BY DEF InPlace, Query!ToolAt, Query!Dialogue
<1>19. InPlace(18, "find_type")
  BY DEF InPlace, Query!ToolAt, Query!Dialogue
<1> QED
  BY <1>1, <1>2, <1>3, <1>4, <1>5, <1>6, <1>7, <1>8, <1>9, <1>10, <1>11, <1>12, <1>13, <1>14,
     <1>15, <1>16, <1>17, <1>18, <1>19, Zenon

\* Appending, without a set the members are of.
LEMMA AppendOne ==
    ASSUME NEW s, IsList(s), NEW a
    PROVE  /\ IsList(Append(s, a)) /\ Len(Append(s, a)) = Len(s) + 1
           /\ Append(s, a)[Len(s) + 1] = a
           /\ \A k \in 1..Len(s) : Append(s, a)[k] = s[k]
<1> DEFINE t == Append(s, a)
           A == {s[k] : k \in 1..Len(s)} \cup {a}
<1>1. Len(s) \in Nat /\ s \in [1..Len(s) -> A]
  BY DEF IsList
<1>2. s \in Seq(A) /\ a \in A
  BY <1>1
<1> HIDE DEF A
<1>3. /\ t \in Seq(A) /\ Len(t) = Len(s) + 1
      /\ t[Len(s) + 1] = a /\ \A k \in 1..Len(s) : t[k] = s[k]
  BY ONLY <1>2
<1> HIDE DEF t
<1>4. IsList(t)
  BY ONLY <1>3 DEF IsList
<1> QED
  BY ONLY <1>3, <1>4 DEF t

\* What the answers are made of stays as it is.
LEMMA AnswersStay ==
    ASSUME cat' = cat, q' = q
    PROVE  /\ AnswerList' = AnswerList /\ Query!Known' = Query!Known
<1>1. FoundSymbols' = FoundSymbols
  BY DEF FoundSymbols, Query!Reachable, Query!Known
<1>2. SymbolsTold' = SymbolsTold
  BY DEF SymbolsTold, Query!TargetsOf, Query!Known
<1>3. LinksTold' = LinksTold
  BY DEF LinksTold, Query!Reachable, Query!Known
<1>4. WeakTold' = WeakTold
  BY DEF WeakTold, Query!WeakDefs, Query!IsWeak, Query!TargetsOf, Query!Reachable, Query!Known
<1>5. UndefinedTold' = UndefinedTold
  BY DEF UndefinedTold, Query!Undefined, Query!CallersIn
<1>6. UnreachablePage' = UnreachablePage
  BY DEF UnreachablePage
<1>7. EntriesPage' = EntriesPage
  BY DEF EntriesPage, EntriesCut, Query!EntryRows, Query!EntrySymbols, Query!DefRows
<1>8. FoldedTold' = FoldedTold
  BY DEF FoldedTold
<1>9. TargetTold' = TargetTold
  BY DEF TargetTold, Query!MainFiles, Query!DefRows, Query!Reachable, Query!Known
<1>10. CallersTold' = CallersTold
  BY DEF CallersTold, Query!Reachable, Query!Known
<1>11. CalleesTold' = CalleesTold
  BY DEF CalleesTold, Query!Reachable, Query!Known
<1>12. LinkedCallersTold' = LinkedCallersTold
  BY DEF LinkedCallersTold, Query!CallersIn
<1>13. LinkedCalleesTold' = LinkedCalleesTold
  BY DEF LinkedCalleesTold
<1>14. SitesPage' = SitesPage
  BY DEF SitesPage, Query!Reachable, Query!Known
<1>15. TakenTold' = TakenTold
  BY DEF TakenTold, Query!TargetsOf, Query!Reachable, Query!Known
<1>16. InliningTold' = InliningTold
  BY DEF InliningTold, Query!InliningOf, Query!Summary
<1>17. InstancesTold' = InstancesTold
  BY DEF InstancesTold, Query!InliningOf, Query!Summary
<1>18. TypesTold' = TypesTold
  BY DEF TypesTold, Query!TypeHits
<1>19. Query!Known' = Query!Known
  BY DEF Query!Known
<1> QED
  BY <1>1, <1>2, <1>3, <1>4, <1>5, <1>6, <1>7, <1>8, <1>9, <1>10, <1>11, <1>12, <1>13, <1>14,
     <1>15, <1>16, <1>17, <1>18, <1>19 DEF AnswerList

\* The answers in their places.
LEMMA AnswerPlaces ==
    /\ AnswerList[1] = FoundSymbols
    /\ AnswerList[2] = SymbolsTold
    /\ AnswerList[3] = LinksTold
    /\ AnswerList[4] = WeakTold
    /\ AnswerList[5] = UndefinedTold
    /\ AnswerList[6] = UnreachablePage
    /\ AnswerList[7] = EntriesPage
    /\ AnswerList[8] = FoldedTold
    /\ AnswerList[9] = TargetTold
    /\ AnswerList[10] = CallersTold
    /\ AnswerList[11] = CalleesTold
    /\ AnswerList[12] = LinkedCallersTold
    /\ AnswerList[13] = LinkedCalleesTold
    /\ AnswerList[14] = SitesPage
    /\ AnswerList[15] = TakenTold
    /\ AnswerList[16] = InliningTold
    /\ AnswerList[17] = InstancesTold
    /\ AnswerList[18] = TypesTold
  BY DEF AnswerList

\* An answer that is its tool's is added.
LEMMA Answered ==
    ASSUME ToldInv, NEW a, Len(told) < 18, told' = Append(told, a), cat' = cat, q' = q,
           q.target \in Query!Known => a = AnswerList[Len(told) + 1]
    PROVE  ToldInv'
<1>1. /\ IsList(told') /\ Len(told') = Len(told) + 1 /\ told'[Len(told) + 1] = a
      /\ \A k \in 1..Len(told) : told'[k] = told[k]
  <2>1. /\ IsList(Append(told, a)) /\ Len(Append(told, a)) = Len(told) + 1
        /\ Append(told, a)[Len(told) + 1] = a
        /\ \A k \in 1..Len(told) : Append(told, a)[k] = told[k]
    BY AppendOne, Zenon DEF ToldInv
  <2> QED
    BY <2>1, Zenon
<1>2. AnswerList' = AnswerList /\ Query!Known' = Query!Known
  BY AnswersStay
<1>3. Len(told) \in Nat /\ cat \in Catalogs /\ q \in Questions
  BY DEF ToldInv, IsList
<1>4. ASSUME q.target \in Query!Known
      PROVE  \A k \in 1..Len(told') : told'[k] = AnswerList[k]
  <2>1. \A k \in 1..Len(told) : told[k] = AnswerList[k]
    BY <1>4 DEF ToldInv
  <2>2. \A k \in 1..Len(told) + 1 : k \in 1..Len(told) \/ k = Len(told) + 1
    BY <1>3
  <2>3. a = AnswerList[Len(told) + 1]
    BY <1>4
  <2> QED
    BY ONLY <1>1, <2>1, <2>2, <2>3
<1>5. q'.target = q.target
  OBVIOUS
<1> QED
  BY ONLY <1>1, <1>2, <1>3, <1>4, <1>5, cat' = cat, q' = q DEF ToldInv

\* A question is asked in its place.
LEMMA Asked ==
    ASSUME ToldInv, NEW name, NEW a, Query!Tell(name, a), NEW n \in 1..18, InPlace(n, name),
           q.target \in Query!Known => a = AnswerList[n]
    PROVE  ToldInv'
<1>1. /\ Len(told) < 18 /\ Query!ToolAt(Len(told) + 1) = name /\ told' = Append(told, a)
      /\ cat' = cat /\ q' = q
  BY ToolPlaces DEF Query!Tell
<1>2. Len(told) \in Nat
  BY DEF ToldInv, IsList
<1>3. Len(told) + 1 \in 1..18
  <2>1. \A l \in Nat : l < 18 => l + 1 \in 1..18
    OBVIOUS
  <2> QED
    BY ONLY <1>1, <1>2, <2>1, Zenon
<1>4. Len(told) + 1 = n
  BY <1>1, <1>3, Zenon DEF InPlace
<1> QED
  BY <1>1, <1>4, Answered

\* find_symbol answers.
LEMMA FindSymbolStep ==
    ASSUME ToldInv, Query!FindSymbol
    PROVE  ToldInv'
<1> DEFINE a == FoundSymbols
<1>1. Query!Tell("find_symbol", a)
  BY DEF Query!FindSymbol, FoundSymbols
<1> HIDE DEF a
<1>2. q.target \in Query!Known => a = AnswerList[1]
  BY AnswerPlaces DEF a
<1>3. 1 \in 1..18 /\ InPlace(1, "find_symbol")
  BY ToolPlaces
<1> QED
  BY <1>1, <1>2, <1>3, Asked

\* describe_symbol answers.
LEMMA DescribeSymbolStep ==
    ASSUME ToldInv, Query!DescribeSymbol
    PROVE  ToldInv'
<1> DEFINE a == SymbolsTold
<1>1. Query!Tell("describe_symbol", a)
  BY DEF Query!DescribeSymbol, SymbolsTold
<1> HIDE DEF a
<1>2. q.target \in Query!Known => a = AnswerList[2]
  BY AnswerPlaces DEF a
<1>3. 2 \in 1..18 /\ InPlace(2, "describe_symbol")
  BY ToolPlaces
<1> QED
  BY <1>1, <1>2, <1>3, Asked

\* describe_link_resolution answers.
LEMMA DescribeLinkResolutionStep ==
    ASSUME ToldInv, Query!DescribeLinkResolution
    PROVE  ToldInv'
<1> DEFINE a == IF q.target \in Query!Known THEN LinksTold ELSE Query!Refused
<1>1. Query!Tell("describe_link_resolution", a)
  BY DEF Query!DescribeLinkResolution, Query!TellAbout, LinksTold
<1> HIDE DEF a
<1>2. q.target \in Query!Known => a = AnswerList[3]
  BY AnswerPlaces DEF a
<1>3. 3 \in 1..18 /\ InPlace(3, "describe_link_resolution")
  BY ToolPlaces
<1> QED
  BY <1>1, <1>2, <1>3, Asked

\* list_weak_symbols answers.
LEMMA ListWeakSymbolsStep ==
    ASSUME ToldInv, Query!ListWeakSymbols
    PROVE  ToldInv'
<1> DEFINE a == WeakTold
<1>1. Query!Tell("list_weak_symbols", a)
  BY DEF Query!ListWeakSymbols, WeakTold
<1> HIDE DEF a
<1>2. q.target \in Query!Known => a = AnswerList[4]
  BY AnswerPlaces DEF a
<1>3. 4 \in 1..18 /\ InPlace(4, "list_weak_symbols")
  BY ToolPlaces
<1> QED
  BY <1>1, <1>2, <1>3, Asked

\* list_undefined_symbols answers.
LEMMA ListUndefinedSymbolsStep ==
    ASSUME ToldInv, Query!ListUndefinedSymbols
    PROVE  ToldInv'
<1> DEFINE a == IF q.target \in Query!Known THEN UndefinedTold ELSE Query!Refused
<1>1. Query!Tell("list_undefined_symbols", a)
  BY DEF Query!ListUndefinedSymbols, Query!TellAbout, UndefinedTold
<1> HIDE DEF a
<1>2. q.target \in Query!Known => a = AnswerList[5]
  BY AnswerPlaces DEF a
<1>3. 5 \in 1..18 /\ InPlace(5, "list_undefined_symbols")
  BY ToolPlaces
<1> QED
  BY <1>1, <1>2, <1>3, Asked

\* list_unreachable_symbols answers.
LEMMA ListUnreachableSymbolsStep ==
    ASSUME ToldInv, Query!ListUnreachableSymbols
    PROVE  ToldInv'
<1> DEFINE a == IF q.target \in Query!Known THEN UnreachablePage ELSE Query!Refused
<1>1. Query!Tell("list_unreachable_symbols", a)
  BY DEF Query!ListUnreachableSymbols, Query!TellAbout, UnreachablePage
<1> HIDE DEF a
<1>2. q.target \in Query!Known => a = AnswerList[6]
  BY AnswerPlaces DEF a
<1>3. 6 \in 1..18 /\ InPlace(6, "list_unreachable_symbols")
  BY ToolPlaces
<1> QED
  BY <1>1, <1>2, <1>3, Asked

\* list_entry_points answers.
LEMMA ListEntryPointsStep ==
    ASSUME ToldInv, Query!ListEntryPoints
    PROVE  ToldInv'
<1> DEFINE a == IF q.target \in Query!Known THEN EntriesPage ELSE Query!Refused
<1>1. Query!Tell("list_entry_points", a)
  BY DEF Query!ListEntryPoints, Query!TellAbout, EntriesPage, EntriesCut
<1> HIDE DEF a
<1>2. q.target \in Query!Known => a = AnswerList[7]
  BY AnswerPlaces DEF a
<1>3. 7 \in 1..18 /\ InPlace(7, "list_entry_points")
  BY ToolPlaces
<1> QED
  BY <1>1, <1>2, <1>3, Asked

\* list_icf_groups answers.
LEMMA ListICFGroupsStep ==
    ASSUME ToldInv, Query!ListICFGroups
    PROVE  ToldInv'
<1> DEFINE a == IF q.target \in Query!Known THEN FoldedTold ELSE Query!Refused
<1>1. Query!Tell("list_icf_groups", a)
  BY DEF Query!ListICFGroups, Query!TellAbout, FoldedTold
<1> HIDE DEF a
<1>2. q.target \in Query!Known => a = AnswerList[8]
  BY AnswerPlaces DEF a
<1>3. 8 \in 1..18 /\ InPlace(8, "list_icf_groups")
  BY ToolPlaces
<1> QED
  BY <1>1, <1>2, <1>3, Asked

\* describe_target answers.
LEMMA DescribeTargetStep ==
    ASSUME ToldInv, Query!DescribeTarget
    PROVE  ToldInv'
<1> DEFINE a == IF q.target \in Query!Known THEN TargetTold ELSE Query!Refused
<1>1. Query!Tell("describe_target", a)
  BY DEF Query!DescribeTarget, Query!TellAbout, TargetTold
<1> HIDE DEF a
<1>2. q.target \in Query!Known => a = AnswerList[9]
  BY AnswerPlaces DEF a
<1>3. 9 \in 1..18 /\ InPlace(9, "describe_target")
  BY ToolPlaces
<1> QED
  BY <1>1, <1>2, <1>3, Asked

\* list_callers answers.
LEMMA ListCallersStep ==
    ASSUME ToldInv, Query!ListCallers
    PROVE  ToldInv'
<1> DEFINE a == CallersTold
<1>1. Query!Tell("list_callers", a)
  BY DEF Query!ListCallers, CallersTold
<1> HIDE DEF a
<1>2. q.target \in Query!Known => a = AnswerList[10]
  BY AnswerPlaces DEF a
<1>3. 10 \in 1..18 /\ InPlace(10, "list_callers")
  BY ToolPlaces
<1> QED
  BY <1>1, <1>2, <1>3, Asked

\* list_callees answers.
LEMMA ListCalleesStep ==
    ASSUME ToldInv, Query!ListCallees
    PROVE  ToldInv'
<1> DEFINE a == CalleesTold
<1>1. Query!Tell("list_callees", a)
  BY DEF Query!ListCallees, CalleesTold
<1> HIDE DEF a
<1>2. q.target \in Query!Known => a = AnswerList[11]
  BY AnswerPlaces DEF a
<1>3. 11 \in 1..18 /\ InPlace(11, "list_callees")
  BY ToolPlaces
<1> QED
  BY <1>1, <1>2, <1>3, Asked

\* list_linked_callers answers.
LEMMA ListLinkedCallersStep ==
    ASSUME ToldInv, Query!ListLinkedCallers
    PROVE  ToldInv'
<1> DEFINE a == IF q.target \in Query!Known THEN LinkedCallersTold ELSE Query!Refused
<1>1. Query!Tell("list_linked_callers", a)
  BY DEF Query!ListLinkedCallers, Query!TellAbout, LinkedCallersTold
<1> HIDE DEF a
<1>2. q.target \in Query!Known => a = AnswerList[12]
  BY AnswerPlaces DEF a
<1>3. 12 \in 1..18 /\ InPlace(12, "list_linked_callers")
  BY ToolPlaces
<1> QED
  BY <1>1, <1>2, <1>3, Asked

\* list_linked_callees answers.
LEMMA ListLinkedCalleesStep ==
    ASSUME ToldInv, Query!ListLinkedCallees
    PROVE  ToldInv'
<1> DEFINE a == IF q.target \in Query!Known THEN LinkedCalleesTold ELSE Query!Refused
<1>1. Query!Tell("list_linked_callees", a)
  BY DEF Query!ListLinkedCallees, Query!TellAbout, LinkedCalleesTold
<1> HIDE DEF a
<1>2. q.target \in Query!Known => a = AnswerList[13]
  BY AnswerPlaces DEF a
<1>3. 13 \in 1..18 /\ InPlace(13, "list_linked_callees")
  BY ToolPlaces
<1> QED
  BY <1>1, <1>2, <1>3, Asked

\* list_indirect_call_sites answers.
LEMMA ListIndirectCallSitesStep ==
    ASSUME ToldInv, Query!ListIndirectCallSites
    PROVE  ToldInv'
<1> DEFINE a == SitesPage
<1>1. Query!Tell("list_indirect_call_sites", a)
  BY DEF Query!ListIndirectCallSites, SitesPage
<1> HIDE DEF a
<1>2. q.target \in Query!Known => a = AnswerList[14]
  BY AnswerPlaces DEF a
<1>3. 14 \in 1..18 /\ InPlace(14, "list_indirect_call_sites")
  BY ToolPlaces
<1> QED
  BY <1>1, <1>2, <1>3, Asked

\* list_address_taken_functions answers.
LEMMA ListAddressTakenFunctionsStep ==
    ASSUME ToldInv, Query!ListAddressTakenFunctions
    PROVE  ToldInv'
<1> DEFINE a == TakenTold
<1>1. Query!Tell("list_address_taken_functions", a)
  BY DEF Query!ListAddressTakenFunctions, TakenTold
<1> HIDE DEF a
<1>2. q.target \in Query!Known => a = AnswerList[15]
  BY AnswerPlaces DEF a
<1>3. 15 \in 1..18 /\ InPlace(15, "list_address_taken_functions")
  BY ToolPlaces
<1> QED
  BY <1>1, <1>2, <1>3, Asked

\* describe_inlining answers.
LEMMA DescribeInliningStep ==
    ASSUME ToldInv, Query!DescribeInlining
    PROVE  ToldInv'
<1> DEFINE a == InliningTold
<1>1. Query!Tell("describe_inlining", a)
  BY DEF Query!DescribeInlining, InliningTold
<1> HIDE DEF a
<1>2. q.target \in Query!Known => a = AnswerList[16]
  BY AnswerPlaces DEF a
<1>3. 16 \in 1..18 /\ InPlace(16, "describe_inlining")
  BY ToolPlaces
<1> QED
  BY <1>1, <1>2, <1>3, Asked

\* list_inline_instances answers.
LEMMA ListInlineInstancesStep ==
    ASSUME ToldInv, Query!ListInlineInstances
    PROVE  ToldInv'
<1> DEFINE a == InstancesTold
<1>1. Query!Tell("list_inline_instances", a)
  BY DEF Query!ListInlineInstances, InstancesTold
<1> HIDE DEF a
<1>2. q.target \in Query!Known => a = AnswerList[17]
  BY AnswerPlaces DEF a
<1>3. 17 \in 1..18 /\ InPlace(17, "list_inline_instances")
  BY ToolPlaces
<1> QED
  BY <1>1, <1>2, <1>3, Asked

\* find_type answers.
LEMMA FindTypeStep ==
    ASSUME ToldInv, Query!FindType
    PROVE  ToldInv'
<1> DEFINE a == TypesTold
<1>1. Query!Tell("find_type", a)
  BY DEF Query!FindType, TypesTold
<1> HIDE DEF a
<1>2. q.target \in Query!Known => a = AnswerList[18]
  BY AnswerPlaces DEF a
<1>3. 18 \in 1..18 /\ InPlace(18, "find_type")
  BY ToolPlaces
<1> QED
  BY <1>1, <1>2, <1>3, Asked

\* No question was asked.
LEMMA QueryStill ==
    ASSUME ToldInv, UNCHANGED query
    PROVE  ToldInv'
<1>1. cat' = cat /\ q' = q /\ told' = told
  BY DEF query
<1>2. AnswerList' = AnswerList /\ Query!Known' = Query!Known
  BY <1>1, AnswersStay
<1> QED
  BY <1>1, <1>2 DEF ToldInv

\* No answer was given.
LEMMA QueryInitially == ToolInit => QueryIInv
<1> SUFFICES ASSUME ToolInit, tool = "queries"
             PROVE  ToldInv
  BY DEF QueryIInv
<1>1. cat \in Catalogs /\ q \in Questions /\ told = <<>>
  BY DEF ToolInit, Query!Init
<1>2. Len(told) = 0 /\ IsList(told)
  BY <1>1 DEF IsList
<1> QED
  BY <1>1, <1>2 DEF ToldInv

\* Every step keeps what was told, and adds the tool's own answer.
LEMMA ToldStep ==
    ASSUME QueryIInv, [ToolNext]_<<tool, vars, explain, search, drift, query>>
    PROVE  QueryIInv'
<1>1. tool' = tool
  BY DEF ToolNext, ListCallPaths, ExplainCall, SearchSource, ListSourceDrift, AskQueries
<1> SUFFICES ASSUME tool = "queries"
             PROVE  ToldInv'
  BY <1>1 DEF QueryIInv
<1>2. ToldInv
  BY DEF QueryIInv
<1>3. CASE AskQueries
  <2>1. CASE Query!Done
    BY <1>2, <2>1, QueryStill DEF Query!Done, Query!vars, query
  <2> QED
    BY <1>2, <1>3, <2>1, FindSymbolStep, DescribeSymbolStep, DescribeLinkResolutionStep, ListWeakSymbolsStep,
       ListUndefinedSymbolsStep, ListUnreachableSymbolsStep, ListEntryPointsStep,
       ListICFGroupsStep, DescribeTargetStep, ListCallersStep, ListCalleesStep,
       ListLinkedCallersStep, ListLinkedCalleesStep, ListIndirectCallSitesStep,
       ListAddressTakenFunctionsStep, DescribeInliningStep, ListInlineInstancesStep,
       FindTypeStep
    DEF AskQueries, Query!Next
<1>4. CASE UNCHANGED <<tool, vars, explain, search, drift, query>>
  BY <1>2, <1>4, QueryStill
<1> QED
  BY <1>3, <1>4 DEF ToolNext, ListCallPaths, ExplainCall, SearchSource, ListSourceDrift

\* What the agent has been told in the end.
LEMMA ToldAll ==
    ASSUME ToldInv, Len(told) = 18, q.target \in Query!Known
    PROVE  /\ Query!Told("find_symbol") = FoundSymbols
           /\ Query!Told("describe_symbol") = SymbolsTold
           /\ Query!Told("describe_link_resolution") = LinksTold
           /\ Query!Told("list_weak_symbols") = WeakTold
           /\ Query!Told("list_undefined_symbols") = UndefinedTold
           /\ Query!Told("list_unreachable_symbols") = UnreachablePage
           /\ Query!Told("list_entry_points") = EntriesPage
           /\ Query!Told("list_icf_groups") = FoldedTold
           /\ Query!Told("describe_target") = TargetTold
           /\ Query!Told("list_callers") = CallersTold
           /\ Query!Told("list_callees") = CalleesTold
           /\ Query!Told("list_linked_callers") = LinkedCallersTold
           /\ Query!Told("list_linked_callees") = LinkedCalleesTold
           /\ Query!Told("list_indirect_call_sites") = SitesPage
           /\ Query!Told("list_address_taken_functions") = TakenTold
           /\ Query!Told("describe_inlining") = InliningTold
           /\ Query!Told("list_inline_instances") = InstancesTold
           /\ Query!Told("find_type") = TypesTold
<1>1. ASSUME NEW name, NEW n \in 1..18, InPlace(n, name)
      PROVE  Query!Told(name) = AnswerList[n]
  <2> DEFINE c == CHOOSE k \in DOMAIN Query!Dialogue : Query!ToolAt(k) = name
  <2>1. DOMAIN Query!Dialogue = 1..18
    BY ToolPlaces
  <2>2. c \in 1..18 /\ Query!ToolAt(c) = name
    BY <1>1, <2>1 DEF InPlace
  <2>3. c = n
    BY <1>1, <2>2 DEF InPlace
  <2>4. Query!Told(name) = told[c]
    BY DEF Query!Told
  <2> HIDE DEF c
  <2> QED
    BY <2>3, <2>4 DEF ToldInv
<1>2. Query!Told("find_symbol") = FoundSymbols
  <2>1. 1 \in 1..18
    OBVIOUS
  <2>2. InPlace(1, "find_symbol")
    BY ToolPlaces, Zenon
  <2> QED
    BY <1>1, <2>1, <2>2, AnswerPlaces
<1>3. Query!Told("describe_symbol") = SymbolsTold
  <2>1. 2 \in 1..18
    OBVIOUS
  <2>2. InPlace(2, "describe_symbol")
    BY ToolPlaces, Zenon
  <2> QED
    BY <1>1, <2>1, <2>2, AnswerPlaces
<1>4. Query!Told("describe_link_resolution") = LinksTold
  <2>1. 3 \in 1..18
    OBVIOUS
  <2>2. InPlace(3, "describe_link_resolution")
    BY ToolPlaces, Zenon
  <2> QED
    BY <1>1, <2>1, <2>2, AnswerPlaces
<1>5. Query!Told("list_weak_symbols") = WeakTold
  <2>1. 4 \in 1..18
    OBVIOUS
  <2>2. InPlace(4, "list_weak_symbols")
    BY ToolPlaces, Zenon
  <2> QED
    BY <1>1, <2>1, <2>2, AnswerPlaces
<1>6. Query!Told("list_undefined_symbols") = UndefinedTold
  <2>1. 5 \in 1..18
    OBVIOUS
  <2>2. InPlace(5, "list_undefined_symbols")
    BY ToolPlaces, Zenon
  <2> QED
    BY <1>1, <2>1, <2>2, AnswerPlaces
<1>7. Query!Told("list_unreachable_symbols") = UnreachablePage
  <2>1. 6 \in 1..18
    OBVIOUS
  <2>2. InPlace(6, "list_unreachable_symbols")
    BY ToolPlaces, Zenon
  <2> QED
    BY <1>1, <2>1, <2>2, AnswerPlaces
<1>8. Query!Told("list_entry_points") = EntriesPage
  <2>1. 7 \in 1..18
    OBVIOUS
  <2>2. InPlace(7, "list_entry_points")
    BY ToolPlaces, Zenon
  <2> QED
    BY <1>1, <2>1, <2>2, AnswerPlaces
<1>9. Query!Told("list_icf_groups") = FoldedTold
  <2>1. 8 \in 1..18
    OBVIOUS
  <2>2. InPlace(8, "list_icf_groups")
    BY ToolPlaces, Zenon
  <2> QED
    BY <1>1, <2>1, <2>2, AnswerPlaces
<1>10. Query!Told("describe_target") = TargetTold
  <2>1. 9 \in 1..18
    OBVIOUS
  <2>2. InPlace(9, "describe_target")
    BY ToolPlaces, Zenon
  <2> QED
    BY <1>1, <2>1, <2>2, AnswerPlaces
<1>11. Query!Told("list_callers") = CallersTold
  <2>1. 10 \in 1..18
    OBVIOUS
  <2>2. InPlace(10, "list_callers")
    BY ToolPlaces, Zenon
  <2> QED
    BY <1>1, <2>1, <2>2, AnswerPlaces
<1>12. Query!Told("list_callees") = CalleesTold
  <2>1. 11 \in 1..18
    OBVIOUS
  <2>2. InPlace(11, "list_callees")
    BY ToolPlaces, Zenon
  <2> QED
    BY <1>1, <2>1, <2>2, AnswerPlaces
<1>13. Query!Told("list_linked_callers") = LinkedCallersTold
  <2>1. 12 \in 1..18
    OBVIOUS
  <2>2. InPlace(12, "list_linked_callers")
    BY ToolPlaces, Zenon
  <2> QED
    BY <1>1, <2>1, <2>2, AnswerPlaces
<1>14. Query!Told("list_linked_callees") = LinkedCalleesTold
  <2>1. 13 \in 1..18
    OBVIOUS
  <2>2. InPlace(13, "list_linked_callees")
    BY ToolPlaces, Zenon
  <2> QED
    BY <1>1, <2>1, <2>2, AnswerPlaces
<1>15. Query!Told("list_indirect_call_sites") = SitesPage
  <2>1. 14 \in 1..18
    OBVIOUS
  <2>2. InPlace(14, "list_indirect_call_sites")
    BY ToolPlaces, Zenon
  <2> QED
    BY <1>1, <2>1, <2>2, AnswerPlaces
<1>16. Query!Told("list_address_taken_functions") = TakenTold
  <2>1. 15 \in 1..18
    OBVIOUS
  <2>2. InPlace(15, "list_address_taken_functions")
    BY ToolPlaces, Zenon
  <2> QED
    BY <1>1, <2>1, <2>2, AnswerPlaces
<1>17. Query!Told("describe_inlining") = InliningTold
  <2>1. 16 \in 1..18
    OBVIOUS
  <2>2. InPlace(16, "describe_inlining")
    BY ToolPlaces, Zenon
  <2> QED
    BY <1>1, <2>1, <2>2, AnswerPlaces
<1>18. Query!Told("list_inline_instances") = InstancesTold
  <2>1. 17 \in 1..18
    OBVIOUS
  <2>2. InPlace(17, "list_inline_instances")
    BY ToolPlaces, Zenon
  <2> QED
    BY <1>1, <2>1, <2>2, AnswerPlaces
<1>19. Query!Told("find_type") = TypesTold
  <2>1. 18 \in 1..18
    OBVIOUS
  <2>2. InPlace(18, "find_type")
    BY ToolPlaces, Zenon
  <2> QED
    BY <1>1, <2>1, <2>2, AnswerPlaces
<1> QED
  BY <1>2, <1>3, <1>4, <1>5, <1>6, <1>7, <1>8, <1>9, <1>10, <1>11, <1>12, <1>13, <1>14,
     <1>15, <1>16, <1>17, <1>18, <1>19, Zenon

-----------------------------------------------------------------------------
(* The query tools: why the answers agree.                                 *)

\* The symbols of the target asked about.
Here == cat.linked[q.target]
KnownTarget == cat \in Catalogs /\ q \in Questions /\ q.target \in Query!Known

\* What is known of the index and of the questions.
LEMMA QueryFacts ==
    ASSUME KnownTarget
    PROVE  /\ NameCount \in Nat /\ Query!Symbols = 1..NameCount /\ IsFiniteSet(Query!Symbols)
           /\ Here \subseteq Query!Symbols /\ Query!Reachable(q.target) = Here
           /\ q.limit \in Nat /\ q.limit > 0 /\ FindLimit \in Nat /\ NeighborLimit \in Nat
           /\ \A s : q.target \in Query!TargetsOf(s) <=> s \in Here
<1>1. NameCount \in Nat /\ Query!Symbols = 1..NameCount
  BY QueryAssumption DEF Query!Symbols
<1>2. IsFiniteSet(1..NameCount)
  BY <1>1, RankInterval
<1>3. q.target \in DOMAIN cat.kind
  BY DEF KnownTarget, Query!Known
<1>4. Here \subseteq 1..NameCount
  BY <1>3, QueryAssumption DEF KnownTarget, Here
<1>5. q.limit \in Nat \ {0} /\ FindLimit \in Nat /\ NeighborLimit \in Nat
  BY QueryAssumption DEF KnownTarget
<1>6. Query!Reachable(q.target) = Here /\ \A s : q.target \in Query!TargetsOf(s) <=> s \in Here
  BY <1>3 DEF Query!Reachable, Query!TargetsOf, Query!Known, Here
<1> QED
  BY <1>1, <1>2, <1>4, <1>5, <1>6

\* Sets of symbols are sets to sort.
LEMMA SymbolSets ==
    ASSUME KnownTarget, NEW S \in SUBSET Query!Symbols
    PROVE  S \in SUBSET Nat /\ IsFiniteSet(S)
<1>1. NameCount \in Nat /\ Query!Symbols = 1..NameCount /\ IsFiniteSet(Query!Symbols)
  BY QueryFacts
<1>2. IsFiniteSet(S)
  BY <1>1, FS_Subset, Zenon
<1>3. 1..NameCount \subseteq Nat
  BY <1>1
<1> QED
  BY <1>1, <1>2, <1>3

\* The page of a set of symbols.
LEMMA SymbolPage ==
    ASSUME KnownTarget, NEW S \in SUBSET Query!Symbols, NEW n \in Nat
    PROVE  /\ Query!PageOf(Query!Page(Query!Sorted(S), n), S, n)
           /\ ~Query!Page(Query!Sorted(S), n).truncated => Query!InPage(Query!Page(Query!Sorted(S), n)) = S
<1> DEFINE p == Query!Page(Query!Sorted(S), n)
<1>1. S \in SUBSET Nat /\ IsFiniteSet(S)
  BY SymbolSets
<1>2. /\ Cardinality(S) \in Nat
      /\ Query!Sorted(S) \in Seq(S) /\ Len(Query!Sorted(S)) = Cardinality(S)
      /\ \A i \in S : \E r \in 1..Cardinality(S) : Query!Sorted(S)[r] = i
  BY <1>1, SortedIs
<1>3. p.rows = Query!UpTo(Query!Sorted(S), n) /\ (p.truncated <=> Cardinality(S) > n)
  BY <1>2, PageIs
<1> HIDE DEF p
<1>4. Query!PageOf(p, S, n)
  BY <1>1, <1>3, SortedPage
<1>5. ASSUME ~p.truncated
      PROVE  Query!InPage(p) = S
  <2> DEFINE o == Query!Sorted(S)
  <2>1. Cardinality(S) <= n
    BY <1>2, <1>3, <1>5
  <2>2. Query!UpTo(o, n) = o
    BY <1>2, <2>1, CutIs
  <2>3. Query!InPage(p) = {o[k] : k \in DOMAIN o}
    BY <1>3, <2>2, QueryOperators DEF Query!InPage
  <2> HIDE DEF o
  <2>4. o \in Seq(S) /\ DOMAIN o = 1..Cardinality(S)
        /\ \A i \in S : \E r \in 1..Cardinality(S) : o[r] = i
    BY <1>2 DEF o
  <2>5. \A k \in DOMAIN o : o[k] \in S
    <3>1. o \in Seq(S) /\ DOMAIN o = 1..Len(o)
      BY <2>4
    <3> QED
      BY ONLY <3>1
  <2> QED
    BY ONLY <2>3, <2>4, <2>5
<1> QED
  BY <1>4, <1>5 DEF p

\* find_symbol and list_unreachable_symbols return pages of what they are about.
LEMMA PagesTold ==
    ASSUME KnownTarget
    PROVE  /\ Query!PageOf(FoundSymbols, q.match \cap Here, FindLimit)
           /\ Query!PageOf(UnreachablePage,
                  IF cat.kind[q.target] \in {"executable", "shared_library"}
                  THEN Query!Symbols \ Here ELSE {}, q.limit)
<1>1. /\ Here \subseteq Query!Symbols /\ Query!Reachable(q.target) = Here
      /\ q.limit \in Nat /\ FindLimit \in Nat
  BY QueryFacts
<1>2. Query!PageOf(FoundSymbols, q.match \cap Here, FindLimit)
  <2>1. q.match \cap Here \in SUBSET Query!Symbols
    BY <1>1
  <2> QED
    BY <1>1, <2>1, SymbolPage DEF FoundSymbols
<1>3. CASE cat.kind[q.target] \in {"executable", "shared_library"}
  <2>1. Query!Symbols \ Here \in SUBSET Query!Symbols
    BY <1>1
  <2>2. UnreachablePage = Query!Page(Query!Sorted(Query!Symbols \ Here), q.limit)
    BY <1>3 DEF UnreachablePage, Here
  <2> QED
    BY <1>1, <1>2, <1>3, <2>1, <2>2, SymbolPage
<1>4. CASE ~(cat.kind[q.target] \in {"executable", "shared_library"})
  <2>1. {} \in SUBSET Query!Symbols
    OBVIOUS
  <2>2. Query!Sorted({}) = <<>>
    <3>1. Cardinality({}) = 0
      BY FS_EmptySet
    <3>2. \A f : Selected({}, f) = <<>>
      BY <3>1 DEF Selected
    <3> QED
      BY <3>2, QueryOperators DEF Query!Sorted
  <2>3. UnreachablePage = Query!Page(Query!Sorted({}), q.limit)
    BY <1>4, <2>2 DEF UnreachablePage
  <2> QED
    BY <1>1, <1>2, <1>4, <2>1, <2>3, SymbolPage
<1> QED
  BY <1>3, <1>4

\* The compiler's callers and callees mirror each other.
LEMMA NeighboursTold ==
    ASSUME KnownTarget, NEW a \in Query!Symbols, NEW b \in Query!Symbols
    PROVE  /\ a \in LinkedCallersTold[b] <=> b \in LinkedCalleesTold[a]
           /\ ~CallersTold[b].truncated /\ ~CalleesTold[a].truncated /\ a \in Here /\ b \in Here
                => (a \in Query!InPage(CallersTold[b]) <=> b \in Query!InPage(CalleesTold[a]))
<1>1. /\ Here \subseteq Query!Symbols /\ Query!Reachable(q.target) = Here /\ NeighborLimit \in Nat
  BY QueryFacts
<1>2. a \in LinkedCallersTold[b] <=> \E e \in cat.objdump[q.target] : e[2] = b /\ e[1] = a
  BY DEF LinkedCallersTold, Query!CallersIn
<1>3. b \in LinkedCalleesTold[a] <=> \E e \in cat.objdump[q.target] : e[2] = b /\ e[1] = a
  BY DEF LinkedCalleesTold
<1> DEFINE U == {c \in Here : <<c, b>> \in cat.cgraph}
           D == {c \in Here : <<a, c>> \in cat.cgraph}
<1>4. /\ CallersTold[b] = Query!Page(Query!Sorted(U), NeighborLimit)
      /\ CalleesTold[a] = Query!Page(Query!Sorted(D), NeighborLimit)
  BY <1>1 DEF CallersTold, CalleesTold
<1>5. U \in SUBSET Query!Symbols /\ D \in SUBSET Query!Symbols
  BY <1>1
<1>6. a \in Here /\ b \in Here => (a \in U <=> b \in D)
  OBVIOUS
<1> HIDE DEF U, D
<1>7. /\ ~CallersTold[b].truncated => Query!InPage(CallersTold[b]) = U
      /\ ~CalleesTold[a].truncated => Query!InPage(CalleesTold[a]) = D
  BY <1>1, <1>4, <1>5, SymbolPage
<1> QED
  BY <1>2, <1>3, <1>6, <1>7

\* What describe_symbol, describe_link_resolution, list_weak_symbols and
\* list_undefined_symbols say of a symbol.
LEMMA SymbolsAgree ==
    ASSUME KnownTarget
    PROVE  /\ {s \in Query!Symbols : q.target \in SymbolsTold[s].targets} = Here
           /\ \A s \in Query!Symbols :
                 /\ SymbolsTold[s].targets = Query!TargetsOf(s)
                 /\ SymbolsTold[s].linkage = cat.linkage[s]
                 /\ SymbolsTold[s].defs = {cat.defs[s][k] : k \in DOMAIN cat.defs[s]}
                 /\ LinksTold[s].refused <=> s \notin Here
                 /\ (\E w \in WeakTold[FALSE] : w.sym = s)
                       <=> SymbolsTold[s].linkage = "weak" \/ \E d \in SymbolsTold[s].defs : d.weak
           /\ \A u \in UndefinedTold :
                 /\ SymbolsTold[u.sym].defs = {}
                 /\ u.calls = Query!Cardinality(LinkedCallersTold[u.sym])
<1>1. /\ Here \subseteq Query!Symbols /\ Query!Reachable(q.target) = Here
      /\ \A s : q.target \in Query!TargetsOf(s) <=> s \in Here
  BY QueryFacts
<1>2. \A s \in Query!Symbols :
         /\ SymbolsTold[s].targets = Query!TargetsOf(s)
         /\ SymbolsTold[s].linkage = cat.linkage[s]
         /\ SymbolsTold[s].defs = {cat.defs[s][k] : k \in DOMAIN cat.defs[s]}
  BY QueryOperators DEF SymbolsTold
<1>3. {s \in Query!Symbols : q.target \in SymbolsTold[s].targets} = Here
  BY <1>1, <1>2
<1>4. \A s \in Query!Symbols : LinksTold[s].refused <=> s \notin Here
  BY <1>1 DEF LinksTold, Query!Refused
<1>5. ASSUME NEW s \in Query!Symbols
      PROVE  (\E w \in WeakTold[FALSE] : w.sym = s)
                <=> SymbolsTold[s].linkage = "weak" \/ \E d \in SymbolsTold[s].defs : d.weak
  <2>1. (\E w \in WeakTold[FALSE] : w.sym = s) <=> Query!IsWeak(s, FALSE)
    <3> DEFINE W == {x \in Query!Symbols : Query!IsWeak(x, FALSE)}
               X == WeakTold[FALSE]
    <3>1. X =
             {[sym |-> x, defs |-> Query!WeakDefs(x), resolutions |-> Query!TargetsOf(x)] : x \in W}
      BY Zenon DEF WeakTold
    <3>2. s \in W <=> Query!IsWeak(s, FALSE)
      BY Zenon
    <3> HIDE DEF W, X
    <3>3. ASSUME NEW w \in X, w.sym = s
          PROVE  s \in W
      <4>1. PICK x \in W : w = [sym |-> x, defs |-> Query!WeakDefs(x), resolutions |-> Query!TargetsOf(x)]
        BY <3>1, Zenon
      <4>2. w.sym = x
        BY <4>1
      <4> QED
        BY <3>3, <4>2
    <3>4. ASSUME s \in W
          PROVE  \E w \in X : w.sym = s
      <4> DEFINE w == [sym |-> s, defs |-> Query!WeakDefs(s), resolutions |-> Query!TargetsOf(s)]
      <4>1. w \in X
        BY <3>1, <3>4, Zenon
      <4>2. w.sym = s
        OBVIOUS
      <4> HIDE DEF w
      <4> QED
        BY <4>1, <4>2, Zenon
    <3> QED
      BY <3>2, <3>3, <3>4, Zenon DEF X
  <2>2. SymbolsTold[s].defs = Query!ToSet(cat.defs[s])
    BY DEF SymbolsTold
  <2>3. Query!IsWeak(s, FALSE) <=> (\E d \in SymbolsTold[s].defs : d.weak) \/ cat.linkage[s] = "weak"
    BY <2>2, Zenon DEF Query!IsWeak, Query!WeakDefs
  <2> QED
    BY <1>2, <2>1, <2>3, Zenon
<1>6. ASSUME NEW u \in UndefinedTold
      PROVE  /\ SymbolsTold[u.sym].defs = {}
             /\ u.calls = Query!Cardinality(LinkedCallersTold[u.sym])
  <2>1. PICK s \in Query!Symbols :
           /\ u = [sym |-> s, calls |-> Query!Cardinality(Query!CallersIn(q.target, s))]
           /\ Query!Undefined(s)
    BY DEF UndefinedTold
  <2>2. u.sym = s /\ u.calls = Query!Cardinality(Query!CallersIn(q.target, s))
    BY <2>1
  <2>3. cat.defs[s] = <<>>
    BY <2>1 DEF Query!Undefined
  <2>4. DOMAIN cat.defs[s] = {}
    BY <2>3
  <2>5. LinkedCallersTold[s] = Query!CallersIn(q.target, s)
    BY DEF LinkedCallersTold
  <2> QED
    BY <1>2, <2>2, <2>4, <2>5
<1> QED
  BY <1>2, <1>3, <1>4, <1>5, <1>6, Zenon

\* ICF winners and address-taken functions are the target's.
LEMMA SetsAgree ==
    ASSUME KnownTarget
    PROVE  /\ \A g \in FoldedTold : g.winner \in Here
           /\ \A f \in TakenTold : f.sym \in Here /\ f.targets = SymbolsTold[f.sym].targets
<1>1. /\ Here \subseteq Query!Symbols /\ Query!Reachable(q.target) = Here
  BY QueryFacts
<1>2. \A s \in Query!Symbols : SymbolsTold[s].targets = Query!TargetsOf(s)
  BY SymbolsAgree, Zenon
<1>3. \A f \in TakenTold : \E s \in Here : f = [sym |-> s, targets |-> Query!TargetsOf(s)]
  BY <1>1 DEF TakenTold
<1>4. \A f \in TakenTold : f.sym \in Here /\ f.targets = SymbolsTold[f.sym].targets
  BY <1>1, <1>2, <1>3
<1> QED
  BY <1>4 DEF FoldedTold, Here

\* What is selected of a table is a sequence as long as there are rows that fit.
LEMMA SelectedRows ==
    ASSUME NEW table, IsList(table), NEW S \in SUBSET (DOMAIN table)
    PROVE  /\ S \in SUBSET Nat /\ IsFiniteSet(S) /\ Cardinality(S) \in Nat
           /\ Query!Selected(S, table) = Selected(S, table)
           /\ Selected(S, table) \in Seq({table[k] : k \in S})
           /\ Len(Selected(S, table)) = Cardinality(S)
           /\ DOMAIN Selected(S, table) = 1..Cardinality(S)
<1>1. Len(table) \in Nat /\ DOMAIN table = 1..Len(table)
  BY DEF IsList
<1>2. IsFiniteSet(1..Len(table)) /\ 1..Len(table) \subseteq Nat
  BY <1>1, RankInterval
<1>3. S \in SUBSET Nat /\ IsFiniteSet(S)
  BY <1>1, <1>2, FS_Subset
<1>4. Cardinality(S) \in Nat /\ Selected(S, table) \in [1..Cardinality(S) -> {table[k] : k \in S}]
  BY <1>3, SelectedHolds
<1>5. Query!Selected(S, table) = Selected(S, table)
  BY QueryOperators
<1> DEFINE n == Cardinality(S)
           o == Selected(S, table)
           A == {table[k] : k \in S}
<1>6. n \in Nat /\ o \in [1..n -> A]
  BY <1>4
<1> HIDE DEF n, o, A
<1>7. o \in Seq(A) /\ Len(o) = n /\ DOMAIN o = 1..n
  BY ONLY <1>6
<1> QED
  BY <1>3, <1>5, <1>6, <1>7 DEF n, o, A

\* The tables are sequences.
LEMMA TablesAre ==
    ASSUME KnownTarget
    PROVE  /\ IsList(cat.sites) /\ IsList(cat.remarks) /\ IsList(cat.bodies)
           /\ IsList(cat.decisions) /\ IsList(cat.types) /\ IsList(cat.constants)
           /\ \A s \in Query!Symbols : IsList(cat.defs[s])
<1>1. \A s : s \in Seq(ToSet(s)) => IsList(s)
  BY DEF IsList, ToSet
<1>2. /\ \A t \in {"sites", "remarks", "bodies", "decisions", "types", "constants"} :
            cat[t] \in Seq(ToSet(cat[t]))
      /\ \A s \in 1..NameCount : cat.defs[s] \in Seq(ToSet(cat.defs[s]))
  BY QueryAssumption DEF KnownTarget
<1>3. \A s \in Query!Symbols : IsList(cat.defs[s])
  BY <1>1, <1>2, QueryFacts, Zenon
<1>4. \A t \in {"sites", "remarks", "bodies", "decisions", "types", "constants"} : IsList(cat[t])
  BY <1>1, <1>2
<1> QED
  BY <1>3, <1>4

\* list_indirect_call_sites returns a page of the target's sites.
LEMMA SitesAgree ==
    ASSUME KnownTarget, NEW whole, whole = Query!Cardinality({k \in DOMAIN cat.sites : cat.sites[k] \in Here})
    PROVE  /\ Query!InPage(SitesPage) \subseteq Here
           /\ Len(SitesPage.rows) = IF whole < q.limit THEN whole ELSE q.limit
           /\ SitesPage.truncated <=> whole > Len(SitesPage.rows)
<1> DEFINE S == {k \in DOMAIN cat.sites : cat.sites[k] \in Here}
           A == {cat.sites[k] : k \in S}
           o == Selected(S, cat.sites)
           u == Query!UpTo(o, q.limit)
<1>1. Query!Reachable(q.target) = Here /\ q.limit \in Nat
  BY QueryFacts
<1>2. SitesPage = Query!Page(o, q.limit)
  BY <1>1, QueryOperators DEF SitesPage
<1>3. A \subseteq Here
  OBVIOUS
<1>4. S \in SUBSET (DOMAIN cat.sites) /\ whole = Cardinality(S)
  BY QueryOperators
<1> HIDE DEF S
<1>5. whole \in Nat /\ o \in Seq(A) /\ Len(o) = whole
  BY <1>4, TablesAre, SelectedRows
<1> HIDE DEF A, o
<1>6. SitesPage.rows = u /\ (SitesPage.truncated <=> whole > q.limit)
  BY <1>1, <1>2, <1>5, PageIs
<1>7. u \in Seq(A) /\ Len(u) = IF whole < q.limit THEN whole ELSE q.limit
  BY <1>1, <1>5, CutIs
<1> HIDE DEF u
<1>8. \A k \in DOMAIN u : u[k] \in A
  BY ONLY <1>7
<1>9. Query!InPage(SitesPage) = {u[k] : k \in DOMAIN u}
  BY <1>6, QueryOperators DEF Query!InPage
<1>10. Query!InPage(SitesPage) \subseteq Here
  BY ONLY <1>3, <1>8, <1>9
<1>11. whole > q.limit <=> whole > Len(u)
  BY ONLY <1>1, <1>5, <1>7
<1> QED
  BY <1>6, <1>7, <1>10, <1>11

-----------------------------------------------------------------------------
(* The query tools: the answers that take an argument.                     *)

\* describe_target counts the target's symbols and shows a main of its own first.
LEMMA TargetAgrees ==
    ASSUME KnownTarget
    PROVE  /\ TargetTold.linked = Query!Cardinality(Here) /\ TargetTold.reachable = TargetTold.linked
           /\ Main \in Here /\ (\E d \in SymbolsTold[Main].defs : d.file \in cat.files[q.target])
                => Head(TargetTold.mains) \in cat.files[q.target]
<1>1. /\ Here \subseteq Query!Symbols /\ Query!Reachable(q.target) = Here
  BY QueryFacts
<1>2. TargetTold.linked = Query!Cardinality(Here) /\ TargetTold.reachable = TargetTold.linked
      /\ TargetTold.mains = Query!MainFiles
  BY <1>1 DEF TargetTold, Here
<1> SUFFICES ASSUME Main \in Here, NEW d \in SymbolsTold[Main].defs, d.file \in cat.files[q.target]
             PROVE  Head(Query!MainFiles) \in cat.files[q.target]
  BY <1>2
<1> DEFINE defs == cat.defs[Main]
           mrows == Query!DefRows(Main)
           files == [k \in DOMAIN mrows |-> mrows[k].file]
           firsts == Query!FirstRows(mrows, "file")
           own == {k \in firsts : files[k] \in cat.files[q.target]}
           n == Len(defs)
<1>3. SymbolsTold[Main].defs = {defs[k] : k \in DOMAIN defs}
  BY <1>1, SymbolsAgree, Zenon
<1>4. IsList(defs)
  BY <1>1, TablesAre
<1>5. n \in Nat /\ DOMAIN defs = 1..n
  BY <1>4 DEF IsList
<1>6. PICK x \in 1..n : defs[x] = d
  BY <1>3, <1>5
<1>7. mrows = [k \in 1..n |-> [sym |-> Main, file |-> defs[k].file]]
  <2>1. defs # <<>>
    BY <1>5, <1>6
  <2> QED
    BY <1>5, <2>1 DEF Query!DefRows
<1>8. Query!MainFiles = Query!Selected(own, files) \o Query!Selected(firsts \ own, files)
  BY DEF Query!MainFiles, Here
<1> HIDE DEF defs, n
<1>9. files = [k \in 1..n |-> defs[k].file] /\ DOMAIN mrows = 1..n
      /\ \A k \in 1..n : mrows[k]["file"] = files[k]
  BY <1>7
<1>10. firsts = {k \in 1..n : \A j \in 1..n : j < k => files[j] # files[k]}
  BY <1>9, Zenon DEF Query!FirstRows
<1> HIDE DEF mrows, files, firsts
<1>11. IsList(files) /\ DOMAIN files = 1..n
  BY <1>5, <1>9 DEF IsList
<1>12. own \in SUBSET (DOMAIN files) /\ firsts \ own \in SUBSET (DOMAIN files)
  BY <1>10, <1>11
<1>13. \E m \in own : TRUE
  <2> DEFINE K == {k \in 1..n : files[k] = d.file}
  <2>1. x \in K /\ K \in SUBSET Nat
    BY <1>5, <1>6, <1>9
  <2>2. PICK m \in K : \A y \in K : m <= y
    BY <2>1, LeastElement, Zenon
  <2>3. \A j \in 1..n : j < m => files[j] # files[m]
    BY <1>5, <2>2
  <2>4. m \in own
    BY <1>10, <2>2, <2>3
  <2> QED
    BY <2>4
<1> DEFINE s == Selected(own, files)
           t == Selected(firsts \ own, files)
           A == {files[k] : k \in own}
           B == {files[k] : k \in firsts \ own}
<1>14. A \subseteq cat.files[q.target]
  OBVIOUS
<1> HIDE DEF own
<1>15. /\ s \in Seq(A) /\ Len(s) = Cardinality(own) /\ IsFiniteSet(own) /\ Cardinality(own) \in Nat
       /\ t \in Seq(B)
       /\ Query!Selected(own, files) = s /\ Query!Selected(firsts \ own, files) = t
  BY <1>11, <1>12, SelectedRows, Zenon
<1>16. Cardinality(own) # 0
  BY <1>13, <1>15, FS_EmptySet
<1> HIDE DEF s, t, A, B
<1>17. s[1] \in A /\ Head(s \o t) = s[1]
  <2>1. s \in Seq(A \cup B) /\ t \in Seq(A \cup B) /\ 1 \in 1..Len(s)
    BY <1>15, <1>16
  <2>2. s[1] \in A
    BY <1>15, <2>1
  <2> QED
    BY <2>1, <2>2
<1> QED
  BY <1>8, <1>14, <1>15, <1>17, Zenon

-----------------------------------------------------------------------------
(* Inlining: the rows of a caller and the rows of a callee.                *)

\* Where a table has the rows of one caller, or one callee.
Places(table, role, v) == {k \in DOMAIN table : table[k][role] = v}

\* Those rows.
LEMMA RowsOfIs ==
    ASSUME NEW table, IsList(table), NEW role, NEW v
    PROVE  /\ Query!RowsOf(table, role, v) \in Seq({table[k] : k \in DOMAIN table})
           /\ Len(Query!RowsOf(table, role, v)) = Cardinality(Places(table, role, v))
           /\ Query!RowsOf(table, role, v) = Selected(Places(table, role, v), table)
           /\ IsList(Query!RowsOf(table, role, v))
<1> DEFINE S == {k \in DOMAIN table : table[k][role] = v}
           A == {table[k] : k \in DOMAIN table}
           B == {table[k] : k \in S}
           o == Query!RowsOf(table, role, v)
<1>1. S \in SUBSET (DOMAIN table) /\ o = Query!Selected(S, table) /\ B \subseteq A
  BY DEF Query!RowsOf
<1> HIDE DEF S, o
<1>2. o = Selected(S, table) /\ o \in Seq(B) /\ Len(o) = Cardinality(S)
  BY <1>1, SelectedRows, Zenon
<1> HIDE DEF A, B
<1>3. o \in Seq(A) /\ IsList(o)
  BY ONLY <1>1, <1>2 DEF IsList
<1> QED
  BY <1>2, <1>3 DEF S, A, o, Places

\* The rows of a caller that are of a callee are those of the table that are of both.
LEMMA RowsTwice ==
    ASSUME NEW table, IsList(table), NEW role, NEW v, NEW other, NEW w
    PROVE  Query!RowsOf(Query!RowsOf(table, role, v), other, w) =
               Selected(Places(table, role, v) \cap Places(table, other, w), table)
<1> DEFINE S == {k \in DOMAIN table : table[k][role] = v}
           T == {k \in DOMAIN table : table[k][role] = v /\ table[k][other] = w}
           o == Query!RowsOf(table, role, v)
           R == {x \in DOMAIN o : o[x][other] = w}
<1>1. o = Selected(S, table) /\ IsList(o)
  BY RowsOfIs, Zenon DEF Places
<1>2. Query!RowsOf(o, other, w) = Selected(R, o)
  BY QueryOperators DEF Query!RowsOf
<1>3. S \in SUBSET (DOMAIN table) /\ T \in SUBSET S
  OBVIOUS
<1>4. \A k \in S : k \in T <=> table[k][other] = w
  OBVIOUS
<1> HIDE DEF S, T
<1>5. S \in SUBSET Nat /\ IsFiniteSet(S)
  BY <1>3, SelectedRows, Zenon
<1>6. /\ DOMAIN o = 1..Cardinality(S)
      /\ \A i \in S : Rank(S, i) \in 1..Cardinality(S) /\ o[Rank(S, i)] = table[i]
      /\ \A r \in 1..Cardinality(S) : \E i \in S : Rank(S, i) = r /\ o[r] = table[i]
  BY <1>1, <1>5, SelectedAt
<1> HIDE DEF o
<1>7. R = {Rank(S, i) : i \in T}
  <2>1. ASSUME NEW x \in R
        PROVE  \E i \in T : Rank(S, i) = x
    <3>1. x \in 1..Cardinality(S) /\ o[x][other] = w
      BY <1>6
    <3>2. PICK i \in S : Rank(S, i) = x /\ o[x] = table[i]
      BY <1>6, <3>1
    <3> QED
      BY <1>4, <3>1, <3>2
  <2>2. ASSUME NEW i \in T
        PROVE  Rank(S, i) \in R
    <3>1. i \in S /\ table[i][other] = w
      BY <1>3, <1>4
    <3> QED
      BY <1>6, <3>1
  <2> HIDE DEF R
  <2> QED
    BY <2>1, <2>2
<1>8. Selected({Rank(S, i) : i \in T}, Selected(S, table)) = Selected(T, table)
  BY <1>3, <1>5, SelectedTwice
<1> QED
  <2>1. T = Places(table, role, v) \cap Places(table, other, w)
    BY DEF T, Places
  <2> QED
    BY <1>1, <1>2, <1>7, <1>8, <2>1, Zenon DEF o

\* The rows of which a field has one or the other of two values.
LEMMA RowsSplit ==
    ASSUME NEW table, IsList(table), NEW role, NEW y, NEW z, y # z,
           \A k \in DOMAIN table : table[k][role] = y \/ table[k][role] = z
    PROVE  Len(table) = Len(Query!RowsOf(table, role, y)) + Len(Query!RowsOf(table, role, z))
<1> DEFINE Y == {k \in DOMAIN table : table[k][role] = y}
           Z == {k \in DOMAIN table : table[k][role] = z}
<1>1. Len(Query!RowsOf(table, role, y)) = Cardinality(Y) /\ Len(Query!RowsOf(table, role, z)) = Cardinality(Z)
  <2>1. \A v : Len(Query!RowsOf(table, role, v)) = Cardinality(Places(table, role, v))
    BY ONLY IsList(table), RowsOfIs, Zenon
  <2> QED
    BY <2>1, Zenon DEF Places
<1>2. Len(table) \in Nat /\ DOMAIN table = 1..Len(table)
  BY DEF IsList
<1>3. Y \cup Z = 1..Len(table) /\ Y \cap Z = {}
  BY <1>2
<1>4. IsFiniteSet(1..Len(table)) /\ Cardinality(1..Len(table)) = Len(table)
  BY <1>2, RankInterval
<1> HIDE DEF Y, Z
<1>5. IsFiniteSet(Y) /\ IsFiniteSet(Z)
  <2>1. Y \subseteq 1..Len(table) /\ Z \subseteq 1..Len(table)
    BY <1>3
  <2> QED
    BY <1>4, <2>1, FS_Subset, Zenon
<1>6. Cardinality(Y \cup Z) = Cardinality(Y) + Cardinality(Z) - Cardinality(Y \cap Z)
  BY <1>5, FS_Union
<1>7. Cardinality({}) = 0 /\ Cardinality(Y) \in Nat /\ Cardinality(Z) \in Nat
  BY <1>5, FS_EmptySet, FS_CardinalityType
<1>8. Cardinality(Y \cup Z) = Len(table) /\ Cardinality(Y \cap Z) = 0
  BY <1>3, <1>4, <1>7, Zenon
<1> DEFINE c == Cardinality(Y)
           d == Cardinality(Z)
<1>9. c \in Nat /\ d \in Nat /\ Len(table) = c + d - 0
  BY <1>6, <1>7, <1>8, Zenon
<1> HIDE DEF c, d
<1>10. Len(table) = c + d
  BY ONLY <1>9
<1> QED
  BY <1>1, <1>10 DEF c, d

\* The remarks of a symbol say yes or no.
LEMMA RemarksSplit ==
    ASSUME KnownTarget, NEW role, NEW s
    PROVE  LET found == Query!RowsOf(cat.remarks, role, s) IN
           Len(found) = Len(Query!RowsOf(found, "inlined", TRUE)) + Len(Query!RowsOf(found, "inlined", FALSE))
<1> DEFINE found == Query!RowsOf(cat.remarks, role, s)
           A == {cat.remarks[k] : k \in DOMAIN cat.remarks}
           yes == TRUE
           no == FALSE
<1>1. found \in Seq(A) /\ IsList(found)
  BY TablesAre, RowsOfIs
<1>2. \A r \in A : r.inlined \in BOOLEAN
  BY QueryAssumption, Zenon DEF KnownTarget
<1>3. \A r \in A : r["inlined"] = yes \/ r["inlined"] = no
  BY <1>2, Zenon
<1>4. yes # no
  BY Zenon
<1> HIDE DEF yes, no, found, A
<1>5. \A k \in DOMAIN found : found[k] \in A
  BY ONLY <1>1
<1>6. \A k \in DOMAIN found : found[k]["inlined"] = yes \/ found[k]["inlined"] = no
  BY <1>3, <1>5
<1>7. Len(found) = Len(Query!RowsOf(found, "inlined", yes)) + Len(Query!RowsOf(found, "inlined", no))
  BY ONLY <1>1, <1>4, <1>6, RowsSplit
<1> QED
  BY <1>7, Zenon DEF yes, no, found

\* What v must be to be the view of a caller or callee with the remarks r and bodies b.
IsView(v, r, b, edgeCount) ==
    /\ IsList(r) /\ IsList(b)
    /\ v.records = Query!UpTo(r, q.limit) /\ v.instances = Query!UpTo(b, q.limit)
    /\ v.truncated <=> Len(r) > q.limit \/ Len(b) > q.limit
    /\ v.summary.records = Len(r) /\ v.summary.instances = Len(b)
    /\ v.summary.records = v.summary.inlined + v.summary.declined
    /\ v.summary.edges = edgeCount

\* What describe_inlining and list_inline_instances show of a symbol is such a view.
LEMMA InliningIs ==
    ASSUME KnownTarget, NEW role, NEW s
    PROVE  IsView(Query!InliningOf(role, s), Query!RowsOf(cat.remarks, role, s),
                  Query!RowsOf(cat.bodies, role, s), Len(Query!RowsOf(cat.decisions, role, s)))
<1> DEFINE r == Query!RowsOf(cat.remarks, role, s)
           b == Query!RowsOf(cat.bodies, role, s)
           v == Query!InliningOf(role, s)
           m == Query!Summary(role, s)
           A == {cat.remarks[k] : k \in DOMAIN cat.remarks}
           B == {cat.bodies[k] : k \in DOMAIN cat.bodies}
<1>1. r \in Seq(A) /\ IsList(r) /\ b \in Seq(B) /\ IsList(b)
  BY TablesAre, RowsOfIs, Zenon
<1>2. q.limit \in Nat
  BY QueryFacts
<1>3. /\ Query!Page(r, q.limit).rows = Query!UpTo(r, q.limit)
      /\ Query!Page(r, q.limit).truncated <=> Len(r) > q.limit
      /\ Query!Page(b, q.limit).rows = Query!UpTo(b, q.limit)
      /\ Query!Page(b, q.limit).truncated <=> Len(b) > q.limit
  BY <1>1, <1>2, PageIs
<1> DEFINE P == Query!Page(r, q.limit)
           R == Query!Page(b, q.limit)
<1>4. v = [summary |-> m, records |-> P.rows, instances |-> R.rows,
           truncated |-> P.truncated \/ R.truncated]
  BY Zenon DEF Query!InliningOf
<1>5. /\ m.records = Len(r) /\ m.instances = Len(b)
      /\ m.inlined = Len(Query!RowsOf(r, "inlined", TRUE))
      /\ m.declined = Len(Query!RowsOf(r, "inlined", FALSE))
      /\ m.edges = Len(Query!RowsOf(cat.decisions, role, s))
  BY Zenon DEF Query!Summary
<1>6. m.records = m.inlined + m.declined
  BY <1>5, RemarksSplit, Zenon
<1> HIDE DEF m, P, R, v, r, b
<1>7. v.summary = m /\ v.records = P.rows /\ v.instances = R.rows
  BY ONLY <1>4
<1>8. v.truncated = (P.truncated \/ R.truncated)
  BY ONLY <1>4, Zenon
<1>9. v.truncated <=> Len(r) > q.limit \/ Len(b) > q.limit
  BY ONLY <1>3, <1>8, Zenon DEF P, R
<1> QED
  BY ONLY <1>1, <1>3, <1>5, <1>6, <1>7, <1>9, Zenon DEF P, R, IsView, r, b, v

\* Whether a list was cut.
LEMMA CutList ==
    ASSUME NEW s, IsList(s), NEW n \in Nat
    PROVE  /\ Len(Query!UpTo(s, n)) < Len(s) <=> Len(s) > n
           /\ ~(Len(s) > n) => Query!UpTo(s, n) = s
<1> DEFINE A == {s[k] : k \in 1..Len(s)}
<1>1. Len(s) \in Nat /\ s \in [1..Len(s) -> A]
  BY DEF IsList
<1> HIDE DEF A
<1>2. s \in Seq(A)
  BY ONLY <1>1
<1>3. /\ Len(Query!UpTo(s, n)) = IF Len(s) < n THEN Len(s) ELSE n
      /\ Len(s) <= n => Query!UpTo(s, n) = s
  BY <1>2, CutIs
<1>4. ~(Len(s) > n) => Len(s) <= n
  BY ONLY <1>1, n \in Nat
<1>5. Len(Query!UpTo(s, n)) < Len(s) <=> Len(s) > n
  <2> DEFINE l == Len(s)
             u == Len(Query!UpTo(s, n))
  <2>1. l \in Nat /\ n \in Nat /\ u = IF l < n THEN l ELSE n
    BY <1>1, <1>3
  <2> HIDE DEF l, u
  <2>2. u < l <=> l > n
    BY ONLY <2>1
  <2> QED
    BY <2>2 DEF l, u
<1> QED
  BY <1>3, <1>4, <1>5

\* The two views of one caller and one callee select the same rows.
LEMMA ViewsMeet ==
    ASSUME NEW table, IsList(table), NEW a, NEW b
    PROVE  Query!RowsOf(Query!RowsOf(table, "caller", a), "callee", b) =
               Query!RowsOf(Query!RowsOf(table, "callee", b), "caller", a)
<1>1. \A role, v, other, w :
         Query!RowsOf(Query!RowsOf(table, role, v), other, w) =
             Selected(Places(table, role, v) \cap Places(table, other, w), table)
  BY ONLY IsList(table), RowsTwice
<1> DEFINE S == Places(table, "caller", a)
           T == Places(table, "callee", b)
<1>2. Query!RowsOf(Query!RowsOf(table, "caller", a), "callee", b) = Selected(S \cap T, table)
  BY ONLY <1>1
<1>3. Query!RowsOf(Query!RowsOf(table, "callee", b), "caller", a) = Selected(T \cap S, table)
  BY ONLY <1>1
<1>4. S \cap T = T \cap S
  OBVIOUS
<1> HIDE DEF S, T
<1> QED
  BY ONLY <1>2, <1>3, <1>4

\* describe_inlining and list_inline_instances count all rows and show the same ones.
LEMMA InliningTrue ==
    ASSUME KnownTarget, Query!Told("describe_inlining") = InliningTold,
           Query!Told("list_inline_instances") = InstancesTold
    PROVE  Query!InliningAgrees
<1> DEFINE Short(v) == Len(v.records) < v.summary.records \/ Len(v.instances) < v.summary.instances
           of == InliningTold
           into == InstancesTold
           R(role, s) == Query!RowsOf(cat.remarks, role, s)
           B(role, s) == Query!RowsOf(cat.bodies, role, s)
           E(s) == Query!RowsOf(cat.decisions, "caller", s)
<1>1. q.limit \in Nat /\ IsList(cat.remarks) /\ IsList(cat.bodies) /\ IsList(cat.decisions)
  BY QueryFacts, TablesAre
<1>2. ASSUME NEW role, NEW s, NEW v, v = Query!InliningOf(role, s)
      PROVE  /\ v.truncated <=> Short(v)
             /\ v.summary.records = v.summary.inlined + v.summary.declined
             /\ ~v.truncated => v.records = R(role, s) /\ v.instances = B(role, s)
             /\ v.summary.edges = Len(Query!RowsOf(cat.decisions, role, s))
  <2> DEFINE r == R(role, s)
             b == B(role, s)
             c == Len(Query!RowsOf(cat.decisions, role, s))
  <2>0. IsView(v, r, b, c)
    BY <1>2, InliningIs, Zenon
  <2> HIDE DEF r, b, c
  <2>1. /\ IsList(r) /\ IsList(b)
        /\ v.records = Query!UpTo(r, q.limit) /\ v.instances = Query!UpTo(b, q.limit)
        /\ v.truncated <=> Len(r) > q.limit \/ Len(b) > q.limit
        /\ v.summary.records = Len(r) /\ v.summary.instances = Len(b)
        /\ v.summary.records = v.summary.inlined + v.summary.declined
        /\ v.summary.edges = c
    BY ONLY <2>0, Zenon DEF IsView
  <2>2. /\ Len(Query!UpTo(r, q.limit)) < Len(r) <=> Len(r) > q.limit
        /\ ~(Len(r) > q.limit) => Query!UpTo(r, q.limit) = r
    BY <1>1, <2>1, CutList, Zenon
  <2>3. /\ Len(Query!UpTo(b, q.limit)) < Len(b) <=> Len(b) > q.limit
        /\ ~(Len(b) > q.limit) => Query!UpTo(b, q.limit) = b
    BY <1>1, <2>1, CutList
  <2>4. v.truncated <=> Short(v)
    BY ONLY <2>1, <2>2, <2>3, Zenon
  <2>5. ~v.truncated => v.records = r /\ v.instances = b
    BY ONLY <2>1, <2>2, <2>3, Zenon
  <2> QED
    BY ONLY <2>1, <2>4, <2>5, Zenon DEF r, b, c
<1>3. ASSUME NEW s \in Query!Symbols
      PROVE  /\ of[s].rest = Query!InliningOf("caller", s)
             /\ of[s].truncated <=> of[s].rest.truncated \/ Len(E(s)) > q.limit
             /\ of[s].edges = Query!UpTo(E(s), q.limit)
             /\ into[s] = Query!InliningOf("callee", s)
             /\ Len(of[s].edges) < Len(E(s)) <=> Len(E(s)) > q.limit
  <2> DEFINE e == E(s)
             v == Query!InliningOf("caller", s)
             P == Query!Page(e, q.limit)
  <2>1. of[s] = [rest |-> v, edges |-> P.rows, truncated |-> v.truncated \/ P.truncated]
    BY Zenon DEF InliningTold
  <2>2. into[s] = Query!InliningOf("callee", s)
    BY Zenon DEF InstancesTold
  <2>3. IsList(e) /\ e \in Seq({cat.decisions[k] : k \in DOMAIN cat.decisions})
    BY <1>1, RowsOfIs
  <2> HIDE DEF v, e
  <2>4. P.rows = Query!UpTo(e, q.limit) /\ (P.truncated <=> Len(e) > q.limit)
    BY <1>1, <2>3, PageIs
  <2>5. Len(Query!UpTo(e, q.limit)) < Len(e) <=> Len(e) > q.limit
    BY <1>1, <2>3, CutList
  <2> HIDE DEF P
  <2> DEFINE x == of[s]
  <2>6. x = [rest |-> v, edges |-> P.rows, truncated |-> v.truncated \/ P.truncated]
    BY <2>1
  <2> HIDE DEF x
  <2>7. x.rest = v /\ x.edges = P.rows
    BY ONLY <2>6
  <2>8. x.truncated = (v.truncated \/ P.truncated)
    BY ONLY <2>6, Zenon
  <2>9. /\ x.rest = v
        /\ x.truncated <=> x.rest.truncated \/ Len(e) > q.limit
        /\ x.edges = Query!UpTo(e, q.limit)
        /\ Len(x.edges) < Len(e) <=> Len(e) > q.limit
    BY ONLY <2>4, <2>5, <2>7, <2>8, Zenon
  <2> QED
    BY ONLY <2>2, <2>9, Zenon DEF x, e, v
<1> HIDE DEF of, into
<1>4. ASSUME NEW s \in Query!Symbols
      PROVE  /\ of[s].truncated <=> Short(of[s].rest) \/ Len(of[s].edges) < of[s].rest.summary.edges
             /\ into[s].truncated <=> Short(into[s])
             /\ \A v \in {of[s].rest, into[s]} : v.summary.records = v.summary.inlined + v.summary.declined
  <2> DEFINE v == of[s].rest
             w == into[s]
  <2>1. /\ v = Query!InliningOf("caller", s)
        /\ of[s].truncated <=> v.truncated \/ Len(E(s)) > q.limit
        /\ w = Query!InliningOf("callee", s)
        /\ Len(of[s].edges) < Len(E(s)) <=> Len(E(s)) > q.limit
    BY <1>3, Zenon
  <2> HIDE DEF v, w
  <2>2. /\ v.truncated <=> Short(v)
        /\ v.summary.records = v.summary.inlined + v.summary.declined
        /\ v.summary.edges = Len(E(s))
    BY <1>2, <2>1, Zenon
  <2>3. /\ w.truncated <=> Short(w)
        /\ w.summary.records = w.summary.inlined + w.summary.declined
    BY <1>2, <2>1, Zenon
  <2>4. of[s].truncated <=> Short(v) \/ Len(of[s].edges) < v.summary.edges
    BY ONLY <2>1, <2>2, Zenon
  <2> QED
    BY ONLY <2>2, <2>3, <2>4, Zenon DEF v, w
<1>5. ASSUME NEW a \in Query!Symbols, NEW b \in Query!Symbols, ~of[a].truncated, ~into[b].truncated
      PROVE  /\ Query!RowsOf(of[a].rest.records, "callee", b) = Query!RowsOf(into[b].records, "caller", a)
             /\ Query!RowsOf(of[a].rest.instances, "callee", b) = Query!RowsOf(into[b].instances, "caller", a)
  <2> DEFINE v == of[a].rest
             w == into[b]
  <2>1. v = Query!InliningOf("caller", a) /\ ~v.truncated /\ w = Query!InliningOf("callee", b) /\ ~w.truncated
    BY <1>3, <1>5, Zenon
  <2> HIDE DEF v, w
  <2>2. v.records = R("caller", a) /\ v.instances = B("caller", a)
    BY <1>2, <2>1, Zenon
  <2>3. w.records = R("callee", b) /\ w.instances = B("callee", b)
    BY <1>2, <2>1, Zenon
  <2>4. /\ Query!RowsOf(R("caller", a), "callee", b) = Query!RowsOf(R("callee", b), "caller", a)
        /\ Query!RowsOf(B("caller", a), "callee", b) = Query!RowsOf(B("callee", b), "caller", a)
    <3>1. IsList(cat.remarks) /\ IsList(cat.bodies)
      BY <1>1, Zenon
    <3>2. Query!RowsOf(R("caller", a), "callee", b) = Query!RowsOf(R("callee", b), "caller", a)
      BY ONLY <3>1, ViewsMeet
    <3>3. Query!RowsOf(B("caller", a), "callee", b) = Query!RowsOf(B("callee", b), "caller", a)
      BY ONLY <3>1, ViewsMeet
    <3> QED
      BY ONLY <3>2, <3>3, Zenon
  <2> QED
    BY ONLY <2>2, <2>3, <2>4, Zenon DEF v, w
<1>6. Query!Told("describe_inlining") = of /\ Query!Told("list_inline_instances") = into
  BY DEF of, into
<1> QED
  BY ONLY <1>4, <1>5, <1>6, Zenon DEF Query!InliningAgrees

-----------------------------------------------------------------------------
(* find_type.                                                              *)

\* Two lists cut to one more than the page make the same page as the whole lists.
LEMMA CutTwo ==
    ASSUME NEW A, NEW t \in Seq(A), NEW c \in Seq(A), NEW n \in Nat
    PROVE  LET hits == Query!UpTo(t, n + 1) \o Query!UpTo(c, n + 1) IN
           /\ Query!UpTo(hits, n) = Query!UpTo(t \o c, n)
           /\ Len(hits) > n <=> Len(t \o c) > n
<1> DEFINE x == Query!UpTo(t, n + 1)
           y == Query!UpTo(c, n + 1)
           h == x \o y
           w == t \o c
<1>1. n + 1 \in Nat /\ Len(t) \in Nat /\ Len(c) \in Nat
  OBVIOUS
<1>2. /\ x \in Seq(A) /\ (Len(x) = IF Len(t) < n + 1 THEN Len(t) ELSE n + 1)
      /\ \A k \in 1..Len(x) : x[k] = t[k]
  BY <1>1, CutIs
<1>3. /\ y \in Seq(A) /\ (Len(y) = IF Len(c) < n + 1 THEN Len(c) ELSE n + 1)
      /\ \A k \in 1..Len(y) : y[k] = c[k]
  BY <1>1, CutIs
<1> HIDE DEF x, y
<1>4. /\ h \in Seq(A) /\ Len(h) = Len(x) + Len(y)
      /\ \A k \in 1..Len(x) : h[k] = x[k]
      /\ \A k \in 1..Len(y) : h[Len(x) + k] = y[k]
  <2>1. x \in Seq(A) /\ y \in Seq(A)
    BY <1>2, <1>3
  <2> QED
    BY ONLY <2>1
<1>5. /\ w \in Seq(A) /\ Len(w) = Len(t) + Len(c)
      /\ \A k \in 1..Len(t) : w[k] = t[k]
      /\ \A k \in 1..Len(c) : w[Len(t) + k] = c[k]
  OBVIOUS
<1> HIDE DEF h, w
<1> DEFINE a == Len(x)
           b == Len(y)
           d == Len(t)
           e == Len(c)
<1>6. /\ a \in Nat /\ b \in Nat /\ d \in Nat /\ e \in Nat /\ n \in Nat
      /\ a = (IF d < n + 1 THEN d ELSE n + 1) /\ b = (IF e < n + 1 THEN e ELSE n + 1)
      /\ Len(h) = a + b /\ Len(w) = d + e
  BY <1>1, <1>2, <1>3, <1>4, <1>5
<1>7. /\ \A k \in 1..a : h[k] = t[k]
      /\ \A k \in 1..b : h[a + k] = c[k]
      /\ \A k \in 1..d : w[k] = t[k]
      /\ \A k \in 1..e : w[d + k] = c[k]
  BY <1>2, <1>3, <1>4, <1>5, Zenon
<1> HIDE DEF a, b, d, e
<1>8. Len(h) > n <=> Len(w) > n
  BY ONLY <1>6
<1> DEFINE m == IF Len(h) < n THEN Len(h) ELSE n
<1>9. m = (IF Len(w) < n THEN Len(w) ELSE n) /\ m \in Nat /\ m <= n /\ m <= a + b /\ m <= d + e
  BY ONLY <1>6
<1> HIDE DEF m
<1>10. ASSUME NEW k \in 1..m
       PROVE  h[k] = w[k]
  <2>1. CASE k <= d
    <3>1. k \in 1..a /\ k \in 1..d
      BY ONLY <1>6, <1>9, <2>1, k \in 1..m
    <3> QED
      BY <1>7, <3>1
  <2>2. CASE k > d
    <3>1. a = d /\ k - d \in 1..b /\ k - d \in 1..e /\ d + (k - d) = k
      BY ONLY <1>6, <1>9, <2>2, k \in 1..m
    <3> DEFINE j == k - d
    <3>2. a = d /\ j \in 1..b /\ j \in 1..e /\ d + j = k
      BY <3>1
    <3> HIDE DEF j
    <3>3. h[a + j] = c[j] /\ w[d + j] = c[j]
      BY <1>7, <3>2
    <3> QED
      BY ONLY <3>2, <3>3
  <2> QED
    BY <1>6, <1>9, <2>1, <2>2
<1>11. /\ Query!UpTo(h, n) \in Seq(A) /\ Len(Query!UpTo(h, n)) = m
       /\ \A k \in 1..m : Query!UpTo(h, n)[k] = h[k]
  BY <1>4, CutIs, Zenon DEF m
<1>12. /\ Query!UpTo(w, n) \in Seq(A) /\ Len(Query!UpTo(w, n)) = m
       /\ \A k \in 1..m : Query!UpTo(w, n)[k] = w[k]
  <2>1. /\ Query!UpTo(w, n) \in Seq(A)
        /\ Len(Query!UpTo(w, n)) = IF Len(w) < n THEN Len(w) ELSE n
        /\ \A k \in 1..Len(Query!UpTo(w, n)) : Query!UpTo(w, n)[k] = w[k]
    BY <1>5, CutIs
  <2>2. Len(Query!UpTo(w, n)) = m
    BY ONLY <1>9, <2>1, Zenon
  <2> QED
    BY ONLY <2>1, <2>2
<1>13. Query!UpTo(h, n) = Query!UpTo(w, n)
  BY ONLY <1>10, <1>11, <1>12
<1> QED
  BY <1>8, <1>13 DEF h, w, x, y

\* A list is a sequence of its members.
LEMMA ListIs ==
    ASSUME NEW s, IsList(s), NEW A, \A k \in DOMAIN s : s[k] \in A
    PROVE  s \in Seq(A) /\ Len(s) \in Nat /\ DOMAIN s = 1..Len(s)
<1>1. Len(s) \in Nat /\ s = [k \in 1..Len(s) |-> s[k]] /\ DOMAIN s = 1..Len(s)
  BY DEF IsList
<1>2. s \in [1..Len(s) -> A]
  BY <1>1
<1> QED
  BY <1>1, <1>2

\* find_type of no kind is a page of both lists, and holds nothing the other kinds miss.
LEMMA TypesTrue ==
    ASSUME KnownTarget, Query!Told("find_type") = TypesTold
    PROVE  Query!TypesAgree
<1> DEFINE t == cat.types
           c == cat.constants
           n == q.limit
           A == {t[k] : k \in DOMAIN t} \cup {c[k] : k \in DOMAIN c}
           S == {k \in DOMAIN t : t[k].kind = "struct"}
           found == TypesTold
           w == t \o c
<1>1. n \in Nat /\ IsList(t) /\ IsList(c)
  BY QueryFacts, TablesAre
<1>2. t \in Seq(A) /\ c \in Seq(A) /\ DOMAIN t = 1..Len(t) /\ DOMAIN c = 1..Len(c) /\ Len(t) \in Nat
  BY <1>1, ListIs
<1>3. /\ \A k \in DOMAIN t : t[k].kind # "enum_constant"
      /\ \A k \in DOMAIN c : c[k].kind = "enum_constant"
  BY QueryAssumption DEF KnownTarget
<1>4. Query!Selected(DOMAIN t, t) = t
  <2>1. Selected(1..Len(t), t) = [k \in 1..Len(t) |-> t[k]]
    BY <1>2, SelectedAll, Zenon
  <2> QED
    BY <1>1, <1>2, <2>1, QueryOperators DEF IsList
<1>5. Query!TypeHits("", n) = Query!UpTo(t, n + 1) \o Query!UpTo(c, n + 1)
  <2>1. {k \in DOMAIN t : "" \in {"", t[k].kind}} = DOMAIN t
    OBVIOUS
  <2> QED
    BY <1>4, <2>1, Zenon DEF Query!TypeHits
<1>6. Query!TypeHits("struct", n) = Query!UpTo(Selected(S, t), n + 1)
  <2>1. {k \in DOMAIN t : "struct" \in {"", t[k].kind}} = S
    OBVIOUS
  <2>2. Query!TypeHits("struct", n) = Query!UpTo(Selected(S, t), n + 1) \o <<>>
    BY <2>1, QueryOperators DEF Query!TypeHits
  <2>3. S \in SUBSET (DOMAIN t)
    OBVIOUS
  <2> HIDE DEF S
  <2>4. Selected(S, t) \in Seq({t[k] : k \in S}) /\ n + 1 \in Nat
    BY <1>1, <2>3, SelectedRows
  <2>5. Query!UpTo(Selected(S, t), n + 1) \in Seq({t[k] : k \in S})
    BY <2>4, CutIs
  <2> QED
    BY <2>2, <2>5
<1>7. Query!TypeHits("enum_constant", n) = Query!UpTo(c, n + 1)
  <2>1. Query!TypeHits("enum_constant", n) = <<>> \o Query!UpTo(c, n + 1)
    BY DEF Query!TypeHits
  <2>2. Query!UpTo(c, n + 1) \in Seq(A)
    BY <1>1, <1>2, CutIs
  <2> QED
    BY <2>1, <2>2
<1>8. \A k \in Query!Kinds : /\ found[k].rows = Query!UpTo(Query!TypeHits(k, n), n)
                             /\ found[k].truncated <=> Len(Query!TypeHits(k, n)) > n
  BY Zenon DEF TypesTold
<1>9. "" \in Query!Kinds /\ "struct" \in Query!Kinds /\ "enum_constant" \in Query!Kinds
      /\ \A k \in Query!Kinds \ {""} : k = "struct" \/ k = "enum_constant"
  BY Zenon DEF Query!Kinds
<1>10. found[""].rows = Query!UpTo(w, n) /\ (found[""].truncated <=> Len(w) > n)
  <2>1. LET hits == Query!UpTo(t, n + 1) \o Query!UpTo(c, n + 1) IN
        Query!UpTo(hits, n) = Query!UpTo(w, n) /\ (Len(hits) > n <=> Len(w) > n)
    BY <1>1, <1>2, CutTwo, Zenon
  <2> HIDE DEF w, found, t, c, n
  <2> QED
    BY <1>5, <1>8, <1>9, <2>1, Zenon
\* A list that is not cut by the page is not cut by one more either.
<1>11. ASSUME NEW B, NEW s \in Seq(B), NEW k \in Query!Kinds,
              Query!TypeHits(k, n) = Query!UpTo(s, n + 1), ~found[k].truncated
       PROVE  found[k].rows = s
  <2> DEFINE u == Query!UpTo(s, n + 1)
  <2>1. n + 1 \in Nat /\ Len(s) \in Nat
    BY <1>1
  <2>2. /\ u \in Seq(B) /\ Len(u) = (IF Len(s) < n + 1 THEN Len(s) ELSE n + 1)
        /\ Len(s) <= n + 1 => u = s
    BY <2>1, CutIs
  <2>3. ~(Len(u) > n) /\ found[k].rows = Query!UpTo(u, n)
    BY <1>8, <1>11
  <2> HIDE DEF u, n
  <2>4. Len(s) <= n + 1 /\ Len(u) <= n
    BY ONLY <1>1, <2>1, <2>2, <2>3
  <2>5. Query!UpTo(u, n) = u
    BY <1>1, <2>2, <2>4, CutIs
  <2> QED
    BY ONLY <2>2, <2>3, <2>4, <2>5
<1>12. \A h \in Query!ToSet(found[""].rows) : (\E k \in DOMAIN t : h = t[k]) \/ (\E k \in DOMAIN c : h = c[k])
  <2> DEFINE u == Query!UpTo(w, n)
  <2>1. w \in Seq(A)
    BY <1>2
  <2> HIDE DEF w, A
  <2>2. u \in Seq(A)
    BY <1>1, <2>1, CutIs
  <2> HIDE DEF u
  <2>3. \A k \in DOMAIN u : u[k] \in A
    BY ONLY <2>2
  <2>4. Query!ToSet(found[""].rows) = {u[k] : k \in DOMAIN u}
    BY <1>10, QueryOperators, Zenon DEF u
  <2>5. \A h \in Query!ToSet(found[""].rows) : h \in A
    BY ONLY <2>3, <2>4, Zenon
  <2> QED
    BY <2>5, Zenon DEF A
<1>13. ASSUME ~found["struct"].truncated, NEW h \in Query!ToSet(found[""].rows), h.kind = "struct"
       PROVE  h \in Query!ToSet(found["struct"].rows)
  <2> DEFINE s == Selected(S, t)
  <2>1. PICK k \in DOMAIN t : h = t[k]
    BY <1>3, <1>12, <1>13, Zenon
  <2>2. k \in S /\ S \in SUBSET (DOMAIN t)
    BY <1>13, <2>1, Zenon
  <2> HIDE DEF S
  <2>3. s \in Seq({t[i] : i \in S}) /\ S \in SUBSET Nat /\ IsFiniteSet(S)
    BY <1>1, <2>2, SelectedRows, Zenon
  <2>4. \E x \in DOMAIN s : s[x] = t[k]
    <3> HIDE DEF t
    <3>1. \A i \in S : \E x \in 1..Cardinality(S) : Selected(S, t)[x] = t[i]
      BY <2>3, SelectedHolds, Zenon
    <3>2. DOMAIN Selected(S, t) = 1..Cardinality(S)
      BY <1>1, <2>2, SelectedRows, Zenon
    <3> QED
      BY ONLY <2>2, <3>1, <3>2, Zenon
  <2> HIDE DEF s
  <2>5. found["struct"].rows = s
    BY <1>6, <1>9, <1>11, <1>13, <2>3, Zenon DEF s
  <2> QED
    BY <2>1, <2>4, <2>5, QueryOperators, Zenon
<1>14. ASSUME ~found["enum_constant"].truncated, NEW h \in Query!ToSet(found[""].rows),
              h.kind = "enum_constant"
       PROVE  h \in Query!ToSet(found["enum_constant"].rows)
  <2>3. ~(\E k \in DOMAIN t : h = t[k])
    BY ONLY <1>3, <1>14, Zenon
  <2>1. PICK k \in DOMAIN c : h = c[k]
    BY ONLY <1>12, <2>3, h \in Query!ToSet(found[""].rows), Zenon
  <2>2. found["enum_constant"].rows = c
    BY <1>2, <1>7, <1>9, <1>11, <1>14, Zenon
  <2> QED
    BY <2>1, <2>2, QueryOperators, Zenon
<1>15. Query!Told("find_type") = found
  OBVIOUS
<1> HIDE DEF found
<1> QED
  BY <1>9, <1>10, <1>13, <1>14, <1>15, Zenon DEF Query!TypesAgree

-----------------------------------------------------------------------------
(* list_entry_points: the first row of each symbol.                        *)

\* Where the rows of each symbol begin.
Starts(ss) == [k \in 1..Len(ss) |-> Ends(ss)[k - 1] + 1]

\* ss[k] are rows, at least one, of which the field is v[k], and no two v are the same.
RowsByKey(ss, field, v) ==
    /\ \A k \in 1..Len(ss) : Len(ss[k]) > 0 /\ \A i \in 1..Len(ss[k]) : ss[k][i][field] = v[k]
    /\ \A j, k \in 1..Len(ss) : v[j] = v[k] => j = k

\* The first rows with their key are those the keys' rows begin with.
LEMMA FirstsAre ==
    ASSUME NEW A, NEW ss \in Seq(Seq(A)), NEW field, NEW v, RowsByKey(ss, field, v)
    PROVE  /\ Query!FirstRows(Joined(ss), field) = {Starts(ss)[k] : k \in 1..Len(ss)}
           /\ \A k \in 1..Len(ss) : Starts(ss)[k] \in Nat /\ Joined(ss)[Starts(ss)[k]] = ss[k][1]
           /\ \A j, k \in 1..Len(ss) : j < k => Starts(ss)[j] < Starts(ss)[k]
<1> DEFINE N == Len(ss)
           J == Joined(ss)
           En == Ends(ss)
           e == Starts(ss)
           F == Query!FirstRows(J, field)
<1>1. N \in Nat /\ En \in [0..N -> Nat] /\ \A k \in 1..N : En[k] = En[k - 1] + Len(ss[k])
  BY EndsIs
<1>2. /\ En[N] \in Nat
      /\ J \in [1..En[N] -> A]
      /\ \A k \in 1..N : \A i \in 1..Len(ss[k]) :
            En[k - 1] + i \in 1..En[N] /\ J[En[k - 1] + i] = ss[k][i]
      /\ \A x \in 1..En[N] : \E k \in 1..N : \E i \in 1..Len(ss[k]) : x = En[k - 1] + i
  BY JoinedIs, Zenon
<1>3. \A k \in 1..N : k - 1 \in 0..N /\ Len(ss[k]) \in Nat
  BY <1>1
<1>4. \A k \in 1..N : En[k - 1] \in Nat /\ 1 \in 1..Len(ss[k])
  <2>1. \A k \in 1..N : Len(ss[k]) > 0
    BY DEF RowsByKey
  <2> SUFFICES ASSUME NEW k \in 1..N
               PROVE  En[k - 1] \in Nat /\ 1 \in 1..Len(ss[k])
    OBVIOUS
  <2> HIDE DEF En, N
  <2>2. En[k - 1] \in Nat
    BY ONLY <1>1, <1>3, k \in 1..N
  <2>3. 1 \in 1..Len(ss[k])
    BY ONLY <1>3, <2>1, k \in 1..N
  <2> QED
    BY <2>2, <2>3
<1>5. \A j, k \in 1..N : j < k => En[j] <= En[k - 1]
  <2> SUFFICES ASSUME NEW j \in 1..N, NEW k \in 1..N, j < k
               PROVE  En[j] <= En[k - 1]
    OBVIOUS
  <2>1. j \in 0..N /\ k - 1 \in 0..N /\ j <= k - 1
    BY <1>1
  <2> QED
    BY <2>1, EndsGrow
<1>6. DOMAIN J = 1..En[N]
  BY <1>2
<1>7. \A k \in 1..N : e[k] = En[k - 1] + 1
  BY DEF Starts
<1>8. F = {x \in 1..En[N] : \A y \in 1..En[N] : y < x => J[y][field] # J[x][field]}
  BY <1>6 DEF Query!FirstRows
<1>9. /\ \A k \in 1..N : \A i \in 1..Len(ss[k]) : ss[k][i][field] = v[k]
      /\ \A j, k \in 1..N : v[j] = v[k] => j = k
      /\ \A k \in 1..N : Len(ss[k]) > 0
  BY Zenon DEF RowsByKey
<1> HIDE DEF N, J, En, e, F
<1>10. \A k \in 1..N : e[k] \in Nat /\ e[k] \in 1..En[N] /\ J[e[k]] = ss[k][1]
  <2> SUFFICES ASSUME NEW k \in 1..N
               PROVE  e[k] \in Nat /\ e[k] \in 1..En[N] /\ J[e[k]] = ss[k][1]
    OBVIOUS
  <2>1. 1 \in 1..Len(ss[k]) /\ e[k] = En[k - 1] + 1 /\ En[k - 1] \in Nat
    BY <1>4, <1>7
  <2>2. En[k - 1] + 1 \in 1..En[N] /\ J[En[k - 1] + 1] = ss[k][1]
    BY <1>2, <2>1
  <2> QED
    BY <2>1, <2>2
<1>11. \A j, k \in 1..N : j < k => e[j] < e[k]
  <2> SUFFICES ASSUME NEW j \in 1..N, NEW k \in 1..N, j < k
               PROVE  e[j] < e[k]
    OBVIOUS
  <2>1. En[j] <= En[k - 1] /\ En[j] = En[j - 1] + Len(ss[j]) /\ Len(ss[j]) > 0 /\ Len(ss[j]) \in Nat
    BY <1>1, <1>3, <1>5, <1>9, Zenon
  <2>2. e[j] = En[j - 1] + 1 /\ e[k] = En[k - 1] + 1 /\ En[j - 1] \in Nat /\ En[k - 1] \in Nat
    BY <1>4, <1>7
  <2> DEFINE a == En[j - 1]
             b == En[k - 1]
             c == En[j]
             l == Len(ss[j])
  <2>3. c <= b /\ c = a + l /\ l > 0 /\ l \in Nat /\ e[j] = a + 1 /\ e[k] = b + 1 /\ a \in Nat /\ b \in Nat
    BY <2>1, <2>2
  <2> HIDE DEF a, b, c, l
  <2> QED
    BY ONLY <2>3
<1>12. ASSUME NEW x \in F
       PROVE  \E k \in 1..N : x = e[k]
  <2>1. x \in 1..En[N] /\ \A y \in 1..En[N] : y < x => J[y][field] # J[x][field]
    BY <1>8
  <2>2. PICK k \in 1..N : \E i \in 1..Len(ss[k]) : x = En[k - 1] + i
    BY <1>2, <2>1, Zenon
  <2>3. PICK i \in 1..Len(ss[k]) : x = En[k - 1] + i
    BY <2>2
  <2>4. J[x] = ss[k][i] /\ J[e[k]] = ss[k][1] /\ e[k] \in 1..En[N]
    BY <1>2, <1>10, <2>3, Zenon
  <2>5. J[x][field] = J[e[k]][field]
    BY <1>4, <1>9, <2>4
  <2>6. ~(e[k] < x)
    BY <2>1, <2>4, <2>5, Zenon
  <2>7. e[k] = En[k - 1] + 1 /\ En[k - 1] \in Nat /\ i \in Nat /\ i >= 1
    BY <1>3, <1>4, <1>7
  <2>8. x = e[k]
    BY <2>3, <2>6, <2>7
  <2> QED
    BY <2>8
<1>13. ASSUME NEW k \in 1..N
       PROVE  e[k] \in F
  <2>1. e[k] \in 1..En[N] /\ J[e[k]] = ss[k][1] /\ 1 \in 1..Len(ss[k])
    BY <1>4, <1>10
  <2>2. J[e[k]][field] = v[k]
    BY <1>9, <2>1
  <2>3. ASSUME NEW y \in 1..En[N], y < e[k], J[y][field] = J[e[k]][field]
        PROVE  FALSE
    <3>1. PICK j \in 1..N : \E i \in 1..Len(ss[j]) : y = En[j - 1] + i
      BY <1>2, Zenon
    <3>2. PICK i \in 1..Len(ss[j]) : y = En[j - 1] + i
      BY <3>1
    <3>3. J[y] = ss[j][i] /\ ss[j][i][field] = v[j]
      BY <1>2, <1>9, <3>2
    <3>4. j = k
      BY <1>9, <2>2, <2>3, <3>3
    <3>5. e[k] = En[k - 1] + 1 /\ En[k - 1] \in Nat /\ i \in Nat /\ i >= 1 /\ y = En[k - 1] + i
      BY <1>3, <1>4, <1>7, <3>2, <3>4
    <3> DEFINE a == En[k - 1]
    <3>6. e[k] = a + 1 /\ a \in Nat /\ i \in Nat /\ i >= 1 /\ y = a + i /\ y < e[k]
      BY <2>3, <3>5
    <3> HIDE DEF a
    <3> QED
      BY ONLY <3>6
  <2> QED
    BY <1>8, <2>1, <2>3
<1>14. F = {e[k] : k \in 1..N}
  BY <1>12, <1>13
<1> QED
  BY <1>10, <1>11, <1>14, Zenon DEF N, J, e, F

\* One row of each key, in the order of the keys.
LEMMA DistinctIs ==
    ASSUME NEW A, NEW ss \in Seq(Seq(A)), NEW field, NEW v, RowsByKey(ss, field, v)
    PROVE  LET d == Selected(Query!FirstRows(Joined(ss), field), Joined(ss)) IN
           /\ d \in Seq(A) /\ Len(d) = Len(ss)
           /\ \A k \in 1..Len(ss) : d[k][field] = v[k]
<1> DEFINE N == Len(ss)
           J == Joined(ss)
           e == Starts(ss)
           F == Query!FirstRows(J, field)
           d == Selected(F, J)
<1>1. /\ F = {e[k] : k \in 1..N}
      /\ \A k \in 1..N : e[k] \in Nat /\ J[e[k]] = ss[k][1]
      /\ \A j, k \in 1..N : j < k => e[j] < e[k]
  BY FirstsAre
<1>2. N \in Nat /\ \A k \in 1..N : ss[k] \in Seq(A)
  OBVIOUS
<1>3. /\ \A k \in 1..N : Len(ss[k]) > 0
      /\ \A k \in 1..N : \A i \in 1..Len(ss[k]) : ss[k][i][field] = v[k]
  BY Zenon DEF RowsByKey
<1>4. \A k \in 1..N : ss[k][1] \in A /\ ss[k][1][field] = v[k]
  <2> SUFFICES ASSUME NEW k \in 1..N
               PROVE  ss[k][1] \in A /\ ss[k][1][field] = v[k]
    OBVIOUS
  <2> DEFINE r == ss[k]
  <2>1. r \in Seq(A) /\ Len(r) > 0
    BY <1>2, <1>3
  <2> HIDE DEF r
  <2>2. 1 \in 1..Len(r) /\ r[1] \in A
    BY ONLY <2>1
  <2> QED
    BY <1>3, <2>2 DEF r
<1> HIDE DEF N, J, e, F
<1>5. F = Images(e, 1..N)
  BY <1>1, Zenon DEF Images
<1>6. Selected(Images(e, 1..N), J) = [k \in 1..N |-> J[e[k]]]
  <2>1. \A i \in 1..N : e[i] \in Nat
    BY <1>1
  <2>2. \A i, j \in 1..N : i < j => e[i] < e[j]
    BY <1>1
  <2> QED
    BY ONLY <1>2, <2>1, <2>2, SelectedInTurn
<1>7. d = [k \in 1..N |-> J[e[k]]]
  BY <1>5, <1>6
<1> HIDE DEF d
<1>8. d \in [1..N -> A] /\ \A k \in 1..N : d[k][field] = v[k]
  BY ONLY <1>1, <1>4, <1>7, Zenon
<1>9. d \in Seq(A) /\ Len(d) = N
  BY ONLY <1>2, <1>8
<1> QED
  BY <1>8, <1>9 DEF d, F, J, N


\* The rows of one symbol: at least one, all of that symbol.
LEMMA DefRowsAre ==
    ASSUME KnownTarget, NEW s \in Query!Symbols
    PROVE  /\ IsList(Query!DefRows(s)) /\ Len(Query!DefRows(s)) > 0
           /\ \A k \in 1..Len(Query!DefRows(s)) : Query!DefRows(s)[k]["sym"] = s
<1> DEFINE defs == cat.defs[s]
           r == Query!DefRows(s)
<1>1. IsList(defs)
  BY TablesAre
<1>2. CASE defs = <<>>
  <2> DEFINE x == [sym |-> s, file |-> ""]
  <2>1. r = <<x>> /\ x["sym"] = s
    BY <1>2 DEF Query!DefRows
  <2> HIDE DEF r, x
  <2>2. Len(r) = 1 /\ r[1] = x
    BY ONLY <2>1
  <2>3. r = [k \in 1..1 |-> r[k]]
    BY ONLY <2>1
  <2>4. \A k \in 1..Len(r) : k = 1
    BY ONLY <2>2
  <2> QED
    BY <2>1, <2>2, <2>3, <2>4 DEF IsList, r
<1>3. CASE defs # <<>>
  <2>1. Len(defs) \in Nat /\ DOMAIN defs = 1..Len(defs) /\ defs = [k \in 1..Len(defs) |-> defs[k]]
    BY <1>1 DEF IsList
  <2>2. r = [k \in 1..Len(defs) |-> [sym |-> s, file |-> defs[k].file]]
    BY <1>3, <2>1 DEF Query!DefRows
  <2>3. Len(defs) > 0
    BY <1>3, <2>1
  <2> DEFINE n == Len(defs)
  <2>4. n \in Nat /\ n > 0 /\ r = [k \in 1..n |-> [sym |-> s, file |-> defs[k].file]]
    BY <2>1, <2>2, <2>3
  <2> HIDE DEF n, r, defs
  <2>5. Len(r) = n /\ r = [k \in 1..n |-> r[k]] /\ \A k \in 1..n : r[k]["sym"] = s
    BY ONLY <2>4
  <2> QED
    BY <2>4, <2>5 DEF r, IsList
<1> QED
  BY <1>2, <1>3

\* The entry points without main.
Roots == Query!EntrySymbols(q.target) \ {Main}
EntryNames == Query!MainFirst(Query!EntrySymbols(q.target))

\* main comes first, then the others by name.
LEMMA NamesAre ==
    ASSUME KnownTarget
    PROVE  /\ Roots \in SUBSET Query!Symbols
           /\ Roots \in SUBSET Nat /\ IsFiniteSet(Roots) /\ Cardinality(Roots) \in Nat
           /\ Query!Sorted(Roots) \in Seq(Query!Symbols) /\ Len(Query!Sorted(Roots)) = Cardinality(Roots)
           /\ EntryNames \in Seq(Query!Symbols)
           /\ Main \in Here => EntryNames = <<Main>> \o Query!Sorted(Roots)
           /\ Main \notin Here => EntryNames = Query!Sorted(Roots)
           /\ \A j, k \in 1..Len(EntryNames) : EntryNames[j] = EntryNames[k] => j = k
<1> DEFINE o == Query!Sorted(Roots)
           c == Cardinality(Roots)
           Y == Query!Symbols
<1>1. Here \subseteq Y /\ Roots \in SUBSET Here /\ Main \notin Roots
  BY QueryFacts DEF Roots, Query!EntrySymbols, Here
<1>2. Roots \in SUBSET Y
  BY <1>1
<1>3. Roots \in SUBSET Nat /\ IsFiniteSet(Roots)
  BY <1>2, SymbolSets
<1>4. /\ c \in Nat
      /\ o \in Seq(Roots) /\ Len(o) = c
      /\ \A r, t \in 1..c : r < t => o[r] < o[t]
  BY <1>3, SortedIs
<1>5. Main \in Query!EntrySymbols(q.target) <=> Main \in Here
  BY DEF Query!EntrySymbols, Here
<1>6. EntryNames = (IF Main \in Here THEN <<Main>> ELSE <<>>) \o o
  BY <1>5 DEF EntryNames, Query!MainFirst, Roots
<1> HIDE DEF o, c, Y
<1>7. o \in Seq(Y) /\ \A k \in 1..c : o[k] \in Roots
  BY <1>2, <1>4
<1>8. \A j, k \in 1..c : o[j] = o[k] => j = k
  <2> SUFFICES ASSUME NEW j \in 1..c, NEW k \in 1..c, j < k
               PROVE  o[j] # o[k]
    BY <1>4
  <2>1. o[j] < o[k] /\ o[j] \in Nat /\ o[k] \in Nat
    BY <1>3, <1>4, <1>7, Zenon
  <2> QED
    BY ONLY <2>1
<1>9. CASE Main \in Here
  <2> DEFINE w == <<Main>> \o o
  <2>1. Main \in Y /\ EntryNames = w
    BY <1>1, <1>6, <1>9
  <2>2. w \in Seq(Y) /\ Len(w) = c + 1 /\ w[1] = Main /\ \A k \in 1..c : w[k + 1] = o[k]
    BY <1>4, <1>7, <2>1
  <2> HIDE DEF w
  <2>3. ASSUME NEW k \in 2..(c + 1)
        PROVE  k - 1 \in 1..c /\ w[k] = o[k - 1]
    <3> DEFINE i == k - 1
    <3>1. i \in 1..c /\ k = i + 1
      BY <1>4
    <3> HIDE DEF i
    <3>2. w[i + 1] = o[i]
      BY <2>2, <3>1
    <3> QED
      BY <3>1, <3>2 DEF i
  <2>4. \A k \in 2..(c + 1) : w[k] # Main
    BY <1>1, <1>7, <2>3
  <2>5. \A j, k \in 2..(c + 1) : w[j] = w[k] => j = k
    <3> SUFFICES ASSUME NEW j \in 2..(c + 1), NEW k \in 2..(c + 1), w[j] = w[k]
                 PROVE  j = k
      OBVIOUS
    <3>1. j - 1 = k - 1
      BY <1>8, <2>3
    <3> QED
      BY <1>4, <3>1
  <2>6. \A k \in 1..Len(w) : k = 1 \/ k \in 2..(c + 1)
    BY <1>4, <2>2
  <2>7. \A j, k \in 1..Len(w) : w[j] = w[k] => j = k
    BY ONLY <2>2, <2>4, <2>5, <2>6
  <2> QED
    BY <1>2, <1>3, <1>4, <1>7, <1>9, <2>1, <2>2, <2>7 DEF w, o, c, Y
<1>10. CASE Main \notin Here
  <2>1. EntryNames = <<>> \o o
    BY <1>6, <1>10
  <2>2. EntryNames = o
    BY <1>7, <2>1
  <2> QED
    BY <1>2, <1>3, <1>4, <1>7, <1>8, <1>10, <2>2 DEF o, c, Y
<1> QED
  BY <1>9, <1>10


\* The first rows of the entry points, in the order of their names.
EntryFirsts == Selected(Query!FirstRows(Query!EntryRows(q.target), "sym"), Query!EntryRows(q.target))

\* There is one for each name, and the page is cut from them.
LEMMA FirstsTold ==
    ASSUME KnownTarget
    PROVE  /\ \E A : EntryFirsts \in Seq(A)
           /\ Len(EntryFirsts) = Len(EntryNames)
           /\ \A k \in 1..Len(EntryNames) : EntryFirsts[k]["sym"] = EntryNames[k]
           /\ EntriesPage = Query!Page(EntryFirsts, q.limit)
<1> DEFINE v == EntryNames
           Y == Query!Symbols
           ss == [k \in DOMAIN v |-> Query!DefRows(v[k])]
           A == UNION {{Query!DefRows(s)[k] : k \in DOMAIN Query!DefRows(s)} : s \in Y}
<1>1. v \in Seq(Y) /\ \A j, k \in 1..Len(v) : v[j] = v[k] => j = k
  BY NamesAre
<1>2. Query!EntryRows(q.target) = Joined(ss)
  BY QueryOperators DEF Query!EntryRows, EntryNames
<1> HIDE DEF v
<1>3. ASSUME NEW s \in Y
      PROVE  Query!DefRows(s) \in Seq(A)
  <2>1. IsList(Query!DefRows(s))
    BY DefRowsAre
  <2>2. \A k \in DOMAIN Query!DefRows(s) : Query!DefRows(s)[k] \in A
    OBVIOUS
  <2> HIDE DEF A
  <2> QED
    BY <2>1, <2>2, ListIs
<1> HIDE DEF A
<1>4. DOMAIN v = 1..Len(v) /\ Len(v) \in Nat /\ \A k \in 1..Len(v) : v[k] \in Y
  BY ONLY <1>1
<1>5. ss = [k \in 1..Len(v) |-> Query!DefRows(v[k])]
  BY <1>4
<1> HIDE DEF ss
<1>6. ss \in [1..Len(v) -> Seq(A)] /\ \A k \in 1..Len(v) : ss[k] = Query!DefRows(v[k])
  BY ONLY <1>3, <1>4, <1>5
<1>7. ss \in Seq(Seq(A)) /\ Len(ss) = Len(v)
  BY ONLY <1>4, <1>6
<1>8. ASSUME NEW k \in 1..Len(v)
      PROVE  Len(ss[k]) > 0 /\ \A i \in 1..Len(ss[k]) : ss[k][i]["sym"] = v[k]
  <2>1. v[k] \in Query!Symbols
    BY <1>4
  <2>2. /\ Len(Query!DefRows(v[k])) > 0
        /\ \A i \in 1..Len(Query!DefRows(v[k])) : Query!DefRows(v[k])[i]["sym"] = v[k]
    BY <2>1, DefRowsAre
  <2> QED
    BY <1>6, <2>2
<1>9. RowsByKey(ss, "sym", v)
  BY <1>1, <1>7, <1>8 DEF RowsByKey
<1>10. LET d == Selected(Query!FirstRows(Joined(ss), "sym"), Joined(ss)) IN
       /\ d \in Seq(A) /\ Len(d) = Len(ss)
       /\ \A k \in 1..Len(ss) : d[k]["sym"] = v[k]
  BY <1>7, <1>9, DistinctIs
<1>11. EntryFirsts = Selected(Query!FirstRows(Joined(ss), "sym"), Joined(ss))
  BY <1>2 DEF EntryFirsts
<1>12. /\ EntryFirsts \in Seq(A) /\ Len(EntryFirsts) = Len(v)
       /\ \A k \in 1..Len(v) : EntryFirsts[k]["sym"] = v[k]
  BY <1>7, <1>10, <1>11
<1>13. EntriesPage = Query!Page(EntryFirsts, q.limit)
  <2>1. EntriesCut = Query!UpTo(EntryFirsts, q.limit + 1)
    BY QueryOperators DEF EntriesCut, Query!Distinct, EntryFirsts
  <2> QED
    BY <2>1, Zenon DEF EntriesPage, Query!Page
<1> QED
  BY <1>12, <1>13 DEF v

\* A record of a page with other rows.
LEMMA OtherRows ==
    ASSUME NEW a, NEW r, NEW t, NEW x
    PROVE  [[refused |-> a, rows |-> r, truncated |-> t] EXCEPT !.rows = x] =
               [refused |-> a, rows |-> x, truncated |-> t]
OBVIOUS

\* The names on the page of entry points.
LEMMA EntryPageIs ==
    ASSUME KnownTarget, Query!Told("list_entry_points") = EntriesPage
    PROVE  /\ Query!EntryPage = [refused |-> EntriesPage.refused, rows |-> Query!UpTo(EntryNames, q.limit),
                                 truncated |-> EntriesPage.truncated]
           /\ EntriesPage.truncated <=> Len(EntryNames) > q.limit
<1> DEFINE n == q.limit
           d == EntryFirsts
           v == EntryNames
           u == Query!UpTo(d, n)
           w == Query!UpTo(v, n)
           a == EntriesPage.refused
           t == EntriesPage.truncated
           x == [k \in DOMAIN u |-> u[k].sym]
<1>1. n \in Nat /\ v \in Seq(Query!Symbols)
  BY QueryFacts, NamesAre, Zenon
<1>2. /\ Len(d) = Len(v)
      /\ \A k \in 1..Len(v) : d[k]["sym"] = v[k]
      /\ EntriesPage = Query!Page(d, n)
  BY FirstsTold
<1>3. PICK A : d \in Seq(A)
  BY FirstsTold
<1> HIDE DEF d, v, n
<1>4. EntriesPage.rows = u /\ (t <=> Len(d) > n)
  BY <1>1, <1>2, <1>3, PageIs
<1>5. EntriesPage = [refused |-> a, rows |-> u, truncated |-> t]
  <2> DEFINE z == Len(EntriesCut) > q.limit
             y == Query!UpTo(EntriesCut, q.limit)
             no == FALSE
  <2>1. EntriesPage = [refused |-> no, rows |-> y, truncated |-> z]
    BY DEF EntriesPage
  <2> HIDE DEF z, y, no, u
  <2> DEFINE p == EntriesPage
  <2>2. p = [refused |-> no, rows |-> y, truncated |-> z] /\ p.rows = u
    BY <1>4, <2>1
  <2> HIDE DEF p
  <2>3. p.refused = no /\ p.rows = y /\ p.truncated = z
    BY ONLY <2>2
  <2>4. p = [refused |-> p.refused, rows |-> u, truncated |-> p.truncated]
    BY ONLY <2>2, <2>3, Zenon
  <2> QED
    BY <2>4 DEF p
<1>6. /\ u \in Seq(A) /\ Len(u) = (IF Len(d) < n THEN Len(d) ELSE n)
      /\ \A k \in 1..Len(u) : u[k] = d[k]
  BY <1>1, <1>3, CutIs
<1>7. /\ w \in Seq(Query!Symbols) /\ Len(w) = (IF Len(v) < n THEN Len(v) ELSE n)
      /\ \A k \in 1..Len(w) : w[k] = v[k]
  BY <1>1, CutIs
<1> HIDE DEF u, w
<1>8. Len(u) = Len(w) /\ Len(w) \in Nat /\ Len(w) <= Len(v) /\ Len(v) \in Nat
  BY ONLY <1>1, <1>2, <1>6, <1>7
<1>9. ASSUME NEW k \in 1..Len(w)
      PROVE  u[k].sym = w[k]
  <2>1. k \in 1..Len(v) /\ k \in 1..Len(u)
    BY ONLY <1>8, k \in 1..Len(w)
  <2>2. u[k] = d[k] /\ d[k]["sym"] = v[k] /\ w[k] = v[k]
    BY <1>2, <1>6, <1>7, <2>1
  <2> QED
    BY ONLY <2>2
<1>10. DOMAIN u = 1..Len(w) /\ w = [k \in 1..Len(w) |-> w[k]]
  BY ONLY <1>6, <1>7, <1>8
<1>11. x = w
  BY <1>9, <1>10
<1>12. Query!EntryPage =
           [EntriesPage EXCEPT !.rows = [k \in DOMAIN EntriesPage.rows |-> EntriesPage.rows[k].sym]]
  BY Zenon DEF Query!EntryPage
<1>13. Query!EntryPage = [EntriesPage EXCEPT !.rows = x]
  BY <1>4, <1>12, Zenon
<1> HIDE DEF a, t, x
<1>14. Query!EntryPage = [[refused |-> a, rows |-> u, truncated |-> t] EXCEPT !.rows = x]
  BY ONLY <1>5, <1>13, Zenon
<1>15. Query!EntryPage = [refused |-> a, rows |-> w, truncated |-> t]
  BY ONLY <1>11, <1>14, OtherRows, Zenon
<1>16. t <=> Len(v) > n
  BY ONLY <1>2, <1>4, Zenon DEF t
<1> QED
  BY ONLY <1>15, <1>16, Zenon DEF w, v, n, a, t

\* The page of a sequence that begins with x continues with a page one shorter.
LEMMA TailCut ==
    ASSUME NEW A, NEW x \in A, NEW s \in Seq(A), NEW n \in Nat, n > 0
    PROVE  /\ Head(Query!UpTo(<<x>> \o s, n)) = x
           /\ Tail(Query!UpTo(<<x>> \o s, n)) = Query!UpTo(s, n - 1)
           /\ Len(<<x>> \o s) = Len(s) + 1
<1> DEFINE w == <<x>> \o s
           u == Query!UpTo(w, n)
           y == Query!UpTo(s, n - 1)
           t == Tail(u)
<1>1. /\ w \in Seq(A) /\ Len(w) = Len(s) + 1 /\ w[1] = x /\ Len(s) \in Nat
      /\ \A k \in 1..Len(s) : w[k + 1] = s[k]
  OBVIOUS
<1> HIDE DEF w
<1>2. /\ u \in Seq(A) /\ Len(u) = (IF Len(w) < n THEN Len(w) ELSE n)
      /\ \A k \in 1..Len(u) : u[k] = w[k]
  BY <1>1, CutIs
<1>3. n - 1 \in Nat
  OBVIOUS
<1>4. /\ y \in Seq(A) /\ Len(y) = (IF Len(s) < n - 1 THEN Len(s) ELSE n - 1)
      /\ \A k \in 1..Len(y) : y[k] = s[k]
  BY <1>3, CutIs
<1> HIDE DEF u, y
<1>5. Len(u) = Len(y) + 1 /\ Len(y) \in Nat /\ Len(y) <= Len(s)
  <2> DEFINE l == Len(s)
             i == Len(u)
             j == Len(y)
  <2>1. /\ l \in Nat /\ n \in Nat /\ n > 0
        /\ i = (IF l + 1 < n THEN l + 1 ELSE n) /\ j = (IF l < n - 1 THEN l ELSE n - 1)
    BY <1>1, <1>2, <1>4
  <2> HIDE DEF l, i, j
  <2>2. i = j + 1 /\ j \in Nat /\ j <= l
    BY ONLY <2>1
  <2> QED
    BY <2>2 DEF l, i, j
<1>6. u # <<>> /\ 1 \in 1..Len(u)
  BY <1>2, <1>5
<1>7. Head(u) = x
  BY <1>1, <1>2, <1>6
<1>8. t \in Seq(A) /\ Len(t) = Len(y) /\ \A k \in 1..Len(y) : t[k] = u[k + 1]
  BY <1>2, <1>5, <1>6
<1> HIDE DEF t
<1>9. ASSUME NEW k \in 1..Len(y)
      PROVE  t[k] = y[k]
  <2>1. k + 1 \in 1..Len(u) /\ k \in 1..Len(s)
    BY ONLY <1>1, <1>5, k \in 1..Len(y)
  <2>2. t[k] = u[k + 1] /\ u[k + 1] = w[k + 1] /\ w[k + 1] = s[k] /\ y[k] = s[k]
    BY <1>1, <1>2, <1>4, <1>8, <2>1
  <2> QED
    BY ONLY <2>2
<1>10. t = y
  <2>1. y \in Seq(A) /\ t \in Seq(A) /\ Len(t) = Len(y) /\ \A k \in 1..Len(t) : t[k] = y[k]
    BY <1>4, <1>8, <1>9
  <2> QED
    BY ONLY <2>1
<1> QED
  BY <1>1, <1>7, <1>10, Zenon DEF t, u, y, w

\* list_entry_points shows main first, then a page of the other roots.
LEMMA EntriesTrue ==
    ASSUME KnownTarget, Query!Told("list_entry_points") = EntriesPage
    PROVE  /\ Main \in Here =>
                 /\ Head(Query!EntryPage.rows) = Main
                 /\ Query!EntryPage.truncated <=> Query!Cardinality(Roots) + 1 > q.limit
                 /\ q.limit > 1 => Query!PageOf([Query!EntryPage EXCEPT !.rows = Tail(@)], Roots, q.limit - 1)
           /\ Main \notin Here => Query!PageOf(Query!EntryPage, Roots, q.limit)
<1> DEFINE n == q.limit
           a == EntriesPage.refused
           t == EntriesPage.truncated
           o == Query!Sorted(Roots)
           c == Cardinality(Roots)
           w == Query!UpTo(EntryNames, n)
           p == Query!EntryPage
<1>1. n \in Nat /\ n > 0 /\ Here \subseteq Query!Symbols
  BY QueryFacts
<1>2. /\ Roots \in SUBSET Nat /\ IsFiniteSet(Roots) /\ c \in Nat
      /\ o \in Seq(Query!Symbols) /\ Len(o) = c
      /\ Main \in Here => EntryNames = <<Main>> \o o
      /\ Main \notin Here => EntryNames = o
  BY NamesAre
<1>3. /\ p = [refused |-> a, rows |-> w, truncated |-> t]
      /\ t <=> Len(EntryNames) > n
  BY EntryPageIs
<1>4. Query!Cardinality(Roots) = c
  BY QueryOperators
<1> HIDE DEF n, a, t, p, o, c, w
<1>5. p.rows = w
  BY ONLY <1>3
<1>6. p.truncated = t
  BY ONLY <1>3
<1>7. ASSUME Main \in Here
      PROVE  /\ Head(p.rows) = Main
             /\ p.truncated <=> c + 1 > n
             /\ n > 1 => Query!PageOf([p EXCEPT !.rows = Tail(@)], Roots, n - 1)
  <2>1. Main \in Query!Symbols
    BY <1>1, <1>7
  <2>2. w = Query!UpTo(<<Main>> \o o, n)
    BY <1>2, <1>7, Zenon DEF w
  <2>3. /\ Head(Query!UpTo(<<Main>> \o o, n)) = Main
        /\ Tail(Query!UpTo(<<Main>> \o o, n)) = Query!UpTo(o, n - 1)
        /\ Len(<<Main>> \o o) = Len(o) + 1
    BY <1>1, <1>2, <2>1, TailCut
  <2>4. Len(EntryNames) = c + 1
    BY <1>2, <1>7, <2>3
  <2>5. p.truncated <=> c + 1 > n
    BY <1>3, <1>6, <2>4, Zenon
  <2> DEFINE x == Tail(w)
             z == [p EXCEPT !.rows = Tail(@)]
  <2>6. z = [p EXCEPT !.rows = x]
    BY <1>5
  <2>7. x = Query!UpTo(o, n - 1)
    BY <2>2, <2>3
  <2> HIDE DEF x, z
  <2>8. z = [refused |-> a, rows |-> x, truncated |-> t]
    BY ONLY <1>3, <2>6, OtherRows
  <2>9. z.rows = x /\ z.truncated = t
    BY ONLY <2>8
  <2>10. n - 1 \in Nat
    BY <1>1
  <2>11. c + 1 > n <=> c > n - 1
    BY ONLY <1>1, <1>2
  <2>12. z.truncated <=> c > n - 1
    BY ONLY <1>6, <2>5, <2>9, <2>11, Zenon
  <2>13. Query!PageOf(z, Roots, n - 1)
    BY <1>2, <2>7, <2>9, <2>10, <2>12, SortedPage DEF o, c
  <2> QED
    BY <1>5, <2>2, <2>3, <2>5, <2>13 DEF z
<1>8. ASSUME Main \notin Here
      PROVE  Query!PageOf(p, Roots, n)
  <2>1. w = Query!UpTo(o, n) /\ (t <=> c > n)
    BY <1>2, <1>3, <1>8 DEF w
  <2>2. p.rows = Query!UpTo(o, n) /\ (p.truncated <=> c > n)
    BY <1>5, <1>6, <2>1, Zenon
  <2> QED
    BY <1>1, <1>2, <2>2, SortedPage DEF o, c
<1> QED
  BY <1>4, <1>7, <1>8 DEF n, p

-----------------------------------------------------------------------------
(* The query tools: all of it.                                             *)

\* Every part of what the answers must agree on.
LEMMA AnswersTrue ==
    ASSUME ToldInv
    PROVE  Query!AnswersAgree
<1> SUFFICES ASSUME Len(told) = Len(Query!Dialogue), q.target \in Query!Known
             PROVE  Query!AnswersAgree
  BY Zenon DEF Query!AnswersAgree
<1>1. Len(told) = 18
  BY ToolPlaces
<1>2. KnownTarget
  BY DEF ToldInv, KnownTarget
<1>3. /\ Query!Told("find_symbol") = FoundSymbols
      /\ Query!Told("describe_symbol") = SymbolsTold
      /\ Query!Told("describe_link_resolution") = LinksTold
      /\ Query!Told("list_weak_symbols") = WeakTold
      /\ Query!Told("list_undefined_symbols") = UndefinedTold
      /\ Query!Told("list_unreachable_symbols") = UnreachablePage
      /\ Query!Told("list_entry_points") = EntriesPage
      /\ Query!Told("list_icf_groups") = FoldedTold
      /\ Query!Told("describe_target") = TargetTold
      /\ Query!Told("list_callers") = CallersTold
      /\ Query!Told("list_callees") = CalleesTold
      /\ Query!Told("list_linked_callers") = LinkedCallersTold
      /\ Query!Told("list_linked_callees") = LinkedCalleesTold
      /\ Query!Told("list_indirect_call_sites") = SitesPage
      /\ Query!Told("list_address_taken_functions") = TakenTold
      /\ Query!Told("describe_inlining") = InliningTold
      /\ Query!Told("list_inline_instances") = InstancesTold
      /\ Query!Told("find_type") = TypesTold
  BY <1>1, ToldAll, Zenon
<1> DEFINE about == Query!Told("describe_symbol")
           here == {s \in Query!Symbols : q.target \in about[s].targets}
           roots == {s \in here : about[s].linkage = "external"} \ {Main}
<1>4. about = SymbolsTold
  BY <1>3, Zenon
<1>5. here = Here
  BY <1>2, <1>4, SymbolsAgree
<1>6. roots = Roots
  <2>1. Here \subseteq Query!Symbols
    BY <1>2, QueryFacts
  <2>2. \A s \in Query!Symbols : about[s].linkage = cat.linkage[s]
    BY <1>2, <1>4, SymbolsAgree, Zenon
  <2> QED
    BY <1>5, <2>1, <2>2 DEF Roots, Query!EntrySymbols, Here
<1>7. Query!InliningAgrees /\ Query!TypesAgree
  BY <1>2, <1>3, InliningTrue, TypesTrue, Zenon
<1> HIDE DEF about, here, roots
<1>8. \A s \in Query!Symbols :
         /\ Query!Told("describe_link_resolution")[s].refused <=> s \notin here
         /\ (\E w \in Query!Told("list_weak_symbols")[FALSE] : w.sym = s)
               <=> about[s].linkage = "weak" \/ \E d \in about[s].defs : d.weak
  BY <1>2, <1>3, <1>4, <1>5, SymbolsAgree, Zenon
<1>9. /\ Query!PageOf(Query!Told("find_symbol"), q.match \cap here, FindLimit)
      /\ Query!PageOf(Query!Told("list_unreachable_symbols"),
             IF cat.kind[q.target] \in {"executable", "shared_library"}
             THEN Query!Symbols \ here ELSE {}, q.limit)
  BY <1>2, <1>3, <1>5, PagesTold, Zenon
<1> DEFINE linked == cat.kind[q.target] \in {"executable", "shared_library"}
           outside == IF linked THEN Query!Symbols \ here ELSE {}
<1>16. \E U \in SUBSET outside :
          /\ linked => {s \in Query!Symbols \ here : about[s].defs # {}} \subseteq U
          /\ Query!PageOf(Query!Told("list_unreachable_symbols"), U, q.limit)
  <2>1. linked => {s \in Query!Symbols \ here : about[s].defs # {}} \subseteq outside
    OBVIOUS
  <2>2. Query!PageOf(Query!Told("list_unreachable_symbols"), outside, q.limit)
    BY <1>9
  <2> HIDE DEF outside, linked
  <2>3. outside \in SUBSET outside
    OBVIOUS
  <2> QED
    BY <2>1, <2>2, <2>3, Zenon
<1>10. /\ Main \in here =>
             /\ Head(Query!EntryPage.rows) = Main
             /\ Query!EntryPage.truncated <=> Query!Cardinality(roots) + 1 > q.limit
             /\ q.limit > 1 => Query!PageOf([Query!EntryPage EXCEPT !.rows = Tail(@)], roots, q.limit - 1)
       /\ ~(Main \in here) => Query!PageOf(Query!EntryPage, roots, q.limit)
  BY <1>2, <1>3, <1>5, <1>6, EntriesTrue, Zenon
<1>11. \A u \in Query!Told("list_undefined_symbols") :
          /\ about[u.sym].defs = {}
          /\ u.calls = Query!Cardinality(Query!Told("list_linked_callers")[u.sym])
  BY <1>2, <1>3, <1>4, SymbolsAgree, Zenon
<1>12. /\ \A g \in Query!Told("list_icf_groups") : g.winner \in here
       /\ \A f \in Query!Told("list_address_taken_functions") :
             f.sym \in here /\ f.targets = about[f.sym].targets
  BY <1>2, <1>3, <1>4, <1>5, SetsAgree, Zenon
<1>13. LET page == Query!Told("list_indirect_call_sites")
           whole == Query!Cardinality({k \in DOMAIN cat.sites : cat.sites[k] \in here})
       IN  /\ Query!InPage(page) \subseteq here
           /\ Len(page.rows) = IF whole < q.limit THEN whole ELSE q.limit
           /\ page.truncated <=> whole > Len(page.rows)
  <2> DEFINE whole == Query!Cardinality({k \in DOMAIN cat.sites : cat.sites[k] \in Here})
  <2>1. whole = Query!Cardinality({k \in DOMAIN cat.sites : cat.sites[k] \in here})
    BY <1>5, Zenon
  <2>2. /\ Query!InPage(SitesPage) \subseteq Here
        /\ Len(SitesPage.rows) = IF whole < q.limit THEN whole ELSE q.limit
        /\ SitesPage.truncated <=> whole > Len(SitesPage.rows)
    BY <1>2, SitesAgree, Zenon
  <2> HIDE DEF whole
  <2> QED
    BY <1>3, <1>5, <2>1, <2>2, Zenon
<1>14. LET t == Query!Told("describe_target") IN
          /\ t.linked = Query!Cardinality(here) /\ t.reachable = t.linked
          /\ Main \in here /\ (\E d \in about[Main].defs : d.file \in cat.files[q.target])
                => Head(t.mains) \in cat.files[q.target]
  BY <1>2, <1>3, <1>4, <1>5, TargetAgrees, Zenon
<1>15. \A a, b \in Query!Symbols :
          /\ a \in Query!Told("list_linked_callers")[b] <=> b \in Query!Told("list_linked_callees")[a]
          /\ LET up == Query!Told("list_callers")[b]
                 down == Query!Told("list_callees")[a]
             IN  ~up.truncated /\ ~down.truncated /\ a \in here /\ b \in here
                    => (a \in Query!InPage(up) <=> b \in Query!InPage(down))
  BY <1>2, <1>3, <1>5, NeighboursTold, Zenon
<1> QED
  BY ONLY <1>7, <1>8, <1>9, <1>10, <1>11, <1>12, <1>13, <1>14, <1>15, <1>16, Zenon
     DEF Query!AnswersAgree, about, here, roots

\* The query tools tell one story of every target they know, in every index and for every
\* question: pages are the first part of their whole, with a truthful flag, callers and
\* callees and the two views of inlining mirror each other, and what one tool places in
\* the target or outside it, the others do too (symbol_tools.go, linkage_tools.go,
\* target_tools.go, callgraph_*_tools.go, indirect_tools.go, type_tools.go).
THEOREM QueriesAlwaysAgree == ToolSpec => []QueriesAgree
<1>1. QueryIInv => QueriesAgree
  BY AnswersTrue DEF QueryIInv, QueriesAgree
<1>2. QueryIInv /\ [ToolNext]_<<tool, vars, explain, search, drift, query>> => QueryIInv'
  BY ToldStep
<1> QED
  BY <1>1, <1>2, QueryInitially, PTL DEF ToolSpec
=============================================================================
