------------------------------- MODULE Verdict -------------------------------
(***************************************************************************)
(* explain_call (internal/mcp/callgraph_runtime_tools.go): read the pair's *)
(* inline_records and inline_instances, fold them row by row into one      *)
(* verdict per object, and those into one verdict.  One action is one row. *)
(***************************************************************************)
EXTENDS Ordered, SequencesExt

CONSTANTS Objects, Reasons, MaxRows, ScanLimit, RowLimit
    \* objects; GCC's reasons; bound on the rows of each table;
    \* verdictScanLimit; the request's limit on the rows it is shown

Records == [object : Objects, pass : {"einline", "inline"}, inlined : BOOLEAN, reason : Reasons]

VARIABLES
    recs, insts,     \* the rows of the pair in the index, in (file, line) order
    stage,           \* "query", "fold", "done"
    records,         \* what inlineRecords returned
    instances,       \* what inlineInstances returned: objects
    next,            \* rows folded so far, instances first
    acc,             \* byObject
    echo,            \* Evidence: rows shown, and Truncated
    response         \* PerObject, Verdict and Reason

vars == <<recs, insts, stage, records, instances, next, acc, echo, response>>

NoAcc == [seen |-> FALSE, hasInstance |-> FALSE, inlined |-> FALSE, declPass |-> "", declReason |-> ""]
NoAnswer == [perObject |-> [o \in Objects |-> ""], verdict |-> "", reason |-> ""]

Rows(S) == UNION {[1..n -> S] : n \in 0..MaxRows}

\* LIMIT n + 1, then out[:n].
Cap(s, n) == SubSeq(s, 1, IF Len(s) < n THEN Len(s) ELSE n)

\* A remark that inlines carries no reason of interest.
Init ==
    /\ recs \in Rows({r \in Records : r.inlined => r.reason = CHOOSE x \in Reasons : TRUE})
    /\ insts \in Rows(Objects)
    /\ stage = "query" /\ records = <<>> /\ instances = <<>> /\ next = 0
    /\ acc = [o \in Objects |-> NoAcc]
    /\ echo = [records |-> <<>>, instances |-> <<>>, truncated |-> FALSE]
    /\ response = NoAnswer

\* ORDER BY pass.
ByPass(s) ==
    LET of(pass) == Selected({i \in DOMAIN s : s[i].pass = pass}, s)
    IN  of("einline") \o of("inline")

Scanned(s) == Cap(s, ScanLimit)

Query ==
    /\ stage = "query" /\ stage' = "fold"
    /\ records' = Scanned(ByPass(recs))
    /\ instances' = Scanned(insts)
    /\ echo' = [records |-> Cap(records', RowLimit), instances |-> Cap(instances', RowLimit),
                truncated |-> Len(records') > RowLimit \/ Len(instances') > RowLimit]
    /\ UNCHANGED <<recs, insts, next, acc, response>>

\* The object has a body.
Present(a) ==
    [seen |-> TRUE, hasInstance |-> TRUE, inlined |-> a.inlined,
     declPass |-> a.declPass, declReason |-> a.declReason]

FoldInstance ==
    /\ stage = "fold" /\ next < Len(instances)
    /\ next' = next + 1
    /\ acc' = [acc EXCEPT ![instances[next + 1]] = Present(acc[instances[next + 1]])]
    /\ UNCHANGED <<recs, insts, stage, records, instances, echo, response>>

\* "The IPA pass runs last, so its reason is the one that stuck."
Sticks(a, r) == ~r.inlined /\ a.declPass # "inline"

\* A pass left a remark on the object.
Noted(a, r) ==
    [seen |-> TRUE, hasInstance |-> a.hasInstance, inlined |-> a.inlined \/ r.inlined,
     declPass   |-> IF Sticks(a, r) THEN r.pass ELSE a.declPass,
     declReason |-> IF Sticks(a, r) THEN r.reason ELSE a.declReason]

FoldRecord ==
    LET k == next + 1 - Len(instances) IN
    /\ stage = "fold" /\ next >= Len(instances) /\ k <= Len(records)
    /\ next' = next + 1
    /\ acc' = [acc EXCEPT ![records[k].object] = Noted(acc[records[k].object], records[k])]
    /\ UNCHANGED <<recs, insts, stage, records, instances, echo, response>>

\* Mutant of OneVerdict: a remark outranks the body.
OneVerdictByRemark(a) ==
    IF ~a.seen THEN ""
    ELSE IF a.inlined THEN "inlined_then_folded"
    ELSE IF a.hasInstance THEN "inlined_and_present" ELSE "declined"

\* One entry of perObjectVerdicts; "" for an object that has no row.
OneVerdict(a) ==
    IF ~a.seen THEN ""
    ELSE IF a.hasInstance THEN "inlined_and_present"
    ELSE IF a.inlined THEN "inlined_then_folded" ELSE "declined"

\* overallVerdict.
Overall(per) ==
    LET said == {per[o] : o \in Objects} \ {""} IN
    CASE said = {}             -> "no_decision_logged"
      [] Cardinality(said) = 1 -> CHOOSE v \in said : TRUE
      [] OTHER                 -> "mixed"

\* The reason given is the first object's, in the order of their names.
FirstReason ==
    LET o == CHOOSE o \in Objects : acc[o].seen /\ \A p \in Objects : acc[p].seen => o <= p
    IN  acc[o].declReason

Answer ==
    /\ stage = "fold" /\ next = Len(instances) + Len(records)
    /\ stage' = "done"
    /\ LET per == [o \in Objects |-> OneVerdict(acc[o])]
           v == Overall(per)
       IN  response' = [perObject |-> per, verdict |-> v,
                        reason |-> IF v = "declined" THEN FirstReason ELSE ""]
    /\ UNCHANGED <<recs, insts, records, instances, next, acc, echo>>

Done == stage = "done" /\ UNCHANGED vars

Next == Query \/ FoldInstance \/ FoldRecord \/ Answer \/ Done

Spec == Init /\ [][Next]_vars

-----------------------------------------------------------------------------
(* What the tables say of an object, without an order.                     *)

HasBody(o) == o \in Range(insts)
Inlined(o) == \E r \in Range(recs) : r.object = o /\ r.inlined
Remarked(o) == \E r \in Range(recs) : r.object = o
InScan == Len(recs) <= ScanLimit /\ Len(insts) <= ScanLimit

\* The verdict on every object, and the one on the pair, is what the whole of
\* both tables says, however few rows the caller asked to see: present if a
\* body survived in the object, folded if some pass only said it inlined,
\* declined otherwise, and mixed as soon as two objects differ.
FullSetDecides ==
    LET Truth(o) == IF HasBody(o) THEN "inlined_and_present"
                    ELSE IF Inlined(o) THEN "inlined_then_folded"
                    ELSE IF Remarked(o) THEN "declined" ELSE ""
        truths == {Truth(o) : o \in Objects} \ {""}
    IN  /\ \A o \in Objects : response.perObject[o] = Truth(o)
        /\ response.verdict = "mixed" <=> Cardinality(truths) > 1
        /\ response.verdict = "no_decision_logged" <=> truths = {}

\* A declined call is explained by the last pass that looked at it: no early
\* inliner's remark is given where the IPA inliner left one for that object.
LastPassExplains ==
    response.verdict = "declined" =>
        \E o \in Objects : \E r \in Range(recs) :
            /\ r.object = o /\ r.reason = response.reason /\ ~r.inlined
            /\ r.pass = "einline" =>
                  ~\E q \in Range(recs) : q.object = o /\ q.pass = "inline"

\* While both tables fit the scan limit, verdict and reason are those of the
\* whole evidence, however few rows the caller asked to see.
VerdictIsTheEvidences ==
    stage = "done" /\ InScan =>
        /\ FullSetDecides /\ LastPassExplains
        /\ Len(echo.records) <= RowLimit /\ Len(echo.instances) <= RowLimit
=============================================================================
