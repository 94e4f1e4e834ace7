----------------------------- MODULE SourceDrift -----------------------------
(***************************************************************************)
(* list_source_drift, and verify_source on each of its files               *)
(* (internal/mcp/source_tools.go): the packed sources are compared with    *)
(* the live checkout under --project-root, one file at a time, while       *)
(* somebody edits it.  A content stands for its hash.                      *)
(***************************************************************************)
EXTENDS Naturals, Sequences, SequencesExt, FiniteSets

CONSTANTS
    SourcePaths,  \* the paths of the sources table, in order
    Contents,     \* what a file may hold
    MaxSaves      \* bound: saves and removals during the calls

Gone == "gone"              \* the file does not exist
Unreadable == "unreadable"  \* it exists and cannot be read

VARIABLES
    indexed,  \* path -> the content packed
    wanted,   \* the paths the prefix and the target admit
    live,     \* path -> the live file
    past,     \* path -> what the live file was since the call began
    saves,
    cursor,   \* rows.Next(): the row to compare next
    drifted, checked,
    outcome   \* "running", "ok" or "error", or "refused" before any file is read

vars == <<indexed, wanted, live, past, saves, cursor, drifted, checked, outcome>>

All == ToSet(SourcePaths)
States == Contents \cup {Gone, Unreadable}

Init ==
    /\ indexed \in [All -> Contents] /\ wanted \in SUBSET All
    /\ live \in [All -> States] /\ past = [p \in All |-> {live[p]}] /\ saves = 0
    /\ cursor = 1 /\ drifted = <<>> /\ checked = 0
    /\ outcome \in {"running", "refused"}   \* refused: no --project-root, or an unknown target

\* Somebody saves or removes a file of the checkout.
Save(p, c) ==
    /\ outcome = "running" /\ saves < MaxSaves /\ c # live[p]
    /\ live' = [live EXCEPT ![p] = c] /\ past' = [past EXCEPT ![p] = @ \cup {c}]
    /\ saves' = saves + 1
    /\ UNCHANGED <<indexed, wanted, cursor, drifted, checked, outcome>>

SkipPath ==
    /\ outcome = "running" /\ cursor \in DOMAIN SourcePaths /\ SourcePaths[cursor] \notin wanted
    /\ cursor' = cursor + 1
    /\ UNCHANGED <<indexed, wanted, live, past, saves, drifted, checked, outcome>>

\* Mutant of Entry: a file that is gone is passed over.
EntryOfExisting(p, now) == now \notin {indexed[p], Gone}

\* Whether a file is reported: missing, or with another hash.
Entry(p, now) == now # indexed[p]

\* The file is read and compared; an error other than "not there" ends the call.
Compare ==
    /\ outcome = "running" /\ cursor \in DOMAIN SourcePaths /\ SourcePaths[cursor] \in wanted
    /\ LET p == SourcePaths[cursor] IN
       /\ checked' = checked + 1
       /\ outcome' = IF live[p] = Unreadable THEN "error" ELSE "running"
       /\ drifted' = IF live[p] # Unreadable /\ Entry(p, live[p])
                     THEN Append(drifted, [path |-> p, live |-> live[p]]) ELSE drifted
    /\ cursor' = cursor + 1
    /\ UNCHANGED <<indexed, wanted, live, past, saves>>

Answer ==
    /\ outcome = "running" /\ cursor \notin DOMAIN SourcePaths /\ outcome' = "ok"
    /\ UNCHANGED <<indexed, wanted, live, past, saves, cursor, drifted, checked>>

Done == outcome # "running" /\ UNCHANGED vars

Next ==
    \/ \E p \in All : \E c \in States : Save(p, c)
    \/ SkipPath \/ Compare \/ Answer \/ Done

Spec == Init /\ [][Next]_vars

\* verify_source without expected_hash, with --project-root: matches, or
\* live_missing, or an error.
VerifySource(p) ==
    CASE live[p] = Gone       -> "missing"
      [] live[p] = Unreadable -> "error"
      [] OTHER                -> IF live[p] = indexed[p] THEN "matches" ELSE "differs"

-----------------------------------------------------------------------------
\* A drift report is what the checkout was at some moment of the call, file by
\* file: a file it names differed then, in the way it says, and one it leaves out
\* held the packed bytes then.  When nobody saved meanwhile, it names exactly the
\* files verify_source does not confirm, and it fails only on a file verify_source
\* fails on (source_tools.go handleListSourceDrift, handleVerifySource).
DriftIsTrue ==
    /\ outcome = "ok" =>
          /\ checked = Cardinality({i \in DOMAIN SourcePaths : SourcePaths[i] \in wanted})
          /\ \A p \in wanted :
                LET entries == {d \in ToSet(drifted) : d.path = p} IN
                /\ \A d \in entries : d.live \in past[p] /\ d.live # indexed[p]
                /\ entries = {} => indexed[p] \in past[p]
    /\ outcome \in {"ok", "error"} /\ saves = 0 =>
          /\ outcome = "error" <=> \E p \in wanted : VerifySource(p) = "error"
          /\ outcome = "ok" =>
                {d.path : d \in ToSet(drifted)} =
                    {p \in wanted : VerifySource(p) \in {"missing", "differs"}}
=============================================================================
