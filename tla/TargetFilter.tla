---------------------------- MODULE TargetFilter ----------------------------
(***************************************************************************)
(* filterTargets (cmd/herbarium/collect.go): keep the targets --target     *)
(* names, in place.  kept := intro.Targets[:0] shares its array with the   *)
(* slice the loop ranges over, so a step writes where a later one reads.   *)
(***************************************************************************)
EXTENDS Ordered, SequencesExt

CONSTANTS Targets, Unknown, MaxTargets
    \* target names; names no target has; bound on the number of targets

VARIABLES
    built,    \* the targets of the builddir, as Meson lists them
    wanted,   \* wanted
    array,    \* the array under intro.Targets and under kept
    i, kept,  \* loop index, and len(kept)
    seen,     \* seen
    step,
    result    \* intro.Targets afterwards, or the known targets of the error

vars == <<built, wanted, array, i, kept, seen, step, result>>

\* Meson target names may repeat across directories.
Lists == UNION {[1..n -> Targets] : n \in 0..MaxTargets}

Init ==
    /\ built \in Lists /\ array = built
    /\ wanted \in SUBSET (Targets \cup Unknown)
    /\ i = 1 /\ kept = 0 /\ seen = {}
    /\ step = "loop" /\ result = <<>>

KeepAll ==
    /\ step = "loop" /\ wanted = {}
    /\ step' = "kept" /\ result' = array
    /\ UNCHANGED <<built, wanted, array, i, kept, seen>>

\* Mutant of Slot: kept[0] is left for a header that is not there.
SlotSkipsOne == kept + 2

\* Where append(kept, t) writes.
Slot == kept + 1

Loop ==
    /\ step = "loop" /\ wanted # {} /\ i <= Len(array)
    /\ IF array[i] \in wanted
       THEN /\ array' = [array EXCEPT ![Slot] = array[i]]
            /\ kept' = kept + 1
            /\ seen' = seen \cup {array[i]}
       ELSE UNCHANGED <<array, kept, seen>>
    /\ i' = i + 1
    /\ UNCHANGED <<built, wanted, step, result>>

Missing == wanted \ seen

Filtered ==
    /\ step = "loop" /\ wanted # {} /\ i > Len(array) /\ Missing = {}
    /\ step' = "kept" /\ result' = SubSeq(array, 1, kept)
    /\ UNCHANGED <<built, wanted, array, i, kept, seen>>

\* The message lists intro.Targets, which is still the whole slice.
Refused ==
    /\ step = "loop" /\ wanted # {} /\ i > Len(array) /\ Missing # {}
    /\ step' = "refused" /\ result' = array
    /\ UNCHANGED <<built, wanted, array, i, kept, seen>>

Done == step # "loop" /\ UNCHANGED vars

Next == KeepAll \/ Loop \/ Filtered \/ Refused \/ Done

Spec == Init /\ [][Next]_vars

-----------------------------------------------------------------------------
(* Properties.                                                             *)

\* Compaction in place never overtakes the loop: what is kept is the wanted
\* part of the original list, in its order, although the array was rewritten,
\* and exactly the runs that name a target the builddir lacks are refused.
FilterIsExact ==
    /\ step = "kept" =>
          InOrder(result, {k \in DOMAIN built : wanted = {} \/ built[k] \in wanted}, built)
    /\ step = "kept" => wanted \subseteq ToSet(built)
    /\ step = "refused" => ~(wanted \subseteq ToSet(built))
=============================================================================
