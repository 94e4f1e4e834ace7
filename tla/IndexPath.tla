----------------------------- MODULE IndexPath -----------------------------
(***************************************************************************)
(* What collect promises and serve relies on: an abstract view of the one  *)
(* path through which the two halves of herbarium meet.  The path holds    *)
(* nothing or one whole artifact; an artifact appears there in one step,   *)
(* at most once, and nothing ever happens to it while it is there.         *)
(* Collect implements this specification (a torn file at the path would    *)
(* be no artifact), and Serve makes no stronger assumption about the path. *)
(***************************************************************************)
CONSTANTS Artifacts, Nothing

VARIABLES
    current,  \* what is at the path
    spent     \* every artifact that is or was there

Init ==
    /\ current \in Artifacts \cup {Nothing}
    /\ spent = {current} \ {Nothing}

\* os.Rename onto the path, over whatever was there.
Install(a) ==
    /\ a \notin spent
    /\ current' = a
    /\ spent' = spent \cup {a}

\* Somebody other than herbarium removes the file.
Delete ==
    /\ current' = Nothing
    /\ UNCHANGED spent

Next == Delete \/ \E a \in Artifacts : Install(a)

Spec == Init /\ [][Next]_<<current, spent>>
=============================================================================
