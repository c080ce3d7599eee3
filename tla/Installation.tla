----------------------------- MODULE Installation -----------------------------
(***************************************************************************)
(* What a caller may believe of a tree after one attempt to install a      *)
(* candidate in it: that it holds the candidate when the attempt says so,  *)
(* that it is as it was when the attempt failed and reported no rollback   *)
(* issue, and otherwise no more than that every file is one or the other.  *)
(***************************************************************************)
CONSTANT Torn           \* some files of the candidate, some of what was there

VARIABLES before, after, tree, outcome

vars == <<before, after, tree, outcome>>

Outcomes == {"applied", "undone", "broken"}

\* What an attempt that ended so leaves.
Leaves(result, old, new) ==
    CASE result = "applied" -> {new}
      [] result = "undone" -> {old}
      [] OTHER -> {old, new, Torn}

Init == tree = before /\ outcome = "none"

Work ==
    /\ outcome = "none"
    /\ tree' \in {before, after, Torn}
    /\ UNCHANGED <<before, after, outcome>>

End ==
    /\ outcome = "none"
    /\ outcome' \in Outcomes /\ tree \in Leaves(outcome', before, after)
    /\ UNCHANGED <<before, after, tree>>

Next == Work \/ End

Spec == Init /\ [][Next]_vars
=============================================================================
