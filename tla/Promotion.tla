------------------------------- MODULE Promotion -------------------------------
(***************************************************************************)
(* What the calls of one mechanism run promise to the owner of the live    *)
(* tree.  A call that is open may offer one candidate, which is neither    *)
(* what is live nor half an apply; only an offered candidate is installed, *)
(* and an apply that breaks may leave all of it, or a torn tree, until a   *)
(* later call replaces that.  The run is closed after an installation or   *)
(* between calls, and then nothing opens it, or changes the live tree,     *)
(* again.                                                                  *)
(***************************************************************************)
CONSTANTS Contents, Original, Torn

VARIABLES
    live,
    stage,          \* of the call: "none", "open", "offered" or "installed"
    candidate,      \* of the call that offers or installed one
    closed

vars == <<live, stage, candidate, closed>>

Candidates == Contents \ {Original, Torn}

Init ==
    /\ live = Original
    /\ stage = "none" /\ candidate = Original
    /\ closed = FALSE

Open ==
    /\ stage = "none" /\ ~ closed
    /\ stage' = "open"
    /\ UNCHANGED <<live, candidate, closed>>

Offer ==
    /\ stage = "open"
    /\ stage' = "offered"
    /\ candidate' \in Candidates \ {live}
    /\ UNCHANGED <<live, closed>>

Install ==
    /\ stage = "offered"
    /\ stage' = "installed"
    /\ live' = candidate
    /\ UNCHANGED <<candidate, closed>>

\* An apply that could not be rolled back, or was killed.
Break ==
    /\ stage = "offered"
    /\ stage' = "none" /\ candidate' = Original
    /\ live' \in {candidate, Torn}
    /\ UNCHANGED closed

\* A call ends, whatever it has come to.
End ==
    /\ stage # "none"
    /\ stage' = "none" /\ candidate' = Original
    /\ UNCHANGED <<live, closed>>

Close ==
    /\ stage \in {"none", "installed"}
    /\ stage' = "none" /\ candidate' = Original
    /\ closed' = TRUE
    /\ UNCHANGED live

Next == Open \/ Offer \/ Install \/ Break \/ End \/ Close

Spec == Init /\ [][Next]_vars
=============================================================================
