----------------------------- MODULE WorkspaceLock -----------------------------
(***************************************************************************)
(* What the goal runtimes rely on when they share a workspace.  One user   *)
(* holds it at a time, and runs its command only while it does; it passes  *)
(* on when the holder, its command over, releases it, or when the holder   *)
(* has died and its command with it.  A user that is dead stays so, and    *)
(* may leave its command behind, and the workspace with it.  A lock that   *)
(* can be lost promises this until then, and nothing after.                *)
(***************************************************************************)
CONSTANTS Users, NoOne

VARIABLES
    holder,
    commands,       \* the users whose command is alive
    dead,           \* the users that have come to their end
    lost

vars == <<holder, commands, dead, lost>>

Init == holder = NoOne /\ commands = {} /\ dead = {} /\ lost = FALSE

Free == holder = NoOne \/ holder \in dead \ commands

Take(u) ==
    /\ Free /\ u \notin dead
    /\ holder' = u
    /\ UNCHANGED <<commands, dead, lost>>

Clear ==
    /\ Free
    /\ holder' = NoOne
    /\ UNCHANGED <<commands, dead, lost>>

Launch(u) ==
    /\ holder = u /\ u \notin dead
    /\ commands' = commands \cup {u}
    /\ UNCHANGED <<holder, dead, lost>>

EndCommand(u) ==
    /\ commands' = commands \ {u}
    /\ UNCHANGED <<holder, dead, lost>>

Release(u) ==
    /\ holder = u /\ u \notin commands
    /\ holder' = NoOne /\ dead' = dead \cup {u}
    /\ UNCHANGED <<commands, lost>>

\* Also of a user that was refused, and of one that kills its command first.
Die(u) ==
    /\ dead' = dead \cup {u}
    /\ commands' \in {commands, commands \ {u}}
    /\ UNCHANGED <<holder, lost>>

Lose == lost' = TRUE

Next ==
    \/ \E u \in Users : Take(u) \/ Launch(u) \/ EndCommand(u) \/ Release(u) \/ Die(u)
    \/ Clear \/ Lose

Spec == Init /\ [][Next]_vars
=============================================================================
