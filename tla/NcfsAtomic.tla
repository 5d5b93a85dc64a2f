----------------------------- MODULE NcfsAtomic -----------------------------
(***************************************************************************)
(* What a volume promises: a mount finds the last commit that returned,    *)
(* or the one that was running when power or the writer was lost, whole.   *)
(***************************************************************************)
CONSTANTS Trees, NoTree

VARIABLES
    vol,   \* the trees a mount would find
    work,  \* the trees of the open volume
    phase  \* "closed", "open" or "committing"

vars == <<vol, work, phase>>

Init == vol \in Trees /\ work = NoTree /\ phase = "closed"

Mount == phase = "closed" /\ phase' = "open" /\ work' = vol /\ vol' = vol

Change == phase # "closed" /\ phase' = phase /\ work' \in Trees /\ vol' = vol

Begin == phase = "open" /\ phase' = "committing" /\ UNCHANGED <<vol, work>>

Commit == phase = "committing" /\ phase' = "open" /\ vol' = work /\ work' = work

\* A commit that is running when the writer is lost may have become durable.
Lose ==
    /\ phase # "closed" /\ phase' = "closed" /\ work' = NoTree
    /\ \/ vol' = vol
       \/ phase = "committing" /\ vol' = work

Next == Mount \/ Change \/ Begin \/ Commit \/ Lose

Spec == Init /\ [][Next]_vars
=============================================================================
