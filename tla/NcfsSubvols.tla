---------------------------- MODULE NcfsSubvols ----------------------------
(***************************************************************************)
(* What subvolumes and snapshots promise: each subvolume has its own       *)
(* files; a snapshot is a copy; losing the writer loses what was not       *)
(* committed and nothing else.                                             *)
(***************************************************************************)
CONSTANTS Pos, Data, None, Ids

VARIABLES
    now,     \* subvolume -> position -> content, as the writer sees it
    durable  \* the same, as a mount would find it

vars == <<now, durable>>

Write(sv, p, d) ==
    now' = [now EXCEPT ![sv][p] = d] /\ durable' = durable

Commit == durable' = now /\ now' = now

Snapshot(src, id) ==
    /\ id \notin DOMAIN now
    /\ now' = [s \in DOMAIN now \cup {id} |-> IF s = id THEN now[src] ELSE now[s]]
    /\ durable' = now'

Delete(id) ==
    /\ now' = [s \in DOMAIN now \ {id} |-> now[s]]
    /\ durable' = now'

Lose == now' = durable /\ durable' = durable

Init == now = [s \in {1} |-> [p \in Pos |-> None]] /\ durable = now

Next ==
    \/ Commit \/ Lose
    \/ \E sv \in DOMAIN now, p \in Pos, d \in Data \cup {None} : Write(sv, p, d)
    \/ \E src \in DOMAIN now, id \in Ids : Snapshot(src, id)
    \/ \E id \in DOMAIN now : Delete(id)

Spec == Init /\ [][Next]_vars
=============================================================================
