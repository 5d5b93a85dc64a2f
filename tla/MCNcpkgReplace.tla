--------------------------- MODULE MCNcpkgReplace ---------------------------
(***************************************************************************)
(* Plans that only add and remove files, through up to three troubles, and *)
(* plans that also replace files, through one: which of the two is chosen  *)
(* at the start.  A replacement does not survive two interruptions of its  *)
(* undo, which a run of its own shows.                                     *)
(***************************************************************************)
EXTENDS MCNcpkgTx

Replacing == INSTANCE NcpkgTx WITH Overlap <- TRUE, MaxTroubles <- 1, LateErrors <- FALSE

VARIABLE replaces

MCInit == Init /\ replaces \in BOOLEAN

MCNext ==
    /\ replaces' = replaces
    /\ \/ replaces = FALSE /\ Next
       \/ replaces = TRUE /\ Replacing!Next

\* The fairness of NcpkgTx: the process runs on, and somebody recovers.
MCSpec ==
    /\ MCInit /\ [][MCNext]_<<replaces, vars>>
    /\ WF_<<replaces, vars>>(replaces' = replaces /\ IF replaces THEN Replacing!Step ELSE Step)
    /\ WF_<<replaces, vars>>(replaces' = replaces /\ Recover)
=============================================================================
