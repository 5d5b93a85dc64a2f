----------------------------- MODULE NcpkgAtomic -----------------------------
(***************************************************************************)
(* What a package transaction promises: files, directories and database    *)
(* change together, in one step, or not at all.                            *)
(***************************************************************************)
EXTENDS Naturals

CONSTANTS Paths, Dirs, DirOf, Data, None

VARIABLES files, dirs, db

Init ==
    /\ files \in [Paths -> Data \cup {None}]
    /\ dirs \subseteq Dirs
    /\ db.tx = 0 /\ \A p \in Paths : db.files[p] \in {files[p], None}

\* The files of bk go, the files of pl come with the content new gives them,
\* directories appear for what comes and vanish when nothing is left in them.
Apply(bk, pl, new) ==
    LET after == [p \in Paths |-> IF p \in pl THEN new[p]
                                  ELSE IF p \in bk THEN None ELSE files[p]]
        made == {DirOf[p] : p \in pl} \cap Dirs
        left == {d \in {DirOf[p] : p \in bk} \cap Dirs :
                    \A p \in Paths : DirOf[p] = d => after[p] = None}
    IN  /\ \A p \in bk : files[p] # None
        /\ \A p \in pl : files[p] = None \/ p \in bk
        /\ files' = after
        /\ dirs' = (dirs \cup made) \ left
        /\ db'.tx > db.tx
        /\ db'.files = [p \in Paths |-> IF p \in pl THEN new[p]
                                        ELSE IF p \in bk THEN None ELSE db.files[p]]

Next == \E bk, pl \in SUBSET Paths : \E new \in [pl -> Data] : Apply(bk, pl, new)

Spec == Init /\ [][Next]_<<files, dirs, db>>
=============================================================================
