--------------------------- MODULE NcpkgTxProofs ---------------------------
(***************************************************************************)
(* Theorems about NcpkgTx: its types and that nothing is left behind, for  *)
(* every instance; and, on a system that has a database, that recorded     *)
(* files are never lost and transactions are atomic: through any number of *)
(* crashes and errors where plans replace no file, and through one where   *)
(* they do.                                                                *)
(***************************************************************************)
EXTENDS NcpkgTx, TLAPS

\* The parts of execute between planning and the commit.
Executing == Staging \cup Applying

\* What the process knows at each point of the code: the loops run over what
\* the journal lists, the stage is complete before anything is renamed, and
\* what is written is what was planned.
Control ==
    /\ pc \in {"stage", "place", "undo_place"} => todo \subseteq j.pl
    /\ pc \in {"backup", "undo_backup"} => todo \subseteq j.bk
    /\ pc \in {"mkdir", "undo_mkdir"} => todo \subseteq j.mk
    /\ pc = "finish_dirs" => todo \subseteq j.cl
    /\ pc \in Executing => \A p \in j.pl : ndb.files[p] \in Data
    /\ pc = "stage" => \A p \in j.pl \ todo : stage[p] = ndb.files[p]
    /\ pc \in {"journal_tmp", "journal", "next", "backup", "mkdir"} =>
            \A p \in j.pl : stage[p] = ndb.files[p]
    /\ pc = "place" => \A p \in todo : stage[p] = ndb.files[p]
    /\ pc = "journal" => tmp = j
    /\ pc \in {"backup", "mkdir", "place", "commit"} => next = ndb
    /\ pc \in Applying => journal = j
    /\ pc \in {"promote", "decide", "undo_place", "undo_mkdir", "undo_backup",
               "undo_next", "finish_dirs", "finish_next", "drop_journal"} =>
            journal = j
    /\ pc = "rmtree" /\ ctx \in {"undo", "finish"} => journal = j

TypeInv == TypeOK /\ Control
\* The types and the control facts hold at first.
LEMMA TypeInit == Init => TypeInv
  BY ConstAssumption, SMT DEF Init, TypeInv, TypeOK, Control, Executing, Staging, Applying,
     Recovering, EmptyDb, EmptyJournal, NoFiles, Db, Journal, Empty

\* Every action preserves them.
LEMMA TypeStep == TypeInv /\ [Next]_vars => TypeInv'
  <1> SUFFICES ASSUME TypeInv, [Next]_vars PROVE TypeInv'
    OBVIOUS
  <1> USE ConstAssumption DEF TypeInv, TypeOK, Control, Executing, Staging,
        Applying, Recovering, disk, bounds, Journal, Db
  <1>1. CASE Begin
    BY <1>1 DEF Begin
  <1>2. CASE Recover
    BY <1>2 DEF Recover
  <1>3. CASE Unlock
    BY <1>3 DEF Unlock
  <1>4. CASE RecoverLocked
    BY <1>4 DEF RecoverLocked
  <1>5. CASE Clean
    BY <1>5 DEF Clean
  <1>6. CASE Promote
    BY <1>6 DEF Promote
  <1>7. CASE Decide
    BY <1>7 DEF Decide, HasCommitted
  <1>8. CASE UndoPlace
    BY <1>8 DEF UndoPlace, PutBack
  <1>9. CASE UndoMkdir
    BY <1>9 DEF UndoMkdir, RemoveDir
  <1>10. CASE UndoBackup
    BY <1>10 DEF UndoBackup, PutBack
  <1>11. CASE DropNext
    BY <1>11 DEF DropNext
  <1>12. CASE RemoveTxDir
    <2>1. /\ txDirs' \in {{}, {"tx"}, {"tx", "stage"}, {"tx", "stage", "backup"}}
          /\ stage' \in [Paths -> Data \cup {None, Torn}]
          /\ backup' \in [Paths -> Data \cup {None}]
      BY <1>12, Zenon DEF RemoveTxDir
    <2>2. /\ todo' \subseteq Paths \cup Dirs
          /\ pc' \in {"rmtree", "plan", "unlock", "drop_journal", "finish_dirs", "unstage_tmp"}
          /\ pc' = "finish_dirs" => todo' = j.cl
      BY <1>12 DEF RemoveTxDir, AfterRecovery
    <2>3. UNCHANGED <<files, dirs, journal, tmp, db, next, lock, ctx, after, j, ndb, bounds>>
      BY <1>12 DEF RemoveTxDir
    <2>4. pc' = "drop_journal" \/ pc' = "finish_dirs" => journal = j
      BY <1>12 DEF RemoveTxDir, AfterRecovery
    <2>5. TypeOK'
      BY <2>1, <2>2, <2>3
    <2>6. ctx = ctx' /\ (pc' = "rmtree" => pc = "rmtree")
      BY <1>12, <2>3 DEF RemoveTxDir
    <2>7. Control'
      BY <2>2, <2>3, <2>4, <2>6
    <2> QED
      BY <2>5, <2>7
  <1>13. CASE FinishDirs
    BY <1>13 DEF FinishDirs, RemoveDir
  <1>14. CASE DropJournal
    BY <1>14 DEF DropJournal, AfterRecovery
  <1>15. CASE Plan
    <2>1. CASE pc' = "unlock"
      BY <1>15, <2>1 DEF Plan
    <2>2. CASE pc' # "unlock"
      <3>1. PICK bk \in SUBSET Paths, pl \in SUBSET Paths :
              \E new \in [pl -> Data] :
                j' = NewJournal(bk, pl) /\ ndb' = NewDb(bk, pl, new)
        BY <1>15, <2>2 DEF Plan
      <3>2. PICK new \in [pl -> Data] :
                j' = NewJournal(bk, pl) /\ ndb' = NewDb(bk, pl, new)
        BY <3>1
      <3>3. Loaded \in Db
        BY <1>15, <2>2 DEF Plan, Loaded, EmptyDb, NoFiles
      <3>4. j' \in Journal /\ ndb' \in Db /\ \A p \in j'.pl : ndb'.files[p] \in Data
        BY <3>2, <3>3 DEF NewJournal, NewDb
      <3> QED
        BY <1>15, <2>2, <3>4 DEF Plan
    <2> QED
      BY <2>1, <2>2
  <1>16. CASE StageDirs
    BY <1>16 DEF StageDirs
  <1>17. CASE StageFile
    BY <1>17 DEF StageFile
  <1>18. CASE JournalTmp
    BY <1>18 DEF JournalTmp
  <1>19. CASE WriteJournal
    BY <1>19 DEF WriteJournal
  <1>20. CASE WriteNext
    BY <1>20 DEF WriteNext
  <1>21. CASE StepBackup
    BY <1>21 DEF StepBackup
  <1>22. CASE StepMkdir
    BY <1>22 DEF StepMkdir
  <1>23. CASE StepPlace
    BY <1>23 DEF StepPlace
  <1>24. CASE Commit
    BY <1>24 DEF Commit
  <1>25. CASE UnstageTmp
    BY <1>25 DEF UnstageTmp
  <1>26. CASE Crash
    BY <1>26 DEF Crash, TornCreate, EmptyDb, EmptyJournal, NoFiles
  <1>27. CASE Fault
    BY <1>27 DEF Fault, TornCreate, OnError
  <1>28. CASE UnlockFails
    BY <1>28 DEF UnlockFails
  <1>29. CASE LateError
    BY <1>29 DEF LateError, OnError
  <1>30. CASE UNCHANGED vars
    BY <1>30 DEF vars, proc
  <1> QED
    BY <1>1, <1>2, <1>3, <1>4, <1>5, <1>6, <1>7, <1>8, <1>9, <1>10, <1>11, <1>12, <1>13, <1>14, <1>15, <1>16, <1>17, <1>18, <1>19, <1>20, <1>21, <1>22, <1>23, <1>24, <1>25, <1>26, <1>27, <1>28, <1>29, <1>30 DEF Next, Step, Undo, Finish, Execute, Trouble

\* Every variable keeps its type: a torn file never gets past the stage, the
\* journal is never torn, and every loop stays inside what was planned.
THEOREM TypeCorrect == Spec => []TypeOK
  <1>1. Spec => []TypeInv
    BY TypeInit, TypeStep, PTL DEF Spec
  <1> QED
    BY <1>1, PTL DEF TypeInv
----------------------------------------------------------------------------
(* Recorded files are never lost.  The invariant below holds when the      *)
(* system has a database and plans replace no file; or replace files, with *)
(* one crash or error, which is none after a rename took effect.  In each  *)
(* of the cases left out a file is lost, or no recovery succeeds.          *)

\* The journal on disk is of a transaction that did not commit.
Pending == journal # None /\ db.tx # journal.tx

\* Transaction ids grow: the one being executed is newer than the database's.
Ids ==
    /\ db \in Db /\ db.tx <= txs
    /\ journal # None => journal.tx <= txs
    /\ pc \in Executing => j.tx = txs /\ ndb.tx = txs /\ db.tx < txs
    /\ pc \in {"undo_place", "undo_mkdir", "undo_backup", "undo_next"} =>
            ctx = "undo"
    /\ pc \in {"finish_dirs", "finish_next"} => ctx = "finish"
    /\ pc \in {"undo_place", "undo_mkdir", "undo_backup", "undo_next", "rmtree",
               "drop_journal"} /\ ctx = "undo" => db.tx # j.tx
    /\ pc \in {"rmtree", "finish_dirs", "finish_next", "drop_journal"} /\ ctx = "finish"
            => db.tx = j.tx
    /\ pc = "rmtree" /\ ctx = "unstage" /\ journal # None => Pending /\ journal = j
    /\ pc \in Staging \cup {"plan", "clean"} => journal = None
    /\ pc = "rmtree" /\ ctx = "clean" => journal = None
    /\ pc = "drop_journal" => ctx \in {"undo", "finish"}

\* Where a plan may replace files, a trouble is what stops a transaction, and
\* the only one: the recovery that follows is not interrupted.
Interrupted ==
    Overlap =>
        /\ Pending /\ pc \notin Applying => troubles >= 1
        /\ pc = "rmtree" /\ ctx = "unstage" => journal = None

\* Stage and backups are inside directories that exist.
Parents ==
    /\ \A p \in Paths : stage[p] # None => "stage" \in txDirs
    /\ \A p \in Paths : backup[p] # None => "backup" \in txDirs
    /\ pc \in {"plan", "drop_journal", "finish_dirs", "finish_next"} => txDirs = {}
    /\ pc \in (Executing \ {"stage_dirs"}) => txDirs = {"tx", "stage", "backup"}
    /\ pc = "stage_dirs" => txDirs # {"tx", "stage", "backup"}

\* With no transaction pending, recorded files are in place.
Settled ==
    ~Pending => \A p \in Paths : db.files[p] # None => files[p] = db.files[p]

\* With one pending, each recorded file is in place or in the backups, and
\* what was placed can go back to the stage.  A replaced file is staged until
\* its old content is set aside and the new one placed; undo goes back the
\* same way, and only then may the stage be removed.
Undoable ==
    Pending =>
        /\ Overlap \/ journal.bk \cap journal.pl = {}
        /\ \A p \in Paths :
            /\ p \notin journal.bk => backup[p] = None
            /\ backup[p] # None /\ p \notin journal.pl => files[p] = None
            /\ db.files[p] # None =>
                    db.files[p] = IF backup[p] # None THEN backup[p] ELSE files[p]
        /\ \A p \in journal.pl \ journal.bk :
            /\ db.files[p] = None
            /\ files[p] # None => "stage" \in txDirs /\ stage[p] = None
        /\ ~Unwound => \A p \in journal.bk \cap journal.pl :
            IF backup[p] = None THEN stage[p] # None
            ELSE files[p] = None <=> stage[p] # None

\* How far the steps have got.
Forward ==
    /\ pc \in Executing =>
        /\ Overlap \/ j.bk \cap j.pl = {}
        /\ \A p \in Paths \ j.pl :
                ndb.files[p] = IF p \in j.bk THEN None ELSE db.files[p]
    /\ pc \in Staging \cup {"next"} => backup = NoFiles
    /\ pc = "backup" => \A p \in todo : backup[p] = None
    /\ pc \in Staging => \A p \in j.pl \ j.bk : db.files[p] = None
    /\ pc \in Staging \cup {"next", "backup", "mkdir"} =>
            \A p \in j.pl \ j.bk : files[p] = None
    /\ pc = "place" => \A p \in todo : files[p] = None
    /\ pc = "place" => \A p \in j.pl \ todo : files[p] = ndb.files[p]
    /\ pc = "commit" => \A p \in j.pl : files[p] = ndb.files[p]
    /\ pc \in Staging \cup {"next"} => \A p \in j.bk : files[p] # None
    /\ pc = "backup" => /\ \A p \in todo : files[p] # None
                        /\ \A p \in j.bk \ todo : backup[p] # None
    /\ pc \in {"mkdir", "place", "commit"} => \A p \in j.bk : backup[p] # None

\* What undo has taken from p: what was placed, unless p is a replaced file
\* with its old content never set aside, or back.
Displaced(p) == files[p] = None \/ (p \in j.bk /\ backup[p] = None)

\* How far undo, or the removal of a failed staging, has got.
Backward ==
    /\ pc = "undo_place" => \A p \in j.pl \ todo : Displaced(p)
    /\ pc \in {"undo_mkdir", "undo_backup"} \/ Unwound => \A p \in j.pl : Displaced(p)
    /\ pc = "undo_backup" => \A p \in j.bk \ todo : backup[p] = None
    /\ Unwound => backup = NoFiles
    /\ pc = "rmtree" /\ ctx = "unstage" =>
            backup = NoFiles /\ \A p \in j.pl \ j.bk : files[p] = None

\* Directories: a file's directory exists; those a pending transaction makes
\* hold nothing but what it places, and go when it is undone; those a
\* committed one leaves empty go when it is finished.
Directories ==
    /\ \A p \in Paths : files[p] # None => DirOf[p] \in dirs \cup {None}
    /\ Pending => \A p \in Paths :
            /\ backup[p] # None => DirOf[p] \in (dirs \ journal.mk) \cup {None}
            /\ files[p] # None /\ p \notin journal.pl \ journal.bk =>
                    DirOf[p] \notin journal.mk
    /\ pc \in Executing =>
        /\ j.cl = {DirOf[p] : p \in j.bk} \cap Dirs
        /\ j.mk \subseteq {DirOf[p] : p \in j.pl}
        /\ \A p \in j.pl : DirOf[p] \in dirs \cup j.mk \cup {None}
    /\ pc \in Staging => j.mk \cap dirs = {}
    /\ pc = "mkdir" => j.mk \ todo \subseteq dirs
    /\ pc \in {"place", "commit"} => j.mk \subseteq dirs
    /\ pc = "undo_mkdir" => (j.mk \ todo) \cap dirs = {}
    /\ pc = "undo_backup" \/ Unwound => j.mk \cap dirs = {}
    /\ pc = "finish_dirs" => \A d \in j.cl \ todo : Empty(d, files) => d \notin dirs
    /\ pc = "finish_next" \/ (pc = "drop_journal" /\ ctx = "finish") =>
            \A d \in j.cl : Empty(d, files) => d \notin dirs

SafeInv == TypeInv /\ Ids /\ Interrupted /\ Parents /\ Settled /\ Undoable
           /\ Forward /\ Backward /\ Directories

\* The invariant holds at first.
LEMMA SafeInit == ASSUME ~Fresh PROVE Init => SafeInv
  BY TypeInit, ConstAssumption, SMT DEF Init, SafeInv, Ids, Interrupted, Displaced, Parents, Settled, Undoable, Forward,
     Backward, Directories, Empty, Pending, Unwound, Executing, Staging, Applying, EmptyDb, NoFiles, Db

\* Every action preserves it, if plans replace no file or one trouble is all.
LEMMA SafeStep ==
    ASSUME Overlap => MaxTroubles <= 1 /\ ~LateErrors, SafeInv, [Next]_vars
    PROVE  SafeInv'
  <1> USE ConstAssumption DEF SafeInv, Ids, Interrupted, Displaced, Parents, Settled, Undoable, Forward,
        Backward, Directories, Empty, Pending, Unwound, TypeInv, TypeOK, Control, Executing, Staging,
        Applying, Recovering, disk, bounds, Journal, Db, NoFiles
  <1>0. TypeInv'
    BY TypeStep
  <1>1. CASE Begin
    BY <1>0, <1>1 DEF Begin
  <1>2. CASE Recover
    BY <1>0, <1>2 DEF Recover
  <1>3. CASE Unlock
    BY <1>0, <1>3 DEF Unlock
  <1>4. CASE RecoverLocked
    BY <1>0, <1>4 DEF RecoverLocked
  <1>5. CASE Clean
    BY <1>0, <1>5 DEF Clean
  <1>6. CASE Promote
    BY <1>0, <1>6 DEF Promote
  <1>7. CASE Decide
    BY <1>0, <1>7 DEF Decide, HasCommitted, Loaded
  <1>8. CASE UndoPlace
    BY <1>0, <1>8 DEF UndoPlace, PutBack
  <1>9. CASE UndoMkdir
    BY <1>0, <1>9 DEF UndoMkdir, RemoveDir
  <1>10. CASE UndoBackup
    BY <1>0, <1>10 DEF UndoBackup, PutBack
  <1>11. CASE DropNext
    BY <1>0, <1>11 DEF DropNext
  <1>12. CASE RemoveTxDir
    BY <1>0, <1>12 DEF RemoveTxDir, AfterRecovery
  <1>13. CASE FinishDirs
    BY <1>0, <1>13 DEF FinishDirs, RemoveDir
  <1>14. CASE DropJournal
    BY <1>0, <1>14 DEF DropJournal, AfterRecovery
  <1>15. CASE Plan
    BY <1>0, <1>15 DEF Plan, NewJournal, NewDb, PlanOk, Loaded
  <1>16. CASE StageDirs
    <2>1. /\ UNCHANGED <<files, dirs, stage, backup, journal, tmp, db, next, lock, ctx, after,
                          j, ndb, bounds>>
          /\ pc = "stage_dirs" /\ pc' \in {"stage_dirs", "stage"} /\ journal = None
      BY <1>16 DEF StageDirs
    <2>2. /\ "stage" \in txDirs => "stage" \in txDirs'
          /\ "backup" \in txDirs => "backup" \in txDirs'
          /\ pc' = "stage" => txDirs' = {"tx", "stage", "backup"}
          /\ pc' = "stage_dirs" => txDirs' # {"tx", "stage", "backup"}
      BY <1>16 DEF StageDirs
    <2>3. Ids' /\ Interrupted' /\ Settled' /\ Undoable'
      BY <2>1
    <2>4. Parents'
      BY <2>1, <2>2
    <2>5. Forward' /\ Backward' /\ Directories'
      BY <2>1
    <2> QED
      BY <1>0, <2>3, <2>4, <2>5
  <1>17. CASE StageFile
    BY <1>0, <1>17 DEF StageFile
  <1>18. CASE JournalTmp
    BY <1>0, <1>18 DEF JournalTmp
  <1>19. CASE WriteJournal
    BY <1>0, <1>19 DEF WriteJournal
  <1>20. CASE WriteNext
    BY <1>0, <1>20 DEF WriteNext
  <1>21. CASE StepBackup
    BY <1>0, <1>21 DEF StepBackup
  <1>22. CASE StepMkdir
    BY <1>0, <1>22 DEF StepMkdir
  <1>23. CASE StepPlace
    BY <1>0, <1>23 DEF StepPlace
  <1>24. CASE Commit
    BY <1>0, <1>24 DEF Commit
  <1>25. CASE UnstageTmp
    BY <1>0, <1>25 DEF UnstageTmp
  <1>26. CASE Crash
    BY <1>0, <1>26 DEF Crash, TornCreate
  <1>27. CASE Fault
    BY <1>0, <1>27 DEF Fault, TornCreate, OnError
  <1>28. CASE UnlockFails
    BY <1>0, <1>28 DEF UnlockFails
  <1>29. CASE LateError
    BY <1>0, <1>29 DEF LateError, OnError
  <1>30. CASE UNCHANGED vars
    BY <1>0, <1>30 DEF vars, proc
  <1> QED
    BY <1>1, <1>2, <1>3, <1>4, <1>5, <1>6, <1>7, <1>8, <1>9, <1>10, <1>11, <1>12, <1>13, <1>14, <1>15, <1>16, <1>17, <1>18, <1>19, <1>20, <1>21, <1>22, <1>23, <1>24, <1>25, <1>26, <1>27, <1>28, <1>29, <1>30 DEF Next, Step, Undo, Finish, Execute, Trouble

\* The invariant holds in every behaviour.
LEMMA Safe == ASSUME ~Fresh, Overlap => MaxTroubles <= 1 /\ ~LateErrors PROVE Spec => []SafeInv
  <1>1. Init => SafeInv
    BY SafeInit
  <1>2. SafeInv /\ [Next]_vars => SafeInv'
    BY SafeStep
  <1> QED
    BY <1>1, <1>2, PTL DEF Spec

\* With no transaction left behind, every file the database records is there
\* with its content: however many crashes and errors there were, if plans
\* replace no file; after any one of them, if they do.
THEOREM FilesNeverLost ==
    ASSUME ~Fresh, Overlap => MaxTroubles <= 1 /\ ~LateErrors PROVE Spec => []RecordedFilesPresent
  <1>1. SafeInv => RecordedFilesPresent
    BY ConstAssumption DEF SafeInv, Ids, Settled, Pending, RecordedFilesPresent, Loaded
  <1> QED
    BY <1>1, Safe, PTL

\* No recovery fails for want of the stage directory, under the same conditions.
THEOREM UndoNeverStuck ==
    ASSUME ~Fresh, Overlap => MaxTroubles <= 1 /\ ~LateErrors PROVE Spec => []UndoCanProceed
  <1>1. SafeInv => UndoCanProceed
    <2> SUFFICES ASSUME SafeInv, pc = "undo_place",
                        NEW p \in todo, files[p] # None, stage[p] = None
                 PROVE  "stage" \in txDirs
      BY DEF UndoCanProceed, PutBack
    <2>1. journal = j /\ j \in Journal /\ todo \subseteq j.pl /\ j.pl \subseteq Paths
      BY DEF SafeInv, TypeInv, TypeOK, Control, Journal
    <2>2. Pending /\ ~Unwound
      BY <2>1, ConstAssumption DEF SafeInv, Ids, Pending, Unwound
    <2>3. CASE p \in j.bk
      <3>1. backup[p] # None
        BY <2>1, <2>2, <2>3 DEF SafeInv, Undoable
      <3> QED
        BY <2>1, <3>1 DEF SafeInv, TypeInv, TypeOK, Parents
    <2>4. CASE p \notin j.bk
      BY <2>1, <2>2, <2>4 DEF SafeInv, Undoable
    <2> QED
      BY <2>3, <2>4
  <1> QED
    BY <1>1, Safe, PTL

\* No file is ever in a directory that does not exist, under the same conditions.
THEOREM ParentsAlwaysExist ==
    ASSUME ~Fresh, Overlap => MaxTroubles <= 1 /\ ~LateErrors PROVE Spec => []ParentsExist
  <1>1. SafeInv => ParentsExist
    BY DEF SafeInv, Parents, Directories, ParentsExist
  <1> QED
    BY <1>1, Safe, PTL

----------------------------------------------------------------------------
(* What a transaction leaves behind, for every instance: plans that        *)
(* replace files and systems without a database included.                  *)

\* By the time the journal goes, db.json.new has gone, and so has everything
\* in the transaction's directory: removing it empties it from the inside.
Swept ==
    /\ Parents
    /\ pc \in {"undo_place", "undo_mkdir", "undo_backup", "undo_next"} => ctx = "undo"
    /\ (pc = "rmtree" /\ ctx = "undo") \/ pc = "drop_journal" => next = None

\* Nothing is there to be swept at first.
LEMMA SweptInit == Init => Swept
  BY ConstAssumption, SMT DEF Init, Swept, Parents, Executing, Staging, Applying, NoFiles

\* Every action keeps the order: db.json.new and the directory, then the journal.
LEMMA SweptStep == ASSUME TypeInv, Swept, [Next]_vars PROVE Swept'
  <1> USE ConstAssumption DEF Swept, Parents, TypeInv, TypeOK, Executing, Staging, Applying,
        Recovering, disk, bounds, NoFiles
  <1>1. CASE Begin
    BY <1>1 DEF Begin
  <1>2. CASE Recover
    BY <1>2 DEF Recover
  <1>3. CASE Unlock
    BY <1>3 DEF Unlock
  <1>4. CASE RecoverLocked
    BY <1>4 DEF RecoverLocked
  <1>5. CASE Clean
    BY <1>5 DEF Clean
  <1>6. CASE Promote
    BY <1>6 DEF Promote
  <1>7. CASE Decide
    BY <1>7 DEF Decide, HasCommitted
  <1>8. CASE UndoPlace
    BY <1>8 DEF UndoPlace, PutBack
  <1>9. CASE UndoMkdir
    BY <1>9 DEF UndoMkdir
  <1>10. CASE UndoBackup
    <2>1. \A p \in Paths : backup'[p] # None => backup[p] # None
      BY <1>10 DEF UndoBackup
    <2>2. pc' \in {"undo_backup", "undo_next"} /\ (pc' = "undo_next" => ctx' = ctx)
      BY <1>10 DEF UndoBackup
    <2> QED
      BY <1>10, <2>1, <2>2 DEF UndoBackup
  <1>11. CASE DropNext
    BY <1>11 DEF DropNext
  <1>12. CASE RemoveTxDir
    BY <1>12 DEF RemoveTxDir, AfterRecovery
  <1>13. CASE FinishDirs
    BY <1>13 DEF FinishDirs
  <1>14. CASE DropJournal
    BY <1>14 DEF DropJournal, AfterRecovery
  <1>15. CASE Plan
    BY <1>15 DEF Plan
  <1>16. CASE StageDirs
    BY <1>16 DEF StageDirs
  <1>17. CASE StageFile
    BY <1>17 DEF StageFile
  <1>18. CASE JournalTmp
    BY <1>18 DEF JournalTmp
  <1>19. CASE WriteJournal
    BY <1>19 DEF WriteJournal
  <1>20. CASE WriteNext
    BY <1>20 DEF WriteNext
  <1>21. CASE StepBackup
    BY <1>21 DEF StepBackup
  <1>22. CASE StepMkdir
    BY <1>22 DEF StepMkdir
  <1>23. CASE StepPlace
    BY <1>23 DEF StepPlace
  <1>24. CASE Commit
    BY <1>24 DEF Commit
  <1>25. CASE UnstageTmp
    BY <1>25 DEF UnstageTmp
  <1>26. CASE Crash
    BY <1>26 DEF Crash, TornCreate
  <1>27. CASE Fault
    BY <1>27 DEF Fault, TornCreate, OnError
  <1>28. CASE UnlockFails
    BY <1>28 DEF UnlockFails
  <1>29. CASE LateError
    BY <1>29 DEF LateError, OnError
  <1>30. CASE UNCHANGED vars
    BY <1>30 DEF vars, proc
  <1> QED
    BY <1>1, <1>2, <1>3, <1>4, <1>5, <1>6, <1>7, <1>8, <1>9, <1>10, <1>11, <1>12, <1>13, <1>14,
       <1>15, <1>16, <1>17, <1>18, <1>19, <1>20, <1>21, <1>22, <1>23, <1>24, <1>25, <1>26,
       <1>27, <1>28, <1>29, <1>30 DEF Next, Step, Undo, Finish, Execute, Trouble

\* Only dropping it takes the journal away.
LEMMA JournalStays ==
    ASSUME TypeInv, [Next]_vars, journal # None, journal' = None PROVE DropJournal
  BY ConstAssumption DEF TypeInv, TypeOK, Control, Next, Step, Undo, Finish, Execute, Trouble,
     Begin, Recover, Unlock, RecoverLocked, Clean, Promote, Decide, UndoPlace, UndoMkdir,
     UndoBackup, DropNext, RemoveTxDir, FinishDirs, Plan, StageDirs, StageFile, JournalTmp,
     WriteJournal, WriteNext, StepBackup, StepMkdir, StepPlace, Commit, UnstageTmp, Crash,
     TornCreate, Fault, UnlockFails, LateError, vars, disk

\* Once its journal is dropped a transaction, finished or undone, has left no
\* staged file, no backup and no db.json.new, whatever it planned and however
\* often it was interrupted.
THEOREM NothingLeft == Spec => NoLeftovers
  <1>1. ASSUME TypeInv, Swept, [Next]_vars
        PROVE [journal # None /\ journal' = None =>
                  /\ stage' = NoFiles /\ backup' = NoFiles
                  /\ txDirs' = {} /\ next' = None]_vars
    <2> SUFFICES ASSUME journal # None, journal' = None
                 PROVE  /\ stage' = NoFiles /\ backup' = NoFiles
                        /\ txDirs' = {} /\ next' = None
      OBVIOUS
    <2>1. DropJournal
      BY <1>1, JournalStays
    <2>2. txDirs = {} /\ next = None
      BY <1>1, <2>1 DEF DropJournal, Swept, Parents
    <2>3. stage = NoFiles /\ backup = NoFiles
      BY <1>1, <2>2 DEF Swept, Parents, TypeInv, TypeOK, NoFiles
    <2> QED
      BY <2>1, <2>2, <2>3 DEF DropJournal
  <1>2. Spec => [](TypeInv /\ Swept)
    BY TypeInit, TypeStep, SweptInit, SweptStep, PTL DEF Spec
  <1> QED
    BY <1>1, <1>2, PTL DEF Spec, NoLeftovers

----------------------------------------------------------------------------
(* The refinement.                                                         *)

\* The first state shows an abstract first state.
LEMMA InitShown == ASSUME ~Fresh PROVE Init => Abstract!Init
  BY ConstAssumption DEF Init, Abstract!Init, ShownFiles, ShownDirs, Loaded, Db, Empty

\* The commit is the abstract step.
LEMMA CommitApplies ==
    ASSUME SafeInv, pc = "commit", db' = next,
           UNCHANGED <<files, dirs, stage, backup, journal>>
    PROVE  Abstract!Next
  <1> USE ConstAssumption DEF SafeInv, TypeInv, TypeOK, Journal, Db
  <1> DEFINE new == [p \in j.pl |-> ndb.files[p]]
  <1>1. /\ journal = j /\ next = ndb /\ db.tx < ndb.tx /\ ndb.tx = j.tx /\ db' = ndb
        /\ journal # None /\ db \in Db /\ ndb \in Db
        /\ Pending
    BY DEF Control, Ids, Forward, Executing, Applying, Staging, Pending
  <1>2. Loaded = db /\ Loaded' = ndb
    BY <1>1 DEF Loaded
  <1>3. new \in [j.pl -> Data]
    BY DEF Control, Executing, Applying
  <1>4. /\ \A p \in j.pl : files[p] = new[p]
        /\ \A p \in j.pl \ j.bk : backup[p] = None /\ stage[p] = None
        /\ \A p \in j.bk \ j.pl : files[p] = None
        /\ \A p \in j.bk : backup[p] # None
        /\ \A p \in Paths \ (j.bk \cup j.pl) : backup[p] = None
    BY <1>1, <1>3 DEF Undoable, Forward, Executing, Applying, Staging
  <1>5. ShownFiles = [p \in Paths |-> IF p \in j.bk THEN backup[p]
                                      ELSE IF p \in j.pl THEN None ELSE files[p]]
    BY <1>1, <1>4 DEF ShownFiles, Committed, Unwound
  <1>6. ShownFiles' = files
    BY <1>1 DEF ShownFiles, Committed
  <1>7. files = [p \in Paths |-> IF p \in j.pl THEN new[p]
                                 ELSE IF p \in j.bk THEN None ELSE ShownFiles[p]]
    BY <1>1, <1>4, <1>5
  <1>8. ndb.files = [p \in Paths |-> IF p \in j.pl THEN new[p]
                                     ELSE IF p \in j.bk THEN None ELSE db.files[p]]
    BY <1>1 DEF Forward, Executing, Applying, Staging
  <1>9. ShownDirs = dirs \ j.mk
    BY <1>1 DEF ShownDirs, Committed
  <1>10. ShownDirs' = dirs \ {d \in j.cl : Empty(d, files)}
    BY <1>1 DEF ShownDirs, Committed, Empty
  <1>11. ShownDirs' = (ShownDirs \cup ({DirOf[p] : p \in j.pl} \cap Dirs))
                        \ {d \in {DirOf[p] : p \in j.bk} \cap Dirs :
                              \A p \in Paths : DirOf[p] = d => files[p] = None}
    BY <1>9, <1>10 DEF Directories, Executing, Applying, Empty
  <1> HIDE DEF new
  <1>12. /\ \A p \in j.bk : ShownFiles[p] # None
         /\ \A p \in j.pl : ShownFiles[p] = None \/ p \in j.bk
    BY <1>1, <1>4, <1>5
  <1>13. Loaded'.tx > Loaded.tx
    BY <1>1, <1>2
  <1>14. Loaded'.files = [p \in Paths |-> IF p \in j.pl THEN new[p]
                                 ELSE IF p \in j.bk THEN None ELSE Loaded.files[p]]
    BY <1>2, <1>8
  <1> DEFINE aft == [p \in Paths |-> IF p \in j.pl THEN new[p]
                                     ELSE IF p \in j.bk THEN None ELSE ShownFiles[p]]
  <1>15. /\ ShownFiles' = aft
         /\ ShownDirs' = (ShownDirs \cup ({DirOf[p] : p \in j.pl} \cap Dirs))
                        \ {d \in {DirOf[p] : p \in j.bk} \cap Dirs :
                              \A p \in Paths : DirOf[p] = d => aft[p] = None}
    BY <1>6, <1>7, <1>11
  <1>16. Abstract!Apply(j.bk, j.pl, new)
    BY <1>12, <1>13, <1>14, <1>15, Zenon DEF Abstract!Apply
  <1> QED
    BY <1>3, <1>16 DEF Abstract!Next

\* Every other step shows nothing.
LEMMA StepShown ==
    ASSUME SafeInv, SafeInv', [Next]_vars, Overlap => MaxTroubles <= 1 /\ ~LateErrors
    PROVE  [Abstract!Next]_<<ShownFiles, ShownDirs, Loaded>>
  <1> USE ConstAssumption DEF SafeInv, Ids, Interrupted, Displaced, Parents, Settled,
        Undoable, Forward, Backward, Directories, Empty, Pending, Unwound, TypeInv, TypeOK, Control,
        Executing, Staging, Applying, Recovering, disk, bounds, Journal, Db, NoFiles,
        ShownFiles, ShownDirs, Loaded, Committed
  <1>1. CASE Begin
    BY <1>1 DEF Begin
  <1>2. CASE Recover
    BY <1>2 DEF Recover
  <1>3. CASE Unlock
    BY <1>3 DEF Unlock
  <1>4. CASE RecoverLocked
    BY <1>4 DEF RecoverLocked
  <1>5. CASE Clean
    BY <1>5 DEF Clean
  <1>6. CASE Promote
    BY <1>6 DEF Promote
  <1>7. CASE Decide
    BY <1>7 DEF Decide
  <1>8. CASE UndoPlace
    BY <1>8 DEF UndoPlace, PutBack
  <1>9. CASE UndoMkdir
    <2>1. journal = j /\ Pending /\ db # None
      BY <1>9 DEF UndoMkdir
    <2>2. UNCHANGED <<files, stage, backup, journal, db, ctx>>
      BY <1>9 DEF UndoMkdir
    <2>3. ShownDirs = dirs \ j.mk /\ ShownDirs' = dirs' \ j.mk
      BY <2>1, <2>2
    <2>4. dirs' \ j.mk = dirs \ j.mk
      BY <1>9, <2>1 DEF UndoMkdir, RemoveDir
    <2>5. UNCHANGED ShownFiles
      BY <1>9, <2>1, <2>2 DEF UndoMkdir
    <2> HIDE DEF ShownDirs, ShownFiles, Loaded
    <2>6. UNCHANGED ShownDirs
      BY <2>3, <2>4
    <2>7. UNCHANGED Loaded
      BY <2>2 DEF Loaded
    <2> QED
      BY <2>5, <2>6, <2>7
  <1>10. CASE UndoBackup
    BY <1>10 DEF UndoBackup, PutBack
  <1>11. CASE DropNext
    BY <1>11 DEF DropNext
  <1>12. CASE RemoveTxDir
    BY <1>12 DEF RemoveTxDir, AfterRecovery
  <1>13. CASE FinishDirs
    <2>1. journal = j /\ journal # None /\ db.tx = j.tx /\ db # None
      BY <1>13 DEF FinishDirs
    <2>2. UNCHANGED <<files, stage, backup, journal, db, ctx>>
      BY <1>13 DEF FinishDirs
    <2>3. /\ ShownDirs = dirs \ {d \in j.cl : Empty(d, files)}
          /\ ShownDirs' = dirs' \ {d \in j.cl : Empty(d, files)}
      BY <2>1, <2>2
    <2>4. dirs' \ {d \in j.cl : Empty(d, files)} = dirs \ {d \in j.cl : Empty(d, files)}
      BY <1>13, <2>1 DEF FinishDirs, RemoveDir
    <2>5. UNCHANGED ShownFiles
      BY <1>13, <2>1, <2>2 DEF FinishDirs
    <2> HIDE DEF ShownDirs, ShownFiles, Loaded
    <2>6. UNCHANGED ShownDirs
      BY <2>3, <2>4
    <2>7. UNCHANGED Loaded
      BY <2>2 DEF Loaded
    <2> QED
      BY <2>5, <2>6, <2>7
  <1>14. CASE DropJournal
    BY <1>14 DEF DropJournal, AfterRecovery
  <1>15. CASE Plan
    BY <1>15 DEF Plan
  <1>16. CASE StageDirs
    BY <1>16 DEF StageDirs
  <1>17. CASE StageFile
    BY <1>17 DEF StageFile
  <1>18. CASE JournalTmp
    BY <1>18 DEF JournalTmp
  <1>19. CASE WriteJournal
    BY <1>19 DEF WriteJournal
  <1>20. CASE WriteNext
    BY <1>20 DEF WriteNext
  <1>21. CASE StepBackup
    BY <1>21 DEF StepBackup
  <1>22. CASE StepMkdir
    <2>1. journal = j /\ Pending /\ db # None
      BY <1>22 DEF StepMkdir
    <2>2. UNCHANGED <<files, stage, backup, journal, db, ctx>>
      BY <1>22 DEF StepMkdir
    <2>3. ShownDirs = dirs \ j.mk /\ ShownDirs' = dirs' \ j.mk
      BY <2>1, <2>2
    <2>4. dirs' \ j.mk = dirs \ j.mk
      BY <1>22, <2>1 DEF StepMkdir
    <2>5. UNCHANGED ShownFiles
      BY <1>22, <2>1, <2>2 DEF StepMkdir
    <2> HIDE DEF ShownDirs, ShownFiles, Loaded
    <2>6. UNCHANGED ShownDirs
      BY <2>3, <2>4
    <2>7. UNCHANGED Loaded
      BY <2>2 DEF Loaded
    <2> QED
      BY <2>5, <2>6, <2>7
  <1>23. CASE StepPlace
    BY <1>23 DEF StepPlace
  <1>24. CASE Commit
    BY <1>24, CommitApplies DEF Commit
  <1>25. CASE UnstageTmp
    BY <1>25 DEF UnstageTmp
  <1>26. CASE Crash
    <2>1. /\ UNCHANGED <<files, dirs, backup, journal, db>>
          /\ stage' # stage => pc = "stage"
          /\ ~Unwound'
      BY <1>26 DEF Crash, TornCreate
    <2>2. UNCHANGED <<ShownDirs, Loaded>>
      BY <2>1
    <2>3. UNCHANGED ShownFiles
      BY <2>1
    <2> QED
      BY <2>2, <2>3
  <1>27. CASE Fault
    <2>1. /\ UNCHANGED <<files, dirs, backup, journal, db>>
          /\ stage' # stage => pc = "stage"
          /\ ~Unwound'
      BY <1>27 DEF Fault, TornCreate, OnError
    <2>2. UNCHANGED <<ShownDirs, Loaded>>
      BY <2>1
    <2>3. UNCHANGED ShownFiles
      BY <2>1
    <2> QED
      BY <2>2, <2>3
  <1>28. CASE UnlockFails
    BY <1>28 DEF UnlockFails
  <1>29. CASE LateError
    <2>1. CASE pc = "commit"
      BY <1>29, <2>1, CommitApplies DEF LateError
    <2>2. CASE pc = "journal"
      BY <1>29, <2>2 DEF LateError, OnError
    <2> QED
      BY <1>29, <2>1, <2>2 DEF LateError
  <1>30. CASE UNCHANGED vars
    BY <1>30 DEF vars, proc
  <1> QED
    BY <1>1, <1>2, <1>3, <1>4, <1>5, <1>6, <1>7, <1>8, <1>9, <1>10, <1>11, <1>12, <1>13, <1>14, <1>15, <1>16, <1>17, <1>18, <1>19, <1>20, <1>21, <1>22, <1>23, <1>24, <1>25, <1>26, <1>27, <1>28, <1>29, <1>30 DEF Next, Step, Undo, Finish, Execute, Trouble

\* A transaction is atomic: files, directories and database change in one step
\* or not at all; whatever is interrupted and however often, if it replaces no
\* file, and wherever it is interrupted once, if it does.
THEOREM Atomic == ASSUME ~Fresh, Overlap => MaxTroubles <= 1 /\ ~LateErrors PROVE Spec => Atomicity
  <1>1. SafeInv /\ SafeInv' /\ [Next]_vars => [Abstract!Next]_<<ShownFiles, ShownDirs, Loaded>>
    BY StepShown
  <1> QED
    BY <1>1, Safe, InitShown, PTL DEF Spec, Atomicity, Abstract!Spec
=============================================================================
