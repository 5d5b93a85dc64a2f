------------------------------ MODULE NcpkgTx ------------------------------
(***************************************************************************)
(* One transaction of the package manager, filesystem operation by         *)
(* filesystem operation: staging, the journal, db.json.new, the renames,   *)
(* the commit, the clean-up; the lock; and recovery, which finishes or     *)
(* undoes what a crash or an error interrupted.                            *)
(*                                                                         *)
(* Everything durable is a variable (what a power cut leaves), everything  *)
(* the running process holds is another (what a power cut takes).  Each    *)
(* action is one mutation of the Fs trait, durable when it returns: the    *)
(* promise StdFs and MemFs keep.  An NCFS volume commits several mutations *)
(* together, so its crash states are a subset of the ones reached here.    *)
(*                                                                         *)
(* The steps of a journal are ordered backups, mkdirs, places; inside one  *)
(* of these groups the order is the plan's and is left open here.          *)
(***************************************************************************)
EXTENDS Naturals, FiniteSets

CONSTANTS
    Paths,      \* destination paths of files
    Dirs,       \* directories the installer may create and remove
    DirOf,      \* the directory of each path; outside Dirs: one of KEEP
    Data,       \* contents of files
    None,       \* nothing at this path
    Torn,       \* a file cut short by a crash inside create
    Fresh,      \* TRUE: the system starts without a db.json
    Overlap,    \* TRUE: a plan may replace a file (back it up and place it)
    LateErrors, \* TRUE: replace may fail after its rename took effect
    MaxTx,      \* transactions planned
    MaxTroubles \* power cuts and filesystem errors, together

\* db.json, as far as a transaction is concerned: last_tx, and the content of
\* every file a package or a library records.
Db == [tx : Nat, files : [Paths -> Data \cup {None}]]

\* journal.json: the backup, mkdir and place steps, and the cleanup list.
Journal == [tx : Nat, bk : SUBSET Paths, mk : SUBSET Dirs,
            pl : SUBSET Paths, cl : SUBSET Dirs]

ASSUME ConstAssumption ==
    /\ None \notin Data /\ Torn \notin Data /\ None # Torn
    /\ DirOf \in [Paths -> Dirs \cup {None}]
    /\ None \notin Dirs
    /\ {None, Torn} \cap (Db \cup Journal) = {}
    /\ {Fresh, Overlap, LateErrors} \subseteq BOOLEAN
    /\ {MaxTx, MaxTroubles} \subseteq Nat

VARIABLES
    files,    \* content at each destination path
    dirs,     \* the directories of Dirs that exist
    stage,    \* <tx>/stage/i, by the destination it is staged for
    backup,   \* <tx>/backup/i, by the path it was moved from
    txDirs,   \* directories of the transaction that exist
    journal,  \* journal.json
    tmp,      \* journal.json.tmp
    db,       \* db.json
    next,     \* db.json.new
    lock,     \* the lock file: "free" (absent) or "held"
    pc,       \* where the process stands; "idle" when none runs
    ctx,      \* why the transaction's directory is being removed
    after,    \* where the recovery under way goes when it ends
    todo,     \* what is left of the loop the process is in
    j,        \* the journal in memory
    ndb,      \* plan.db: the database to be committed
    txs, troubles \* how many of each so far

disk == <<files, dirs, stage, backup, txDirs, journal, tmp, db, next>>
proc == <<pc, ctx, after, todo, j, ndb>>
bounds == <<txs, troubles>>
vars == <<disk, lock, proc, bounds>>

NoFiles == [p \in Paths |-> None]
EmptyDb == [tx |-> 0, files |-> NoFiles]
EmptyJournal == [tx |-> 0, bk |-> {}, mk |-> {}, pl |-> {}, cl |-> {}]

\* What Db::load makes of db.json: no file is an empty database.
Loaded == IF db = None THEN EmptyDb ELSE db

\* Nothing is in directory d.
Empty(d, fs) == \A p \in Paths : DirOf[p] = d => fs[p] = None

\* remove_dir, its NotEmpty and NotFound answers tolerated.
RemoveDir(d) == IF Empty(d, files) THEN dirs \ {d} ELSE dirs

Init ==
    /\ files \in [Paths -> Data \cup {None}]
    /\ Fresh => files = NoFiles
    /\ dirs = {d \in Dirs : ~Empty(d, files)}
    /\ db = IF Fresh THEN None ELSE [tx |-> 0, files |-> files]
    /\ stage = NoFiles /\ backup = NoFiles /\ txDirs = {}
    /\ journal = None /\ tmp = None /\ next = None
    /\ lock = "free"
    /\ pc = "idle" /\ ctx = "clean" /\ after = "unlock" /\ todo = {}
    /\ j = EmptyJournal /\ ndb = EmptyDb
    /\ txs = 0 /\ troubles = 0

----------------------------------------------------------------------------
(* The lock.                                                               *)

\* locked: takes the lock, recovers, then runs the body.
Begin ==
    /\ pc = "idle" /\ lock = "free"
    /\ lock' = "held" /\ after' = "plan" /\ pc' = "read"
    /\ UNCHANGED <<disk, ctx, todo, j, ndb, bounds>>

\* recover(force_unlock): removes a lock a crash left, takes it, recovers.
Recover ==
    /\ pc = "idle"
    /\ lock' = "held" /\ after' = "unlock" /\ pc' = "read"
    /\ UNCHANGED <<disk, ctx, todo, j, ndb, bounds>>

Unlock ==
    /\ pc = "unlock"
    /\ lock' = "free" /\ pc' = "idle" /\ after' = "unlock"
    /\ UNCHANGED <<disk, ctx, todo, j, ndb, bounds>>

\* Where an ended recovery goes: to the operation it preceded, or out.
AfterRecovery == pc' = after

----------------------------------------------------------------------------
(* Recovery.                                                               *)

\* recover_locked up to its first branch: reads the journal, removes .tmp.
RecoverLocked ==
    /\ pc = "read"
    /\ tmp' = None
    /\ pc' = IF journal = None THEN "clean" ELSE "promote"
    /\ j' = IF journal = None THEN j ELSE journal
    /\ UNCHANGED <<files, dirs, stage, backup, txDirs, journal, db, next,
                   lock, ctx, after, todo, ndb, bounds>>

\* No journal: db.json.new and the transaction directory go.
Clean ==
    /\ pc = "clean"
    /\ next' = None
    /\ pc' = "rmtree" /\ ctx' = "clean"
    /\ UNCHANGED <<files, dirs, stage, backup, txDirs, journal, tmp, db,
                   lock, after, todo, j, ndb, bounds>>

\* A replace that is not atomic was cut in two: name the new database.
Promote ==
    /\ pc = "promote"
    /\ IF db = None /\ next # None
       THEN db' = next /\ next' = None
       ELSE UNCHANGED <<db, next>>
    /\ pc' = "decide"
    /\ UNCHANGED <<files, dirs, stage, backup, txDirs, journal, tmp, lock,
                   ctx, after, todo, j, ndb, bounds>>

\* last_tx names the transaction of the journal.
MutAlwaysCommitted == TRUE
HasCommitted == Loaded.tx = j.tx

\* The database, not the journal, says which way to go.  A database that
\* does not parse ends the recovery with an error.
Decide ==
    /\ pc = "decide"
    /\ \/ db = Torn /\ pc' = "unlock" /\ UNCHANGED <<ctx, todo>>
       \/ /\ db # Torn /\ HasCommitted
          /\ pc' = "rmtree" /\ ctx' = "finish" /\ UNCHANGED todo
       \/ /\ db # Torn /\ ~HasCommitted
          /\ pc' = "undo_place" /\ ctx' = "undo" /\ todo' = j.pl
    /\ UNCHANGED <<disk, lock, after, j, ndb, bounds>>

\* A step was done and is not undone yet: `to` is there and `from` is free.
PutBack(to, from) == to # None /\ from = None

\* undo, a Place step: `to` goes back to the stage if it is there and the
\* stage is free; the rename fails if the stage directory is gone.
UndoPlace ==
    /\ pc = "undo_place"
    /\ \/ \E p \in todo :
          \/ /\ PutBack(files[p], stage[p]) /\ "stage" \in txDirs
             /\ stage' = [stage EXCEPT ![p] = files[p]]
             /\ files' = [files EXCEPT ![p] = None]
             /\ todo' = todo \ {p} /\ UNCHANGED pc
          \/ /\ PutBack(files[p], stage[p]) /\ "stage" \notin txDirs
             /\ pc' = "unlock" /\ UNCHANGED <<stage, files, todo>>
          \/ /\ ~PutBack(files[p], stage[p])
             /\ todo' = todo \ {p} /\ UNCHANGED <<stage, files, pc>>
       \/ /\ todo = {}
          /\ pc' = "undo_mkdir" /\ todo' = j.mk /\ UNCHANGED <<stage, files>>
    /\ UNCHANGED <<dirs, backup, txDirs, journal, tmp, db, next, lock, ctx,
                   after, j, ndb, bounds>>

\* undo, a Mkdir step: the directory goes if it is empty.
UndoMkdir ==
    /\ pc = "undo_mkdir"
    /\ \/ \E d \in todo :
          /\ dirs' = RemoveDir(d)
          /\ todo' = todo \ {d} /\ UNCHANGED pc
       \/ /\ todo = {}
          /\ pc' = "undo_backup" /\ todo' = j.bk /\ UNCHANGED dirs
    /\ UNCHANGED <<files, stage, backup, txDirs, journal, tmp, db, next,
                   lock, ctx, after, j, ndb, bounds>>

\* undo, a Backup step: the backup goes back where it was.
UndoBackup ==
    /\ pc = "undo_backup"
    /\ \/ \E p \in todo :
          /\ IF PutBack(backup[p], files[p])
             THEN /\ files' = [files EXCEPT ![p] = backup[p]]
                  /\ backup' = [backup EXCEPT ![p] = None]
             ELSE UNCHANGED <<files, backup>>
          /\ todo' = todo \ {p} /\ UNCHANGED pc
       \/ /\ todo = {}
          /\ pc' = "undo_next" /\ UNCHANGED <<files, backup, todo>>
    /\ UNCHANGED <<dirs, stage, txDirs, journal, tmp, db, next, lock, ctx,
                   after, j, ndb, bounds>>

\* undo and finish: db.json.new goes.
MutDropNextForgets ==
    /\ pc \in {"undo_next", "finish_next"}
    /\ pc' = IF pc = "undo_next" THEN "rmtree" ELSE "drop_journal"
    /\ UNCHANGED <<disk, lock, ctx, after, todo, j, ndb, bounds>>

DropNext ==
    /\ pc \in {"undo_next", "finish_next"}
    /\ next' = None
    /\ pc' = IF pc = "undo_next" THEN "rmtree" ELSE "drop_journal"
    /\ UNCHANGED <<files, dirs, stage, backup, txDirs, journal, tmp, db,
                   lock, ctx, after, todo, j, ndb, bounds>>

\* remove_tree of the transaction's directory, one removal at a time: the
\* names sort, so backup/ empties and goes before stage/ does.
RemoveTxDir ==
    /\ pc = "rmtree"
    /\ \/ \E p \in Paths :
          /\ backup[p] # None
          /\ backup' = [backup EXCEPT ![p] = None]
          /\ UNCHANGED <<stage, txDirs, pc, todo>>
       \/ /\ backup = NoFiles /\ "backup" \in txDirs
          /\ txDirs' = txDirs \ {"backup"}
          /\ UNCHANGED <<backup, stage, pc, todo>>
       \/ \E p \in Paths :
          /\ "backup" \notin txDirs /\ stage[p] # None
          /\ stage' = [stage EXCEPT ![p] = None]
          /\ UNCHANGED <<backup, txDirs, pc, todo>>
       \/ /\ "backup" \notin txDirs /\ stage = NoFiles /\ "stage" \in txDirs
          /\ txDirs' = txDirs \ {"stage"}
          /\ UNCHANGED <<backup, stage, pc, todo>>
       \/ /\ txDirs = {"tx"}
          /\ txDirs' = {}
          /\ UNCHANGED <<backup, stage, pc, todo>>
       \/ /\ txDirs = {}
          /\ \/ ctx = "clean" /\ AfterRecovery /\ UNCHANGED todo
             \/ ctx = "undo" /\ pc' = "drop_journal" /\ UNCHANGED todo
             \/ ctx = "finish" /\ pc' = "finish_dirs" /\ todo' = j.cl
             \/ ctx = "unstage" /\ pc' = "unstage_tmp" /\ UNCHANGED todo
          /\ UNCHANGED <<backup, stage, txDirs>>
    /\ UNCHANGED <<files, dirs, journal, tmp, db, next, lock, ctx, after, j,
                   ndb, bounds>>

\* finish: the directories the transaction may have left empty.
FinishDirs ==
    /\ pc = "finish_dirs"
    /\ \/ \E d \in todo :
          /\ dirs' = RemoveDir(d)
          /\ todo' = todo \ {d} /\ UNCHANGED pc
       \/ /\ todo = {}
          /\ pc' = "finish_next" /\ UNCHANGED <<dirs, todo>>
    /\ UNCHANGED <<files, stage, backup, txDirs, journal, tmp, db, next,
                   lock, ctx, after, j, ndb, bounds>>

\* undo and finish: the journal goes last.
MutDropJournalForgets ==
    /\ pc = "drop_journal"
    /\ AfterRecovery
    /\ UNCHANGED <<disk, lock, ctx, after, todo, j, ndb, bounds>>

DropJournal ==
    /\ pc = "drop_journal"
    /\ journal' = None
    /\ AfterRecovery
    /\ UNCHANGED <<files, dirs, stage, backup, txDirs, tmp, db, next, lock,
                   ctx, after, todo, j, ndb, bounds>>

----------------------------------------------------------------------------
(* The transaction.                                                        *)

\* A plan moves the files of bk aside and places the files of pl, with the
\* contents new, where nothing is or where a backup makes room.
PlanOk(bk, pl) ==
    /\ bk \cup pl # {}
    /\ \A p \in bk : files[p] # None
    /\ \A p \in pl : files[p] = None \/ p \in bk
    /\ Overlap \/ bk \cap pl = {}

\* Its steps: the directories missing for what is placed are made first; those
\* that what is moved aside may leave empty are removed at the end.
NewJournal(bk, pl) ==
    [tx |-> txs + 1, bk |-> bk, mk |-> ({DirOf[p] : p \in pl} \cap Dirs) \ dirs,
     pl |-> pl, cl |-> {DirOf[p] : p \in bk} \cap Dirs]

\* The database that records the result.
NewDb(bk, pl, new) ==
    [tx |-> txs + 1,
     files |-> [p \in Paths |-> IF p \in pl THEN new[p]
                                ELSE IF p \in bk THEN None ELSE Loaded.files[p]]]

\* The body of install or remove: planned and confirmed, or refused.
Plan ==
    /\ pc = "plan" /\ after' = "unlock"
    /\ \/ /\ db # Torn /\ txs < MaxTx
          /\ \E bk, pl \in SUBSET Paths : \E new \in [pl -> Data] :
             /\ PlanOk(bk, pl)
             /\ j' = NewJournal(bk, pl) /\ ndb' = NewDb(bk, pl, new)
          /\ txs' = txs + 1 /\ pc' = "stage_dirs"
       \/ pc' = "unlock" /\ UNCHANGED <<j, ndb, txs>>
    /\ UNCHANGED <<disk, lock, ctx, todo, troubles>>

\* create_dir_all of <tx>/stage and <tx>/backup.
StageDirs ==
    /\ pc = "stage_dirs"
    /\ \/ txDirs = {} /\ txDirs' = {"tx"} /\ UNCHANGED <<pc, todo>>
       \/ txDirs = {"tx"} /\ txDirs' = {"tx", "stage"} /\ UNCHANGED <<pc, todo>>
       \/ /\ txDirs = {"tx", "stage"} /\ txDirs' = {"tx", "stage", "backup"}
          /\ pc' = "stage" /\ todo' = j.pl
    /\ UNCHANGED <<files, dirs, stage, backup, journal, tmp, db, next, lock,
                   ctx, after, j, ndb, bounds>>

StageFile ==
    /\ pc = "stage"
    /\ \/ \E p \in todo :
          /\ stage' = [stage EXCEPT ![p] = ndb.files[p]]
          /\ todo' = todo \ {p} /\ UNCHANGED pc
       \/ todo = {} /\ pc' = "journal_tmp" /\ UNCHANGED <<stage, todo>>
    /\ UNCHANGED <<files, dirs, backup, txDirs, journal, tmp, db, next, lock,
                   ctx, after, j, ndb, bounds>>

\* write_atomic of the journal: a temporary file, then replace.
JournalTmp ==
    /\ pc = "journal_tmp"
    /\ tmp' = j /\ pc' = "journal"
    /\ UNCHANGED <<files, dirs, stage, backup, txDirs, journal, db, next,
                   lock, ctx, after, todo, j, ndb, bounds>>

WriteJournal ==
    /\ pc = "journal"
    /\ journal' = tmp /\ tmp' = None /\ pc' = "next"
    /\ UNCHANGED <<files, dirs, stage, backup, txDirs, db, next, lock, ctx,
                   after, todo, j, ndb, bounds>>

WriteNext ==
    /\ pc = "next"
    /\ next' = ndb /\ pc' = "backup" /\ todo' = j.bk
    /\ UNCHANGED <<files, dirs, stage, backup, txDirs, journal, tmp, db,
                   lock, ctx, after, j, ndb, bounds>>

StepBackup ==
    /\ pc = "backup"
    /\ \/ \E p \in todo :
          /\ backup' = [backup EXCEPT ![p] = files[p]]
          /\ files' = [files EXCEPT ![p] = None]
          /\ todo' = todo \ {p} /\ UNCHANGED pc
       \/ /\ todo = {}
          /\ pc' = "mkdir" /\ todo' = j.mk /\ UNCHANGED <<backup, files>>
    /\ UNCHANGED <<dirs, stage, txDirs, journal, tmp, db, next, lock, ctx,
                   after, j, ndb, bounds>>

StepMkdir ==
    /\ pc = "mkdir"
    /\ \/ \E d \in todo :
          /\ dirs' = dirs \cup {d} /\ todo' = todo \ {d} /\ UNCHANGED pc
       \/ todo = {} /\ pc' = "place" /\ todo' = j.pl /\ UNCHANGED dirs
    /\ UNCHANGED <<files, stage, backup, txDirs, journal, tmp, db, next,
                   lock, ctx, after, j, ndb, bounds>>

StepPlace ==
    /\ pc = "place"
    /\ \/ \E p \in todo :
          /\ files' = [files EXCEPT ![p] = stage[p]]
          /\ stage' = [stage EXCEPT ![p] = None]
          /\ todo' = todo \ {p} /\ UNCHANGED pc
       \/ todo = {} /\ pc' = "commit" /\ UNCHANGED <<files, stage, todo>>
    /\ UNCHANGED <<dirs, backup, txDirs, journal, tmp, db, next, lock, ctx,
                   after, j, ndb, bounds>>

\* The commit: db.json.new replaces db.json.  Then the clean-up.
Commit ==
    /\ pc = "commit"
    /\ db' = next /\ next' = None
    /\ pc' = "rmtree" /\ ctx' = "finish"
    /\ UNCHANGED <<files, dirs, stage, backup, txDirs, journal, tmp, lock,
                   after, todo, j, ndb, bounds>>

\* A failed staging removes what it made, error or not, and gives up.
UnstageTmp ==
    /\ pc = "unstage_tmp"
    /\ tmp' = None /\ pc' = "unlock"
    /\ UNCHANGED <<files, dirs, stage, backup, txDirs, journal, db, next,
                   lock, ctx, after, todo, j, ndb, bounds>>

----------------------------------------------------------------------------
(* What goes wrong.                                                        *)

\* The operations of each part of execute and recover_locked.
MutStagingErrors == {"stage_dirs", "stage", "journal_tmp", "journal", "place"}
Staging == {"stage_dirs", "stage", "journal_tmp", "journal"}
Applying == {"next", "backup", "mkdir", "place", "commit"}
Recovering == {"read", "clean", "promote", "undo_place", "undo_mkdir",
               "undo_backup", "undo_next", "finish_dirs", "finish_next",
               "drop_journal"}

\* A create cut short leaves part of the file.
TornCreate ==
    \/ /\ pc = "stage"
       /\ \E p \in todo : stage' = [stage EXCEPT ![p] = Torn]
       /\ UNCHANGED <<files, dirs, backup, txDirs, journal, tmp, db, next>>
    \/ /\ pc = "journal_tmp" /\ tmp' = Torn
       /\ UNCHANGED <<files, dirs, stage, backup, txDirs, journal, db, next>>
    \/ /\ pc = "next" /\ next' = Torn
       /\ UNCHANGED <<files, dirs, stage, backup, txDirs, journal, tmp, db>>

\* The power goes: the lock stays, the process and its memory are gone.
Crash ==
    /\ pc # "idle" /\ troubles < MaxTroubles
    /\ UNCHANGED disk \/ TornCreate
    /\ troubles' = troubles + 1
    /\ pc' = "idle" /\ ctx' = "clean" /\ after' = "unlock" /\ todo' = {}
    /\ j' = EmptyJournal /\ ndb' = EmptyDb
    /\ UNCHANGED <<lock, txs>>

\* What the process does with an error of the operation it was making.
OnError ==
    \/ /\ pc \in Staging
       /\ pc' = "rmtree" /\ ctx' = "unstage" /\ UNCHANGED after
    \/ /\ pc \in Applying
       /\ pc' = "read" /\ after' = "unlock" /\ UNCHANGED ctx
    \/ /\ pc \in Recovering \cup {"unstage_tmp"} \/ (pc = "rmtree" /\ ctx # "unstage")
       /\ pc' = "unlock" /\ UNCHANGED <<ctx, after>>
    \/ /\ pc = "rmtree" /\ ctx = "unstage"
       /\ pc' = "unstage_tmp" /\ UNCHANGED <<ctx, after>>

\* A mutation fails: no effect, or a create that left part of its file.
Fault ==
    /\ troubles < MaxTroubles
    /\ UNCHANGED disk \/ TornCreate
    /\ OnError
    /\ troubles' = troubles + 1
    /\ UNCHANGED <<lock, todo, j, ndb, txs>>

\* The lock cannot be removed: it stays, and the operation is over.
UnlockFails ==
    /\ pc = "unlock" /\ troubles < MaxTroubles
    /\ pc' = "idle" /\ after' = "unlock" /\ troubles' = troubles + 1
    /\ UNCHANGED <<disk, lock, ctx, todo, j, ndb, txs>>

\* replace renames and then fails to sync the directory: it reports an
\* error, yet its effect is on disk.
LateError ==
    /\ LateErrors /\ troubles < MaxTroubles
    /\ \/ pc = "journal" /\ journal' = tmp /\ tmp' = None /\ UNCHANGED <<db, next>>
       \/ pc = "commit" /\ db' = next /\ next' = None /\ UNCHANGED <<journal, tmp>>
    /\ OnError
    /\ troubles' = troubles + 1
    /\ UNCHANGED <<files, dirs, stage, backup, txDirs, lock, todo, j, ndb,
                   txs>>

----------------------------------------------------------------------------

Undo == UndoPlace \/ UndoMkdir \/ UndoBackup
Finish == FinishDirs \/ DropNext \/ DropJournal
Execute == \/ StageDirs \/ StageFile \/ JournalTmp \/ WriteJournal \/ WriteNext
           \/ StepBackup \/ StepMkdir \/ StepPlace \/ Commit \/ UnstageTmp

\* A step of the process that is running.
Step == \/ RecoverLocked \/ Clean \/ Promote \/ Decide \/ Undo \/ RemoveTxDir
        \/ Finish \/ Plan \/ Execute \/ Unlock

Trouble == Crash \/ Fault \/ UnlockFails \/ LateError

Next == Begin \/ Recover \/ Step \/ Trouble

Spec == Init /\ [][Next]_vars

\* The process runs on, and somebody runs recover after a crash.
FairSpec == Spec /\ WF_vars(Step) /\ WF_vars(Recover)
----------------------------------------------------------------------------
(* Properties.                                                             *)

\* Where the process can stand, and the shape of everything on disk.
TypeOK ==
    /\ files \in [Paths -> Data \cup {None}]
    /\ dirs \subseteq Dirs
    /\ stage \in [Paths -> Data \cup {None, Torn}]
    /\ backup \in [Paths -> Data \cup {None}]
    /\ txDirs \in {{}, {"tx"}, {"tx", "stage"}, {"tx", "stage", "backup"}}
    /\ journal \in Journal \cup {None}
    /\ tmp \in Journal \cup {None, Torn}
    /\ db \in Db \cup {None, Torn} /\ next \in Db \cup {None, Torn}
    /\ lock \in {"free", "held"} /\ after \in {"plan", "unlock"}
    /\ pc \in Staging \cup Applying \cup Recovering
               \cup {"idle", "decide", "rmtree", "unstage_tmp", "plan", "unlock"}
    /\ ctx \in {"clean", "undo", "finish", "unstage"}
    /\ todo \subseteq Paths \cup Dirs
    /\ j \in Journal /\ ndb \in Db
    /\ txs \in 0..MaxTx /\ troubles \in 0..MaxTroubles

\* The transaction a journal names is the one the database last committed.
Committed(jr) == db \in Db /\ db.tx = jr.tx

\* With no transaction under way or left behind, every file the database
\* records is there with the recorded content: what `ncpkg check` verifies.
RecordedFilesPresent ==
    journal = None =>
        /\ db # Torn
        /\ \A p \in Paths : Loaded.files[p] # None => files[p] = Loaded.files[p]

\* No file is ever in a directory that has been removed or not yet made: every
\* rename and create of the code finds its parent.
ParentsExist ==
    /\ \A p \in Paths : files[p] # None => DirOf[p] \in dirs \cup {None}
    /\ \A p \in Paths : stage[p] # None => "stage" \in txDirs
    /\ \A p \in Paths : backup[p] # None => "backup" \in txDirs

\* Undo never finds its stage directory gone with a file to put back into it:
\* a recovery that meets this fails, and so does every later one.
UndoCanProceed ==
    pc = "undo_place" =>
        \A p \in todo : PutBack(files[p], stage[p]) => "stage" \in txDirs

\* A finished or undone transaction leaves nothing of its own behind: once the
\* journal is dropped, no staged file, no backup and no db.json.new remain.
NoLeftovers == [][journal # None /\ journal' = None =>
                    /\ stage' = NoFiles /\ backup' = NoFiles
                    /\ txDirs' = {} /\ next' = None]_vars

\* Whatever was interrupted, recovery gets to the end of it.
Recovers == journal # None ~> journal = None

----------------------------------------------------------------------------
(* Refinement: every behaviour is one of a system whose transactions are   *)
(* single steps.  An interrupted transaction counts as not made until its  *)
(* commit, as made after it; what the system shows is what recovery would  *)
(* leave.                                                                  *)

\* Undo has put everything back and is removing the transaction's directory.
Unwound == ctx = "undo" /\ pc \in {"undo_next", "rmtree", "drop_journal"}

ShownFiles ==
    [p \in Paths |->
        IF journal = None \/ Committed(journal) \/ Unwound THEN files[p]
        ELSE IF backup[p] # None THEN backup[p]
        ELSE IF p \in journal.pl /\ stage[p] = None THEN None
        ELSE files[p]]

ShownDirs ==
    IF journal = None THEN dirs
    ELSE IF Committed(journal) THEN dirs \ {d \in journal.cl : Empty(d, files)}
    ELSE dirs \ journal.mk

Abstract == INSTANCE NcpkgAtomic
    WITH files <- ShownFiles, dirs <- ShownDirs, db <- Loaded

\* The journalled transaction implements the atomic one.
Atomicity == Abstract!Spec
=============================================================================
