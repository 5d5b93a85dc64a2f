------------------------------ MODULE NcfsFiles ------------------------------
(***************************************************************************)
(* The bytes of files on an NCFS volume: write, read, truncate and unlink  *)
(* over windows that are buffered in memory and stored as extents when     *)
(* too many are dirty or the volume is committed (ncfs/write.rs).          *)
(*                                                                         *)
(* An extent in the tree is its bytes, << >> where there is none: a window *)
(* of zeros is a hole.  Storing one may fail (no space, the device); that  *)
(* of a read or of a tree node is left out.  Blocks, trees and subvolumes  *)
(* are in NcfsRefs, the commit itself in NcfsCommit.                       *)
(***************************************************************************)
EXTENDS Naturals, Sequences, FiniteSets, Functions

CONSTANTS
    Inos,       \* the files there are at first
    WINDOW,     \* bytes of a window
    MAX_DIRTY,  \* buffered bytes past which a write flushes
    Writes,     \* bound: what may be written at once
    MaxSize,    \* bound: how long a file gets
    MaxOps      \* bound: operations in a behaviour

VARIABLES
    size,           \* the inodes: file -> size
    extents,        \* <<file, window>> -> bytes
    windows,        \* the buffered ones: some <<file, window>> -> bytes
    dirty_bytes,
    last,           \* the window decoded last: [key, bytes]
    failed,         \* "yes" after an error in a commit
    durable,        \* size and extents of the last commit
    truth,          \* history: the bytes each file was given
    lost,           \* history: windows a failed flush has dropped
    synced,         \* history: truth and lost at the last commit
    ops

vars == <<size, extents, windows, dirty_bytes, last, failed, durable, truth, lost, synced, ops>>

FilesConstants ==
    /\ IsFiniteSet(Inos)
    /\ {WINDOW, MaxSize} \subseteq Nat \ {0} /\ {MAX_DIRTY, MaxOps} \subseteq Nat
    /\ Writes \subseteq Seq(Nat) \ {<< >>}

Keys == Inos \X (0 .. (MaxSize - 1) \div WINDOW)
NoLast == [key |-> << >>, bytes |-> << >>]
IsZero(buf) == \A k \in DOMAIN buf : buf[k] = 0
Cut(buf, n) == IF n < Len(buf) THEN SubSeq(buf, 1, n) ELSE buf
At(buf, k) == IF k \in DOMAIN buf THEN buf[k] ELSE 0
NoWindows == [key \in {} |-> << >>]
Over(f, g) == [x \in DOMAIN f \cup DOMAIN g |-> IF x \in DOMAIN f THEN f[x] ELSE g[x]]

-----------------------------------------------------------------------------
(* Windows.                                                                *)

window_content(key) ==
    IF key \in DOMAIN windows THEN windows[key]
    ELSE IF key = last.key THEN last.bytes
    ELSE extents[key]

\* What last is after a look at a window that was not buffered.
Looked(key) ==
    IF key \in DOMAIN windows \/ extents[key] = << >> THEN last
    ELSE [key |-> key, bytes |-> window_content(key)]

\* data, written at offset, as it falls on the window: longer if need be,
\* with zeros before it.
Written(key, offset, data) ==
    LET old == window_content(key)
        start == key[2] * WINDOW
        end == IF offset + Len(data) < start + WINDOW THEN offset + Len(data) - start ELSE WINDOW
    IN  [k \in 1 .. (IF end > Len(old) THEN end ELSE Len(old)) |->
            IF start + k - offset \in DOMAIN data THEN data[start + k - offset] ELSE At(old, k)]

\* The windows a range of bytes falls on.
Touched(i, offset, n) == {i} \X ((offset \div WINDOW) .. ((offset + n - 1) \div WINDOW))

\* The order of the buffered windows.
Before(a, b) == a[1] < b[1] \/ (a[1] = b[1] /\ a[2] < b[2])

\* A buffered window as it is stored: cut where the file ends.
Stored(sizes, buffered, key) ==
    LET start == key[2] * WINDOW
        buf == Cut(buffered[key], IF sizes[key[1]] > start THEN sizes[key[1]] - start ELSE 0)
    IN  IF IsZero(buf) THEN << >> ELSE buf

\* flush_windows takes them all, and stops at the first that cannot be
\* stored: those before it are stored, those after it are gone too.
Flushed(sizes, buffered, upto) ==
    [key \in Keys |-> IF key \in upto THEN Stored(sizes, buffered, key) ELSE extents[key]]

\* The windows that get stored if storing one of them fails.
Prefixes(buffered) ==
    {{k \in DOMAIN buffered : Before(k, stop)} : stop \in DOMAIN buffered}

Emptied == windows' = NoWindows /\ dirty_bytes' = 0

-----------------------------------------------------------------------------
(* Operations.                                                             *)

Op == failed = "no" /\ ops < MaxOps /\ ops' = ops + 1

\* The bytes a file has after data was written at offset.
Patched(bytes, offset, data) ==
    [k \in 1 .. (IF offset + Len(data) > Len(bytes) THEN offset + Len(data) ELSE Len(bytes)) |->
        IF k - offset \in DOMAIN data THEN data[k - offset] ELSE At(bytes, k)]

\* How many bytes the buffers hold.
Cells(buffered) == UNION {{key} \X DOMAIN buffered[key] : key \in DOMAIN buffered}
Grown(buffered) == Cardinality(Cells(buffered))

\* The windows written to are buffered, then the inode, then perhaps a flush.
\* An error of the flush is the answer to the write.
Write(i, offset, data) ==
    LET keys == Touched(i, offset, Len(data))
        buffered == Over([key \in keys |-> Written(key, offset, data)], windows)
        before == Grown(Restrict(windows, keys \cap DOMAIN windows))
        dirty == dirty_bytes + Grown(Restrict(buffered, keys)) - before
        end == offset + Len(data)
        sizes == [size EXCEPT ![i] = IF end > @ THEN end ELSE @]
    IN  /\ Op
        /\ size' = sizes
        /\ truth' = [truth EXCEPT ![i] = Patched(@, offset, data)]
        /\ last' = NoLast
        /\ IF dirty <= MAX_DIRTY
           THEN windows' = buffered /\ dirty_bytes' = dirty /\ UNCHANGED <<extents, lost>>
           ELSE /\ Emptied
                /\ \/ extents' = Flushed(sizes, buffered, DOMAIN buffered) /\ lost' = lost
                   \/ \E upto \in Prefixes(buffered) :
                        /\ extents' = Flushed(sizes, buffered, upto)
                        /\ lost' = lost \cup (DOMAIN buffered \ upto)
        /\ UNCHANGED <<failed, durable, synced>>

\* Only a look at a stored window leaves a trace.
Read(key) ==
    /\ Op /\ key[1] \in DOMAIN size /\ key[2] * WINDOW < size[key[1]]
    /\ last' = Looked(key) /\ last' # last
    /\ UNCHANGED <<size, extents, windows, dirty_bytes, failed, durable, truth, lost, synced>>

\* drop_windows: the buffers of a file from a window on.
Dropped(i, from) ==
    {key \in DOMAIN windows : key[1] = i /\ key[2] >= from}

\* Longer: nothing but the inode.
Lengthen(i, n) ==
    /\ Op /\ n >= size[i]
    /\ size' = [size EXCEPT ![i] = n]
    /\ truth' = [truth EXCEPT ![i] = [k \in 1 .. n |-> At(@, k)]]
    /\ last' = NoLast
    /\ UNCHANGED <<extents, windows, dirty_bytes, failed, durable, lost, synced>>

\* Shorter: the windows past the end go, and the one the end falls into is
\* buffered without its tail.  By then last is cleared.  The mutant leaves that
\* window alone.
MutPartial(i, n) == NoWindows
Partial(i, n) ==
    [key \in IF n % WINDOW = 0 THEN {} ELSE {<<i, n \div WINDOW>>} |->
        Cut(IF key \in DOMAIN windows THEN windows[key] ELSE extents[key], n % WINDOW)]

Shorten(i, n) ==
    LET first_gone == (n + WINDOW - 1) \div WINDOW
        gone == Dropped(i, first_gone)
        kept == Restrict(windows, DOMAIN windows \ gone)
        part == Partial(i, n)
    IN  /\ Op /\ n < size[i]
        /\ size' = [size EXCEPT ![i] = n]
        /\ truth' = [truth EXCEPT ![i] = Cut(@, n)]
        /\ extents' = [key \in Keys |->
                IF key[1] = i /\ key[2] >= first_gone THEN << >> ELSE extents[key]]
        /\ windows' = Over(part, kept)
        /\ dirty_bytes' = dirty_bytes - Grown(Restrict(windows, gone)) + Grown(part)
                          - Grown(Restrict(kept, DOMAIN part \cap DOMAIN kept))
        /\ last' = IF \E key \in DOMAIN part : key \notin DOMAIN windows /\ extents[key] # << >>
                   THEN [key |-> <<i, n \div WINDOW>>, bytes |-> extents[<<i, n \div WINDOW>>]]
                   ELSE NoLast
        /\ lost' = {key \in lost : key[1] # i \/ key[2] < first_gone}
        /\ UNCHANGED <<failed, durable, synced>>

\* The last name of a file goes, and with it what it owns.  Its number is not
\* used again.
Destroy(i) ==
    /\ Op
    /\ size' = Restrict(size, DOMAIN size \ {i})
    /\ truth' = Restrict(truth, DOMAIN truth \ {i})
    /\ extents' = [key \in Keys |-> IF key[1] = i THEN << >> ELSE extents[key]]
    /\ windows' = Restrict(windows, DOMAIN windows \ Dropped(i, 0))
    /\ dirty_bytes' = dirty_bytes - Grown(Restrict(windows, Dropped(i, 0)))
    /\ last' = NoLast
    /\ lost' = {key \in lost : key[1] # i}
    /\ UNCHANGED <<failed, durable, synced>>

\* A commit flushes first.  After an error, there or later, the writer
\* refuses everything.
Commit ==
    /\ Op /\ Emptied
    /\ last' = IF DOMAIN windows = {} THEN last ELSE NoLast
    /\ \/ /\ extents' = Flushed(size, windows, DOMAIN windows)
          /\ \/ /\ failed' = "no" /\ durable' = [size |-> size, extents |-> extents']
                /\ synced' = [truth |-> truth, lost |-> lost]
             \/ failed' = "yes" /\ UNCHANGED <<durable, synced>>
          /\ lost' = lost
       \/ \E upto \in Prefixes(windows) :
            /\ extents' = Flushed(size, windows, upto)
            /\ lost' = lost \cup (DOMAIN windows \ upto)
            /\ failed' = "yes" /\ UNCHANGED <<durable, synced>>
    /\ UNCHANGED <<size, truth>>

\* The writer is lost, or given up, and the volume opened again.
Reopen ==
    /\ size' = durable.size /\ extents' = durable.extents
    /\ Emptied /\ last' = NoLast /\ failed' = "no"
    /\ truth' = synced.truth /\ lost' = synced.lost
    /\ UNCHANGED <<durable, synced, ops>>

Init ==
    /\ size = [i \in Inos |-> 0]
    /\ extents = [key \in Keys |-> << >>]
    /\ windows = NoWindows /\ dirty_bytes = 0 /\ last = NoLast /\ failed = "no"
    /\ durable = [size |-> size, extents |-> extents]
    /\ truth = [i \in Inos |-> << >>] /\ lost = {}
    /\ synced = [truth |-> truth, lost |-> lost]
    /\ ops = 0

Next ==
    \/ \E i \in DOMAIN size :
        \/ \E offset \in 0 .. MaxSize - 1, data \in Writes :
                offset + Len(data) <= MaxSize /\ Write(i, offset, data)
        \/ \E n \in 0 .. MaxSize : Lengthen(i, n) \/ Shorten(i, n)
        \/ Destroy(i)
    \/ \E key \in Keys : Read(key)
    \/ Commit \/ Reopen

Spec == Init /\ [][Next]_vars

-----------------------------------------------------------------------------
(* Properties.                                                             *)

\* A file is as long as it was made, and every byte of it reads as it was
\* last written, or as zero where it never was or was cut off before: through
\* buffers, holes, the window kept from the last read, flushes, commits and
\* new mounts.  What a failed flush dropped is excepted.  And the count of
\* dirty bytes is that of the buffers, so that taking some off it never goes
\* below zero.
FilesTrue ==
    /\ DOMAIN truth = DOMAIN size
    /\ \A i \in DOMAIN size :
        /\ size[i] = Len(truth[i])
        /\ \A k \in 1 .. size[i] :
            LET key == <<i, (k - 1) \div WINDOW>>
            IN  key \notin lost =>
                    At(window_content(key), ((k - 1) % WINDOW) + 1) = truth[i][k]
    /\ dirty_bytes = Grown(windows)
=============================================================================
