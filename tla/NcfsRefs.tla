------------------------------ MODULE NcfsRefs ------------------------------
(***************************************************************************)
(* Sharing on an NCFS volume: copy-on-write trees, snapshots and           *)
(* deduplicated extents, with a reference count for every node and extent  *)
(* that is kept in memory and recounted from the trees at each mount.      *)
(*                                                                         *)
(* Every subvolume's tree is a root node with one leaf per position, each  *)
(* leaf holding at most one extent; the tree of subvolumes is one node.  A *)
(* commit is one step: NcfsCommit says why it may be.                      *)
(***************************************************************************)
EXTENDS Naturals, FiniteSets, Functions, TLC

CONSTANTS
    Blocks,    \* numbers of the blocks, from 1
    Pos,       \* positions of a subvolume's tree, from 1
    Data,      \* contents of an extent
    None,      \* no extent
    Ids,       \* subvolume ids; 1 is the default one
    MaxOps,    \* bound on the operations in a behaviour
    MaxLeaks   \* bound on the blocks that failed writes leave counted in a mount

VARIABLES
    w,       \* the writer
    saved,   \* what the superblock leads to: [root : id -> block, ro, rt, default]
    failed,  \* "yes" after an error in a commit: every operation is refused
    ops      \* operations so far

vars == <<w, saved, failed, ops>>

\* A tree in memory is <<"mem", position -> <<"mem", extent>> or <<"disk", leaf>>>>,
\* one on disk <<"disk", root block>>.  A block holds <<"node", position -> leaf>>,
\* <<"leaf", extent>>, <<"data", bytes>> or, for the subvolumes, <<"roots", None>>.

\* The blocks of a new volume: the tree of subvolumes is block 1, the default
\* subvolume's root block 2, and its leaves follow.
FirstLeaf(p) == Cardinality({q \in Pos : q <= p}) + 2

VolumeConstants ==
    /\ Blocks \subseteq Nat /\ Pos \subseteq Nat \ {0} /\ Ids \subseteq Nat \ {0}
    /\ IsFiniteSet(Blocks) /\ IsFiniteSet(Pos) /\ IsFiniteSet(Ids)
    /\ {1, 2} \cup {FirstLeaf(p) : p \in Pos} \subseteq Blocks
    /\ None \notin Blocks

----------------------------------------------------------------------------
(* Reference counts.                                                       *)

Incref(x, b) == [x EXCEPT !.refs[b] = @ + 1]
IncrefAll(x, S) == [x EXCEPT !.refs = [b \in Blocks |-> IF b \in S THEN @[b] + 1 ELSE @[b]]]

\* Each block b loses n[b] references.  With the last one: forget the content,
\* free the block or keep it for the last commit.
Release(x, n) ==
    LET left == [b \in Blocks |-> x.refs[b] - n[b]]
        dead == {b \in Blocks : n[b] > 0 /\ left[b] = 0}
    IN  [x EXCEPT !.refs = left,
                  !.dedup = [d \in Data |-> IF @[d] \in dead THEN None ELSE @[d]],
                  !.free = @ \cup (dead \cap x.fresh),
                  !.pinned = @ \cup (dead \ x.fresh),
                  !.fresh = @ \ dead]

Decref(x, b) == Release(x, [c \in Blocks |-> IF c = b THEN 1 ELSE 0])

\* A free block, counted once and written.  Which one does not matter here.
Alloc(x, b, content) ==
    [x EXCEPT !.free = @ \ {b}, !.fresh = @ \cup {b}, !.refs[b] = 1, !.disk[b] = content]

\* A block was counted for a pointer that will not be made.
Leak(x, b) == [x EXCEPT !.leaked[b] = @ + 1]

----------------------------------------------------------------------------
(* Who points at what: the superblock or the writer at the tree of         *)
(* subvolumes, that tree at the roots, a root at its leaves and a leaf at  *)
(* its extent.  A node on disk is there once, however many point at it.    *)

MemRoots(x) == {sv \in DOMAIN x.root : x.root[sv][1] = "mem"}
DiskRoots(x) == {sv \in DOMAIN x.root : x.root[sv][1] = "disk"}
Nodes(x) == {x.root[sv][2] : sv \in DiskRoots(x)}
MemLeaves(x) == {sp \in MemRoots(x) \X Pos : x.root[sp[1]][2][sp[2]][1] = "mem"}
Leaves(x) ==
    {x.disk[rp[1]][2][rp[2]] : rp \in Nodes(x) \X Pos}
    \cup {x.root[sp[1]][2][sp[2]][2] : sp \in (MemRoots(x) \X Pos) \ MemLeaves(x)}

\* A pointer is <<where, of which, position, block or None>>.
Pointers(x) ==
    {<<"roots", 0, 0, x.rt[2]>>}
    \cup {<<"root", sv, 0, x.root[sv][2]>> : sv \in DiskRoots(x)}
    \cup {<<"node", rp[1], rp[2], x.disk[rp[1]][2][rp[2]]>> : rp \in Nodes(x) \X Pos}
    \cup {<<"mem", sp[1], sp[2], x.root[sp[1]][2][sp[2]][2]>> : sp \in MemRoots(x) \X Pos}
    \cup {<<"leaf", l, 0, x.disk[l][2]>> : l \in Leaves(x)}

Count(pointers, b) == Cardinality({e \in pointers : e[4] = b})

----------------------------------------------------------------------------
(* Copying a path into memory.                                             *)

\* The copy of a shared node points at everything the original does.
MutCowForgetsChildren(x, b, children) == Decref(x, b)
Cow(x, b, children) ==
    Decref(IF x.refs[b] > 1 THEN IncrefAll(x, children) ELSE x, b)

MemRoot(x, sv) ==
    LET r == x.root[sv] IN
    IF r[1] = "mem" THEN x
    ELSE [Cow(x, r[2], Range(x.disk[r[2]][2])) EXCEPT
            !.root[sv] = <<"mem", [p \in Pos |-> <<"disk", x.disk[r[2]][2][p]>>]>>]

MemChild(x, sv, p) ==
    LET c == x.root[sv][2][p] IN
    IF c[1] = "mem" THEN x
    ELSE [Cow(x, c[2], {x.disk[c[2]][2]}) EXCEPT
            !.root[sv] = <<"mem", [@[2] EXCEPT ![p] = <<"mem", x.disk[c[2]][2]>>]>>]

\* The item at position p becomes extent e (None: it is removed), and the
\* extent it replaces loses a reference.
Replace(x, sv, p, e) ==
    LET y == MemChild(MemRoot(x, sv), sv, p)
        old == y.root[sv][2][p][2]
        z == [y EXCEPT !.root[sv] = <<"mem", [@[2] EXCEPT ![p] = <<"mem", e>>]>>]
    IN  IF old = None THEN z ELSE Decref(z, old)

\* The tree of subvolumes is copied too.
TouchRoots(x) ==
    IF x.rt[1] = "mem" THEN x ELSE [Decref(x, x.rt[2]) EXCEPT !.rt = <<"mem", None>>]

----------------------------------------------------------------------------
(* Committing.                                                             *)

Dirty(x) == MemRoots(x) # {} \/ x.rt[1] = "mem"

\* The nodes a commit writes: <<0, 0>> the tree of subvolumes (ROOT_TREE),
\* <<sv, 0>> the root of a subvolume, <<sv, p>> its leaf at p.
MemNodes(x) == {<<0, 0>>} \cup (MemRoots(x) \X {0}) \cup MemLeaves(x)

\* Every node in memory gets a block, and the tree of subvolumes its own.
Fits(x) == Dirty(x) => Cardinality(MemNodes(x)) <= Cardinality(x.free)

\* Each gets a free block of its own.
Precedes(m, n) == m[1] < n[1] \/ (m[1] = n[1] /\ m[2] < n[2])
Place(nodes, free) ==
    [n \in nodes |-> CHOOSE b \in free :
        Cardinality({c \in free : c < b}) = Cardinality({m \in nodes : Precedes(m, n)})]

\* What is written for a node, once its leaves are.
Content(x, at, n) ==
    IF n = <<0, 0>> THEN <<"roots", None>>
    ELSE IF n[2] = 0
         THEN <<"node", [p \in Pos |-> IF <<n[1], p>> \in MemLeaves(x) THEN at[<<n[1], p>>]
                                       ELSE x.root[n[1]][2][p][2]]>>
         ELSE <<"leaf", x.root[n[1]][2][n[2]][2]>>

\* Blocks not in use any more are free once the commit is durable.
Unpin(x) == [x EXCEPT !.free = @ \cup x.pinned, !.pinned = {}, !.fresh = {}]

Committed(x) ==
    LET y == TouchRoots(x)
        at == Place(MemNodes(y), y.free)
        used == Range(at)
        node(b) == CHOOSE n \in MemNodes(y) : at[n] = b
    IN  IF ~Dirty(x) THEN x
        ELSE Unpin([y EXCEPT
                !.disk = [b \in Blocks |-> IF b \in used THEN Content(y, at, node(b)) ELSE @[b]],
                !.refs = [b \in Blocks |-> IF b \in used THEN 1 ELSE @[b]],
                !.free = @ \ used,
                !.root = [sv \in DOMAIN y.root |->
                            IF sv \in MemRoots(y) THEN <<"disk", at[<<sv, 0>>]>> ELSE @[sv]],
                !.rt = <<"disk", at[<<0, 0>>]>>])

MutRootItemsStay(x) ==
    [root |-> [sv \in DOMAIN x.root |-> x.root[sv][2]] @@ saved.root, ro |-> x.ro,
     rt |-> x.rt[2], default |-> x.default]
Superblock(x) ==
    [root |-> [sv \in DOMAIN x.root |-> x.root[sv][2]], ro |-> x.ro,
     rt |-> x.rt[2], default |-> x.default]

----------------------------------------------------------------------------
(* Mounting for writing: count every reference from the trees.             *)

Mounted(s, disk) ==
    [disk |-> disk, root |-> [sv \in DOMAIN s.root |-> <<"disk", s.root[sv]>>],
     rt |-> <<"disk", s.rt>>]

Scan(s, disk) ==
    LET x == Mounted(s, disk)
        all == Pointers(x)
        refs == [b \in Blocks |-> Count(all, b)]
        holding(d) == {b \in {disk[l][2] : l \in Leaves(x)} \ {None} : disk[b] = <<"data", d>>}
    IN  [disk |-> disk, refs |-> refs, leaked |-> [b \in Blocks |-> 0],
         free |-> {b \in Blocks : refs[b] = 0}, fresh |-> {}, pinned |-> {},
         dedup |-> [d \in Data |-> IF holding(d) = {} THEN None ELSE CHOOSE b \in holding(d) : TRUE],
         root |-> x.root, ro |-> s.ro, rt |-> x.rt, default |-> s.default]

\* A formatted volume: the default subvolume, empty.
Formatted ==
    [b \in Blocks |->
        CASE b = 1 -> <<"roots", None>>
          [] b = 2 -> <<"node", [p \in Pos |-> FirstLeaf(p)]>>
          [] OTHER -> <<"leaf", None>>]
Init ==
    /\ saved = [root |-> [sv \in {1} |-> 2], ro |-> {}, rt |-> 1, default |-> 1]
    /\ w = Scan(saved, Formatted)
    /\ failed = "no" /\ ops = 0

----------------------------------------------------------------------------
(* Operations.                                                             *)

Op == failed = "no" /\ ops < MaxOps /\ ops' = ops + 1

\* An operation commits x, changes the result to y and commits that.  Either
\* commit may fail, for lack of space or an error of the device.
Finish(x, y) ==
    \/ Fits(x) /\ Fits(y) /\ w' = Committed(y) /\ saved' = Superblock(w') /\ failed' = "no"
    \/ Fits(x) /\ w' = Committed(x) /\ saved' = Superblock(w') /\ failed' = "yes"
    \/ w' = w /\ saved' = saved /\ failed' = "yes"

\* A window is stored: shared with an identical extent if the file allows, or
\* in a block of its own.
Shares(d, share) == share = "dedup" /\ w.dedup[d] # None
Target(d, share) == IF Shares(d, share) THEN w.dedup[d] ELSE CHOOSE c \in w.free : TRUE
Stored(d, share) ==
    LET b == Target(d, share)
    IN  IF Shares(d, share) THEN Incref(w, b)
        ELSE [Alloc(w, b, <<"data", d>>) EXCEPT !.dedup[d] = IF @ = None THEN b ELSE @]

Write(sv, p, d, share) ==
    /\ Op /\ sv \notin w.ro
    /\ Shares(d, share) \/ w.free # {}
    /\ w' = Replace(Stored(d, share), sv, p, Target(d, share))
    /\ UNCHANGED <<saved, failed>>

\* The next mount counts afresh, so these do not add up over mounts.
FewLeaks == Cardinality({b \in Blocks : w.leaked[b] > 0}) < MaxLeaks

\* The device refuses the block: it stays counted, and what it holds is unknown.
\* Outside a commit the writer goes on.
WriteFails(sv, d, share) ==
    /\ Op /\ sv \notin w.ro /\ FewLeaks
    /\ ~Shares(d, share) /\ w.free # {}
    /\ w' = Leak(Alloc(w, Target(d, share), <<"data", None>>), Target(d, share))
    /\ UNCHANGED <<saved, failed>>

\* The extent is stored, but the root or the leaf it goes to cannot be read.
LinkFails(sv, d, share) ==
    /\ Op /\ sv \notin w.ro /\ FewLeaks
    /\ Shares(d, share) \/ w.free # {}
    /\ \E x \in {Stored(d, share), MemRoot(Stored(d, share), sv)} :
            w' = Leak(x, Target(d, share))
    /\ UNCHANGED <<saved, failed>>

\* A change of a tree that stops at a leaf it cannot read.
ReadFails(sv) ==
    /\ Op /\ sv \notin w.ro
    /\ w' = MemRoot(w, sv)
    /\ UNCHANGED <<saved, failed>>

\* A window is dropped: the file is unlinked or cut, or holds only zeros.
Drop(sv, p) ==
    /\ Op /\ sv \notin w.ro
    /\ w' = Replace(w, sv, p, None)
    /\ UNCHANGED <<saved, failed>>

Commit == Op /\ Dirty(w) /\ Finish(w, w)

\* A second pointer to the source's root.
Shared(x, src, id) ==
    [Incref(x, x.root[src][2]) EXCEPT
        !.root = [sv \in DOMAIN x.root \cup {id} |-> IF sv = id THEN x.root[src] ELSE x.root[sv]]]

\* An id says nothing but which subvolume it is: the code counts on, here the
\* lowest is given out that no subvolume has.
Snapshot(src, id, readonly) ==
    /\ Op /\ id \notin DOMAIN w.root
    /\ \A other \in Ids \ DOMAIN w.root : id <= other
    /\ Finish(w, LET y == TouchRoots(Shared(Committed(w), src, id))
                 IN  [y EXCEPT !.ro = IF readonly = "yes" THEN @ \cup {id} ELSE @])

\* A tree loses a pointer; what nobody else points at goes, from the top.
DropTree(x, b) ==
    LET alone == x.refs[b] = 1
        gone == {l \in Range(x.disk[b][2]) : x.refs[l] = 1}
        lost == {<<"root", 0, 0, b>>}
                \cup (IF alone
                      THEN {<<"node", b, p, x.disk[b][2][p]>> : p \in Pos}
                           \cup {<<"leaf", l, 0, x.disk[l][2]>> : l \in gone}
                      ELSE {})
    IN  Release(x, [c \in Blocks |-> Count(lost, c)])

DeleteSubvol(id) ==
    /\ Op /\ id # w.default
    /\ Finish(w, LET x == Committed(w)
                     y == [TouchRoots(x) EXCEPT !.root = Restrict(@, DOMAIN @ \ {id}),
                                                !.ro = @ \ {id}]
                 IN  DropTree(y, x.root[id][2]))

SetDefault(id) ==
    /\ Op /\ w' = [TouchRoots(w) EXCEPT !.default = id]
    /\ UNCHANGED <<saved, failed>>

\* The writer is lost, or given up after an error, and the volume mounted again.
Reopen ==
    /\ ops' = ops
    /\ w' = Scan(saved, w.disk) /\ failed' = "no" /\ saved' = saved

Next ==
    \/ \E sv \in DOMAIN w.root, p \in Pos :
        \/ \E d \in Data, share \in {"dedup", "alone"} : Write(sv, p, d, share)
        \/ Drop(sv, p)
    \/ \E sv \in DOMAIN w.root, d \in Data, share \in {"dedup", "alone"} :
        WriteFails(sv, d, share) \/ LinkFails(sv, d, share)
    \/ \E sv \in DOMAIN w.root : ReadFails(sv)
    \/ Commit \/ Reopen
    \/ \E src \in DOMAIN w.root, id \in Ids, ro \in {"yes", "no"} : Snapshot(src, id, ro)
    \/ \E id \in DOMAIN w.root : DeleteSubvol(id) \/ SetDefault(id)

Spec == Init /\ [][Next]_vars

----------------------------------------------------------------------------
(* Properties.                                                             *)

\* A reference count is the number of pointers, and of those a failed write
\* since the mount never made.
Counted ==
    LET all == Pointers(w) IN \A b \in Blocks : w.refs[b] = Count(all, b) + w.leaked[b]

\* A dedup hit hands out the bytes it was asked for, from a block in use.
IndexSound == \A d \in Data : w.dedup[d] # None =>
                w.refs[w.dedup[d]] > 0 /\ w.disk[w.dedup[d]] = <<"data", d>>

\* Every block is counted exactly, but for what a write that failed outside a
\* commit left counted: never too low, and exact again after the next mount.  A
\* block without a reference is free or kept for the last commit, and not both,
\* and the dedup index only names blocks in use that hold what it says (write.rs
\* incref, decref, alloc, cow, store_region).
RefsExact ==
    /\ Counted /\ IndexSound
    /\ w.free \cap w.pinned = {}
    /\ \A b \in Blocks : (w.refs[b] = 0) <=> (b \in w.free \cup w.pinned)

\* The files of the subvolumes, as the writer reads them and as a mount would.
Bytes(disk, e) == IF e = None THEN None ELSE disk[e][2]
Files(x) ==
    [sv \in DOMAIN x.root |-> [p \in Pos |->
        LET r == x.root[sv]
            c == IF r[1] = "mem" THEN r[2][p] ELSE <<"disk", x.disk[r[2]][2][p]>>
        IN  Bytes(x.disk, IF c[1] = "mem" THEN c[2] ELSE x.disk[c[2]][2])]]
Now == Files(w)
Durable == Files(Mounted(saved, w.disk))

\* Subvolumes do not see each other's writes, a snapshot is a copy, and what is
\* committed survives every operation until the next commit.
Subvols == INSTANCE NcfsSubvols WITH now <- Now, durable <- Durable
Isolation == Subvols!Spec
=============================================================================
