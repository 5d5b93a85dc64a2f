----------------------------- MODULE NcfsCommit -----------------------------
(***************************************************************************)
(* The commit of an NCFS volume: blocks are written copy on write to free  *)
(* space, a barrier makes them durable, the superblock goes to the slot    *)
(* the last commit does not use, a second barrier makes the commit         *)
(* durable, and only then do the blocks it stopped using return to the     *)
(* free space.  Between barriers the device keeps, drops or tears every    *)
(* write as it likes when the power goes.                                  *)
(*                                                                         *)
(* A block's content stands for the block and for the BLAKE3 that the      *)
(* pointer to it carries; a tree is what the blocks it names must contain. *)
(***************************************************************************)
EXTENDS Naturals

CONSTANTS
    Blocks,          \* blocks after the superblock slots
    Data,            \* contents of a block
    None, Torn,      \* no content named; a content nobody wrote
    ReopenUnflushed, \* "yes": a volume is reopened while its superblock is unflushed
    MaxGen           \* bound: no commit of a later generation begins

ASSUME ConstAssumption ==
    /\ None \notin Data /\ Torn \notin Data /\ None # Torn
    /\ ReopenUnflushed \in {"yes", "no"} /\ MaxGen \in Nat

Trees == [Blocks -> Data \cup {None}]
NoTree == [b \in Blocks |-> None]
Named(t) == {b \in Blocks : t[b] # None}

\* A superblock; generation 0 is a slot that does not decode.
Superblock == [gen : Nat, tree : Trees]
Unreadable == [gen |-> 0, tree |-> NoTree]

VARIABLES
    media,   \* durable content of each block
    slots,   \* durable superblock slots
    queued,  \* block writes since the last barrier
    newSb,   \* the superblock write since the last barrier
    pc,      \* "closed", "open", "commit", "flushed", "super" or "failed"
    gen,     \* the generation being built
    tree,    \* the blocks the volume's trees name, with their contents
    refs,    \* blocks with a reference count
    free,    \* blocks of the free map
    fresh,   \* blocks allocated since the last commit
    pinned   \* blocks of the last commit that are no longer used

device == <<media, slots, queued, newSb>>
writer == <<gen, tree, refs, free, fresh, pinned>>
vars == <<device, pc, writer>>

Init ==
    \E t \in Trees :
        /\ media = [b \in Blocks |-> IF t[b] = None THEN Torn ELSE t[b]]
        /\ slots = [s \in {0, 1} |-> IF s = 1 THEN [gen |-> 1, tree |-> t] ELSE Unreadable]
        /\ queued = NoTree /\ newSb = Unreadable
        /\ pc = "closed" /\ gen = 0 /\ tree = NoTree
        /\ refs = {} /\ free = {} /\ fresh = {} /\ pinned = {}

----------------------------------------------------------------------------
(* The device.                                                             *)

Slot(g) == g % 2

\* What a read finds: queued writes over the durable state.
MediaSeen == [b \in Blocks |-> IF queued[b] = None THEN media[b] ELSE queued[b]]
SlotsSeen == [s \in {0, 1} |-> IF newSb.gen # 0 /\ s = Slot(newSb.gen) THEN newSb ELSE slots[s]]

\* A barrier: everything written before it is durable.
Flush ==
    /\ media' = MediaSeen /\ slots' = SlotsSeen
    /\ queued' = NoTree /\ newSb' = Unreadable

----------------------------------------------------------------------------
(* Opening.                                                                *)

\* The readable slot with the highest generation.
MutFirstSlot(s) == IF s[0].gen # 0 THEN s[0] ELSE s[1]
Best(s) == IF s[1].gen > s[0].gen THEN s[1] ELSE s[0]

\* Every block the superblock's tree names holds what its pointer says.
Intact(sb, m) == sb.gen # 0 /\ \A b \in Named(sb.tree) : m[b] = sb.tree[b]

\* References and the free map are counted from the trees.
Open ==
    /\ pc = "closed" /\ pc' = "open"
    /\ LET sb == Best(SlotsSeen) IN
        /\ Intact(sb, MediaSeen)
        /\ gen' = sb.gen + 1 /\ tree' = sb.tree
        /\ refs' = Named(sb.tree) /\ free' = Blocks \ Named(sb.tree)
    /\ fresh' = {} /\ pinned' = {}
    /\ UNCHANGED device

----------------------------------------------------------------------------
(* Changing the trees: in any operation, and in the commit that writes     *)
(* what is buffered.                                                       *)

Alloc(b) ==
    /\ b \in free
    /\ free' = free \ {b} /\ refs' = refs \cup {b} /\ fresh' = fresh \cup {b}

\* store_region, write_tree: a new block, written and named.
Store(b, d) ==
    /\ pc \in {"open", "commit"} /\ Alloc(b)
    /\ queued' = [queued EXCEPT ![b] = d]
    /\ tree' = [tree EXCEPT ![b] = d]
    /\ UNCHANGED <<media, slots, newSb, pc, gen, pinned>>

\* The write fails: the block stays allocated and nothing names it.  Outside
\* a commit the operation reports the error and the volume stays in use.
StoreFails(b) ==
    /\ pc \in {"open", "commit"} /\ Alloc(b)
    /\ queued' = [queued EXCEPT ![b] = Torn]
    /\ pc' = IF pc = "commit" THEN "failed" ELSE "open"
    /\ UNCHANGED <<media, slots, newSb, gen, tree, pinned>>

\* decref to zero: a block of this transaction is free at once, one the last
\* commit names is kept until the next commit is durable.
MutFreeAtOnce(b) ==
    free' = free \cup {b} /\ fresh' = fresh \ {b} /\ pinned' = pinned
MutPinFresh(b) ==
    pinned' = pinned \cup {b} /\ free' = free \cup (fresh \cap {b}) /\ fresh' = fresh
Dispose(b) ==
    IF b \in fresh
    THEN free' = free \cup {b} /\ fresh' = fresh \ {b} /\ pinned' = pinned
    ELSE pinned' = pinned \cup {b} /\ free' = free /\ fresh' = fresh

Release(b) ==
    /\ pc \in {"open", "commit"} /\ b \in Named(tree)
    /\ tree' = [tree EXCEPT ![b] = None] /\ refs' = refs \ {b}
    /\ Dispose(b)
    /\ UNCHANGED <<device, pc, gen>>

----------------------------------------------------------------------------
(* Commit.                                                                 *)

BeginCommit ==
    /\ pc = "open" /\ pc' = "commit" /\ gen <= MaxGen
    /\ UNCHANGED <<device, writer>>

\* Everything the new superblock will name is durable before it is.
MutNoBarrier == pc = "commit" /\ pc' = "flushed" /\ UNCHANGED <<device, writer>>
FlushTrees ==
    /\ pc = "commit" /\ pc' = "flushed"
    /\ Flush /\ UNCHANGED writer

NextSuperblock == [gen |-> gen, tree |-> tree]

WriteSuper ==
    /\ pc = "flushed" /\ pc' = "super"
    /\ newSb' = NextSuperblock
    /\ UNCHANGED <<media, slots, queued, writer>>

\* The commit is durable: the previous one is no longer the fallback.
FlushSuper ==
    /\ pc = "super" /\ pc' = "open"
    /\ Flush
    /\ free' = free \cup pinned /\ pinned' = {} /\ fresh' = {} /\ gen' = gen + 1
    /\ UNCHANGED <<tree, refs>>

\* Any error in a commit: the writer refuses every further operation.
CommitFails ==
    /\ pc \in {"commit", "flushed", "super"} /\ pc' = "failed"
    /\ UNCHANGED <<device, writer>>

\* The write of the superblock fails and spoils the slot.
SuperFails ==
    /\ pc = "flushed" /\ pc' = "failed"
    /\ slots' = [slots EXCEPT ![Slot(gen)] = Unreadable]
    /\ UNCHANGED <<media, queued, newSb, writer>>

----------------------------------------------------------------------------
(* Losing the writer or the power.                                         *)

Forget ==
    /\ pc' = "closed" /\ gen' = 0 /\ tree' = NoTree
    /\ refs' = {} /\ free' = {} /\ fresh' = {} /\ pinned' = {}

\* The process ends, the device stays on: what is queued stays queued.
Kill ==
    /\ pc # "closed" /\ (newSb.gen = 0 \/ ReopenUnflushed = "yes")
    /\ Forget /\ UNCHANGED device

\* Each write since the last barrier is kept, dropped or torn.
PowerCut ==
    /\ \E fate \in [Blocks -> {"kept", "dropped", "torn"}] :
        media' = [b \in Blocks |->
                    IF queued[b] = None \/ fate[b] = "dropped" THEN media[b]
                    ELSE IF fate[b] = "kept" THEN queued[b] ELSE Torn]
    /\ slots' \in {slots, SlotsSeen} \cup
                 (IF newSb.gen = 0 THEN {} ELSE {[slots EXCEPT ![Slot(newSb.gen)] = Unreadable]})
    /\ queued' = NoTree /\ newSb' = Unreadable
    /\ Forget

Next ==
    \/ Open \/ BeginCommit \/ FlushTrees \/ WriteSuper \/ FlushSuper
    \/ \E b \in Blocks, d \in Data : Store(b, d)
    \/ \E b \in Blocks : StoreFails(b) \/ Release(b)
    \/ CommitFails \/ SuperFails \/ Kill \/ PowerCut

Spec == Init /\ [][Next]_vars

----------------------------------------------------------------------------
(* Properties.                                                             *)

\* The device, the queue and the writer keep their shape through every loss.
TypeOK ==
    /\ media \in [Blocks -> Data \cup {Torn}]
    /\ slots \in [{0, 1} -> Superblock]
    /\ queued \in [Blocks -> Data \cup {Torn, None}]
    /\ newSb \in Superblock
    /\ pc \in {"closed", "open", "commit", "flushed", "super", "failed"}
    /\ gen \in Nat /\ tree \in Trees
    /\ refs \subseteq Blocks /\ free \subseteq Blocks
    /\ fresh \subseteq Blocks /\ pinned \subseteq Blocks

\* "A power cut at any point leaves the old commit intact and readable": a
\* volume nobody has open can always be mounted, and would still be if the
\* power went now.
CanMount ==
    /\ Intact(Best(slots), media)
    /\ pc = "closed" => Intact(Best(SlotsSeen), MediaSeen)

\* "Nothing the last commit can see is ever overwritten": no write waits for
\* a block that the superblock a mount would choose names.
LastCommitUntouched == Named(queued) \cap Named(Best(slots).tree) = {}

\* Every block is in use, free, or kept for the last commit, and only one of
\* them; what the trees name is in use.
BlocksAccounted ==
    /\ refs \cap free = {} /\ refs \cap pinned = {} /\ free \cap pinned = {}
    /\ pc # "closed" => refs \cup free \cup pinned = Blocks
    /\ Named(tree) \subseteq refs /\ fresh \subseteq refs

\* What an open volume's trees name can be read back: the barrier, the queue
\* and the reuse of blocks never lose a block that is still named.
TreeReadable == \A b \in Named(tree) : MediaSeen[b] = tree[b]

\* A mount finds the last commit that returned, or the one that was running,
\* whole.
Mounted == IF Intact(Best(slots), media) THEN Best(slots).tree ELSE Torn
Atomic == INSTANCE NcfsAtomic WITH
            vol <- Mounted, work <- tree,
            phase <- IF pc \in {"closed", "open"} THEN pc ELSE "committing"
Atomicity == Atomic!Spec
=============================================================================
