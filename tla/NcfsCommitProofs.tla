-------------------------- MODULE NcfsCommitProofs --------------------------
(***************************************************************************)
(* Proofs about NcfsCommit, for any number of blocks, any contents and any *)
(* number of commits, errors, kills and power cuts.                        *)
(***************************************************************************)
EXTENDS NcfsCommit, TLAPS

(* Type correctness.                                                       *)

LEMMA UnreadableType == Unreadable \in Superblock /\ NoTree \in Trees
  BY DEF Unreadable, Superblock, NoTree, Trees

LEMMA SlotFlip ==
  ASSUME NEW g \in Nat
  PROVE  Slot(g) \in {0, 1} /\ Slot(g + 1) \in {0, 1} /\ Slot(g + 1) # Slot(g)
  BY SMT DEF Slot

LEMMA BestType ==
  ASSUME NEW s \in [{0, 1} -> Superblock]
  PROVE  /\ Best(s) \in Superblock /\ Best(s).gen \in Nat /\ Best(s).tree \in Trees
         /\ Best(s) \in {s[0], s[1]}
         /\ s[0].gen <= Best(s).gen /\ s[1].gen <= Best(s).gen
  BY DEF Best, Superblock

LEMMA TypeInit == Init => TypeOK
  <1> SUFFICES ASSUME NEW t \in Trees,
                      media = [b \in Blocks |-> IF t[b] = None THEN Torn ELSE t[b]],
                      slots = [s \in {0, 1} |->
                                IF s = 1 THEN [gen |-> 1, tree |-> t] ELSE Unreadable],
                      queued = NoTree, newSb = Unreadable, pc = "closed", gen = 0,
                      tree = NoTree, refs = {}, free = {}, fresh = {}, pinned = {}
               PROVE  TypeOK
    BY DEF Init
  <1>1. [gen |-> 1, tree |-> t] \in Superblock
    BY DEF Superblock
  <1>2. slots \in [{0, 1} -> Superblock]
    BY <1>1, UnreadableType
  <1>3. media \in [Blocks -> Data \cup {Torn}]
    BY DEF Trees
  <1> QED
    BY <1>2, <1>3, UnreadableType DEF TypeOK, Trees, NoTree

\* What is seen through the queue has the type of what is durable.
LEMMA SeenType ==
  ASSUME TypeOK
  PROVE  /\ MediaSeen \in [Blocks -> Data \cup {Torn}]
         /\ SlotsSeen \in [{0, 1} -> Superblock]
  BY DEF TypeOK, MediaSeen, SlotsSeen

LEMMA TypeStep == TypeOK /\ [Next]_vars => TypeOK'
  <1> SUFFICES ASSUME TypeOK, [Next]_vars PROVE TypeOK'
    OBVIOUS
  <1> USE UnreadableType, SeenType
  <1>1. CASE Open
    <2>1. Best(SlotsSeen).gen \in Nat /\ Best(SlotsSeen).tree \in Trees
      BY BestType
    <2> QED BY <1>1, <2>1 DEF Open, TypeOK, Named, device
  <1>2. CASE BeginCommit \/ CommitFails
    BY <1>2 DEF BeginCommit, CommitFails, TypeOK, device, writer
  <1>3. CASE FlushTrees
    BY <1>3 DEF FlushTrees, Flush, TypeOK, writer, Trees
  <1>4. CASE WriteSuper
    BY <1>4 DEF WriteSuper, NextSuperblock, Superblock, TypeOK, writer
  <1>5. CASE FlushSuper
    BY <1>5 DEF FlushSuper, Flush, TypeOK, Trees
  <1>6. ASSUME NEW b \in Blocks, NEW d \in Data, Store(b, d) PROVE TypeOK'
    BY <1>6 DEF Store, Alloc, TypeOK, Trees
  <1>7. ASSUME NEW b \in Blocks, StoreFails(b) PROVE TypeOK'
    BY <1>7 DEF StoreFails, Alloc, TypeOK
  <1>8. ASSUME NEW b \in Blocks, Release(b) PROVE TypeOK'
    BY <1>8 DEF Release, Dispose, TypeOK, Trees, device
  <1>9. CASE SuperFails
    BY <1>9 DEF SuperFails, TypeOK, writer
  <1>10. CASE Kill
    BY <1>10 DEF Kill, Forget, TypeOK, device
  <1>11. CASE PowerCut
    <2>1. [slots EXCEPT ![Slot(newSb.gen)] = Unreadable] \in [{0, 1} -> Superblock]
      BY DEF TypeOK
    <2>2. slots' \in [{0, 1} -> Superblock]
      BY <1>11, <2>1 DEF PowerCut, TypeOK
    <2>3. media' \in [Blocks -> Data \cup {Torn}]
      BY <1>11 DEF PowerCut, TypeOK
    <2> QED BY <1>11, <2>2, <2>3 DEF PowerCut, Forget, TypeOK, Trees
  <1>12. CASE UNCHANGED vars
    BY <1>12 DEF vars, device, writer, TypeOK
  <1> QED
    BY <1>1, <1>2, <1>3, <1>4, <1>5, <1>6, <1>7, <1>8, <1>9, <1>10, <1>11, <1>12 DEF Next

\* The writer of write.rs and its device keep their types through every
\* commit, error, kill and power cut.
THEOREM TypeCorrect == Spec => []TypeOK
  BY TypeInit, TypeStep, PTL DEF Spec

----------------------------------------------------------------------------
(* Crash safety, when no volume is reopened over an unflushed superblock.  *)

\* The slot of the last commit is never the one being written.
Parity == \A s \in {0, 1} : slots[s].gen # 0 => Slot(slots[s].gen) = s

\* The durable superblock names only durable blocks, and nothing waits to
\* overwrite them or could be allocated over them.
LastCommit ==
    /\ Best(slots).gen # 0
    /\ \A b \in Named(Best(slots).tree) :
            media[b] = Best(slots).tree[b] /\ queued[b] = None
    /\ pc # "closed" =>
            /\ gen = Best(slots).gen + 1
            /\ Named(Best(slots).tree) \cap free = {}
            /\ Named(Best(slots).tree) \cap fresh = {}

\* A superblock is written when everything it names is durable, and names
\* the trees in memory.
SuperblockLast ==
    /\ newSb.gen # 0 => /\ pc \in {"super", "failed"} /\ queued = NoTree
                        /\ newSb.gen = gen /\ newSb.tree = tree
    /\ pc = "super" => newSb.gen # 0
    /\ pc = "flushed" => queued = NoTree

Safe == Parity /\ LastCommit /\ SuperblockLast /\ BlocksAccounted /\ TreeReadable

LEMMA NoneQueued ==
  ASSUME TypeOK, newSb.gen = 0
  PROVE  SlotsSeen = slots
  BY DEF TypeOK, SlotsSeen

LEMMA NewestWins ==
  ASSUME TypeOK, Parity, Best(slots).gen # 0, newSb.gen = Best(slots).gen + 1
  PROVE  /\ Best(SlotsSeen) = newSb
         /\ \A s \in {0, 1} : SlotsSeen[s].gen # 0 => Slot(SlotsSeen[s].gen) = s
  <1> DEFINE n == newSb.gen
  <1>1. n \in Nat /\ n # 0 /\ Slot(n) \in {0, 1}
    BY BestType, SlotFlip DEF TypeOK, Superblock
  <1>2. slots[0].gen < n /\ slots[1].gen < n /\ slots[0].gen \in Nat /\ slots[1].gen \in Nat
    BY BestType DEF TypeOK, Superblock
  <1>3. SlotsSeen[Slot(n)] = newSb
    BY <1>1 DEF SlotsSeen
  <1>4. \A s \in {0, 1} : s # Slot(n) => SlotsSeen[s] = slots[s]
    BY DEF SlotsSeen
  <1>5. Best(SlotsSeen) = newSb
    <2>1. CASE Slot(n) = 0
      BY <2>1, <1>1, <1>2, <1>3, <1>4 DEF Best
    <2>2. CASE Slot(n) = 1
      BY <2>2, <1>1, <1>2, <1>3, <1>4 DEF Best
    <2> QED BY <1>1, <2>1, <2>2
  <1> QED BY <1>3, <1>4, <1>5 DEF Parity

LEMMA TornSlotHarmless ==
  ASSUME TypeOK, Parity, Best(slots).gen # 0, NEW g \in Nat, g = Best(slots).gen + 1,
         NEW t, t = [slots EXCEPT ![Slot(g)] = Unreadable]
  PROVE  /\ Best(t) = Best(slots)
         /\ \A s \in {0, 1} : t[s].gen # 0 => Slot(t[s].gen) = s
  <1>1. Slot(g) \in {0, 1} /\ Slot(Best(slots).gen) # Slot(g)
    BY BestType, SlotFlip DEF TypeOK
  <1>2. /\ t[Slot(g)] = Unreadable /\ Unreadable.gen = 0
        /\ \A s \in {0, 1} : s # Slot(g) => t[s] = slots[s]
    BY <1>1 DEF TypeOK, Unreadable
  <1>3. slots[0].gen \in Nat /\ slots[1].gen \in Nat
    BY DEF TypeOK, Superblock
  <1>4. Best(slots) = slots[1 - Slot(g)]
    <2>1. CASE Slot(g) = 0
      BY <2>1, <1>1, <1>3 DEF Best, Parity
    <2>2. CASE Slot(g) = 1
      BY <2>2, <1>1, <1>3 DEF Best, Parity
    <2> QED BY <1>1, <2>1, <2>2
  <1>5. Best(t) = Best(slots)
    <2>1. CASE Slot(g) = 0
      BY <2>1, <1>1, <1>2, <1>3, <1>4 DEF Best
    <2>2. CASE Slot(g) = 1
      BY <2>2, <1>1, <1>2, <1>3, <1>4 DEF Best
    <2> QED BY <1>1, <2>1, <2>2
  <1> QED BY <1>2, <1>5 DEF Parity

LEMMA SafeInit == Init => Safe
  <1> SUFFICES ASSUME NEW t \in Trees,
                      media = [b \in Blocks |-> IF t[b] = None THEN Torn ELSE t[b]],
                      slots = [s \in {0, 1} |->
                                IF s = 1 THEN [gen |-> 1, tree |-> t] ELSE Unreadable],
                      queued = NoTree, newSb = Unreadable, pc = "closed", gen = 0,
                      tree = NoTree, refs = {}, free = {}, fresh = {}, pinned = {}
               PROVE  Safe
    BY DEF Init
  <1>1. /\ slots[0].gen = 0 /\ slots[1].gen = 1 /\ newSb.gen = 0
        /\ slots[1].tree = t /\ Best(slots) = slots[1]
    BY DEF Best, Unreadable
  <1>2. Named(tree) = {} /\ \A b \in Blocks : queued[b] = None
    BY DEF Named, NoTree
  <1>3. Slot(1) = 1
    BY SMT DEF Slot
  <1> QED
    BY <1>1, <1>2, <1>3
    DEF Safe, Parity, LastCommit, SuperblockLast, BlocksAccounted, TreeReadable, Named, Trees

LEMMA SafeStep ==
  ASSUME ReopenUnflushed = "no"
  PROVE  TypeOK /\ Safe /\ [Next]_vars => Safe'
  <1> SUFFICES ASSUME TypeOK, Safe, [Next]_vars PROVE Safe'
    OBVIOUS
  <1>t. TypeOK'
    BY TypeStep
  <1>s. /\ Best(slots).gen \in Nat /\ Best(slots).tree \in Trees
        /\ \A s \in {0, 1} : slots[s].gen \in Nat
    BY BestType DEF TypeOK, Superblock
  <1>u. Unreadable.gen = 0 /\ \A b \in Blocks : NoTree[b] = None
    BY DEF Unreadable, NoTree
  <1> USE <1>s, <1>u DEF Safe
  <1>1. CASE Open
    <2>1. SlotsSeen = slots
      BY <1>1, NoneQueued DEF Open, SuperblockLast
    <2> DEFINE sb == Best(slots)
    <2>2. /\ gen' = sb.gen + 1 /\ tree' = sb.tree /\ refs' = Named(sb.tree)
          /\ free' = Blocks \ Named(sb.tree) /\ fresh' = {} /\ pinned' = {}
          /\ Intact(sb, MediaSeen) /\ pc' = "open" /\ UNCHANGED device
      BY <1>1, <2>1 DEF Open
    <2>3. Parity' /\ LastCommit'
      BY <2>2 DEF Parity, LastCommit, device
    <2>4. SuperblockLast'
      BY <1>1, <2>2 DEF Open, SuperblockLast, device
    <2>5. BlocksAccounted'
      BY <2>2 DEF BlocksAccounted, Named
    <2>6. TreeReadable'
      BY <2>2 DEF TreeReadable, Intact, MediaSeen, device
    <2> QED BY <2>3, <2>4, <2>5, <2>6
  <1>2. CASE BeginCommit \/ CommitFails
    BY <1>2 DEF BeginCommit, CommitFails, device, writer, Parity, LastCommit, SuperblockLast,
                BlocksAccounted, TreeReadable, MediaSeen
  <1>3. CASE FlushTrees
    <2>1. newSb.gen = 0 /\ SlotsSeen = slots
      BY <1>3, NoneQueued DEF FlushTrees, SuperblockLast
    <2>2. /\ slots' = slots /\ media' = MediaSeen /\ queued' = NoTree /\ newSb' = Unreadable
          /\ pc = "commit" /\ pc' = "flushed" /\ UNCHANGED writer
      BY <1>3, <2>1 DEF FlushTrees, Flush
    <2>3. \A b \in Blocks : MediaSeen'[b] = MediaSeen[b]
      BY <2>2 DEF MediaSeen
    <2>4. LastCommit'
      BY <2>2 DEF LastCommit, MediaSeen, writer, Named
    <2> QED
      BY <2>2, <2>3, <2>4
      DEF Parity, SuperblockLast, BlocksAccounted, TreeReadable, writer, Named
  <1>4. CASE WriteSuper
    <2>1. gen # 0 /\ gen \in Nat
      BY <1>4 DEF WriteSuper, LastCommit, TypeOK
    <2>2. newSb'.gen = gen /\ newSb'.tree = tree
      BY <1>4 DEF WriteSuper, NextSuperblock
    <2> QED
      BY <1>4, <2>1, <2>2
      DEF WriteSuper, Parity, LastCommit, SuperblockLast, BlocksAccounted, TreeReadable,
          MediaSeen, writer
  <1>5. CASE FlushSuper
    <2>1. newSb.gen = Best(slots).gen + 1 /\ newSb.gen = gen /\ newSb.tree = tree
          /\ queued = NoTree /\ newSb.gen # 0
      BY <1>5 DEF FlushSuper, SuperblockLast, LastCommit
    <2>2. /\ Best(SlotsSeen) = newSb
          /\ \A s \in {0, 1} : SlotsSeen[s].gen # 0 => Slot(SlotsSeen[s].gen) = s
      BY <2>1, NewestWins DEF LastCommit
    <2>3. /\ slots' = SlotsSeen /\ media' = MediaSeen /\ queued' = NoTree
          /\ newSb' = Unreadable /\ pc' = "open" /\ free' = free \cup pinned
          /\ pinned' = {} /\ fresh' = {} /\ gen' = gen + 1 /\ tree' = tree /\ refs' = refs
      BY <1>5 DEF FlushSuper, Flush
    <2>4. Parity'
      BY <2>2, <2>3 DEF Parity
    <2>5. Best(slots)' = newSb
      BY <2>2, <2>3 DEF Best
    <2>6. TreeReadable' /\ \A b \in Named(tree) : media'[b] = tree[b]
      BY <2>3 DEF TreeReadable, MediaSeen, Named
    <2>7. LastCommit'
      BY <2>1, <2>3, <2>5, <2>6 DEF LastCommit, BlocksAccounted, Named
    <2> QED
      BY <1>5, <2>3, <2>4, <2>6, <2>7 DEF SuperblockLast, BlocksAccounted, FlushSuper
  <1>6. ASSUME NEW b \in Blocks, NEW d \in Data, Store(b, d) PROVE Safe'
    <2>1. b \notin Named(Best(slots).tree) /\ b \notin Named(tree)
      BY <1>6 DEF Store, Alloc, LastCommit, BlocksAccounted
    <2>2. LastCommit'
      BY <1>6, <2>1 DEF Store, Alloc, LastCommit, TypeOK, Named
    <2>3. Parity' /\ SuperblockLast' /\ BlocksAccounted'
      BY <1>6, ConstAssumption
      DEF Store, Alloc, Parity, SuperblockLast, BlocksAccounted, TypeOK, Trees, Named
    <2>4. TreeReadable'
      BY <1>6, <2>1, ConstAssumption
      DEF Store, TreeReadable, MediaSeen, TypeOK, Trees, Named
    <2> QED BY <2>2, <2>3, <2>4
  <1>7. ASSUME NEW b \in Blocks, StoreFails(b) PROVE Safe'
    <2>1. b \notin Named(Best(slots).tree) /\ b \notin Named(tree)
      BY <1>7 DEF StoreFails, Alloc, LastCommit, BlocksAccounted
    <2>2. LastCommit'
      BY <1>7, <2>1 DEF StoreFails, Alloc, LastCommit, TypeOK, Named
    <2>3. Parity' /\ SuperblockLast' /\ BlocksAccounted'
      BY <1>7 DEF StoreFails, Alloc, Parity, SuperblockLast, BlocksAccounted, TypeOK, Named
    <2>4. TreeReadable'
      BY <1>7, <2>1 DEF StoreFails, TreeReadable, MediaSeen, TypeOK, Named
    <2> QED BY <2>2, <2>3, <2>4
  <1>8. ASSUME NEW b \in Blocks, Release(b) PROVE Safe'
    <2>1. Named(tree)' = Named(tree) \ {b}
      BY <1>8 DEF Release, Named, TypeOK, Trees
    <2>2. Parity' /\ SuperblockLast'
      BY <1>8 DEF Release, device, Parity, SuperblockLast
    <2>3. LastCommit'
      BY <1>8 DEF Release, Dispose, device, LastCommit
    <2>4. BlocksAccounted'
      <3>1. b \in refs /\ refs' = refs \ {b} /\ pc \in {"open", "commit"} /\ pc' = pc
        BY <1>8 DEF Release, BlocksAccounted
      <3>2. CASE b \in fresh
        <4>1. free' = free \cup {b} /\ fresh' = fresh \ {b} /\ pinned' = pinned
          BY <1>8, <3>2 DEF Release, Dispose
        <4> QED BY <3>1, <4>1, <2>1 DEF BlocksAccounted
      <3>3. CASE b \notin fresh
        <4>1. pinned' = pinned \cup {b} /\ free' = free /\ fresh' = fresh
          BY <1>8, <3>3 DEF Release, Dispose
        <4> QED BY <3>1, <3>3, <4>1, <2>1 DEF BlocksAccounted
      <3> QED BY <3>2, <3>3
    <2>5. TreeReadable'
      BY <1>8, <2>1 DEF Release, device, TreeReadable, MediaSeen, TypeOK, Trees
    <2> QED BY <2>2, <2>3, <2>4, <2>5
  <1>9. CASE SuperFails
    <2>1. gen \in Nat /\ gen = Best(slots).gen + 1
      BY <1>9 DEF SuperFails, LastCommit, TypeOK
    <2>2. Best(slots)' = Best(slots) /\ Parity'
      BY <1>9, <2>1, TornSlotHarmless DEF SuperFails, LastCommit, Parity, Best
    <2> QED
      BY <1>9, <2>2
      DEF SuperFails, LastCommit, SuperblockLast, BlocksAccounted, TreeReadable, MediaSeen, writer
  <1>10. CASE Kill
    <2>1. newSb.gen = 0 /\ UNCHANGED device /\ Forget
      BY <1>10 DEF Kill
    <2>2. Named(tree)' = {}
      BY <2>1 DEF Forget, Named, NoTree
    <2> QED
      BY <2>1, <2>2
      DEF Forget, device, Parity, LastCommit, SuperblockLast, BlocksAccounted, TreeReadable
  <1>11. CASE PowerCut
    <2>1. queued' = NoTree /\ newSb' = Unreadable /\ Forget
      BY <1>11 DEF PowerCut
    <2>2. Named(tree)' = {}
      BY <2>1 DEF Forget, Named, NoTree
    <2>3. \A b \in Blocks : queued[b] = None => media'[b] = media[b]
      BY <1>11 DEF PowerCut
    <2>4. /\ Best(slots)'.gen # 0 /\ Parity'
          /\ \A b \in Named(Best(slots)'.tree) : media'[b] = Best(slots)'.tree[b]
      <3>1. CASE slots' = slots
        BY <3>1, <2>3 DEF Best, Parity, LastCommit, Named
      <3>2. CASE newSb.gen # 0 /\ slots' = SlotsSeen
        <4>1. newSb.gen = Best(slots).gen + 1 /\ newSb.tree = tree /\ queued = NoTree
          BY <3>2 DEF SuperblockLast, LastCommit
        <4>2. Best(slots)' = newSb /\ Parity'
          BY <3>2, <4>1, NewestWins DEF LastCommit, Parity, Best
        <4>3. \A b \in Named(tree) : media'[b] = tree[b]
          BY <4>1, <2>3 DEF TreeReadable, MediaSeen, Named
        <4> QED BY <3>2, <4>1, <4>2, <4>3 DEF Named
      <3>3. CASE newSb.gen # 0 /\ slots' = [slots EXCEPT ![Slot(newSb.gen)] = Unreadable]
        <4>1. newSb.gen = Best(slots).gen + 1 /\ newSb.gen \in Nat
          BY <3>3 DEF SuperblockLast, LastCommit, TypeOK, Superblock
        <4>2. Best(slots)' = Best(slots) /\ Parity'
          BY <3>3, <4>1, TornSlotHarmless DEF LastCommit, Parity, Best
        <4> QED BY <4>2, <2>3 DEF LastCommit, Named
      <3>4. newSb.gen = 0 => slots' = slots
        BY <1>11, NoneQueued DEF PowerCut
      <3> QED BY <1>11, <3>1, <3>2, <3>3, <3>4 DEF PowerCut
    <2> QED
      BY <2>1, <2>2, <2>4
      DEF Forget, LastCommit, SuperblockLast, BlocksAccounted, TreeReadable, Named
  <1>12. CASE UNCHANGED vars
    BY <1>12 DEF vars, device, writer, Parity, LastCommit, SuperblockLast, BlocksAccounted,
                 TreeReadable, MediaSeen
  <1> QED
    BY <1>1, <1>2, <1>3, <1>4, <1>5, <1>6, <1>7, <1>8, <1>9, <1>10, <1>11, <1>12 DEF Next

\* Nothing is in memory while no writer is open.
Forgotten == pc = "closed" => tree = NoTree

LEMMA ForgottenStep == Forgotten /\ [Next]_vars => Forgotten'
  BY DEF Forgotten, Next, vars, device, writer, Open, BeginCommit, FlushTrees, WriteSuper,
         FlushSuper, Store, StoreFails, Release, CommitFails, SuperFails, Kill, PowerCut, Forget

\* The inductive invariant.
LEMMA AlwaysSafe == ASSUME ReopenUnflushed = "no" PROVE Spec => [](TypeOK /\ Safe /\ Forgotten)
  <1>1. Init => TypeOK /\ Safe /\ Forgotten
    BY TypeInit, SafeInit DEF Init, Forgotten
  <1>2. TypeOK /\ Safe /\ Forgotten /\ [Next]_vars => (TypeOK /\ Safe /\ Forgotten)'
    BY TypeStep, SafeStep, ForgottenStep
  <1> QED
    BY <1>1, <1>2, PTL DEF Spec

\* A power cut at any point leaves a commit that mounts whole.
THEOREM AlwaysMounts == ASSUME ReopenUnflushed = "no" PROVE Spec => []CanMount
  <1>1. TypeOK /\ Safe => CanMount
    <2> SUFFICES ASSUME TypeOK, Safe PROVE CanMount
      OBVIOUS
    <2>1. Intact(Best(slots), media)
      BY DEF Safe, LastCommit, Intact
    <2>2. ASSUME pc = "closed" PROVE Intact(Best(SlotsSeen), MediaSeen)
      <3>1. SlotsSeen = slots
        BY <2>2, NoneQueued DEF Safe, SuperblockLast
      <3>2. \A b \in Named(Best(slots).tree) : MediaSeen[b] = media[b]
        BY DEF Safe, LastCommit, MediaSeen, Named
      <3> QED BY <2>1, <3>1, <3>2 DEF Intact
    <2> QED BY <2>1, <2>2 DEF CanMount
  <1> QED
    BY <1>1, AlwaysSafe, PTL

\* Copy on write: no write ever waits for a block of the last commit.
THEOREM NeverOverwritten ==
  ASSUME ReopenUnflushed = "no" PROVE Spec => []LastCommitUntouched
  <1>1. TypeOK /\ Safe => LastCommitUntouched
    BY DEF Safe, LastCommit, LastCommitUntouched, Named
  <1> QED
    BY <1>1, AlwaysSafe, PTL

\* The free map, the pinned list and the references partition the volume, and
\* what the open volume names reads back.
THEOREM SpaceSound ==
  ASSUME ReopenUnflushed = "no" PROVE Spec => [](BlocksAccounted /\ TreeReadable)
  <1>1. TypeOK /\ Safe => BlocksAccounted /\ TreeReadable
    BY DEF Safe
  <1> QED
    BY <1>1, AlwaysSafe, PTL

----------------------------------------------------------------------------
(* The volume implements its abstraction.                                  *)

Phase == IF pc \in {"closed", "open"} THEN pc ELSE "committing"

LEMMA MountedIs == ASSUME Safe PROVE Mounted = Best(slots).tree
  BY DEF Safe, LastCommit, Intact, Mounted

LEMMA InitAbstract == Init => Atomic!Init
  <1> SUFFICES ASSUME Init PROVE Atomic!Init
    OBVIOUS
  <1>1. Mounted = Best(slots).tree /\ Best(slots).tree \in Trees
    BY TypeInit, SafeInit, MountedIs, BestType DEF TypeOK
  <1> QED
    BY <1>1 DEF Init, Atomic!Init

LEMMA StepAbstract ==
  ASSUME ReopenUnflushed = "no"
  PROVE  TypeOK /\ Safe /\ Forgotten /\ [Next]_vars => [Atomic!Next]_<<Mounted, tree, Phase>>
  <1> SUFFICES ASSUME TypeOK, Safe, Forgotten, [Next]_vars
               PROVE  Atomic!Next \/ UNCHANGED <<Mounted, tree, Phase>>
    OBVIOUS
  <1>t. TypeOK' /\ Safe'
    BY TypeStep, SafeStep
  <1>m. Mounted = Best(slots).tree /\ Mounted' = Best(slots').tree
    <2>1. Mounted' = Best(slots)'.tree
      BY <1>t, MountedIs DEF Safe, LastCommit, Intact, Mounted, Parity, SuperblockLast,
                             BlocksAccounted, TreeReadable, MediaSeen
    <2> QED BY <2>1, MountedIs DEF Best
  <1>w. tree' \in Trees
    BY <1>t DEF TypeOK
  <1> USE <1>m, <1>w DEF Atomic!Next, Phase
  <1>1. CASE Open
    <2>1. SlotsSeen = slots
      BY <1>1, NoneQueued DEF Open, Safe, SuperblockLast
    <2>2. pc = "closed" /\ pc' = "open" /\ tree' = Best(slots).tree /\ slots' = slots
      BY <1>1, <2>1 DEF Open, device
    <2> QED BY <2>2 DEF Atomic!Mount
  <1>2. CASE BeginCommit
    BY <1>2 DEF BeginCommit, device, writer, Atomic!Begin
  <1>3. CASE FlushTrees
    <2>1. SlotsSeen = slots
      BY <1>3, NoneQueued DEF FlushTrees, Safe, SuperblockLast
    <2> QED BY <1>3, <2>1 DEF FlushTrees, Flush, writer
  <1>4. CASE WriteSuper \/ CommitFails
    BY <1>4 DEF WriteSuper, CommitFails, device, writer
  <1>5. CASE FlushSuper
    <2>1. newSb.gen = Best(slots).gen + 1 /\ newSb.tree = tree
      BY <1>5 DEF FlushSuper, Safe, SuperblockLast, LastCommit
    <2>2. Best(slots').tree = tree
      BY <1>5, <2>1, NewestWins DEF FlushSuper, Flush, Safe, LastCommit
    <2> QED BY <1>5, <2>2 DEF FlushSuper, Atomic!Commit
  <1>6. ASSUME NEW b \in Blocks, NEW d \in Data, Store(b, d)
        PROVE  Atomic!Next \/ UNCHANGED <<Mounted, tree, Phase>>
    BY <1>6 DEF Store, Atomic!Change
  <1>7. ASSUME NEW b \in Blocks, StoreFails(b)
        PROVE  Atomic!Next \/ UNCHANGED <<Mounted, tree, Phase>>
    BY <1>7 DEF StoreFails
  <1>8. ASSUME NEW b \in Blocks, Release(b)
        PROVE  Atomic!Next \/ UNCHANGED <<Mounted, tree, Phase>>
    BY <1>8 DEF Release, device, Atomic!Change
  <1>9. CASE SuperFails
    <2>1. gen \in Nat /\ gen = Best(slots).gen + 1
      BY <1>9 DEF SuperFails, Safe, LastCommit, TypeOK
    <2>2. Best(slots') = Best(slots)
      BY <1>9, <2>1, TornSlotHarmless DEF SuperFails, Safe, LastCommit
    <2> QED BY <1>9, <2>2 DEF SuperFails, writer
  <1>10. CASE Kill
    BY <1>10 DEF Kill, Forget, device, Atomic!Lose
  <1>11. CASE PowerCut
    <2>1. pc' = "closed" /\ tree' = NoTree
      BY <1>11 DEF PowerCut, Forget
    <2>2. CASE newSb.gen = 0
      <3>1. slots' = slots
        BY <1>11, <2>2, NoneQueued DEF PowerCut
      <3>2. pc = "closed" => tree = NoTree
        BY DEF Forgotten
      <3> QED BY <2>1, <3>1, <3>2 DEF Atomic!Lose
    <2>3. CASE newSb.gen # 0
      <3>1. /\ newSb.gen = Best(slots).gen + 1 /\ newSb.tree = tree /\ newSb.gen \in Nat
            /\ pc \in {"super", "failed"}
        BY <2>3 DEF Safe, SuperblockLast, LastCommit, TypeOK, Superblock
      <3>2. Best(slots').tree \in {Best(slots).tree, tree}
        <4>1. slots' = slots \/ slots' = SlotsSeen
              \/ slots' = [slots EXCEPT ![Slot(newSb.gen)] = Unreadable]
          BY <1>11 DEF PowerCut
        <4> QED BY <4>1, <3>1, NewestWins, TornSlotHarmless DEF Safe, LastCommit
      <3> QED BY <2>1, <3>1, <3>2 DEF Atomic!Lose
    <2> QED BY <2>2, <2>3
  <1>12. CASE UNCHANGED vars
    BY <1>12 DEF vars, device, writer
  <1> QED
    BY <1>1, <1>2, <1>3, <1>4, <1>5, <1>6, <1>7, <1>8, <1>9, <1>10, <1>11, <1>12 DEF Next

\* A mount finds the last commit that returned, or the one that was running
\* when the writer or the power was lost, and never a mix.
THEOREM CommitAtomic == ASSUME ReopenUnflushed = "no" PROVE Spec => Atomicity
  <1>1. TypeOK /\ Safe /\ Forgotten /\ [Next]_vars => [Atomic!Next]_<<Mounted, tree, Phase>>
    BY StepAbstract
  <1> QED
    BY <1>1, AlwaysSafe, InitAbstract, PTL DEF Spec, Atomicity, Atomic!Spec, Atomic!vars, Phase
=============================================================================
