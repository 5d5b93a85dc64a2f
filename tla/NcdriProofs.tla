---------------------------- MODULE NcdriProofs ----------------------------
(***************************************************************************)
(* Ncdri, for tables of any size, any number of modules and devices, and   *)
(* any memory.                                                             *)
(*                                                                         *)
(* HoldersLive and RunsOwned are inductive with what the code relies on at *)
(* each place (Places): no device exists while modules are loaded, a       *)
(* device being probed holds nothing, and the driver of the best offer is  *)
(* still registered.                                                       *)
(***************************************************************************)
EXTENDS Ncdri, Integers, WellFoundedInduction, TLAPS

Types ==
    /\ DEVICES \in [DOMAIN DEVICES ->
            [driver : Nat, softc : Runs \cup {NoRun}, attached : BOOLEAN]]
    /\ DOMAIN DRIVERS \subseteq Nat
    /\ runs \subseteq Runs
    /\ best \in [driver : Nat, rank : Offers]

Places ==
    /\ pc \in {"load", "main", "scan", "probe", "attach"}
    /\ pc = "main" => at \in DOMAIN MODULES
    /\ pc \in {"load", "main"} =>
            DOMAIN DEVICES = {} /\ DOMAIN RESOURCES = {} /\ DOMAIN DMAS = {}
    /\ pc \in {"probe", "attach"} => at \in DOMAIN DEVICES
    /\ pc = "probe" => /\ DEVICES[at].softc = NoRun
                       /\ Of(RESOURCES, at) = {} /\ Of(DMAS, at) = {}
                       /\ best # NoOffer => best.driver \in DOMAIN DRIVERS

Inv == Types /\ Places /\ HoldersLive /\ RunsOwned

-----------------------------------------------------------------------------
(* The pools.                                                              *)

LEMMA Smallest ==
    ASSUME NEW S, S \subseteq Nat, S # {}
    PROVE  \E n \in S : \A k \in S : n <= k
<1>1. \E x \in S : \A y \in S : ~ (<<y, x>> \in OpToRel(<, Nat))
    BY NatLessThanWellFounded, WFMin, Zenon
<1>2. \A x, y \in Nat : <<y, x>> \in OpToRel(<, Nat) <=> y < x
    BY Zenon DEF OpToRel
<1>3. \E x \in S : \A y \in S : ~ (y < x)
    BY <1>1, <1>2, Zenon
<1> QED
    BY <1>3, SMT

\* free_slot returns an entry that is not used.
LEMMA SlotFree ==
    ASSUME NEW pool, NEW max \in Nat, Free(pool, max) # {}
    PROVE  Slot(pool, max) \in Nat /\ Slot(pool, max) \notin DOMAIN pool
<1>1. Free(pool, max) \subseteq Nat
    BY DEF Free
<1>2. \E i \in Free(pool, max) : \A j \in Free(pool, max) : i <= j
    BY <1>1, Smallest
<1>3. Slot(pool, max) \in Free(pool, max)
    BY <1>2 DEF Slot
<1> QED
    BY <1>1, <1>3 DEF Free

LEMMA SetPool ==
    ASSUME NEW pool, NEW i, NEW e
    PROVE  /\ DOMAIN Set(pool, i, e) = DOMAIN pool \cup {i}
           /\ Set(pool, i, e)[i] = e
           /\ \A j \in DOMAIN pool : j # i => Set(pool, i, e)[j] = pool[j]
BY DEF Set

LEMMA WithoutPool ==
    ASSUME NEW pool, NEW is
    PROVE  /\ DOMAIN Without(pool, is) = DOMAIN pool \ is
           /\ \A j \in DOMAIN pool \ is : Without(pool, is)[j] = pool[j]
BY DEF Without

-----------------------------------------------------------------------------
(* Who holds what.                                                         *)

\* RunsOwned, of any holdings and runs.
Owned(H, R) ==
    /\ \A r \in R : \E h \in H : h.run = r
    /\ \A h \in H : h.run \in R
    /\ \A g, h \in H : g.run = h.run => g = h

LEMMA OwnedSame == RunsOwned <=> Owned(Holdings, runs)
BY DEF RunsOwned, Owned

\* Somebody takes a run that nobody has.
LEMMA Grow ==
    ASSUME NEW H, NEW R, NEW h, Owned(H, R), h.run \notin R
    PROVE  Owned(H \cup {h}, R \cup {h.run})
BY DEF Owned

\* Some holdings end and their runs go back.
LEMMA Shrink ==
    ASSUME NEW H, NEW R, NEW X, Owned(H, R), X \subseteq H
    PROVE  Owned(H \ X, R \ {h.run : h \in X})
BY DEF Owned

\* What the holdings of one kind become when an entry is added or entries go.
LEMMA ArenasSet ==
    ASSUME NEW i, NEW e, i \notin DOMAIN MODULES, MODULES' = Set(MODULES, i, e)
    PROVE  Arenas' = Arenas \cup {[what |-> "arena", entry |-> i, run |-> e.arena]}
<1>1. /\ DOMAIN MODULES' = DOMAIN MODULES \cup {i} /\ MODULES'[i] = e
      /\ \A j \in DOMAIN MODULES : j # i => MODULES'[j] = MODULES[j]
    BY DEF Set
<1>2. \A j \in DOMAIN MODULES : MODULES'[j] = MODULES[j]
    BY <1>1
<1> QED
    BY <1>1, <1>2 DEF Arenas

LEMMA ArenasWithout ==
    ASSUME NEW i, i \in DOMAIN MODULES, MODULES' = Without(MODULES, {i})
    PROVE  /\ Arenas' = Arenas \ {[what |-> "arena", entry |-> i, run |-> MODULES[i].arena]}
           /\ [what |-> "arena", entry |-> i, run |-> MODULES[i].arena] \in Arenas
<1>1. DOMAIN MODULES' = DOMAIN MODULES \ {i}
      /\ \A j \in DOMAIN MODULES \ {i} : MODULES'[j] = MODULES[j]
    BY WithoutPool
<1> QED
    BY <1>1 DEF Arenas

LEMMA BuffersSet ==
    ASSUME NEW i, NEW e, i \notin DOMAIN DMAS, DMAS' = Set(DMAS, i, e)
    PROVE  Buffers' = Buffers \cup {[what |-> "dma", entry |-> i, run |-> e.run]}
<1>1. /\ DOMAIN DMAS' = DOMAIN DMAS \cup {i} /\ DMAS'[i] = e
      /\ \A j \in DOMAIN DMAS : j # i => DMAS'[j] = DMAS[j]
    BY DEF Set
<1>2. \A j \in DOMAIN DMAS : DMAS'[j] = DMAS[j]
    BY <1>1
<1> QED
    BY <1>1, <1>2 DEF Buffers

\* The holdings of some DMA entries.
BuffersOf(is) == {[what |-> "dma", entry |-> d, run |-> DMAS[d].run] : d \in is}

LEMMA BuffersWithout ==
    ASSUME NEW is, is \subseteq DOMAIN DMAS, DMAS' = Without(DMAS, is)
    PROVE  /\ Buffers' = Buffers \ BuffersOf(is)
           /\ BuffersOf(is) \subseteq Buffers
           /\ {h.run : h \in BuffersOf(is)} = {DMAS[d].run : d \in is}
<1>1. DOMAIN DMAS' = DOMAIN DMAS \ is
      /\ \A j \in DOMAIN DMAS \ is : DMAS'[j] = DMAS[j]
    BY WithoutPool
<1>2. Buffers' = Buffers \ BuffersOf(is)
    BY <1>1 DEF Buffers, BuffersOf
<1>3. BuffersOf(is) \subseteq Buffers
    BY DEF Buffers, BuffersOf
<1>4. ASSUME NEW d \in is PROVE \E h \in BuffersOf(is) : h.run = DMAS[d].run
    <2>1. [what |-> "dma", entry |-> d, run |-> DMAS[d].run] \in BuffersOf(is)
        BY DEF BuffersOf
    <2> QED
        BY <2>1
<1>5. \A h \in BuffersOf(is) : \E d \in is : h.run = DMAS[d].run
    BY DEF BuffersOf
<1>6. {h.run : h \in BuffersOf(is)} = {DMAS[d].run : d \in is}
    BY <1>4, <1>5
<1> QED
    BY <1>2, <1>3, <1>6

\* The four kinds of holdings are told apart.
LEMMA KindsApart ==
    /\ \A h \in Arenas : h.what = "arena"
    /\ \A h \in Buffers : h.what = "dma"
    /\ \A h \in Private : h.what = "softc"
    /\ \A h \in Loose : h.what = "mem"
BY DEF Arenas, Buffers, Private, Loose

LEMMA PrivateSet ==
    ASSUME NEW i, NEW e, i \notin DOMAIN DEVICES, DEVICES' = Set(DEVICES, i, e),
           e.softc = NoRun
    PROVE  Private' = Private
<1>1. /\ DOMAIN DEVICES' = DOMAIN DEVICES \cup {i} /\ DEVICES'[i] = e
      /\ \A j \in DOMAIN DEVICES : j # i => DEVICES'[j] = DEVICES[j]
    BY DEF Set
<1>2. {x \in DOMAIN DEVICES' : DEVICES'[x].softc # NoRun}
      = {x \in DOMAIN DEVICES : DEVICES[x].softc # NoRun}
    BY <1>1
<1> QED
    BY <1>1, <1>2 DEF Private

\* The holding of a device with a softc.
SoftcOf(d) == [what |-> "softc", entry |-> d, run |-> DEVICES[d].softc]

LEMMA PrivateWithout ==
    ASSUME NEW i, i \in DOMAIN DEVICES, DEVICES' = Without(DEVICES, {i})
    PROVE  /\ DEVICES[i].softc = NoRun => Private' = Private
           /\ DEVICES[i].softc # NoRun =>
                    Private' = Private \ {SoftcOf(i)} /\ SoftcOf(i) \in Private
<1>1. /\ DOMAIN DEVICES' = DOMAIN DEVICES \ {i}
      /\ \A j \in DOMAIN DEVICES \ {i} : DEVICES'[j] = DEVICES[j]
    BY WithoutPool
<1>2. CASE DEVICES[i].softc = NoRun
    <2>1. {x \in DOMAIN DEVICES' : DEVICES'[x].softc # NoRun}
          = {x \in DOMAIN DEVICES : DEVICES[x].softc # NoRun}
        BY <1>1, <1>2
    <2>2. \A x \in {y \in DOMAIN DEVICES : DEVICES[y].softc # NoRun} : DEVICES'[x] = DEVICES[x]
        BY <1>1, <1>2
    <2>3. Private' = Private
        BY <2>1, <2>2 DEF Private
    <2> QED
        BY <1>2, <2>3
<1>3. CASE DEVICES[i].softc # NoRun
    <2>1. {x \in DOMAIN DEVICES' : DEVICES'[x].softc # NoRun}
          = {x \in DOMAIN DEVICES : DEVICES[x].softc # NoRun} \ {i}
        BY <1>1, <1>3
    <2>2. \A x \in {y \in DOMAIN DEVICES : DEVICES[y].softc # NoRun} \ {i} :
                DEVICES'[x] = DEVICES[x]
        BY <1>1
    <2>3. Private' = Private \ {SoftcOf(i)}
        <3> DEFINE S == {y \in DOMAIN DEVICES : DEVICES[y].softc # NoRun}
        <3>1. Private' = {SoftcOf(x) : x \in S \ {i}}
            BY <2>1, <2>2 DEF Private, SoftcOf
        <3>2. Private = {SoftcOf(x) : x \in S}
            BY DEF Private, SoftcOf
        <3>3. \A x \in S : SoftcOf(x) = SoftcOf(i) => x = i
            BY DEF SoftcOf
        <3> HIDE DEF S
        <3> QED
            BY <3>1, <3>2, <3>3
    <2>4. SoftcOf(i) \in Private
        BY <1>3 DEF Private, SoftcOf
    <2> QED
        BY <1>3, <2>3, <2>4
<1> QED
    BY <1>2, <1>3

\* Holdings follow what they are made of.
LEMMA HoldingsFrom ==
    /\ UNCHANGED MODULES => Arenas' = Arenas
    /\ UNCHANGED DMAS => Buffers' = Buffers
    /\ UNCHANGED DEVICES => Private' = Private
    /\ UNCHANGED mem => Loose' = Loose
    /\ Arenas' = Arenas /\ Buffers' = Buffers /\ Private' = Private /\ Loose' = Loose
            => Holdings' = Holdings
BY DEF Arenas, Buffers, Private, Loose, Holdings

\* RunsOwned after a step that changes no holding, that takes a run, and that
\* gives some back.
LEMMA Keeps ==
    ASSUME RunsOwned, Holdings' = Holdings, runs' = runs
    PROVE  RunsOwned'
BY DEF RunsOwned

LEMMA Takes ==
    ASSUME RunsOwned, NEW h, h.run \notin runs,
           Holdings' = Holdings \cup {h}, runs' = runs \cup {h.run}
    PROVE  RunsOwned'
<1>1. Owned(Holdings \cup {h}, runs \cup {h.run})
    BY Grow, OwnedSame
<1> QED
    BY <1>1 DEF RunsOwned, Owned

LEMMA Returns ==
    ASSUME RunsOwned, NEW X, X \subseteq Holdings,
           Holdings' = Holdings \ X, runs' = runs \ {h.run : h \in X}
    PROVE  RunsOwned'
<1>1. Owned(Holdings \ X, runs \ {h.run : h \in X})
    BY Shrink, OwnedSame
<1> QED
    BY <1>1 DEF RunsOwned, Owned

-----------------------------------------------------------------------------
(* Loading.                                                                *)

LEMMA EnterInv ==
    ASSUME NcdriConstants, Inv, NEW run \in Runs, Enter(run)
    PROVE  Inv'
<1> DEFINE i == Slot(MODULES, MAX_MODULES)
           h == [what |-> "arena", entry |-> i, run |-> run]
<1>1. i \notin DOMAIN MODULES
    BY SlotFree DEF NcdriConstants, Enter
<1>2. DOMAIN MODULES' = DOMAIN MODULES \cup {i}
    BY DEF Enter, Set
<1>3. Types' /\ Places' /\ HoldersLive'
    BY <1>2 DEF Enter, Inv, Types, Places, HoldersLive, Of
<1>4. Arenas' = Arenas \cup {h}
    BY <1>1, ArenasSet DEF Enter
<1>5. Holdings' = Holdings \cup {h}
    BY <1>4, HoldingsFrom DEF Enter, Holdings
<1>6. h.run \notin runs /\ runs' = runs \cup {h.run}
    BY DEF Enter
<1>7. RunsOwned'
    <2> HIDE DEF h
    <2> QED
        BY <1>5, <1>6, Takes DEF Inv
<1> QED
    BY <1>3, <1>7 DEF Inv

LEMMA MainFailsInv ==
    ASSUME Inv, MainFails
    PROVE  Inv'
<1> DEFINE h == [what |-> "arena", entry |-> at, run |-> MODULES[at].arena]
           is == {i \in DOMAIN DRIVERS : DRIVERS[i].module = at}
<1>1. at \in DOMAIN MODULES /\ DOMAIN DEVICES = {} /\ DOMAIN RESOURCES = {} /\ DOMAIN DMAS = {}
    BY DEF Inv, Places, MainFails
<1>2. /\ DOMAIN MODULES' = DOMAIN MODULES \ {at}
      /\ DOMAIN DRIVERS' = DOMAIN DRIVERS \ is
      /\ \A i \in DOMAIN DRIVERS \ is : DRIVERS'[i] = DRIVERS[i]
    BY DEF MainFails, Without
<1>3. Types' /\ Places'
    BY <1>1, <1>2 DEF MainFails, Inv, Types, Places, Of
<1>4. HoldersLive'
    BY <1>1, <1>2 DEF MainFails, Inv, HoldersLive
<1>5. Arenas' = Arenas \ {h} /\ h \in Arenas
    BY <1>1, ArenasWithout DEF MainFails
<1>6. Holdings' = Holdings \ {h} /\ {h} \subseteq Holdings
    BY <1>5, HoldingsFrom, KindsApart DEF MainFails, Holdings
<1>7. runs' = runs \ {x.run : x \in {h}}
    BY DEF MainFails
<1>8. RunsOwned'
    BY <1>6, <1>7, Returns DEF Inv
<1> QED
    BY <1>3, <1>4, <1>8 DEF Inv

\* The steps that change no table and no memory.
LEMMA QuietInv ==
    ASSUME Inv, Refuse \/ MainOk \/ Loaded
    PROVE  Inv'
<1>1. Types' /\ Places' /\ HoldersLive'
    BY DEF Inv, Types, Places, HoldersLive, Of, Refuse, MainOk, Loaded, pools
<1>2. Holdings' = Holdings /\ runs' = runs
    BY HoldingsFrom DEF Refuse, MainOk, Loaded, pools
<1> QED
    BY <1>1, <1>2, Keeps DEF Inv

-----------------------------------------------------------------------------
(* Services.                                                               *)

LEMMA DriverRegisterInv ==
    ASSUME NcdriConstants, Inv, NEW desc, DriverRegister(desc)
    PROVE  Inv'
<1> DEFINE i == Slot(DRIVERS, MAX_DRIVERS)
<1>1. i \in Nat /\ i \notin DOMAIN DRIVERS
    BY SlotFree DEF NcdriConstants, DriverRegister
<1>2. /\ DOMAIN DRIVERS' = DOMAIN DRIVERS \cup {i}
      /\ DRIVERS'[i].module = at
      /\ \A j \in DOMAIN DRIVERS : j # i => DRIVERS'[j] = DRIVERS[j]
    BY DEF DriverRegister, Set, Module
<1>3. at \in DOMAIN MODULES /\ DOMAIN DEVICES = {} /\ DOMAIN RESOURCES = {} /\ DOMAIN DMAS = {}
    BY DEF Inv, Places, DriverRegister
<1> HIDE DEF i
<1>4. Types' /\ Places'
    BY <1>1, <1>2, <1>3 DEF DriverRegister, Inv, Types, Places, Of
<1>5. HoldersLive'
    BY <1>1, <1>2, <1>3 DEF DriverRegister, Inv, HoldersLive
<1>6. Holdings' = Holdings /\ runs' = runs
    BY HoldingsFrom DEF DriverRegister
<1> QED
    BY <1>4, <1>5, <1>6, Keeps DEF Inv

LEMMA DriverUnregisterInv ==
    ASSUME Inv, NEW desc, DriverUnregister(desc)
    PROVE  Inv'
<1>1. PICK i \in DOMAIN DRIVERS : ~InUse(i) /\ DRIVERS' = Without(DRIVERS, {i})
    BY DEF DriverUnregister
<1>2. /\ DOMAIN DRIVERS' = DOMAIN DRIVERS \ {i}
      /\ \A j \in DOMAIN DRIVERS \ {i} : DRIVERS'[j] = DRIVERS[j]
    BY <1>1, WithoutPool
<1>3. Types' /\ Places'
    BY <1>2 DEF DriverUnregister, Inv, Types, Places, Of
<1>4. HoldersLive'
    BY <1>1, <1>2 DEF DriverUnregister, Inv, Places, HoldersLive, InUse
<1>5. Holdings' = Holdings /\ runs' = runs
    BY HoldingsFrom DEF DriverUnregister
<1> QED
    BY <1>3, <1>4, <1>5, Keeps DEF Inv

LEMMA ResourceMapInv ==
    ASSUME NcdriConstants, Inv, ResourceMap
    PROVE  Inv'
<1> DEFINE i == Slot(RESOURCES, MAX_RESOURCES)
<1>1. /\ DOMAIN RESOURCES' = DOMAIN RESOURCES \cup {i}
      /\ RESOURCES'[i].device = at
      /\ \A j \in DOMAIN RESOURCES : j # i => RESOURCES'[j] = RESOURCES[j]
    BY DEF ResourceMap, Set
<1> HIDE DEF i
<1>2. Types' /\ Places'
    BY <1>1 DEF ResourceMap, Inv, Types, Places, Of
<1>3. HoldersLive'
    BY <1>1 DEF ResourceMap, Inv, Places, HoldersLive
<1>4. Holdings' = Holdings /\ runs' = runs
    BY HoldingsFrom DEF ResourceMap
<1> QED
    BY <1>2, <1>3, <1>4, Keeps DEF Inv

LEMMA ResourceUnmapInv ==
    ASSUME Inv, NEW r, ResourceUnmap(r)
    PROVE  Inv'
<1>1. /\ DOMAIN RESOURCES' = DOMAIN RESOURCES \ {r}
      /\ \A j \in DOMAIN RESOURCES \ {r} : RESOURCES'[j] = RESOURCES[j]
    BY DEF ResourceUnmap, Without
<1>2. Types' /\ Places'
    BY <1>1 DEF ResourceUnmap, Inv, Types, Places, Of
<1>3. HoldersLive'
    BY <1>1 DEF ResourceUnmap, Inv, HoldersLive
<1>4. Holdings' = Holdings /\ runs' = runs
    BY HoldingsFrom DEF ResourceUnmap
<1> QED
    BY <1>2, <1>3, <1>4, Keeps DEF Inv

LEMMA DmaAllocInv ==
    ASSUME NcdriConstants, Inv, NEW run \in Runs, DmaAlloc(run)
    PROVE  Inv'
<1> DEFINE i == Slot(DMAS, MAX_DMA)
           h == [what |-> "dma", entry |-> i, run |-> run]
<1>1. i \notin DOMAIN DMAS
    BY SlotFree DEF NcdriConstants, DmaAlloc
<1>2. /\ DOMAIN DMAS' = DOMAIN DMAS \cup {i}
      /\ DMAS'[i].device = at
      /\ \A j \in DOMAIN DMAS : j # i => DMAS'[j] = DMAS[j]
    BY DEF DmaAlloc, Set
<1>3. Buffers' = Buffers \cup {h}
    BY <1>1, BuffersSet DEF DmaAlloc
<1>4. Holdings' = Holdings \cup {h}
    BY <1>3, HoldingsFrom DEF DmaAlloc, Holdings
<1>5. h.run \notin runs /\ runs' = runs \cup {h.run}
    BY DEF DmaAlloc
<1> HIDE DEF i, h
<1>6. Types' /\ Places'
    BY <1>2 DEF DmaAlloc, Inv, Types, Places, Of
<1>7. HoldersLive'
    BY <1>2 DEF DmaAlloc, Inv, Places, HoldersLive
<1>8. RunsOwned'
    BY <1>4, <1>5, Takes DEF Inv
<1> QED
    BY <1>6, <1>7, <1>8 DEF Inv

LEMMA DmaFreeInv ==
    ASSUME Inv, NEW d, DmaFree(d)
    PROVE  Inv'
<1>1. d \in DOMAIN DMAS /\ DMAS' = Without(DMAS, {d})
    BY DEF DmaFree, Of
<1>2. /\ DOMAIN DMAS' = DOMAIN DMAS \ {d}
      /\ \A j \in DOMAIN DMAS \ {d} : DMAS'[j] = DMAS[j]
    BY <1>1, WithoutPool
<1>3. /\ Buffers' = Buffers \ BuffersOf({d}) /\ BuffersOf({d}) \subseteq Buffers
      /\ {h.run : h \in BuffersOf({d})} = {DMAS[x].run : x \in {d}}
    BY <1>1, BuffersWithout
<1>4. Holdings' = Holdings \ BuffersOf({d}) /\ BuffersOf({d}) \subseteq Holdings
    BY <1>3, HoldingsFrom, KindsApart DEF DmaFree, Holdings
<1>5. runs' = runs \ {h.run : h \in BuffersOf({d})}
    BY <1>3 DEF DmaFree
<1>6. Types' /\ Places'
    BY <1>2 DEF DmaFree, Inv, Types, Places, Of
<1>7. HoldersLive'
    BY <1>2 DEF DmaFree, Inv, HoldersLive
<1>8. RunsOwned'
    BY <1>4, <1>5, Returns DEF Inv
<1> QED
    BY <1>6, <1>7, <1>8 DEF Inv

LEMMA MemAllocInv ==
    ASSUME Inv, NEW run \in Runs, MemAlloc(run)
    PROVE  Inv'
<1> DEFINE h == [what |-> "mem", entry |-> 0, run |-> run]
<1>1. Types' /\ Places' /\ HoldersLive'
    BY DEF MemAlloc, pools, Inv, Types, Places, HoldersLive, Of
<1>2. Loose' = Loose \cup {h}
    BY DEF MemAlloc, Loose
<1>3. Holdings' = Holdings \cup {h}
    BY <1>2, HoldingsFrom DEF MemAlloc, pools, Holdings
<1>4. h.run \notin runs /\ runs' = runs \cup {h.run}
    BY DEF MemAlloc
<1> HIDE DEF h
<1> QED
    BY <1>1, <1>3, <1>4, Takes DEF Inv

LEMMA MemFreeInv ==
    ASSUME Inv, NEW run, MemFree(run)
    PROVE  Inv'
<1> DEFINE h == [what |-> "mem", entry |-> 0, run |-> run]
<1>1. Types' /\ Places' /\ HoldersLive'
    BY DEF MemFree, pools, Inv, Types, Places, HoldersLive, Of
<1>2. Loose' = Loose \ {h} /\ h \in Loose
    BY DEF MemFree, Loose
<1>3. Holdings' = Holdings \ {h} /\ {h} \subseteq Holdings
    BY <1>2, HoldingsFrom, KindsApart DEF MemFree, pools, Holdings
<1>4. runs' = runs \ {x.run : x \in {h}}
    BY DEF MemFree
<1> HIDE DEF h
<1> QED
    BY <1>1, <1>3, <1>4, Returns DEF Inv

-----------------------------------------------------------------------------
(* Offering a device, attaching it, and taking everything back.            *)

LEMMA OfferInv ==
    ASSUME NcdriConstants, Inv, Offer
    PROVE  Inv'
<1> DEFINE i == Slot(DEVICES, MAX_DEVICES)
           e == [driver |-> 1, softc |-> NoRun, attached |-> FALSE]
<1>1. CASE Free(DEVICES, MAX_DEVICES) = {}
    <2>1. UNCHANGED <<MODULES, DRIVERS, DEVICES, RESOURCES, DMAS, runs, mem, pc, at, best>>
        BY <1>1 DEF Offer
    <2>2. Types' /\ Places' /\ HoldersLive'
        BY <2>1 DEF Inv, Types, Places, HoldersLive, Of
    <2>3. Holdings' = Holdings
        BY <2>1, HoldingsFrom
    <2> QED
        BY <2>1, <2>2, <2>3, Keeps DEF Inv
<1>2. CASE Free(DEVICES, MAX_DEVICES) # {}
    <2>1. /\ i \notin DOMAIN DEVICES /\ DEVICES' = Set(DEVICES, i, e)
          /\ at' = i /\ best' = NoOffer /\ pc' = "probe"
          /\ UNCHANGED <<MODULES, DRIVERS, RESOURCES, DMAS, runs, mem>>
        BY <1>2, SlotFree DEF Offer, NcdriConstants
    <2>2. e \in [driver : Nat, softc : Runs \cup {NoRun}, attached : BOOLEAN] /\ e.softc = NoRun
        OBVIOUS
    <2> HIDE DEF i, e
    <2>3. /\ DOMAIN DEVICES' = DOMAIN DEVICES \cup {i} /\ DEVICES'[i] = e
          /\ \A j \in DOMAIN DEVICES : j # i => DEVICES'[j] = DEVICES[j]
        BY <2>1 DEF Set
    <2>4. DEVICES' \in [DOMAIN DEVICES' ->
                [driver : Nat, softc : Runs \cup {NoRun}, attached : BOOLEAN]]
        BY <2>1, <2>2 DEF Set, Inv, Types
    <2>5. Types'
        BY <2>1, <2>4 DEF Inv, Types, NoOffer, Offers
    <2>6. Places'
        BY <2>1, <2>2, <2>3 DEF Inv, Places, HoldersLive, Of
    <2>7. HoldersLive'
        BY <2>1, <2>3, pc = "scan" DEF Offer, Inv, HoldersLive
    <2>8. Holdings' = Holdings
        BY <2>1, <2>2, PrivateSet, HoldingsFrom
    <2> QED
        BY <2>1, <2>5, <2>6, <2>7, <2>8, Keeps DEF Inv
<1> QED
    BY <1>1, <1>2

LEMMA ProbeInv ==
    ASSUME Inv, Probe
    PROVE  Inv'
<1>1. best' = best \/ \E i \in DOMAIN DRIVERS, r \in Offers : best' = [driver |-> i, rank |-> r]
    BY DEF Probe
<1>2. Types'
    BY <1>1 DEF Probe, pools, Inv, Types
<1>3. Places' /\ HoldersLive'
    BY <1>1 DEF Probe, pools, Inv, Places, HoldersLive, Of
<1>4. Holdings' = Holdings /\ runs' = runs
    BY HoldingsFrom DEF Probe, pools
<1> QED
    BY <1>2, <1>3, <1>4, Keeps DEF Inv

LEMMA GiveUpInv ==
    ASSUME Inv, pc = "probe", GiveUp, UNCHANGED <<mem, at, best>>
    PROVE  Inv'
<1>1. at \in DOMAIN DEVICES /\ DEVICES[at].softc = NoRun
      /\ Of(RESOURCES, at) = {} /\ Of(DMAS, at) = {}
    BY DEF Inv, Places
<1>2. /\ DOMAIN DEVICES' = DOMAIN DEVICES \ {at}
      /\ \A j \in DOMAIN DEVICES \ {at} : DEVICES'[j] = DEVICES[j]
    BY DEF GiveUp, Without
<1>3. Types'
    BY <1>2 DEF GiveUp, Without, Inv, Types
<1>4. Places'
    BY DEF GiveUp, Inv, Places
<1>5. HoldersLive'
    BY <1>1, <1>2 DEF GiveUp, Inv, HoldersLive, Of
<1>6. Holdings' = Holdings /\ runs' = runs
    BY <1>1, PrivateWithout, HoldingsFrom DEF GiveUp
<1> QED
    BY <1>3, <1>4, <1>5, <1>6, Keeps DEF Inv

\* The device at hand gets a driver that is registered, and a softc or none.
LEMMA BoundTables ==
    ASSUME Inv, pc = "probe", best # NoOffer, NEW softc \in Runs \cup {NoRun},
           Bound(softc), runs' \subseteq Runs, UNCHANGED <<mem, at, best>>
    PROVE  Types' /\ Places' /\ HoldersLive'
<1>1. at \in DOMAIN DEVICES /\ best.driver \in DOMAIN DRIVERS /\ best.driver \in Nat
    BY DEF Inv, Places, Types
<1>2. /\ DOMAIN DEVICES' = DOMAIN DEVICES
      /\ DEVICES'[at].driver = best.driver
      /\ \A j \in DOMAIN DEVICES \ {at} : DEVICES'[j] = DEVICES[j]
    BY <1>1 DEF Bound, Inv, Types
<1>3. Types'
    BY <1>1 DEF Bound, Inv, Types
<1>4. Places'
    BY <1>1, <1>2 DEF Bound, Inv, Places
<1>5. HoldersLive'
    BY <1>1, <1>2 DEF Bound, Inv, HoldersLive
<1> QED
    BY <1>3, <1>4, <1>5

LEMMA PrivateBound ==
    ASSUME Inv, pc = "probe", NEW softc, Bound(softc)
    PROVE  /\ softc = NoRun => Private' = Private
           /\ softc # NoRun =>
                Private' = Private \cup {[what |-> "softc", entry |-> at, run |-> softc]}
<1> DEFINE S == {x \in DOMAIN DEVICES : DEVICES[x].softc # NoRun}
           T == {x \in DOMAIN DEVICES' : DEVICES'[x].softc # NoRun}
<1>1. at \in DOMAIN DEVICES /\ DEVICES[at].softc = NoRun
    BY DEF Inv, Places
<1>2. /\ DOMAIN DEVICES' = DOMAIN DEVICES
      /\ DEVICES'[at].softc = softc
      /\ \A j \in DOMAIN DEVICES \ {at} : DEVICES'[j] = DEVICES[j]
    BY <1>1 DEF Bound, Inv, Types
<1>3. at \notin S /\ T \ {at} = S /\ \A x \in S : DEVICES'[x] = DEVICES[x]
    BY <1>1, <1>2
<1>4. at \in T <=> softc # NoRun
    BY <1>1, <1>2
<1>5. Private = {[what |-> "softc", entry |-> d, run |-> DEVICES[d].softc] : d \in S}
    BY DEF Private
<1>6. Private' = {[what |-> "softc", entry |-> d, run |-> DEVICES'[d].softc] : d \in T}
    BY DEF Private
<1> HIDE DEF S, T
<1> QED
    BY <1>2, <1>3, <1>4, <1>5, <1>6

LEMMA ChooseInv ==
    ASSUME NcdriConstants, Inv, Choose
    PROVE  Inv'
<1>0. pc = "probe" /\ UNCHANGED <<mem, at, best>>
    BY DEF Choose
<1>1. CASE GiveUp
    BY <1>0, <1>1, GiveUpInv
<1>2. ASSUME best # NoOffer, NEW run \in Runs \ runs, Bound(run), runs' = runs \cup {run}
      PROVE  Inv'
    <2> DEFINE h == [what |-> "softc", entry |-> at, run |-> run]
    <2>1. runs' \subseteq Runs /\ run # NoRun
        BY <1>2 DEF Inv, Types, NcdriConstants, NoRun
    <2>2. Types' /\ Places' /\ HoldersLive'
        BY <1>0, <1>2, <2>1, BoundTables
    <2>3. Private' = Private \cup {h}
        BY <1>0, <1>2, <2>1, PrivateBound
    <2>4. Holdings' = Holdings \cup {h}
        BY <1>0, <1>2, <2>3, HoldingsFrom DEF Bound, Holdings
    <2>5. h.run \notin runs /\ runs' = runs \cup {h.run}
        BY <1>2
    <2> HIDE DEF h
    <2> QED
        BY <2>2, <2>4, <2>5, Takes DEF Inv
<1>3. ASSUME best # NoOffer, Bound(NoRun), runs' = runs
      PROVE  Inv'
    <2>1. runs' \subseteq Runs
        BY <1>3 DEF Inv, Types
    <2>2. Types' /\ Places' /\ HoldersLive'
        BY <1>0, <1>3, <2>1, BoundTables
    <2>3. Holdings' = Holdings
        BY <1>0, <1>3, PrivateBound, HoldingsFrom DEF Bound
    <2> QED
        BY <1>3, <2>2, <2>3, Keeps DEF Inv
<1> QED
    BY <1>1, <1>2, <1>3 DEF Choose

LEMMA AttachOkInv ==
    ASSUME Inv, AttachOk
    PROVE  Inv'
<1>1. at \in DOMAIN DEVICES
    BY DEF Inv, Places, AttachOk
<1>2. /\ DOMAIN DEVICES' = DOMAIN DEVICES
      /\ \A j \in DOMAIN DEVICES : /\ DEVICES'[j].driver = DEVICES[j].driver
                                  /\ DEVICES'[j].softc = DEVICES[j].softc
    BY <1>1 DEF AttachOk, Inv, Types
<1>3. Types'
    BY <1>1 DEF AttachOk, Inv, Types
<1>4. Places'
    BY DEF AttachOk, Inv, Places
<1>5. HoldersLive'
    BY <1>2 DEF AttachOk, Inv, HoldersLive
<1>6. Private' = Private
    BY <1>2 DEF Private
<1>7. Holdings' = Holdings /\ runs' = runs
    BY <1>6, HoldingsFrom DEF AttachOk
<1> QED
    BY <1>3, <1>4, <1>5, <1>7, Keeps DEF Inv

LEMMA AttachFailsInv ==
    ASSUME NcdriConstants, Inv, AttachFails
    PROVE  Inv'
<1> DEFINE B == BuffersOf(Of(DMAS, at))
           P == IF DEVICES[at].softc = NoRun THEN {} ELSE {SoftcOf(at)}
<1>1. at \in DOMAIN DEVICES
    BY DEF Inv, Places, AttachFails
<1>2. /\ DOMAIN DEVICES' = DOMAIN DEVICES \ {at}
      /\ \A j \in DOMAIN DEVICES \ {at} : DEVICES'[j] = DEVICES[j]
      /\ DOMAIN RESOURCES' = DOMAIN RESOURCES \ Of(RESOURCES, at)
      /\ \A j \in DOMAIN RESOURCES \ Of(RESOURCES, at) : RESOURCES'[j] = RESOURCES[j]
      /\ DOMAIN DMAS' = DOMAIN DMAS \ Of(DMAS, at)
      /\ \A j \in DOMAIN DMAS \ Of(DMAS, at) : DMAS'[j] = DMAS[j]
    BY DEF AttachFails, Without
<1>3. Types'
    BY <1>2 DEF AttachFails, Without, Inv, Types
<1>4. Places'
    BY DEF AttachFails, Inv, Places
<1>5. HoldersLive'
    BY <1>2 DEF AttachFails, Inv, HoldersLive, Of
<1>6. /\ Buffers' = Buffers \ B /\ B \subseteq Buffers
      /\ {h.run : h \in B} = {DMAS[d].run : d \in Of(DMAS, at)}
    <2>1. Of(DMAS, at) \subseteq DOMAIN DMAS
        BY DEF Of
    <2> QED
        BY <2>1, BuffersWithout DEF AttachFails
<1>7. Private' = Private \ P /\ P \subseteq Private
    BY <1>1, PrivateWithout DEF AttachFails
<1>8. {h.run : h \in P} \cup {NoRun} = {DEVICES[at].softc} \cup {NoRun}
    <2>1. CASE DEVICES[at].softc = NoRun
        BY <2>1
    <2>2. CASE DEVICES[at].softc # NoRun
        <3>1. P = {SoftcOf(at)} /\ SoftcOf(at).run = DEVICES[at].softc
            BY <2>2 DEF SoftcOf
        <3> QED
            BY <3>1
    <2> QED
        BY <2>1, <2>2
<1>9. NoRun \notin runs
    BY DEF Inv, Types, NcdriConstants, NoRun
<1> HIDE DEF B, P
<1>10. Holdings' = Holdings \ (B \cup P) /\ B \cup P \subseteq Holdings
    BY <1>6, <1>7, HoldingsFrom, KindsApart DEF AttachFails, Holdings
<1>11. runs' = runs \ {h.run : h \in B \cup P}
    <2>1. {h.run : h \in B \cup P} = {h.run : h \in B} \cup {h.run : h \in P}
        OBVIOUS
    <2>2. runs' = runs \ ({h.run : h \in B} \cup {DEVICES[at].softc})
        BY <1>6 DEF AttachFails
    <2> QED
        BY <1>8, <1>9, <2>1, <2>2
<1>12. RunsOwned'
    BY <1>10, <1>11, Returns DEF Inv
<1> QED
    BY <1>3, <1>4, <1>5, <1>12 DEF Inv

-----------------------------------------------------------------------------
LEMMA InvInit == NcdriConstants /\ Init => Inv
<1> SUFFICES ASSUME NcdriConstants, Init PROVE Inv
    OBVIOUS
<1>1. DOMAIN Empty = {} /\ Empty \in [{} -> [driver : Nat, softc : Runs \cup {NoRun}, attached : BOOLEAN]]
    BY DEF Empty
<1>2. Types
    BY <1>1 DEF Init, Types, NoOffer, Offers
<1>3. Places
    BY <1>1 DEF Init, Places
<1>4. HoldersLive
    BY <1>1 DEF Init, HoldersLive
<1>5. Holdings = {} /\ runs = {}
    BY <1>1 DEF Init, Holdings, Arenas, Buffers, Private, Loose
<1>6. RunsOwned
    BY <1>5 DEF RunsOwned
<1> QED
    BY <1>2, <1>3, <1>4, <1>6 DEF Inv

LEMMA InvNext == NcdriConstants /\ Inv /\ [Next]_vars => Inv'
<1> SUFFICES ASSUME NcdriConstants, Inv, [Next]_vars PROVE Inv'
    OBVIOUS
<1>1. CASE Refuse \/ MainOk \/ Loaded
    BY <1>1, QuietInv
<1>2. CASE MainFails
    BY <1>2, MainFailsInv
<1>3. CASE \E run \in Runs : Enter(run)
    BY <1>3, EnterInv
<1>4. CASE Service
    BY <1>4, DriverRegisterInv, DriverUnregisterInv, ResourceMapInv, ResourceUnmapInv,
       DmaAllocInv, DmaFreeInv, MemAllocInv, MemFreeInv DEF Service
<1>5. CASE Offer
    BY <1>5, OfferInv
<1>6. CASE Probe
    BY <1>6, ProbeInv
<1>7. CASE Choose
    BY <1>7, ChooseInv
<1>8. CASE AttachOk
    BY <1>8, AttachOkInv
<1>9. CASE AttachFails
    BY <1>9, AttachFailsInv
<1>10. CASE UNCHANGED vars
    <2>1. Types' /\ Places' /\ HoldersLive'
        BY <1>10 DEF vars, Inv, Types, Places, HoldersLive, Of
    <2>2. Holdings' = Holdings /\ runs' = runs
        BY <1>10, HoldingsFrom DEF vars
    <2> QED
        BY <2>1, <2>2, Keeps DEF Inv
<1> QED
    BY <1>1, <1>2, <1>3, <1>4, <1>5, <1>6, <1>7, <1>8, <1>9, <1>10 DEF Next

\* The windows and DMA entries of a driver, the driver of a device and the
\* module of a driver are always there, whatever mains, probes and attaches
\* fail (ncdri.rs offer, release, load).
THEOREM HoldersAlwaysLive ==
    ASSUME NcdriConstants
    PROVE  Spec => []HoldersLive
<1>1. Inv => HoldersLive
    BY DEF Inv
<1> QED
    BY <1>1, InvInit, InvNext, PTL DEF Spec

\* No memory handed to modules and devices is lost, and none has two owners
\* (ncdri.rs release, k_dma_alloc, k_dma_free, load).
THEOREM EveryRunOwned ==
    ASSUME NcdriConstants
    PROVE  Spec => []RunsOwned
<1>1. Inv => RunsOwned
    BY DEF Inv
<1> QED
    BY <1>1, InvInit, InvNext, PTL DEF Spec
=============================================================================
