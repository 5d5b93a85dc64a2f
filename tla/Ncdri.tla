-------------------------------- MODULE Ncdri --------------------------------
(***************************************************************************)
(* The driver framework of the kernel, ncdri.rs: driver modules are loaded *)
(* at boot, their ncdri_main registers drivers, every PCI device is        *)
(* offered to every driver, and the best offer attaches.  Drivers call the *)
(* kernel's services while their main, probe and attach run, and any of    *)
(* them may fail at any point, with what it took still in its hands.       *)
(*                                                                         *)
(* The page allocator is what module Frames shows of it: a run handed out  *)
(* is nobody else's until it is freed.  A driver passes on handles it was  *)
(* given and still holds; a probe unmaps the windows it mapped.  Names,    *)
(* units, registers and the screen a driver sets up are left out.          *)
(***************************************************************************)
EXTENDS Naturals, FiniteSets

CONSTANTS
    MAX_MODULES, MAX_DRIVERS, MAX_DEVICES, MAX_RESOURCES, MAX_DMA,
    Runs,       \* what palloc can hand out
    Files,      \* bound: driver modules among the boot modules
    PciDevices, \* bound: devices offered
    Descs,      \* the descriptors of a module; those in Softcs have a softc
    Softcs,
    MaxMem      \* bound: runs a driver takes with mem_alloc

\* What the constants are.
NcdriConstants ==
    /\ {MAX_MODULES, MAX_DRIVERS, MAX_DEVICES, MAX_RESOURCES, MAX_DMA} \subseteq Nat
    /\ "none" \notin Runs

VARIABLES
    MODULES, DRIVERS, DEVICES, RESOURCES, DMAS, \* the pools
    runs,       \* palloc: the runs handed out
    mem,        \* those a driver has from mem_alloc
    files,      \* modules still to load
    pci,        \* devices still to offer
    pc,         \* "load", "main", "scan", "probe", "attach"
    at,         \* the module or device at hand
    tried, best \* the driver slots probed, and the best offer so far

pools == <<MODULES, DRIVERS, DEVICES, RESOURCES, DMAS>>
vars == <<MODULES, DRIVERS, DEVICES, RESOURCES, DMAS, runs, mem, files, pci, pc, at,
          tried, best>>

NoRun == "none"

\* The entries of a pool; only those in use are in the function's domain.
Free(pool, max) == (1..max) \ DOMAIN pool

\* free_slot: the first entry that is not used.
Slot(pool, max) == CHOOSE i \in Free(pool, max) : \A j \in Free(pool, max) : i <= j

Set(pool, i, e) == [j \in DOMAIN pool \cup {i} |-> IF j = i THEN e ELSE pool[j]]
Without(pool, is) == [j \in DOMAIN pool \ is |-> pool[j]]
Empty == [j \in {} |-> NoRun]

Offers == {0, 1}        \* better is larger
NoOffer == [driver |-> 0, rank |-> 0]

\* What a device holds of a pool.
Of(pool, d) == {i \in DOMAIN pool : pool[i].device = d}

-----------------------------------------------------------------------------
(* load                                                                    *)

\* A module that cannot be loaded: not a driver, not trusted, imports of its
\* own, no slot, no memory, no relocation (its arena goes back).
Refuse ==
    /\ pc = "load" /\ files > 0
    /\ files' = files - 1
    /\ UNCHANGED <<pools, runs, mem, pci, pc, at, tried, best>>

Enter(run) ==
    /\ pc = "load" /\ files > 0
    /\ Free(MODULES, MAX_MODULES) # {}
    /\ run \notin runs
    /\ runs' = runs \cup {run}
    /\ MODULES' = Set(MODULES, Slot(MODULES, MAX_MODULES), [arena |-> run])
    /\ at' = Slot(MODULES, MAX_MODULES)
    /\ pc' = "main" /\ files' = files - 1
    /\ UNCHANGED <<DRIVERS, DEVICES, RESOURCES, DMAS, mem, pci, tried, best>>

MainOk ==
    /\ pc = "main"
    /\ pc' = "load"
    /\ UNCHANGED <<pools, runs, mem, files, pci, at, tried, best>>

\* Its drivers go, then its memory.
MainFails ==
    /\ pc = "main"
    /\ DRIVERS' = Without(DRIVERS, {i \in DOMAIN DRIVERS : DRIVERS[i].module = at})
    /\ MODULES' = Without(MODULES, {at})
    /\ runs' = runs \ {MODULES[at].arena}
    /\ pc' = "load"
    /\ UNCHANGED <<DEVICES, RESOURCES, DMAS, mem, files, pci, at, tried, best>>

-----------------------------------------------------------------------------
(* Services a driver calls; those that fail change nothing.                *)

\* The module whose code runs.
Module ==
    CASE pc = "main"   -> at
      [] pc = "attach" -> DRIVERS[DEVICES[at].driver].module
      [] OTHER         -> 0

\* k_driver_register, also twice with the same descriptor.
DriverRegister(desc) ==
    /\ pc = "main" /\ Free(DRIVERS, MAX_DRIVERS) # {}
    /\ DRIVERS' = Set(DRIVERS, Slot(DRIVERS, MAX_DRIVERS), [module |-> Module, desc |-> desc])
    /\ UNCHANGED <<MODULES, DEVICES, RESOURCES, DMAS, runs, mem, files, pci, pc, at, tried, best>>

\* EBUSY: a device names the driver, or is only being probed and so names
\* the first one.
InUse(i) == \E d \in DOMAIN DEVICES : DEVICES[d].driver = i

\* k_driver_unregister: the first entry with the module and the descriptor.
DriverUnregister(desc) ==
    /\ pc \in {"main", "attach"}
    /\ \E i \in DOMAIN DRIVERS :
        /\ DRIVERS[i] = [module |-> Module, desc |-> desc]
        /\ \A j \in DOMAIN DRIVERS : j < i => DRIVERS[j] # DRIVERS[i]
        /\ ~InUse(i)
        /\ DRIVERS' = Without(DRIVERS, {i})
    /\ UNCHANGED <<MODULES, DEVICES, RESOURCES, DMAS, runs, mem, files, pci, pc, at, tried, best>>

\* k_resource_map and k_resource_unmap.
ResourceMap ==
    /\ pc = "attach" /\ Free(RESOURCES, MAX_RESOURCES) # {}
    /\ RESOURCES' = Set(RESOURCES, Slot(RESOURCES, MAX_RESOURCES), [device |-> at])
    /\ UNCHANGED <<MODULES, DRIVERS, DEVICES, DMAS, runs, mem, files, pci, pc, at, tried, best>>

ResourceUnmap(r) ==
    /\ pc = "attach" /\ r \in Of(RESOURCES, at)
    /\ RESOURCES' = Without(RESOURCES, {r})
    /\ UNCHANGED <<MODULES, DRIVERS, DEVICES, DMAS, runs, mem, files, pci, pc, at, tried, best>>

\* k_dma_alloc: an entry first, then its memory.
DmaAlloc(run) ==
    /\ pc = "attach" /\ Free(DMAS, MAX_DMA) # {} /\ run \notin runs
    /\ runs' = runs \cup {run}
    /\ DMAS' = Set(DMAS, Slot(DMAS, MAX_DMA), [device |-> at, run |-> run])
    /\ UNCHANGED <<MODULES, DRIVERS, DEVICES, RESOURCES, mem, files, pci, pc, at, tried, best>>

\* Mutant: the entry goes and its memory stays.
MutDmaFree(d) ==
    /\ pc = "attach" /\ d \in Of(DMAS, at)
    /\ DMAS' = Without(DMAS, {d})
    /\ UNCHANGED <<MODULES, DRIVERS, DEVICES, RESOURCES, runs, mem, files, pci, pc, at, tried, best>>

DmaFree(d) ==
    /\ pc = "attach" /\ d \in Of(DMAS, at)
    /\ runs' = runs \ {DMAS[d].run}
    /\ DMAS' = Without(DMAS, {d})
    /\ UNCHANGED <<MODULES, DRIVERS, DEVICES, RESOURCES, mem, files, pci, pc, at, tried, best>>

\* k_mem_alloc and k_mem_free: no table has these.
MemAlloc(run) ==
    /\ pc \in {"main", "attach"} /\ run \notin runs /\ Cardinality(mem) < MaxMem
    /\ runs' = runs \cup {run} /\ mem' = mem \cup {run}
    /\ UNCHANGED <<pools, files, pci, pc, at, tried, best>>

MemFree(run) ==
    /\ pc \in {"main", "attach"} /\ run \in mem
    /\ runs' = runs \ {run} /\ mem' = mem \ {run}
    /\ UNCHANGED <<pools, files, pci, pc, at, tried, best>>

-----------------------------------------------------------------------------
(* attach_devices, offer, release                                          *)

Loaded ==
    /\ pc = "load" /\ files = 0
    /\ pc' = "scan"
    /\ UNCHANGED <<pools, runs, mem, files, pci, at, tried, best>>

\* attach_devices runs only if a module was loaded.
Offer ==
    /\ pc = "scan" /\ pci > 0 /\ DOMAIN MODULES # {}
    /\ pci' = pci - 1
    /\ IF Free(DEVICES, MAX_DEVICES) = {} THEN UNCHANGED <<DEVICES, pc, at, tried, best>>
       ELSE /\ DEVICES' = Set(DEVICES, Slot(DEVICES, MAX_DEVICES),
                              [driver |-> 1, softc |-> NoRun, attached |-> FALSE])
            /\ at' = Slot(DEVICES, MAX_DEVICES)
            /\ tried' = {} /\ best' = NoOffer /\ pc' = "probe"
    /\ UNCHANGED <<MODULES, DRIVERS, RESOURCES, DMAS, runs, mem, files>>

\* The next driver in the table makes an offer or declines.
Probe ==
    /\ pc = "probe"
    /\ \E i \in DOMAIN DRIVERS \ tried :
        /\ \A j \in DOMAIN DRIVERS \ tried : i <= j
        /\ tried' = tried \cup {i}
        /\ \/ \E r \in Offers :
                best' = IF best = NoOffer \/ r > best.rank THEN [driver |-> i, rank |-> r] ELSE best
           \/ UNCHANGED best
    /\ UNCHANGED <<pools, runs, mem, files, pci, pc, at>>

GiveUp ==
    /\ DEVICES' = Without(DEVICES, {at})
    /\ pc' = "scan"
    /\ UNCHANGED <<MODULES, DRIVERS, RESOURCES, DMAS, runs>>

Bound(softc) ==
    /\ DEVICES' = [DEVICES EXCEPT ![at].driver = best.driver, ![at].softc = softc]
    /\ pc' = "attach"
    /\ UNCHANGED <<MODULES, DRIVERS, RESOURCES, DMAS>>

\* The best offer gets a softc, if it wants one and there is memory.
Choose ==
    /\ pc = "probe" /\ DOMAIN DRIVERS \subseteq tried
    /\ \/ best = NoOffer /\ GiveUp
       \/ /\ best # NoOffer /\ DRIVERS[best.driver].desc \in Softcs
          /\ \/ \E run \in Runs \ runs : Bound(run) /\ runs' = runs \cup {run}
             \/ Runs \subseteq runs /\ GiveUp
       \/ /\ best # NoOffer /\ DRIVERS[best.driver].desc \notin Softcs
          /\ Bound(NoRun) /\ UNCHANGED runs
    /\ UNCHANGED <<mem, files, pci, at, tried, best>>

AttachOk ==
    /\ pc = "attach"
    /\ DEVICES' = [DEVICES EXCEPT ![at].attached = TRUE]
    /\ pc' = "scan"
    /\ UNCHANGED <<MODULES, DRIVERS, RESOURCES, DMAS, runs, mem, files, pci, at, tried, best>>

\* Mutant: the windows stay mapped.
MutAttachFails ==
    /\ pc = "attach"
    /\ DMAS' = Without(DMAS, Of(DMAS, at))
    /\ DEVICES' = Without(DEVICES, {at})
    /\ runs' = runs \ ({DMAS[d].run : d \in Of(DMAS, at)} \cup {DEVICES[at].softc})
    /\ pc' = "scan"
    /\ UNCHANGED <<MODULES, DRIVERS, RESOURCES, mem, files, pci, at, tried, best>>

\* release: windows, DMA memory, softc, and the entry itself.
AttachFails ==
    /\ pc = "attach"
    /\ RESOURCES' = Without(RESOURCES, Of(RESOURCES, at))
    /\ DMAS' = Without(DMAS, Of(DMAS, at))
    /\ DEVICES' = Without(DEVICES, {at})
    /\ runs' = runs \ ({DMAS[d].run : d \in Of(DMAS, at)} \cup {DEVICES[at].softc})
    /\ pc' = "scan"
    /\ UNCHANGED <<MODULES, DRIVERS, mem, files, pci, at, tried, best>>

-----------------------------------------------------------------------------
Init ==
    /\ MODULES = Empty /\ DRIVERS = Empty /\ DEVICES = Empty
    /\ RESOURCES = Empty /\ DMAS = Empty
    /\ runs = {} /\ mem = {}
    /\ files = Files /\ pci = PciDevices
    /\ pc = "load" /\ at = 0 /\ tried = {} /\ best = NoOffer

Service ==
    \/ \E desc \in Descs : DriverRegister(desc) \/ DriverUnregister(desc)
    \/ ResourceMap
    \/ \E r \in DOMAIN RESOURCES : ResourceUnmap(r)
    \/ \E d \in DOMAIN DMAS : DmaFree(d)
    \/ \E run \in Runs : DmaAlloc(run) \/ MemAlloc(run) \/ MemFree(run)

Next ==
    \/ Refuse \/ MainOk \/ MainFails \/ Loaded
    \/ \E run \in Runs : Enter(run)
    \/ Service
    \/ Offer \/ Probe \/ Choose \/ AttachOk \/ AttachFails

Spec == Init /\ [][Next]_vars

-----------------------------------------------------------------------------
(* Properties.                                                             *)

\* Every window and every DMA entry is a device's that is there; every device
\* that has a driver names one that is registered, and every driver the code
\* of a module that is loaded: after any main or attach that failed half-way.
HoldersLive ==
    /\ \A r \in DOMAIN RESOURCES : RESOURCES[r].device \in DOMAIN DEVICES
    /\ \A d \in DOMAIN DMAS : DMAS[d].device \in DOMAIN DEVICES
    /\ \A d \in DOMAIN DEVICES :
            (d = at /\ pc = "probe") \/ DEVICES[d].driver \in DOMAIN DRIVERS
    /\ \A i \in DOMAIN DRIVERS : DRIVERS[i].module \in DOMAIN MODULES

\* Who holds memory: a module its arena, a DMA entry its buffer, a device its
\* softc, a driver what it took with mem_alloc.
Arenas == {[what |-> "arena", entry |-> m, run |-> MODULES[m].arena] : m \in DOMAIN MODULES}
Buffers == {[what |-> "dma", entry |-> d, run |-> DMAS[d].run] : d \in DOMAIN DMAS}
Private == {[what |-> "softc", entry |-> d, run |-> DEVICES[d].softc] :
                d \in {x \in DOMAIN DEVICES : DEVICES[x].softc # NoRun}}
Loose == {[what |-> "mem", entry |-> 0, run |-> r] : r \in mem}
Holdings == Arenas \cup Buffers \cup Private \cup Loose

\* Every run handed out has one holder, and nobody holds a run that went back
\* to the page allocator: none is lost, none has two owners.
RunsOwned ==
    /\ \A r \in runs : \E h \in Holdings : h.run = r
    /\ \A h \in Holdings : h.run \in runs
    /\ \A g, h \in Holdings : g.run = h.run => g = h
=============================================================================
