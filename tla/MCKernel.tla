------------------------------ MODULE MCKernel ------------------------------
(***************************************************************************)
(* Six parts of the kernel that share no state, on small instances: the    *)
(* page allocator (Frames), a protected word (Redundancy), the code before *)
(* a power action (PowerConfirm), the cooldown of the hypervisor probe     *)
(* (Reprobe), the driver framework (Ncdri) and the plugins (Plugins).  A   *)
(* behaviour is one of them; the others stay in their first state.         *)
(***************************************************************************)
EXTENDS Frames, TLC

CONSTANTS
    CodewordLen, MaxFlips,
    Digits, CODE_DIGITS, CONFIRM_WINDOW, LOCKOUT_BASE, LOCKOUT_MAX, MAX_SHIFT, MaxPowerTime,
    Threads, DEFAULT_COOLDOWN, MaxProbeTime, MaxSwitches,
    MAX_MODULES, MAX_DRIVERS, MAX_DEVICES, MAX_RESOURCES, MAX_DMA,
    Runs, Files, PciDevices, Descs, Softcs, MaxMem,
    Caps, MaxArena, HEAP_PAGES

VARIABLES
    part,
    value, replicas, stored,
    screen, clock, pending, misses, locked_until, asked, prompt, keys, streak, due, event,
    now, cooldown, last, cache, latest, at_thread, read, switches, first, paid,
    MODULES, DRIVERS, DEVICES, RESOURCES, DMAS, runs, mem, files, pci, pc, at, tried, best,
    stage, prog, R3_ARENA_LEN, RUNNING_ARENA, GRANTED_CAPS, PLUGIN_CTX, CURRENT, user, readonly,
    HEAP_MAP, flags, STACK_SMASHED, LAST_FAULT, BUSY, served, ended, told

\* The runs of the page allocator are alike to the drivers.
Sym == Permutations(Runs)

\* The parities of the code that fit.
MCParities == {p \in {1, 2, 4, 8} : p <= CodewordLen}

R == INSTANCE Redundancy WITH Parities <- MCParities
P == INSTANCE PowerConfirm WITH MaxTime <- MaxPowerTime, now <- clock, shown <- prompt
H == INSTANCE Reprobe WITH MaxTime <- MaxProbeTime, pc <- at_thread
K == INSTANCE Ncdri
L == INSTANCE Plugins WITH pc <- stage

ASSUME KernelConstants ==
    R!RedundancyConstants /\ P!PowerConstants /\ H!ReprobeConstants /\ K!NcdriConstants

wordVars == <<value, replicas, stored>>
powerVars == <<screen, clock, pending, misses, locked_until, asked, prompt, keys, streak,
               due, event>>
probeVars == <<now, cooldown, last, cache, latest, at_thread, read, switches, first, paid>>
driverVars == <<MODULES, DRIVERS, DEVICES, RESOURCES, DMAS, runs, mem, files, pci, pc, at,
                tried, best>>
pluginVars == <<stage, prog, R3_ARENA_LEN, RUNNING_ARENA, GRANTED_CAPS, PLUGIN_CTX, CURRENT,
                user, readonly, HEAP_MAP, flags, STACK_SMASHED, LAST_FAULT, BUSY, served,
                ended, told>>
all == <<part, vars, wordVars, powerVars, probeVars, driverVars, pluginVars>>

Parts == {"frames", "word", "power", "probe", "drivers", "plugins"}

MCInit ==
    /\ part \in Parts
    /\ Init /\ R!Init /\ P!Init /\ H!Init /\ K!Init /\ L!Init
    /\ part # "word" => stored = {}
    /\ part # "power" => screen = "classic"

FramesStep ==
    /\ part = "frames" /\ Next
    /\ UNCHANGED <<part, wordVars, powerVars, probeVars, driverVars, pluginVars>>

WordStep ==
    /\ part = "word" /\ R!Next
    /\ UNCHANGED <<part, vars, powerVars, probeVars, driverVars, pluginVars>>

PowerStep ==
    /\ part = "power" /\ P!Next
    /\ UNCHANGED <<part, vars, wordVars, probeVars, driverVars, pluginVars>>

ProbeStep ==
    /\ part = "probe" /\ H!Next
    /\ UNCHANGED <<part, vars, wordVars, powerVars, driverVars, pluginVars>>

DriverStep ==
    /\ part = "drivers" /\ K!Next
    /\ UNCHANGED <<part, vars, wordVars, powerVars, probeVars, pluginVars>>

PluginStep ==
    /\ part = "plugins" /\ L!Next
    /\ UNCHANGED <<part, vars, wordVars, powerVars, probeVars, driverVars>>

MCNext == FramesStep \/ WordStep \/ PowerStep \/ ProbeStep \/ DriverStep \/ PluginStep

MCSpec == MCInit /\ [][MCNext]_all

-----------------------------------------------------------------------------
(* The properties, under the names of their modules.                       *)

\* Flips of a protected word are corrected, or repaired, or reported (Redundancy).
FlipsNeverBelieved == part = "word" => R!FlipsNeverBelieved

\* A repair leaves three whole copies (Redundancy).
RepairsWhole == R!RepairsWhole

\* Nothing restarts or powers off but by the code on the screen (PowerConfirm).
OnlyByCode == part = "power" => P!OnlyByCode

\* Wrong codes cost the doubling lockout (PowerConfirm).
GuessesSlow == part = "power" => P!GuessesSlow

\* Detections are one for each cooldown (Reprobe).
ProbesPaced == part = "probe" => H!ProbesPaced

\* What a driver holds is a live device's, driver's or module's (Ncdri).
HoldersLive == part = "drivers" => K!HoldersLive

\* Every run handed out has one owner (Ncdri).
RunsOwned == part = "drivers" => K!RunsOwned

\* Plugins are served within their grants, and nothing of one is left for the
\* next (Plugins).
WithinGrants == part = "plugins" => L!WithinGrants

\* A plugin's end is reported as what it was (Plugins).
ReasonTrue == part = "plugins" => L!ReasonTrue
=============================================================================
