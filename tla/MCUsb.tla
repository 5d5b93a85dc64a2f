-------------------------------- MODULE MCUsb --------------------------------
(***************************************************************************)
(* The two phases of the USB stack on small instances: the scan of the     *)
(* ports with the polling that follows (module Xhci), and the stick from   *)
(* the search for CRASH.DMP to the dump in the panic handler (UsbDump).    *)
(* A behaviour is one of the phases: the stick's rings and buffers are not *)
(* those of the scan, and UsbDump has the one thing they share, the event  *)
(* ring with the completions of the input devices, as a queue.             *)
(*                                                                         *)
(* Two ports, so that a device index is used again after a device was      *)
(* given back, and rings so short that they wrap.                          *)
(***************************************************************************)
EXTENDS Xhci, TLC

CONSTANTS Clusters, Fats, MAX_EXTENTS, DumpLen, Hids, MaxReads, MaxDumpLate, MaxDumpErrors

\* The volume's FAT is one: no cluster follows two, and none leads back to the
\* first.
ASSUME DumpAssumption ==
    /\ RING_LEN > 3
    /\ Clusters \subseteq Nat \ {0}
    /\ {DumpLen, Hids, MaxReads, MaxDumpLate, MaxDumpErrors} \subseteq Nat
    /\ \A f \in Fats :
            /\ f.size \in Nat
            /\ \A c \in Clusters : f.next[c] # f.first
            /\ \A c, d \in Clusters : f.next[c] = f.next[d] /\ f.next[c] \in Clusters => c = d

VARIABLES
    phase,
    fat, disk, dumpPc, cluster, walked, file, stickSlot, work, bot, res,
    MSC_CBW, MSC_DATA, MSC_CSW, ring, hc, halted, stick, events, armed,
    written, outcome, reads, dumpLate, dumpErrors, cut

MCKinds == {"keyboard", "pointer", "stick", "other"}

\* What the two ports have: a device passed over before one that is kept, two
\* input devices, a stick and an input device.
MCPlugged ==
    {<<"other", "keyboard">>, <<"keyboard", "pointer">>, <<"stick", "keyboard">>}

MCClusters == {2, 3, 5}

\* A chain that goes on past the size, one in two fragments or three, and one
\* that is shorter than the size says.
MCFats ==
    {[next |-> (2 :> 3 @@ 3 :> 5 @@ 5 :> 0), first |-> 2, size |-> 2],
     [next |-> (2 :> 5 @@ 5 :> 3 @@ 3 :> 0), first |-> 2, size |-> 2],
     [next |-> (2 :> 0 @@ 5 :> 0 @@ 3 :> 0), first |-> 3, size |-> 2]}

D == INSTANCE UsbDump WITH MaxLate <- MaxDumpLate, MaxErrors <- MaxDumpErrors,
        pc <- dumpPc, msc <- stickSlot, late <- dumpLate, errors <- dumpErrors

dumpVars == <<fat, disk, dumpPc, cluster, walked, file, stickSlot, work, bot, res,
              MSC_CBW, MSC_DATA, MSC_CSW, ring, hc, halted, stick, events, armed,
              written, outcome, reads, dumpLate, dumpErrors, cut>>

all == <<phase, vars, dumpVars>>

\* The phase that does not run is in one of its initial states.
MCInit ==
    /\ Init /\ D!Init
    /\ \/ phase = "scan" /\ kind \in MCPlugged /\ fat.first = 3
       \/ phase = "dump" /\ kind = <<"stick", "keyboard">>

Idle == UNCHANGED phase /\ IF phase = "scan" THEN UNCHANGED dumpVars ELSE UNCHANGED vars

ScanStep == phase = "scan" /\ Next /\ Idle
DumpStep == phase = "dump" /\ D!Next /\ Idle

MCNext == ScanStep \/ DumpStep

\* The fairness of Xhci and of UsbDump, each for its phase.
MCFairSpec ==
    /\ MCInit /\ [][MCNext]_all
    /\ WF_all(phase = "scan" /\ Driver /\ Idle)
    /\ WF_all(phase = "scan" /\ Controller /\ Idle)
    /\ WF_all(phase = "dump" /\ D!Driver /\ Idle)
    /\ WF_all(phase = "dump" /\ (D!StickOut \/ D!StickIn) /\ Idle)

DumpSpec == MCInit /\ phase = "dump" /\ [][MCNext]_all

-----------------------------------------------------------------------------
(* The properties, under the names of their modules.                       *)

\* A block read from the stick is the one asked for, and a dump reported as
\* written is in the file (UsbDump).
DumpTrue == D!DumpTrue

\* Only blocks of CRASH.DMP are written (UsbDump).
OnlyCrashFile == D!OnlyCrashFile

\* Every wait of the driver ends: the scan of the ports does (Xhci), and so
\* does the panic handler (UsbDump).
WaitsEnd == (phase = "scan" => BringUpEnds) /\ D!DumpEnds

\* A dump that fits is written, unless the stick fails, answers late or was
\* in the middle of a command (UsbDump).
DumpLands == D!DumpLands
=============================================================================
