------------------------------ MODULE UsbDump ------------------------------
(***************************************************************************)
(* A USB stick as the kernel uses it: CRASH.DMP resolved to its blocks at  *)
(* boot (usb_storage.rs), an app read from it, and the crash dump written  *)
(* into those blocks by the panic handler (crashdump.rs), all over the     *)
(* bulk-only transport of xhci.rs: a command, a data stage and a status,   *)
(* each waited for on the event ring that keyboards and pointers use too.  *)
(*                                                                         *)
(* Three buffers and two rings are shared by every command.  A command     *)
(* works on a copy of the stick's slot, so that one cut short by a fault   *)
(* leaves the slot as it was: the dump then uses its tag and its places    *)
(* on the rings again.                                                     *)
(*                                                                         *)
(* A cluster is one block.  The event ring is a queue (module Xhci checks  *)
(* that it is one); events that are no transfers are left out.             *)
(***************************************************************************)
EXTENDS Rings, Sequences, SequencesExt

CONSTANTS
    Clusters,       \* the data clusters of the volume, numbers
    Fats,           \* bound: [next, first, size] of CRASH.DMP, size in blocks
    MAX_EXTENTS,
    DumpLen,        \* the length of the dump in blocks
    Hids,           \* keyboards and pointers that are polled
    MaxReads,       \* bound: blocks of the app read
    MaxLate,        \* bound: waits that give up before the answer comes
    MaxErrors       \* bound: commands the stick fails

VARIABLES
    fat,            \* what the FAT says of CRASH.DMP
    disk,           \* the blocks of the data clusters
    pc,
    cluster, walked,\* extents_of: the cluster at hand, how many were taken
    file,           \* CrashFile: the blocks in order; empty: not found
    msc,            \* the stick's slot: both cursors and the tag
    work,           \* the copy a command works on
    bot,            \* the command in flight: [op, block, stage], or Idle
    res,            \* what it came to: "none", "ok", "failed"
    MSC_CBW, MSC_DATA, MSC_CSW,
    ring,           \* MSC_IN_RING and MSC_OUT_RING
    hc,             \* where the controller stands on them
    halted,         \* the endpoints that stalled
    stick,          \* the stick: [phase, cmd, good]
    events,         \* the event ring: completions not yet taken
    armed,          \* keyboard and pointer reads outstanding
    written,        \* blocks of the dump written
    outcome,        \* what write_to_usb returned: "none", "written", "failed"
    reads, late, errors,
    cut             \* a command was cut short by the panic (history)

boot == <<cluster, walked, file>>
transport == <<msc, work, bot, MSC_CBW, ring>>
device == <<disk, MSC_CSW, hc, halted, stick>>
crash == <<written, outcome, cut>>
bounds == <<reads, late, errors>>
vars == <<fat, disk, pc, cluster, walked, file, msc, work, bot, res, MSC_CBW,
          MSC_DATA, MSC_CSW, ring, hc, halted, stick, events, armed, written,
          outcome, reads, late, errors, cut>>

None == "none"
Idle == [op |-> None, block |-> 0, stage |-> None]   \* no command in flight
FatBlock == 0       \* the block the FAT is in; data clusters are not 0
Dump(i) == <<"dump", i>>

\* The clusters of CRASH.DMP: from the first on, as long as the chain and the
\* size go.
Linked(s, i) == IF i = 1 THEN fat.first ELSE fat.next[s[i - 1]]

Chain ==
    CHOOSE s \in BoundedSeq(Clusters, fat.size) :
        /\ \A i \in 1..Len(s) : s[i] = Linked(s, i)
        /\ Len(s) = fat.size \/ Linked(s, Len(s) + 1) \notin Clusters

-----------------------------------------------------------------------------
(* The transport: bulk, bot, read_block, write_block.                      *)

\* bulk: an entry on the ring of one direction, and the doorbell.
Enqueue(w, dir, buffer) ==
    /\ ring' = [ring EXCEPT ![dir] = Put(@, w[dir], buffer, 0, 0)]
    /\ work' = [w EXCEPT ![dir] = Advance(@)]

\* Mutant: the tag stays the same from one command to the next.
MutBegin(op, block) ==
    /\ bot = Idle /\ res = None
    /\ bot' = [op |-> op, block |-> block, stage |-> "cbw"]
    /\ MSC_CBW' = [tag |-> msc.tag, op |-> op, block |-> block]
    /\ Enqueue(msc, "out", "cbw")

\* bot begins: a new tag, the command block, the command out.
Begin(op, block) ==
    /\ bot = Idle /\ res = None
    /\ bot' = [op |-> op, block |-> block, stage |-> "cbw"]
    /\ LET w == [msc EXCEPT !.tag = @ + 1]
       IN  /\ MSC_CBW' = [tag |-> w.tag, op |-> op, block |-> block]
           /\ Enqueue(w, "out", "cbw")

\* The end of bot; the slot takes over what the copy has come to.
End(ok) ==
    /\ msc' = work
    /\ bot' = Idle
    /\ res' = IF ok THEN "ok" ELSE "failed"
    /\ UNCHANGED <<work, ring>>

CswGood == MSC_CSW.tag = work.tag /\ MSC_CSW.good

\* wait_event: the first transfer event is the answer.
Answer ==
    /\ bot # Idle /\ events # <<>>
    /\ events' = Tail(events)
    /\ \/ /\ Head(events).ok /\ bot.stage = "cbw"
          /\ bot' = [bot EXCEPT !.stage = "data"]
          /\ Enqueue(work, IF bot.op = "read" THEN "in" ELSE "out", "data")
          /\ UNCHANGED <<msc, res>>
       \/ /\ Head(events).ok /\ bot.stage = "data"
          /\ bot' = [bot EXCEPT !.stage = "csw"]
          /\ Enqueue(work, "in", "csw")
          /\ UNCHANGED <<msc, res>>
       \/ /\ Head(events).ok /\ bot.stage = "csw"
          /\ End(CswGood)
       \/ /\ ~Head(events).ok
          /\ End(FALSE)
    /\ UNCHANGED <<fat, pc, boot, MSC_CBW, MSC_DATA, device, armed, crash, bounds>>

\* The stick has something to take or to send.
OutReady == "out" \notin halted /\ stick.phase \in {"cbw", "out"} /\ Ready(ring["out"], hc["out"])
InReady == "in" \notin halted /\ stick.phase \in {"in", "csw"} /\ Ready(ring["in"], hc["in"])

\* The spin ends: no answer will come, or it has not come yet.
GiveUp ==
    /\ bot # Idle /\ events = <<>>
    /\ IF OutReady \/ InReady THEN late < MaxLate /\ late' = late + 1 ELSE UNCHANGED late
    /\ End(FALSE)
    /\ UNCHANGED <<fat, pc, boot, MSC_CBW, MSC_DATA, device, events, armed, crash, reads, errors>>

-----------------------------------------------------------------------------
(* The controller and the stick.                                           *)

Completed(dir, ok) ==
    /\ hc' = [hc EXCEPT ![dir] = Past(ring[dir], @)]
    /\ events' = Append(events, [ok |-> ok])
    /\ halted' = IF ok THEN halted ELSE halted \cup {dir}

\* Something goes out: a command, or the block to write.  What is not what
\* the stick expects stalls it.
StickOut ==
    /\ OutReady
    /\ LET buffer == Entry(ring["out"], hc["out"]).what
       IN
       \/ /\ stick.phase = "cbw" /\ buffer = "cbw"
          /\ Completed("out", TRUE)
          /\ stick' = [phase |-> IF MSC_CBW.op = "read" THEN "in" ELSE "out",
                       cmd |-> MSC_CBW, good |-> TRUE]
          /\ UNCHANGED <<disk, errors>>
       \/ /\ stick.phase = "out" /\ buffer = "data"
          /\ Completed("out", TRUE)
          /\ \/ /\ disk' = [disk EXCEPT ![stick.cmd.block] = MSC_DATA]
                /\ stick' = [stick EXCEPT !.phase = "csw"]
                /\ UNCHANGED errors
             \/ /\ errors < MaxErrors /\ errors' = errors + 1
                /\ stick' = [stick EXCEPT !.phase = "csw", !.good = FALSE]
                /\ UNCHANGED disk
       \/ /\ <<stick.phase, buffer>> \notin {<<"cbw", "cbw">>, <<"out", "data">>}
          /\ Completed("out", FALSE)
          /\ UNCHANGED <<stick, disk, errors>>
    /\ UNCHANGED <<fat, pc, boot, transport, res, MSC_DATA, MSC_CSW, armed, crash, reads, late>>

\* Something comes in: the block read, or the status.  A block does not fit
\* in the status buffer; a status in the block buffer is a short packet.
StickIn ==
    /\ InReady
    /\ LET buffer == Entry(ring["in"], hc["in"]).what
           csw == [tag |-> stick.cmd.tag, good |-> stick.good]
       IN
       \/ /\ stick.phase = "in" /\ buffer = "data"
          /\ Completed("in", TRUE)
          /\ \/ /\ MSC_DATA' = IF stick.cmd.block = FatBlock THEN <<"fat", 0>>
                               ELSE disk[stick.cmd.block]
                /\ stick' = [stick EXCEPT !.phase = "csw"]
                /\ UNCHANGED errors
             \/ /\ errors < MaxErrors /\ errors' = errors + 1
                /\ stick' = [stick EXCEPT !.phase = "csw", !.good = FALSE]
                /\ UNCHANGED MSC_DATA
          /\ UNCHANGED MSC_CSW
       \/ /\ stick.phase = "in" /\ buffer = "csw"
          /\ Completed("in", FALSE)
          /\ UNCHANGED <<stick, MSC_DATA, MSC_CSW, errors>>
       \/ /\ stick.phase = "csw"
          /\ Completed("in", TRUE)
          /\ stick' = [stick EXCEPT !.phase = "cbw"]
          /\ IF buffer = "csw" THEN MSC_CSW' = csw /\ UNCHANGED MSC_DATA
                               ELSE MSC_DATA' = <<"csw", 0>> /\ UNCHANGED MSC_CSW
          /\ UNCHANGED errors
    /\ UNCHANGED <<fat, disk, pc, boot, transport, res, armed, crash, reads, late>>

\* A key is pressed or the pointer moves while its read is outstanding.
HidReport ==
    /\ armed > 0
    /\ armed' = armed - 1
    /\ events' = Append(events, [ok |-> TRUE])
    /\ UNCHANGED <<fat, pc, boot, transport, res, MSC_DATA, device, crash, bounds>>

-----------------------------------------------------------------------------
(* Boot: find_crash_file.                                                  *)

\* extents_of goes on: the cluster is taken and the next one looked up.
Fragments(blocks) ==
    Len(SelectSeq([i \in 1..Len(blocks) |-> i = 1 \/ blocks[i] # blocks[i - 1] + 1],
                  LAMBDA new : new))

Resolved ==
    /\ pc' = "load"
    /\ UNCHANGED <<transport, cluster, walked>>

WalkOn == walked < fat.size /\ cluster \in Clusters

Walk ==
    /\ pc = "resolve" /\ bot = Idle /\ res = None
    /\ LET taken == Append(file, cluster)
       IN
       \/ /\ WalkOn /\ Fragments(taken) <= MAX_EXTENTS
          /\ file' = taken /\ walked' = walked + 1
          /\ Begin("read", FatBlock)
          /\ UNCHANGED <<pc, cluster, msc>>
       \/ /\ WalkOn /\ Fragments(taken) > MAX_EXTENTS
          /\ file' = <<>>
          /\ Resolved
       \/ /\ ~WalkOn
          /\ file' = file
          /\ Resolved
    /\ UNCHANGED <<fat, res, MSC_DATA, device, events, armed, crash, bounds>>

\* The entry of the sector read; one that is not the FAT may say anything.
EntriesRead == IF MSC_DATA = <<"fat", 0>> THEN {fat.next[cluster]} ELSE Clusters \cup {0}

\* Mutant: what is in the buffer is used whether the read went well or not.
MutWalked ==
    /\ pc = "resolve" /\ bot = Idle /\ res # None
    /\ res' = None
    /\ cluster' \in EntriesRead
    /\ UNCHANGED <<fat, pc, file, walked, transport, MSC_DATA, device, events, armed, crash, bounds>>

\* next_cluster.
Walked ==
    /\ pc = "resolve" /\ bot = Idle /\ res # None
    /\ res' = None
    /\ IF res = "ok"
         THEN /\ cluster' \in EntriesRead
              /\ UNCHANGED <<file, pc>>
         ELSE /\ file' = <<>> /\ pc' = "load" /\ UNCHANGED cluster
    /\ UNCHANGED <<fat, walked, transport, MSC_DATA, device, events, armed, crash, bounds>>

-----------------------------------------------------------------------------
(* The app is read, then the screen's loop polls the input devices.        *)

ReadBlock(c) ==
    /\ pc = "load" /\ reads < MaxReads
    /\ reads' = reads + 1
    /\ Begin("read", c)
    /\ UNCHANGED <<fat, pc, boot, msc, res, MSC_DATA, device, events, armed, crash, late, errors>>

\* A block read is used, and the next one follows; a failed one ends the load.
BlockRead ==
    /\ pc = "load" /\ bot = Idle /\ res # None
    /\ res' = None
    /\ pc' = IF res = "ok" THEN "load" ELSE "loop"
    /\ UNCHANGED <<fat, boot, transport, MSC_DATA, device, events, armed, crash, bounds>>

Loaded ==
    /\ pc = "load" /\ bot = Idle /\ res = None
    /\ pc' = "loop"
    /\ UNCHANGED <<fat, boot, transport, res, MSC_DATA, device, events, armed, crash, bounds>>

\* poll_report: the events are drained, every device has a read queued again.
Poll ==
    /\ pc = "loop" /\ (events # <<>> \/ armed < Hids)
    /\ events' = <<>> /\ armed' = Hids
    /\ UNCHANGED <<fat, pc, boot, transport, res, MSC_DATA, device, crash, bounds>>

-----------------------------------------------------------------------------
(* The panic handler.                                                      *)

\* A fault or a failed assertion, anywhere once the sink is installed.
Panic ==
    /\ pc \in {"load", "loop"}
    /\ pc' = "panic"
    /\ bot' = Idle /\ res' = None
    /\ cut' = (bot # Idle)
    /\ UNCHANGED <<fat, boot, msc, work, MSC_CBW, ring, MSC_DATA, device, events, armed, written,
                   outcome, bounds>>

\* What the file's size and its blocks leave room for.
Room == IF fat.size < Len(file) THEN fat.size ELSE Len(file)

Finish(o) == pc' = "done" /\ outcome' = o

\* write_to_usb goes on: no sink, a dump too large, the last block, the next.
WriteBlock ==
    /\ pc = "panic" /\ bot = Idle /\ res = None
    /\ \/ /\ file = <<>> \/ DumpLen > Room
          /\ Finish("failed")
          /\ UNCHANGED <<transport, MSC_DATA>>
       \/ /\ file # <<>> /\ DumpLen <= Room
          /\ written >= DumpLen \/ written >= Len(file)
          /\ Finish("written")
          /\ UNCHANGED <<transport, MSC_DATA>>
       \/ /\ file # <<>> /\ DumpLen <= Room /\ written < DumpLen /\ written < Len(file)
          /\ MSC_DATA' = Dump(written + 1)
          /\ Begin("write", file[written + 1])
          /\ UNCHANGED <<pc, outcome, msc>>
    /\ UNCHANGED <<fat, boot, res, device, events, armed, written, cut, bounds>>

BlockWritten ==
    /\ pc = "panic" /\ bot = Idle /\ res # None
    /\ res' = None
    /\ \/ /\ res = "ok" /\ written' = written + 1 /\ UNCHANGED <<pc, outcome>>
       \/ /\ res = "failed" /\ Finish("failed") /\ UNCHANGED written
    /\ UNCHANGED <<fat, boot, transport, MSC_DATA, device, events, armed, cut, bounds>>

-----------------------------------------------------------------------------
Init ==
    /\ fat \in Fats
    /\ disk = [c \in Clusters |-> <<"old", c>>]
    /\ pc = "resolve" /\ cluster = fat.first /\ walked = 0 /\ file = <<>>
    /\ msc = [in |-> Start, out |-> Start, tag |-> 0] /\ work = msc
    /\ bot = Idle /\ res = None
    /\ MSC_CBW = [tag |-> 0, op |-> "read", block |-> 0]
    /\ MSC_DATA = <<"zero", 0>> /\ MSC_CSW = [tag |-> 0, good |-> FALSE]
    /\ ring = [d \in {"in", "out"} |-> [i \in Entries |-> Blank]]
    /\ hc = [d \in {"in", "out"} |-> Start]
    /\ halted = {} /\ stick = [phase |-> "cbw", cmd |-> MSC_CBW, good |-> TRUE]
    /\ events = <<>> /\ armed = 0
    /\ written = 0 /\ outcome = None
    /\ reads = 0 /\ late = 0 /\ errors = 0 /\ cut = FALSE

Driver ==
    \/ Answer \/ GiveUp \/ Walk \/ Walked \/ BlockRead \/ Loaded
    \/ WriteBlock \/ BlockWritten

Next ==
    \/ Driver \/ Poll \/ Panic
    \/ StickOut \/ StickIn \/ HidReport
    \/ \E c \in Clusters : ReadBlock(c)

Spec == Init /\ [][Next]_vars

\* Every wait is a bounded spin, so the driver always goes on; an answer that
\* can come is given.
FairSpec == Spec /\ WF_vars(Driver) /\ WF_vars(StickOut \/ StickIn)

-----------------------------------------------------------------------------
(* Properties.                                                             *)

\* A block that read_block hands over is the block asked for, however far the
\* waits are out of step: the tag in the status sees to it.  CRASH.DMP is
\* resolved to its own clusters, in order, or not at all; and a dump reported
\* as written is in the file, whole and in order: after time-outs, behind
\* reads left in flight by the fault, with the completions of keys and
\* pointers in between.
DumpTrue ==
    /\ res = "ok" /\ pc = "load" => MSC_DATA = disk[MSC_CBW.block]
    /\ pc # "resolve" /\ file # <<>> => file = Chain
    /\ outcome = "written" =>
            \A i \in 1..DumpLen : i <= Len(Chain) /\ disk[Chain[i]] = Dump(i)

\* Only blocks of CRASH.DMP are ever written.
OnlyCrashFile ==
    [][\A c \in Clusters : disk'[c] # disk[c] => \E i \in 1..Len(Chain) : Chain[i] = c]_vars

\* The panic handler comes to its end: it is waiting for nobody.
DumpEnds == pc = "panic" ~> pc = "done"

\* A dump that fits is written, unless the stick fails, answers late or was
\* in the middle of a command.
DumpLands ==
    pc = "done" /\ late = 0 /\ errors = 0 /\ ~cut /\ DumpLen <= Len(Chain) => outcome = "written"
=============================================================================
