-------------------------------- MODULE Xhci --------------------------------
(***************************************************************************)
(* The USB host controller driver of the kernel, xhci.rs: the command,     *)
(* event and transfer rings with their cycle bits, the enumeration of the  *)
(* ports at boot (UsbInput::bring_up), and the polling of keyboards and    *)
(* pointers afterwards.                                                    *)
(*                                                                         *)
(* The controller is the other party: it takes what is on a ring from      *)
(* where it stands as long as the cycle bit matches, when it likes, and    *)
(* posts events.  Every wait of the driver is a bounded spin, so it may    *)
(* give up on an answer that comes later (GiveUp).                         *)
(*                                                                         *)
(* A control transfer is one entry of a ring (two or three blocks in the   *)
(* code).  The bulk transfers of a stick are in UsbDump; here bringing its *)
(* unit up succeeds or fails.                                              *)
(***************************************************************************)
EXTENDS Rings, FiniteSets

CONSTANTS
    Ports,      \* how many root ports have something plugged in
    Kinds,      \* what may be plugged in: of "keyboard", "pointer", "stick", "other"
    MAX_SLOTS,  \* slots the controller is asked for
    MAX_DEVICES,\* devices the driver keeps
    MaxLate,    \* waits that give up before the answer comes
    MaxErrors,  \* requests the controller or the device refuses
    MaxReports  \* reports the input devices send

ASSUME XhciAssumption ==
    /\ {Ports, RING_LEN, MAX_SLOTS, MAX_DEVICES} \subseteq Nat \ {0}
    /\ RING_LEN > 1
    /\ {MaxLate, MaxErrors, MaxReports} \subseteq Nat
    /\ Kinds \subseteq {"keyboard", "pointer", "stick", "other"}

VARIABLES
    kind,       \* what is plugged into each port
    cmdRing,    \* COMMAND_RING
    cmd,        \* command_index and command_cycle
    hcCmd,      \* where the controller stands on it, and its cycle state
    evRing,     \* EVENT_RING
    ev,         \* event_index and event_cycle; the dequeue pointer is the index
    hcEv,       \* where the controller writes the next event
    rings,      \* TRANSFER_RINGS, one for each device index
    devices,    \* the table of addressed devices
    device_count,
    dcbaa,      \* the device index whose context a slot has, or none
    input,      \* INPUT_CONTEXT: what the next command will make of a slot
    slots,      \* the controller's slots and their endpoints
    buffers,    \* BUFFERS: what was last written to a device's buffer
    keyboard, pointer, msc, \* the devices kept, by use
    pc, at,     \* the driver: where it is, and the port, step and device
    late, errors, reports,
    issued, ran,\* commands issued, and the last one the controller carried out
    posted, seen\* events posted, and the last one the driver took

driverVars == <<keyboard, pointer, msc, pc, at>>
cmdVars == <<cmdRing, cmd, issued>>
evVars == <<ev, seen>>
hcVars == <<hcCmd, evRing, hcEv, slots, ran, posted>>
bounds == <<late, errors, reports>>
vars == <<kind, cmdRing, cmd, hcCmd, evRing, ev, hcEv, rings, devices,
          device_count, dcbaa, input, slots, buffers, keyboard, pointer, msc,
          pc, at, late, errors, reports, issued, ran, posted, seen>>

Slots == 1..MAX_SLOTS
Indices == 0..MAX_DEVICES - 1
None == MAX_DEVICES     \* no device index
NoSlot == 0

FreshDevice == [slot |-> NoSlot, endpoint |-> FALSE, ring |-> Start,
                queued |-> FALSE, ready |-> FALSE]
FreeSlot == [port |-> 0, ep0 |-> Start, intr |-> Start, dev |-> None,
             state |-> "free", rung |-> {}, halted |-> {}]

CommandSteps == {"enable", "address", "endpoint", "bulk", "disable"}
ControlSteps == {"device", "config", "setconf", "setproto", "mscconf"}

-----------------------------------------------------------------------------
(* Endpoints and the event ring.                                           *)

\* A doorbell wakes an endpoint that is configured and has something to do...
Ring(t, ep, ring) ==
    IF t.state \in (IF ep = "ep0" THEN {"addressed", "hid", "stick"} ELSE {"hid"}) /\ Ready(ring, t[ep])
      THEN [t EXCEPT !.rung = @ \cup {ep}] ELSE t

\* ...and the endpoint goes on until its ring has nothing more for it.
Taken(t, ep, ring) ==
    LET c == Past(ring, t[ep])
    IN  [t EXCEPT ![ep] = c, !.rung = IF Ready(ring, c) THEN @ ELSE @ \ {ep}]

Halted(t, ep) == [t EXCEPT !.halted = @ \cup {ep}, !.rung = @ \ {ep}]

\* The event ring has no link: after its last entry the bit flips.
NextEntry(c) ==
    IF c.index + 1 >= RING_LEN THEN [index |-> 0, cycle |-> 1 - c.cycle]
                               ELSE Next1(c)

-----------------------------------------------------------------------------
(* The controller.                                                         *)

\* There is a place for an event that the driver has been told of.
Room == NextEntry(hcEv).index # ev.index

Post(k, ok, slot) ==
    /\ Room
    /\ evRing' = [evRing EXCEPT ![hcEv.index] =
            [what |-> k, ok |-> ok, slot |-> slot, n |-> posted + 1, cycle |-> hcEv.cycle]]
    /\ hcEv' = NextEntry(hcEv)
    /\ posted' = posted + 1

\* What a command does to the slots; the new slot and endpoint are described
\* by the input context as it is now.
Refused(trb) ==
    CASE trb.what = "enable"  -> \A s \in Slots : slots[s].state # "free"
      [] trb.what = "address" ->
            \/ slots[trb.slot].state # "enabled"
            \/ \E s \in Slots : slots[s].state \notin {"free", "enabled"} /\ slots[s].port = input.port
      [] trb.what \in {"endpoint", "bulk"} -> slots[trb.slot].state # "addressed"
      [] OTHER -> slots[trb.slot].state = "free"

Effect(trb, s) ==
    CASE trb.what = "enable"  -> [slots EXCEPT ![s] = [FreeSlot EXCEPT !.state = "enabled"]]
      [] trb.what = "address" ->
            [slots EXCEPT ![s] = [@ EXCEPT !.state = "addressed", !.port = input.port,
                                           !.dev = input.dev, !.ep0 = Start]]
      [] trb.what = "endpoint" -> [slots EXCEPT ![s].state = "hid", ![s].intr = Start]
      [] trb.what = "bulk"     -> [slots EXCEPT ![s].state = "stick"]
      [] OTHER                 -> [slots EXCEPT ![s] = FreeSlot]

CommandReady == Ready(cmdRing, hcCmd)

Command ==
    /\ CommandReady
    /\ LET trb == Entry(cmdRing, hcCmd)
       IN  /\ ran' = trb.n
           /\ hcCmd' = Past(cmdRing, hcCmd)
           /\ \/ /\ ~Refused(trb)
                 /\ \E s \in IF trb.what = "enable"
                                THEN {x \in Slots : slots[x].state = "free"}
                                ELSE {trb.slot} :
                        /\ slots' = Effect(trb, s)
                        /\ Post("command", TRUE, s)
                 /\ UNCHANGED errors
              \/ /\ IF Refused(trb) THEN UNCHANGED errors
                    ELSE errors < MaxErrors /\ trb.what # "disable" /\ errors' = errors + 1
                 /\ Post("command", FALSE, trb.slot)
                 /\ UNCHANGED slots
    /\ UNCHANGED <<kind, cmdVars, evVars, rings, devices, device_count, dcbaa,
                   input, buffers, driverVars, late, reports>>

\* The control endpoint of a slot: a request is answered, or stalls the
\* endpoint, as does an entry that is no request.
ControlReady(s) ==
    /\ "ep0" \in slots[s].rung \ slots[s].halted
    /\ Ready(rings[slots[s].dev], slots[s].ep0)

Control(s) ==
    /\ ControlReady(s)
    /\ LET d == slots[s].dev
           trb == Entry(rings[d], slots[s].ep0)
           t == Taken(slots[s], "ep0", rings[d])
       IN  \/ /\ trb.what \in ControlSteps
              /\ slots' = [slots EXCEPT ![s] = t]
              /\ buffers' = IF trb.what \in {"device", "config"}
                              THEN [buffers EXCEPT ![d] = <<trb.what, slots[s].port>>]
                              ELSE buffers
              /\ Post("transfer", TRUE, s)
              /\ UNCHANGED errors
           \/ /\ IF trb.what \in ControlSteps
                    THEN errors < MaxErrors /\ errors' = errors + 1 ELSE UNCHANGED errors
              /\ slots' = [slots EXCEPT ![s] = Halted(t, "ep0")]
              /\ Post("transfer", FALSE, s)
              /\ UNCHANGED buffers
    /\ UNCHANGED <<kind, cmdVars, hcCmd, evVars, ran, rings, devices, device_count,
                   dcbaa, input, driverVars, late, reports>>

\* The interrupt endpoint: a read completes when the device has a report, or
\* fails, which halts the endpoint.  An entry that is no read (the ring is
\* also the control endpoint's) is refused or passes for a read.
Interrupt(s) ==
    /\ "intr" \in slots[s].rung \ slots[s].halted
    /\ Ready(rings[slots[s].dev], slots[s].intr)
    /\ reports < MaxReports /\ reports' = reports + 1
    /\ LET d == slots[s].dev
           t == Taken(slots[s], "intr", rings[d])
       IN  \/ /\ slots' = [slots EXCEPT ![s] = t]
              /\ buffers' = [buffers EXCEPT ![d] = <<"report", slots[s].port>>]
              /\ Post("transfer", TRUE, s)
           \/ /\ slots' = [slots EXCEPT ![s] = Halted(t, "intr")]
              /\ Post("transfer", FALSE, s)
              /\ UNCHANGED buffers
    /\ UNCHANGED <<kind, cmdVars, hcCmd, evVars, ran, rings, devices, device_count,
                   dcbaa, input, driverVars, late, errors>>

-----------------------------------------------------------------------------
(* The driver: rings.                                                      *)

Idx == at.dev

\* next_event: an entry is new if its cycle bit matches.
HasEvent == evRing[ev.index].cycle = ev.cycle

Event == evRing[ev.index]

ConsumeEvent ==
    /\ ev' = NextEntry(ev)
    /\ seen' = Event.n

\* command: the entry, the doorbell; the wait follows.
IssueCommand(step, slot) ==
    /\ cmdRing' = Put(cmdRing, cmd, step, slot, issued + 1)
    /\ cmd' = Advance(cmd)
    /\ issued' = issued + 1
    /\ pc' = "wait_command"

\* Mutant: the endpoint is not told.
MutEnqueue(d, what, ep) ==
    LET r == devices[d]
    IN  /\ rings' = [rings EXCEPT ![d] = Put(@, r.ring, what, r.slot, 0)]
        /\ devices' = [devices EXCEPT ![d].ring = Advance(@),
                                      ![d].queued = (ep = "intr"), ![d].ready = FALSE]
        /\ slots' = IF ep = "intr" THEN slots ELSE [slots EXCEPT ![r.slot] = Ring(@, ep, rings'[d])]

\* transfer and ring_doorbell: one entry on the ring of a device, and the
\* endpoint is told.
Enqueue(d, what, ep) ==
    LET r == devices[d]
    IN  /\ rings' = [rings EXCEPT ![d] = Put(@, r.ring, what, r.slot, 0)]
        /\ devices' = [devices EXCEPT ![d].ring = Advance(@),
                                      ![d].queued = (ep = "intr"), ![d].ready = FALSE]
        /\ slots' = [slots EXCEPT ![r.slot] = Ring(@, ep, rings'[d])]

-----------------------------------------------------------------------------
(* The driver: enumeration.                                                *)

Want(k) ==
    CASE k = "keyboard" -> keyboard = None
      [] k = "pointer"  -> pointer = None
      [] k = "stick"    -> ~msc
      [] OTHER          -> FALSE

\* bring_up: the next port, as long as something is wanted; a port that does
\* not come out of its reset is passed over.  Then enumerate_port begins, if
\* the table has room.
NextPort ==
    /\ pc = "ports" /\ at.port < Ports
    /\ \E k \in {"keyboard", "pointer", "stick"} : Want(k)
    /\ at' = [port |-> at.port + 1, step |-> "enable", dev |-> device_count]
    /\ \/ /\ device_count < MAX_DEVICES
          /\ IssueCommand("enable", NoSlot)
          /\ UNCHANGED errors
       \/ /\ device_count >= MAX_DEVICES
          /\ UNCHANGED <<cmdVars, pc, errors>>
       \/ /\ errors < MaxErrors /\ errors' = errors + 1
          /\ UNCHANGED <<cmdVars, pc>>
    /\ UNCHANGED <<kind, evVars, hcVars, rings, devices, device_count, dcbaa, input,
                   buffers, keyboard, pointer, msc, late, reports>>

BringUpDone ==
    /\ pc = "ports"
    /\ at.port = Ports \/ \A k \in {"keyboard", "pointer", "stick"} : ~Want(k)
    /\ pc' = "poll"
    /\ UNCHANGED <<kind, cmdVars, evVars, hcVars, rings, devices, device_count, dcbaa,
                   input, buffers, keyboard, pointer, msc, at, bounds>>

\* Each step writes what it needs and starts its command or its transfer.
Issue ==
    /\ pc = "step"
    /\ LET slot == devices[Idx].slot
       IN
       \/ /\ at.step \in {"address", "endpoint", "bulk"}
          /\ dcbaa' = IF at.step = "address" THEN [dcbaa EXCEPT ![slot] = Idx] ELSE dcbaa
          /\ input' = [port |-> at.port, dev |-> Idx]
          /\ IssueCommand(at.step, slot)
          /\ UNCHANGED <<rings, devices, slots, buffers>>
       \/ /\ at.step = "disable"
          /\ IssueCommand(at.step, slot)
          /\ UNCHANGED <<rings, devices, slots, buffers, dcbaa, input>>
       \/ /\ at.step \in ControlSteps
          /\ buffers' = IF at.step \in {"device", "config"}
                          THEN [buffers EXCEPT ![Idx] = <<"zero", 0>>]
                          ELSE buffers
          /\ Enqueue(Idx, at.step, "ep0")
          /\ pc' = "wait_transfer"
          /\ UNCHANGED <<cmdVars, dcbaa, input>>
    /\ UNCHANGED <<kind, evVars, hcCmd, evRing, hcEv, ran, posted, device_count, keyboard,
                   pointer, msc, at, bounds>>

\* parse_configuration and parse_mass_storage on what is in the buffer.
Parsed(d) == IF buffers[d][1] = "config" THEN kind[buffers[d][2]] ELSE "other"

\* Mutant: a device nobody wants is left as it is.
MutFollows(ok) ==
    CASE at.step = "enable"   -> IF ok THEN "address" ELSE "none"
      [] at.step = "address"  -> IF ok THEN "device" ELSE "disable"
      [] at.step = "device"   -> IF ok THEN "config" ELSE "disable"
      [] at.step = "config"   ->
            IF ok /\ Want(Parsed(Idx))
              THEN IF Parsed(Idx) = "stick" THEN "mscconf" ELSE "setconf"
              ELSE "none"
      [] at.step = "setconf"  -> IF ok THEN "setproto" ELSE "disable"
      [] at.step = "setproto" -> "endpoint"
      [] at.step = "endpoint" -> IF ok THEN "keep" ELSE "disable"
      [] at.step = "mscconf"  -> IF ok THEN "bulk" ELSE "disable"
      [] at.step = "bulk"     -> IF ok THEN "unit" ELSE "disable"
      [] OTHER                -> "none"

\* What follows the step that has been answered; every early
\* return of identify goes through disable_slot.
Follows(ok) ==
    CASE at.step = "enable"   -> IF ok THEN "address" ELSE "none"
      [] at.step = "address"  -> IF ok THEN "device" ELSE "disable"
      [] at.step = "device"   -> IF ok THEN "config" ELSE "disable"
      [] at.step = "config"   ->
            IF ok /\ Want(Parsed(Idx))
              THEN IF Parsed(Idx) = "stick" THEN "mscconf" ELSE "setconf"
              ELSE "disable"
      [] at.step = "setconf"  -> IF ok THEN "setproto" ELSE "disable"
      [] at.step = "setproto" -> "endpoint"
      [] at.step = "endpoint" -> IF ok THEN "keep" ELSE "disable"
      [] at.step = "mscconf"  -> IF ok THEN "bulk" ELSE "disable"
      [] at.step = "bulk"     -> IF ok THEN "unit" ELSE "disable"
      [] OTHER                -> "none"

Proceed(ok, slot) ==
    LET next == Follows(ok)
    IN  /\ at' = [at EXCEPT !.step = next]
        /\ pc' = CASE next \in {"none", "keep"} -> "ports"
                   [] next = "unit" -> "unit"
                   [] OTHER -> "step"
        /\ devices' =
             CASE at.step = "enable" /\ ok -> [devices EXCEPT ![Idx] = [FreshDevice EXCEPT !.slot = slot]]
               [] at.step = "setproto" -> [devices EXCEPT ![Idx].endpoint = TRUE]
               [] OTHER -> devices
        /\ dcbaa' = IF at.step = "disable" /\ devices[Idx].slot \in Slots
                      THEN [dcbaa EXCEPT ![devices[Idx].slot] = None] ELSE dcbaa
        /\ device_count' = IF next = "keep" THEN Idx + 1 ELSE device_count
        /\ keyboard' = IF next = "keep" /\ Parsed(Idx) = "keyboard" THEN Idx ELSE keyboard
        /\ pointer' = IF next = "keep" /\ Parsed(Idx) = "pointer" THEN Idx ELSE pointer
        /\ UNCHANGED msc

\* wait_command_event and wait_event: the first event of the kind is the
\* answer, any other is dropped.
Awaited == IF pc = "wait_command" THEN "command" ELSE "transfer"

Answer ==
    /\ pc \in {"wait_command", "wait_transfer"} /\ HasEvent /\ Event.what = Awaited
    /\ ConsumeEvent
    /\ Proceed(Event.ok /\ (at.step = "enable" => Event.slot # NoSlot), Event.slot)
    /\ UNCHANGED <<kind, cmdVars, hcVars, rings, input, buffers, bounds>>

Skip ==
    /\ pc \in {"wait_command", "wait_transfer"} /\ HasEvent /\ Event.what # Awaited
    /\ ConsumeEvent
    /\ UNCHANGED <<kind, cmdVars, hcVars, rings, devices, device_count, dcbaa, input,
                   buffers, driverVars, bounds>>

\* Mutant: the spin has no end of its own.
MutGiveUp ==
    /\ pc \in {"wait_command", "wait_transfer"} /\ ~HasEvent
    /\ CommandReady \/ \E s \in Slots : ControlReady(s)
    /\ late < MaxLate /\ late' = late + 1
    /\ Proceed(FALSE, NoSlot)
    /\ UNCHANGED <<kind, cmdVars, evVars, hcVars, rings, input, buffers, errors, reports>>

\* The spin ends without an answer: because none will come, or too soon.
GiveUp ==
    /\ pc \in {"wait_command", "wait_transfer"} /\ ~HasEvent
    /\ IF CommandReady \/ \E s \in Slots : ControlReady(s)
         THEN late < MaxLate /\ late' = late + 1
         ELSE UNCHANGED late
    /\ Proceed(FALSE, NoSlot)
    /\ UNCHANGED <<kind, cmdVars, evVars, hcVars, rings, input, buffers, errors, reports>>

\* The end of configure_storage: INQUIRY, TEST UNIT READY, READ CAPACITY.
Unit ==
    /\ pc = "unit"
    /\ \/ /\ msc' = TRUE /\ device_count' = Idx + 1
          /\ pc' = "ports" /\ at' = [at EXCEPT !.step = "keep"]
          /\ UNCHANGED errors
       \/ /\ errors < MaxErrors /\ errors' = errors + 1
          /\ pc' = "step" /\ at' = [at EXCEPT !.step = "disable"]
          /\ UNCHANGED <<msc, device_count>>
    /\ UNCHANGED <<kind, cmdVars, evVars, hcVars, rings, devices, dcbaa, input, buffers,
                   keyboard, pointer, late, reports>>

-----------------------------------------------------------------------------
(* The driver: polling.                                                    *)

\* poll_report begins: the events posted so far are drained.
Poll(d) ==
    /\ pc = "poll" /\ d \in {keyboard, pointer} \ {None}
    /\ pc' = "drain" /\ at' = [at EXCEPT !.dev = d]
    /\ UNCHANGED <<kind, cmdVars, evVars, hcVars, rings, devices, device_count, dcbaa,
                   input, buffers, keyboard, pointer, msc, bounds>>

\* device_of_slot: the first device in the table that has the slot.
Of(d, slot) ==
    /\ d < device_count /\ devices[d].slot = slot
    /\ \A x \in Indices : x < d => devices[x].slot # slot

\* A completion ends the read that was queued, with a report or without.
Noted(d, e) == [d EXCEPT !.queued = FALSE, !.ready = @ \/ e.ok]

\* drain_events.
DrainEvent ==
    /\ pc = "drain" /\ HasEvent
    /\ ConsumeEvent
    /\ devices' = [d \in Indices |->
            IF Event.what = "transfer" /\ Of(d, Event.slot) THEN Noted(devices[d], Event)
                                                           ELSE devices[d]]
    /\ UNCHANGED <<kind, cmdVars, hcVars, rings, device_count, dcbaa, input, buffers,
                   driverVars, bounds>>

\* The rest of poll_report: a report is handed over, and arm keeps a read
\* queued.
TakeReport ==
    /\ pc = "drain" /\ ~HasEvent
    /\ pc' = "poll"
    /\ IF devices[Idx].queued
         THEN devices' = [devices EXCEPT ![Idx].ready = FALSE] /\ UNCHANGED <<rings, slots>>
         ELSE Enqueue(Idx, "read", "intr")
    /\ UNCHANGED <<kind, cmdVars, evVars, hcCmd, evRing, hcEv, ran, posted, device_count,
                   dcbaa, input, buffers, keyboard, pointer, msc, at, bounds>>

-----------------------------------------------------------------------------
Init ==
    /\ kind \in [1..Ports -> Kinds]
    /\ cmdRing = [i \in Entries |-> Blank] /\ cmd = Start /\ hcCmd = Start
    /\ evRing = [i \in Entries |-> [what |-> "none", ok |-> FALSE, slot |-> NoSlot,
                                    n |-> 0, cycle |-> 0]]
    /\ ev = Start /\ hcEv = Start
    /\ rings = [d \in Indices |-> [i \in Entries |-> Blank]]
    /\ devices = [d \in Indices |-> FreshDevice] /\ device_count = 0
    /\ dcbaa = [s \in Slots |-> None] /\ input = [port |-> 0, dev |-> None]
    /\ slots = [s \in Slots |-> FreeSlot]
    /\ buffers = [d \in Indices |-> <<"zero", 0>>]
    /\ keyboard = None /\ pointer = None /\ msc = FALSE
    /\ pc = "ports" /\ at = [port |-> 0, step |-> "none", dev |-> 0]
    /\ late = 0 /\ errors = 0 /\ reports = 0
    /\ issued = 0 /\ ran = 0 /\ posted = 0 /\ seen = 0

Driver ==
    \/ NextPort \/ BringUpDone \/ Issue \/ Answer \/ Skip \/ GiveUp \/ Unit
    \/ \E d \in Indices : Poll(d)
    \/ DrainEvent \/ TakeReport

Controller == Command \/ \E s \in Slots : Control(s) \/ Interrupt(s)

Next == Driver \/ Controller

Spec == Init /\ [][Next]_vars

FairSpec == Spec /\ WF_vars(Driver) /\ WF_vars(Controller)

-----------------------------------------------------------------------------
(* Properties.                                                             *)

\* Every event is taken once and in the order of posting: none is read again
\* after the ring wraps, none is lost to an entry of an earlier pass.
EventsInOrder == [][seen' = seen + 1 /\ seen' <= posted']_<<seen>>

\* No command is carried out twice, left out or ahead of its turn.
CommandsInOrder == [][ran' = ran + 1]_<<ran>>

\* Every command is carried out, once and in the order of issue, across the
\* wrap of the ring and whatever the driver gave up on; and the events are
\* taken in order.
RingsInOrder ==
    /\ CommandsInOrder /\ []<>(ran = issued)
    /\ EventsInOrder

\* When the scan is over and nothing was given up on, the slots the
\* controller still has enabled are those of the devices kept, no two devices
\* share one, and no context of a device given back can be followed.
SlotsReturned ==
    pc \in {"poll", "drain"} /\ late = 0 =>
        LET kept == {devices[d].slot : d \in 0..device_count - 1}
        IN  /\ {s \in Slots : slots[s].state # "free"} = kept
            /\ Cardinality(kept) = device_count
            /\ \A s \in Slots : dcbaa[s] # None => s \in kept

\* A device whose read counts as queued will answer for it: its completion is
\* still to be drained, or its endpoint was told and has an entry to take,
\* unless it has stalled.  Otherwise the device would never be armed again
\* and the keyboard would stay silent.
QueuedIsPending ==
    pc \in {"poll", "drain"} /\ late = 0 => \A d \in 0..device_count - 1 :
        LET t == slots[devices[d].slot]
        IN  devices[d].queued =>
                \/ \E i \in Entries : evRing[i].what = "transfer" /\ evRing[i].n > seen
                                      /\ evRing[i].slot = devices[d].slot
                \/ "intr" \in t.halted
                \/ "intr" \in t.rung /\ Ready(rings[d], t.intr)

\* The scan of the ports ends, whatever devices refuse.
BringUpEnds == <>(pc = "poll")
=============================================================================
