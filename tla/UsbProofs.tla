----------------------------- MODULE UsbProofs ------------------------------
(***************************************************************************)
(* Theorems about Xhci and UsbDump, for rings of any length and any number *)
(* of ports, slots, devices, reports, late answers and errors: the event   *)
(* ring is a queue, so is the command ring if it is longer than what may   *)
(* lag on it, the slots the scan leaves enabled are those of the devices   *)
(* it keeps, and a read that counts as queued is heard of; a block read    *)
(* from the stick is the one asked for, a dump reported as written is in   *)
(* CRASH.DMP, and nothing else is written.                                 *)
(***************************************************************************)
EXTENDS MCUsb, Sequences, FiniteSetTheorems, FunctionTheorems, WellFoundedInduction, TLAPS

Cursor == [index : Entries, cycle : {0, 1}]

-----------------------------------------------------------------------------
(* The event ring.  The controller is in the same pass as the driver or    *)
(* one ahead; the entries between them are the events not taken yet.       *)

PendingAt(i) ==
    IF hcEv.cycle = ev.cycle THEN ev.index <= i /\ i < hcEv.index
    ELSE ev.index <= i \/ i < hcEv.index

Number(i) == seen + 1 + (IF ev.index <= i THEN i - ev.index ELSE RING_LEN - ev.index + i)

EventQueue ==
    /\ ev \in Cursor /\ hcEv \in Cursor /\ seen \in Nat /\ posted \in Nat
    /\ DOMAIN evRing = Entries
    /\ \A i \in Entries :
            /\ evRing[i].cycle \in {0, 1}
            /\ evRing[i].cycle = hcEv.cycle <=> i < hcEv.index
            /\ PendingAt(i) => evRing[i].n = Number(i)
    /\ IF hcEv.cycle = ev.cycle
       THEN ev.index <= hcEv.index /\ posted = seen + (hcEv.index - ev.index)
       ELSE hcEv.index < ev.index /\ posted = seen + (RING_LEN - ev.index + hcEv.index)

-----------------------------------------------------------------------------
(* A ring with a link.  Its last entry is for the link, and a cursor that  *)
(* has come to it stays there until the next entry is put or taken.        *)

Z == RING_LEN - 1

\* Where the k-th entry from the consumer's cursor on is.
Spot(c, k) == IF c.index + k <= Z THEN c.index + k - 1 ELSE c.index + k - 1 - Z

\* Between the consumer's cursor and the producer's there are n entries.
Ringed(r, p, c, n) ==
    /\ p \in Cursor /\ c \in Cursor /\ n \in Nat
    /\ DOMAIN r = Entries
    /\ \A i \in Entries :
            /\ r[i].cycle \in {0, 1}
            /\ r[i].cycle = p.cycle <=> i < p.index
            /\ i < Z => r[i].what # "link"
    /\ IF p.cycle = c.cycle
       THEN c.index <= p.index /\ n = p.index - c.index
       ELSE /\ 0 < p.index /\ p.index <= c.index
            /\ n = Z - c.index + p.index
            /\ r[Z].what = "link"

\* The command ring: the commands not carried out yet, in the order of issue.
CommandRing ==
    /\ issued \in Nat /\ ran \in Nat /\ ran <= issued
    /\ Ringed(cmdRing, cmd, hcCmd, issued - ran)
    /\ \A k \in 1 .. issued - ran : cmdRing[Spot(hcCmd, k)].n = ran + k

\* No answer to a command is under way.
Quiet == \A i \in Entries : PendingAt(i) => evRing[i].what # "command"

\* The answers to commands that the driver has not taken.
Answers == {i \in Entries : PendingAt(i) /\ evRing[i].what = "command"}

Awaiting == IF pc = "wait_command" THEN 1 ELSE 0

\* Only a wait that ended too soon leaves a command or its answer behind, and
\* one command is waited for at a time.
LateInv ==
    /\ late \in 0 .. MaxLate
    /\ CommandRing
    /\ (issued - ran) + Cardinality(Answers) <= late + Awaiting

-----------------------------------------------------------------------------
(* The slots.                                                              *)

Own == devices[Idx].slot

Kept(s) == \E d \in Indices : d < device_count /\ devices[d].slot = s

\* The slots that are enabled are those of the devices kept and those of X.
Balanced(X) ==
    /\ \A s \in X : s \in Slots /\ ~Kept(s)
    /\ \A s \in Slots : slots[s].state # "free" <=> Kept(s) \/ s \in X

\* The contexts that can be followed are of devices kept or of those of X.
Followed(X) == \A s \in Slots : dcbaa[s] # None => Kept(s) \/ s \in X

\* What a command has come to, by the event that answers it.
Settled(e) ==
    /\ at.step = "enable" => Balanced(IF e.ok THEN {e.slot} ELSE {}) /\ Followed({})
    /\ at.step = "disable" => Balanced({}) /\ Own \in Slots /\ ~Kept(Own) /\ Followed({Own})
    /\ at.step \notin {"enable", "disable"} => Balanced({Own}) /\ Followed({Own})

\* The table: the devices kept have a slot each.
Table ==
    /\ DOMAIN slots = Slots /\ DOMAIN dcbaa = Slots /\ DOMAIN devices = Indices
    /\ \A s \in Slots : "state" \in DOMAIN slots[s]
    /\ \A d \in Indices : "slot" \in DOMAIN devices[d]
    /\ device_count \in 0 .. MAX_DEVICES
    /\ \A d \in Indices : d < device_count => devices[d].slot \in Slots
    /\ \A d, x \in Indices : d < x /\ x < device_count => devices[d].slot # devices[x].slot

\* A command is on its way to the controller, and nothing has changed yet...
Asked ==
    /\ issued = ran + 1 /\ Quiet
    /\ cmdRing[cmd.index - 1].what = at.step
    /\ cmdRing[cmd.index - 1].slot = (IF at.step = "enable" THEN NoSlot ELSE Own)
    /\ IF at.step = "enable" THEN Balanced({}) /\ Followed({})
       ELSE Balanced({Own}) /\ Followed({Own})

\* ...or its answer is under way, the only one.
Answered ==
    /\ issued = ran
    /\ \E j \in Entries :
            /\ PendingAt(j) /\ evRing[j].what = "command" /\ Settled(evRing[j])
            /\ \A i \in Entries : PendingAt(i) /\ evRing[i].what = "command" => i = j

\* Who holds what, while the driver is at pc.
Placed ==
    \/ pc \in {"ports", "poll", "drain"} /\ issued = ran /\ Quiet /\ Balanced({}) /\ Followed({})
    \/ /\ pc \in {"step", "unit", "wait_transfer"} /\ issued = ran /\ Quiet
       /\ Idx = device_count /\ Idx \in Indices /\ Balanced({Own}) /\ Followed({Own})
       /\ pc = "step" => at.step \in (CommandSteps \ {"enable"}) \cup ControlSteps
       /\ pc = "wait_transfer" => at.step \in ControlSteps
    \/ /\ pc = "wait_command" /\ at.step \in CommandSteps
       /\ Idx = device_count /\ Idx \in Indices
       /\ Asked \/ Answered

Matched == Table /\ "step" \in DOMAIN at /\ "dev" \in DOMAIN at /\ Placed

\* Nothing is given up on: as far as that, driver and controller agree.
ScanInv == late \in Nat /\ (late = 0 => CommandRing /\ Matched)

-----------------------------------------------------------------------------
(* The event ring is a queue.                                              *)

LEMMA RingLen == RING_LEN \in Nat /\ RING_LEN > 1 /\ Entries = 0 .. RING_LEN - 1
  BY XhciAssumption DEF Entries

LEMMA NextEntryIs ==
    ASSUME NEW c \in Cursor
    PROVE  /\ NextEntry(c) \in Cursor
           /\ c.index + 1 < RING_LEN => /\ NextEntry(c).index = c.index + 1
                                       /\ NextEntry(c).cycle = c.cycle
           /\ c.index + 1 = RING_LEN => /\ NextEntry(c).index = 0
                                       /\ NextEntry(c).cycle = 1 - c.cycle
           /\ c.index \in Nat /\ c.index < RING_LEN /\ c.cycle \in {0, 1}
  <1>1. c.index \in Nat /\ c.index < RING_LEN /\ c.cycle \in {0, 1}
    BY RingLen DEF Cursor
  <1>2. CASE c.index + 1 < RING_LEN
    <2>1. NextEntry(c) = [index |-> c.index + 1, cycle |-> c.cycle]
      BY <1>1, <1>2, RingLen DEF NextEntry, Next1, Cursor
    <2> QED
      BY <1>1, <1>2, <2>1, RingLen DEF Cursor
  <1>3. CASE c.index + 1 = RING_LEN
    <2>1. NextEntry(c) = [index |-> 0, cycle |-> 1 - c.cycle]
      BY <1>1, <1>3, RingLen DEF NextEntry
    <2> QED
      BY <1>1, <1>3, <2>1, RingLen DEF Cursor
  <1> QED
    BY <1>1, <1>2, <1>3, RingLen

\* Posting: one entry more, where no event waited.
LEMMA PostKeeps ==
    ASSUME EventQueue, NEW k, NEW ok, NEW slot, Post(k, ok, slot), UNCHANGED <<ev, seen>>
    PROVE  /\ EventQueue'
           /\ hcEv.index \in Entries /\ ~PendingAt(hcEv.index)
           /\ evRing'[hcEv.index].what = k /\ evRing'[hcEv.index].ok = ok
           /\ evRing'[hcEv.index].slot = slot
           /\ \A i \in Entries : i # hcEv.index => evRing'[i] = evRing[i]
           /\ \A i \in Entries : PendingAt(i)' <=> PendingAt(i) \/ i = hcEv.index
  <1> DEFINE h == hcEv.index
             g == hcEv'.index
             e == ev.index
             new == [what |-> k, ok |-> ok, slot |-> slot, n |-> posted + 1, cycle |-> hcEv.cycle]
  <1>1. /\ evRing' = [evRing EXCEPT ![h] = new] /\ hcEv' = NextEntry(hcEv)
        /\ posted' = posted + 1 /\ g # e /\ ev' = ev /\ seen' = seen
    BY DEF Post, Room
  <1>2. /\ ev \in Cursor /\ hcEv \in Cursor /\ seen \in Nat /\ posted \in Nat
        /\ DOMAIN evRing = Entries
    BY DEF EventQueue
  <1>3. /\ hcEv' \in Cursor /\ h \in Nat /\ h < RING_LEN /\ hcEv.cycle \in {0, 1}
        /\ h + 1 < RING_LEN => g = h + 1 /\ hcEv'.cycle = hcEv.cycle
        /\ h + 1 = RING_LEN => g = 0 /\ hcEv'.cycle = 1 - hcEv.cycle
        /\ g \in Nat
    BY <1>1, <1>2, NextEntryIs, RingLen
  <1>4. e \in Nat /\ e < RING_LEN /\ ev.cycle \in {0, 1}
    BY <1>2, NextEntryIs
  <1>5. /\ h \in Entries /\ evRing'[h] = new /\ DOMAIN evRing' = Entries
        /\ \A i \in Entries : i # h => evRing'[i] = evRing[i]
    BY <1>1, <1>2, <1>3, RingLen
  <1>6. IF hcEv.cycle = ev.cycle
        THEN e <= h /\ posted = seen + (h - e)
        ELSE h < e /\ posted = seen + (RING_LEN - e + h)
    BY DEF EventQueue
  <1>7. \A i \in Entries : /\ evRing[i].cycle \in {0, 1}
                           /\ evRing[i].cycle = hcEv.cycle <=> i < h
                           /\ PendingAt(i) => evRing[i].n = Number(i)
    BY DEF EventQueue
  <1>8. new.cycle = hcEv.cycle /\ new.n = posted + 1 /\ new.what = k /\ new.ok = ok /\ new.slot = slot
    OBVIOUS
  <1> HIDE DEF new
  <1>9. ~PendingAt(h)
    BY <1>3, <1>4, <1>6 DEF PendingAt
  <1>10. \A i \in Entries : PendingAt(i)' <=> PendingAt(i) \/ i = h
    BY <1>1, <1>3, <1>4, <1>6, RingLen DEF PendingAt
  <1>11. IF hcEv'.cycle = ev'.cycle
         THEN ev'.index <= g /\ posted' = seen' + (g - ev'.index)
         ELSE g < ev'.index /\ posted' = seen' + (RING_LEN - ev'.index + g)
    <2> HIDE DEF h, g, e
    <2>1. h + 1 < RING_LEN \/ h + 1 = RING_LEN
      BY <1>3, RingLen
    <2>2. hcEv'.cycle = ev.cycle /\ h + 1 < RING_LEN => e <= g /\ posted + 1 = seen + (g - e)
      BY <1>1, <1>2, <1>3, <1>4, <1>6, RingLen
    <2>3. hcEv'.cycle # ev.cycle /\ h + 1 < RING_LEN =>
            g < e /\ posted + 1 = seen + (RING_LEN - e + g)
      BY <1>1, <1>2, <1>3, <1>4, <1>6, RingLen
    <2>4. h + 1 = RING_LEN => hcEv.cycle = ev.cycle
      BY <1>3, <1>4, <1>6
    <2>5. h + 1 = RING_LEN => g < e /\ posted + 1 = seen + (RING_LEN - e + g)
      BY <1>1, <1>2, <1>3, <1>4, <1>6, <2>4, RingLen
    <2>6. h + 1 = RING_LEN => hcEv'.cycle # ev.cycle
      BY <1>3, <2>4
    <2> QED
      BY <1>1, <2>1, <2>2, <2>3, <2>5, <2>6 DEF e
  <1>12. ASSUME NEW i \in Entries
         PROVE  /\ evRing'[i].cycle \in {0, 1}
                /\ evRing'[i].cycle = hcEv'.cycle <=> i < g
                /\ PendingAt(i)' => evRing'[i].n = Number(i)'
    <2>1. i \in Nat /\ i < RING_LEN
      BY RingLen
    <2>2. evRing'[i].cycle = (IF i = h THEN hcEv.cycle ELSE evRing[i].cycle)
      BY <1>5, <1>8
    <2>3. evRing'[i].cycle \in {0, 1}
      BY <1>3, <1>7, <2>2
    <2>4. evRing'[i].cycle = hcEv'.cycle <=> i < g
      BY <1>3, <1>7, <2>1, <2>2, RingLen
    <2>5. CASE i = h
      <3>1. evRing'[i].n = posted + 1
        BY <1>5, <1>8, <2>5
      <3>2. Number(i)' = seen + 1 + (IF e <= i THEN i - e ELSE RING_LEN - e + i)
        BY <1>1 DEF Number
      <3>3. Number(i)' = posted + 1
        <4> HIDE DEF h, e
        <4>1. CASE hcEv.cycle = ev.cycle
          <5>1. e <= h /\ posted = seen + (h - e)
            BY <1>6, <4>1
          <5> QED
            BY <1>2, <1>3, <1>4, <2>5, <3>2, <5>1
        <4>2. CASE hcEv.cycle # ev.cycle
          <5>1. h < e /\ posted = seen + (RING_LEN - e + h)
            BY <1>6, <4>2
          <5> QED
            BY <1>2, <1>3, <1>4, <2>5, <3>2, <5>1, RingLen
        <4> QED
          BY <4>1, <4>2
      <3> QED
        BY <2>3, <2>4, <3>1, <3>3
    <2>6. CASE i # h
      <3>1. PendingAt(i)' => PendingAt(i)
        BY <1>10, <2>6
      <3>2. Number(i)' = Number(i)
        BY <1>1 DEF Number
      <3> QED
        BY <1>5, <1>7, <2>3, <2>4, <2>6, <3>1, <3>2
    <2> QED
      BY <2>5, <2>6
  <1>13. EventQueue'
    BY <1>1, <1>2, <1>3, <1>5, <1>11, <1>12 DEF EventQueue
  <1> QED
    BY <1>5, <1>8, <1>9, <1>10, <1>13

\* The driver sees an event exactly if one is waiting.
LEMMA HasEventIs ==
    ASSUME EventQueue
    PROVE  /\ HasEvent <=> PendingAt(ev.index)
           /\ \A i \in Entries : PendingAt(i) => HasEvent
           /\ ev.index \in Entries
  <1>1. /\ ev \in Cursor /\ hcEv \in Cursor
        /\ ev.index \in Nat /\ ev.index < RING_LEN /\ ev.cycle \in {0, 1}
        /\ hcEv.index \in Nat /\ hcEv.index < RING_LEN /\ hcEv.cycle \in {0, 1}
    BY NextEntryIs DEF EventQueue
  <1>2. ev.index \in Entries
    BY <1>1, RingLen
  <1>3. evRing[ev.index].cycle \in {0, 1}
        /\ (evRing[ev.index].cycle = hcEv.cycle <=> ev.index < hcEv.index)
    BY <1>2 DEF EventQueue
  <1>4. IF hcEv.cycle = ev.cycle THEN ev.index <= hcEv.index ELSE hcEv.index < ev.index
    BY DEF EventQueue
  <1>5. HasEvent <=> PendingAt(ev.index)
    BY <1>1, <1>3, <1>4 DEF HasEvent, PendingAt
  <1>6. ASSUME NEW i \in Entries, PendingAt(i) PROVE PendingAt(ev.index)
    BY <1>1, <1>4, <1>6, RingLen DEF PendingAt
  <1> QED
    BY <1>2, <1>5, <1>6

\* Taking an event: it is the one after the last, and no other goes.
LEMMA ConsumeKeeps ==
    ASSUME EventQueue, HasEvent, ConsumeEvent, UNCHANGED <<evRing, hcEv, posted>>
    PROVE  /\ EventQueue' /\ seen' = seen + 1 /\ seen' <= posted'
           /\ ev.index \in Entries /\ PendingAt(ev.index)
           /\ \A i \in Entries : PendingAt(i)' <=> PendingAt(i) /\ i # ev.index
  <1> DEFINE h == hcEv.index
             e == ev.index
             f == ev'.index
  <1>1. /\ ev' = NextEntry(ev) /\ seen' = evRing[e].n /\ evRing' = evRing /\ hcEv' = hcEv
        /\ posted' = posted
    BY DEF ConsumeEvent, Event
  <1>2. /\ ev \in Cursor /\ hcEv \in Cursor /\ seen \in Nat /\ posted \in Nat
        /\ DOMAIN evRing = Entries
    BY DEF EventQueue
  <1>3. /\ ev' \in Cursor /\ e \in Nat /\ e < RING_LEN /\ ev.cycle \in {0, 1} /\ f \in Nat
        /\ e + 1 < RING_LEN => f = e + 1 /\ ev'.cycle = ev.cycle
        /\ e + 1 = RING_LEN => f = 0 /\ ev'.cycle = 1 - ev.cycle
    BY <1>1, <1>2, NextEntryIs, RingLen
  <1>4. h \in Nat /\ h < RING_LEN /\ hcEv.cycle \in {0, 1}
    BY <1>2, NextEntryIs
  <1>5. PendingAt(e) /\ e \in Entries
    BY HasEventIs
  <1>6. IF hcEv.cycle = ev.cycle
        THEN e <= h /\ posted = seen + (h - e)
        ELSE h < e /\ posted = seen + (RING_LEN - e + h)
    BY DEF EventQueue
  <1>7. \A i \in Entries : /\ evRing[i].cycle \in {0, 1}
                           /\ evRing[i].cycle = hcEv.cycle <=> i < h
                           /\ PendingAt(i) => evRing[i].n = Number(i)
    BY DEF EventQueue
  <1>8. seen' = seen + 1
    <2>1. Number(e) = seen + 1 + (e - e)
      BY <1>3 DEF Number
    <2> QED
      BY <1>1, <1>2, <1>3, <1>5, <1>7, <2>1
  <1>9. hcEv.cycle = ev.cycle => e < h
    BY <1>5 DEF PendingAt
  <1>10. \A i \in Entries : PendingAt(i)' <=> PendingAt(i) /\ i # e
    BY <1>1, <1>3, <1>4, <1>6, <1>9, RingLen DEF PendingAt
  <1>11. IF hcEv'.cycle = ev'.cycle
         THEN f <= hcEv'.index /\ posted' = seen' + (hcEv'.index - f)
         ELSE hcEv'.index < f /\ posted' = seen' + (RING_LEN - f + hcEv'.index)
    <2> HIDE DEF h, f, e
    <2>0. e + 1 < RING_LEN \/ e + 1 = RING_LEN
      BY <1>3, RingLen
    <2>1. CASE hcEv.cycle = ev.cycle
      <3>1. e < h /\ posted = seen + (h - e)
        BY <1>6, <1>9, <2>1
      <3>2. f = e + 1 /\ ev'.cycle = ev.cycle
        BY <1>3, <1>4, <2>0, <3>1
      <3>3. f <= h /\ posted = (seen + 1) + (h - f)
        BY <1>2, <1>3, <1>4, <3>1, <3>2
      <3> QED
        BY <1>1, <1>8, <2>1, <3>2, <3>3 DEF h
    <2>2. CASE hcEv.cycle # ev.cycle
      <3>1. h < e /\ posted = seen + (RING_LEN - e + h)
        BY <1>6, <2>2
      <3>2. CASE e + 1 < RING_LEN
        <4>1. h < f /\ posted = (seen + 1) + (RING_LEN - f + h) /\ ev'.cycle = ev.cycle
          BY <1>2, <1>3, <1>4, <3>1, <3>2, RingLen
        <4> QED
          BY <1>1, <1>8, <2>2, <4>1 DEF h
      <3>3. CASE e + 1 = RING_LEN
        <4>1. f <= h /\ posted = (seen + 1) + (h - f)
          BY <1>2, <1>3, <1>4, <3>1, <3>3, RingLen
        <4>2. ev'.cycle = hcEv.cycle
          BY <1>3, <1>4, <2>2, <3>3
        <4> QED
          BY <1>1, <1>8, <4>1, <4>2 DEF h
      <3> QED
        BY <2>0, <3>2, <3>3
    <2> QED
      BY <2>1, <2>2
  <1>12. ASSUME NEW i \in Entries, PendingAt(i)'
         PROVE  evRing'[i].n = Number(i)'
    <2>1. i \in Nat /\ i < RING_LEN
      BY RingLen
    <2>2. PendingAt(i) /\ i # e
      BY <1>10, <1>12
    <2>3. Number(i)' = seen + 1 + 1 + (IF f <= i THEN i - f ELSE RING_LEN - f + i)
      BY <1>1, <1>8 DEF Number
    <2>4. Number(i) = seen + 1 + (IF e <= i THEN i - e ELSE RING_LEN - e + i)
      BY DEF Number
    <2>5. Number(i)' = Number(i)
      <3> HIDE DEF h, f, e
      <3>0. e + 1 < RING_LEN \/ e + 1 = RING_LEN
        BY <1>3, RingLen
      <3>1. CASE e + 1 < RING_LEN
        <4>1. f = e + 1
          BY <1>3, <3>1
        <4>2. f <= i <=> e <= i
          BY <1>3, <2>1, <2>2, <4>1
        <4> QED
          BY <1>2, <1>3, <2>1, <2>3, <2>4, <4>1, <4>2, RingLen
      <3>2. CASE e + 1 = RING_LEN
        <4>1. f = 0 /\ ~(e <= i)
          BY <1>3, <2>1, <2>2, <3>2
        <4> QED
          BY <1>2, <1>3, <2>1, <2>3, <2>4, <3>2, <4>1, RingLen
      <3> QED
        BY <3>0, <3>1, <3>2
    <2> QED
      BY <1>1, <1>7, <2>2, <2>5
  <1>13. seen' <= posted' /\ seen' \in Nat
    <2> HIDE DEF h, e
    <2>1. seen + 1 <= posted
      <3>1. CASE hcEv.cycle = ev.cycle
        <4>1. e < h /\ posted = seen + (h - e)
          BY <1>6, <1>9, <3>1
        <4> QED
          BY <1>2, <1>3, <1>4, <4>1
      <3>2. CASE hcEv.cycle # ev.cycle
        <4>1. h < e /\ posted = seen + (RING_LEN - e + h)
          BY <1>6, <3>2
        <4> QED
          BY <1>2, <1>3, <1>4, <4>1, RingLen
      <3> QED
        BY <3>1, <3>2
    <2> QED
      BY <1>1, <1>2, <1>8, <2>1
  <1>14. EventQueue'
    BY <1>1, <1>2, <1>3, <1>7, <1>11, <1>12, <1>13 DEF EventQueue
  <1> QED
    BY <1>5, <1>8, <1>10, <1>13, <1>14

queueVars == <<evRing, ev, hcEv, seen, posted>>

LEMMA QueueSame == ASSUME EventQueue, UNCHANGED queueVars PROVE EventQueue'
  BY DEF EventQueue, queueVars, PendingAt, Number

\* An event is taken by the waits and by drain_events, and in no other step.
LEMMA QueueStep ==
    ASSUME EventQueue, [Next]_vars
    PROVE  EventQueue' /\ (seen' = seen \/ (seen' = seen + 1 /\ seen' <= posted'))
  <1>1. ASSUME UNCHANGED queueVars
        PROVE  EventQueue' /\ seen' = seen
    BY <1>1, QueueSame DEF queueVars
  <1>2. ASSUME NEW k, NEW ok, NEW slot, Post(k, ok, slot), UNCHANGED <<ev, seen>>
        PROVE  EventQueue' /\ seen' = seen
    BY <1>2, PostKeeps
  <1>3. ASSUME HasEvent, ConsumeEvent, UNCHANGED <<evRing, hcEv, posted>>
        PROVE  EventQueue' /\ seen' = seen + 1 /\ seen' <= posted'
    BY <1>3, ConsumeKeeps
  <1>4. CASE Command
    <2>1. (\E ok, slot : Post("command", ok, slot)) /\ UNCHANGED <<ev, seen>>
      BY <1>4 DEF Command, evVars
    <2> QED
      BY <2>1, <1>2
  <1>5. CASE \E s \in Slots : Control(s) \/ Interrupt(s)
    <2>1. (\E ok, slot : Post("transfer", ok, slot)) /\ UNCHANGED <<ev, seen>>
      BY <1>5 DEF Control, Interrupt, evVars
    <2> QED
      BY <2>1, <1>2
  <1>6. CASE Answer \/ Skip \/ DrainEvent
    BY <1>3, <1>6 DEF Answer, Skip, DrainEvent, hcVars
  <1>7. CASE NextPort \/ BringUpDone \/ GiveUp \/ Unit \/ \E d \in Indices : Poll(d)
    BY <1>1, <1>7 DEF NextPort, BringUpDone, GiveUp, Unit, Poll, hcVars, evVars, queueVars
  <1>8. CASE Issue \/ TakeReport
    BY <1>1, <1>8 DEF Issue, TakeReport, evVars, queueVars
  <1>9. CASE UNCHANGED vars
    BY <1>1, <1>9 DEF vars, queueVars
  <1> QED
    BY <1>4, <1>5, <1>6, <1>7, <1>8, <1>9 DEF Next, Driver, Controller

LEMMA QueueInit == ASSUME Init PROVE EventQueue
  <1>1. Start \in Cursor /\ Start.index = 0 /\ Start.cycle = 1
    BY RingLen DEF Start, Cursor
  <1> QED
    BY <1>1, RingLen DEF Init, EventQueue, PendingAt

\* The stick's phase leaves the scan's variables alone.
LEMMA ScanRefine == MCFairSpec => Spec
  <1>1. MCInit => Init
    BY DEF MCInit
  <1>2. ASSUME [MCNext]_all PROVE [Next]_vars
    <2>1. CASE ScanStep
      BY <2>1 DEF ScanStep
    <2>2. CASE DumpStep
      <3>1. UNCHANGED vars
        BY <2>2 DEF DumpStep, Idle
      <3> QED
        BY <3>1
    <2>3. CASE UNCHANGED vars
      BY <2>3
    <2> QED
      BY <1>2, <2>1, <2>2, <2>3 DEF MCNext, all
  <1> QED
    BY <1>1, <1>2, PTL DEF MCFairSpec, Spec

\* Every event the controller posts is taken by the driver exactly once and
\* in the order of posting, for a ring of any length, whatever the driver
\* gives up on: the check of the cycle bit in next_event, and the dequeue
\* pointer that keeps the controller from overtaking.
THEOREM EventsTakenInOrder == MCFairSpec => EventsInOrder
  <1>1. Init => EventQueue
    BY QueueInit
  <1>2. EventQueue /\ [Next]_vars => EventQueue'
    BY QueueStep
  <1>3. EventQueue /\ [Next]_vars => [seen' = seen + 1 /\ seen' <= posted']_<<seen>>
    BY QueueStep
  <1> QED
    BY <1>1, <1>2, <1>3, ScanRefine, PTL DEF Spec, EventsInOrder
-----------------------------------------------------------------------------
(* The command ring is a queue, as long as it is not full.                 *)

LEMMA AdvanceIs ==
    ASSUME NEW c \in Cursor
    PROVE  /\ c.index \in Nat /\ c.index < RING_LEN /\ c.cycle \in {0, 1}
           /\ c.index < RING_LEN - 1 => Advance(c) = [index |-> c.index + 1, cycle |-> c.cycle]
           /\ c.index = RING_LEN - 1 => Advance(c) = [index |-> 1, cycle |-> 1 - c.cycle]
           /\ Advance(c) \in Cursor /\ Advance(c).index # 0
  <1>1. c.index \in Nat /\ c.index < RING_LEN /\ c.cycle \in {0, 1}
    BY RingLen DEF Cursor
  <1>2. CASE c.index < RING_LEN - 1
    <2>1. Advance(c) = [index |-> c.index + 1, cycle |-> c.cycle]
      BY <1>1, <1>2, RingLen DEF Advance, Wrapped, Next1, Cursor
    <2> QED
      BY <1>1, <1>2, <2>1, RingLen DEF Cursor
  <1>3. CASE c.index = RING_LEN - 1
    <2>1. Wrapped(c) = [index |-> 0, cycle |-> 1 - c.cycle]
      BY <1>1, <1>3, RingLen DEF Wrapped
    <2>2. Advance(c) = [index |-> 1, cycle |-> 1 - c.cycle]
      BY <2>1 DEF Advance, Next1
    <2> QED
      BY <1>1, <1>3, <2>2, RingLen DEF Cursor
  <1> QED
    BY <1>1, <1>2, <1>3, RingLen

LEMMA SpotIs ==
    ASSUME NEW r, NEW p, NEW c, NEW n, Ringed(r, p, c, n)
    PROVE  /\ p.index \in Nat /\ p.index <= Z /\ c.index \in Nat /\ c.index <= Z
           /\ p.cycle \in {0, 1} /\ c.cycle \in {0, 1}
           /\ Z \in Nat /\ 0 < Z /\ Z \in Entries /\ Entries = 0 .. Z
           /\ n \in Nat /\ n <= Z /\ c \in Cursor /\ p \in Cursor
           /\ n > 0 => Spot(c, n) = p.index - 1
           /\ \A k \in 1 .. Z : /\ Spot(c, k) \in Entries /\ Spot(c, k) < Z
                                /\ \A m \in 1 .. Z : m # k => Spot(c, m) # Spot(c, k)
  <1>1. /\ p.index \in Nat /\ p.index <= Z /\ c.index \in Nat /\ c.index <= Z
        /\ p.cycle \in {0, 1} /\ c.cycle \in {0, 1}
        /\ Z \in Nat /\ 0 < Z /\ Z \in Entries /\ Entries = 0 .. Z
        /\ n \in Nat /\ c \in Cursor /\ p \in Cursor
    BY RingLen, AdvanceIs DEF Ringed, Z
  <1>2. IF p.cycle = c.cycle THEN c.index <= p.index /\ n = p.index - c.index
        ELSE 0 < p.index /\ p.index <= c.index /\ n = Z - c.index + p.index
    BY DEF Ringed
  <1> HIDE DEF Z
  <1>3. n <= Z /\ (n > 0 => Spot(c, n) = p.index - 1)
    <2>1. CASE p.cycle = c.cycle
      BY <1>1, <1>2, <2>1 DEF Spot
    <2>2. CASE p.cycle # c.cycle
      BY <1>1, <1>2, <2>2 DEF Spot
    <2> QED
      BY <2>1, <2>2
  <1>4. \A k \in 1 .. Z : Spot(c, k) \in Entries /\ Spot(c, k) < Z
    BY <1>1 DEF Spot
  <1>5. \A k, m \in 1 .. Z : m # k => Spot(c, m) # Spot(c, k)
    BY <1>1 DEF Spot
  <1> QED
    BY <1>1, <1>3, <1>4, <1>5

\* An empty ring, as it is at the start.
LEMMA RingBlank ==
    ASSUME NEW r, DOMAIN r = Entries, \A i \in Entries : r[i] = Blank
    PROVE  Ringed(r, Start, Start, 0)
  <1>1. Start \in Cursor /\ Start.index = 0 /\ Start.cycle = 1
    BY RingLen DEF Start, Cursor
  <1>2. Blank.cycle = 0 /\ Blank.what # "link"
    BY DEF Blank
  <1>3. \A i \in Entries : i \in Nat
    BY RingLen
  <1> HIDE DEF Blank
  <1> QED
    BY <1>1, <1>2, <1>3 DEF Ringed

\* An entry is put on a ring that has a place for it.
LEMMA RingPut ==
    ASSUME NEW r, NEW p, NEW c, NEW n, Ringed(r, p, c, n), n < Z,
           NEW what, NEW slot, NEW num, what # "link"
    PROVE  LET new == Put(r, p, what, slot, num)
           IN  /\ Ringed(new, Advance(p), c, n + 1)
               /\ new[Spot(c, n + 1)].what = what /\ new[Spot(c, n + 1)].slot = slot
               /\ new[Spot(c, n + 1)].n = num
               /\ \A k \in 1 .. n : new[Spot(c, k)] = r[Spot(c, k)]
  <1> DEFINE new == Put(r, p, what, slot, num)
             q == Advance(p)
             made(y) == [what |-> what, slot |-> slot, n |-> num, cycle |-> y]
             link == [Blank EXCEPT !.what = "link", !.cycle = p.cycle]
  <1>1. /\ p.index \in Nat /\ p.index <= Z /\ c.index \in Nat /\ c.index <= Z
        /\ p.cycle \in {0, 1} /\ c.cycle \in {0, 1}
        /\ Z \in Nat /\ 0 < Z /\ Z \in Entries /\ Entries = 0 .. Z
        /\ n \in Nat /\ c \in Cursor /\ p \in Cursor
        /\ \A k \in 1 .. Z : Spot(c, k) \in Entries /\ Spot(c, k) < Z
    BY SpotIs
  <1>2. \A k, m \in 1 .. Z : m # k => Spot(c, m) # Spot(c, k)
    BY SpotIs
  <1>3. /\ DOMAIN r = Entries
        /\ \A i \in Entries : /\ r[i].cycle \in {0, 1}
                              /\ r[i].cycle = p.cycle <=> i < p.index
                              /\ i < Z => r[i].what # "link"
    BY DEF Ringed
  <1>4. IF p.cycle = c.cycle THEN c.index <= p.index /\ n = p.index - c.index
        ELSE /\ 0 < p.index /\ p.index <= c.index /\ n = Z - c.index + p.index
             /\ r[Z].what = "link"
    BY DEF Ringed
  <1>5. /\ q \in Cursor
        /\ p.index < Z => q.index = p.index + 1 /\ q.cycle = p.cycle
        /\ p.index = Z => q.index = 1 /\ q.cycle = 1 - p.cycle
    BY <1>1, AdvanceIs DEF Z
  <1>6. \A y : made(y).what = what /\ made(y).slot = slot /\ made(y).n = num /\ made(y).cycle = y
    OBVIOUS
  <1>7. link.what = "link" /\ link.cycle = p.cycle
    BY DEF Blank
  <1>8. n + 1 \in 1 .. Z /\ \A k \in 1 .. n : k \in 1 .. Z /\ k # n + 1
    BY <1>1
  <1>9. CASE p.index < Z
    <2>1. Wrapped(p) = p /\ ~(p.index >= Z)
      BY <1>1, <1>9 DEF Wrapped, Z
    <2>2. new = [r EXCEPT ![p.index] = made(p.cycle)]
      BY <2>1 DEF Put, Z
    <2>3. p.index \in Entries /\ p.index # Z
      BY <1>1, <1>9
    <2> HIDE DEF new, made, q, Z
    <2>4. /\ DOMAIN new = Entries /\ new[p.index] = made(p.cycle)
          /\ \A i \in Entries : i # p.index => new[i] = r[i]
      BY <1>3, <2>2, <2>3
    <2>5. q.index = p.index + 1 /\ q.cycle = p.cycle
      BY <1>5, <1>9
    <2>6. IF q.cycle = c.cycle THEN c.index <= q.index /\ n + 1 = q.index - c.index
          ELSE /\ 0 < q.index /\ q.index <= c.index /\ n + 1 = Z - c.index + q.index
               /\ new[Z].what = "link"
      <3>1. new[Z] = r[Z]
        BY <1>1, <2>3, <2>4
      <3>2. CASE p.cycle = c.cycle
        BY <1>1, <1>4, <2>5, <3>2
      <3>3. CASE p.cycle # c.cycle
        <4>1. 0 < p.index /\ p.index <= c.index /\ n = Z - c.index + p.index /\ r[Z].what = "link"
          BY <1>4, <3>3
        <4>2. q.index <= c.index
          BY <1>1, <2>5, <4>1
        <4>3. p.index \in Nat /\ c.index \in Nat /\ Z \in Nat /\ n \in Nat
          BY <1>1
        <4>4. \A x, y, z, m \in Nat : m = z - y + x => m + 1 = z - y + (x + 1)
          OBVIOUS
        <4>5. 0 < q.index /\ n + 1 = Z - c.index + q.index
          BY <2>5, <4>1, <4>3, <4>4
        <4> QED
          BY <2>5, <3>1, <3>3, <4>1, <4>2, <4>5
      <3> QED
        BY <3>2, <3>3
    <2>7. \A i \in Entries : /\ new[i].cycle \in {0, 1}
                             /\ new[i].cycle = q.cycle <=> i < q.index
                             /\ i < Z => new[i].what # "link"
      BY <1>1, <1>3, <1>6, <2>4, <2>5
    <2>8. Ringed(new, q, c, n + 1)
      BY <1>1, <1>5, <2>4, <2>6, <2>7 DEF Ringed
    <2>9. Spot(c, n + 1) = p.index
      BY <1>1, <2>5, <2>8, SpotIs
    <2>10. \A k \in 1 .. n : new[Spot(c, k)] = r[Spot(c, k)]
      BY <1>1, <1>2, <1>8, <2>4, <2>9
    <2> QED
      BY <1>6, <2>4, <2>8, <2>9, <2>10 DEF new, q
  <1>10. CASE p.index = Z
    <2>1. Wrapped(p) = [index |-> 0, cycle |-> 1 - p.cycle] /\ p.index >= Z
      BY <1>1, <1>10 DEF Wrapped, Z
    <2>2. new = [[r EXCEPT ![Z] = link] EXCEPT ![0] = made(1 - p.cycle)]
      BY <2>1 DEF Put, Z
    <2>3. 0 \in Entries /\ Z # 0
      BY <1>1
    <2> HIDE DEF new, made, link, q, Z
    <2>4. /\ DOMAIN new = Entries /\ new[0] = made(1 - p.cycle) /\ new[Z] = link
          /\ \A i \in Entries : i # 0 /\ i # Z => new[i] = r[i]
      BY <1>1, <1>3, <2>2, <2>3
    <2>5. q.index = 1 /\ q.cycle = 1 - p.cycle
      BY <1>5, <1>10
    <2>6. p.cycle = c.cycle
      BY <1>1, <1>4, <1>10
    <2>7. c.index <= Z /\ n = Z - c.index /\ 0 < c.index
      BY <1>1, <1>4, <1>10, <2>6
    <2>8. /\ q.cycle # c.cycle /\ 0 < q.index /\ q.index <= c.index
          /\ n + 1 = Z - c.index + q.index /\ new[Z].what = "link"
      BY <1>1, <1>7, <2>4, <2>5, <2>6, <2>7
    <2>9. \A i \in Entries : /\ new[i].cycle \in {0, 1}
                             /\ new[i].cycle = q.cycle <=> i < q.index
                             /\ i < Z => new[i].what # "link"
      <3> TAKE i \in Entries
      <3>1. i \in Nat /\ i <= Z
        BY <1>1
      <3>2. CASE i = 0
        BY <1>1, <1>6, <2>4, <2>5, <3>2
      <3>3. CASE i = Z
        BY <1>1, <1>7, <2>3, <2>4, <2>5, <3>3
      <3>4. CASE i # 0 /\ i # Z
        BY <1>1, <1>3, <1>10, <2>4, <2>5, <3>1, <3>4
      <3> QED
        BY <3>2, <3>3, <3>4
    <2>10. Ringed(new, q, c, n + 1)
      BY <1>1, <1>5, <2>4, <2>8, <2>9 DEF Ringed
    <2>11. Spot(c, n + 1) = 0
      BY <1>1, <2>5, <2>10, SpotIs
    <2>12. \A k \in 1 .. n : new[Spot(c, k)] = r[Spot(c, k)]
      BY <1>1, <1>2, <1>8, <2>4, <2>11
    <2> QED
      BY <1>6, <2>4, <2>10, <2>11, <2>12 DEF new, q
  <1> QED
    BY <1>1, <1>9, <1>10

\* The consumer has something to take exactly while there is an entry, and
\* takes the first.
LEMMA RingTake ==
    ASSUME NEW r, NEW p, NEW c, NEW n, Ringed(r, p, c, n)
    PROVE  /\ Ready(r, c) <=> n > 0
           /\ n > 0 => /\ Entry(r, c) = r[Spot(c, 1)]
                       /\ Ringed(r, p, Past(r, c), n - 1)
                       /\ \A k \in 1 .. n - 1 : Spot(Past(r, c), k) = Spot(c, k + 1)
  <1> DEFINE g == Past(r, c)
  <1>1. /\ p.index \in Nat /\ p.index <= Z /\ c.index \in Nat /\ c.index <= Z
        /\ p.cycle \in {0, 1} /\ c.cycle \in {0, 1}
        /\ Z \in Nat /\ 0 < Z /\ Z \in Entries /\ Entries = 0 .. Z
        /\ n \in Nat /\ n <= Z /\ c \in Cursor /\ p \in Cursor
    BY SpotIs
  <1>2. /\ DOMAIN r = Entries
        /\ \A i \in Entries : /\ r[i].cycle \in {0, 1}
                              /\ r[i].cycle = p.cycle <=> i < p.index
                              /\ i < Z => r[i].what # "link"
    BY DEF Ringed
  <1>3. IF p.cycle = c.cycle THEN c.index <= p.index /\ n = p.index - c.index
        ELSE /\ 0 < p.index /\ p.index <= c.index /\ n = Z - c.index + p.index
             /\ r[Z].what = "link"
    BY DEF Ringed
  <1> HIDE DEF Z
  <1>4. CASE n = 0
    <2>1. c.index = p.index /\ c.cycle = p.cycle
      BY <1>1, <1>3, <1>4
    <2>2. r[c.index].cycle # c.cycle
      BY <1>1, <1>2, <2>1
    <2> QED
      BY <1>4, <2>2 DEF Ready, Visible
  <1>5. CASE n > 0 /\ c.index < Z
    <2>1. r[c.index].cycle = c.cycle
      <3>1. CASE p.cycle = c.cycle
        BY <1>1, <1>2, <1>3, <1>5, <3>1
      <3>2. CASE p.cycle # c.cycle
        BY <1>1, <1>2, <1>3, <1>5, <3>2
      <3> QED
        BY <3>1, <3>2
    <2>2. Follow(r, c) = c
      BY <1>1, <1>2, <1>5 DEF Follow
    <2>3. g = [index |-> c.index + 1, cycle |-> c.cycle]
      BY <1>1, <2>2 DEF Past, Next1, Cursor
    <2>4. Ready(r, c) /\ Entry(r, c) = r[c.index]
      BY <2>1, <2>2 DEF Ready, Visible, Entry
    <2>5. Spot(c, 1) = c.index
      BY <1>1, <1>5 DEF Spot
    <2> HIDE DEF g
    <2>6. g \in Cursor /\ g.index = c.index + 1 /\ g.cycle = c.cycle
      BY <1>1, <1>5, <2>3 DEF Cursor
    <2>7. IF p.cycle = g.cycle THEN g.index <= p.index /\ n - 1 = p.index - g.index
          ELSE /\ 0 < p.index /\ p.index <= g.index /\ n - 1 = Z - g.index + p.index
               /\ r[Z].what = "link"
      BY <1>1, <1>3, <1>5, <2>6
    <2>8. Ringed(r, p, g, n - 1)
      BY <1>1, <1>2, <1>5, <2>6, <2>7 DEF Ringed
    <2>9. \A k \in 1 .. n - 1 : Spot(g, k) = Spot(c, k + 1)
      BY <1>1, <2>6 DEF Spot
    <2> QED
      BY <1>5, <2>4, <2>5, <2>8, <2>9 DEF g
  <1>6. CASE n > 0 /\ c.index = Z
    <2>1. p.cycle # c.cycle /\ r[Z].what = "link" /\ 0 < p.index /\ n = p.index
      BY <1>1, <1>3, <1>6
    <2>2. r[Z].cycle = c.cycle /\ r[0].cycle = p.cycle /\ p.cycle = 1 - c.cycle
      <3>1. 0 \in Entries /\ ~(Z < p.index) /\ 0 < p.index
        BY <1>1, <2>1
      <3>2. r[Z].cycle # p.cycle /\ r[Z].cycle \in {0, 1} /\ r[0].cycle = p.cycle
        BY <1>1, <1>2, <3>1
      <3> QED
        BY <1>1, <2>1, <3>2
    <2>3. Follow(r, c) = [index |-> 0, cycle |-> 1 - c.cycle]
      BY <1>6, <2>1 DEF Follow
    <2>4. g = [index |-> 1, cycle |-> 1 - c.cycle]
      BY <2>3 DEF Past, Next1
    <2>5. Ready(r, c) /\ Entry(r, c) = r[0]
      BY <1>6, <2>2, <2>3 DEF Ready, Visible, Entry
    <2>6. Spot(c, 1) = 0
      BY <1>1, <1>6 DEF Spot
    <2> HIDE DEF g
    <2>7. g \in Cursor /\ g.index = 1 /\ g.cycle = p.cycle
      BY <1>1, <2>2, <2>4 DEF Cursor
    <2>8. Ringed(r, p, g, n - 1)
      BY <1>1, <1>2, <2>1, <2>7 DEF Ringed
    <2>9. \A k \in 1 .. n - 1 : Spot(g, k) = Spot(c, k + 1)
      BY <1>1, <1>6, <2>7 DEF Spot
    <2> QED
      BY <1>6, <2>5, <2>6, <2>8, <2>9 DEF g
  <1> QED
    BY <1>1, <1>4, <1>5, <1>6

-----------------------------------------------------------------------------
(* The command ring is a queue, as long as it is not full.                 *)

LEMMA PutKeeps ==
    ASSUME CommandRing, issued - ran < RING_LEN - 1, NEW step, NEW slot, step # "link",
           cmdRing' = Put(cmdRing, cmd, step, slot, issued + 1),
           cmd' = Advance(cmd), issued' = issued + 1, UNCHANGED <<hcCmd, ran>>
    PROVE  /\ CommandRing'
           /\ cmdRing'[cmd'.index - 1].what = step /\ cmdRing'[cmd'.index - 1].slot = slot
  <1> DEFINE n == issued - ran
  <1>1. /\ issued \in Nat /\ ran \in Nat /\ ran <= issued /\ n \in Nat /\ n < Z
        /\ Ringed(cmdRing, cmd, hcCmd, n)
        /\ \A k \in 1 .. n : cmdRing[Spot(hcCmd, k)].n = ran + k
    BY DEF CommandRing, Z
  <1> HIDE DEF n
  <1>2. /\ Ringed(cmdRing', cmd', hcCmd, n + 1)
        /\ cmdRing'[Spot(hcCmd, n + 1)].what = step /\ cmdRing'[Spot(hcCmd, n + 1)].slot = slot
        /\ cmdRing'[Spot(hcCmd, n + 1)].n = issued + 1
        /\ \A k \in 1 .. n : cmdRing'[Spot(hcCmd, k)] = cmdRing[Spot(hcCmd, k)]
    BY <1>1, RingPut
  <1>3. n + 1 = issued' - ran' /\ ran' <= issued' /\ issued' \in Nat /\ ran' \in Nat
    BY <1>1 DEF n
  <1>4. \A k \in 1 .. n + 1 : cmdRing'[Spot(hcCmd, k)].n = ran + k
    <2> TAKE k \in 1 .. n + 1
    <2>1. CASE k = n + 1
      BY <1>1, <1>2, <2>1 DEF n
    <2>2. CASE k # n + 1
      <3>1. k \in 1 .. n
        BY <1>1, <2>2
      <3> QED
        BY <1>1, <1>2, <3>1
    <2> QED
      BY <2>1, <2>2
  <1>5. Spot(hcCmd, n + 1) = cmd'.index - 1
    BY <1>1, <1>2, SpotIs
  <1> QED
    BY <1>2, <1>3, <1>4, <1>5 DEF CommandRing

\* The controller has something to take exactly while a command is on its
\* way, and takes the first of them.
LEMMA ReadyIs ==
    ASSUME CommandRing
    PROVE  /\ issued \in Nat /\ ran \in Nat /\ ran <= issued
           /\ CommandReady <=> ran < issued
           /\ issued = ran + 1 => Entry(cmdRing, hcCmd) = cmdRing[cmd.index - 1]
           /\ CommandReady => Entry(cmdRing, hcCmd).n = ran + 1
  <1> DEFINE n == issued - ran
  <1>1. /\ issued \in Nat /\ ran \in Nat /\ ran <= issued /\ n \in Nat
        /\ Ringed(cmdRing, cmd, hcCmd, n)
        /\ \A k \in 1 .. n : cmdRing[Spot(hcCmd, k)].n = ran + k
    BY DEF CommandRing
  <1>2. (n > 0 <=> ran < issued) /\ (issued = ran + 1 => n = 1)
    BY <1>1
  <1> HIDE DEF n
  <1>3. CommandReady <=> n > 0
    BY <1>1, RingTake DEF CommandReady
  <1>4. n > 0 => Entry(cmdRing, hcCmd) = cmdRing[Spot(hcCmd, 1)]
    BY <1>1, RingTake
  <1>6. n > 0 => 1 \in 1 .. n
    BY <1>1
  <1>5. n = 1 => Spot(hcCmd, 1) = cmd.index - 1
    BY <1>1, SpotIs
  <1> QED
    BY <1>1, <1>2, <1>3, <1>4, <1>5, <1>6

LEMMA TakeKeeps ==
    ASSUME CommandRing, CommandReady, UNCHANGED cmdVars,
           ran' = Entry(cmdRing, hcCmd).n, hcCmd' = Past(cmdRing, hcCmd)
    PROVE  CommandRing' /\ ran' = ran + 1 /\ issued' = issued
  <1> DEFINE n == issued - ran
  <1>1. UNCHANGED <<cmdRing, cmd, issued>> /\ ran' = ran + 1 /\ ran < issued
    BY ReadyIs DEF cmdVars
  <1>2. /\ issued \in Nat /\ ran \in Nat /\ n \in Nat /\ n > 0
        /\ Ringed(cmdRing, cmd, hcCmd, n)
        /\ \A k \in 1 .. n : cmdRing[Spot(hcCmd, k)].n = ran + k
    BY <1>1 DEF CommandRing
  <1>3. n - 1 = issued' - ran' /\ ran' <= issued' /\ issued' \in Nat /\ ran' \in Nat
    BY <1>1, <1>2
  <1> HIDE DEF n
  <1>4. /\ Ringed(cmdRing, cmd, hcCmd', n - 1)
        /\ \A k \in 1 .. n - 1 : Spot(hcCmd', k) = Spot(hcCmd, k + 1)
    BY <1>2, RingTake
  <1>5. \A k \in 1 .. n - 1 : cmdRing[Spot(hcCmd', k)].n = ran' + k
    <2> TAKE k \in 1 .. n - 1
    <2>1. k + 1 \in 1 .. n /\ ran + (k + 1) = ran' + k
      BY <1>1, <1>2
    <2> QED
      BY <1>2, <1>4, <2>1
  <1> QED
    BY <1>1, <1>3, <1>4, <1>5 DEF CommandRing

LEMMA RingSame ==
    ASSUME CommandRing, UNCHANGED <<cmdVars, hcCmd, ran>> PROVE CommandRing'
  BY DEF CommandRing, cmdVars

LEMMA RingInit == ASSUME Init PROVE CommandRing
  <1>1. \A i \in Entries : cmdRing[i] = Blank
    BY DEF Init
  <1>2. cmd = Start /\ hcCmd = Start /\ issued = 0 /\ ran = 0 /\ DOMAIN cmdRing = Entries
    BY DEF Init
  <1>3. Ringed(cmdRing, cmd, hcCmd, 0)
    BY <1>1, <1>2, RingBlank
  <1> QED
    BY <1>2, <1>3 DEF CommandRing

-----------------------------------------------------------------------------
(* The order of the commands, when answers come late.                      *)

LEMMA AnswersFinite == IsFiniteSet(Answers) /\ Cardinality(Answers) \in Nat
  <1>1. IsFiniteSet(Entries)
    BY RingLen, FS_Interval
  <1>2. IsFiniteSet(Answers)
    BY <1>1, FS_Subset DEF Answers
  <1> QED
    BY <1>2, FS_CardinalityType

LEMMA AnswersPosted ==
    ASSUME EventQueue, NEW k, NEW ok, NEW slot, Post(k, ok, slot), UNCHANGED <<ev, seen>>
    PROVE  Cardinality(Answers)' = Cardinality(Answers) + (IF k = "command" THEN 1 ELSE 0)
  <1>1. /\ hcEv.index \in Entries /\ ~PendingAt(hcEv.index)
        /\ evRing'[hcEv.index].what = k
        /\ \A i \in Entries : i # hcEv.index => evRing'[i] = evRing[i]
        /\ \A i \in Entries : PendingAt(i)' <=> PendingAt(i) \/ i = hcEv.index
    BY PostKeeps
  <1>2. hcEv.index \notin Answers
    BY <1>1 DEF Answers
  <1>3. CASE k = "command"
    <2>1. Answers' = Answers \cup {hcEv.index}
      BY <1>1, <1>3 DEF Answers
    <2> QED
      BY <1>2, <1>3, <2>1, AnswersFinite, FS_AddElement
  <1>4. CASE k # "command"
    <2>1. Answers' = Answers
      BY <1>1, <1>4 DEF Answers
    <2> QED
      BY <1>4, <2>1, AnswersFinite
  <1> QED
    BY <1>3, <1>4

LEMMA AnswersTaken ==
    ASSUME EventQueue, HasEvent, ConsumeEvent, UNCHANGED <<evRing, hcEv, posted>>
    PROVE  Cardinality(Answers)' = Cardinality(Answers) - (IF Event.what = "command" THEN 1 ELSE 0)
  <1>1. /\ ev.index \in Entries /\ PendingAt(ev.index)
        /\ \A i \in Entries : PendingAt(i)' <=> PendingAt(i) /\ i # ev.index
    BY ConsumeKeeps
  <1>2. CASE Event.what = "command"
    <2>1. ev.index \in Answers
      BY <1>1, <1>2 DEF Answers, Event
    <2>2. Answers' = Answers \ {ev.index}
      BY <1>1, <1>2 DEF Answers
    <2> QED
      BY <1>2, <2>1, <2>2, AnswersFinite, FS_RemoveElement
  <1>3. CASE Event.what # "command"
    <2>1. Answers' = Answers
      BY <1>1, <1>3 DEF Answers, Event
    <2> QED
      BY <1>3, <2>1, AnswersFinite
  <1> QED
    BY <1>2, <1>3

LEMMA AnswersSame ==
    ASSUME UNCHANGED <<evRing, ev, hcEv>> PROVE Cardinality(Answers)' = Cardinality(Answers)
  BY DEF Answers, PendingAt

\* Whatever a wait has come to, the driver goes on.
LEMMA ProceedGoesOn == ASSUME NEW ok, NEW slot, Proceed(ok, slot) PROVE Awaiting' = 0
  BY DEF Proceed, Awaiting

LEMMA LateInit == ASSUME Init PROVE LateInv
  <1>1. CommandRing
    BY RingInit
  <1>2. Start.index = 0 /\ Start.cycle = 1
    BY DEF Start
  <1>3. Answers = {}
    BY <1>2, RingLen DEF Answers, PendingAt, Init
  <1>4. Cardinality(Answers) = 0
    BY <1>3, FS_EmptySet
  <1> QED
    BY <1>1, <1>4, XhciAssumption DEF Init, LateInv, Awaiting

LEMMA LateStep ==
    ASSUME MaxLate + 2 <= RING_LEN, EventQueue, LateInv, [Next]_vars
    PROVE  LateInv' /\ (ran' = ran \/ ran' = ran + 1)
  <1> DEFINE owed == (issued - ran) + Cardinality(Answers)
  <1>1. /\ late \in Nat /\ MaxLate \in Nat /\ late <= MaxLate /\ CommandRing
        /\ issued \in Nat /\ ran \in Nat /\ ran <= issued /\ (CommandReady <=> ran < issued)
        /\ Cardinality(Answers) \in Nat /\ owed <= late + Awaiting
    BY ReadyIs, AnswersFinite, XhciAssumption DEF LateInv
  <1>2. Awaiting \in {0, 1} /\ Awaiting' \in {0, 1}
    BY DEF Awaiting
  <1>3. CASE Command
    <2>1. /\ CommandReady /\ UNCHANGED <<cmdVars, late, pc>> /\ UNCHANGED <<ev, seen>>
          /\ ran' = Entry(cmdRing, hcCmd).n /\ hcCmd' = Past(cmdRing, hcCmd)
          /\ \E ok, slot : Post("command", ok, slot)
      BY <1>3 DEF Command, evVars, driverVars
    <2>2. CommandRing' /\ ran' = ran + 1 /\ issued' = issued
      BY <1>1, <2>1, TakeKeeps
    <2>3. Cardinality(Answers)' = Cardinality(Answers) + 1
      BY <2>1, AnswersPosted
    <2>4. Awaiting' = Awaiting
      BY <2>1 DEF Awaiting
    <2> QED
      BY <1>1, <1>2, <2>1, <2>2, <2>3, <2>4 DEF LateInv
  <1>4. CASE \E s \in Slots : Control(s) \/ Interrupt(s)
    <2>1. /\ UNCHANGED <<cmdVars, hcCmd, ran>> /\ UNCHANGED <<late, pc>> /\ UNCHANGED <<ev, seen>>
          /\ \E ok, slot : Post("transfer", ok, slot)
      BY <1>4 DEF Control, Interrupt, evVars, driverVars
    <2>2. CommandRing' /\ issued' = issued
      BY <1>1, <2>1, RingSame DEF cmdVars
    <2>3. Cardinality(Answers)' = Cardinality(Answers) + 0
      BY <2>1, AnswersPosted
    <2>4. Awaiting' = Awaiting
      BY <2>1 DEF Awaiting
    <2> QED
      BY <1>1, <1>2, <2>1, <2>2, <2>3, <2>4 DEF LateInv
  <1>5. ASSUME NEW step, NEW slot, step # "link", pc # "wait_command", IssueCommand(step, slot),
               UNCHANGED <<hcCmd, ran, evRing, ev, hcEv, late>>
        PROVE  LateInv'
    <2>1. Awaiting = 0 /\ Awaiting' = 1
      BY <1>5 DEF Awaiting, IssueCommand
    <2>2. issued - ran < RING_LEN - 1 /\ issued' = issued + 1
      BY <1>1, <1>5, <2>1, RingLen DEF IssueCommand
    <2>3. CommandRing'
      BY <1>1, <1>5, <2>2, PutKeeps DEF IssueCommand
    <2>4. Cardinality(Answers)' = Cardinality(Answers)
      BY <1>5, AnswersSame
    <2> QED
      BY <1>1, <1>5, <2>1, <2>2, <2>3, <2>4 DEF LateInv
  <1>6. ASSUME UNCHANGED <<cmdVars, hcCmd, ran, evRing, ev, hcEv, late>>, Awaiting <= Awaiting'
        PROVE  LateInv'
    <2>1. CommandRing' /\ issued' = issued
      BY <1>1, <1>6, RingSame DEF cmdVars
    <2>2. Cardinality(Answers)' = Cardinality(Answers)
      BY <1>6, AnswersSame
    <2> QED
      BY <1>1, <1>2, <1>6, <2>1, <2>2 DEF LateInv
  <1>7. CASE NextPort
    <2>1. /\ pc = "ports" /\ UNCHANGED <<hcCmd, ran, evRing, ev, hcEv, late>>
          /\ IssueCommand("enable", NoSlot) \/ UNCHANGED <<cmdVars, pc>>
      BY <1>7 DEF NextPort, hcVars, evVars
    <2>2. CASE IssueCommand("enable", NoSlot)
      BY <1>5, <2>1, <2>2
    <2>3. CASE UNCHANGED <<cmdVars, pc>>
      <3>1. Awaiting = 0
        BY <2>1 DEF Awaiting
      <3> QED
        BY <1>2, <1>6, <2>1, <2>3, <3>1
    <2> QED
      BY <2>1, <2>2, <2>3
  <1>8. CASE Issue
    <2>1. pc = "step" /\ UNCHANGED <<hcCmd, ran, evRing, ev, hcEv, late>>
      BY <1>8 DEF Issue, evVars, bounds
    <2>2. CASE at.step \in CommandSteps /\ IssueCommand(at.step, devices[Idx].slot)
      <3>1. at.step # "link"
        BY <2>2 DEF CommandSteps
      <3> QED
        BY <1>5, <2>1, <2>2, <3>1
    <2>3. CASE UNCHANGED cmdVars
      <3>1. Awaiting = 0
        BY <2>1 DEF Awaiting
      <3> QED
        BY <1>2, <1>6, <2>1, <2>3, <3>1
    <2> QED
      BY <1>8, <2>2, <2>3 DEF Issue, CommandSteps
  <1>9. ASSUME HasEvent, ConsumeEvent, UNCHANGED <<evRing, hcEv, posted>>,
               UNCHANGED <<cmdVars, hcCmd, ran, late>>,
               Awaiting' = Awaiting \/ Awaiting = 0 \/ Event.what = "command"
        PROVE  LateInv'
    <2>1. CommandRing' /\ issued' = issued
      BY <1>1, <1>9, RingSame DEF cmdVars
    <2>2. Cardinality(Answers)' = Cardinality(Answers) - (IF Event.what = "command" THEN 1 ELSE 0)
      BY <1>9, AnswersTaken
    <2> QED
      BY <1>1, <1>2, <1>9, <2>1, <2>2 DEF LateInv
  <1>10. CASE Answer
    <2>1. /\ HasEvent /\ ConsumeEvent /\ UNCHANGED <<evRing, hcEv, posted>>
          /\ UNCHANGED <<cmdVars, hcCmd, ran, late>> /\ Event.what = Awaited
      BY <1>10 DEF Answer, hcVars, bounds
    <2>2. Awaiting = 0 \/ Event.what = "command"
      BY <2>1 DEF Awaiting, Awaited
    <2> QED
      BY <1>9, <2>1, <2>2
  <1>11. CASE Skip \/ DrainEvent
    <2>1. /\ HasEvent /\ ConsumeEvent /\ UNCHANGED <<evRing, hcEv, posted>>
          /\ UNCHANGED <<cmdVars, hcCmd, ran, late>> /\ pc' = pc
      BY <1>11 DEF Skip, DrainEvent, hcVars, driverVars, bounds
    <2>2. Awaiting' = Awaiting
      BY <2>1 DEF Awaiting
    <2> QED
      BY <1>9, <2>1, <2>2
  <1>12. CASE GiveUp
    <2>1. /\ ~HasEvent /\ UNCHANGED <<cmdVars, hcCmd, ran>> /\ UNCHANGED <<evRing, ev, hcEv>>
          /\ \/ late < MaxLate /\ late' = late + 1
             \/ late' = late /\ ~CommandReady
      BY <1>12 DEF GiveUp, hcVars, evVars
    <2>2. Awaiting' = 0
      BY <1>12, ProceedGoesOn DEF GiveUp
    <2>3. CommandRing' /\ issued' = issued
      BY <1>1, <2>1, RingSame DEF cmdVars
    <2>4. Cardinality(Answers)' = Cardinality(Answers)
      BY <2>1, AnswersSame
    <2>5. Cardinality(Answers) = 0
      <3>1. Answers = {}
        BY <2>1, HasEventIs DEF Answers
      <3> QED
        BY <3>1, FS_EmptySet
    <2>6. late' \in 0 .. MaxLate /\ (issued - ran) + 0 <= late' + 0
      BY <1>1, <1>2, <2>1, <2>5
    <2>7. (issued' - ran') + Cardinality(Answers)' <= late' + Awaiting'
      BY <2>1, <2>2, <2>3, <2>4, <2>5, <2>6
    <2> QED
      BY <2>1, <2>3, <2>6, <2>7 DEF LateInv
  <1>13. CASE BringUpDone \/ Unit \/ TakeReport \/ \E d \in Indices : Poll(d)
    <2>1. /\ UNCHANGED <<cmdVars, hcCmd, ran, evRing, ev, hcEv, late>>
          /\ pc # "wait_command"
      BY <1>13 DEF BringUpDone, Unit, TakeReport, Poll, hcVars, evVars, bounds
    <2>2. Awaiting = 0
      BY <2>1 DEF Awaiting
    <2> QED
      BY <1>2, <1>6, <2>1, <2>2
  <1>14. CASE UNCHANGED vars
    <2>1. UNCHANGED <<cmdVars, hcCmd, ran, evRing, ev, hcEv, late>> /\ pc' = pc
      BY <1>14 DEF vars, cmdVars
    <2>2. Awaiting' = Awaiting
      BY <2>1 DEF Awaiting
    <2> QED
      BY <1>2, <1>6, <2>1, <2>2
  <1>15. ~Command => ran' = ran
    BY DEF Next, Driver, Controller, Control, Interrupt, NextPort, BringUpDone, Issue, Answer, Skip,
           GiveUp, Unit, Poll, DrainEvent, TakeReport, hcVars, vars
  <1> QED
    BY <1>3, <1>4, <1>7, <1>8, <1>10, <1>11, <1>12, <1>13, <1>14, <1>15 DEF Next, Driver, Controller

\* The controller carries the commands out in the order of issue, none twice
\* and none left out, as long as fewer waits end too soon than the ring has
\* entries for commands, less one: the producer's side of command, which
\* never looks where the controller is, and its link and cycle bits.
THEOREM CommandsTakenInOrder ==
    ASSUME MaxLate + 2 <= RING_LEN PROVE MCFairSpec => CommandsInOrder
  <1>1. Init => EventQueue /\ LateInv
    BY QueueInit, LateInit
  <1>2. (EventQueue /\ LateInv) /\ [Next]_vars => (EventQueue /\ LateInv)'
    BY QueueStep, LateStep
  <1>3. EventQueue /\ LateInv /\ [Next]_vars => [ran' = ran + 1]_<<ran>>
    BY LateStep
  <1> QED
    BY <1>1, <1>2, <1>3, ScanRefine, PTL DEF Spec, CommandsInOrder

-----------------------------------------------------------------------------
(* The table, and what leaves it alone.                                    *)

SameTable ==
    /\ DOMAIN slots' = Slots /\ DOMAIN devices' = Indices
    /\ \A s \in Slots : "state" \in DOMAIN slots'[s] /\ slots'[s].state = slots[s].state
    /\ \A d \in Indices : "slot" \in DOMAIN devices'[d] /\ devices'[d].slot = devices[d].slot
    /\ UNCHANGED <<dcbaa, device_count>>

LEMMA TableSame ==
    ASSUME Table, SameTable
    PROVE  /\ Table'
           /\ \A s \in Slots : Kept(s)' <=> Kept(s)
           /\ \A X : (Balanced(X) => Balanced(X)') /\ (Followed(X) => Followed(X)')
  <1>1. Table'
    BY DEF Table, SameTable
  <1>2. ASSUME NEW s PROVE Kept(s)' <=> Kept(s)
    BY DEF Kept, SameTable
  <1>3. ASSUME NEW X, Balanced(X) PROVE Balanced(X)'
    BY <1>2, <1>3 DEF Balanced, SameTable
  <1>4. ASSUME NEW X, Followed(X) PROVE Followed(X)'
    BY <1>2, <1>4 DEF Followed, SameTable
  <1> QED
    BY <1>1, <1>2, <1>3, <1>4

LEMMA TableUnchanged ==
    ASSUME Table, UNCHANGED <<slots, devices, dcbaa, device_count>> PROVE SameTable
  BY DEF Table, SameTable

\* Doorbells, transfers and stalls leave the state of a slot alone.
LEMMA StateKept ==
    ASSUME NEW t, "state" \in DOMAIN t, NEW ep \in {"ep0", "intr"}, NEW rg
    PROVE  /\ "state" \in DOMAIN Ring(t, ep, rg) /\ Ring(t, ep, rg).state = t.state
           /\ "state" \in DOMAIN Taken(t, ep, rg) /\ Taken(t, ep, rg).state = t.state
           /\ "state" \in DOMAIN Halted(t, ep) /\ Halted(t, ep).state = t.state
  <1>1. "state" # ep
    OBVIOUS
  <1> QED
    BY <1>1 DEF Ring, Taken, Halted

LEMMA EnqueueKeeps ==
    ASSUME Table, NEW d, NEW what, NEW ep \in {"ep0", "intr"}, Enqueue(d, what, ep),
           UNCHANGED <<dcbaa, device_count>>
    PROVE  SameTable
  <1> DEFINE r == devices[d].slot
             rg == rings'[d]
  <1>1. slots' = [slots EXCEPT ![r] = Ring(@, ep, rg)]
    BY DEF Enqueue
  <1>2. /\ DOMAIN slots' = Slots
        /\ \A s \in Slots : "state" \in DOMAIN slots'[s] /\ slots'[s].state = slots[s].state
    <2> HIDE DEF r, rg
    <2>1. DOMAIN slots = Slots /\ \A s \in Slots : "state" \in DOMAIN slots[s]
      BY DEF Table
    <2>2. \A s \in Slots : slots'[s] = IF s = r THEN Ring(slots[s], ep, rg) ELSE slots[s]
      BY <1>1, <2>1
    <2>3. DOMAIN slots' = Slots
      BY <1>1, <2>1
    <2>4. ASSUME NEW s \in Slots
          PROVE  "state" \in DOMAIN slots'[s] /\ slots'[s].state = slots[s].state
      <3>1. "state" \in DOMAIN slots[s]
        BY <2>1
      <3>2. CASE s = r
        <4>1. slots'[s] = Ring(slots[s], ep, rg)
          BY <2>2, <3>2
        <4>2. PICK t : t = slots[s]
          OBVIOUS
        <4>3. "state" \in DOMAIN Ring(t, ep, rg) /\ Ring(t, ep, rg).state = t.state
          BY <3>1, <4>2, StateKept
        <4> QED
          BY <4>1, <4>2, <4>3
      <3>3. CASE s # r
        BY <2>2, <3>1, <3>3
      <3> QED
        BY <3>2, <3>3
    <2> QED
      BY <2>3, <2>4
  <1>3. /\ DOMAIN devices' = Indices
        /\ \A x \in Indices : "slot" \in DOMAIN devices'[x] /\ devices'[x].slot = devices[x].slot
    BY DEF Table, Enqueue
  <1> QED
    BY <1>2, <1>3 DEF SameTable

\* The controller's transfers: the states stay, and a transfer event more is
\* no answer to a command.
LEMMA TransferKeeps ==
    ASSUME EventQueue, CommandRing, Matched,
           NEW s \in Slots, Control(s) \/ Interrupt(s)
    PROVE  CommandRing' /\ Matched'
  <1>1. UNCHANGED <<cmdVars, hcCmd, ran>> /\ UNCHANGED <<ev, seen, devices, device_count, dcbaa, pc, at>>
    BY DEF Control, Interrupt, driverVars, evVars
  <1>2. CommandRing'
    BY <1>1, RingSame
  <1>3. PICK ok, slot : Post("transfer", ok, slot)
    BY DEF Control, Interrupt
  <1>4. SameTable
    <2>1. DOMAIN slots = Slots /\ \A x \in Slots : "state" \in DOMAIN slots[x]
      BY DEF Matched, Table
    <2>2. \E u : /\ slots' = [slots EXCEPT ![s] = u]
                 /\ "state" \in DOMAIN u /\ u.state = slots[s].state
      <3>1. ASSUME NEW ep \in {"ep0", "intr"}, NEW rg
            PROVE  LET t == Taken(slots[s], ep, rg)
                   IN  /\ "state" \in DOMAIN t /\ t.state = slots[s].state
                       /\ "state" \in DOMAIN Halted(t, ep) /\ Halted(t, ep).state = slots[s].state
        <4>1. "state" \in DOMAIN slots[s]
          BY <2>1
        <4>2. /\ "state" \in DOMAIN Taken(slots[s], ep, rg)
              /\ Taken(slots[s], ep, rg).state = slots[s].state
          BY <4>1, StateKept
        <4> QED
          BY <4>2, StateKept
      <3>2. \E ep \in {"ep0", "intr"} : \E rg :
                LET t == Taken(slots[s], ep, rg)
                IN  \/ slots' = [slots EXCEPT ![s] = t]
                    \/ slots' = [slots EXCEPT ![s] = Halted(t, ep)]
        BY DEF Control, Interrupt
      <3> QED
        BY <3>1, <3>2
    <2>3. /\ DOMAIN slots' = Slots
          /\ \A x \in Slots : "state" \in DOMAIN slots'[x] /\ slots'[x].state = slots[x].state
      BY <2>1, <2>2
    <2> QED
      BY <1>1, <2>3 DEF SameTable, Matched, Table
  <1>5. /\ hcEv.index \in Entries /\ ~PendingAt(hcEv.index)
        /\ evRing'[hcEv.index].what = "transfer"
        /\ \A i \in Entries : i # hcEv.index => evRing'[i] = evRing[i]
        /\ \A i \in Entries : PendingAt(i)' <=> PendingAt(i) \/ i = hcEv.index
    BY <1>1, <1>3, PostKeeps
  <1>6. Quiet => Quiet'
    BY <1>5 DEF Quiet
  <1>7. Own' = Own /\ Idx' = Idx /\ issued' = issued /\ ran' = ran /\ cmd' = cmd /\ cmdRing' = cmdRing
    BY <1>1 DEF Own, Idx, cmdVars
  <1>8. Table' /\ \A X : (Balanced(X) => Balanced(X)') /\ (Followed(X) => Followed(X)')
    BY <1>4, TableSame DEF Matched
  <1>9. \A x \in Slots : Kept(x)' <=> Kept(x)
    BY <1>4, TableSame DEF Matched
  <1>10. ASSUME NEW e, Settled(e) PROVE Settled(e)'
    BY <1>1, <1>7, <1>8, <1>9, <1>10 DEF Settled
  <1>11. Answered => Answered'
    <2> SUFFICES ASSUME Answered PROVE Answered'
      OBVIOUS
    <2>1. PICK j \in Entries :
            /\ PendingAt(j) /\ evRing[j].what = "command" /\ Settled(evRing[j])
            /\ \A i \in Entries : PendingAt(i) /\ evRing[i].what = "command" => i = j
      BY DEF Answered
    <2>2. j # hcEv.index /\ evRing'[j] = evRing[j]
      BY <1>5, <2>1
    <2>3. PendingAt(j)' /\ evRing'[j].what = "command" /\ Settled(evRing[j])'
      BY <1>5, <1>10, <2>1, <2>2
    <2>4. \A i \in Entries : PendingAt(i)' /\ evRing'[i].what = "command" => i = j
      BY <1>5, <2>1
    <2> QED
      BY <1>7, <2>2, <2>3, <2>4 DEF Answered, Settled
  <1>12. Asked => Asked'
    BY <1>1, <1>6, <1>7, <1>8 DEF Asked
  <1>13. Placed'
    BY <1>1, <1>6, <1>7, <1>8, <1>11, <1>12 DEF Placed, Matched
  <1> QED
    BY <1>1, <1>2, <1>8, <1>13 DEF Matched
LEMMA EffectIs ==
    ASSUME DOMAIN slots = Slots, \A x \in Slots : "state" \in DOMAIN slots[x],
           NEW trb, NEW s \in Slots, trb.what \in CommandSteps
    PROVE  /\ DOMAIN Effect(trb, s) = Slots
           /\ \A x \in Slots : "state" \in DOMAIN Effect(trb, s)[x]
           /\ \A x \in Slots \ {s} : Effect(trb, s)[x] = slots[x]
           /\ Effect(trb, s)[s].state = "free" <=> trb.what = "disable"
  <1>1. "state" \in DOMAIN slots[s]
    OBVIOUS
  <1>2. \E u : /\ Effect(trb, s) = [slots EXCEPT ![s] = u] /\ "state" \in DOMAIN u
               /\ u.state = "free" <=> trb.what = "disable"
    <2>1. CASE trb.what = "enable"
      <3>1. Effect(trb, s) = [slots EXCEPT ![s] = [FreeSlot EXCEPT !.state = "enabled"]]
        BY <2>1 DEF Effect
      <3> QED
        BY <2>1, <3>1 DEF FreeSlot
    <2>2. CASE trb.what = "address"
      <3> DEFINE u == [slots[s] EXCEPT !.state = "addressed", !.port = input.port,
                                       !.dev = input.dev, !.ep0 = Start]
      <3>1. Effect(trb, s) = [slots EXCEPT ![s] = u]
        BY <2>2 DEF Effect
      <3>2. "state" \in DOMAIN u /\ u.state = "addressed"
        BY <1>1
      <3> QED
        BY <2>2, <3>1, <3>2
    <2>3. CASE trb.what = "endpoint"
      <3> DEFINE u == [slots[s] EXCEPT !.state = "hid", !.intr = Start]
      <3>1. Effect(trb, s) = [slots EXCEPT ![s] = u]
        BY <2>3 DEF Effect
      <3>2. "state" \in DOMAIN u /\ u.state = "hid"
        BY <1>1
      <3> QED
        BY <2>3, <3>1, <3>2
    <2>4. CASE trb.what = "bulk"
      <3> DEFINE u == [slots[s] EXCEPT !.state = "stick"]
      <3>1. Effect(trb, s) = [slots EXCEPT ![s] = u]
        BY <2>4 DEF Effect
      <3>2. "state" \in DOMAIN u /\ u.state = "stick"
        BY <1>1
      <3> QED
        BY <2>4, <3>1, <3>2
    <2>5. CASE trb.what = "disable"
      <3>1. Effect(trb, s) = [slots EXCEPT ![s] = FreeSlot]
        BY <2>5 DEF Effect
      <3>2. "state" \in DOMAIN FreeSlot /\ FreeSlot.state = "free"
        BY DEF FreeSlot
      <3> QED
        BY <2>5, <3>1, <3>2
    <2> QED
      BY <2>1, <2>2, <2>3, <2>4, <2>5 DEF CommandSteps
  <1> QED
    BY <1>2

\* The controller carries the command out, and its answer is the only one.
LEMMA CommandKeeps ==
    ASSUME EventQueue, CommandRing, Matched, Command
    PROVE  CommandRing' /\ Matched'
  <1> DEFINE trb == Entry(cmdRing, hcCmd)
  <1>1. /\ CommandReady /\ ran' = trb.n /\ hcCmd' = Past(cmdRing, hcCmd)
        /\ UNCHANGED cmdVars
        /\ UNCHANGED <<ev, seen, devices, device_count, dcbaa, pc, at>>
    BY DEF Command, driverVars, evVars
  <1>2. issued \in Nat /\ ran \in Nat /\ ran < issued
    BY <1>1, ReadyIs
  <1>3. /\ issued = ran + 1 /\ issued # ran /\ trb = cmdRing[cmd.index - 1]
        /\ CommandRing' /\ issued' = ran'
    <2>1. issued = ran \/ issued = ran + 1
      BY DEF Matched, Placed, Asked, Answered
    <2>2. issued = ran + 1
      BY <1>2, <2>1
    <2> QED
      BY <1>1, <1>2, <2>2, ReadyIs, TakeKeeps
  <1>4. /\ pc = "wait_command" /\ at.step \in CommandSteps
        /\ Idx = device_count /\ Idx \in Indices /\ Asked
    BY <1>3 DEF Matched, Placed, Answered
  <1>5. trb.what = at.step /\ trb.slot = (IF at.step = "enable" THEN NoSlot ELSE Own)
    BY <1>3, <1>4 DEF Asked
  <1>6. PICK ok, slot :
            /\ ok \in BOOLEAN /\ Post("command", ok, slot)
            /\ \/ /\ ok /\ slots' = Effect(trb, slot)
                  /\ slot \in IF trb.what = "enable"
                                THEN {x \in Slots : slots[x].state = "free"}
                                ELSE {trb.slot}
               \/ ~ok /\ slots' = slots /\ (trb.what = "disable" => Refused(trb))
    BY DEF Command
  <1> HIDE DEF trb
  <1>7. /\ hcEv.index \in Entries /\ ~PendingAt(hcEv.index)
        /\ evRing'[hcEv.index].what = "command"
        /\ evRing'[hcEv.index].ok = ok /\ evRing'[hcEv.index].slot = slot
        /\ \A i \in Entries : i # hcEv.index => evRing'[i] = evRing[i]
        /\ \A i \in Entries : PendingAt(i)' <=> PendingAt(i) \/ i = hcEv.index
    BY <1>1, <1>6, PostKeeps
  <1>8. \A i \in Entries : PendingAt(i)' /\ evRing'[i].what = "command" => i = hcEv.index
    BY <1>4, <1>7 DEF Asked, Quiet
  <1>9. Own' = Own /\ Idx' = Idx /\ \A x : Kept(x)' <=> Kept(x)
    BY <1>1 DEF Own, Idx, Kept
  <1>10. /\ at.step = "enable" => Balanced({}) /\ Followed({})
         /\ at.step # "enable" => Balanced({Own}) /\ Followed({Own}) /\ Own \in Slots /\ ~Kept(Own)
    BY <1>4 DEF Asked, Balanced
  <1>11. DOMAIN slots = Slots /\ \A x \in Slots : "state" \in DOMAIN slots[x]
    BY DEF Matched, Table
  <1>12. ok => slot \in Slots
    BY <1>5, <1>6, <1>10
  <1>13. Table'
    <2>1. DOMAIN slots' = Slots /\ \A x \in Slots : "state" \in DOMAIN slots'[x]
      BY <1>4, <1>5, <1>6, <1>11, <1>12, EffectIs
    <2> QED
      BY <1>1, <2>1 DEF Matched, Table
  <1>14. ok => /\ \A x \in Slots \ {slot} : slots'[x] = slots[x]
               /\ slots'[slot].state = "free" <=> at.step = "disable"
    BY <1>4, <1>5, <1>6, <1>11, <1>12, EffectIs
  <1>15. \A X : Followed(X) => Followed(X)'
    BY <1>1, <1>9 DEF Followed
  <1>16. at.step = "enable" => Balanced(IF ok THEN {slot} ELSE {})' /\ Followed({})'
    <2> SUFFICES ASSUME at.step = "enable"
                 PROVE  Balanced(IF ok THEN {slot} ELSE {})' /\ Followed({})'
      OBVIOUS
    <2>1. CASE ok
      <3>1. slot \in Slots /\ slots[slot].state = "free" /\ ~Kept(slot)
        BY <1>5, <1>6, <1>10, <2>1 DEF Balanced
      <3>2. Balanced({slot})'
        BY <1>9, <1>10, <1>14, <2>1, <3>1 DEF Balanced
      <3> QED
        BY <1>10, <1>15, <2>1, <3>2
    <2>2. CASE ~ok
      <3>1. Balanced({})'
        BY <1>6, <1>9, <1>10, <2>2 DEF Balanced
      <3> QED
        BY <1>10, <1>15, <2>2, <3>1
    <2> QED
      BY <2>1, <2>2
  <1>17. at.step = "disable" =>
            Balanced({})' /\ Own' \in Slots /\ ~Kept(Own)' /\ Followed({Own})'
    <2> SUFFICES ASSUME at.step = "disable"
                 PROVE  Balanced({})' /\ Own' \in Slots /\ ~Kept(Own)' /\ Followed({Own})'
      OBVIOUS
    <2>1. slots[Own].state # "free"
      BY <1>10 DEF Balanced
    <2>2. ok
      BY <1>5, <1>6, <2>1 DEF Refused
    <2>3. slot = Own
      BY <1>5, <1>6, <2>2
    <2>4. Balanced({})'
      BY <1>9, <1>10, <1>14, <2>2, <2>3 DEF Balanced
    <2> QED
      BY <1>9, <1>10, <1>15, <2>4
  <1>18. at.step \notin {"enable", "disable"} => Balanced({Own})' /\ Followed({Own})'
    <2> SUFFICES ASSUME at.step \notin {"enable", "disable"}
                 PROVE  Balanced({Own})' /\ Followed({Own})'
      OBVIOUS
    <2>1. CASE ok
      <3>1. slot = Own
        BY <1>5, <1>6, <2>1
      <3>2. Balanced({Own})'
        BY <1>9, <1>10, <1>14, <2>1, <3>1 DEF Balanced
      <3> QED
        BY <1>9, <1>10, <1>15, <3>2
    <2>2. CASE ~ok
      <3>1. Balanced({Own})'
        BY <1>6, <1>9, <1>10, <2>2 DEF Balanced
      <3> QED
        BY <1>9, <1>10, <1>15, <3>1
    <2> QED
      BY <2>1, <2>2
  <1>19. PICK j \in Entries : j = hcEv.index
    BY <1>7
  <1>20. evRing'[j].what = "command" /\ evRing'[j].ok = ok /\ evRing'[j].slot = slot /\ PendingAt(j)'
    BY <1>7, <1>19
  <1>21. Settled(evRing[j])'
    BY <1>1, <1>16, <1>17, <1>18, <1>20 DEF Settled
  <1>22. Answered'
    BY <1>3, <1>8, <1>19, <1>20, <1>21 DEF Answered
  <1> QED
    BY <1>1, <1>3, <1>4, <1>9, <1>13, <1>22 DEF Matched, Placed
-----------------------------------------------------------------------------
(* The driver.                                                             *)

LEMMA QuietSame == ASSUME Quiet, UNCHANGED <<evRing, ev, hcEv>> PROVE Quiet'
  BY DEF Quiet, PendingAt

\* A command is issued: the step and the slot are those of the driver.
LEMMA IssueCommandKeeps ==
    ASSUME CommandRing, issued = ran, Quiet, at'.step \in CommandSteps,
           IssueCommand(at'.step, IF at'.step = "enable" THEN NoSlot ELSE Own'),
           UNCHANGED <<hcCmd, ran, evRing, ev, hcEv>>,
           IF at'.step = "enable" THEN Balanced({})' /\ Followed({})'
           ELSE Balanced({Own})' /\ Followed({Own})'
    PROVE  CommandRing' /\ Asked' /\ pc' = "wait_command"
  <1> DEFINE step == at'.step
             slot == IF at'.step = "enable" THEN NoSlot ELSE Own'
  <1>1. /\ cmdRing' = Put(cmdRing, cmd, step, slot, issued + 1)
        /\ cmd' = Advance(cmd) /\ issued' = issued + 1 /\ pc' = "wait_command"
    BY DEF IssueCommand
  <1>2. step # "link"
    BY DEF CommandSteps
  <1>3. /\ CommandRing' /\ issued' = ran' + 1
        /\ cmdRing'[cmd'.index - 1].what = step /\ cmdRing'[cmd'.index - 1].slot = slot
    <2>1. issued \in Nat /\ issued - ran < RING_LEN - 1 /\ issued' = ran' + 1
      BY <1>1, RingLen, ReadyIs
    <2> HIDE DEF step, slot
    <2> QED
      BY <1>1, <1>2, <2>1, PutKeeps
  <1>4. Quiet'
    BY QuietSame
  <1> QED
    BY <1>1, <1>3, <1>4 DEF Asked

\* What holds between two devices.
LEMMA BetweenDevices ==
    ASSUME Matched, pc \in {"ports", "poll", "drain"}
    PROVE  Table /\ issued = ran /\ Quiet /\ Balanced({}) /\ Followed({})
  BY DEF Matched, Placed

\* What holds with a device in hand.
LEMMA InHand ==
    ASSUME Matched, pc \in {"step", "unit", "wait_transfer"}
    PROVE  /\ Table /\ issued = ran /\ Quiet /\ Idx = device_count /\ Idx \in Indices
           /\ Balanced({Own}) /\ Followed({Own}) /\ Own \in Slots /\ ~Kept(Own)
           /\ pc = "step" => at.step \in (CommandSteps \ {"enable"}) \cup ControlSteps
           /\ pc = "wait_transfer" => at.step \in ControlSteps
  BY DEF Matched, Placed, Balanced

LEMMA NextPortKeeps ==
    ASSUME CommandRing, Matched, NextPort PROVE CommandRing' /\ Matched'
  <1>1. /\ pc = "ports" /\ at' = [port |-> at.port + 1, step |-> "enable", dev |-> device_count]
        /\ UNCHANGED <<hcCmd, ran, evRing, ev, hcEv, slots, devices, dcbaa, device_count>>
    BY DEF NextPort, hcVars, evVars
  <1>2. Table /\ issued = ran /\ Quiet /\ Balanced({}) /\ Followed({})
    BY <1>1, BetweenDevices
  <1>3. Table' /\ Balanced({})' /\ Followed({})'
    BY <1>1, <1>2, TableUnchanged, TableSame
  <1>4. at'.step = "enable" /\ Idx' = device_count' /\ "step" \in DOMAIN at' /\ "dev" \in DOMAIN at'
    BY <1>1 DEF Idx
  <1>5. CASE device_count < MAX_DEVICES /\ IssueCommand("enable", NoSlot)
    <2>1. CommandRing' /\ Asked' /\ pc' = "wait_command"
      BY <1>1, <1>2, <1>3, <1>4, <1>5, IssueCommandKeeps DEF CommandSteps
    <2>2. Idx' \in Indices
      BY <1>1, <1>2, <1>4, <1>5, XhciAssumption DEF Indices, Table
    <2> QED
      BY <1>3, <1>4, <2>1, <2>2 DEF Matched, Placed, CommandSteps
  <1>6. CASE UNCHANGED <<cmdVars, pc>>
    <2>1. CommandRing' /\ Quiet'
      BY <1>1, <1>2, <1>6, RingSame, QuietSame
    <2>2. issued' = ran' /\ pc' = "ports"
      BY <1>1, <1>2, <1>6 DEF cmdVars
    <2> QED
      BY <1>3, <1>4, <2>1, <2>2 DEF Matched, Placed
  <1> QED
    BY <1>5, <1>6 DEF NextPort

\* The ends of the scan and the beginning of a poll.
LEMMA PollKeeps ==
    ASSUME CommandRing, Matched, BringUpDone \/ \E d \in Indices : Poll(d)
    PROVE  CommandRing' /\ Matched'
  <1>1. /\ pc \in {"ports", "poll"} /\ pc' \in {"poll", "drain"}
        /\ "step" \in DOMAIN at' /\ "dev" \in DOMAIN at'
        /\ UNCHANGED <<cmdVars, hcCmd, ran, evRing, ev, hcEv, slots, devices, dcbaa, device_count>>
    BY DEF BringUpDone, Poll, hcVars, evVars, Matched
  <1>2. Table /\ issued = ran /\ Quiet /\ Balanced({}) /\ Followed({})
    BY <1>1, BetweenDevices
  <1>3. Table' /\ Balanced({})' /\ Followed({})'
    BY <1>1, <1>2, TableUnchanged, TableSame
  <1>4. CommandRing' /\ Quiet' /\ issued' = ran'
    BY <1>1, <1>2, RingSame, QuietSame DEF cmdVars
  <1> QED
    BY <1>1, <1>3, <1>4 DEF Matched, Placed

LEMMA IssueKeeps ==
    ASSUME CommandRing, Matched, Issue PROVE CommandRing' /\ Matched'
  <1>1. /\ pc = "step"
        /\ UNCHANGED <<hcCmd, ran, evRing, ev, hcEv, at, device_count>>
    BY DEF Issue, evVars
  <1>2. /\ Table /\ issued = ran /\ Quiet /\ Idx = device_count /\ Idx \in Indices
        /\ Balanced({Own}) /\ Followed({Own}) /\ Own \in Slots
        /\ at.step \in (CommandSteps \ {"enable"}) \cup ControlSteps
    BY <1>1, InHand
  <1>3. Idx' = Idx /\ "step" \in DOMAIN at' /\ "dev" \in DOMAIN at'
    BY <1>1 DEF Idx, Matched
  <1>4. CASE /\ at.step \in CommandSteps \ {"enable"} /\ IssueCommand(at.step, Own)
             /\ UNCHANGED <<devices, slots>>
             /\ dcbaa' = dcbaa \/ dcbaa' = [dcbaa EXCEPT ![Own] = Idx]
    <2>1. Own' = Own /\ \A s : Kept(s)' <=> Kept(s)
      BY <1>1, <1>4 DEF Own, Idx, Kept
    <2>2. Table'
      BY <1>1, <1>2, <1>4 DEF Table
    <2>3. Balanced({Own})'
      BY <1>2, <1>4, <2>1 DEF Balanced
    <2>4. Followed({Own})'
      BY <1>2, <1>4, <2>1 DEF Followed, Table
    <2>5. CommandRing' /\ Asked' /\ pc' = "wait_command"
      BY <1>1, <1>2, <1>4, <2>1, <2>3, <2>4, IssueCommandKeeps
    <2> QED
      BY <1>1, <1>2, <1>3, <1>4, <2>2, <2>5 DEF Matched, Placed
  <1>5. CASE /\ at.step \in ControlSteps /\ Enqueue(Idx, at.step, "ep0") /\ pc' = "wait_transfer"
             /\ UNCHANGED <<cmdVars, dcbaa>>
    <2>1. SameTable
      BY <1>1, <1>2, <1>5, EnqueueKeeps
    <2>2. Own' = Own
      BY <1>2, <1>3, <2>1 DEF Own, SameTable
    <2>3. Table' /\ Balanced({Own})' /\ Followed({Own})'
      BY <1>2, <2>1, <2>2, TableSame
    <2>4. CommandRing' /\ Quiet' /\ issued' = ran'
      BY <1>1, <1>2, <1>5, RingSame, QuietSame DEF cmdVars
    <2> QED
      BY <1>1, <1>2, <1>3, <1>5, <2>3, <2>4 DEF Matched, Placed
  <1>6. CommandSteps \ {"enable"} = {"address", "endpoint", "bulk", "disable"}
    BY DEF CommandSteps
  <1> QED
    BY <1>4, <1>5, <1>6 DEF Issue, Own
\* The step after a control transfer, answered or given up on: another one of
\* the same device.
LEMMA TransferProceeds ==
    ASSUME CommandRing, Matched, pc = "wait_transfer", NEW ok, NEW slot, Proceed(ok, slot),
           Quiet', UNCHANGED <<cmdVars, hcCmd, ran, slots>>
    PROVE  CommandRing' /\ Matched'
  <1> DEFINE next == Follows(ok)
  <1>1. /\ Table /\ issued = ran /\ Idx = device_count /\ Idx \in Indices
        /\ Balanced({Own}) /\ Followed({Own}) /\ at.step \in ControlSteps
    BY InHand
  <1>2. next \in {"config", "disable", "mscconf", "setconf", "setproto", "endpoint", "bulk"}
    BY <1>1 DEF Follows, ControlSteps
  <1>3. /\ at' = [at EXCEPT !.step = next] /\ pc' = "step" /\ device_count' = device_count
        /\ dcbaa' = dcbaa
    BY <1>1, <1>2 DEF Proceed, ControlSteps
  <1>4. devices' = devices \/ devices' = [devices EXCEPT ![Idx].endpoint = TRUE]
    BY <1>1 DEF Proceed, ControlSteps
  <1>5. SameTable
    BY <1>1, <1>3, <1>4 DEF SameTable, Table
  <1>6. at'.step = next /\ Idx' = Idx /\ "step" \in DOMAIN at' /\ "dev" \in DOMAIN at'
    BY <1>3 DEF Matched, Idx
  <1>7. Own' = Own
    BY <1>1, <1>5, <1>6 DEF Own, SameTable
  <1>8. Table' /\ Balanced({Own})' /\ Followed({Own})'
    BY <1>1, <1>5, <1>7, TableSame
  <1>9. CommandRing' /\ issued' = ran'
    BY <1>1, RingSame DEF cmdVars
  <1>10. at'.step \in (CommandSteps \ {"enable"}) \cup ControlSteps
    BY <1>2, <1>6 DEF CommandSteps, ControlSteps
  <1> QED
    BY <1>1, <1>3, <1>6, <1>8, <1>9, <1>10 DEF Matched, Placed

\* The device in hand is kept: it is one more of the table.
LEMMA KeepKeeps ==
    ASSUME Table, Idx = device_count, Idx \in Indices, Balanced({Own}), Followed({Own}),
           device_count' = Idx + 1, UNCHANGED <<slots, devices, dcbaa>>
    PROVE  Table' /\ Balanced({})' /\ Followed({})'
  <1>1. device_count \in Nat /\ device_count' = device_count + 1 /\ device_count' <= MAX_DEVICES
        /\ Indices = 0 .. MAX_DEVICES - 1 /\ MAX_DEVICES \in Nat
    BY XhciAssumption DEF Indices
  <1>2. Own \in Slots /\ ~Kept(Own)
    BY DEF Balanced
  <1>3. ASSUME NEW s PROVE Kept(s)' <=> Kept(s) \/ s = Own
    BY <1>1 DEF Kept, Own
  <1>4. Balanced({})' /\ Followed({})'
    BY <1>3 DEF Balanced, Followed
  <1>5. \A d \in Indices : d < device_count' => d < device_count \/ d = Idx
    BY <1>1
  <1>6. ASSUME NEW d \in Indices, d < device_count' PROVE devices[d].slot \in Slots
    BY <1>2, <1>5, <1>6 DEF Table, Own
  <1>7. ASSUME NEW d \in Indices, NEW x \in Indices, d < x, x < device_count'
        PROVE  devices[d].slot # devices[x].slot
    <2>1. CASE x < device_count
      BY <1>7, <2>1 DEF Table
    <2>2. CASE x = Idx
      <3>1. d < device_count /\ devices[x].slot = Own
        BY <1>7, <2>2 DEF Own
      <3> QED
        BY <1>2, <3>1 DEF Kept
    <2> QED
      BY <1>5, <1>7, <2>1, <2>2
  <1>8. Table'
    BY <1>1, <1>6, <1>7 DEF Table
  <1> QED
    BY <1>4, <1>8

\* The step after a command that was answered.
LEMMA CommandProceeds ==
    ASSUME CommandRing, Matched, pc = "wait_command", NEW e, NEW ok \in BOOLEAN,
           Settled(e), ok <=> e.ok /\ (at.step = "enable" => e.slot # NoSlot),
           Proceed(ok, e.slot), issued = ran, Quiet', UNCHANGED <<cmdVars, hcCmd, ran, slots>>
    PROVE  CommandRing' /\ Matched'
  <1> DEFINE next == Follows(ok)
  <1>1. Table /\ Idx = device_count /\ Idx \in Indices /\ at.step \in CommandSteps
    BY DEF Matched, Placed
  <1>2. CommandRing' /\ issued' = ran'
    BY RingSame DEF cmdVars
  <1>3. at' = [at EXCEPT !.step = next]
    BY DEF Proceed
  <1>4. at'.step = next /\ Idx' = Idx /\ "step" \in DOMAIN at' /\ "dev" \in DOMAIN at'
    BY <1>3 DEF Matched, Idx
  <1>5. CASE at.step = "enable" /\ ok
    <2>1. Balanced({e.slot}) /\ Followed({}) /\ e.slot \in Slots
      BY <1>5 DEF Settled, Balanced
    <2>2. next = "address"
      BY <1>5 DEF Follows
    <2>3. /\ pc' = "step" /\ device_count' = device_count /\ dcbaa' = dcbaa
          /\ devices' = [devices EXCEPT ![Idx] = [FreshDevice EXCEPT !.slot = e.slot]]
      BY <1>5, <2>2 DEF Proceed
    <2>4. /\ DOMAIN devices' = Indices /\ devices'[Idx] = [FreshDevice EXCEPT !.slot = e.slot]
          /\ \A d \in Indices : d # Idx => devices'[d] = devices[d]
      BY <1>1, <2>3 DEF Table
    <2>5. "slot" \in DOMAIN devices'[Idx] /\ devices'[Idx].slot = e.slot
      BY <2>4 DEF FreshDevice
    <2>6. /\ \A d \in Indices : d < device_count => d # Idx
          /\ \A d, x \in Indices : d < x /\ x < device_count => d # Idx /\ x # Idx
      BY <1>1 DEF Indices, Table
    <2>7. Own' = e.slot /\ \A s : Kept(s)' <=> Kept(s)
      BY <1>4, <2>3, <2>4, <2>5, <2>6 DEF Own, Kept
    <2>8. Table'
      <3>1. \A d \in Indices : "slot" \in DOMAIN devices'[d]
        BY <1>1, <2>4, <2>5 DEF Table
      <3>2. \A d \in Indices : d < device_count => devices'[d].slot \in Slots
        BY <1>1, <2>4, <2>6 DEF Table
      <3>3. \A d, x \in Indices : d < x /\ x < device_count => devices'[d].slot # devices'[x].slot
        BY <1>1, <2>4, <2>6 DEF Table
      <3> QED
        BY <1>1, <2>3, <2>4, <3>1, <3>2, <3>3 DEF Table
    <2>9. Balanced({Own})'
      BY <2>1, <2>7 DEF Balanced
    <2>10. Followed({Own})'
      BY <2>1, <2>3, <2>7 DEF Followed
    <2> QED
      BY <1>1, <1>2, <1>4, <2>2, <2>3, <2>8, <2>9, <2>10 DEF Matched, Placed, CommandSteps
  <1>6. CASE at.step = "enable" /\ ~ok
    <2>1. Balanced({}) /\ Followed({})
      <3>1. CASE e.ok
        <4>1. e.slot \in Slots
          BY <1>6, <3>1 DEF Settled, Balanced
        <4> QED
          BY <1>6, <3>1, <4>1, XhciAssumption DEF Slots, NoSlot
      <3>2. CASE ~e.ok
        BY <1>6, <3>2 DEF Settled
      <3> QED
        BY <3>1, <3>2
    <2>2. next = "none"
      BY <1>6 DEF Follows
    <2>3. pc' = "ports" /\ UNCHANGED <<device_count, dcbaa, devices>>
      BY <1>6, <2>2 DEF Proceed
    <2>4. Table' /\ Balanced({})' /\ Followed({})'
      BY <1>1, <2>1, <2>3, TableUnchanged, TableSame
    <2> QED
      BY <1>2, <1>4, <2>3, <2>4 DEF Matched, Placed
  <1>7. CASE at.step = "disable"
    <2>1. Balanced({}) /\ Own \in Slots /\ Followed({Own})
      BY <1>7 DEF Settled
    <2>2. next = "none"
      BY <1>7 DEF Follows
    <2>3. pc' = "ports" /\ UNCHANGED <<device_count, devices>> /\ dcbaa' = [dcbaa EXCEPT ![Own] = None]
      BY <1>7, <2>1, <2>2 DEF Proceed, Own
    <2>4. \A s : Kept(s)' <=> Kept(s)
      BY <2>3 DEF Kept
    <2>5. Table'
      BY <1>1, <2>3 DEF Table
    <2>6. Balanced({})'
      BY <2>1, <2>4 DEF Balanced
    <2>7. Followed({})'
      BY <1>1, <2>1, <2>3, <2>4 DEF Followed, Table
    <2> QED
      BY <1>2, <1>4, <2>3, <2>5, <2>6, <2>7 DEF Matched, Placed
  <1>8. CASE at.step \in {"address", "endpoint", "bulk"}
    <2>1. Balanced({Own}) /\ Followed({Own})
      BY <1>8 DEF Settled
    <2>2. next \in {"device", "disable", "keep", "unit"}
      BY <1>8 DEF Follows
    <2>3. UNCHANGED <<devices, dcbaa>>
      BY <1>8 DEF Proceed
    <2>4. Own' = Own
      BY <1>4, <2>3 DEF Own
    <2>5. CASE next = "keep"
      <3>1. pc' = "ports" /\ device_count' = Idx + 1
        BY <2>5 DEF Proceed
      <3>2. Table' /\ Balanced({})' /\ Followed({})'
        BY <1>1, <2>1, <2>3, <3>1, KeepKeeps
      <3> QED
        BY <1>2, <1>4, <3>1, <3>2 DEF Matched, Placed
    <2>6. CASE next # "keep"
      <3>1. /\ device_count' = device_count
            /\ pc' = (IF next = "unit" THEN "unit" ELSE "step")
        BY <2>2, <2>6 DEF Proceed
      <3>2. Table' /\ Balanced({Own})' /\ Followed({Own})'
        BY <1>1, <2>1, <2>3, <2>4, <3>1, TableUnchanged, TableSame
      <3>3. pc' = "step" => at'.step \in (CommandSteps \ {"enable"}) \cup ControlSteps
        BY <1>4, <2>2, <2>6, <3>1 DEF CommandSteps, ControlSteps
      <3> QED
        BY <1>1, <1>2, <1>4, <3>1, <3>2, <3>3 DEF Matched, Placed
    <2> QED
      BY <2>5, <2>6
  <1> QED
    BY <1>1, <1>5, <1>6, <1>7, <1>8 DEF CommandSteps
LEMMA AnswerKeeps ==
    ASSUME EventQueue, CommandRing, Matched, Answer PROVE CommandRing' /\ Matched'
  <1> DEFINE ok == Event.ok /\ (at.step = "enable" => Event.slot # NoSlot)
  <1>1. /\ pc \in {"wait_command", "wait_transfer"} /\ HasEvent /\ Event.what = Awaited
        /\ ConsumeEvent /\ Proceed(ok, Event.slot)
        /\ UNCHANGED <<cmdVars, hcCmd, ran, slots>> /\ UNCHANGED <<evRing, hcEv, posted>>
    BY DEF Answer, hcVars
  <1>2. /\ PendingAt(ev.index) /\ ev.index \in Entries
        /\ \A i \in Entries : PendingAt(i)' <=> PendingAt(i) /\ i # ev.index
    BY <1>1, ConsumeKeeps
  <1>3. CASE pc = "wait_transfer"
    <2>1. Quiet
      BY <1>3, InHand
    <2>2. Quiet'
      BY <1>1, <1>2, <2>1 DEF Quiet
    <2> HIDE DEF ok
    <2> QED
      BY <1>1, <1>3, <2>2, TransferProceeds
  <1>4. CASE pc = "wait_command"
    <2>1. evRing[ev.index].what = "command"
      BY <1>1, <1>4 DEF Awaited, Event
    <2>2. ~Quiet
      BY <1>2, <2>1 DEF Quiet
    <2>3. Answered
      BY <1>4, <2>2 DEF Matched, Placed, Asked
    <2>4. issued = ran /\ Settled(evRing[ev.index])
          /\ \A i \in Entries : PendingAt(i) /\ evRing[i].what = "command" => i = ev.index
      BY <1>2, <2>1, <2>3 DEF Answered
    <2>5. Quiet'
      BY <1>1, <1>2, <2>4 DEF Quiet
    <2>6. ok \in BOOLEAN /\ (ok <=> Event.ok /\ (at.step = "enable" => Event.slot # NoSlot))
      OBVIOUS
    <2>7. Settled(Event)
      BY <2>4 DEF Event
    <2> HIDE DEF ok
    <2> QED
      BY <1>1, <1>4, <2>4, <2>5, <2>6, <2>7, CommandProceeds
  <1> QED
    BY <1>1, <1>3, <1>4

LEMMA SkipKeeps ==
    ASSUME EventQueue, CommandRing, Matched, Skip PROVE CommandRing' /\ Matched'
  <1>1. /\ pc \in {"wait_command", "wait_transfer"} /\ HasEvent /\ Event.what # Awaited
        /\ ConsumeEvent /\ UNCHANGED <<evRing, hcEv, posted>>
        /\ UNCHANGED <<cmdVars, hcCmd, ran>> /\ UNCHANGED <<pc, at>>
        /\ UNCHANGED <<slots, devices, dcbaa, device_count>>
    BY DEF Skip, hcVars, driverVars
  <1>2. \A i \in Entries : PendingAt(i)' <=> PendingAt(i) /\ i # ev.index
    BY <1>1, ConsumeKeeps
  <1>3. CommandRing' /\ UNCHANGED <<cmdRing, cmd, issued>>
    BY <1>1, RingSame DEF cmdVars
  <1>4. Quiet => Quiet'
    BY <1>1, <1>2 DEF Quiet
  <1>5. Table' /\ \A X : (Balanced(X) => Balanced(X)') /\ (Followed(X) => Followed(X)')
    BY <1>1, TableUnchanged, TableSame DEF Matched
  <1>6. Own' = Own /\ Idx' = Idx /\ \A s : Kept(s)' <=> Kept(s)
    BY <1>1 DEF Own, Idx, Kept
  <1>7. CASE pc = "wait_transfer"
    <2>1. Placed'
      BY <1>1, <1>3, <1>4, <1>5, <1>6, <1>7, InHand DEF Placed
    <2> QED
      BY <1>1, <1>3, <1>5, <2>1 DEF Matched
  <1>8. CASE pc = "wait_command"
    <2>1. evRing[ev.index].what # "command"
      BY <1>1, <1>8 DEF Awaited, Event
    <2>2. Asked => Asked'
      BY <1>1, <1>3, <1>4, <1>5, <1>6 DEF Asked
    <2>3. Answered => Answered'
      <3> SUFFICES ASSUME Answered PROVE Answered'
        OBVIOUS
      <3>1. PICK j \in Entries :
              /\ PendingAt(j) /\ evRing[j].what = "command" /\ Settled(evRing[j])
              /\ \A i \in Entries : PendingAt(i) /\ evRing[i].what = "command" => i = j
        BY DEF Answered
      <3>2. ASSUME NEW e, Settled(e) PROVE Settled(e)'
        BY <1>1, <1>5, <1>6, <3>2 DEF Settled
      <3>3. PendingAt(j)' /\ evRing'[j] = evRing[j] /\ Settled(evRing[j])'
        BY <1>1, <1>2, <2>1, <3>1, <3>2
      <3> QED
        BY <1>1, <1>2, <1>3, <3>1, <3>3 DEF Answered
    <2>4. Placed'
      BY <1>1, <1>6, <1>8, <2>2, <2>3 DEF Matched, Placed
    <2> QED
      BY <1>1, <1>3, <1>5, <2>4 DEF Matched
  <1> QED
    BY <1>1, <1>7, <1>8

\* A wait for a command that ends without its answer ends too soon.
LEMMA GiveUpKeeps ==
    ASSUME EventQueue, CommandRing, Matched, GiveUp, late \in Nat, late' = 0
    PROVE  CommandRing' /\ Matched'
  <1>1. /\ pc \in {"wait_command", "wait_transfer"} /\ ~HasEvent /\ Proceed(FALSE, NoSlot)
        /\ UNCHANGED <<cmdVars, hcCmd, ran, slots>> /\ UNCHANGED <<evRing, ev, hcEv>>
    BY DEF GiveUp, hcVars, evVars
  <1>2. ~CommandReady
    BY DEF GiveUp
  <1>3. pc # "wait_command"
    <2>1. ~Asked
      BY <1>2, ReadyIs DEF Asked
    <2>2. ~Answered
      BY <1>1, HasEventIs DEF Answered
    <2> QED
      BY <2>1, <2>2 DEF Matched, Placed
  <1>4. pc = "wait_transfer" /\ Quiet
    BY <1>1, <1>3, InHand
  <1>5. Quiet'
    BY <1>1, <1>4, QuietSame
  <1> QED
    BY <1>1, <1>4, <1>5, TransferProceeds

LEMMA UnitKeeps ==
    ASSUME CommandRing, Matched, Unit PROVE CommandRing' /\ Matched'
  <1>1. /\ pc = "unit" /\ UNCHANGED <<cmdVars, hcCmd, ran, evRing, ev, hcEv>>
        /\ UNCHANGED <<slots, devices, dcbaa>>
    BY DEF Unit, hcVars, evVars
  <1>2. /\ Table /\ issued = ran /\ Quiet /\ Idx = device_count /\ Idx \in Indices
        /\ Balanced({Own}) /\ Followed({Own})
    BY <1>1, InHand
  <1>3. CommandRing' /\ Quiet' /\ issued' = ran'
    BY <1>1, <1>2, RingSame, QuietSame DEF cmdVars
  <1>4. CASE device_count' = Idx + 1 /\ pc' = "ports" /\ at' = [at EXCEPT !.step = "keep"]
    <2>1. Table' /\ Balanced({})' /\ Followed({})'
      BY <1>1, <1>2, <1>4, KeepKeeps
    <2> QED
      BY <1>3, <1>4, <2>1 DEF Matched, Placed
  <1>5. CASE /\ device_count' = device_count /\ pc' = "step"
             /\ at' = [at EXCEPT !.step = "disable"]
    <2>1. at'.step = "disable" /\ Idx' = Idx /\ "step" \in DOMAIN at' /\ "dev" \in DOMAIN at'
      BY <1>5 DEF Matched, Idx
    <2>2. Own' = Own
      BY <1>1, <2>1 DEF Own
    <2>3. Table' /\ Balanced({Own})' /\ Followed({Own})'
      BY <1>1, <1>2, <1>5, <2>2, TableUnchanged, TableSame
    <2> QED
      BY <1>2, <1>3, <1>5, <2>1, <2>3 DEF Matched, Placed, CommandSteps
  <1> QED
    BY <1>4, <1>5 DEF Unit

\* Polling leaves the table and the slots alone.
LEMMA DrainKeeps ==
    ASSUME EventQueue, CommandRing, Matched, DrainEvent \/ TakeReport
    PROVE  CommandRing' /\ Matched'
  <1>1. /\ pc = "drain" /\ pc' \in {"drain", "poll"} /\ UNCHANGED <<cmdVars, hcCmd, ran>>
        /\ UNCHANGED <<at, dcbaa, device_count>>
    BY DEF DrainEvent, TakeReport, hcVars, driverVars
  <1>2. Table /\ issued = ran /\ Quiet /\ Balanced({}) /\ Followed({})
    BY <1>1, BetweenDevices
  <1>3. CommandRing' /\ issued' = ran'
    BY <1>1, <1>2, RingSame DEF cmdVars
  <1>4. SameTable /\ Quiet'
    <2>1. CASE DrainEvent
      <3>1. HasEvent /\ ConsumeEvent /\ UNCHANGED <<evRing, hcEv, posted>> /\ slots' = slots
        BY <2>1 DEF DrainEvent, hcVars
      <3>2. Quiet'
        BY <1>2, <3>1, ConsumeKeeps DEF Quiet
      <3>3. /\ DOMAIN devices' = Indices
            /\ \A d \in Indices : devices'[d] = devices[d] \/ devices'[d] = Noted(devices[d], Event)
        BY <2>1 DEF DrainEvent
      <3>4. \A d \in Indices : "slot" \in DOMAIN devices'[d] /\ devices'[d].slot = devices[d].slot
        BY <1>2, <3>3 DEF Noted, Table
      <3> QED
        BY <1>1, <1>2, <3>1, <3>2, <3>3, <3>4 DEF SameTable, Table
    <2>2. CASE TakeReport
      <3>1. UNCHANGED <<evRing, ev, hcEv>>
        BY <2>2 DEF TakeReport, evVars
      <3>2. Quiet'
        BY <1>2, <3>1, QuietSame
      <3>3. CASE devices' = [devices EXCEPT ![Idx].ready = FALSE] /\ slots' = slots
        BY <1>1, <1>2, <3>2, <3>3 DEF SameTable, Table
      <3>4. CASE Enqueue(Idx, "read", "intr")
        BY <1>1, <1>2, <3>2, <3>4, EnqueueKeeps
      <3> QED
        BY <2>2, <3>3, <3>4 DEF TakeReport
    <2> QED
      BY <2>1, <2>2
  <1>5. Table' /\ Balanced({})' /\ Followed({})'
    BY <1>2, <1>4, TableSame
  <1> QED
    BY <1>1, <1>3, <1>4, <1>5 DEF Matched, Placed
-----------------------------------------------------------------------------
(* The slots at the end of the scan.                                       *)

LEMMA ScanInit == ASSUME Init PROVE ScanInv
  <1>1. Start \in Cursor /\ Start.index = 0 /\ Start.cycle = 1
    BY RingLen DEF Start, Cursor
  <1>2. CommandRing
    BY RingInit
  <1>3. Table
    <2>1. /\ \A s \in Slots : slots[s] = FreeSlot
          /\ \A d \in Indices : devices[d] = FreshDevice
      BY DEF Init
    <2>2. "state" \in DOMAIN FreeSlot /\ "slot" \in DOMAIN FreshDevice
      BY DEF FreeSlot, FreshDevice
    <2>3. device_count \in 0 .. MAX_DEVICES /\ \A d \in Indices : ~(d < device_count)
      BY XhciAssumption DEF Init, Indices
    <2> QED
      BY <2>1, <2>2, <2>3 DEF Init, Table
  <1>4. Balanced({}) /\ Followed({})
    <2>1. \A s : ~Kept(s)
      BY XhciAssumption DEF Init, Kept, Indices
    <2>2. \A s \in Slots : slots[s].state = "free"
      BY DEF Init, FreeSlot
    <2> QED
      BY <2>1, <2>2 DEF Balanced, Followed, Init
  <1>5. Quiet
    BY <1>1, RingLen DEF Quiet, PendingAt, Init
  <1> QED
    BY <1>2, <1>3, <1>4, <1>5 DEF Init, ScanInv, Matched, Placed

LEMMA ScanInvStep ==
    ASSUME EventQueue, ScanInv, [Next]_vars PROVE ScanInv'
  <1>1. late' \in Nat /\ (late' = 0 => late = 0)
    <2>1. late \in Nat
      BY DEF ScanInv
    <2>2. CASE GiveUp
      BY <2>1, <2>2 DEF GiveUp
    <2>3. CASE UNCHANGED late
      BY <2>1, <2>3
    <2>4. CASE Command \/ \E s \in Slots : Control(s) \/ Interrupt(s)
      BY <2>3, <2>4 DEF Command, Control, Interrupt
    <2>5. CASE NextPort \/ BringUpDone \/ Issue \/ Unit \/ \E d \in Indices : Poll(d)
      BY <2>3, <2>5 DEF NextPort, BringUpDone, Issue, Unit, Poll, bounds
    <2>6. CASE Answer \/ Skip \/ DrainEvent \/ TakeReport
      BY <2>3, <2>6 DEF Answer, Skip, DrainEvent, TakeReport, bounds
    <2>7. CASE UNCHANGED vars
      BY <2>3, <2>7 DEF vars
    <2> QED
      BY <2>2, <2>4, <2>5, <2>6, <2>7 DEF Next, Driver, Controller
  <1> SUFFICES ASSUME late' = 0 PROVE CommandRing' /\ Matched'
    BY <1>1 DEF ScanInv
  <1>2. CommandRing /\ Matched /\ late \in Nat
    BY <1>1 DEF ScanInv
  <1>3. CASE Command
    BY <1>2, <1>3, CommandKeeps
  <1>4. CASE \E s \in Slots : Control(s) \/ Interrupt(s)
    BY <1>2, <1>4, TransferKeeps
  <1>5. CASE NextPort
    BY <1>2, <1>5, NextPortKeeps
  <1>6. CASE BringUpDone \/ \E d \in Indices : Poll(d)
    BY <1>2, <1>6, PollKeeps
  <1>7. CASE Issue
    BY <1>2, <1>7, IssueKeeps
  <1>8. CASE Answer
    BY <1>2, <1>8, AnswerKeeps
  <1>9. CASE Skip
    BY <1>2, <1>9, SkipKeeps
  <1>10. CASE GiveUp
    BY <1>2, <1>10, GiveUpKeeps
  <1>11. CASE Unit
    BY <1>2, <1>11, UnitKeeps
  <1>12. CASE DrainEvent \/ TakeReport
    BY <1>2, <1>12, DrainKeeps
  <1>13. CASE UNCHANGED vars
    <2>1. UNCHANGED <<cmdRing, cmd, issued, hcCmd, ran, evRing, ev, hcEv, slots, devices,
                      dcbaa, device_count, pc, at>>
      BY <1>13 DEF vars
    <2>2. CommandRing'
      BY <1>2, <2>1, RingSame DEF cmdVars
    <2>3. Table'
      BY <1>2, <2>1, TableUnchanged, TableSame DEF Matched
    <2>4. Placed'
      BY <1>2, <2>1 DEF Matched, Placed, Asked, Answered, Settled, Quiet, PendingAt, Balanced,
                        Followed, Kept, Own, Idx
    <2> QED
      BY <1>2, <2>1, <2>2, <2>3, <2>4 DEF Matched
  <1> QED
    BY <1>3, <1>4, <1>5, <1>6, <1>7, <1>8, <1>9, <1>10, <1>11, <1>12, <1>13
       DEF Next, Driver, Controller

\* No two devices kept share a slot: they are as many as their slots.
LEMMA KeptCount ==
    ASSUME Table
    PROVE  Cardinality({devices[d].slot : d \in 0 .. device_count - 1}) = device_count
  <1> DEFINE Ix == 0 .. device_count - 1
             K == {devices[d].slot : d \in Ix}
             f == [d \in Ix |-> devices[d].slot]
  <1>1. device_count \in Nat /\ Ix \subseteq Indices
    BY XhciAssumption DEF Table, Indices
  <1>2. f \in [Ix -> K] /\ \A t \in K : \E d \in Ix : f[d] = t
    OBVIOUS
  <1>3. ASSUME NEW a \in Ix, NEW b \in Ix, f[a] = f[b] PROVE a = b
    <2>1. a \in Indices /\ b \in Indices /\ a < device_count /\ b < device_count
          /\ devices[a].slot = devices[b].slot
      BY <1>1, <1>3
    <2>2. ~(a < b) /\ ~(b < a)
      BY <2>1 DEF Table
    <2> QED
      BY <1>1, <2>2
  <1> HIDE DEF f, K
  <1>4. f \in Bijection(Ix, K)
    BY <1>2, <1>3, Fun_IsBij
  <1>5. ExistsBijection(Ix, K)
    BY <1>4 DEF ExistsBijection
  <1>6. IsFiniteSet(Ix) /\ Cardinality(Ix) = device_count
    BY <1>1, FS_Interval
  <1> HIDE DEF Ix
  <1>7. Cardinality(K) = device_count
    BY <1>5, <1>6, FS_Bijection
  <1> QED
    BY <1>7 DEF K, Ix

LEMMA ScanReturns == ASSUME ScanInv PROVE SlotsReturned
  <1> SUFFICES ASSUME pc \in {"poll", "drain"}, late = 0 PROVE SlotsReturned
    BY DEF SlotsReturned
  <1> DEFINE kept == {devices[d].slot : d \in 0 .. device_count - 1}
  <1>1. Table /\ Balanced({}) /\ Followed({})
    BY BetweenDevices DEF ScanInv
  <1>2. \A s : s \in kept <=> Kept(s)
    BY <1>1, XhciAssumption DEF Kept, Table, Indices
  <1>3. Cardinality(kept) = device_count
    BY <1>1, KeptCount
  <1>4. \A s \in kept : s \in Slots
    BY <1>1, <1>2 DEF Kept, Table
  <1>5. {s \in Slots : slots[s].state # "free"} = kept
    <2> HIDE DEF kept
    <2> QED
      BY <1>1, <1>2, <1>4 DEF Balanced
  <1>6. \A s \in Slots : dcbaa[s] # None => s \in kept
    BY <1>1, <1>2 DEF Followed
  <1> QED
    BY <1>3, <1>5, <1>6 DEF SlotsReturned

\* When the scan is over and no wait ended before its answer came, the slots
\* still enabled are those of the devices kept, one each, and the context
\* array follows no other: every early return of identify gives the slot
\* back (disable_slot), for any number of ports, slots and refusals.
THEOREM SlotsAlwaysReturned == MCFairSpec => []SlotsReturned
  <1>1. Init => EventQueue /\ ScanInv
    BY QueueInit, ScanInit
  <1>2. (EventQueue /\ ScanInv) /\ [Next]_vars => (EventQueue /\ ScanInv)'
    BY QueueStep, ScanInvStep
  <1>3. EventQueue /\ ScanInv => SlotsReturned
    BY ScanReturns
  <1> QED
    BY <1>1, <1>2, <1>3, ScanRefine, PTL DEF Spec

-----------------------------------------------------------------------------
(* The reads of keyboards and pointers.  The interrupt endpoint begins at  *)
(* the base of the ring, behind the four requests of the enumeration, and  *)
(* every completion of the control endpoint that is drained in the place   *)
(* of its own leaves it one entry further behind.                          *)

SlotFields == {"port", "ep0", "intr", "dev", "state", "rung", "halted"}
DeviceFields == {"slot", "endpoint", "ring", "queued", "ready"}

Shapes ==
    /\ DOMAIN rings = Indices
    /\ \A s \in Slots : DOMAIN slots[s] = SlotFields
    /\ \A d \in Indices : DOMAIN devices[d] = DeviceFields

\* Where the control endpoint of a device that has not stalled is.
Low == [index : 0 .. 4, cycle : {1}]

\* Behind the four requests there are none.
NoRequests(r) == \A i \in Entries : i >= 4 => r[i].what \notin ControlSteps

\* A ring on which m requests were put, for this device or for one that had
\* the index before.
Short(r, m) ==
    /\ m \in 0 .. 4 /\ DOMAIN r = Entries
    /\ \A i \in Entries :
            r[i].cycle \in {0, 1} /\ (r[i].cycle = 1 <=> i < m) /\ r[i].what # "link"
    /\ NoRequests(r)

\* The steps on the way to an input device, and the requests put by then.
Building ==
    /\ pc \in {"step", "wait_command", "wait_transfer"}
    /\ at.step \in ControlSteps \cup {"address", "endpoint"}

Before ==
    CASE at.step = "config" -> 1 [] at.step \in {"setconf", "mscconf"} -> 2
      [] at.step = "setproto" -> 3 [] at.step = "endpoint" -> 4 [] OTHER -> 0

Requests == IF pc = "wait_transfer" THEN Before + 1 ELSE Before

\* The rings of the devices that are not kept.
Spare ==
    \A d \in Indices : d >= device_count =>
        \E m : Short(rings[d], m) /\ (Building /\ d = Idx => Requests <= m)

\* The device in hand.
Held ==
    Building =>
        /\ devices[Idx].ring = [index |-> Requests, cycle |-> 1]
        /\ "intr" \notin slots[Own].rung
        /\ at.step = "address" => /\ slots[Own].rung = {}
                                  /\ pc = "wait_command" => input.dev = Idx
        /\ at.step # "address" => slots[Own].dev = Idx /\ slots[Own].ep0 \in Low

\* What a command that has succeeded has made of its slot.
Made(e) ==
    e.ok => /\ at.step = "enable" => slots[e.slot].rung = {}
            /\ at.step = "address" => slots[Own].dev = Idx /\ slots[Own].ep0 \in Low
            /\ at.step = "endpoint" => slots[Own].state = "hid" /\ slots[Own].intr = Start

Granted ==
    pc = "wait_command" =>
        \A i \in Entries : PendingAt(i) /\ evRing[i].what = "command" => Made(evRing[i])

\* A completion for the slot is still to be taken.
Pending(s) ==
    \E i \in Entries : PendingAt(i) /\ evRing[i].what = "transfer" /\ evRing[i].slot = s

\* The read of a device that is on its ring, if nothing has come for it.
Flying(d) == IF devices[d].queued /\ ~Pending(devices[d].slot) THEN 1 ELSE 0

\* How far the control endpoint has come, and with a stall how far at most.
Reach(t) == IF "ep0" \in t.halted THEN 5 ELSE t.ep0.index

\* On the ring r, with the driver at p, the interrupt endpoint of t is n
\* entries behind.
Behind(r, p, t, flying, n) ==
    /\ Ringed(r, p, t.intr, n)
    /\ n <= 4 + Reach(t) + flying
    /\ flying = 1 /\ "intr" \notin t.halted => "intr" \in t.rung /\ n > 0

\* An input device.
Listening(r, p, d, t, flying) ==
    /\ t.dev = d /\ t.state = "hid"
    /\ NoRequests(r)
    /\ "ep0" \in t.halted \/ t.ep0 \in Low
    /\ \E n : Behind(r, p, t, flying, n)

Serves(d) == Listening(rings[d], devices[d].ring, d, slots[devices[d].slot], Flying(d))

Armed ==
    \A d \in Indices : d < device_count =>
        Serves(d) \/ (~devices[d].queued /\ d \notin {keyboard, pointer})

Unarmed == pc \notin {"poll", "drain"} => \A d \in Indices : ~devices[d].queued

Pointed ==
    /\ \A d \in {keyboard, pointer} : d = None \/ (d \in Indices /\ d < device_count)
    /\ pc = "drain" => Idx \in {keyboard, pointer} \ {None}

Polled == Shapes /\ Spare /\ Held /\ Granted /\ Armed /\ Unarmed /\ Pointed

\* Nothing is given up on: as far as that, a read that is queued is heard of.
PollInv == late = 0 => Polled

-----------------------------------------------------------------------------
(* What doorbells and transfers do to a slot and to a short ring.          *)

LEMMA RingIs ==
    ASSUME NEW t, DOMAIN t = SlotFields, NEW ep \in {"ep0", "intr"}, NEW r
    PROVE  LET u == Ring(t, ep, r)
           IN  /\ DOMAIN u = SlotFields
               /\ u.dev = t.dev /\ u.state = t.state /\ u.halted = t.halted
               /\ u.ep0 = t.ep0 /\ u.intr = t.intr
               /\ \A x : x # ep => (x \in u.rung <=> x \in t.rung)
               /\ t.state = "hid" /\ Ready(r, t[ep]) => ep \in u.rung
  <1>1. CASE Ring(t, ep, r) = t
    <2>1. t.state = "hid" /\ Ready(r, t[ep]) => ep \in t.rung
      <3> SUFFICES ASSUME t.state = "hid", Ready(r, t[ep]) PROVE ep \in t.rung
        OBVIOUS
      <3>1. Ring(t, ep, r) = [t EXCEPT !.rung = @ \cup {ep}]
        BY DEF Ring
      <3>2. [t EXCEPT !.rung = @ \cup {ep}].rung = t.rung \cup {ep}
        BY DEF SlotFields
      <3> QED
        BY <1>1, <3>1, <3>2
    <2> QED
      BY <1>1, <2>1
  <1>2. CASE Ring(t, ep, r) = [t EXCEPT !.rung = @ \cup {ep}]
    BY <1>2 DEF SlotFields
  <1> QED
    BY <1>1, <1>2 DEF Ring

LEMMA TakenIs ==
    ASSUME NEW t, DOMAIN t = SlotFields, NEW ep \in {"ep0", "intr"}, NEW r
    PROVE  LET u == Taken(t, ep, r)
           IN  /\ DOMAIN u = SlotFields
               /\ u.dev = t.dev /\ u.state = t.state /\ u.halted = t.halted
               /\ u[ep] = Past(r, t[ep])
               /\ ep = "ep0" => u.intr = t.intr
               /\ ep = "intr" => u.ep0 = t.ep0
               /\ \A x : x \in u.rung => x \in t.rung
               /\ \A x : x # ep /\ x \in t.rung => x \in u.rung
  <1> DEFINE c == Past(r, t[ep])
             b == Ready(r, c)
             u == [t EXCEPT ![ep] = c, !.rung = IF b THEN @ ELSE @ \ {ep}]
  <1>1. Taken(t, ep, r) = u
    BY DEF Taken
  <1> HIDE DEF c, b
  <1>2. /\ DOMAIN u = SlotFields /\ u.dev = t.dev /\ u.state = t.state /\ u.halted = t.halted
        /\ u[ep] = c /\ u.rung = IF b THEN t.rung ELSE t.rung \ {ep}
        /\ ep = "ep0" => u.intr = t.intr
        /\ ep = "intr" => u.ep0 = t.ep0
    <2>1. CASE ep = "ep0"
      BY <2>1 DEF SlotFields
    <2>2. CASE ep = "intr"
      BY <2>2 DEF SlotFields
    <2> HIDE DEF u
    <2> QED
      BY <2>1, <2>2
  <1> HIDE DEF u
  <1> QED
    BY <1>1, <1>2 DEF c

LEMMA HaltedIs ==
    ASSUME NEW t, DOMAIN t = SlotFields, NEW ep \in {"ep0", "intr"}
    PROVE  LET u == Halted(t, ep)
           IN  /\ DOMAIN u = SlotFields
               /\ u.dev = t.dev /\ u.state = t.state /\ u.ep0 = t.ep0 /\ u.intr = t.intr
               /\ u.halted = t.halted \cup {ep}
               /\ \A x : x \in u.rung => x \in t.rung
               /\ \A x : x # ep /\ x \in t.rung => x \in u.rung
  <1> DEFINE h == t.halted \cup {ep}
             g == t.rung \ {ep}
  <1>1. Halted(t, ep) = [t EXCEPT !.halted = h, !.rung = g]
    BY DEF Halted
  <1>2. (\A x : x \in g => x \in t.rung) /\ (\A x : x # ep /\ x \in t.rung => x \in g)
    OBVIOUS
  <1> HIDE DEF g
  <1> QED
    BY <1>1, <1>2 DEF SlotFields

\* The control endpoint goes from request to request, never past the fourth.
LEMMA LowTakes ==
    ASSUME NEW r, NEW c \in Low, RING_LEN > 10, Ready(r, c), r[c.index].what # "link"
    PROVE  /\ r[c.index].cycle = 1 /\ Entry(r, c) = r[c.index]
           /\ Past(r, c) = [index |-> c.index + 1, cycle |-> 1]
           /\ c.index \in Entries /\ c.index \in 0 .. 4
           /\ c.index < 4 => Past(r, c) \in Low
  <1>1. c.index \in 0 .. 4 /\ c.cycle = 1 /\ c = [index |-> c.index, cycle |-> 1]
    BY DEF Low
  <1>2. Follow(r, c) = c
    BY DEF Follow
  <1>3. Past(r, c) = [index |-> c.index + 1, cycle |-> 1]
    BY <1>1, <1>2 DEF Past, Next1
  <1>4. r[c.index].cycle = 1 /\ Entry(r, c) = r[c.index]
    BY <1>1, <1>2 DEF Ready, Visible, Entry
  <1> QED
    BY <1>1, <1>3, <1>4, RingLen DEF Low

LEMMA ShortTakes ==
    ASSUME NEW r, NEW m, Short(r, m), NEW c \in Low, RING_LEN > 10, Ready(r, c)
    PROVE  Past(r, c) \in Low
  <1>1. c.index \in 0 .. 4 /\ c.index \in Entries
    BY RingLen DEF Low
  <1>2. r[c.index].what # "link" /\ (r[c.index].cycle = 1 <=> c.index < m) /\ m \in 0 .. 4
    BY <1>1 DEF Short
  <1>3. c.index < 4
    BY <1>1, <1>2, LowTakes
  <1> QED
    BY <1>2, <1>3, LowTakes

\* What putting an entry changes.
LEMMA PutNoRequests ==
    ASSUME NEW r, DOMAIN r = Entries, NoRequests(r), NEW p \in Cursor, NEW what, NEW slot, NEW num,
           what \notin ControlSteps
    PROVE  NoRequests(Put(r, p, what, slot, num))
  <1> DEFINE link == [Blank EXCEPT !.what = "link", !.cycle = p.cycle]
             q == Wrapped(p)
             e == [what |-> what, slot |-> slot, n |-> num, cycle |-> q.cycle]
             l == IF p.index >= RING_LEN - 1 THEN [r EXCEPT ![RING_LEN - 1] = link] ELSE r
  <1>1. Put(r, p, what, slot, num) = [l EXCEPT ![q.index] = e]
    BY DEF Put
  <1>2. link.what \notin ControlSteps /\ e.what = what
    BY DEF Blank, ControlSteps
  <1> HIDE DEF link, q, e
  <1>3. DOMAIN l = Entries /\ \A i \in Entries : l[i] = r[i] \/ l[i] = link
    OBVIOUS
  <1> HIDE DEF l
  <1>4. \A i \in Entries : [l EXCEPT ![q.index] = e][i] \in {l[i], e}
    BY <1>3
  <1> QED
    BY <1>1, <1>2, <1>3, <1>4 DEF NoRequests

LEMMA ShortPut ==
    ASSUME NEW r, NEW m, Short(r, m), NEW k \in 0 .. 3, k <= m, RING_LEN > 10,
           NEW what, NEW slot, NEW num, what # "link"
    PROVE  LET p == [index |-> k, cycle |-> 1]
           IN  /\ Advance(p) = [index |-> k + 1, cycle |-> 1]
               /\ \E j : Short(Put(r, p, what, slot, num), j) /\ k + 1 <= j
  <1> DEFINE p == [index |-> k, cycle |-> 1]
             e == [what |-> what, slot |-> slot, n |-> num, cycle |-> 1]
             j == IF k < m THEN m ELSE k + 1
             new == Put(r, p, what, slot, num)
  <1>1. p \in Cursor /\ p.index = k /\ p.cycle = 1 /\ k < RING_LEN - 1 /\ k \in Entries
    BY RingLen DEF Cursor
  <1>2. Advance(p) = [index |-> k + 1, cycle |-> 1]
    BY <1>1, AdvanceIs
  <1>3. Wrapped(p) = p /\ ~(p.index >= RING_LEN - 1)
    BY <1>1, RingLen DEF Wrapped
  <1>4. new = [r EXCEPT ![k] = e]
    BY <1>1, <1>3 DEF Put
  <1>5. m \in 0 .. 4 /\ j \in 0 .. 4 /\ k + 1 <= j /\ (k < m => j = m) /\ (~(k < m) => j = m + 1 /\ k = m)
    BY DEF Short
  <1>6. e.cycle = 1 /\ e.what = what
    OBVIOUS
  <1> HIDE DEF e, j, new
  <1>7. /\ DOMAIN new = Entries /\ new[k] = e
        /\ \A i \in Entries : i # k => new[i] = r[i]
    BY <1>1, <1>4 DEF Short
  <1>8. \A i \in Entries : i \in Nat
    BY RingLen
  <1>9. ASSUME NEW i \in Entries
        PROVE  new[i].cycle \in {0, 1} /\ (new[i].cycle = 1 <=> i < j) /\ new[i].what # "link"
    <2>1. CASE i = k
      BY <1>5, <1>6, <1>7, <2>1
    <2>2. CASE i # k
      <3>1. r[i].cycle \in {0, 1} /\ (r[i].cycle = 1 <=> i < m) /\ r[i].what # "link"
        BY DEF Short
      <3>2. i < j <=> i < m
        BY <1>5, <1>8, <2>2
      <3> QED
        BY <1>7, <2>2, <3>1, <3>2
    <2> QED
      BY <2>1, <2>2
  <1>10. NoRequests(new)
    <2>1. NoRequests(r)
      BY DEF Short
    <2>2. \A i \in Entries : i >= 4 => i # k
      BY <1>8
    <2> QED
      BY <1>7, <2>1, <2>2 DEF NoRequests
  <1>11. Short(new, j)
    BY <1>5, <1>7, <1>9, <1>10 DEF Short
  <1> QED
    BY <1>2, <1>5, <1>11 DEF new

\* A device becomes an input device: its interrupt endpoint begins at the base.
LEMMA ShortRinged ==
    ASSUME NEW r, Short(r, 4), RING_LEN > 10
    PROVE  Ringed(r, [index |-> 4, cycle |-> 1], Start, 4)
  <1> DEFINE p == [index |-> 4, cycle |-> 1]
  <1>1. p \in Cursor /\ p.index = 4 /\ p.cycle = 1
    BY RingLen DEF Cursor
  <1>2. Start \in Cursor /\ Start.index = 0 /\ Start.cycle = 1
    BY RingLen DEF Cursor, Start
  <1> HIDE DEF p
  <1>3. Ringed(r, p, Start, 4)
    BY <1>1, <1>2 DEF Ringed, Short
  <1> QED
    BY <1>3 DEF p

\* The control endpoint of an input device completes something: that is heard
\* in the place of a read, and there are five such completions at most.
LEMMA ListensControl ==
    ASSUME NEW r, NEW p, NEW d, NEW t, NEW f \in {0, 1}, Listening(r, p, d, t, f),
           DOMAIN t = SlotFields, RING_LEN > 10,
           Ready(r, t.ep0), "ep0" \notin t.halted
    PROVE  LET u == Taken(t, "ep0", r)
           IN  /\ Entry(r, t.ep0).what \in ControlSteps => Listening(r, p, d, u, 0)
               /\ Listening(r, p, d, Halted(u, "ep0"), 0)
  <1> DEFINE u == Taken(t, "ep0", r)
             v == Halted(u, "ep0")
  <1>1. t.ep0 \in Low /\ t.dev = d /\ t.state = "hid" /\ NoRequests(r)
    BY DEF Listening
  <1>2. PICK n : Behind(r, p, t, f, n)
    BY DEF Listening
  <1>3. n \in Nat /\ n <= 5 + Reach(t) /\ Ringed(r, p, t.intr, n) /\ Reach(t) = t.ep0.index
        /\ t.ep0.index \in 0 .. 4
    BY <1>1, <1>2 DEF Behind, Reach, Ringed, Low
  <1>4. t.ep0.index \in Entries /\ t.ep0.index < Z /\ r[t.ep0.index].what # "link"
    BY <1>3, RingLen DEF Ringed, Z
  <1>5. /\ Entry(r, t.ep0) = r[t.ep0.index]
        /\ Past(r, t.ep0) = [index |-> t.ep0.index + 1, cycle |-> 1]
        /\ t.ep0.index < 4 => Past(r, t.ep0) \in Low
    BY <1>1, <1>4, LowTakes
  <1>6. /\ DOMAIN u = SlotFields /\ u.dev = d /\ u.state = "hid" /\ u.halted = t.halted
        /\ u.ep0 = Past(r, t.ep0) /\ u.intr = t.intr
    BY <1>1, TakenIs
  <1>7. /\ v.dev = d /\ v.state = "hid" /\ v.halted = t.halted \cup {"ep0"} /\ v.intr = t.intr
    BY <1>6, HaltedIs
  <1> HIDE DEF u, v
  <1>8. ASSUME Entry(r, t.ep0).what \in ControlSteps PROVE Listening(r, p, d, u, 0)
    <2>1. t.ep0.index < 4
      BY <1>1, <1>3, <1>4, <1>5, <1>8 DEF NoRequests
    <2>2. Reach(u) = t.ep0.index + 1
      BY <1>5, <1>6 DEF Reach
    <2>3. Behind(r, p, u, 0, n)
      BY <1>3, <1>6, <2>2 DEF Behind
    <2> QED
      BY <1>1, <1>5, <1>6, <2>1, <2>3 DEF Listening
  <1>9. Listening(r, p, d, v, 0)
    <2>1. Reach(v) = 5 /\ "ep0" \in v.halted
      BY <1>7 DEF Reach
    <2>2. Behind(r, p, v, 0, n)
      BY <1>3, <1>7, <2>1 DEF Behind
    <2> QED
      BY <1>1, <1>7, <2>1, <2>2 DEF Listening
  <1> QED
    BY <1>8, <1>9 DEF u, v

LEMMA ReachIs ==
    ASSUME NEW t, "ep0" \in t.halted \/ t.ep0 \in Low PROVE Reach(t) \in 0 .. 5
  BY DEF Reach, Low

\* Its interrupt endpoint completes a read, or stalls.
LEMMA ListensInterrupt ==
    ASSUME NEW r, NEW p, NEW d, NEW t, NEW f \in {0, 1}, Listening(r, p, d, t, f),
           DOMAIN t = SlotFields, Ready(r, t.intr)
    PROVE  LET u == Taken(t, "intr", r)
           IN  /\ Listening(r, p, d, u, 0)
               /\ Listening(r, p, d, Halted(u, "intr"), 0)
  <1> DEFINE u == Taken(t, "intr", r)
             v == Halted(u, "intr")
  <1>1. t.dev = d /\ t.state = "hid" /\ NoRequests(r) /\ ("ep0" \in t.halted \/ t.ep0 \in Low)
    BY DEF Listening
  <1>2. PICK n : Behind(r, p, t, f, n)
    BY DEF Listening
  <1>3. n \in Nat /\ n <= 5 + Reach(t) /\ Ringed(r, p, t.intr, n) /\ Reach(t) \in 0 .. 5
    BY <1>1, <1>2, ReachIs DEF Behind, Ringed
  <1>4. n > 0 /\ Ringed(r, p, Past(r, t.intr), n - 1)
    BY <1>3, RingTake
  <1>5. /\ DOMAIN u = SlotFields /\ u.dev = d /\ u.state = "hid" /\ u.halted = t.halted
        /\ u.intr = Past(r, t.intr) /\ u.ep0 = t.ep0
    BY <1>1, TakenIs
  <1>6. /\ v.dev = d /\ v.state = "hid" /\ v.halted = t.halted \cup {"intr"} /\ v.ep0 = t.ep0
        /\ v.intr = u.intr
    BY <1>5, HaltedIs
  <1> HIDE DEF u, v
  <1>7. Reach(u) = Reach(t) /\ Reach(v) = Reach(t)
    BY <1>5, <1>6 DEF Reach
  <1>8. Behind(r, p, u, 0, n - 1) /\ Behind(r, p, v, 0, n - 1)
    BY <1>3, <1>4, <1>5, <1>6, <1>7 DEF Behind
  <1>9. Listening(r, p, d, u, 0)
    BY <1>1, <1>5, <1>8 DEF Listening
  <1>10. Listening(r, p, d, v, 0)
    BY <1>1, <1>6, <1>8 DEF Listening
  <1> QED
    BY <1>9, <1>10 DEF u, v

\* The driver queues a read: there is a place for it, and the endpoint is told.
LEMMA ListensRead ==
    ASSUME NEW r, NEW p, NEW d, NEW t, Listening(r, p, d, t, 0),
           DOMAIN t = SlotFields, RING_LEN > 10, NEW slot
    PROVE  LET new == Put(r, p, "read", slot, 0)
           IN  Listening(new, Advance(p), d, Ring(t, "intr", new), 1)
  <1> DEFINE new == Put(r, p, "read", slot, 0)
             q == Advance(p)
             u == Ring(t, "intr", new)
  <1>1. t.dev = d /\ t.state = "hid" /\ NoRequests(r) /\ ("ep0" \in t.halted \/ t.ep0 \in Low)
    BY DEF Listening
  <1>2. PICK n : Behind(r, p, t, 0, n)
    BY DEF Listening
  <1>3. n \in Nat /\ n <= 4 + Reach(t) /\ Ringed(r, p, t.intr, n) /\ Reach(t) \in 0 .. 5
    BY <1>1, <1>2, ReachIs DEF Behind, Ringed
  <1>4. n < Z
    BY <1>3, RingLen DEF Z
  <1>5. Ringed(new, q, t.intr, n + 1)
    BY <1>3, <1>4, RingPut
  <1>6. NoRequests(new)
    BY <1>1, <1>3, PutNoRequests DEF Ringed, ControlSteps
  <1> HIDE DEF new, q
  <1>7. Ready(new, t.intr)
    <2>1. n + 1 > 0
      BY <1>3
    <2> QED
      BY <1>5, <2>1, RingTake
  <1>8. /\ u.dev = d /\ u.state = "hid" /\ u.halted = t.halted /\ u.ep0 = t.ep0 /\ u.intr = t.intr
        /\ "intr" \in u.rung
    BY <1>1, <1>7, RingIs
  <1> HIDE DEF u
  <1>9. Reach(u) = Reach(t)
    BY <1>8 DEF Reach
  <1>10. Behind(new, q, u, 1, n + 1)
    BY <1>3, <1>5, <1>8, <1>9 DEF Behind
  <1>11. Listening(new, q, d, u, 1)
    BY <1>1, <1>6, <1>8, <1>10 DEF Listening
  <1> QED
    BY <1>11 DEF new, q, u

-----------------------------------------------------------------------------
(* Completions, and the devices a step does not touch.                     *)

LEMMA PendingPosted ==
    ASSUME EventQueue, NEW k, NEW ok, NEW slot, Post(k, ok, slot), UNCHANGED <<ev, seen>>
    PROVE  \A s : Pending(s)' <=> Pending(s) \/ (k = "transfer" /\ slot = s)
  <1>1. /\ hcEv.index \in Entries /\ ~PendingAt(hcEv.index)
        /\ evRing'[hcEv.index].what = k /\ evRing'[hcEv.index].slot = slot
        /\ \A i \in Entries : i # hcEv.index => evRing'[i] = evRing[i]
        /\ \A i \in Entries : PendingAt(i)' <=> PendingAt(i) \/ i = hcEv.index
    BY PostKeeps
  <1> TAKE s
  <1>2. ASSUME Pending(s) PROVE Pending(s)'
    <2>1. PICK i \in Entries : PendingAt(i) /\ evRing[i].what = "transfer" /\ evRing[i].slot = s
      BY <1>2 DEF Pending
    <2>2. PendingAt(i)' /\ evRing'[i] = evRing[i]
      BY <1>1, <2>1
    <2> QED
      BY <2>1, <2>2 DEF Pending
  <1>3. ASSUME k = "transfer", slot = s PROVE Pending(s)'
    BY <1>1, <1>3 DEF Pending
  <1>4. ASSUME Pending(s)', ~(k = "transfer" /\ slot = s) PROVE Pending(s)
    <2>1. PICK i \in Entries : PendingAt(i)' /\ evRing'[i].what = "transfer" /\ evRing'[i].slot = s
      BY <1>4 DEF Pending
    <2>2. i # hcEv.index
      BY <1>1, <1>4, <2>1
    <2> QED
      BY <1>1, <2>1, <2>2 DEF Pending
  <1> QED
    BY <1>2, <1>3, <1>4

LEMMA PendingTaken ==
    ASSUME EventQueue, HasEvent, ConsumeEvent, UNCHANGED <<evRing, hcEv, posted>>
    PROVE  \A s : /\ Event.what = "transfer" /\ Event.slot = s => Pending(s)
                  /\ ~(Event.what = "transfer" /\ Event.slot = s) => (Pending(s)' <=> Pending(s))
  <1>1. /\ PendingAt(ev.index) /\ ev.index \in Entries
        /\ \A i \in Entries : PendingAt(i)' <=> PendingAt(i) /\ i # ev.index
    BY ConsumeKeeps
  <1> TAKE s
  <1>2. ASSUME Event.what = "transfer", Event.slot = s PROVE Pending(s)
    BY <1>1, <1>2 DEF Pending, Event
  <1>3. ASSUME ~(Event.what = "transfer" /\ Event.slot = s) PROVE Pending(s)' <=> Pending(s)
    BY <1>1, <1>3 DEF Pending, Event
  <1> QED
    BY <1>2, <1>3

\* A device kept has a slot, and no other has it.
LEMMA KeptSlot ==
    ASSUME Table, NEW d \in Indices, d < device_count
    PROVE  /\ devices[d].slot \in Slots /\ Kept(devices[d].slot)
           /\ \A x \in Indices : x < device_count /\ devices[x].slot = devices[d].slot => x = d
  <1>1. devices[d].slot \in Slots /\ Kept(devices[d].slot)
    BY DEF Table, Kept
  <1>2. ASSUME NEW x \in Indices, x < device_count, devices[x].slot = devices[d].slot PROVE x = d
    <2>1. ~(x < d) /\ ~(d < x)
      BY <1>2 DEF Table
    <2> QED
      BY <2>1 DEF Indices
  <1> QED
    BY <1>1, <1>2

\* A device that a step does not touch.
LEMMA ServesSame ==
    ASSUME NEW d, rings'[d] = rings[d], devices'[d].ring = devices[d].ring,
           devices'[d].slot = devices[d].slot, slots'[devices[d].slot] = slots[devices[d].slot],
           Flying(d)' = Flying(d), Serves(d)
    PROVE  Serves(d)'
  BY DEF Serves

LEMMA ArmedSame ==
    ASSUME Armed, UNCHANGED <<device_count, keyboard, pointer>>,
           \A d \in Indices : d < device_count =>
                /\ rings'[d] = rings[d] /\ devices'[d] = devices[d]
                /\ slots'[devices[d].slot] = slots[devices[d].slot]
                /\ Flying(d)' = Flying(d)
    PROVE  Armed'
  <1> SUFFICES ASSUME NEW d \in Indices, d < device_count
               PROVE  Serves(d)' \/ (~devices'[d].queued /\ d \notin {keyboard', pointer'})
    BY DEF Armed
  <1>1. /\ rings'[d] = rings[d] /\ devices'[d] = devices[d]
        /\ slots'[devices[d].slot] = slots[devices[d].slot] /\ Flying(d)' = Flying(d)
    OBVIOUS
  <1>2. CASE Serves(d)
    BY <1>1, <1>2, ServesSame
  <1>3. CASE ~Serves(d)
    BY <1>1, <1>3 DEF Armed
  <1> QED
    BY <1>2, <1>3

LEMMA NotFlying == ASSUME NEW d, ~devices[d].queued PROVE Flying(d) = 0
  BY DEF Flying

\* A step of the driver that leaves rings, devices and slots alone.
LEMMA StillKeeps ==
    ASSUME Polled, UNCHANGED <<rings, devices, slots, device_count, keyboard, pointer>>,
           UNCHANGED <<evRing, ev, hcEv>> \/ \A d \in Indices : ~devices[d].queued
    PROVE  /\ Shapes' /\ Armed'
           /\ ~Building' => Spare' /\ Held'
           /\ \A d \in {keyboard, pointer}' : d = None \/ (d \in Indices /\ d < device_count')
           /\ pc \notin {"poll", "drain"} => \A d \in Indices : ~devices'[d].queued
  <1>1. ASSUME NEW d \in Indices PROVE Flying(d)' = Flying(d)
    <2>1. CASE UNCHANGED <<evRing, ev, hcEv>>
      BY <2>1 DEF Flying, Pending, PendingAt
    <2>2. CASE ~devices[d].queued
      BY <2>2 DEF Flying
    <2> QED
      BY <2>1, <2>2
  <1>2. Armed'
    BY <1>1, ArmedSame DEF Polled
  <1>3. ~Building' => Spare' /\ Held'
    BY DEF Polled, Spare, Held
  <1> QED
    BY <1>2, <1>3 DEF Polled, Shapes, Pointed, Unarmed

-----------------------------------------------------------------------------
(* The steps between two devices, and those that issue something.          *)

LEMMA NextPortPolls ==
    ASSUME Matched, Polled, NextPort PROVE Polled'
  <1>1. /\ pc = "ports" /\ at' = [port |-> at.port + 1, step |-> "enable", dev |-> device_count]
        /\ UNCHANGED <<rings, devices, slots, device_count, keyboard, pointer>>
        /\ UNCHANGED <<evRing, ev, hcEv>> /\ pc' \in {"ports", "wait_command"}
    BY DEF NextPort, hcVars, evVars, IssueCommand
  <1>2. Quiet'
    BY <1>1, BetweenDevices, QuietSame
  <1>3. ~Building'
    BY <1>1 DEF Building, ControlSteps
  <1>4. Granted'
    BY <1>2 DEF Granted, Quiet
  <1> QED
    BY <1>1, <1>3, <1>4, StillKeeps DEF Polled, Unarmed, Pointed

LEMMA PollPolls ==
    ASSUME Matched, Polled, BringUpDone \/ \E d \in Indices : Poll(d)
    PROVE  Polled'
  <1>1. /\ pc' \in {"poll", "drain"}
        /\ UNCHANGED <<rings, devices, slots, device_count, keyboard, pointer>>
        /\ UNCHANGED <<evRing, ev, hcEv>>
    BY DEF BringUpDone, Poll, hcVars, evVars
  <1>2. ~Building' /\ Granted' /\ Unarmed'
    BY <1>1 DEF Building, Granted, Unarmed
  <1>3. pc' = "drain" => Idx' \in {keyboard', pointer'} \ {None}
    <2> SUFFICES ASSUME pc' = "drain" PROVE Idx' \in {keyboard', pointer'} \ {None}
      OBVIOUS
    <2>1. PICK d \in Indices : Poll(d)
      BY DEF BringUpDone
    <2>2. Idx' = d
      BY <2>1 DEF Poll, Idx, Matched
    <2> QED
      BY <1>1, <2>1, <2>2 DEF Poll
  <1> QED
    BY <1>1, <1>2, <1>3, StillKeeps DEF Polled, Pointed

LEMMA BeforeIs ==
    ASSUME Building
    PROVE  /\ Before \in 0 .. 4 /\ (at.step \in ControlSteps => Before \in 0 .. 3)
           /\ Requests \in Nat
  BY DEF Building, Before, Requests, ControlSteps

\* A command about the device in hand.
LEMMA CommandIssued ==
    ASSUME Matched, Polled, Issue, at.step \notin ControlSteps PROVE Polled'
  <1>1. /\ pc = "step" /\ pc' = "wait_command" /\ at' = at
        /\ UNCHANGED <<rings, devices, slots, device_count, keyboard, pointer>>
        /\ UNCHANGED <<evRing, ev, hcEv>>
        /\ at.step = "address" => input'.dev = Idx
    BY DEF Issue, IssueCommand, evVars
  <1>2. Quiet'
    BY <1>1, InHand, QuietSame
  <1>3. Granted'
    BY <1>2 DEF Granted, Quiet
  <1>4. (Building' <=> Building) /\ Idx' = Idx /\ Own' = Own /\ Requests' = Requests
    BY <1>1 DEF Building, Idx, Own, Requests, Before
  <1>5. Spare'
    BY <1>1, <1>4 DEF Polled, Spare
  <1>6. Held'
    BY <1>1, <1>4 DEF Polled, Held
  <1> QED
    BY <1>1, <1>3, <1>5, <1>6, StillKeeps DEF Polled, Unarmed, Pointed

\* A request to the device in hand: the next one on its ring.
LEMMA RequestIssued ==
    ASSUME Matched, Polled, Issue, at.step \in ControlSteps, RING_LEN > 10 PROVE Polled'
  <1> DEFINE k == Before
             p == [index |-> k, cycle |-> 1]
             new == Put(rings[Idx], p, at.step, Own, 0)
  <1>1. /\ pc = "step" /\ pc' = "wait_transfer" /\ at' = at /\ Enqueue(Idx, at.step, "ep0")
        /\ UNCHANGED <<device_count, keyboard, pointer, evRing, ev, hcEv>>
    BY DEF Issue, evVars, ControlSteps
  <1>2. /\ Table /\ Idx = device_count /\ Idx \in Indices /\ Own \in Slots /\ ~Kept(Own)
    BY <1>1, InHand
  <1>3. Building /\ Building' /\ Requests = k /\ k \in 0 .. 3 /\ Idx' = Idx /\ at.step # "address"
    BY <1>1, BeforeIs DEF Building, Requests, Idx, ControlSteps
  <1>4. Requests' = k + 1
    BY <1>1 DEF Requests, Before
  <1>5. /\ devices[Idx].ring = p /\ "intr" \notin slots[Own].rung
        /\ slots[Own].dev = Idx /\ slots[Own].ep0 \in Low
    BY <1>3 DEF Polled, Held
  <1>6. /\ DOMAIN rings = Indices /\ DOMAIN slots[Own] = SlotFields
        /\ \A d \in Indices : DOMAIN devices[d] = DeviceFields
        /\ DOMAIN devices = Indices /\ DOMAIN slots = Slots
    BY <1>2 DEF Polled, Shapes, Table
  <1>7. device_count \in Nat
    BY <1>2 DEF Table
  <1>8. PICK m : Short(rings[Idx], m) /\ k <= m
    BY <1>2, <1>3, <1>7 DEF Polled, Spare
  <1>9. at.step # "link"
    BY DEF ControlSteps
  <1> HIDE DEF k
  <1>10. Advance(p) = [index |-> k + 1, cycle |-> 1] /\ \E j : Short(new, j) /\ k + 1 <= j
    BY <1>3, <1>8, <1>9, ShortPut
  <1>11. /\ rings' = [rings EXCEPT ![Idx] = new]
         /\ devices' = [devices EXCEPT ![Idx].ring = Advance(@), ![Idx].queued = FALSE,
                                       ![Idx].ready = FALSE]
         /\ slots' = [slots EXCEPT ![Own] = Ring(@, "ep0", rings'[Idx])]
    BY <1>1, <1>5 DEF Enqueue, Own
  <1> HIDE DEF p, new
  <1>12. /\ DOMAIN rings' = Indices /\ rings'[Idx] = new
         /\ \A d \in Indices : d # Idx => rings'[d] = rings[d]
    BY <1>2, <1>6, <1>11
  <1>13. /\ \A d \in Indices : d # Idx => devices'[d] = devices[d]
         /\ DOMAIN devices'[Idx] = DeviceFields /\ devices'[Idx].slot = Own
         /\ devices'[Idx].ring = Advance(p) /\ devices'[Idx].queued = FALSE
    BY <1>2, <1>5, <1>6, <1>11 DEF DeviceFields, Own
  <1>14. slots'[Own] = Ring(slots[Own], "ep0", new) /\ \A s \in Slots : s # Own => slots'[s] = slots[s]
    BY <1>2, <1>6, <1>11, <1>12
  <1>15. /\ DOMAIN slots'[Own] = SlotFields /\ slots'[Own].dev = Idx /\ slots'[Own].ep0 \in Low
         /\ "intr" \notin slots'[Own].rung
    BY <1>5, <1>6, <1>14, RingIs
  <1>16. Own' = Own
    BY <1>3, <1>13 DEF Own
  <1>17. Shapes'
    BY <1>6, <1>12, <1>13, <1>14, <1>15 DEF Polled, Shapes
  <1>18. Spare'
    <2> SUFFICES ASSUME NEW d \in Indices, d >= device_count
                 PROVE  \E j : Short(rings'[d], j) /\ (Building' /\ d = Idx' => Requests' <= j)
      BY <1>1 DEF Spare
    <2>1. CASE d = Idx
      BY <1>4, <1>10, <1>12, <2>1
    <2>2. CASE d # Idx
      <3>1. \E j : Short(rings[d], j)
        BY DEF Polled, Spare
      <3> QED
        BY <1>3, <1>12, <2>2, <3>1
    <2> QED
      BY <2>1, <2>2
  <1>19. Held'
    BY <1>1, <1>3, <1>4, <1>10, <1>13, <1>15, <1>16 DEF Held
  <1>20. Granted' /\ pc \notin {"poll", "drain"} /\ pc' \notin {"poll", "drain"}
    BY <1>1 DEF Granted
  <1>21. Unarmed' /\ \A d \in Indices : ~devices[d].queued /\ ~devices'[d].queued
    BY <1>13, <1>20 DEF Polled, Unarmed
  <1>22. Armed'
    <2>1. ASSUME NEW d \in Indices, d < device_count
          PROVE  /\ rings'[d] = rings[d] /\ devices'[d] = devices[d]
                 /\ slots'[devices[d].slot] = slots[devices[d].slot] /\ Flying(d)' = Flying(d)
      <3>1. d # Idx /\ devices[d].slot \in Slots /\ devices[d].slot # Own
        BY <1>2, <1>7, <2>1, KeptSlot DEF Indices
      <3>2. Flying(d)' = Flying(d)
        BY <1>21 DEF Flying
      <3> QED
        BY <1>12, <1>13, <1>14, <3>1, <3>2
    <2> QED
      BY <1>1, <2>1, ArmedSame DEF Polled
  <1>23. Pointed'
    BY <1>1 DEF Polled, Pointed
  <1> QED
    BY <1>17, <1>18, <1>19, <1>20, <1>21, <1>22, <1>23 DEF Polled

-----------------------------------------------------------------------------
(* The steps that take an answer, or give one up.                          *)

\* After a request the next one is put where the last one left the ring.
LEMMA TransferGoesOn ==
    ASSUME Matched, Polled, pc = "wait_transfer", NEW ok, NEW slot, Proceed(ok, slot),
           UNCHANGED <<rings, slots>>
    PROVE  Polled'
  <1> DEFINE next == Follows(ok)
  <1>1. /\ Table /\ Idx = device_count /\ Idx \in Indices /\ at.step \in ControlSteps
    BY InHand
  <1>2. /\ next \in {"config", "disable", "mscconf", "setconf", "setproto", "endpoint", "bulk"}
        /\ next = "config" => at.step = "device"
        /\ next \in {"mscconf", "setconf"} => at.step = "config"
        /\ next = "setproto" => at.step = "setconf"
        /\ next = "endpoint" => at.step = "setproto"
    BY <1>1 DEF Follows, ControlSteps
  <1>3. /\ at' = [at EXCEPT !.step = next] /\ pc' = "step"
        /\ UNCHANGED <<device_count, keyboard, pointer>>
    BY <1>1, <1>2 DEF Proceed, ControlSteps
  <1>4. devices' = devices \/ devices' = [devices EXCEPT ![Idx].endpoint = TRUE]
    BY <1>1 DEF Proceed, ControlSteps
  <1>5. at'.step = next /\ Idx' = Idx
    BY <1>3 DEF Matched, Idx
  <1>6. /\ DOMAIN devices = Indices /\ device_count \in Nat
        /\ \A d \in Indices : DOMAIN devices[d] = DeviceFields
    BY <1>1 DEF Polled, Shapes, Table
  <1>7. \A d \in Indices : /\ DOMAIN devices'[d] = DeviceFields
                           /\ devices'[d].ring = devices[d].ring /\ devices'[d].slot = devices[d].slot
                           /\ devices'[d].queued = devices[d].queued
                           /\ d # Idx => devices'[d] = devices[d]
    BY <1>1, <1>4, <1>6 DEF DeviceFields
  <1>8. Own' = Own
    BY <1>1, <1>5, <1>7 DEF Own
  <1> HIDE DEF next
  <1>9. Building /\ (Building' => Requests' = Requests /\ at'.step # "address" /\ at.step # "address")
    <2>1. Building /\ at.step # "address"
      BY <1>1 DEF Building, ControlSteps
    <2>2. Requests = Before + 1 /\ Requests' = Before'
      BY <1>3 DEF Requests
    <2>3. ASSUME Building' PROVE Before' = Before + 1
      <3>1. next \in {"config", "mscconf", "setconf", "setproto", "endpoint"}
        BY <1>2, <1>5, <2>3 DEF Building, ControlSteps
      <3>2. CASE next = "config"
        BY <1>2, <1>5, <3>2 DEF Before
      <3>3. CASE next \in {"mscconf", "setconf"}
        BY <1>2, <1>5, <3>3 DEF Before
      <3>4. CASE next = "setproto"
        BY <1>2, <1>5, <3>4 DEF Before
      <3>5. CASE next = "endpoint"
        BY <1>2, <1>5, <3>5 DEF Before
      <3> QED
        BY <3>1, <3>2, <3>3, <3>4, <3>5
    <2> QED
      BY <1>2, <1>5, <2>1, <2>2, <2>3
  <1>10. Shapes'
    BY <1>7 DEF Polled, Shapes
  <1>11. Spare'
    BY <1>3, <1>5, <1>9 DEF Polled, Spare
  <1>12. Held'
    BY <1>1, <1>5, <1>7, <1>8, <1>9 DEF Polled, Held
  <1>13. Granted' /\ Unarmed' /\ \A d \in Indices : ~devices[d].queued /\ ~devices'[d].queued
    BY <1>3, <1>7 DEF Granted, Polled, Unarmed
  <1>14. Armed'
    <2>1. ASSUME NEW d \in Indices, d < device_count
          PROVE  devices'[d] = devices[d] /\ Flying(d)' = Flying(d)
      BY <1>1, <1>6, <1>7, <1>13, <2>1 DEF Flying, Indices
    <2> QED
      BY <1>3, <2>1, ArmedSame DEF Polled
  <1>15. Pointed'
    BY <1>3 DEF Polled, Pointed
  <1> QED
    BY <1>10, <1>11, <1>12, <1>13, <1>14, <1>15 DEF Polled

\* A slot is enabled: a device begins, with its ring at the base.
LEMMA DeviceBegins ==
    ASSUME Matched, Polled, pc = "wait_command", at.step = "enable", NEW ok, NEW slot \in Slots, ok,
           slots[slot].rung = {}, Proceed(ok, slot), UNCHANGED <<rings, slots>>
    PROVE  Polled'
  <1>1. Table /\ Idx = device_count /\ Idx \in Indices
    BY DEF Matched, Placed
  <1>2. Follows(ok) = "address"
    BY DEF Follows
  <1>3. /\ at' = [at EXCEPT !.step = "address"] /\ pc' = "step"
        /\ devices' = [devices EXCEPT ![Idx] = [FreshDevice EXCEPT !.slot = slot]]
        /\ UNCHANGED <<device_count, keyboard, pointer>>
    BY <1>2 DEF Proceed
  <1>4. at'.step = "address" /\ Idx' = Idx
    BY <1>3 DEF Matched, Idx
  <1>5. DOMAIN devices = Indices /\ device_count \in Nat
    BY <1>1 DEF Table
  <1>6. /\ devices'[Idx] = [FreshDevice EXCEPT !.slot = slot]
        /\ \A d \in Indices : d # Idx => devices'[d] = devices[d]
    BY <1>1, <1>3, <1>5
  <1>7. /\ DOMAIN devices'[Idx] = DeviceFields /\ devices'[Idx].slot = slot
        /\ devices'[Idx].ring = Start /\ devices'[Idx].queued = FALSE
    BY <1>6 DEF FreshDevice, DeviceFields
  <1>8. Own' = slot
    BY <1>4, <1>7 DEF Own
  <1>9. Building' /\ Requests' = 0
    BY <1>3, <1>4 DEF Building, Requests, Before
  <1>10. Shapes'
    BY <1>6, <1>7 DEF Polled, Shapes
  <1>11. Spare'
    <2>1. ASSUME NEW d \in Indices, d >= device_count PROVE \E m \in 0 .. 4 : Short(rings[d], m)
      BY <2>1 DEF Polled, Spare, Short
    <2>2. \A m \in 0 .. 4 : 0 <= m
      OBVIOUS
    <2> QED
      BY <1>3, <1>9, <2>1, <2>2 DEF Spare
  <1>12. Held'
    BY <1>3, <1>4, <1>7, <1>8, <1>9 DEF Held, Start
  <1>13. Granted' /\ Unarmed' /\ \A d \in Indices : ~devices[d].queued /\ ~devices'[d].queued
    BY <1>3, <1>6, <1>7 DEF Granted, Polled, Unarmed
  <1>14. Armed'
    <2>1. ASSUME NEW d \in Indices, d < device_count
          PROVE  devices'[d] = devices[d] /\ Flying(d)' = Flying(d)
      BY <1>1, <1>5, <1>6, <1>13, <2>1 DEF Flying, Indices
    <2> QED
      BY <1>3, <2>1, ArmedSame DEF Polled
  <1>15. Pointed'
    BY <1>3 DEF Polled, Pointed
  <1> QED
    BY <1>10, <1>11, <1>12, <1>13, <1>14, <1>15 DEF Polled

\* The endpoint is configured: the device is kept, and listens.
LEMMA DeviceKept ==
    ASSUME Matched, Polled, pc = "wait_command", at.step = "endpoint", NEW ok, NEW slot, ok,
           Own \in Slots, slots[Own].state = "hid", slots[Own].intr = Start, RING_LEN > 10,
           Proceed(ok, slot), UNCHANGED <<rings, slots>>
    PROVE  Polled'
  <1>1. Table /\ Idx = device_count /\ Idx \in Indices /\ device_count \in Nat
    BY DEF Matched, Placed, Table
  <1>2. Follows(ok) = "keep"
    BY DEF Follows
  <1>3. /\ at' = [at EXCEPT !.step = "keep"] /\ pc' = "ports" /\ devices' = devices
        /\ device_count' = Idx + 1
        /\ keyboard' \in {keyboard, Idx} /\ pointer' \in {pointer, Idx}
    BY <1>2 DEF Proceed
  <1>4. Building /\ Requests = 4 /\ ~Building'
    BY <1>3 DEF Building, Requests, Before
  <1>5. /\ devices[Idx].ring = [index |-> 4, cycle |-> 1]
        /\ slots[Own].dev = Idx /\ slots[Own].ep0 \in Low
    BY <1>4 DEF Polled, Held
  <1>6. Short(rings[Idx], 4)
    <2>1. PICK m : Short(rings[Idx], m) /\ 4 <= m
      BY <1>1, <1>4 DEF Polled, Spare
    <2>2. m = 4
      BY <2>1 DEF Short
    <2> QED
      BY <2>1, <2>2
  <1>7. \A d \in Indices : ~devices[d].queued /\ Flying(d)' = 0 /\ Flying(d) = 0
    BY <1>3 DEF Polled, Unarmed, Flying
  <1>8. Serves(Idx)'
    <2> DEFINE t == slots[Own]
               r == rings[Idx]
               p == [index |-> 4, cycle |-> 1]
    <2>1. Ringed(r, p, t.intr, 4)
      BY <1>6, ShortRinged
    <2>2. Reach(t) \in 0 .. 5
      BY <1>5, ReachIs
    <2>3. NoRequests(r)
      BY <1>6 DEF Short
    <2>4. t.dev = Idx /\ t.state = "hid" /\ t.ep0 \in Low
      BY <1>5
    <2> HIDE DEF t, r, p
    <2>5. Behind(r, p, t, 0, 4)
      BY <2>1, <2>2 DEF Behind
    <2>6. Listening(r, p, Idx, t, 0)
      BY <2>3, <2>4, <2>5 DEF Listening
    <2>7. /\ rings'[Idx] = r /\ devices'[Idx].ring = p /\ slots'[devices'[Idx].slot] = t
          /\ Flying(Idx)' = 0 /\ Idx' = Idx
      BY <1>1, <1>3, <1>5, <1>7 DEF r, p, t, Own, Idx, Matched
    <2> QED
      BY <2>6, <2>7 DEF Serves
  <1>9. \A d \in Indices : d < device_count' => d < device_count \/ d = Idx
    BY <1>1, <1>3 DEF Indices
  <1>10. Armed'
    <2> SUFFICES ASSUME NEW d \in Indices, d < device_count'
                 PROVE  Serves(d)' \/ (~devices'[d].queued /\ d \notin {keyboard', pointer'})
      BY DEF Armed
    <2>0. Idx' = Idx
      BY <1>3 DEF Matched, Idx
    <2>1. CASE d = Idx
      BY <1>8, <2>0, <2>1
    <2>2. CASE d # Idx
      <3>1. d < device_count
        BY <1>9, <2>2
      <3>2. CASE Serves(d)
        BY <1>3, <1>7, <3>2, ServesSame
      <3>3. CASE ~Serves(d)
        BY <1>3, <2>2, <3>1, <3>3 DEF Polled, Armed
      <3> QED
        BY <3>2, <3>3
    <2> QED
      BY <2>1, <2>2
  <1>11. Shapes' /\ Held' /\ Granted' /\ Unarmed'
    BY <1>3, <1>4, <1>7 DEF Polled, Shapes, Held, Granted, Unarmed
  <1>12. Spare'
    BY <1>1, <1>3, <1>4 DEF Polled, Spare, Indices
  <1>13. Pointed'
    BY <1>1, <1>3 DEF Polled, Pointed, Indices
  <1> QED
    BY <1>10, <1>11, <1>12, <1>13 DEF Polled

\* After any other command.
LEMMA CommandGoesOn ==
    ASSUME Matched, Polled, pc = "wait_command", NEW e, NEW ok \in BOOLEAN, Settled(e), Made(e),
           ok <=> e.ok /\ (at.step = "enable" => e.slot # NoSlot),
           Proceed(ok, e.slot), RING_LEN > 10, UNCHANGED <<rings, slots>>
    PROVE  Polled'
  <1>1. Table /\ Idx = device_count /\ Idx \in Indices /\ at.step \in CommandSteps
    BY DEF Matched, Placed
  <1>2. CASE at.step = "enable" /\ ok
    <2>1. e.slot \in Slots /\ slots[e.slot].rung = {}
      BY <1>2 DEF Settled, Balanced, Made
    <2> QED
      BY <1>2, <2>1, DeviceBegins
  <1>3. CASE at.step = "endpoint" /\ ok
    <2>1. Own \in Slots /\ slots[Own].state = "hid" /\ slots[Own].intr = Start
      BY <1>3 DEF Settled, Balanced, Made
    <2> QED
      BY <1>3, <2>1, DeviceKept
  <1>4. CASE at.step \notin {"enable", "endpoint"} \/ ~ok
    <2> DEFINE next == Follows(ok)
    <2>1. /\ next \in {"device", "disable", "unit", "none"}
          /\ next = "device" => at.step = "address" /\ ok
      BY <1>1, <1>4 DEF Follows, CommandSteps
    <2>2. /\ at' = [at EXCEPT !.step = next] /\ pc' \in {"ports", "unit", "step"} /\ devices' = devices
          /\ UNCHANGED <<device_count, keyboard, pointer>>
      BY <1>1, <1>4, <2>1 DEF Proceed, CommandSteps
    <2>3. at'.step = next /\ Idx' = Idx /\ Own' = Own
      BY <2>2 DEF Matched, Idx, Own
    <2>4. \A d \in Indices : ~devices[d].queued
      BY DEF Polled, Unarmed
    <2> HIDE DEF next
    <2>5. /\ Shapes' /\ Armed' /\ (~Building' => Spare' /\ Held')
          /\ \A d \in {keyboard, pointer}' : d = None \/ (d \in Indices /\ d < device_count')
      BY <2>2, <2>4, StillKeeps
    <2>6. Granted' /\ Unarmed' /\ Pointed'
      BY <2>2, <2>4, <2>5 DEF Granted, Unarmed, Pointed
    <2>7. CASE next = "device"
      <3>1. Building /\ Requests = 0 /\ at.step = "address" /\ Requests' = 0 /\ at'.step = "device"
        BY <2>1, <2>2, <2>3, <2>7 DEF Building, Requests, Before
      <3>2. e.ok
        BY <2>1, <2>7
      <3>3. slots[Own].dev = Idx /\ slots[Own].ep0 \in Low
        BY <3>1, <3>2 DEF Made
      <3>4. Held'
        BY <2>2, <2>3, <3>1, <3>3 DEF Polled, Held
      <3>5. Spare'
        BY <2>2, <2>3, <3>1 DEF Polled, Spare
      <3> QED
        BY <2>5, <2>6, <3>4, <3>5 DEF Polled
    <2>8. CASE next # "device"
      <3>1. ~Building'
        BY <2>1, <2>3, <2>8 DEF Building, ControlSteps
      <3> QED
        BY <2>5, <2>6, <3>1 DEF Polled
    <2> QED
      BY <2>7, <2>8
  <1> QED
    BY <1>2, <1>3, <1>4

LEMMA AnswerPolls ==
    ASSUME EventQueue, Matched, Polled, Answer, RING_LEN > 10 PROVE Polled'
  <1> DEFINE ok == Event.ok /\ (at.step = "enable" => Event.slot # NoSlot)
  <1>1. /\ pc \in {"wait_command", "wait_transfer"} /\ HasEvent /\ Event.what = Awaited
        /\ Proceed(ok, Event.slot) /\ UNCHANGED <<rings, slots>>
    BY DEF Answer, hcVars
  <1>2. PendingAt(ev.index) /\ ev.index \in Entries
    BY <1>1, HasEventIs
  <1>3. CASE pc = "wait_transfer"
    <2> HIDE DEF ok
    <2> QED
      BY <1>1, <1>3, TransferGoesOn
  <1>4. CASE pc = "wait_command"
    <2>1. evRing[ev.index].what = "command"
      BY <1>1, <1>4 DEF Awaited, Event
    <2>2. Made(Event)
      BY <1>2, <1>4, <2>1 DEF Polled, Granted, Event
    <2>3. ~Quiet
      BY <1>2, <2>1 DEF Quiet
    <2>4. Answered
      BY <1>4, <2>3 DEF Matched, Placed, Asked
    <2>5. Settled(Event)
      BY <1>2, <2>1, <2>4 DEF Answered, Event
    <2>6. ok \in BOOLEAN /\ (ok <=> Event.ok /\ (at.step = "enable" => Event.slot # NoSlot))
      OBVIOUS
    <2> HIDE DEF ok
    <2> QED
      BY <1>1, <1>4, <2>2, <2>5, <2>6, CommandGoesOn
  <1> QED
    BY <1>1, <1>3, <1>4

LEMMA SkipPolls ==
    ASSUME EventQueue, Matched, Polled, Skip PROVE Polled'
  <1>1. /\ pc \in {"wait_command", "wait_transfer"} /\ HasEvent /\ ConsumeEvent
        /\ UNCHANGED <<evRing, hcEv, posted>> /\ UNCHANGED <<pc, at, input>>
        /\ UNCHANGED <<rings, devices, slots, device_count, keyboard, pointer>>
    BY DEF Skip, hcVars, driverVars
  <1>2. \A i \in Entries : PendingAt(i)' => PendingAt(i)
    BY <1>1, ConsumeKeeps
  <1>3. \A d \in Indices : ~devices[d].queued
    BY <1>1 DEF Polled, Unarmed
  <1>4. (Building' <=> Building) /\ Idx' = Idx /\ Own' = Own /\ Requests' = Requests
    BY <1>1 DEF Building, Idx, Own, Requests, Before
  <1>5. Spare' /\ Held'
    BY <1>1, <1>4 DEF Polled, Spare, Held
  <1>6. \A e : Made(e)' <=> Made(e)
    BY <1>1, <1>4 DEF Made
  <1>7. Granted'
    BY <1>1, <1>2, <1>6 DEF Polled, Granted
  <1>8. Shapes' /\ Armed' /\ Unarmed' /\ Pointed'
    BY <1>1, <1>3, StillKeeps DEF Polled, Unarmed, Pointed
  <1> QED
    BY <1>5, <1>7, <1>8 DEF Polled

\* A wait that ends without an answer is one for a request that stalled.
LEMMA GiveUpPolls ==
    ASSUME EventQueue, CommandRing, Matched, Polled, GiveUp, late \in Nat, late' = 0 PROVE Polled'
  <1>1. /\ pc \in {"wait_command", "wait_transfer"} /\ ~HasEvent /\ Proceed(FALSE, NoSlot)
        /\ UNCHANGED <<rings, slots>>
    BY DEF GiveUp, hcVars
  <1>2. ~Asked
    <2>1. ~CommandReady
      BY DEF GiveUp
    <2> QED
      BY <2>1, ReadyIs DEF Asked
  <1>3. ~Answered
    BY <1>1, HasEventIs DEF Answered
  <1>4. pc = "wait_transfer"
    BY <1>1, <1>2, <1>3 DEF Matched, Placed
  <1> QED
    BY <1>1, <1>4, TransferGoesOn

\* A stick is kept, or given back.
LEMMA UnitPolls ==
    ASSUME Matched, Polled, Unit PROVE Polled'
  <1>1. /\ pc = "unit" /\ UNCHANGED <<rings, devices, slots, keyboard, pointer>>
        /\ UNCHANGED <<evRing, ev, hcEv>> /\ pc' \in {"ports", "step"}
        /\ device_count' \in {device_count, Idx + 1}
        /\ at' = [at EXCEPT !.step = "keep"] \/ at' = [at EXCEPT !.step = "disable"]
    BY DEF Unit, hcVars, evVars
  <1>2. Table /\ Idx = device_count /\ Idx \in Indices /\ device_count \in Nat
    BY <1>1, InHand DEF Table
  <1>3. at'.step \in {"keep", "disable"} /\ Idx' = Idx
    BY <1>1 DEF Matched, Idx
  <1>4. ~Building' /\ Held' /\ Granted'
    BY <1>1, <1>3 DEF Building, Held, Granted, ControlSteps
  <1>5. \A d \in Indices : ~devices[d].queued /\ Flying(d)' = Flying(d)
    BY <1>1 DEF Polled, Unarmed, Flying
  <1>6. Idx \notin {keyboard, pointer}
    <2>1. Idx # None /\ ~(Idx < device_count)
      BY <1>2, XhciAssumption DEF None, Indices
    <2> QED
      BY <2>1 DEF Polled, Pointed
  <1>7. \A d \in Indices : d < device_count' => d < device_count \/ d = Idx
    BY <1>1, <1>2 DEF Indices
  <1>8. Armed'
    <2> SUFFICES ASSUME NEW d \in Indices, d < device_count'
                 PROVE  Serves(d)' \/ (~devices'[d].queued /\ d \notin {keyboard', pointer'})
      BY DEF Armed
    <2>1. CASE Serves(d)
      BY <1>1, <1>5, <2>1, ServesSame
    <2>2. CASE ~Serves(d)
      BY <1>1, <1>5, <1>6, <1>7, <2>2 DEF Polled, Armed
    <2> QED
      BY <2>1, <2>2
  <1>9. Shapes' /\ Unarmed'
    BY <1>1, <1>5 DEF Polled, Shapes, Unarmed
  <1>10. Spare'
    BY <1>1, <1>2, <1>4 DEF Polled, Spare, Indices
  <1>11. Pointed'
    BY <1>1, <1>2 DEF Polled, Pointed, Indices
  <1> QED
    BY <1>4, <1>8, <1>9, <1>10, <1>11 DEF Polled

-----------------------------------------------------------------------------
(* Polling.                                                                *)

\* A completion that is drained is that of a device kept, whose read is no
\* longer queued then, or none of theirs.
LEMMA DrainPolls ==
    ASSUME EventQueue, Matched, Polled, DrainEvent PROVE Polled'
  <1>1. /\ pc = "drain" /\ pc' = "drain" /\ HasEvent /\ ConsumeEvent
        /\ UNCHANGED <<evRing, hcEv, posted>> /\ UNCHANGED at
        /\ UNCHANGED <<rings, slots, device_count, keyboard, pointer>>
        /\ devices' = [d \in Indices |->
                IF Event.what = "transfer" /\ Of(d, Event.slot) THEN Noted(devices[d], Event)
                                                               ELSE devices[d]]
    BY DEF DrainEvent, hcVars, driverVars
  <1>2. Table /\ \A d \in Indices : DOMAIN devices[d] = DeviceFields
    BY <1>1, BetweenDevices DEF Polled, Shapes
  <1>3. ASSUME NEW d \in Indices
        PROVE  /\ DOMAIN devices'[d] = DeviceFields
               /\ devices'[d].slot = devices[d].slot /\ devices'[d].ring = devices[d].ring
               /\ devices'[d].queued = devices[d].queued \/ devices'[d].queued = FALSE
               /\ Event.what = "transfer" /\ Of(d, Event.slot) => devices'[d].queued = FALSE
               /\ ~(Event.what = "transfer" /\ Of(d, Event.slot)) => devices'[d] = devices[d]
    <2>1. CASE Event.what = "transfer" /\ Of(d, Event.slot)
      <3>1. devices'[d] = Noted(devices[d], Event) /\ DOMAIN devices[d] = DeviceFields
        BY <1>1, <1>2, <2>1
      <3>2. /\ DOMAIN devices'[d] = DeviceFields /\ devices'[d].queued = FALSE
            /\ devices'[d].slot = devices[d].slot /\ devices'[d].ring = devices[d].ring
        BY <3>1 DEF Noted, DeviceFields
      <3> QED
        BY <2>1, <3>2
    <2>2. CASE ~(Event.what = "transfer" /\ Of(d, Event.slot))
      BY <1>1, <1>2, <2>2
    <2> QED
      BY <2>1, <2>2
  <1>4. \A s : /\ Event.what = "transfer" /\ Event.slot = s => Pending(s)
               /\ ~(Event.what = "transfer" /\ Event.slot = s) => (Pending(s)' <=> Pending(s))
    BY <1>1, PendingTaken
  <1>5. ASSUME NEW d \in Indices, d < device_count PROVE Flying(d)' = Flying(d)
    <2>1. CASE Event.what = "transfer" /\ Event.slot = devices[d].slot
      <3>1. Of(d, Event.slot)
        BY <1>2, <1>5, <2>1 DEF Of, Table
      <3>2. devices'[d].queued = FALSE /\ Pending(devices[d].slot)
        BY <1>3, <1>4, <2>1, <3>1
      <3> QED
        BY <3>2 DEF Flying
    <2>2. CASE ~(Event.what = "transfer" /\ Event.slot = devices[d].slot)
      <3>1. ~(Event.what = "transfer" /\ Of(d, Event.slot))
        BY <2>2 DEF Of
      <3>2. devices'[d] = devices[d]
        BY <1>3, <3>1
      <3>3. Pending(devices[d].slot)' <=> Pending(devices[d].slot)
        <4> DEFINE s == devices[d].slot
        <4>1. \A x : x = s => (Pending(x)' <=> Pending(x))
          BY <1>4, <2>2
        <4>2. devices'[d].slot = s
          BY <3>2
        <4> QED
          BY <4>1, <4>2
      <3> QED
        BY <3>2, <3>3 DEF Flying
    <2> QED
      BY <2>1, <2>2
  <1>6. Armed'
    <2> SUFFICES ASSUME NEW d \in Indices, d < device_count
                 PROVE  Serves(d)' \/ (~devices'[d].queued /\ d \notin {keyboard, pointer})
      BY <1>1 DEF Armed
    <2>1. CASE Serves(d)
      BY <1>1, <1>3, <1>5, <2>1, ServesSame
    <2>2. CASE ~Serves(d)
      BY <1>3, <2>2 DEF Polled, Armed
    <2> QED
      BY <2>1, <2>2
  <1>7. ~Building' /\ Held' /\ Granted' /\ Unarmed' /\ Idx' = Idx
    BY <1>1 DEF Building, Held, Granted, Unarmed, Idx
  <1>8. Shapes' /\ Spare' /\ Pointed'
    BY <1>1, <1>3, <1>7 DEF Polled, Shapes, Spare, Pointed
  <1> QED
    BY <1>6, <1>7, <1>8 DEF Polled

\* No completion is under way when the device is armed.
LEMMA ReportPolls ==
    ASSUME EventQueue, Matched, Polled, TakeReport, RING_LEN > 10 PROVE Polled'
  <1>1. /\ pc = "drain" /\ pc' = "poll" /\ ~HasEvent /\ UNCHANGED at
        /\ UNCHANGED <<evRing, ev, hcEv, device_count, keyboard, pointer>>
    BY DEF TakeReport, evVars
  <1>2. Table /\ \A d \in Indices : DOMAIN devices[d] = DeviceFields
    BY <1>1, BetweenDevices DEF Polled, Shapes
  <1>3. Idx \in {keyboard, pointer} /\ Idx \in Indices /\ Idx < device_count /\ Serves(Idx)
    BY <1>1 DEF Polled, Pointed, Armed
  <1>4. DOMAIN devices = Indices /\ DOMAIN slots = Slots /\ DOMAIN rings = Indices
        /\ \A s \in Slots : DOMAIN slots[s] = SlotFields
    BY <1>2 DEF Polled, Shapes, Table
  <1>5. \A s : ~Pending(s) /\ ~Pending(s)'
    <2>1. \A i \in Entries : ~PendingAt(i) /\ ~PendingAt(i)'
      BY <1>1, HasEventIs DEF PendingAt
    <2> QED
      BY <2>1 DEF Pending
  <1>6. ~Building' /\ Held' /\ Granted' /\ Unarmed' /\ Pointed'
    BY <1>1 DEF Building, Held, Granted, Unarmed, Polled, Pointed
  <1>7. CASE devices[Idx].queued
    <2>1. devices' = [devices EXCEPT ![Idx].ready = FALSE] /\ UNCHANGED <<rings, slots>>
      BY <1>7 DEF TakeReport
    <2>2. \A d \in Indices : /\ DOMAIN devices'[d] = DeviceFields
                             /\ devices'[d].slot = devices[d].slot
                             /\ devices'[d].ring = devices[d].ring
                             /\ devices'[d].queued = devices[d].queued
      BY <1>2, <1>4, <2>1 DEF DeviceFields
    <2>3. \A d \in Indices : Flying(d)' = Flying(d)
      BY <1>5, <2>2 DEF Flying
    <2>4. Armed'
      <3> SUFFICES ASSUME NEW d \in Indices, d < device_count
                   PROVE  Serves(d)' \/ (~devices'[d].queued /\ d \notin {keyboard, pointer})
        BY <1>1 DEF Armed
      <3>1. CASE Serves(d)
        BY <2>1, <2>2, <2>3, <3>1, ServesSame
      <3>2. CASE ~Serves(d)
        BY <2>2, <3>2 DEF Polled, Armed
      <3> QED
        BY <3>1, <3>2
    <2>5. Shapes' /\ Spare'
      BY <1>1, <1>6, <2>1, <2>2 DEF Polled, Shapes, Spare
    <2> QED
      BY <1>6, <2>4, <2>5 DEF Polled
  <1>8. CASE ~devices[Idx].queued
    <2> DEFINE s == devices[Idx].slot
               p == devices[Idx].ring
               new == Put(rings[Idx], p, "read", s, 0)
    <2>1. /\ rings' = [rings EXCEPT ![Idx] = new]
          /\ devices' = [devices EXCEPT ![Idx].ring = Advance(@), ![Idx].queued = TRUE,
                                        ![Idx].ready = FALSE]
          /\ slots' = [slots EXCEPT ![s] = Ring(@, "intr", rings'[Idx])]
      BY <1>8 DEF TakeReport, Enqueue
    <2>2. s \in Slots /\ \A d \in Indices : d < device_count /\ devices[d].slot = s => d = Idx
      BY <1>2, <1>3, KeptSlot
    <2>3. Flying(Idx) = 0
      BY <1>8 DEF Flying
    <2>4. Listening(rings[Idx], p, Idx, slots[s], 0)
      BY <1>3, <2>3 DEF Serves
    <2>5. Listening(new, Advance(p), Idx, Ring(slots[s], "intr", new), 1)
      BY <1>4, <2>2, <2>4, ListensRead
    <2> HIDE DEF new
    <2>6. /\ DOMAIN rings' = Indices /\ rings'[Idx] = new
          /\ \A d \in Indices : d # Idx => rings'[d] = rings[d]
      BY <1>3, <1>4, <2>1
    <2>7. /\ \A d \in Indices : d # Idx => devices'[d] = devices[d]
          /\ DOMAIN devices'[Idx] = DeviceFields /\ devices'[Idx].slot = s
          /\ devices'[Idx].ring = Advance(p) /\ devices'[Idx].queued = TRUE
      BY <1>2, <1>3, <1>4, <2>1 DEF DeviceFields
    <2> HIDE DEF s, p
    <2>8. slots'[s] = Ring(slots[s], "intr", new) /\ \A x \in Slots : x # s => slots'[x] = slots[x]
      BY <1>4, <2>1, <2>2, <2>6
    <2>9. DOMAIN slots'[s] = SlotFields
      BY <1>4, <2>2, <2>8, RingIs
    <2>10. Flying(Idx)' = 1 /\ Idx' = Idx
      <3>1. Idx' = Idx
        BY <1>1 DEF Idx
      <3>2. ~Pending(s)' /\ devices'[Idx].queued /\ devices'[Idx].slot = s
        BY <1>5, <2>7
      <3>3. ~Pending(devices[Idx].slot)'
        BY <1>5, <3>1
      <3> QED
        BY <3>1, <3>2, <3>3 DEF Flying
    <2>11. Serves(Idx)'
      BY <2>5, <2>6, <2>7, <2>8, <2>10 DEF Serves
    <2>12. Armed'
      <3> SUFFICES ASSUME NEW d \in Indices, d < device_count
                   PROVE  Serves(d)' \/ (~devices'[d].queued /\ d \notin {keyboard, pointer})
        BY <1>1 DEF Armed
      <3>1. CASE d = Idx
        BY <2>10, <2>11, <3>1
      <3>2. CASE d # Idx
        <4>1. devices[d].slot \in Slots /\ devices[d].slot # s
          BY <1>2, <2>2, <3>2, KeptSlot
        <4>2. /\ rings'[d] = rings[d] /\ devices'[d] = devices[d]
              /\ slots'[devices[d].slot] = slots[devices[d].slot]
          BY <2>6, <2>7, <2>8, <3>2, <4>1
        <4>3. Flying(d)' = Flying(d)
          BY <1>5, <4>2 DEF Flying
        <4>4. CASE Serves(d)
          BY <4>2, <4>3, <4>4, ServesSame
        <4>5. CASE ~Serves(d)
          BY <4>2, <4>5 DEF Polled, Armed
        <4> QED
          BY <4>4, <4>5
      <3> QED
        BY <3>1, <3>2
    <2>13. Shapes'
      BY <1>2, <1>4, <2>2, <2>6, <2>7, <2>8, <2>9 DEF Shapes
    <2>14. Spare'
      <3>1. \A d \in Indices : d >= device_count => d # Idx
        BY <1>2, <1>3 DEF Indices, Table
      <3> QED
        BY <1>1, <1>6, <2>6, <3>1 DEF Polled, Spare
    <2> QED
      BY <1>6, <2>12, <2>13, <2>14 DEF Polled
  <1> QED
    BY <1>7, <1>8

-----------------------------------------------------------------------------
(* The controller.                                                         *)

\* What a command makes of its slot.
LEMMA EffectMakes ==
    ASSUME Shapes, DOMAIN slots = Slots, NEW trb, NEW s \in Slots, trb.what \in CommandSteps
    PROVE  LET u == Effect(trb, s)[s]
           IN  /\ DOMAIN u = SlotFields
               /\ trb.what = "enable" => u.rung = {}
               /\ trb.what = "address" =>
                    u.rung = slots[s].rung /\ u.dev = input.dev /\ u.ep0 = Start
               /\ trb.what = "endpoint" =>
                    /\ u.rung = slots[s].rung /\ u.dev = slots[s].dev /\ u.ep0 = slots[s].ep0
                    /\ u.state = "hid" /\ u.intr = Start
  <1>1. DOMAIN slots[s] = SlotFields
    BY DEF Shapes
  <1>2. CASE trb.what = "enable"
    <2>1. Effect(trb, s)[s] = [FreeSlot EXCEPT !.state = "enabled"]
      BY <1>2 DEF Effect
    <2> QED
      BY <1>2, <2>1 DEF FreeSlot, SlotFields
  <1>3. CASE trb.what = "address"
    <2> DEFINE u == [slots[s] EXCEPT !.state = "addressed", !.port = input.port,
                                     !.dev = input.dev, !.ep0 = Start]
    <2>1. Effect(trb, s) = [slots EXCEPT ![s] = u]
      BY <1>3 DEF Effect
    <2>2. DOMAIN u = SlotFields /\ u.rung = slots[s].rung /\ u.dev = input.dev /\ u.ep0 = Start
      BY <1>1 DEF SlotFields
    <2> QED
      BY <1>3, <2>1, <2>2
  <1>4. CASE trb.what = "endpoint"
    <2> DEFINE u == [slots[s] EXCEPT !.state = "hid", !.intr = Start]
    <2>1. Effect(trb, s) = [slots EXCEPT ![s] = u]
      BY <1>4 DEF Effect
    <2>2. /\ DOMAIN u = SlotFields /\ u.rung = slots[s].rung /\ u.dev = slots[s].dev
          /\ u.ep0 = slots[s].ep0 /\ u.state = "hid" /\ u.intr = Start
      BY <1>1 DEF SlotFields
    <2> QED
      BY <1>4, <2>1, <2>2
  <1>5. CASE trb.what = "bulk"
    <2> DEFINE u == [slots[s] EXCEPT !.state = "stick"]
    <2>1. Effect(trb, s) = [slots EXCEPT ![s] = u]
      BY <1>5 DEF Effect
    <2>2. DOMAIN u = SlotFields
      BY <1>1 DEF SlotFields
    <2> QED
      BY <1>5, <2>1, <2>2
  <1>6. CASE trb.what = "disable"
    <2>1. Effect(trb, s)[s] = FreeSlot
      BY <1>6 DEF Effect
    <2> QED
      BY <1>6, <2>1 DEF FreeSlot, SlotFields
  <1> QED
    BY <1>2, <1>3, <1>4, <1>5, <1>6 DEF CommandSteps

LEMMA CommandPolls ==
    ASSUME EventQueue, CommandRing, Matched, Polled, Command PROVE Polled'
  <1> DEFINE trb == Entry(cmdRing, hcCmd)
  <1>1. /\ CommandReady /\ UNCHANGED <<ev, seen>>
        /\ UNCHANGED <<rings, devices, device_count, keyboard, pointer, pc, at, input>>
    BY DEF Command, driverVars, evVars
  <1>2. issued \in Nat /\ ran \in Nat /\ ran < issued
    BY <1>1, ReadyIs
  <1>3. issued = ran + 1 /\ issued # ran /\ trb = cmdRing[cmd.index - 1]
    <2>1. issued = ran \/ issued = ran + 1
      BY DEF Matched, Placed, Asked, Answered
    <2>2. issued = ran + 1
      BY <1>2, <2>1
    <2> QED
      BY <1>2, <2>2, ReadyIs
  <1>4. /\ pc = "wait_command" /\ at.step \in CommandSteps
        /\ Idx = device_count /\ Idx \in Indices /\ Asked /\ Table
    BY <1>3 DEF Matched, Placed, Answered
  <1>5. /\ trb.what = at.step /\ trb.slot = (IF at.step = "enable" THEN NoSlot ELSE Own) /\ Quiet
        /\ IF at.step = "enable" THEN Balanced({}) ELSE Balanced({Own})
    BY <1>3, <1>4 DEF Asked
  <1>6. PICK ok, slot :
            /\ ok \in BOOLEAN /\ Post("command", ok, slot)
            /\ \/ /\ ok /\ slots' = Effect(trb, slot)
                  /\ slot \in IF trb.what = "enable"
                                THEN {x \in Slots : slots[x].state = "free"}
                                ELSE {trb.slot}
               \/ ~ok /\ slots' = slots
    BY DEF Command
  <1> HIDE DEF trb
  <1>7. ok => slot \in Slots /\ ~Kept(slot) /\ (at.step # "enable" => slot = Own)
    BY <1>5, <1>6 DEF Balanced
  <1>8. DOMAIN slots = Slots /\ (\A x \in Slots : "state" \in DOMAIN slots[x]) /\ Shapes
    BY <1>4 DEF Table, Polled
  <1>9. ok => \A x \in Slots \ {slot} : slots'[x] = slots[x]
    BY <1>4, <1>5, <1>6, <1>7, <1>8, EffectIs
  <1>10. ok => /\ DOMAIN slots'[slot] = SlotFields
               /\ at.step = "enable" => slots'[slot].rung = {}
               /\ at.step = "address" => /\ slots'[slot].rung = slots[slot].rung
                                         /\ slots'[slot].dev = input.dev /\ slots'[slot].ep0 = Start
               /\ at.step = "endpoint" =>
                    /\ slots'[slot].rung = slots[slot].rung /\ slots'[slot].dev = slots[slot].dev
                    /\ slots'[slot].ep0 = slots[slot].ep0
                    /\ slots'[slot].state = "hid" /\ slots'[slot].intr = Start
    <2>1. ok => slots' = Effect(trb, slot) /\ slot \in Slots
      BY <1>6, <1>7
    <2> QED
      BY <1>4, <1>5, <1>8, <2>1, EffectMakes
  <1>11. (Building' <=> Building) /\ Idx' = Idx /\ Own' = Own /\ Requests' = Requests
    BY <1>1 DEF Building, Idx, Own, Requests, Before
  <1>12. Shapes' /\ Spare'
    BY <1>1, <1>6, <1>8, <1>9, <1>10, <1>11 DEF Polled, Shapes, Spare
  <1>13. Start \in Low
    BY DEF Start, Low
  <1>14. Building => at.step \in {"address", "endpoint"}
    BY <1>4 DEF Building, CommandSteps, ControlSteps
  <1>15. Held'
    <2> SUFFICES ASSUME Building PROVE Held'
      BY <1>11 DEF Held
    <2>1. /\ devices[Idx].ring = [index |-> Requests, cycle |-> 1]
          /\ "intr" \notin slots[Own].rung
          /\ at.step = "address" => slots[Own].rung = {} /\ input.dev = Idx
          /\ at.step # "address" => slots[Own].dev = Idx /\ slots[Own].ep0 \in Low
      BY <1>4 DEF Polled, Held
    <2>2. CASE ok
      <3>1. slot = Own
        BY <1>7, <1>14, <2>2
      <3> QED
        BY <1>1, <1>10, <1>11, <1>14, <2>1, <2>2, <3>1 DEF Held
    <2>3. CASE ~ok
      <3>1. slots' = slots
        BY <1>6, <2>3
      <3> QED
        BY <1>1, <1>11, <2>1, <3>1 DEF Held
    <2> QED
      BY <2>2, <2>3
  <1>16. Granted'
    <2>1. /\ hcEv.index \in Entries
          /\ evRing'[hcEv.index].ok = ok /\ evRing'[hcEv.index].slot = slot
          /\ \A i \in Entries : i # hcEv.index => evRing'[i] = evRing[i]
          /\ \A i \in Entries : PendingAt(i)' <=> PendingAt(i) \/ i = hcEv.index
      BY <1>1, <1>6, PostKeeps
    <2>2. \A i \in Entries : PendingAt(i)' /\ evRing'[i].what = "command" => i = hcEv.index
      BY <1>5, <2>1 DEF Quiet
    <2>3. at.step = "address" => input.dev = Idx
      BY <1>4 DEF Polled, Held, Building
    <2>4. ASSUME NEW e, e.ok = ok, e.slot = slot PROVE Made(e)'
      BY <1>1, <1>7, <1>10, <1>11, <1>13, <2>3, <2>4 DEF Made
    <2>5. \A i \in Entries : PendingAt(i)' /\ evRing'[i].what = "command" =>
             evRing'[i].ok = ok /\ evRing'[i].slot = slot
      BY <2>1, <2>2
    <2> QED
      BY <2>4, <2>5 DEF Granted
  <1>17. \A d \in Indices : ~devices[d].queued
    BY <1>4 DEF Polled, Unarmed
  <1>18. Armed'
    <2>1. ASSUME NEW d \in Indices, d < device_count
          PROVE  slots'[devices[d].slot] = slots[devices[d].slot] /\ Flying(d)' = Flying(d)
      <3>1. devices[d].slot \in Slots /\ Kept(devices[d].slot)
        BY <1>4, <2>1, KeptSlot
      <3>2. slots'[devices[d].slot] = slots[devices[d].slot]
        BY <1>6, <1>7, <1>9, <3>1
      <3> QED
        BY <1>1, <1>17, <3>2 DEF Flying
    <2> QED
      BY <1>1, <2>1, ArmedSame DEF Polled
  <1>19. Unarmed' /\ Pointed'
    BY <1>1, <1>4, <1>17 DEF Unarmed, Polled, Pointed
  <1> QED
    BY <1>12, <1>15, <1>16, <1>18, <1>19 DEF Polled

\* A transfer of slot s completes, which becomes u.
LEMMA CompletionPolls ==
    ASSUME EventQueue, Matched, Polled, NEW s \in Slots, NEW u, NEW ok, Post("transfer", ok, s),
           slots' = [slots EXCEPT ![s] = u], UNCHANGED <<ev, seen>>,
           UNCHANGED <<rings, devices, device_count, keyboard, pointer, pc, at, input>>,
           DOMAIN u = SlotFields, slots[s].rung # {}, u.state = slots[s].state,
           Building /\ s = Own /\ at.step # "address" =>
                /\ u.dev = slots[s].dev /\ u.ep0 \in Low /\ u.intr = slots[s].intr
                /\ "intr" \notin u.rung,
           \A d \in Indices : d < device_count /\ devices[d].slot = s /\ Serves(d) =>
                Listening(rings[d], devices[d].ring, d, u, 0)
    PROVE  Polled'
  <1>1. Table /\ DOMAIN slots = Slots /\ slots'[s] = u /\ \A x \in Slots : x # s => slots'[x] = slots[x]
    BY DEF Matched, Table
  <1>2. (Building' <=> Building) /\ Idx' = Idx /\ Own' = Own /\ Requests' = Requests
    BY DEF Building, Idx, Own, Requests, Before
  <1>3. Shapes' /\ Spare'
    BY <1>1, <1>2 DEF Polled, Shapes, Spare
  <1>4. Building => Own \in Slots /\ (s = Own => at.step # "address")
    <2> SUFFICES ASSUME Building PROVE Own \in Slots /\ (s = Own => at.step # "address")
      OBVIOUS
    <2>1. Own \in Slots
      <3>1. CASE pc = "wait_command"
        BY <3>1 DEF Matched, Placed, Asked, Answered, Settled, Balanced, Building, ControlSteps
      <3>2. CASE pc # "wait_command"
        BY <3>2, InHand DEF Building
      <3> QED
        BY <3>1, <3>2
    <2> QED
      BY <2>1 DEF Polled, Held
  <1>5. Held'
    <2> SUFFICES ASSUME Building PROVE Held'
      BY <1>2 DEF Held
    <2>1. /\ devices[Idx].ring = [index |-> Requests, cycle |-> 1]
          /\ "intr" \notin slots[Own].rung
          /\ at.step = "address" => /\ slots[Own].rung = {}
                                    /\ pc = "wait_command" => input.dev = Idx
          /\ at.step # "address" => slots[Own].dev = Idx /\ slots[Own].ep0 \in Low
      BY DEF Polled, Held
    <2>2. CASE s = Own
      BY <1>1, <1>2, <1>4, <2>1, <2>2 DEF Held
    <2>3. CASE s # Own
      BY <1>1, <1>2, <1>4, <2>1, <2>3 DEF Held
    <2> QED
      BY <2>2, <2>3
  <1>6. Granted'
    <2> SUFFICES ASSUME pc = "wait_command", NEW i \in Entries, PendingAt(i)',
                        evRing'[i].what = "command"
                 PROVE  Made(evRing[i])'
      BY DEF Granted
    <2>1. PendingAt(i) /\ evRing'[i] = evRing[i]
      BY PostKeeps
    <2>2. Made(evRing[i]) /\ evRing[i].what = "command"
      BY <2>1 DEF Polled, Granted
    <2>3. at.step \in {"address", "endpoint"} => Building
      BY DEF Building
    <2>4. at.step = "enable" /\ evRing[i].ok => evRing[i].slot \in Slots
      <3> SUFFICES ASSUME at.step = "enable", evRing[i].ok PROVE evRing[i].slot \in Slots
        OBVIOUS
      <3>1. ~Quiet
        BY <2>1, <2>2 DEF Quiet
      <3>2. Answered
        BY <3>1 DEF Matched, Placed, Asked
      <3>3. Settled(evRing[i])
        BY <2>1, <2>2, <3>2 DEF Answered
      <3> QED
        BY <3>3 DEF Settled, Balanced
    <2>5. ASSUME NEW e, Made(e), at.step = "enable" /\ e.ok => e.slot \in Slots PROVE Made(e)'
      <3>1. CASE at.step = "enable"
        BY <1>1, <1>2, <2>5, <3>1 DEF Made
      <3>2. CASE at.step = "address"
        BY <1>1, <1>2, <1>4, <2>3, <2>5, <3>2 DEF Made
      <3>3. CASE at.step = "endpoint"
        BY <1>1, <1>2, <1>4, <2>3, <2>5, <3>3 DEF Made
      <3>4. CASE at.step \notin {"enable", "address", "endpoint"}
        BY <3>4 DEF Made
      <3> QED
        BY <3>1, <3>2, <3>3, <3>4
    <2>6. \A e : e = evRing[i] => Made(e)'
      BY <2>2, <2>4, <2>5
    <2> QED
      BY <2>1, <2>6
  <1>7. \A x : Pending(x)' <=> Pending(x) \/ x = s
    <2>1. \A x : Pending(x)' <=> Pending(x) \/ ("transfer" = "transfer" /\ s = x)
      BY PendingPosted
    <2> QED
      BY <2>1
  <1>8. Armed'
    <2> SUFFICES ASSUME NEW d \in Indices, d < device_count
                 PROVE  Serves(d)' \/ (~devices[d].queued /\ d \notin {keyboard, pointer})
      BY DEF Armed
    <2>1. devices[d].slot \in Slots
      BY <1>1, KeptSlot
    <2>2. CASE ~Serves(d)
      BY <2>2 DEF Polled, Armed
    <2>3. CASE Serves(d) /\ devices[d].slot = s
      <3>1. Flying(d)' = 0
        BY <1>7, <2>3 DEF Flying
      <3>2. Listening(rings[d], devices[d].ring, d, u, 0)
        BY <2>3
      <3> QED
        BY <1>1, <2>3, <3>1, <3>2 DEF Serves
    <2>4. CASE Serves(d) /\ devices[d].slot # s
      <3>1. Flying(d)' = Flying(d)
        BY <1>7, <2>4 DEF Flying
      <3> QED
        BY <1>1, <2>1, <2>4, <3>1, ServesSame
    <2> QED
      BY <2>2, <2>3, <2>4
  <1>9. Unarmed' /\ Pointed'
    BY <1>2 DEF Polled, Unarmed, Pointed
  <1> QED
    BY <1>3, <1>5, <1>6, <1>8, <1>9 DEF Polled

\* The device in hand has a short ring.
LEMMA HeldRing ==
    ASSUME Matched, Polled, Building PROVE \E m : Short(rings[Idx], m)
  <1>1. Idx = device_count /\ Idx \in Indices /\ device_count \in Nat
    BY DEF Matched, Placed, Building, Table
  <1> QED
    BY <1>1 DEF Polled, Spare

LEMMA ControlPolls ==
    ASSUME EventQueue, Matched, Polled, NEW s \in Slots, Control(s), RING_LEN > 10 PROVE Polled'
  <1> DEFINE d == slots[s].dev
             trb == Entry(rings[d], slots[s].ep0)
             t == Taken(slots[s], "ep0", rings[d])
             h == Halted(t, "ep0")
  <1>1. /\ "ep0" \in slots[s].rung /\ "ep0" \notin slots[s].halted /\ Ready(rings[d], slots[s].ep0)
        /\ UNCHANGED <<ev, seen>>
        /\ UNCHANGED <<rings, devices, device_count, keyboard, pointer, pc, at, input>>
    BY DEF Control, ControlReady, driverVars, evVars
  <1>2. PICK ok : /\ Post("transfer", ok, s)
                  /\ \/ trb.what \in ControlSteps /\ slots' = [slots EXCEPT ![s] = t]
                     \/ slots' = [slots EXCEPT ![s] = h]
    BY DEF Control
  <1>3. DOMAIN slots[s] = SlotFields
    BY DEF Polled, Shapes
  <1>4. /\ DOMAIN t = SlotFields /\ t.dev = d /\ t.state = slots[s].state
        /\ t.ep0 = Past(rings[d], slots[s].ep0) /\ t.intr = slots[s].intr
        /\ \A x : x \in t.rung => x \in slots[s].rung
    BY <1>3, TakenIs
  <1>5. /\ DOMAIN h = SlotFields /\ h.dev = d /\ h.state = slots[s].state
        /\ h.ep0 = t.ep0 /\ h.intr = slots[s].intr
        /\ \A x : x \in h.rung => x \in slots[s].rung
    <2> HIDE DEF t
    <2> QED
      BY <1>4, HaltedIs
  <1>6. ASSUME Building, s = Own, at.step # "address"
        PROVE  t.ep0 \in Low /\ "intr" \notin slots[s].rung
    <2>1. slots[s].dev = Idx /\ slots[s].ep0 \in Low /\ "intr" \notin slots[s].rung
      BY <1>6 DEF Polled, Held
    <2>2. PICK m : Short(rings[Idx], m)
      BY <1>6, HeldRing
    <2>3. Past(rings[d], slots[s].ep0) \in Low
      BY <1>1, <2>1, <2>2, ShortTakes
    <2> HIDE DEF t, d
    <2> QED
      BY <1>4, <2>1, <2>3
  <1>7. ASSUME NEW x \in Indices, x < device_count, devices[x].slot = s, Serves(x)
        PROVE  /\ trb.what \in ControlSteps => Listening(rings[x], devices[x].ring, x, t, 0)
               /\ Listening(rings[x], devices[x].ring, x, h, 0)
    <2>1. Listening(rings[x], devices[x].ring, x, slots[s], Flying(x)) /\ Flying(x) \in {0, 1}
      BY <1>7 DEF Serves, Flying
    <2>2. d = x
      BY <2>1 DEF Listening
    <2> QED
      BY <1>1, <1>3, <2>1, <2>2, ListensControl
  <1> HIDE DEF t, h, d, trb
  <1>8. CASE trb.what \in ControlSteps /\ slots' = [slots EXCEPT ![s] = t]
    BY <1>1, <1>2, <1>4, <1>6, <1>7, <1>8, CompletionPolls DEF d
  <1>9. CASE slots' = [slots EXCEPT ![s] = h]
    BY <1>1, <1>2, <1>5, <1>6, <1>7, <1>9, CompletionPolls DEF d
  <1> QED
    BY <1>2, <1>8, <1>9

LEMMA InterruptPolls ==
    ASSUME EventQueue, Matched, Polled, NEW s \in Slots, Interrupt(s) PROVE Polled'
  <1> DEFINE d == slots[s].dev
             t == Taken(slots[s], "intr", rings[d])
             h == Halted(t, "intr")
  <1>1. /\ "intr" \in slots[s].rung /\ Ready(rings[d], slots[s].intr)
        /\ UNCHANGED <<ev, seen>>
        /\ UNCHANGED <<rings, devices, device_count, keyboard, pointer, pc, at, input>>
    BY DEF Interrupt, driverVars, evVars
  <1>2. PICK ok : /\ Post("transfer", ok, s)
                  /\ slots' = [slots EXCEPT ![s] = t] \/ slots' = [slots EXCEPT ![s] = h]
    BY DEF Interrupt
  <1>3. DOMAIN slots[s] = SlotFields
    BY DEF Polled, Shapes
  <1>4. DOMAIN t = SlotFields /\ t.state = slots[s].state
    BY <1>3, TakenIs
  <1>5. DOMAIN h = SlotFields /\ h.state = slots[s].state
    <2> HIDE DEF t
    <2> QED
      BY <1>4, HaltedIs
  <1>6. ~(Building /\ s = Own)
    BY <1>1 DEF Polled, Held
  <1>7. ASSUME NEW x \in Indices, x < device_count, devices[x].slot = s, Serves(x)
        PROVE  /\ Listening(rings[x], devices[x].ring, x, t, 0)
               /\ Listening(rings[x], devices[x].ring, x, h, 0)
    <2>1. Listening(rings[x], devices[x].ring, x, slots[s], Flying(x)) /\ Flying(x) \in {0, 1}
      BY <1>7 DEF Serves, Flying
    <2>2. d = x
      BY <2>1 DEF Listening
    <2> QED
      BY <1>1, <1>3, <2>1, <2>2, ListensInterrupt
  <1> HIDE DEF t, h, d
  <1>8. CASE slots' = [slots EXCEPT ![s] = t]
    BY <1>1, <1>2, <1>4, <1>6, <1>7, <1>8, CompletionPolls
  <1>9. CASE slots' = [slots EXCEPT ![s] = h]
    BY <1>1, <1>2, <1>5, <1>6, <1>7, <1>9, CompletionPolls
  <1> QED
    BY <1>2, <1>8, <1>9

-----------------------------------------------------------------------------
(* A read that is queued is heard of.                                      *)

LEMMA PollInit == ASSUME Init PROVE PollInv
  <1>1. Shapes
    BY DEF Init, Shapes, FreeSlot, FreshDevice, SlotFields, DeviceFields
  <1>2. ~Building /\ Held /\ Granted
    BY DEF Init, Building, Held, Granted
  <1>3. Spare
    <2>1. ASSUME NEW d \in Indices PROVE Short(rings[d], 0)
      <3>1. DOMAIN rings[d] = Entries /\ \A i \in Entries : rings[d][i] = Blank
        BY DEF Init
      <3>2. Blank.cycle = 0 /\ Blank.what # "link" /\ Blank.what \notin ControlSteps
        BY DEF Blank, ControlSteps
      <3>3. \A i \in Entries : ~(i < 0)
        BY RingLen
      <3> QED
        BY <3>1, <3>2, <3>3 DEF Short, NoRequests
    <2> QED
      BY <1>2, <2>1 DEF Spare
  <1>4. device_count = 0 /\ \A d \in Indices : ~(d < 0)
    BY DEF Init, Indices
  <1>5. Armed /\ Pointed
    BY <1>4 DEF Init, Armed, Pointed
  <1>6. Unarmed
    BY DEF Init, Unarmed, FreshDevice
  <1> QED
    BY <1>1, <1>2, <1>3, <1>5, <1>6 DEF PollInv, Polled

LEMMA PollStep ==
    ASSUME EventQueue, ScanInv, PollInv, [Next]_vars, RING_LEN > 10 PROVE PollInv'
  <1> SUFFICES ASSUME late' = 0 PROVE Polled'
    BY DEF PollInv
  <1>1. late = 0
    <2>1. late \in Nat
      BY DEF ScanInv
    <2>2. CASE GiveUp
      BY <2>1, <2>2 DEF GiveUp
    <2>3. CASE Command \/ \E s \in Slots : Control(s) \/ Interrupt(s)
      BY <2>3 DEF Command, Control, Interrupt
    <2>4. CASE NextPort \/ BringUpDone \/ Issue \/ Unit \/ \E d \in Indices : Poll(d)
      BY <2>4 DEF NextPort, BringUpDone, Issue, Unit, Poll, bounds
    <2>5. CASE Answer \/ Skip \/ DrainEvent \/ TakeReport
      BY <2>5 DEF Answer, Skip, DrainEvent, TakeReport, bounds
    <2>6. CASE UNCHANGED vars
      BY <2>6 DEF vars
    <2> QED
      BY <2>2, <2>3, <2>4, <2>5, <2>6 DEF Next, Driver, Controller
  <1>2. CommandRing /\ Matched /\ Polled /\ late \in Nat
    BY <1>1 DEF ScanInv, PollInv
  <1>3. CASE Command
    BY <1>2, <1>3, CommandPolls
  <1>4. CASE \E s \in Slots : Control(s) \/ Interrupt(s)
    BY <1>2, <1>4, ControlPolls, InterruptPolls
  <1>5. CASE NextPort
    BY <1>2, <1>5, NextPortPolls
  <1>6. CASE BringUpDone \/ \E d \in Indices : Poll(d)
    BY <1>2, <1>6, PollPolls
  <1>7. CASE Issue
    BY <1>2, <1>7, CommandIssued, RequestIssued
  <1>8. CASE Answer
    BY <1>2, <1>8, AnswerPolls
  <1>9. CASE Skip
    BY <1>2, <1>9, SkipPolls
  <1>10. CASE GiveUp
    BY <1>2, <1>10, GiveUpPolls
  <1>11. CASE Unit
    BY <1>2, <1>11, UnitPolls
  <1>12. CASE DrainEvent
    BY <1>2, <1>12, DrainPolls
  <1>13. CASE TakeReport
    BY <1>2, <1>13, ReportPolls
  <1>14. CASE UNCHANGED vars
    <2>1. UNCHANGED <<rings, devices, slots, device_count, keyboard, pointer>>
          /\ UNCHANGED <<evRing, ev, hcEv, pc, at, input>>
      BY <1>14 DEF vars
    <2>2. /\ (Building' <=> Building) /\ Idx' = Idx /\ Own' = Own /\ Requests' = Requests
          /\ \A i : PendingAt(i)' <=> PendingAt(i)
      BY <2>1 DEF Building, Idx, Own, Requests, Before, PendingAt
    <2>3. Spare' /\ Held'
      BY <1>2, <2>1, <2>2 DEF Polled, Spare, Held
    <2>4. Granted'
      BY <1>2, <2>1, <2>2 DEF Polled, Granted, Made
    <2>5. Shapes' /\ Armed' /\ Unarmed' /\ Pointed'
      BY <1>2, <2>1, <2>2, StillKeeps DEF Polled, Unarmed, Pointed
    <2> QED
      BY <2>3, <2>4, <2>5 DEF Polled
  <1> QED
    BY <1>3, <1>4, <1>5, <1>6, <1>7, <1>8, <1>9, <1>10, <1>11, <1>12, <1>13, <1>14
       DEF Next, Driver, Controller

LEMMA QueuedPends ==
    ASSUME EventQueue, ScanInv, PollInv PROVE QueuedIsPending
  <1> SUFFICES ASSUME pc \in {"poll", "drain"}, late = 0, NEW d \in 0 .. device_count - 1,
                      devices[d].queued
               PROVE  LET t == slots[devices[d].slot]
                      IN  \/ \E i \in Entries : evRing[i].what = "transfer" /\ evRing[i].n > seen
                                                /\ evRing[i].slot = devices[d].slot
                          \/ "intr" \in t.halted
                          \/ "intr" \in t.rung /\ Ready(rings[d], t.intr)
    BY DEF QueuedIsPending
  <1> DEFINE t == slots[devices[d].slot]
  <1>1. Table /\ Armed
    BY BetweenDevices DEF ScanInv, PollInv, Polled
  <1>2. d \in Indices /\ d < device_count
    BY <1>1, XhciAssumption DEF Table, Indices
  <1>3. Listening(rings[d], devices[d].ring, d, t, Flying(d))
    BY <1>1, <1>2 DEF Armed, Serves
  <1>4. CASE Pending(devices[d].slot)
    <2>1. PICK i \in Entries : /\ PendingAt(i) /\ evRing[i].what = "transfer"
                               /\ evRing[i].slot = devices[d].slot
      BY <1>4 DEF Pending
    <2>2. evRing[i].n = Number(i) /\ seen \in Nat /\ ev \in Cursor /\ i \in Nat
      BY <2>1, RingLen DEF EventQueue
    <2>3. ev.index \in Nat /\ ev.index < RING_LEN
      BY <2>2, NextEntryIs
    <2>4. Number(i) > seen
      <3>1. CASE ev.index <= i
        <4>1. Number(i) = seen + 1 + (i - ev.index)
          BY <3>1 DEF Number
        <4> QED
          BY <2>2, <2>3, <3>1, <4>1
      <3>2. CASE ~(ev.index <= i)
        <4>1. Number(i) = seen + 1 + (RING_LEN - ev.index + i)
          BY <3>2 DEF Number
        <4>2. \A a, b, c, e \in Nat : b < c => a + 1 + (c - b + e) > a
          OBVIOUS
        <4>3. RING_LEN \in Nat
          BY RingLen
        <4> QED
          BY <2>2, <2>3, <4>1, <4>2, <4>3
      <3> QED
        BY <3>1, <3>2
    <2> QED
      BY <2>1, <2>2, <2>4
  <1>5. CASE ~Pending(devices[d].slot)
    <2>1. Flying(d) = 1
      BY <1>5 DEF Flying
    <2> HIDE DEF t
    <2>2. PICK n : Behind(rings[d], devices[d].ring, t, 1, n)
      BY <1>3, <2>1 DEF Listening
    <2>3. "intr" \notin t.halted => "intr" \in t.rung /\ Ready(rings[d], t.intr)
      BY <2>2, RingTake DEF Behind
    <2> QED
      BY <2>3 DEF t
  <1> QED
    BY <1>4, <1>5

\* A device whose read counts as queued will answer for it, unless it has
\* stalled: poll_report, arm and drain_events on a transfer ring that the
\* control endpoint has used before, and on which the interrupt endpoint
\* starts behind the driver and may be left further behind, for any number of
\* ports, devices, refusals and reports.  The ring has to be longer than that
\* lag: the four requests, five completions of the control endpoint that may
\* be taken for reads, and the read.
THEOREM QueuedAlwaysPending ==
    ASSUME RING_LEN > 10 PROVE MCFairSpec => []QueuedIsPending
  <1>1. Init => EventQueue /\ ScanInv /\ PollInv
    BY QueueInit, ScanInit, PollInit
  <1>2. (EventQueue /\ ScanInv /\ PollInv) /\ [Next]_vars => (EventQueue /\ ScanInv /\ PollInv)'
    BY QueueStep, ScanInvStep, PollStep
  <1>3. EventQueue /\ ScanInv /\ PollInv => QueuedIsPending
    BY QueuedPends
  <1> QED
    BY <1>1, <1>2, <1>3, ScanRefine, PTL DEF Spec

-----------------------------------------------------------------------------
(* The stick (UsbDump).  The two rings of the stick are queues between the *)
(* driver's cursors, those of the copy a command works on, and the         *)
(* controller's.                                                           *)

Slot == IF bot = D!Idle THEN stickSlot ELSE work

Out(p, n) == Ringed(ring["out"], p, hc["out"], n)
In(p, n) == Ringed(ring["in"], p, hc["in"], n)
OutAt(k) == ring["out"][Spot(hc["out"], k)].what
InAt(k) == ring["in"][Spot(hc["in"], k)].what

Ops == {"read", "write"}
Commands == [tag : Nat, op : Ops, block : Clusters \cup {0}]
Sticks == [phase : {"cbw", "in", "out", "csw"}, cmd : Commands, good : BOOLEAN]
StickSlots == [in : Cursor, out : Cursor, tag : Nat]

DumpTypes ==
    /\ fat \in Fats /\ DOMAIN disk = Clusters /\ file \in Seq(Clusters)
    /\ DOMAIN ring = {"in", "out"} /\ DOMAIN hc = {"in", "out"}
    /\ stickSlot \in StickSlots /\ work \in StickSlots
    /\ dumpPc \in {"resolve", "load", "loop", "panic", "done"}
    /\ bot \in {D!Idle} \cup [op : Ops, block : Clusters \cup {0}, stage : {"cbw", "data", "csw"}]
    /\ res \in {"none", "ok", "failed"} /\ (bot # D!Idle => res = "none")
    /\ MSC_CBW \in Commands /\ MSC_CSW \in [tag : Nat, good : BOOLEAN]
    /\ stick \in Sticks
    /\ events \in Seq([ok : BOOLEAN]) /\ armed \in Nat /\ written \in Nat

\* Only the panic handler writes, and only to blocks of the file.
OwnBlock(b) == \E i \in 1 .. Len(file) : file[i] = b

WritesOwn ==
    /\ dumpPc \in {"resolve", "load", "loop"} => MSC_CBW.op = "read"
    /\ dumpPc \in {"loop", "done"} => bot = D!Idle
    /\ bot # D!Idle => /\ MSC_CBW = [tag |-> work.tag, op |-> bot.op, block |-> bot.block]
                       /\ dumpPc = "panic" => bot.op = "write"
    /\ MSC_CBW.op = "write" => OwnBlock(MSC_CBW.block)
    /\ stick.cmd.op = "write" => MSC_CBW.op = "write" /\ OwnBlock(stick.cmd.block)
    /\ stick.phase = "out" => stick.cmd.op = "write"
    /\ stick.phase = "in" => stick.cmd.op = "read"

\* The file found so far follows the FAT, and at the end is all of it.
FollowsFat ==
    /\ \A i \in 1 .. Len(file) : file[i] = D!Linked(file, i)
    /\ Len(file) <= fat.size
    /\ dumpPc = "resolve" =>
            /\ walked = Len(file)
            /\ IF bot = D!Idle /\ res = "none" THEN cluster = D!Linked(file, Len(file) + 1)
               ELSE Len(file) > 0 /\ cluster = file[Len(file)] /\ MSC_CBW.block = 0
    /\ dumpPc # "resolve" /\ file # <<>> =>
            Len(file) = fat.size \/ D!Linked(file, Len(file) + 1) \notin Clusters

\* Every command has a tag of its own, but for the one after a cut.
Tagged ==
    /\ MSC_CBW.tag = work.tag
    /\ work.tag <= stickSlot.tag + 1
    /\ bot # D!Idle => work.tag = stickSlot.tag + 1
    /\ MSC_CSW.tag <= stick.cmd.tag /\ stick.cmd.tag <= MSC_CBW.tag
    /\ dumpPc \in {"resolve", "load", "loop"} =>
            /\ bot = D!Idle => work = stickSlot
            /\ stick.cmd.tag = MSC_CBW.tag => stick.cmd = MSC_CBW

\* What the command at hand has put on the ring in.
Puts == IF bot.stage = "data" THEN 1 ELSE IF bot.stage = "csw" THEN 2 ELSE 0

Right == IF MSC_CBW.block = 0 THEN <<"fat", 0>> ELSE disk[MSC_CBW.block]

\* A read may be behind an entry left by one that failed.  That one is taken
\* for an earlier command, so that a status of this command is the last entry
\* that it put on the ring itself.
Lag(n) ==
    /\ In(Slot.in, n) /\ n <= Puts + 1
    /\ n = Puts + 1 => /\ stick.phase \in {"in", "csw"}
                       /\ bot # D!Idle => stick.cmd.tag # work.tag
    /\ n >= Puts /\ Puts > 0 => InAt(n - Puts + 1) = "data"
    /\ bot # D!Idle /\ MSC_CSW.tag = work.tag => n = 0 /\ Puts = 2
    /\ res = "ok" => n = 0

Reading ==
    dumpPc \in {"resolve", "load"} =>
        /\ res # "failed" => \E n \in 0 .. 3 : Lag(n)
        /\ bot # D!Idle /\ stick.phase = "csw" /\ stick.cmd.tag = work.tag /\ stick.good =>
                MSC_DATA = Right
        /\ bot # D!Idle /\ MSC_CSW.tag = work.tag /\ MSC_CSW.good => MSC_DATA = Right
        /\ res = "ok" => MSC_DATA = Right

\* The app is read from data clusters.
Loading == dumpPc = "load" /\ (bot # D!Idle \/ res = "ok") => MSC_CBW.block # 0

\* What is left on the rings, one entry at most, is what the stick is at.
Left(a, b) ==
    /\ Out(Slot.out, a) /\ In(Slot.in, b)
    /\ stick.phase \in {"cbw", "in", "csw"}
    /\ stick.phase = "csw" => stick.cmd.op = "read"
    /\ a = 1 => stick.phase = "cbw" /\ b = 0 /\ OutAt(1) = "cbw"
    /\ b = 1 => \/ stick.phase = "in" /\ InAt(1) = "data"
                \/ stick.phase = "csw" /\ InAt(1) = "csw"

\* No read has failed: driver and stick are in step.
InStep(a, b) ==
    IF bot = D!Idle THEN a = 0 /\ b = 0 /\ events = <<>> /\ stick.phase = "cbw"
    ELSE /\ a + b + Len(events) = 1
         /\ a = 1 => bot.stage = "cbw" /\ stick.cmd.tag # work.tag
         /\ b = 1 => bot.stage # "cbw"
         /\ stick.phase = CASE bot.stage = "cbw" -> IF a = 1 THEN "cbw" ELSE "in"
                            [] bot.stage = "data" -> IF b = 1 THEN "in" ELSE "csw"
                            [] bot.stage = "csw" -> IF b = 1 THEN "csw" ELSE "cbw"

\* The command would be put again where it is.
Again == ring["out"] = Put(ring["out"], stickSlot.out, "cbw", 0, 0)

Stepping ==
    /\ dumpPc \in {"resolve", "load"} => armed = 0
    /\ dumpPc = "resolve" \/ (dumpPc \in {"load", "loop"} /\ file # <<>>) =>
            /\ bot # D!Idle => /\ Again /\ work.out = Advance(stickSlot.out)
                               /\ bot.stage = "cbw" => work.in = stickSlot.in
            /\ \E a, b \in 0 .. 1 : /\ Left(a, b)
                                    /\ dumpPc # "loop" /\ res # "failed" => InStep(a, b)

-----------------------------------------------------------------------------
(* The panic handler.                                                      *)

\* The first n blocks of the dump are in the file.
Have(n) == \A k \in 1 .. n : disk[file[k]] = D!Dump(k)

\* Between two writes: as a read or a write has left it...
Fresh ==
    /\ MSC_CBW.tag <= stickSlot.tag
    /\ \E a, b \in 0 .. 1 :
            /\ Left(a, b) /\ (a = 1 => MSC_CBW.op = "read")
            /\ written > 0 \/ res = "ok" => stick.phase = "cbw" /\ a = 0

\* ...or the fault has cut a read short, whose command the stick has not
\* taken, and will take for the one put in its place...
Back ==
    /\ armed = 0 /\ events = <<>> /\ Again /\ MSC_CBW.op = "read"
    /\ Out(Advance(stickSlot.out), 1) /\ OutAt(1) = "cbw" /\ In(stickSlot.in, 0)
    /\ stick.phase = "cbw" /\ stick.cmd.tag <= stickSlot.tag

\* ...or has taken: one completion may still come, and nothing after it.
OneMore == \E p \in Cursor : \E b \in 0 .. 1 : In(p, b) /\ b + Len(events) <= 1

Gone ==
    /\ armed = 0 /\ Again /\ stick.phase # "out"
    /\ Out(Advance(stickSlot.out), 0) /\ OneMore

\* A write: what it has put on the ring out, and in.
OutPuts == IF bot.stage = "cbw" THEN 1 ELSE 2
InPuts == IF bot.stage = "csw" THEN 1 ELSE 0

\* In step, if behind the status of an earlier read.
Writes(a, b) ==
    /\ Out(work.out, a) /\ In(work.in, b)
    /\ MSC_DATA = D!Dump(written + 1)
    /\ a = 2 => OutAt(1) = "cbw" /\ OutAt(2) = "data"
    /\ a = 1 => OutAt(1) = (IF OutPuts = 1 THEN "cbw" ELSE "data")
    /\ \A k \in 1 .. b : InAt(k) = "csw"
    /\ \/ /\ stick.phase = "csw" /\ stick.cmd.op = "read" /\ stick.cmd.tag # work.tag
          /\ a = OutPuts /\ b = InPuts + 1 /\ MSC_CSW.tag # work.tag
       \/ stick.phase = "cbw" /\ a = OutPuts /\ b = InPuts /\ MSC_CSW.tag # work.tag
       \/ stick.phase = "out" /\ a = OutPuts - 1 /\ b = InPuts /\ MSC_CSW.tag # work.tag
       \/ /\ stick.phase = "csw" /\ stick.cmd = MSC_CBW /\ MSC_CSW.tag # work.tag
          /\ a = 0 /\ OutPuts = 2 /\ b = InPuts
          /\ stick.good => disk[bot.block] = D!Dump(written + 1)
       \/ /\ stick.phase = "cbw" /\ a = 0 /\ b = 0 /\ InPuts = 1
          /\ MSC_CSW.good => disk[bot.block] = D!Dump(written + 1)

\* Too few entries on the ring in for the status of this write to come.
Needed ==
    IF stick.phase = "in" THEN 3
    ELSE IF stick.phase = "csw" /\ stick.cmd.op = "read" THEN 2 ELSE 1

ShortIn(b) ==
    /\ In(work.in, b) /\ b + (1 - InPuts) < Needed
    /\ MSC_CSW.tag # work.tag
    /\ stick.cmd.op = "read" => stick.cmd.tag # work.tag

\* A command left on the ring out, at which the stick stalls.
Stalls(a) ==
    /\ MSC_CSW.tag # work.tag
    /\ \/ /\ stick.phase \in {"cbw", "out"} /\ Out(work.out, a)
          /\ a + (2 - OutPuts) <= 3
          /\ a > 0 /\ OutAt(1) = "cbw"
          /\ stick.phase = "cbw" => a > 1 /\ OutAt(2) = "cbw"
       \/ stick.phase = "out" /\ "out" \in halted

\* A write after a cut: it does not come as far as the status.
Starved ==
    /\ armed = 0 /\ stick.phase # "out"
    /\ \/ bot.stage = "cbw" /\ Out(work.out, 0) /\ OneMore
       \/ /\ bot.stage = "data" /\ \E p \in Cursor : In(p, 0)
          /\ \/ events = <<>> /\ Out(work.out, 1) /\ OutAt(1) = "data"
             \/ "out" \in halted /\ \A i \in 1 .. Len(events) : ~events[i].ok

Waiting == Fresh \/ (written = 0 /\ res = "none" /\ (Back \/ Gone))

Course ==
    \/ \E a, b \in 0 .. 2 : Writes(a, b)
    \/ \E b \in 0 .. 2 : ShortIn(b)
    \/ \E a \in 0 .. 3 : Stalls(a)
    \/ Starved

Dumping ==
    /\ dumpPc \in {"resolve", "load", "loop"} => written = 0
    /\ dumpPc = "panic" /\ file # <<>> /\ res # "failed" =>
          /\ written <= Len(file) /\ Have(written)
          /\ res = "ok" => written < Len(file) /\ disk[file[written + 1]] = D!Dump(written + 1)
          /\ bot = D!Idle => Waiting
          /\ bot # D!Idle =>
                /\ written < Len(file) /\ bot.block = file[written + 1]
                /\ stick.phase = "out" => stick.cmd = MSC_CBW
                /\ Course

Dumped ==
    outcome = "written" =>
        /\ dumpPc = "done" /\ file # <<>> /\ DumpLen <= Len(file)
        /\ DumpLen > 0 =>
              stick.phase = "cbw" /\ Out(stickSlot.out, 0) /\ Have(DumpLen)

DumpInv ==
    /\ DumpTypes /\ WritesOwn /\ FollowsFat /\ Tagged /\ Reading /\ Loading /\ Stepping
    /\ Dumping /\ Dumped

-----------------------------------------------------------------------------
(* The rings of the stick are rings of this module.                        *)

LEMMA SameRings ==
    /\ D!Start = Start /\ D!Blank = Blank /\ D!Entries = Entries
    /\ \A p : D!Advance(p) = Advance(p)
    /\ \A r, c : /\ D!Ready(r, c) <=> Ready(r, c)
                 /\ D!Entry(r, c) = Entry(r, c) /\ D!Past(r, c) = Past(r, c)
    /\ \A r, p, x, s, n : D!Put(r, p, x, s, n) = Put(r, p, x, s, n)
  <1>1. D!Start = Start /\ D!Blank = Blank /\ D!Entries = Entries
    BY DEF D!Start, Start, D!Blank, Blank, D!Entries, Entries
  <1>2. ASSUME NEW p PROVE D!Wrapped(p) = Wrapped(p)
    BY DEF D!Wrapped, Wrapped
  <1>3. ASSUME NEW p PROVE D!Advance(p) = Advance(p)
    BY <1>2 DEF D!Advance, Advance, D!Next1, Next1
  <1>4. ASSUME NEW r, NEW c
        PROVE  /\ D!Ready(r, c) <=> Ready(r, c)
               /\ D!Entry(r, c) = Entry(r, c) /\ D!Past(r, c) = Past(r, c)
    BY DEF D!Ready, Ready, D!Visible, Visible, D!Follow, Follow, D!Entry, Entry, D!Past, Past,
           D!Next1, Next1
  <1>5. ASSUME NEW r, NEW p, NEW x, NEW s, NEW n
        PROVE  D!Put(r, p, x, s, n) = Put(r, p, x, s, n)
    BY <1>1, <1>2 DEF D!Put, Put
  <1> QED
    BY <1>1, <1>3, <1>4, <1>5

LEMMA PutTwice ==
    ASSUME NEW r, NEW p \in Cursor, NEW x, NEW s, NEW n, DOMAIN r = Entries
    PROVE  Put(Put(r, p, x, s, n), p, x, s, n) = Put(r, p, x, s, n)
  <1> DEFINE made == [what |-> x, slot |-> s, n |-> n, cycle |-> Wrapped(p).cycle]
             link == [Blank EXCEPT !.what = "link", !.cycle = p.cycle]
             q == Wrapped(p).index
  <1>1. q \in Entries /\ RING_LEN - 1 \in Entries
    <2>1. p.index \in Entries /\ p.index \in Nat
      BY RingLen DEF Cursor
    <2> QED
      BY <2>1, RingLen DEF Wrapped
  <1>2. ASSUME NEW f PROVE Put(f, p, x, s, n) =
            IF p.index >= RING_LEN - 1 THEN [[f EXCEPT ![RING_LEN - 1] = link] EXCEPT ![q] = made]
            ELSE [f EXCEPT ![q] = made]
    BY DEF Put
  <1> HIDE DEF made, link, q
  <1> DEFINE once == Put(r, p, x, s, n)
             l == RING_LEN - 1
  <1> HIDE DEF l
  <1>3. CASE ~(p.index >= l)
    <2>1. once = [r EXCEPT ![q] = made] /\ Put(once, p, x, s, n) = [once EXCEPT ![q] = made]
      BY <1>2, <1>3 DEF l
    <2> HIDE DEF once
    <2> QED
      BY <1>1, <2>1 DEF once
  <1>4. CASE p.index >= l
    <2>1. q = 0 /\ l # 0
      BY <1>4, RingLen DEF Wrapped, q, l
    <2>2. /\ once = [[r EXCEPT ![l] = link] EXCEPT ![q] = made]
          /\ Put(once, p, x, s, n) = [[once EXCEPT ![l] = link] EXCEPT ![q] = made]
      BY <1>2, <1>4 DEF l
    <2> HIDE DEF once
    <2>3. once[l] = link /\ once[q] = made /\ DOMAIN once = DOMAIN r
      BY <1>1, <2>1, <2>2 DEF l
    <2>4. [once EXCEPT ![l] = link] = once
      BY <1>1, <2>2, <2>3 DEF l
    <2>5. [once EXCEPT ![q] = made] = once
      BY <1>1, <2>2, <2>3
    <2> QED
      BY <2>2, <2>4, <2>5 DEF once
  <1> QED
    BY <1>3, <1>4

\* A ring of the stick never holds more than three entries.
LEMMA PutRing ==
    ASSUME NEW r, NEW p, NEW c, NEW n, Ringed(r, p, c, n), n <= 2,
           NEW what \in {"cbw", "data", "csw"}
    PROVE  /\ Ringed(Put(r, p, what, 0, 0), Advance(p), c, n + 1)
           /\ Put(r, p, what, 0, 0)[Spot(c, n + 1)].what = what
           /\ \A k \in 1 .. n : Put(r, p, what, 0, 0)[Spot(c, k)].what = r[Spot(c, k)].what
  <1>1. n < Z
    BY RingLen, DumpAssumption DEF Ringed, Z
  <1>2. what # "link"
    OBVIOUS
  <1> QED
    BY <1>1, <1>2, RingPut

LEMMA TakeRing ==
    ASSUME NEW r, NEW p, NEW c, NEW n, Ringed(r, p, c, n)
    PROVE  /\ n \in Nat /\ (Ready(r, c) <=> n > 0)
           /\ n > 0 => /\ Entry(r, c).what = r[Spot(c, 1)].what
                       /\ Ringed(r, p, Past(r, c), n - 1)
                       /\ n > 1 => r[Spot(Past(r, c), 1)].what = r[Spot(c, 2)].what
                       /\ n > 2 => r[Spot(Past(r, c), 2)].what = r[Spot(c, 3)].what
  <1>1. n \in Nat
    BY DEF Ringed
  <1>2. (n > 1 => 1 \in 1 .. n - 1) /\ (n > 2 => 2 \in 1 .. n - 1) /\ 1 + 1 = 2 /\ 2 + 1 = 3
    BY <1>1
  <1> QED
    BY <1>1, <1>2, RingTake
-----------------------------------------------------------------------------
(* The steps of the stick and of the driver.                               *)

LEMMA StickOutIs ==
    ASSUME D!StickOut, DumpTypes
    PROVE  LET b == Entry(ring["out"], hc["out"]).what
           IN  /\ stick' \in Sticks
               /\ UNCHANGED <<fat, dumpPc, cluster, walked, file, stickSlot, work, bot, res,
                              MSC_CBW, MSC_DATA, MSC_CSW, ring, armed, written, outcome>>
               /\ "out" \notin halted /\ stick.phase \in {"cbw", "out"}
               /\ Ready(ring["out"], hc["out"])
               /\ hc' = [hc EXCEPT !["out"] = Past(ring["out"], hc["out"])]
               /\ \/ /\ stick.phase = "cbw" /\ b = "cbw"
                     /\ stick'.phase = (IF MSC_CBW.op = "read" THEN "in" ELSE "out")
                     /\ stick'.cmd = MSC_CBW /\ stick'.good = TRUE
                     /\ events' = Append(events, [ok |-> TRUE])
                     /\ disk' = disk /\ halted' = halted
                  \/ /\ stick.phase = "out" /\ b = "data"
                     /\ events' = Append(events, [ok |-> TRUE]) /\ halted' = halted
                     /\ \/ /\ disk' = [disk EXCEPT ![stick.cmd.block] = MSC_DATA]
                           /\ stick'.phase = "csw" /\ stick'.cmd = stick.cmd /\ stick'.good = stick.good
                        \/ /\ disk' = disk
                           /\ stick'.phase = "csw" /\ stick'.cmd = stick.cmd /\ stick'.good = FALSE
                  \/ /\ ~(stick.phase = "cbw" /\ b = "cbw") /\ ~(stick.phase = "out" /\ b = "data")
                     /\ events' = Append(events, [ok |-> FALSE])
                     /\ halted' = halted \cup {"out"}
                     /\ disk' = disk /\ stick' = stick
  <1>1. \A x \in {"cbw", "csw"} :
            /\ [stick EXCEPT !.phase = x] \in Sticks
            /\ [stick EXCEPT !.phase = x].phase = x
            /\ [stick EXCEPT !.phase = x].cmd = stick.cmd
            /\ [stick EXCEPT !.phase = x].good = stick.good
    BY DEF DumpTypes, Sticks
  <1>2. /\ [stick EXCEPT !.phase = "csw", !.good = FALSE] \in Sticks
        /\ [stick EXCEPT !.phase = "csw", !.good = FALSE].phase = "csw"
        /\ [stick EXCEPT !.phase = "csw", !.good = FALSE].cmd = stick.cmd
        /\ [stick EXCEPT !.phase = "csw", !.good = FALSE].good = FALSE
    BY DEF DumpTypes, Sticks
  <1>3. \A x \in {"in", "out"} : [phase |-> x, cmd |-> MSC_CBW, good |-> TRUE] \in Sticks
    BY DEF DumpTypes, Sticks
  <1>4. stick \in Sticks
    BY DEF DumpTypes
  <1> DEFINE b == Entry(ring["out"], hc["out"]).what
             x == IF MSC_CBW.op = "read" THEN "in" ELSE "out"
  <1>5. /\ UNCHANGED <<fat, dumpPc, cluster, walked, file, stickSlot, work, bot, res,
                       MSC_CBW, MSC_DATA, MSC_CSW, ring, armed, written, outcome>>
        /\ "out" \notin halted /\ stick.phase \in {"cbw", "out"}
        /\ Ready(ring["out"], hc["out"])
        /\ hc' = [hc EXCEPT !["out"] = Past(ring["out"], hc["out"])]
    BY SameRings DEF D!StickOut, D!OutReady, D!Completed, D!boot, D!transport, D!crash
  <1>6. [phase |-> x, cmd |-> MSC_CBW, good |-> TRUE] \in Sticks
    BY <1>3
  <1>7. \/ /\ stick.phase = "cbw" /\ b = "cbw" /\ D!Completed("out", TRUE)
           /\ stick' = [phase |-> x, cmd |-> MSC_CBW, good |-> TRUE] /\ disk' = disk
        \/ /\ stick.phase = "out" /\ b = "data" /\ D!Completed("out", TRUE)
           /\ \/ /\ disk' = [disk EXCEPT ![stick.cmd.block] = MSC_DATA]
                 /\ stick' = [stick EXCEPT !.phase = "csw"]
              \/ disk' = disk /\ stick' = [stick EXCEPT !.phase = "csw", !.good = FALSE]
        \/ /\ ~(stick.phase = "cbw" /\ b = "cbw") /\ ~(stick.phase = "out" /\ b = "data")
           /\ D!Completed("out", FALSE) /\ disk' = disk /\ stick' = stick
    BY SameRings DEF D!StickOut
  <1>8. CASE /\ stick.phase = "cbw" /\ b = "cbw" /\ D!Completed("out", TRUE)
             /\ stick' = [phase |-> x, cmd |-> MSC_CBW, good |-> TRUE] /\ disk' = disk
    <2>1. stick' \in Sticks
      BY <1>6, <1>8
    <2>2. stick'.phase = x /\ stick'.cmd = MSC_CBW /\ stick'.good = TRUE
      BY <1>8
    <2>3. events' = Append(events, [ok |-> TRUE]) /\ halted' = halted
      BY <1>8 DEF D!Completed
    <2> QED
      BY <1>5, <1>8, <2>1, <2>2, <2>3
  <1>9. CASE /\ stick.phase = "out" /\ b = "data" /\ D!Completed("out", TRUE)
             /\ disk' = [disk EXCEPT ![stick.cmd.block] = MSC_DATA]
             /\ stick' = [stick EXCEPT !.phase = "csw"]
    BY <1>1, <1>5, <1>9 DEF D!Completed
  <1>10. CASE /\ stick.phase = "out" /\ b = "data" /\ D!Completed("out", TRUE)
              /\ disk' = disk /\ stick' = [stick EXCEPT !.phase = "csw", !.good = FALSE]
    BY <1>2, <1>5, <1>10 DEF D!Completed
  <1>11. CASE /\ ~(stick.phase = "cbw" /\ b = "cbw") /\ ~(stick.phase = "out" /\ b = "data")
              /\ D!Completed("out", FALSE) /\ disk' = disk /\ stick' = stick
    BY <1>4, <1>5, <1>11 DEF D!Completed
  <1> QED
    BY <1>7, <1>8, <1>9, <1>10, <1>11

LEMMA StickInIs ==
    ASSUME D!StickIn, DumpTypes
    PROVE  LET b == Entry(ring["in"], hc["in"]).what
           IN  /\ stick' \in Sticks
               /\ UNCHANGED <<fat, disk, dumpPc, cluster, walked, file, stickSlot, work, bot, res,
                              MSC_CBW, ring, armed, written, outcome>>
               /\ stick.phase \in {"in", "csw"} /\ Ready(ring["in"], hc["in"])
               /\ hc' = [hc EXCEPT !["in"] = Past(ring["in"], hc["in"])]
               /\ \E ok \in BOOLEAN : /\ events' = Append(events, [ok |-> ok])
                                      /\ halted' = IF ok THEN halted ELSE halted \cup {"in"}
               /\ \/ /\ stick.phase = "in" /\ b = "data" /\ MSC_CSW' = MSC_CSW
                     /\ \/ /\ MSC_DATA' = IF stick.cmd.block = 0 THEN <<"fat", 0>>
                                          ELSE disk[stick.cmd.block]
                           /\ stick'.phase = "csw" /\ stick'.cmd = stick.cmd /\ stick'.good = stick.good
                        \/ /\ MSC_DATA' = MSC_DATA
                           /\ stick'.phase = "csw" /\ stick'.cmd = stick.cmd /\ stick'.good = FALSE
                  \/ /\ stick.phase = "in" /\ b = "csw"
                     /\ UNCHANGED <<stick, MSC_DATA, MSC_CSW>>
                  \/ /\ stick.phase = "csw" /\ b = "csw"
                     /\ stick'.phase = "cbw" /\ stick'.cmd = stick.cmd /\ stick'.good = stick.good
                     /\ MSC_DATA' = MSC_DATA
                     /\ MSC_CSW' = [tag |-> stick.cmd.tag, good |-> stick.good]
                  \/ /\ stick.phase = "csw" /\ b # "csw"
                     /\ stick'.phase = "cbw" /\ stick'.cmd = stick.cmd /\ stick'.good = stick.good
                     /\ MSC_DATA' = <<"csw", 0>>
                     /\ MSC_CSW' = MSC_CSW
  <1>1. \A x \in {"cbw", "csw"} :
            /\ [stick EXCEPT !.phase = x] \in Sticks
            /\ [stick EXCEPT !.phase = x].phase = x
            /\ [stick EXCEPT !.phase = x].cmd = stick.cmd
            /\ [stick EXCEPT !.phase = x].good = stick.good
    BY DEF DumpTypes, Sticks
  <1>2. /\ [stick EXCEPT !.phase = "csw", !.good = FALSE] \in Sticks
        /\ [stick EXCEPT !.phase = "csw", !.good = FALSE].phase = "csw"
        /\ [stick EXCEPT !.phase = "csw", !.good = FALSE].cmd = stick.cmd
        /\ [stick EXCEPT !.phase = "csw", !.good = FALSE].good = FALSE
    BY DEF DumpTypes, Sticks
  <1>3. stick \in Sticks
    BY DEF DumpTypes
  <1> QED
    BY <1>1, <1>2, <1>3, SameRings
       DEF D!StickIn, D!InReady, D!Completed, D!boot, D!transport, D!crash, D!FatBlock

\* A command begins.
LEMMA BeginIs ==
    ASSUME NEW op, NEW block, D!Begin(op, block), DumpTypes
    PROVE  /\ bot = D!Idle /\ res = "none"
           /\ bot' = [op |-> op, block |-> block, stage |-> "cbw"]
           /\ MSC_CBW' = [tag |-> stickSlot.tag + 1, op |-> op, block |-> block]
           /\ work' = [in |-> stickSlot.in, out |-> Advance(stickSlot.out),
                       tag |-> stickSlot.tag + 1]
           /\ ring' = [ring EXCEPT !["out"] = Put(ring["out"], stickSlot.out, "cbw", 0, 0)]
           /\ bot' # D!Idle
  <1>1. D!Begin(op, block)
    OBVIOUS
  <1>2. stickSlot = [in |-> stickSlot.in, out |-> stickSlot.out, tag |-> stickSlot.tag]
    BY DEF DumpTypes, StickSlots
  <1> DEFINE w == [stickSlot EXCEPT !.tag = @ + 1]
  <1>3. /\ w = [in |-> stickSlot.in, out |-> stickSlot.out, tag |-> stickSlot.tag + 1]
        /\ w["out"] = stickSlot.out /\ w.tag = stickSlot.tag + 1
    BY <1>2
  <1>4. /\ bot = D!Idle /\ res = "none"
        /\ bot' = [op |-> op, block |-> block, stage |-> "cbw"]
        /\ MSC_CBW' = [tag |-> w.tag, op |-> op, block |-> block]
        /\ D!Enqueue(w, "out", "cbw")
    BY <1>1 DEF D!Begin, D!None
  <1> HIDE DEF w
  <1>5. /\ ring' = [ring EXCEPT !["out"] = Put(ring["out"], w["out"], "cbw", 0, 0)]
        /\ work' = [w EXCEPT !["out"] = Advance(w["out"])]
    BY <1>4, SameRings DEF D!Enqueue
  <1>6. work' = [in |-> stickSlot.in, out |-> Advance(stickSlot.out), tag |-> stickSlot.tag + 1]
    BY <1>3, <1>5
  <1>7. bot' # D!Idle
    BY <1>4 DEF D!Idle, D!None
  <1> QED
    BY <1>3, <1>4, <1>5, <1>6, <1>7

LEMMA EndIs ==
    ASSUME NEW ok, D!End(ok)
    PROVE  /\ stickSlot' = work /\ bot' = D!Idle /\ UNCHANGED <<work, ring>>
           /\ res' = IF ok THEN "ok" ELSE "failed"
  BY DEF D!End

LEMMA AnswerIs ==
    ASSUME D!Answer, DumpTypes
    PROVE  /\ UNCHANGED <<fat, disk, dumpPc, cluster, walked, file, MSC_CBW, MSC_DATA, MSC_CSW,
                          hc, halted, stick, armed, written, outcome>>
           /\ bot # D!Idle /\ events # <<>> /\ events' = Tail(events)
           /\ \/ /\ events[1].ok /\ bot.stage = "cbw"
                 /\ bot' = [op |-> bot.op, block |-> bot.block, stage |-> "data"]
                 /\ UNCHANGED <<stickSlot, res>>
                 /\ IF bot.op = "read"
                    THEN /\ ring' = [ring EXCEPT !["in"] = Put(ring["in"], work.in, "data", 0, 0)]
                         /\ work' = [in |-> Advance(work.in), out |-> work.out, tag |-> work.tag]
                    ELSE /\ ring' = [ring EXCEPT !["out"] = Put(ring["out"], work.out, "data", 0, 0)]
                         /\ work' = [in |-> work.in, out |-> Advance(work.out), tag |-> work.tag]
              \/ /\ events[1].ok /\ bot.stage = "data"
                 /\ bot' = [op |-> bot.op, block |-> bot.block, stage |-> "csw"]
                 /\ UNCHANGED <<stickSlot, res>>
                 /\ ring' = [ring EXCEPT !["in"] = Put(ring["in"], work.in, "csw", 0, 0)]
                 /\ work' = [in |-> Advance(work.in), out |-> work.out, tag |-> work.tag]
              \/ /\ bot.stage = "csw" /\ MSC_CSW.tag = work.tag /\ MSC_CSW.good
                 /\ stickSlot' = work /\ bot' = D!Idle /\ UNCHANGED <<work, ring>> /\ res' = "ok"
              \/ /\ stickSlot' = work /\ bot' = D!Idle /\ UNCHANGED <<work, ring>>
                 /\ res' = "failed"
  <1>1. work = [in |-> work.in, out |-> work.out, tag |-> work.tag]
    BY DEF DumpTypes, StickSlots
  <1>2. bot # D!Idle => bot = [op |-> bot.op, block |-> bot.block, stage |-> bot.stage]
    BY DEF DumpTypes
  <1>3. events # <<>> => Head(events) = events[1]
    BY DEF DumpTypes
  <1>4. /\ UNCHANGED <<fat, disk, dumpPc, cluster, walked, file, MSC_CBW, MSC_DATA, MSC_CSW,
                       hc, halted, stick, armed, written, outcome>>
        /\ bot # D!Idle /\ events # <<>> /\ events' = Tail(events)
    BY DEF D!Answer, D!boot, D!device, D!crash
  <1>5. CASE /\ Head(events).ok /\ bot.stage = "cbw"
             /\ bot' = [bot EXCEPT !.stage = "data"]
             /\ D!Enqueue(work, IF bot.op = "read" THEN "in" ELSE "out", "data")
             /\ UNCHANGED <<stickSlot, res>>
    BY <1>1, <1>2, <1>3, <1>4, <1>5, SameRings DEF D!Enqueue
  <1>6. CASE /\ Head(events).ok /\ bot.stage = "data"
             /\ bot' = [bot EXCEPT !.stage = "csw"]
             /\ D!Enqueue(work, "in", "csw")
             /\ UNCHANGED <<stickSlot, res>>
    BY <1>1, <1>2, <1>3, <1>4, <1>6, SameRings DEF D!Enqueue
  <1>7. CASE Head(events).ok /\ bot.stage = "csw" /\ D!End(D!CswGood)
    BY <1>4, <1>7, EndIs DEF D!CswGood
  <1>8. CASE D!End(FALSE)
    BY <1>4, <1>8, EndIs
  <1> QED
    BY <1>5, <1>6, <1>7, <1>8 DEF D!Answer

LEMMA GiveUpIs ==
    ASSUME D!GiveUp
    PROVE  /\ UNCHANGED <<fat, disk, dumpPc, cluster, walked, file, MSC_CBW, MSC_DATA, MSC_CSW,
                          hc, halted, stick, events, armed, written, outcome, work, ring>>
           /\ bot # D!Idle /\ stickSlot' = work /\ bot' = D!Idle /\ res' = "failed"
  BY EndIs DEF D!GiveUp, D!boot, D!device, D!crash

LEMMA WalkIs ==
    ASSUME D!Walk
    PROVE  /\ UNCHANGED <<fat, disk, cluster, stickSlot, res, MSC_DATA, MSC_CSW, hc, halted, stick,
                          events, armed, written, outcome>>
           /\ dumpPc = "resolve" /\ bot = D!Idle /\ res = "none"
           /\ \/ /\ walked < fat.size /\ cluster \in Clusters
                 /\ file' = Append(file, cluster) /\ walked' = walked + 1 /\ dumpPc' = "resolve"
                 /\ D!Begin("read", 0)
              \/ /\ file' = <<>> /\ dumpPc' = "load"
                 /\ UNCHANGED <<walked, work, bot, MSC_CBW, ring>>
              \/ /\ ~(walked < fat.size /\ cluster \in Clusters)
                 /\ file' = file /\ dumpPc' = "load"
                 /\ UNCHANGED <<walked, work, bot, MSC_CBW, ring>>
  BY DEF D!Walk, D!WalkOn, D!Resolved, D!transport, D!device, D!crash, D!None, D!FatBlock

LEMMA WalkedIs ==
    ASSUME D!Walked
    PROVE  /\ UNCHANGED <<fat, disk, walked, stickSlot, work, bot, MSC_CBW, ring, MSC_DATA, MSC_CSW,
                          hc, halted, stick, events, armed, written, outcome>>
           /\ dumpPc = "resolve" /\ bot = D!Idle /\ res # "none" /\ res' = "none"
           /\ \/ /\ res = "ok" /\ UNCHANGED <<file, dumpPc>>
                 /\ MSC_DATA = <<"fat", 0>> => cluster' = fat.next[cluster]
              \/ res # "ok" /\ file' = <<>> /\ dumpPc' = "load"
  BY DEF D!Walked, D!EntriesRead, D!transport, D!device, D!crash, D!None

LEMMA ReadBlockIs ==
    ASSUME NEW c, D!ReadBlock(c)
    PROVE  /\ UNCHANGED <<fat, disk, dumpPc, cluster, walked, file, stickSlot, res, MSC_DATA, MSC_CSW,
                          hc, halted, stick, events, armed, written, outcome>>
           /\ dumpPc = "load" /\ D!Begin("read", c)
  BY DEF D!ReadBlock, D!boot, D!device, D!crash

\* The load goes on or comes to its end.
LEMMA LoadIs ==
    ASSUME D!BlockRead \/ D!Loaded
    PROVE  /\ UNCHANGED <<fat, disk, cluster, walked, file, stickSlot, work, bot, MSC_CBW, ring,
                          MSC_DATA, MSC_CSW, hc, halted, stick, events, armed, written, outcome>>
           /\ dumpPc = "load" /\ bot = D!Idle /\ res' = "none"
           /\ dumpPc' = "loop" \/ (dumpPc' = "load" /\ res = "ok")
  <1>1. CASE D!BlockRead
    BY <1>1 DEF D!BlockRead, D!boot, D!transport, D!device, D!crash, D!None
  <1>2. CASE D!Loaded
    BY <1>2 DEF D!Loaded, D!boot, D!transport, D!device, D!crash, D!None
  <1> QED
    BY <1>1, <1>2

\* Reports of keys and pointers come in, or are taken.
LEMMA InputIs ==
    ASSUME D!Poll \/ D!HidReport
    PROVE  /\ UNCHANGED <<fat, disk, dumpPc, cluster, walked, file, stickSlot, work, bot, res, MSC_CBW,
                          ring, MSC_DATA, MSC_CSW, hc, halted, stick, written, outcome>>
           /\ \/ dumpPc = "loop" /\ events' = <<>> /\ armed' = Hids
              \/ armed > 0 /\ armed' = armed - 1 /\ events' = Append(events, [ok |-> TRUE])
  <1>1. CASE D!Poll
    BY <1>1 DEF D!Poll, D!boot, D!transport, D!device, D!crash
  <1>2. CASE D!HidReport
    BY <1>2 DEF D!HidReport, D!boot, D!transport, D!device, D!crash
  <1> QED
    BY <1>1, <1>2

LEMMA PanicIs ==
    ASSUME D!Panic
    PROVE  /\ UNCHANGED <<fat, disk, cluster, walked, file, stickSlot, work, MSC_CBW, ring,
                          MSC_DATA, MSC_CSW, hc, halted, stick, events, armed, written, outcome>>
           /\ dumpPc \in {"load", "loop"} /\ dumpPc' = "panic"
           /\ bot' = D!Idle /\ res' = "none"
  BY DEF D!Panic, D!boot, D!device, D!None

LEMMA WriteBlockIs ==
    ASSUME D!WriteBlock, DumpTypes
    PROVE  /\ UNCHANGED <<fat, disk, cluster, walked, file, stickSlot, res, MSC_CSW, hc, halted,
                          stick, events, armed, written>>
           /\ dumpPc = "panic" /\ bot = D!Idle /\ res = "none"
           /\ \/ /\ dumpPc' = "done" /\ UNCHANGED <<work, bot, MSC_CBW, ring>>
                 /\ outcome' = "failed"
              \/ /\ dumpPc' = "done" /\ UNCHANGED <<work, bot, MSC_CBW, ring>>
                 /\ outcome' = "written" /\ file # <<>> /\ DumpLen <= Len(file)
                 /\ written >= DumpLen
              \/ /\ file # <<>> /\ written < Len(file)
                 /\ MSC_DATA' = D!Dump(written + 1) /\ UNCHANGED <<dumpPc, outcome>>
                 /\ D!Begin("write", file[written + 1])
  <1>1. Len(file) \in Nat /\ fat.size \in Nat /\ DumpLen \in Nat /\ written \in Nat
    BY DumpAssumption DEF DumpTypes
  <1>2. DumpLen <= D!Room => DumpLen <= Len(file)
    BY <1>1 DEF D!Room
  <1>3. /\ UNCHANGED <<fat, disk, cluster, walked, file, stickSlot, res, MSC_CSW, hc, halted,
                       stick, events, armed, written>>
        /\ dumpPc = "panic" /\ bot = D!Idle /\ res = "none"
    BY DEF D!WriteBlock, D!boot, D!transport, D!device, D!None
  <1>4. CASE /\ D!Finish("failed") /\ UNCHANGED <<D!transport, MSC_DATA>>
    BY <1>3, <1>4 DEF D!Finish, D!transport
  <1>5. CASE /\ file # <<>> /\ DumpLen <= D!Room
             /\ written >= DumpLen \/ written >= Len(file)
             /\ D!Finish("written") /\ UNCHANGED <<D!transport, MSC_DATA>>
    <2>1. DumpLen <= Len(file) /\ written >= DumpLen
      BY <1>1, <1>2, <1>5
    <2> QED
      BY <1>3, <1>5, <2>1 DEF D!Finish, D!transport
  <1>6. CASE /\ file # <<>> /\ written < Len(file)
             /\ MSC_DATA' = D!Dump(written + 1)
             /\ D!Begin("write", file[written + 1])
             /\ UNCHANGED <<dumpPc, outcome, stickSlot>>
    BY <1>3, <1>6
  <1> QED
    BY <1>4, <1>5, <1>6 DEF D!WriteBlock

LEMMA BlockWrittenIs ==
    ASSUME D!BlockWritten
    PROVE  /\ UNCHANGED <<fat, disk, cluster, walked, file, stickSlot, work, bot, MSC_CBW, ring,
                          MSC_DATA, MSC_CSW, hc, halted, stick, events, armed>>
           /\ dumpPc = "panic" /\ bot = D!Idle /\ res' = "none"
           /\ \/ res = "ok" /\ written' = written + 1 /\ UNCHANGED <<dumpPc, outcome>>
              \/ res = "failed" /\ dumpPc' = "done" /\ outcome' = "failed" /\ written' = written
  BY DEF D!BlockWritten, D!Finish, D!boot, D!transport, D!device, D!None

\* A behaviour takes only steps of UsbDump, as far as the stick goes.
LEMMA DumpSteps ==
    ASSUME [MCNext]_all
    PROVE  \/ UNCHANGED dumpVars
           \/ D!Answer \/ D!GiveUp \/ D!Walk \/ D!Walked \/ D!BlockRead \/ D!Loaded
           \/ D!WriteBlock \/ D!BlockWritten \/ D!Poll \/ D!Panic \/ D!StickOut \/ D!StickIn
           \/ D!HidReport \/ \E c \in Clusters : D!ReadBlock(c)
  <1>1. UNCHANGED dumpVars \/ D!Next
    BY DEF MCNext, ScanStep, DumpStep, Idle, all
  <1> QED
    BY <1>1 DEF D!Next, D!Driver
-----------------------------------------------------------------------------
(* Types.                                                                  *)

LEMMA SeqTypes ==
    ASSUME NEW S, NEW s \in Seq(S)
    PROVE  /\ <<>> \in Seq(S) /\ Len(s) \in Nat
           /\ \A e \in S : /\ Append(s, e) \in Seq(S) /\ Len(Append(s, e)) = Len(s) + 1
                          /\ Append(s, e)[Len(s) + 1] = e
                          /\ \A i \in 1 .. Len(s) : Append(s, e)[i] = s[i]
           /\ s # <<>> => Tail(s) \in Seq(S) /\ Len(Tail(s)) = Len(s) - 1 /\ Len(s) > 0
           /\ Len(s) = 0 <=> s = <<>>
  OBVIOUS

\* A completion more, or one less.
LEMMA EventTypes ==
    ASSUME DumpTypes
    PROVE  /\ \A ok \in BOOLEAN : Append(events, [ok |-> ok]) \in Seq([ok : BOOLEAN])
           /\ events # <<>> => Tail(events) \in Seq([ok : BOOLEAN])
           /\ <<>> \in Seq([ok : BOOLEAN])
  <1> DEFINE S == [ok : BOOLEAN]
  <1>1. events \in Seq(S)
    BY DEF DumpTypes
  <1>2. \A ok \in BOOLEAN : [ok |-> ok] \in S
    OBVIOUS
  <1> HIDE DEF S
  <1>3. /\ \A ok \in BOOLEAN : Append(events, [ok |-> ok]) \in Seq(S)
        /\ events # <<>> => Tail(events) \in Seq(S)
        /\ <<>> \in Seq(S)
    BY <1>1, <1>2, SeqTypes
  <1> QED
    BY <1>3 DEF S

LEMMA BeginTypes ==
    ASSUME DumpTypes, NEW op \in Ops, NEW block \in Clusters \cup {0}, D!Begin(op, block)
    PROVE  /\ work' \in StickSlots /\ MSC_CBW' \in Commands /\ DOMAIN ring' = {"in", "out"}
           /\ bot' \in [op : Ops, block : Clusters \cup {0}, stage : {"cbw", "data", "csw"}]
  <1>1. stickSlot.in \in Cursor /\ stickSlot.out \in Cursor /\ stickSlot.tag \in Nat
    BY DEF DumpTypes, StickSlots
  <1>2. Advance(stickSlot.out) \in Cursor
    BY <1>1, AdvanceIs
  <1> QED
    BY <1>1, <1>2, BeginIs DEF DumpTypes, StickSlots, Commands

LEMMA TypesInit == ASSUME D!Init PROVE DumpTypes
  <1>1. Start \in Cursor
    BY RingLen DEF Start, Cursor
  <1>2. stickSlot = [in |-> Start, out |-> Start, tag |-> 0] /\ work = stickSlot
    BY SameRings DEF D!Init
  <1>3. stickSlot \in StickSlots
    BY <1>1, <1>2 DEF StickSlots
  <1>4. MSC_CBW \in Commands
    BY DEF D!Init, Commands, Ops
  <1>5. stick \in Sticks
    <2>1. stick = [phase |-> "cbw", cmd |-> MSC_CBW, good |-> TRUE]
      BY DEF D!Init
    <2> QED
      BY <1>4, <2>1 DEF Sticks
  <1> QED
    BY <1>2, <1>3, <1>4, <1>5 DEF D!Init, DumpTypes, D!None

LEMMA TypesStep == ASSUME DumpTypes, [MCNext]_all PROVE DumpTypes'
  <1> USE DEF DumpTypes
  <1>1. CASE UNCHANGED dumpVars
    BY <1>1 DEF dumpVars
  <1>2. CASE D!Answer
    <2>1. work.in \in Cursor /\ work.out \in Cursor /\ work.tag \in Nat
      BY DEF StickSlots
    <2>2. Advance(work.in) \in Cursor /\ Advance(work.out) \in Cursor
      BY <2>1, AdvanceIs
    <2>3. work' \in StickSlots /\ stickSlot' \in StickSlots
      BY <1>2, <2>1, <2>2, AnswerIs DEF StickSlots
    <2>4. DOMAIN ring' = {"in", "out"}
      BY <1>2, AnswerIs
    <2>5. /\ bot' \in {D!Idle} \cup
                 [op : Ops, block : Clusters \cup {0}, stage : {"cbw", "data", "csw"}]
          /\ res' \in {"none", "ok", "failed"} /\ (bot' # D!Idle => res' = "none")
      BY <1>2, AnswerIs
    <2>6. events' \in Seq([ok : BOOLEAN])
      BY <1>2, AnswerIs, EventTypes
    <2> QED
      BY <1>2, <2>3, <2>4, <2>5, <2>6, AnswerIs
  <1>3. CASE D!GiveUp
    BY <1>3, GiveUpIs
  <1>4. CASE D!Walk
    <2>0. \/ file' = Append(file, cluster) /\ cluster \in Clusters
          \/ file' = <<>> \/ file' = file
      BY <1>4, WalkIs
    <2>1. file' \in Seq(Clusters)
      <3>1. file \in Seq(Clusters)
        OBVIOUS
      <3> HIDE DEF DumpTypes
      <3> QED
        BY <2>0, <3>1, SeqTypes
    <2>2. CASE D!Begin("read", 0)
      BY <1>4, <2>1, <2>2, WalkIs, BeginIs, BeginTypes DEF Ops
    <2>3. CASE UNCHANGED <<walked, work, bot, MSC_CBW, ring>>
      BY <1>4, <2>1, <2>3, WalkIs
    <2> QED
      BY <1>4, <2>2, <2>3, WalkIs
  <1>5. CASE D!Walked
    <2>0. file' = <<>> \/ file' = file
      BY <1>5, WalkedIs
    <2>1. file' \in Seq(Clusters)
      <3>1. file \in Seq(Clusters)
        OBVIOUS
      <3> HIDE DEF DumpTypes
      <3> QED
        BY <2>0, <3>1, SeqTypes
    <2> QED
      BY <1>5, <2>1, WalkedIs
  <1>6. CASE D!BlockRead \/ D!Loaded
    BY <1>6, LoadIs
  <1>7. CASE D!WriteBlock
    <2>1. CASE UNCHANGED <<work, bot, MSC_CBW, ring>>
      BY <1>7, <2>1, WriteBlockIs
    <2>2. CASE /\ written < Len(file) /\ D!Begin("write", file[written + 1])
               /\ dumpPc' = dumpPc
      <3>1. file[written + 1] \in Clusters \cup {0}
        BY <2>2
      <3> QED
        BY <1>7, <2>2, <3>1, WriteBlockIs, BeginIs, BeginTypes DEF Ops
    <2> QED
      BY <1>7, <2>1, <2>2, WriteBlockIs
  <1>8. CASE D!BlockWritten
    BY <1>8, BlockWrittenIs
  <1>9. CASE D!Poll \/ D!HidReport
    <2>0. \/ events' = <<>> /\ armed' = Hids
          \/ armed > 0 /\ armed' = armed - 1 /\ events' = Append(events, [ok |-> TRUE])
      BY <1>9, InputIs
    <2>1. events' \in Seq([ok : BOOLEAN]) /\ armed' \in Nat
      <3>1. armed \in Nat /\ Hids \in Nat
        BY DumpAssumption
      <3> HIDE DEF DumpTypes
      <3>2. Append(events, [ok |-> TRUE]) \in Seq([ok : BOOLEAN]) /\ <<>> \in Seq([ok : BOOLEAN])
        BY EventTypes
      <3>3. armed > 0 => armed - 1 \in Nat
        BY <3>1
      <3> QED
        BY <2>0, <3>1, <3>2, <3>3
    <2> QED
      BY <1>9, <2>1, InputIs
  <1>10. CASE D!Panic
    BY <1>10, PanicIs
  <1>11. CASE D!StickOut
    <2>1. stick' \in Sticks
      BY <1>11, StickOutIs
    <2>2. events' \in Seq([ok : BOOLEAN])
      BY <1>11, StickOutIs, EventTypes
    <2>3. DOMAIN disk' = Clusters /\ DOMAIN hc' = {"in", "out"}
      BY <1>11, StickOutIs
    <2> QED
      BY <1>11, <2>1, <2>2, <2>3, StickOutIs
  <1>12. CASE D!StickIn
    <2>1. stick' \in Sticks
      BY <1>12, StickInIs
    <2>2. events' \in Seq([ok : BOOLEAN])
      <3>1. \E ok \in BOOLEAN : events' = Append(events, [ok |-> ok])
        BY <1>12, StickInIs
      <3> HIDE DEF DumpTypes
      <3> QED
        BY <3>1, EventTypes
    <2>3. DOMAIN hc' = {"in", "out"}
      BY <1>12, StickInIs
    <2>4. MSC_CSW' \in [tag : Nat, good : BOOLEAN]
      <3>1. MSC_CSW' = MSC_CSW \/ MSC_CSW' = [tag |-> stick.cmd.tag, good |-> stick.good]
        BY <1>12, StickInIs
      <3>2. stick.cmd.tag \in Nat /\ stick.good \in BOOLEAN
        BY DEF Sticks, Commands
      <3> QED
        BY <3>1, <3>2
    <2> QED
      BY <1>12, <2>1, <2>2, <2>3, <2>4, StickInIs
  <1>13. ASSUME NEW c \in Clusters, D!ReadBlock(c) PROVE DumpTypes'
    BY <1>13, ReadBlockIs, BeginIs, BeginTypes DEF Ops
  <1> QED
    BY <1>1, <1>2, <1>3, <1>4, <1>5, <1>6, <1>7, <1>8, <1>9, <1>10, <1>11, <1>12, <1>13, DumpSteps
-----------------------------------------------------------------------------
(* Only blocks of the file are written.                                    *)

LEMMA OwnInit == ASSUME D!Init PROVE WritesOwn
  BY DEF D!Init, WritesOwn

LEMMA OwnStep == ASSUME DumpTypes, WritesOwn, [MCNext]_all PROVE WritesOwn'
  <1>1. CASE UNCHANGED dumpVars
    BY <1>1 DEF dumpVars, WritesOwn, OwnBlock
  <1>2. CASE D!Answer
    <2>1. bot' # D!Idle => bot'.op = bot.op /\ bot'.block = bot.block /\ work'.tag = work.tag
      BY <1>2, AnswerIs
    <2> QED
      BY <1>2, <2>1, AnswerIs DEF WritesOwn, OwnBlock
  <1>3. CASE D!GiveUp
    BY <1>3, GiveUpIs DEF WritesOwn, OwnBlock
  <1>4. CASE D!Walk
    <2>1. MSC_CBW.op = "read" /\ stick.cmd.op # "write"
      BY <1>4, WalkIs DEF WritesOwn
    <2>2. CASE D!Begin("read", 0) /\ dumpPc' = "resolve"
      BY <1>4, <2>1, <2>2, WalkIs, BeginIs DEF WritesOwn
    <2>3. CASE UNCHANGED <<walked, work, bot, MSC_CBW, ring>> /\ dumpPc' = "load"
      BY <1>4, <2>1, <2>3, WalkIs DEF WritesOwn
    <2> QED
      BY <1>4, <2>2, <2>3, WalkIs
  <1>5. CASE D!Walked
    <2>1. MSC_CBW.op = "read" /\ stick.cmd.op # "write"
      BY <1>5, WalkedIs DEF WritesOwn
    <2> QED
      BY <1>5, <2>1, WalkedIs DEF WritesOwn
  <1>6. CASE D!BlockRead \/ D!Loaded
    BY <1>6, LoadIs DEF WritesOwn, OwnBlock
  <1>7. CASE D!WriteBlock
    <2>1. CASE UNCHANGED <<work, bot, MSC_CBW, ring>> /\ dumpPc' = "done"
      BY <1>7, <2>1, WriteBlockIs DEF WritesOwn, OwnBlock
    <2>2. CASE /\ written < Len(file) /\ D!Begin("write", file[written + 1])
               /\ dumpPc' = dumpPc
      <3>1. written + 1 \in 1 .. Len(file)
        BY <2>2 DEF DumpTypes
      <3>2. file' = file /\ stick' = stick /\ dumpPc = "panic"
        BY <1>7, WriteBlockIs
      <3>3. /\ bot' = [op |-> "write", block |-> file[written + 1], stage |-> "cbw"]
            /\ MSC_CBW' = [tag |-> stickSlot.tag + 1, op |-> "write", block |-> file[written + 1]]
            /\ work'.tag = stickSlot.tag + 1
        BY <2>2, BeginIs
      <3> QED
        BY <2>2, <3>1, <3>2, <3>3 DEF WritesOwn, OwnBlock
    <2> QED
      BY <1>7, <2>1, <2>2, WriteBlockIs
  <1>8. CASE D!BlockWritten
    BY <1>8, BlockWrittenIs DEF WritesOwn, OwnBlock
  <1>9. CASE D!Poll \/ D!HidReport
    BY <1>9, InputIs DEF WritesOwn, OwnBlock
  <1>10. CASE D!Panic
    BY <1>10, PanicIs DEF WritesOwn, OwnBlock
  <1>11. CASE D!StickOut
    <2>1. \/ stick'.phase = stick.phase /\ stick'.cmd = stick.cmd
          \/ stick'.cmd = MSC_CBW /\ stick'.phase = IF MSC_CBW.op = "read" THEN "in" ELSE "out"
          \/ stick'.phase = "csw" /\ stick'.cmd = stick.cmd
      BY <1>11, StickOutIs
    <2>2. MSC_CBW.op \in {"read", "write"}
      BY DEF DumpTypes, Commands, Ops
    <2> QED
      BY <1>11, <2>1, <2>2, StickOutIs DEF WritesOwn, OwnBlock
  <1>12. CASE D!StickIn
    <2>1. stick'.cmd = stick.cmd /\ (stick'.phase = stick.phase \/ stick'.phase \in {"csw", "cbw"})
      BY <1>12, StickInIs DEF DumpTypes
    <2> QED
      BY <1>12, <2>1, StickInIs DEF WritesOwn, OwnBlock
  <1>13. ASSUME NEW c \in Clusters, D!ReadBlock(c) PROVE WritesOwn'
    <2>1. MSC_CBW.op = "read" /\ stick.cmd.op # "write"
      BY <1>13, ReadBlockIs DEF WritesOwn
    <2> QED
      BY <1>13, <2>1, ReadBlockIs, BeginIs DEF WritesOwn
  <1> QED
    BY <1>1, <1>2, <1>3, <1>4, <1>5, <1>6, <1>7, <1>8, <1>9, <1>10, <1>11, <1>12, <1>13, DumpSteps
-----------------------------------------------------------------------------
(* The chain of the FAT.                                                   *)

\* A set of numbers that is not empty has a least.
LEMMA Least == ASSUME NEW S, S \subseteq Nat, S # {} PROVE \E x \in S : \A y \in S : x <= y
  <1>1. \E x \in S : \A y \in S : ~ (<<y, x>> \in OpToRel(<, Nat))
    BY NatLessThanWellFounded, WFMin, Zenon
  <1>2. \A x, y \in Nat : <<y, x>> \in OpToRel(<, Nat) <=> y < x
    BY Zenon DEF OpToRel
  <1>3. \E x \in S : \A y \in S : ~ (y < x)
    BY <1>1, <1>2, Zenon
  <1> QED
    BY <1>3

\* Two sequences that follow the FAT agree as far as both go.
LEMMA ChainsAgree ==
    ASSUME NEW s, NEW t, NEW n \in Nat,
           \A i \in 1 .. n : s[i] = D!Linked(s, i) /\ t[i] = D!Linked(t, i)
    PROVE  \A i \in 1 .. n : s[i] = t[i]
  <1> DEFINE B == {i \in 1 .. n : s[i] # t[i]}
  <1> SUFFICES ASSUME B # {} PROVE FALSE
    OBVIOUS
  <1>0. B \subseteq Nat
    OBVIOUS
  <1>1. PICK i \in B : \A j \in B : i <= j
    <2> HIDE DEF B
    <2> QED
      BY <1>0, Least
  <1>2. CASE i = 1
    BY <1>1, <1>2 DEF D!Linked
  <1>3. CASE i # 1
    <2>1. i - 1 \in 1 .. n /\ i - 1 \notin B
      BY <1>1, <1>3
    <2>2. s[i - 1] = t[i - 1]
      BY <2>1
    <2> QED
      BY <1>1, <1>3, <2>2 DEF D!Linked
  <1> QED
    BY <1>2, <1>3

\* The chain goes through no cluster twice.
LEMMA ChainOnce ==
    ASSUME DumpTypes, \A i \in 1 .. Len(file) : file[i] = D!Linked(file, i)
    PROVE  \A i, j \in 1 .. Len(file) : i # j => file[i] # file[j]
  <1> DEFINE n == Len(file)
             B == {i \in 1 .. n : \E j \in 1 .. n : i < j /\ file[i] = file[j]}
  <1>1. n \in Nat /\ \A i \in 1 .. n : file[i] \in Clusters
    BY DEF DumpTypes
  <1>2. /\ \A c \in Clusters : fat.next[c] # fat.first
        /\ \A c, d \in Clusters : fat.next[c] = fat.next[d] /\ fat.next[c] \in Clusters => c = d
    BY DumpAssumption DEF DumpTypes
  <1> HIDE DEF n
  <1>3. ASSUME B # {} PROVE FALSE
    <2>0. B \subseteq Nat
      BY <1>1
    <2>1. PICK i \in B : \A j \in B : i <= j
      <3> HIDE DEF B
      <3> QED
        BY <1>3, <2>0, Least
    <2>2. PICK j \in 1 .. n : i < j /\ file[i] = file[j]
      BY <2>1
    <2>3. j - 1 \in 1 .. n /\ file[j] = fat.next[file[j - 1]] /\ file[j - 1] \in Clusters
      <3>1. i \in Nat /\ i >= 1
        BY <2>1
      <3>2. j - 1 \in 1 .. n /\ j # 1
        BY <1>1, <2>2, <3>1
      <3>3. file[j] = D!Linked(file, j)
        BY <2>2 DEF n
      <3> QED
        BY <1>1, <3>2, <3>3 DEF D!Linked
    <2>4. CASE i = 1
      BY <1>1, <1>2, <2>1, <2>2, <2>3, <2>4 DEF D!Linked, n
    <2>5. CASE i # 1
      <3>1. /\ i - 1 \in 1 .. n /\ file[i] = fat.next[file[i - 1]] /\ file[i - 1] \in Clusters
            /\ file[i] \in Clusters
        <4>1. i \in 1 .. n
          BY <2>1
        <4>2. i - 1 \in 1 .. n
          BY <1>1, <2>5, <4>1
        <4>3. file[i] = D!Linked(file, i)
          BY <4>1 DEF n
        <4> QED
          BY <1>1, <2>5, <4>1, <4>2, <4>3 DEF D!Linked
      <3>2. file[i - 1] = file[j - 1]
        BY <1>2, <2>2, <2>3, <3>1
      <3>3. i - 1 \in B /\ i \in Nat
        BY <1>1, <2>1, <2>2, <2>3, <3>1, <3>2
      <3> QED
        BY <2>1, <3>3
    <2> QED
      BY <2>4, <2>5
  <1>4. \A i, j \in 1 .. n : i < j => file[i] # file[j]
    BY <1>3
  <1> QED
    BY <1>1, <1>4 DEF n

\* A file that goes as far as the FAT and the size go is the chain.
LEMMA ChainIs ==
    ASSUME DumpTypes, \A i \in 1 .. Len(file) : file[i] = D!Linked(file, i),
           Len(file) <= fat.size,
           Len(file) = fat.size \/ D!Linked(file, Len(file) + 1) \notin Clusters
    PROVE  file = D!Chain
  <1> DEFINE C == D!BoundedSeq(Clusters, fat.size)
             Whole(s) == /\ \A i \in 1 .. Len(s) : s[i] = D!Linked(s, i)
                         /\ Len(s) = fat.size \/ D!Linked(s, Len(s) + 1) \notin Clusters
             c == D!Chain
  <1>1. fat.size \in Nat /\ Len(file) \in Nat /\ file \in [1 .. Len(file) -> Clusters]
    BY DumpAssumption DEF DumpTypes
  <1>2. \A s : s \in C <=> \E m \in 0 .. fat.size : s \in [1 .. m -> Clusters]
    BY DEF D!BoundedSeq, D!SeqOf
  <1>3. file \in C /\ Whole(file)
    BY <1>1, <1>2
  <1>4. c \in C /\ Whole(c)
    <2>1. c = CHOOSE s \in C : Whole(s)
      BY DEF D!Chain
    <2> HIDE DEF c, C, Whole
    <2> QED
      BY <1>3, <2>1
  <1> HIDE DEF c
  <1>5. PICK m \in 0 .. fat.size : c \in [1 .. m -> Clusters]
    BY <1>2, <1>4
  <1>6. m \in Nat /\ m <= fat.size /\ c \in Seq(Clusters) /\ Len(c) = m
    BY <1>1, <1>5
  <1> HIDE DEF C
  <1> DEFINE n == IF m < Len(file) THEN m ELSE Len(file)
  <1>7. n \in Nat /\ n <= m /\ n <= Len(file)
    BY <1>1, <1>6
  <1> HIDE DEF n
  <1>8. \A i \in 1 .. n : file[i] = c[i]
    <2>1. \A i \in 1 .. n : file[i] = D!Linked(file, i) /\ c[i] = D!Linked(c, i)
      BY <1>1, <1>3, <1>4, <1>6, <1>7
    <2> HIDE DEF Whole
    <2> QED
      BY <1>7, <2>1, ChainsAgree
  <1>9. D!Linked(file, n + 1) = D!Linked(c, n + 1)
    <2>1. CASE n = 0
      BY <2>1 DEF D!Linked
    <2>2. CASE n # 0
      <3>1. n \in 1 .. n /\ n + 1 # 1 /\ (n + 1) - 1 = n
        BY <1>7, <2>2
      <3> QED
        BY <1>8, <3>1 DEF D!Linked
    <2> QED
      BY <2>1, <2>2
  <1>10. ~(m < Len(file))
    <2> SUFFICES ASSUME m < Len(file) PROVE FALSE
      OBVIOUS
    <2>1. n = m /\ m # fat.size /\ m + 1 \in 1 .. Len(file)
      BY <1>1, <1>6 DEF n
    <2>2. file[m + 1] = D!Linked(file, m + 1) /\ file[m + 1] \in Clusters
      BY <1>1, <2>1
    <2> QED
      BY <1>4, <1>6, <1>9, <2>1, <2>2
  <1>11. ~(Len(file) < m)
    <2> SUFFICES ASSUME Len(file) < m PROVE FALSE
      OBVIOUS
    <2>0. ~(m < Len(file)) /\ Len(file) # fat.size /\ Len(file) + 1 \in 1 .. m
      BY <1>1, <1>6
    <2>1. n = Len(file) /\ Len(file) # fat.size /\ Len(file) + 1 \in 1 .. m
      BY <2>0 DEF n
    <2>2. c[Len(file) + 1] = D!Linked(c, Len(file) + 1) /\ c[Len(file) + 1] \in Clusters
      BY <1>4, <1>5, <1>6, <2>1
    <2> QED
      BY <1>3, <1>9, <2>1, <2>2
  <1>12. m = Len(file)
    <2>1. \A x, y \in Nat : x < y \/ y < x \/ x = y
      OBVIOUS
    <2> QED
      BY <1>1, <1>6, <1>10, <1>11, <2>1
  <1>13. n = m
    BY <1>10, <1>12 DEF n
  <1> QED
    BY <1>1, <1>5, <1>8, <1>12, <1>13 DEF c
-----------------------------------------------------------------------------
(* Tags.                                                                   *)

LEMMA TagTypes ==
    ASSUME DumpTypes
    PROVE  /\ stickSlot.tag \in Nat /\ work.tag \in Nat /\ MSC_CBW.tag \in Nat /\ MSC_CSW.tag \in Nat
           /\ stick.cmd.tag \in Nat /\ stick.cmd \in Commands
  BY DEF DumpTypes, StickSlots, Commands, Sticks

LEMMA TagsInit == ASSUME D!Init PROVE Tagged
  BY DEF D!Init, Tagged

LEMMA BeginTags ==
    ASSUME DumpTypes, Tagged, NEW op, NEW block, D!Begin(op, block), dumpPc' = dumpPc,
           UNCHANGED <<stick, MSC_CSW, stickSlot>>
    PROVE  /\ Tagged'
           /\ dumpPc \in {"resolve", "load"} =>
                    stick.cmd.tag # work'.tag /\ MSC_CSW.tag # work'.tag
  <1>1. MSC_CBW'.tag = stickSlot.tag + 1 /\ work'.tag = stickSlot.tag + 1 /\ bot' # D!Idle
        /\ bot = D!Idle
    BY BeginIs
  <1>2. stick.cmd.tag <= work.tag /\ MSC_CSW.tag <= stick.cmd.tag /\ work.tag <= stickSlot.tag + 1
    BY DEF Tagged
  <1>3. stick.cmd.tag <= stickSlot.tag + 1
    BY <1>2, TagTypes
  <1>4. dumpPc \in {"resolve", "load", "loop"} => work.tag = stickSlot.tag
    BY <1>1 DEF Tagged
  <1>5. dumpPc \in {"resolve", "load", "loop"} =>
            stick.cmd.tag # stickSlot.tag + 1 /\ MSC_CSW.tag # stickSlot.tag + 1
    BY <1>2, <1>4, TagTypes
  <1> QED
    BY <1>1, <1>2, <1>3, <1>5, TagTypes DEF Tagged

LEMMA TagsStep == ASSUME DumpTypes, WritesOwn, Tagged, [MCNext]_all PROVE Tagged'
  <1>1. CASE UNCHANGED dumpVars
    BY <1>1 DEF dumpVars, Tagged
  <1>2. CASE D!Answer
    <2>1. work'.tag = work.tag
      BY <1>2, AnswerIs
    <2>2. bot' = D!Idle => stickSlot' = work /\ work' = work
      BY <1>2, AnswerIs DEF D!Idle, D!None
    <2>3. bot' # D!Idle => stickSlot' = stickSlot
      BY <1>2, AnswerIs
    <2>4. work'.tag <= stickSlot'.tag + 1
      BY <1>2, <2>1, <2>2, <2>3, TagTypes DEF Tagged
    <2> QED
      BY <1>2, <2>1, <2>2, <2>3, <2>4, AnswerIs DEF Tagged
  <1>3. CASE D!GiveUp
    BY <1>3, GiveUpIs, TagTypes DEF Tagged
  <1>4. CASE D!Walk
    <2>1. CASE D!Begin("read", 0) /\ dumpPc' = "resolve"
      BY <1>4, <2>1, WalkIs, BeginTags
    <2>2. CASE UNCHANGED <<walked, work, bot, MSC_CBW, ring>> /\ dumpPc' = "load"
      BY <1>4, <2>2, WalkIs DEF Tagged
    <2> QED
      BY <1>4, <2>1, <2>2, WalkIs
  <1>5. CASE D!Walked
    BY <1>5, WalkedIs DEF Tagged
  <1>6. CASE D!BlockRead \/ D!Loaded
    BY <1>6, LoadIs DEF Tagged
  <1>7. CASE D!WriteBlock
    <2>1. CASE UNCHANGED <<work, bot, MSC_CBW, ring>> /\ dumpPc' = "done"
      BY <1>7, <2>1, WriteBlockIs DEF Tagged
    <2>2. CASE D!Begin("write", file[written + 1]) /\ dumpPc' = dumpPc
      BY <1>7, <2>2, WriteBlockIs, BeginTags
    <2> QED
      BY <1>7, <2>1, <2>2, WriteBlockIs
  <1>8. CASE D!BlockWritten
    BY <1>8, BlockWrittenIs DEF Tagged
  <1>9. CASE D!Poll \/ D!HidReport
    BY <1>9, InputIs DEF Tagged
  <1>10. CASE D!Panic
    BY <1>10, PanicIs DEF Tagged
  <1>11. CASE D!StickOut
    <2>1. stick'.cmd = stick.cmd \/ stick'.cmd = MSC_CBW
      BY <1>11, StickOutIs
    <2>2. MSC_CSW.tag <= MSC_CBW.tag
      BY TagTypes DEF Tagged
    <2> QED
      BY <1>11, <2>1, <2>2, StickOutIs, TagTypes DEF Tagged
  <1>12. CASE D!StickIn
    <2>0. stick'.cmd = stick.cmd
      BY <1>12, StickInIs
    <2>1. stick'.cmd = stick.cmd /\ (MSC_CSW' = MSC_CSW \/ MSC_CSW'.tag = stick.cmd.tag)
      <3>1. MSC_CSW' = MSC_CSW \/ MSC_CSW' = [tag |-> stick.cmd.tag, good |-> stick.good]
        BY <1>12, StickInIs
      <3> QED
        BY <2>0, <3>1
    <2> QED
      BY <1>12, <2>1, StickInIs, TagTypes DEF Tagged
  <1>13. ASSUME NEW c \in Clusters, D!ReadBlock(c) PROVE Tagged'
    BY <1>13, ReadBlockIs, BeginTags
  <1> QED
    BY <1>1, <1>2, <1>3, <1>4, <1>5, <1>6, <1>7, <1>8, <1>9, <1>10, <1>11, <1>12, <1>13, DumpSteps
-----------------------------------------------------------------------------
(* What the steps do to the rings.                                         *)

LEMMA OutTaken ==
    ASSUME D!StickOut, DumpTypes
    PROVE  /\ ring' = ring /\ hc'["in"] = hc["in"] /\ \A k : InAt(k)' = InAt(k)
           /\ \A p, n : Ringed(ring["out"], p, hc["out"], n) =>
                /\ n \in Nat /\ n > 0 /\ Entry(ring["out"], hc["out"]).what = OutAt(1)
                /\ Ringed(ring'["out"], p, hc'["out"], n - 1)
                /\ n > 1 => OutAt(1)' = OutAt(2)
                /\ n > 2 => OutAt(2)' = OutAt(3)
  <1>1. /\ ring' = ring /\ hc'["in"] = hc["in"] /\ hc'["out"] = Past(ring["out"], hc["out"])
        /\ Ready(ring["out"], hc["out"])
    BY StickOutIs DEF DumpTypes
  <1>2. \A k : InAt(k)' = InAt(k)
    BY <1>1 DEF InAt
  <1>3. ASSUME NEW p, NEW n, Ringed(ring["out"], p, hc["out"], n)
        PROVE  /\ n \in Nat /\ n > 0 /\ Entry(ring["out"], hc["out"]).what = OutAt(1)
               /\ Ringed(ring'["out"], p, hc'["out"], n - 1)
               /\ n > 1 => OutAt(1)' = OutAt(2)
               /\ n > 2 => OutAt(2)' = OutAt(3)
    BY <1>1, <1>3, TakeRing DEF OutAt
  <1> QED
    BY <1>1, <1>2, <1>3

LEMMA InTaken ==
    ASSUME D!StickIn, DumpTypes
    PROVE  /\ ring' = ring /\ hc'["out"] = hc["out"] /\ \A k : OutAt(k)' = OutAt(k)
           /\ \A p, n : Ringed(ring["in"], p, hc["in"], n) =>
                /\ n \in Nat /\ n > 0 /\ Entry(ring["in"], hc["in"]).what = InAt(1)
                /\ Ringed(ring'["in"], p, hc'["in"], n - 1)
                /\ n > 1 => InAt(1)' = InAt(2)
                /\ n > 2 => InAt(2)' = InAt(3)
  <1>1. /\ ring' = ring /\ hc'["out"] = hc["out"] /\ hc'["in"] = Past(ring["in"], hc["in"])
        /\ Ready(ring["in"], hc["in"])
    BY StickInIs DEF DumpTypes
  <1>2. \A k : OutAt(k)' = OutAt(k)
    BY <1>1 DEF OutAt
  <1>3. ASSUME NEW p, NEW n, Ringed(ring["in"], p, hc["in"], n)
        PROVE  /\ n \in Nat /\ n > 0 /\ Entry(ring["in"], hc["in"]).what = InAt(1)
               /\ Ringed(ring'["in"], p, hc'["in"], n - 1)
               /\ n > 1 => InAt(1)' = InAt(2)
               /\ n > 2 => InAt(2)' = InAt(3)
    BY <1>1, <1>3, TakeRing DEF InAt
  <1> QED
    BY <1>1, <1>2, <1>3

LEMMA PutIn ==
    ASSUME DumpTypes, NEW p, NEW n, In(p, n), n <= 2, NEW what \in {"cbw", "data", "csw"},
           ring' = [ring EXCEPT !["in"] = Put(ring["in"], p, what, 0, 0)], hc' = hc
    PROVE  /\ Ringed(ring'["in"], Advance(p), hc'["in"], n + 1)
           /\ InAt(n + 1)' = what /\ \A k \in 1 .. n : InAt(k)' = InAt(k)
           /\ ring'["out"] = ring["out"] /\ \A k : OutAt(k)' = OutAt(k)
  <1>1. ring'["in"] = Put(ring["in"], p, what, 0, 0) /\ ring'["out"] = ring["out"]
    BY DEF DumpTypes
  <1>2. Ringed(ring["in"], p, hc["in"], n)
    BY DEF In
  <1>3. LET r == Put(ring["in"], p, what, 0, 0)
        IN  /\ Ringed(r, Advance(p), hc["in"], n + 1) /\ r[Spot(hc["in"], n + 1)].what = what
            /\ \A k \in 1 .. n : r[Spot(hc["in"], k)].what = ring["in"][Spot(hc["in"], k)].what
    BY <1>2, PutRing
  <1> QED
    BY <1>1, <1>3 DEF InAt, OutAt

LEMMA PutOut ==
    ASSUME DumpTypes, NEW p, NEW n, Out(p, n), n <= 2, NEW what \in {"cbw", "data", "csw"},
           ring' = [ring EXCEPT !["out"] = Put(ring["out"], p, what, 0, 0)], hc' = hc
    PROVE  /\ Ringed(ring'["out"], Advance(p), hc'["out"], n + 1)
           /\ OutAt(n + 1)' = what /\ \A k \in 1 .. n : OutAt(k)' = OutAt(k)
           /\ ring'["in"] = ring["in"] /\ \A k : InAt(k)' = InAt(k)
  <1>1. ring'["out"] = Put(ring["out"], p, what, 0, 0) /\ ring'["in"] = ring["in"]
    BY DEF DumpTypes
  <1>2. Ringed(ring["out"], p, hc["out"], n)
    BY DEF Out
  <1>3. LET r == Put(ring["out"], p, what, 0, 0)
        IN  /\ Ringed(r, Advance(p), hc["out"], n + 1) /\ r[Spot(hc["out"], n + 1)].what = what
            /\ \A k \in 1 .. n : r[Spot(hc["out"], k)].what = ring["out"][Spot(hc["out"], k)].what
    BY <1>2, PutRing
  <1> QED
    BY <1>1, <1>3 DEF InAt, OutAt

LEMMA PutFirstIn ==
    ASSUME DumpTypes, NEW p, In(p, 0), NEW what \in {"cbw", "data", "csw"},
           ring' = [ring EXCEPT !["in"] = Put(ring["in"], p, what, 0, 0)], hc' = hc
    PROVE  /\ Ringed(ring'["in"], Advance(p), hc'["in"], 1) /\ InAt(1)' = what
           /\ ring'["out"] = ring["out"] /\ \A k : OutAt(k)' = OutAt(k)
  <1>1. \A n : n = 0 => n <= 2 /\ n + 1 = 1
    OBVIOUS
  <1>2. PICK n : n = 0
    OBVIOUS
  <1>3. In(p, n) /\ n <= 2 /\ n + 1 = 1
    BY <1>1, <1>2
  <1>4. Ringed(ring'["in"], Advance(p), hc'["in"], n + 1) /\ InAt(n + 1)' = what
    BY <1>3, PutIn
  <1>5. ring'["out"] = ring["out"] /\ \A k : OutAt(k)' = OutAt(k)
    BY <1>3, PutIn
  <1> QED
    BY <1>3, <1>4, <1>5

LEMMA PutFirstOut ==
    ASSUME DumpTypes, NEW p, Out(p, 0), NEW what \in {"cbw", "data", "csw"},
           ring' = [ring EXCEPT !["out"] = Put(ring["out"], p, what, 0, 0)], hc' = hc
    PROVE  /\ Ringed(ring'["out"], Advance(p), hc'["out"], 1) /\ OutAt(1)' = what
           /\ ring'["in"] = ring["in"] /\ \A k : InAt(k)' = InAt(k)
  <1>1. \A n : n = 0 => n <= 2 /\ n + 1 = 1
    OBVIOUS
  <1>2. PICK n : n = 0
    OBVIOUS
  <1>3. Out(p, n) /\ n <= 2 /\ n + 1 = 1
    BY <1>1, <1>2
  <1>4. Ringed(ring'["out"], Advance(p), hc'["out"], n + 1) /\ OutAt(n + 1)' = what
    BY <1>3, PutOut
  <1>5. ring'["in"] = ring["in"] /\ \A k : InAt(k)' = InAt(k)
    BY <1>3, PutOut
  <1> QED
    BY <1>3, <1>4, <1>5

-----------------------------------------------------------------------------
(* Reading.                                                                *)

LEMMA ReadOps ==
    ASSUME DumpTypes, WritesOwn, dumpPc \in {"resolve", "load"}
    PROVE  /\ MSC_CBW.op = "read" /\ stick.phase # "out" /\ stick.cmd.op # "write"
           /\ bot # D!Idle => bot.op = "read" /\ bot.stage \in {"cbw", "data", "csw"}
  BY DEF DumpTypes, WritesOwn, Sticks

LEMMA IdlePuts == bot = D!Idle => Puts = 0 /\ bot.stage = "none"
  BY DEF Puts, D!Idle, D!None

LEMMA ReadInit == ASSUME D!Init PROVE Reading
  <1>1. /\ ring["in"] = [i \in Entries |-> Blank] /\ hc["in"] = Start /\ stickSlot.in = Start
        /\ bot = D!Idle /\ res = "none"
    BY SameRings DEF D!Init, D!None
  <1>2. Ringed(ring["in"], stickSlot.in, hc["in"], 0)
    BY <1>1, RingBlank
  <1>3. Lag(0)
    BY <1>1, <1>2, IdlePuts DEF Lag, In, Slot
  <1> QED
    BY <1>1, <1>3 DEF Reading

\* A read begins: what is on the ring is of earlier ones.
LEMMA BeginReads ==
    ASSUME DumpTypes, Tagged, Reading, dumpPc \in {"resolve", "load"}, dumpPc' = dumpPc,
           NEW block, D!Begin("read", block),
           UNCHANGED <<stick, MSC_CSW, stickSlot, hc, res>>
    PROVE  Reading'
  <1>1. /\ bot = D!Idle /\ bot' # D!Idle /\ res = "none" /\ bot'.stage = "cbw"
        /\ work'.in = stickSlot.in /\ ring'["in"] = ring["in"]
    BY BeginIs DEF DumpTypes
  <1>2. stick.cmd.tag # work'.tag /\ MSC_CSW.tag # work'.tag
    BY BeginTags
  <1>3. PICK n \in 0 .. 3 : Lag(n)
    BY <1>1 DEF Reading
  <1>4. /\ Ringed(ring["in"], stickSlot.in, hc["in"], n) /\ n <= 0 + 1
        /\ n = 1 => stick.phase \in {"in", "csw"}
    BY <1>1, <1>3, IdlePuts DEF Lag, Slot, In
  <1>5. Lag(n)'
    BY <1>1, <1>2, <1>4 DEF Lag, Slot, In, Puts
  <1> QED
    BY <1>1, <1>2, <1>5 DEF Reading

\* The command, the block and the status are asked for, one after the other.
LEMMA AnswerReads ==
    ASSUME DumpTypes, WritesOwn, Reading, D!Answer PROVE Reading'
  <1> SUFFICES ASSUME dumpPc \in {"resolve", "load"} PROVE Reading'
    BY AnswerIs DEF Reading
  <1>1. /\ UNCHANGED <<disk, dumpPc, MSC_CBW, MSC_DATA, MSC_CSW, hc, stick>> /\ bot # D!Idle
        /\ res = "none" /\ bot.op = "read"
    BY AnswerIs, ReadOps DEF DumpTypes
  <1>2. PICK n \in 0 .. 3 : Lag(n)
    BY <1>1 DEF Reading
  <1>3. /\ In(work.in, n) /\ n <= Puts + 1 /\ n \in Nat
        /\ n = Puts + 1 => stick.phase \in {"in", "csw"} /\ stick.cmd.tag # work.tag
        /\ n >= Puts /\ Puts > 0 => InAt(n - Puts + 1) = "data"
        /\ MSC_CSW.tag = work.tag => n = 0 /\ Puts = 2
    BY <1>1, <1>2 DEF Lag, Slot
  <1>4. CASE bot' = D!Idle /\ res' = "failed"
    BY <1>1, <1>4 DEF Reading
  <1>5. CASE /\ bot.stage = "csw" /\ MSC_CSW.tag = work.tag /\ MSC_CSW.good
             /\ stickSlot' = work /\ bot' = D!Idle /\ UNCHANGED <<work, ring>> /\ res' = "ok"
    <2>1. n = 0 /\ MSC_DATA = Right
      BY <1>1, <1>3, <1>5 DEF Reading
    <2>2. Ringed(ring'["in"], stickSlot'.in, hc'["in"], 0)
      BY <1>1, <1>3, <1>5, <2>1 DEF In
    <2>3. Lag(0)'
      BY <1>5, <2>2 DEF Lag, Slot, In, Puts, D!Idle, D!None
    <2> QED
      BY <1>1, <1>5, <2>1, <2>3 DEF Reading, Right
  <1>6. CASE /\ bot.stage = "cbw"
             /\ bot' = [op |-> bot.op, block |-> bot.block, stage |-> "data"] /\ res' = res
             /\ ring' = [ring EXCEPT !["in"] = Put(ring["in"], work.in, "data", 0, 0)]
             /\ work' = [in |-> Advance(work.in), out |-> work.out, tag |-> work.tag]
    <2>1. Puts = 0 /\ n <= 1 /\ n <= 2 /\ Puts' = 1 /\ bot' # D!Idle /\ n + 1 \in 0 .. 3
      BY <1>3, <1>6 DEF Puts, D!Idle, D!None
    <2>2. /\ Ringed(ring'["in"], Advance(work.in), hc'["in"], n + 1)
          /\ InAt(n + 1)' = "data" /\ \A k \in 1 .. n : InAt(k)' = InAt(k)
      BY <1>1, <1>3, <1>6, <2>1, PutIn
    <2>3. n + 1 - 1 + 1 = n + 1 /\ (n + 1 = 1 + 1 => n = 0 + 1)
      BY <1>3
    <2>4. Lag(n + 1)'
      BY <1>1, <1>3, <1>6, <2>1, <2>2, <2>3 DEF Lag, Slot, In
    <2> QED
      BY <1>1, <1>3, <1>6, <2>1, <2>4 DEF Reading, Right
  <1>7. CASE /\ bot.stage = "data"
             /\ bot' = [op |-> bot.op, block |-> bot.block, stage |-> "csw"] /\ res' = res
             /\ ring' = [ring EXCEPT !["in"] = Put(ring["in"], work.in, "csw", 0, 0)]
             /\ work' = [in |-> Advance(work.in), out |-> work.out, tag |-> work.tag]
    <2>1. Puts = 1 /\ n <= 2 /\ Puts' = 2 /\ bot' # D!Idle /\ n + 1 \in 0 .. 3
      BY <1>3, <1>7 DEF Puts, D!Idle, D!None
    <2>2. /\ Ringed(ring'["in"], Advance(work.in), hc'["in"], n + 1)
          /\ InAt(n + 1)' = "csw" /\ \A k \in 1 .. n : InAt(k)' = InAt(k)
      BY <1>1, <1>3, <1>7, <2>1, PutIn
    <2>3. n + 1 >= 2 => n >= 1 /\ n + 1 - 2 + 1 = n - 1 + 1 /\ n - 1 + 1 \in 1 .. n
      BY <1>3
    <2>4. (n + 1 = 2 + 1 => n = 1 + 1) /\ n + 1 <= 2 + 1
      BY <1>3, <2>1
    <2>5. Lag(n + 1)'
      BY <1>1, <1>3, <1>7, <2>1, <2>2, <2>3, <2>4 DEF Lag, Slot, In
    <2> QED
      BY <1>1, <1>3, <1>7, <2>1, <2>5 DEF Reading, Right
  <1> QED
    BY <1>1, <1>4, <1>5, <1>6, <1>7, AnswerIs

LEMMA OutReads ==
    ASSUME DumpTypes, WritesOwn, Reading, D!StickOut PROVE Reading'
  <1> SUFFICES ASSUME dumpPc \in {"resolve", "load"} PROVE Reading'
    BY StickOutIs DEF Reading
  <1>1. stick.phase = "cbw"
    BY StickOutIs, ReadOps
  <1>2. UNCHANGED <<disk, dumpPc, stickSlot, work, bot, res, MSC_CBW, MSC_DATA, MSC_CSW, ring>>
    BY <1>1, StickOutIs
  <1>3. hc'["in"] = hc["in"] /\ \A k : InAt(k)' = InAt(k)
    BY OutTaken
  <1>4. stick'.phase # "csw"
    BY <1>1, StickOutIs
  <1>5. ASSUME NEW n \in 0 .. 3, Lag(n) PROVE Lag(n)'
    <2>1. n # Puts + 1
      BY <1>1, <1>5 DEF Lag
    <2> QED
      BY <1>2, <1>3, <1>5, <2>1 DEF Lag, In, Slot, Puts
  <1> QED
    BY <1>2, <1>4, <1>5 DEF Reading, Right

LEMMA InReads ==
    ASSUME DumpTypes, WritesOwn, Tagged, Reading, D!StickIn PROVE Reading'
  <1> SUFFICES ASSUME dumpPc \in {"resolve", "load"} PROVE Reading'
    BY StickInIs DEF Reading
  <1>1. UNCHANGED <<disk, dumpPc, stickSlot, work, bot, res, MSC_CBW, ring>>
    BY StickInIs
  <1>2. CASE res = "failed"
    BY <1>1, <1>2 DEF Reading, DumpTypes
  <1>3. CASE res # "failed"
    <2>1. PICK n \in 0 .. 3 : Lag(n)
      BY <1>3 DEF Reading
    <2>2. /\ n \in Nat /\ n > 0 /\ Entry(ring["in"], hc["in"]).what = InAt(1)
          /\ Ringed(ring'["in"], Slot.in, hc'["in"], n - 1)
          /\ n > 1 => InAt(1)' = InAt(2)
      BY <2>1, InTaken DEF Lag, In
    <2>3. /\ n <= Puts + 1 /\ res # "ok" /\ Puts \in 0 .. 2
          /\ n = Puts + 1 /\ bot # D!Idle => stick.cmd.tag # work.tag
          /\ n >= Puts /\ Puts > 0 => InAt(n - Puts + 1) = "data"
          /\ bot # D!Idle => MSC_CSW.tag # work.tag
      BY <2>1, <2>2 DEF Lag, Puts
    <2>4. ASSUME bot # D!Idle, MSC_CSW'.tag = work.tag
          PROVE  /\ n = 1 /\ Puts = 2 /\ stick.phase = "csw" /\ stick.cmd.tag = work.tag
                 /\ MSC_CSW'.good = stick.good /\ MSC_DATA' = MSC_DATA
      <3>1. MSC_CSW' # MSC_CSW
        BY <2>3, <2>4
      <3>2. /\ stick.phase = "csw" /\ InAt(1) = "csw" /\ MSC_DATA' = MSC_DATA
            /\ MSC_CSW' = [tag |-> stick.cmd.tag, good |-> stick.good]
        BY <2>2, <3>1, StickInIs
      <3>3. stick.cmd.tag = work.tag /\ n # Puts + 1
        BY <2>3, <2>4, <3>2
      <3>4. n # Puts
        <4> SUFFICES ASSUME n = Puts PROVE FALSE
          OBVIOUS
        <4>1. Puts > 0 /\ n - Puts + 1 = 1 /\ n >= Puts
          BY <2>2
        <4> QED
          BY <2>3, <3>2, <4>1
      <3>5. n = 1 /\ Puts = 2
        BY <2>2, <2>3, <3>3, <3>4
      <3> QED
        BY <3>2, <3>3, <3>5
    <2>5. Lag(n - 1)'
      <3>1. n - 1 # Puts + 1 /\ n - 1 <= Puts + 1 /\ n - 1 \in 0 .. 3
        BY <2>2, <2>3
      <3>2. n - 1 >= Puts /\ Puts > 0 => n - 1 - Puts + 1 = 1 /\ n > 1 /\ n - Puts + 1 = 2 /\ n >= Puts
        BY <2>2, <2>3
      <3>4. Puts' = Puts /\ Slot' = Slot
        BY <1>1 DEF Puts, Slot
      <3>3. n - 1 >= Puts /\ Puts > 0 => InAt(n - 1 - Puts + 1)' = "data"
        BY <2>2, <2>3, <3>2, <3>4
      <3>5. bot # D!Idle /\ MSC_CSW'.tag = work.tag => n - 1 = 0 /\ Puts = 2
        BY <2>4
      <3> QED
        BY <1>1, <2>2, <2>3, <3>1, <3>3, <3>4, <3>5 DEF Lag, In
    <2>6. ASSUME bot # D!Idle, stick'.phase = "csw", stick'.cmd.tag = work.tag, stick'.good
          PROVE  MSC_DATA' = Right
      <3>1. MSC_DATA' = IF stick.cmd.block = 0 THEN <<"fat", 0>> ELSE disk[stick.cmd.block]
        BY <2>2, <2>6, StickInIs
      <3>2. stick.cmd.tag = MSC_CBW.tag
        BY <2>6, StickInIs DEF Tagged
      <3>3. stick.cmd = MSC_CBW
        BY <3>2 DEF Tagged
      <3> QED
        BY <3>1, <3>3 DEF Right
    <2>7. ASSUME bot # D!Idle, MSC_CSW'.tag = work.tag, MSC_CSW'.good PROVE MSC_DATA' = Right
      BY <2>4, <2>7 DEF Reading
    <2>8. n - 1 \in 0 .. 3
      BY <2>2
    <2> QED
      BY <1>1, <2>3, <2>5, <2>6, <2>7, <2>8 DEF Reading, Right
  <1> QED
    BY <1>2, <1>3

LEMMA ReadStep ==
    ASSUME DumpTypes, WritesOwn, Tagged, Stepping, Reading, [MCNext]_all
    PROVE  Reading'
  <1>1. CASE UNCHANGED dumpVars
    BY <1>1 DEF dumpVars, Reading, Lag, In, InAt, Slot, Puts, Right
  <1>2. CASE D!Answer
    BY <1>2, AnswerReads
  <1>3. CASE D!GiveUp
    BY <1>3, GiveUpIs DEF Reading
  <1>4. CASE D!Walk
    <2>1. CASE D!Begin("read", 0) /\ dumpPc' = "resolve"
      BY <1>4, <2>1, WalkIs, BeginReads
    <2>2. CASE UNCHANGED <<walked, work, bot, MSC_CBW, ring>> /\ dumpPc' = "load"
      BY <1>4, <2>2, WalkIs DEF Reading, Lag, In, InAt, Slot, Puts, Right
    <2> QED
      BY <1>4, <2>1, <2>2, WalkIs
  <1>5. CASE D!Walked
    <2>1. /\ UNCHANGED <<disk, stickSlot, work, bot, MSC_CBW, ring, hc, stick>> /\ bot = D!Idle
          /\ res' = "none" /\ dumpPc = "resolve"
      BY <1>5, WalkedIs
    <2>2. \E n \in 0 .. 3 : /\ Ringed(ring["in"], stickSlot.in, hc["in"], n) /\ n <= 1
                            /\ n = 1 => stick.phase \in {"in", "csw"}
      <3>1. PICK a \in 0 .. 1, b \in 0 .. 1 : Left(a, b)
        BY <2>1 DEF Stepping
      <3> QED
        BY <2>1, <3>1 DEF Left, In, Slot
    <2>3. PICK n \in 0 .. 3 : Lag(n)'
      BY <2>1, <2>2 DEF Lag, In, Slot, Puts, D!Idle, D!None
    <2> QED
      BY <2>1, <2>3 DEF Reading
  <1>6. CASE D!BlockRead \/ D!Loaded
    <2> SUFFICES ASSUME dumpPc' = "load" PROVE Reading'
      BY <1>6, LoadIs DEF Reading
    <2>1. /\ UNCHANGED <<disk, stickSlot, work, bot, MSC_CBW, MSC_CSW, ring, hc, stick>> /\ bot = D!Idle
          /\ res' = "none" /\ dumpPc = "load" /\ res = "ok"
      BY <1>6, LoadIs
    <2>2. PICK n \in 0 .. 3 : Lag(n)
      BY <2>1 DEF Reading
    <2>3. Lag(n)'
      BY <2>1, <2>2 DEF Lag, In, InAt, Slot, Puts
    <2> QED
      BY <2>1, <2>3 DEF Reading
  <1>7. CASE D!WriteBlock
    BY <1>7, WriteBlockIs DEF Reading
  <1>8. CASE D!BlockWritten
    BY <1>8, BlockWrittenIs DEF Reading
  <1>9. CASE D!Poll \/ D!HidReport
    BY <1>9, InputIs DEF Reading, Lag, In, InAt, Slot, Puts, Right
  <1>10. CASE D!Panic
    BY <1>10, PanicIs DEF Reading
  <1>11. CASE D!StickOut
    BY <1>11, OutReads
  <1>12. CASE D!StickIn
    BY <1>12, InReads
  <1>13. ASSUME NEW c \in Clusters, D!ReadBlock(c) PROVE Reading'
    BY <1>13, ReadBlockIs, BeginReads
  <1> QED
    BY <1>1, <1>2, <1>3, <1>4, <1>5, <1>6, <1>7, <1>8, <1>9, <1>10, <1>11, <1>12, <1>13, DumpSteps
-----------------------------------------------------------------------------
(* The file.                                                               *)

LEMMA FileInit == ASSUME D!Init PROVE FollowsFat
  <1>1. file = <<>> /\ dumpPc = "resolve" /\ walked = 0 /\ bot = D!Idle /\ res = "none"
        /\ cluster = fat.first /\ fat.size \in Nat
    BY DumpAssumption DEF D!Init, D!None
  <1>2. Len(file) = 0
    BY <1>1
  <1> QED
    BY <1>1, <1>2 DEF FollowsFat, D!Linked

LEMMA FileStep ==
    ASSUME DumpTypes, Reading, FollowsFat, [MCNext]_all PROVE FollowsFat'
  <1>0. Len(file) \in Nat /\ fat.size \in Nat
    BY DumpAssumption DEF DumpTypes
  <1>1. ASSUME UNCHANGED <<fat, file, cluster, walked, bot, res, MSC_CBW, dumpPc>>
        PROVE  FollowsFat'
    BY <1>1 DEF FollowsFat, D!Linked
  <1>2. ASSUME UNCHANGED <<fat, file, cluster, walked, MSC_CBW, dumpPc>>, bot # D!Idle,
               bot' # D!Idle \/ res' # "none"
        PROVE  FollowsFat'
    BY <1>2 DEF FollowsFat, D!Linked
  <1>3. ASSUME UNCHANGED <<fat, file>>, dumpPc # "resolve", dumpPc' # "resolve"
        PROVE  FollowsFat'
    BY <1>3 DEF FollowsFat, D!Linked
  <1>4. CASE D!Walk
    <2>1. /\ \A i \in 1 .. Len(file) : file[i] = D!Linked(file, i)
          /\ Len(file) <= fat.size /\ walked = Len(file)
          /\ cluster = D!Linked(file, Len(file) + 1)
      BY <1>4, WalkIs DEF FollowsFat
    <2>2. CASE /\ walked < fat.size /\ cluster \in Clusters
               /\ file' = Append(file, cluster) /\ walked' = walked + 1 /\ dumpPc' = "resolve"
               /\ D!Begin("read", 0)
      <3>1. /\ Len(file') = Len(file) + 1 /\ file'[Len(file) + 1] = cluster
            /\ \A i \in 1 .. Len(file) : file'[i] = file[i]
        BY <2>2, SeqTypes DEF DumpTypes
      <3>2. fat' = fat /\ cluster' = cluster /\ bot' # D!Idle /\ MSC_CBW'.block = 0
        BY <1>4, <2>2, WalkIs, BeginIs
      <3>3. ASSUME NEW i \in 1 .. Len(file) + 1
            PROVE  D!Linked(file, i)' = D!Linked(file, i)
        <4>1. i = 1 \/ i - 1 \in 1 .. Len(file)
          BY <1>0
        <4> QED
          BY <3>1, <3>2, <4>1 DEF D!Linked
      <3>4. \A i \in 1 .. Len(file') : file'[i] = D!Linked(file, i)'
        <4> TAKE i \in 1 .. Len(file')
        <4>1. i \in 1 .. Len(file) \/ i = Len(file) + 1
          BY <1>0, <3>1
        <4>2. i \in 1 .. Len(file) + 1
          BY <3>1
        <4> QED
          BY <2>1, <3>1, <3>3, <4>1, <4>2
      <3>5. Len(file') <= fat.size /\ Len(file') > 0 /\ walked' = Len(file') /\ cluster' = file'[Len(file')]
        BY <1>0, <2>1, <2>2, <3>1, <3>2
      <3> QED
        BY <2>2, <3>2, <3>4, <3>5 DEF FollowsFat
    <2>3. CASE file' = <<>> /\ dumpPc' = "load"
      <3>1. Len(file') = 0 /\ fat' = fat
        BY <1>4, <2>3, WalkIs
      <3> QED
        BY <1>0, <2>3, <3>1 DEF FollowsFat
    <2>4. CASE ~(walked < fat.size /\ cluster \in Clusters) /\ file' = file /\ dumpPc' = "load"
      <3>1. fat' = fat
        BY <1>4, WalkIs
      <3>2. Len(file) = fat.size \/ D!Linked(file, Len(file) + 1) \notin Clusters
        BY <1>0, <2>1, <2>4
      <3> QED
        BY <2>1, <2>4, <3>1, <3>2 DEF FollowsFat, D!Linked
    <2> QED
      BY <1>4, <2>2, <2>3, <2>4, WalkIs
  <1>5. CASE D!Walked
    <2>1. CASE res = "ok" /\ UNCHANGED <<file, dumpPc>>
      <3>1. /\ UNCHANGED <<fat, walked, bot>> /\ bot = D!Idle /\ res' = "none" /\ dumpPc = "resolve"
            /\ MSC_DATA = <<"fat", 0>> => cluster' = fat.next[cluster]
        BY <1>5, <2>1, WalkedIs
      <3>2. Len(file) > 0 /\ cluster = file[Len(file)] /\ MSC_CBW.block = 0
        BY <2>1, <3>1 DEF FollowsFat
      <3>3. cluster' = fat.next[file[Len(file)]]
        BY <2>1, <3>1, <3>2 DEF Reading, Right
      <3>4. D!Linked(file, Len(file) + 1) = fat.next[file[Len(file)]]
        <4>1. Len(file) + 1 # 1 /\ Len(file) + 1 - 1 = Len(file)
          BY <1>0, <3>2
        <4> QED
          BY <4>1 DEF D!Linked
      <3> QED
        BY <2>1, <3>1, <3>3, <3>4 DEF FollowsFat, D!Linked
    <2>2. CASE file' = <<>> /\ dumpPc' = "load"
      <3>1. Len(file') = 0 /\ fat' = fat
        BY <1>5, <2>2, WalkedIs
      <3> QED
        BY <1>0, <2>2, <3>1 DEF FollowsFat
    <2> QED
      BY <1>5, <2>1, <2>2, WalkedIs
  <1>6. CASE UNCHANGED dumpVars
    BY <1>1, <1>6 DEF dumpVars
  <1>7. CASE D!Answer
    <2>1. bot' # D!Idle \/ res' # "none"
      BY <1>7, AnswerIs DEF D!Idle, D!None
    <2> QED
      BY <1>2, <1>7, <2>1, AnswerIs
  <1>8. CASE D!GiveUp
    BY <1>2, <1>8, GiveUpIs
  <1>9. CASE D!BlockRead \/ D!Loaded
    BY <1>3, <1>9, LoadIs
  <1>10. CASE D!WriteBlock
    BY <1>3, <1>10, WriteBlockIs
  <1>11. CASE D!BlockWritten
    BY <1>3, <1>11, BlockWrittenIs
  <1>12. CASE D!Poll \/ D!HidReport
    BY <1>1, <1>12, InputIs
  <1>13. CASE D!Panic
    BY <1>3, <1>13, PanicIs
  <1>14. CASE D!StickOut
    BY <1>1, <1>14, StickOutIs
  <1>15. CASE D!StickIn
    BY <1>1, <1>15, StickInIs
  <1>16. ASSUME NEW c \in Clusters, D!ReadBlock(c) PROVE FollowsFat'
    BY <1>3, <1>16, ReadBlockIs
  <1> QED
    BY <1>4, <1>5, <1>6, <1>7, <1>8, <1>9, <1>10, <1>11, <1>12, <1>13, <1>14, <1>15, <1>16, DumpSteps
-----------------------------------------------------------------------------
(* Driver and stick are in step until a read fails.                        *)

Tracked == dumpPc = "resolve" \/ (dumpPc \in {"load", "loop"} /\ file # <<>>)

Copied ==
    bot # D!Idle => /\ Again /\ work.out = Advance(stickSlot.out)
                    /\ bot.stage = "cbw" => work.in = stickSlot.in

Kept1(a, b) == Left(a, b) /\ (dumpPc # "loop" /\ res # "failed" => InStep(a, b))

LEMMA SteppingIs ==
    Stepping <=> /\ dumpPc \in {"resolve", "load"} => armed = 0
                 /\ Tracked => Copied /\ \E a, b \in 0 .. 1 : Kept1(a, b)
  BY DEF Stepping, Tracked, Copied, Kept1

LEMMA StepInit == ASSUME D!Init PROVE Stepping
  <1>1. /\ ring = [d \in {"in", "out"} |-> [i \in Entries |-> Blank]]
        /\ hc = [d \in {"in", "out"} |-> Start] /\ stickSlot = [in |-> Start, out |-> Start, tag |-> 0]
        /\ bot = D!Idle /\ res = "none" /\ armed = 0 /\ events = <<>> /\ stick.phase = "cbw"
    BY SameRings DEF D!Init, D!None
  <1>2. /\ Ringed(ring["in"], stickSlot.in, hc["in"], 0)
        /\ Ringed(ring["out"], stickSlot.out, hc["out"], 0)
    BY <1>1, RingBlank
  <1>3. Left(0, 0) /\ InStep(0, 0)
    BY <1>1, <1>2 DEF Left, InStep, In, Out, Slot
  <1> QED
    BY <1>1, <1>3 DEF Stepping

LEMMA BeginSteps ==
    ASSUME DumpTypes, Tagged, Stepping, Tracked, dumpPc \in {"resolve", "load"}, dumpPc' = dumpPc,
           NEW block, D!Begin("read", block),
           UNCHANGED <<stick, MSC_CSW, stickSlot, hc, res, events>>
    PROVE  Copied' /\ Left(1, 0)' /\ InStep(1, 0)'
  <1>1. /\ bot = D!Idle /\ res = "none" /\ bot' # D!Idle /\ bot'.stage = "cbw"
        /\ work'.in = stickSlot.in /\ work'.out = Advance(stickSlot.out)
        /\ ring' = [ring EXCEPT !["out"] = Put(ring["out"], stickSlot.out, "cbw", 0, 0)]
    BY BeginIs
  <1>2. Left(0, 0) /\ events = <<>> /\ stick.phase = "cbw"
    <2>1. PICK a \in 0 .. 1, b \in 0 .. 1 : Left(a, b) /\ InStep(a, b)
      BY <1>1, SteppingIs DEF Kept1
    <2>2. a = 0 /\ b = 0 /\ events = <<>> /\ stick.phase = "cbw"
      BY <1>1, <2>1 DEF InStep
    <2> QED
      BY <2>1, <2>2
  <1>3. Out(stickSlot.out, 0) /\ In(stickSlot.in, 0)
    BY <1>1, <1>2 DEF Left, Slot
  <1>4. /\ Ringed(ring'["out"], Advance(stickSlot.out), hc'["out"], 1)
        /\ OutAt(1)' = "cbw" /\ ring'["in"] = ring["in"]
    BY <1>1, <1>3, PutFirstOut
  <1>5. Again'
    <2>1. ring'["out"] = Put(ring["out"], stickSlot.out, "cbw", 0, 0)
      BY <1>1 DEF DumpTypes
    <2>2. DOMAIN ring["out"] = Entries /\ stickSlot.out \in Cursor
      BY <1>3 DEF Out, Ringed
    <2> QED
      BY <2>1, <2>2, PutTwice DEF Again
  <1>6. Left(1, 0)'
    BY <1>1, <1>2, <1>3, <1>4 DEF Left, Slot, In, Out
  <1>7. InStep(1, 0)'
    <2>1. stick.cmd.tag # work'.tag
      BY BeginTags
    <2> QED
      BY <1>1, <1>2, <2>1 DEF InStep
  <1> QED
    BY <1>1, <1>5, <1>6, <1>7 DEF Copied

LEMMA AnswerSteps ==
    ASSUME DumpTypes, WritesOwn, Stepping, D!Answer PROVE Stepping'
  <1>1. /\ UNCHANGED <<dumpPc, file, armed, stick, hc>> /\ bot # D!Idle /\ res = "none"
        /\ events # <<>> /\ events' = Tail(events)
    BY AnswerIs DEF DumpTypes
  <1> SUFFICES ASSUME Tracked PROVE Copied' /\ \E a, b \in 0 .. 1 : Kept1(a, b)'
    BY <1>1, SteppingIs DEF Stepping, Tracked, Copied, Kept1
  <1>2. dumpPc \in {"resolve", "load"} /\ bot.op = "read" /\ bot.stage \in {"cbw", "data", "csw"}
    BY <1>1, ReadOps DEF Tracked, WritesOwn
  <1>3. PICK a \in 0 .. 1, b \in 0 .. 1 : Left(a, b) /\ InStep(a, b)
    BY <1>1, <1>2, SteppingIs DEF Kept1
  <1>4. a = 0 /\ b = 0 /\ Len(events) = 1 /\ events' = <<>>
    <2>1. Len(events) \in Nat /\ Len(events) > 0 /\ Len(Tail(events)) = Len(events) - 1
          /\ Tail(events) \in Seq([ok : BOOLEAN])
      BY <1>1, SeqTypes DEF DumpTypes
    <2>2. a + b + Len(events) = 1
      BY <1>1, <1>3 DEF InStep
    <2>3. a = 0 /\ b = 0 /\ Len(events) = 1
      BY <2>1, <2>2
    <2> QED
      BY <1>1, <2>1, <2>3, SeqTypes
  <1>5. /\ Out(work.out, 0) /\ In(work.in, 0)
        /\ stick.phase \in {"cbw", "in", "csw"} /\ (stick.phase = "csw" => stick.cmd.op = "read")
    BY <1>1, <1>3, <1>4 DEF Left, Slot
  <1>6. Copied
    BY SteppingIs
  <1>7. CASE stickSlot' = work /\ bot' = D!Idle /\ UNCHANGED <<work, ring>>
    <2>1. Copied' /\ Left(0, 0)'
      BY <1>1, <1>5, <1>7 DEF Copied, Left, Slot, In, Out
    <2>2. CASE res' = "failed"
      BY <1>1, <2>1, <2>2 DEF Kept1
    <2>3. CASE bot.stage = "csw"
      <3>1. stick.phase = "cbw"
        BY <1>1, <1>3, <1>4, <2>3 DEF InStep
      <3>2. InStep(0, 0)'
        BY <1>1, <1>4, <1>7, <3>1 DEF InStep
      <3> QED
        BY <2>1, <3>2 DEF Kept1
    <2> QED
      BY <1>7, <2>2, <2>3, AnswerIs DEF D!Idle, D!None
  <1>8. CASE /\ bot.stage = "cbw"
             /\ bot' = [op |-> bot.op, block |-> bot.block, stage |-> "data"]
             /\ stickSlot' = stickSlot
             /\ ring' = [ring EXCEPT !["in"] = Put(ring["in"], work.in, "data", 0, 0)]
             /\ work' = [in |-> Advance(work.in), out |-> work.out, tag |-> work.tag]
    <2>1. stick.phase = "in"
      BY <1>1, <1>3, <1>4, <1>8 DEF InStep
    <2>2. /\ Ringed(ring'["in"], Advance(work.in), hc'["in"], 1)
          /\ InAt(1)' = "data" /\ ring'["out"] = ring["out"]
      BY <1>1, <1>5, <1>8, PutFirstIn
    <2>3. bot' # D!Idle /\ bot'.stage = "data"
      BY <1>8 DEF D!Idle, D!None
    <2>4. Copied'
      BY <1>1, <1>6, <1>8, <2>2, <2>3 DEF Copied, Again
    <2>5. Left(0, 1)'
      BY <1>1, <1>5, <1>8, <2>1, <2>2, <2>3 DEF Left, Slot, In, Out
    <2>6. InStep(0, 1)'
      BY <1>1, <1>4, <2>1, <2>3 DEF InStep
    <2> QED
      BY <2>4, <2>5, <2>6 DEF Kept1
  <1>9. CASE /\ bot.stage = "data"
             /\ bot' = [op |-> bot.op, block |-> bot.block, stage |-> "csw"]
             /\ stickSlot' = stickSlot
             /\ ring' = [ring EXCEPT !["in"] = Put(ring["in"], work.in, "csw", 0, 0)]
             /\ work' = [in |-> Advance(work.in), out |-> work.out, tag |-> work.tag]
    <2>1. stick.phase = "csw"
      BY <1>1, <1>3, <1>4, <1>9 DEF InStep
    <2>2. /\ Ringed(ring'["in"], Advance(work.in), hc'["in"], 1)
          /\ InAt(1)' = "csw" /\ ring'["out"] = ring["out"]
      BY <1>1, <1>5, <1>9, PutFirstIn
    <2>3. bot' # D!Idle /\ bot'.stage = "csw"
      BY <1>9 DEF D!Idle, D!None
    <2>4. Copied'
      BY <1>1, <1>6, <1>9, <2>2, <2>3 DEF Copied, Again
    <2>5. Left(0, 1)'
      BY <1>1, <1>5, <1>9, <2>1, <2>2, <2>3 DEF Left, Slot, In, Out
    <2>6. InStep(0, 1)'
      BY <1>1, <1>4, <2>1, <2>3 DEF InStep
    <2> QED
      BY <2>4, <2>5, <2>6 DEF Kept1
  <1> QED
    BY <1>2, <1>7, <1>8, <1>9, AnswerIs

\* What is left on the rings is taken by the stick as it is meant.
LEMMA LeftOut ==
    ASSUME DumpTypes, MSC_CBW.op = "read", D!StickOut, NEW a \in 0 .. 1, NEW b \in 0 .. 1, Left(a, b)
    PROVE  /\ a = 1 /\ b = 0 /\ stick.phase = "cbw" /\ Left(0, 0)' /\ stick'.phase = "in"
           /\ stick'.cmd = MSC_CBW
           /\ events' = Append(events, [ok |-> TRUE]) /\ Len(events') = Len(events) + 1
  <1>1. /\ UNCHANGED <<stickSlot, work, bot, MSC_CBW>>
        /\ Ringed(ring["out"], Slot.out, hc["out"], a) /\ Ringed(ring["in"], Slot.in, hc["in"], b)
    BY StickOutIs DEF Left, In, Out
  <1>2. /\ a > 0 /\ Entry(ring["out"], hc["out"]).what = OutAt(1)
        /\ Ringed(ring'["out"], Slot.out, hc'["out"], a - 1)
        /\ ring' = ring /\ hc'["in"] = hc["in"]
    BY <1>1, OutTaken
  <1>3. a = 1 /\ a - 1 = 0
    BY <1>2
  <1>4. b = 0 /\ stick.phase = "cbw" /\ OutAt(1) = "cbw"
    BY <1>3 DEF Left
  <1>5. /\ stick'.phase = "in" /\ stick'.cmd = MSC_CBW
        /\ events' = Append(events, [ok |-> TRUE])
    BY <1>2, <1>4, StickOutIs
  <1>6. Len(events') = Len(events) + 1
    <2>1. [ok |-> TRUE] \in [ok : BOOLEAN]
      OBVIOUS
    <2> QED
      BY <1>5, <2>1, SeqTypes DEF DumpTypes
  <1>7. Slot' = Slot
    BY <1>1 DEF Slot
  <1>8. Left(0, 0)'
    BY <1>1, <1>2, <1>3, <1>4, <1>5, <1>7 DEF Left, In, Out
  <1> QED
    BY <1>3, <1>4, <1>5, <1>6, <1>8

LEMMA LeftIn ==
    ASSUME DumpTypes, WritesOwn, D!StickIn, NEW a \in 0 .. 1, NEW b \in 0 .. 1, Left(a, b)
    PROVE  /\ a = 0 /\ b = 1 /\ Left(0, 0)'
           /\ \/ stick.phase = "in" /\ stick'.phase = "csw"
              \/ stick.phase = "csw" /\ stick'.phase = "cbw"
           /\ Len(events') = Len(events) + 1 /\ stick'.cmd = stick.cmd
  <1>1. /\ UNCHANGED <<stickSlot, work, bot, MSC_CBW>>
        /\ Ringed(ring["out"], Slot.out, hc["out"], a) /\ Ringed(ring["in"], Slot.in, hc["in"], b)
    BY StickInIs DEF Left, In, Out
  <1>2. /\ b > 0 /\ Entry(ring["in"], hc["in"]).what = InAt(1)
        /\ Ringed(ring'["in"], Slot.in, hc'["in"], b - 1)
        /\ ring' = ring /\ hc'["out"] = hc["out"]
    BY <1>1, InTaken
  <1>3. b = 1 /\ b - 1 = 0
    BY <1>2
  <1>4. /\ a = 0
        /\ \/ stick.phase = "in" /\ InAt(1) = "data" /\ stick.cmd.op = "read"
           \/ stick.phase = "csw" /\ InAt(1) = "csw" /\ stick.cmd.op = "read"
    BY <1>3 DEF Left, WritesOwn
  <1>5. stick'.cmd = stick.cmd
    BY StickInIs
  <1>6. \/ stick.phase = "in" /\ stick'.phase = "csw"
        \/ stick.phase = "csw" /\ stick'.phase = "cbw"
    BY <1>2, <1>4, StickInIs
  <1>7. Len(events') = Len(events) + 1
    <2>1. PICK ok \in BOOLEAN : events' = Append(events, [ok |-> ok])
      BY StickInIs
    <2>2. [ok |-> ok] \in [ok : BOOLEAN]
      OBVIOUS
    <2> QED
      BY <2>1, <2>2, SeqTypes DEF DumpTypes
  <1>8. Slot' = Slot
    BY <1>1 DEF Slot
  <1>9. Left(0, 0)'
    BY <1>1, <1>2, <1>3, <1>4, <1>5, <1>6, <1>8 DEF Left, In, Out
  <1> QED
    BY <1>3, <1>4, <1>5, <1>6, <1>7, <1>9

LEMMA OutSteps ==
    ASSUME DumpTypes, WritesOwn, Stepping, D!StickOut PROVE Stepping'
  <1>1. UNCHANGED <<dumpPc, file, armed, stickSlot, work, bot, res, MSC_CBW, ring>>
    BY StickOutIs
  <1> SUFFICES ASSUME Tracked PROVE Copied' /\ \E a, b \in 0 .. 1 : Kept1(a, b)'
    BY <1>1, SteppingIs DEF Stepping, Tracked, Copied, Kept1
  <1>2. Copied' /\ MSC_CBW.op = "read"
    BY <1>1, SteppingIs DEF Copied, Again, Tracked, WritesOwn
  <1>3. PICK a \in 0 .. 1, b \in 0 .. 1 : Kept1(a, b)
    BY SteppingIs
  <1>4. /\ a = 1 /\ b = 0 /\ stick.phase = "cbw" /\ Left(0, 0)' /\ stick'.phase = "in"
        /\ Len(events') = Len(events) + 1
    BY <1>2, <1>3, LeftOut DEF Kept1
  <1>5. InStep(1, 0) => InStep(0, 0)'
    <2>1. Len(events) \in Nat
      BY DEF DumpTypes
    <2> SUFFICES ASSUME InStep(1, 0) PROVE InStep(0, 0)'
      OBVIOUS
    <2>2. bot # D!Idle /\ bot.stage = "cbw" /\ 1 + 0 + Len(events) = 1
      BY DEF InStep
    <2>3. 0 + 0 + Len(events') = 1
      BY <1>4, <2>1, <2>2
    <2> QED
      BY <1>1, <1>4, <2>2, <2>3 DEF InStep
  <1> QED
    BY <1>1, <1>2, <1>3, <1>4, <1>5 DEF Kept1

LEMMA InSteps ==
    ASSUME DumpTypes, WritesOwn, Stepping, D!StickIn PROVE Stepping'
  <1>1. UNCHANGED <<dumpPc, file, armed, stickSlot, work, bot, res, MSC_CBW, ring>>
    BY StickInIs
  <1> SUFFICES ASSUME Tracked PROVE Copied' /\ \E a, b \in 0 .. 1 : Kept1(a, b)'
    BY <1>1, SteppingIs DEF Stepping, Tracked, Copied, Kept1
  <1>2. Copied'
    BY <1>1, SteppingIs DEF Copied, Again
  <1>3. PICK a \in 0 .. 1, b \in 0 .. 1 : Kept1(a, b)
    BY SteppingIs
  <1>4. /\ a = 0 /\ b = 1 /\ Left(0, 0)'
        /\ \/ stick.phase = "in" /\ stick'.phase = "csw"
           \/ stick.phase = "csw" /\ stick'.phase = "cbw"
        /\ Len(events') = Len(events) + 1
    BY <1>3, LeftIn DEF Kept1
  <1>5. InStep(0, 1) => InStep(0, 0)'
    <2>1. Len(events) \in Nat
      BY DEF DumpTypes
    <2> SUFFICES ASSUME InStep(0, 1) PROVE InStep(0, 0)'
      OBVIOUS
    <2>2. bot # D!Idle /\ bot.stage # "cbw" /\ 0 + 1 + Len(events) = 1
      BY DEF InStep
    <2>3. 0 + 0 + Len(events') = 1
      BY <1>4, <2>1, <2>2
    <2>4. bot.stage \in {"data", "csw"}
      BY <2>2 DEF DumpTypes
    <2>5. \/ bot.stage = "data" /\ stick'.phase = "csw"
          \/ bot.stage = "csw" /\ stick'.phase = "cbw"
      BY <1>4, <2>2, <2>4 DEF InStep
    <2> QED
      BY <1>1, <2>2, <2>3, <2>5 DEF InStep
  <1> QED
    BY <1>1, <1>2, <1>3, <1>4, <1>5 DEF Kept1

LEMMA StepStep ==
    ASSUME DumpTypes, WritesOwn, Tagged, Stepping, [MCNext]_all PROVE Stepping'
  <1>1. ASSUME UNCHANGED <<bot, events, stick, ring, hc, stickSlot, work>>, bot = D!Idle
        PROVE  /\ Copied' /\ \A a, b : Left(a, b) => Left(a, b)'
               /\ \A a, b : InStep(a, b) => InStep(a, b)'
    BY <1>1 DEF Copied, Left, InStep, In, Out, InAt, OutAt, Slot
  <1>2. CASE UNCHANGED dumpVars
    <2>1. UNCHANGED <<dumpPc, file, armed, bot, res, events, stick, ring, hc, stickSlot, work>>
      BY <1>2 DEF dumpVars
    <2>2. Copied => Copied'
      BY <2>1 DEF Copied, Again
    <2>3. ASSUME NEW a, NEW b PROVE Kept1(a, b) => Kept1(a, b)'
      BY <2>1 DEF Kept1, Left, InStep, In, Out, InAt, OutAt, Slot
    <2>4. Tracked' = Tracked
      BY <2>1 DEF Tracked
    <2> QED
      BY <2>1, <2>2, <2>3, <2>4, SteppingIs DEF Stepping, Tracked, Copied, Kept1
  <1>3. CASE D!Answer
    BY <1>3, AnswerSteps
  <1>4. CASE D!GiveUp
    <2>1. /\ UNCHANGED <<dumpPc, file, armed, hc, stick, work, ring>> /\ bot # D!Idle
          /\ stickSlot' = work /\ bot' = D!Idle /\ res' = "failed"
      BY <1>4, GiveUpIs
    <2>2. ASSUME NEW a, NEW b, Left(a, b) PROVE Left(a, b)'
      BY <2>1, <2>2 DEF Left, In, Out, InAt, OutAt, Slot
    <2> QED
      BY <2>1, <2>2 DEF Stepping
  <1>5. CASE D!Walk
    <2>1. CASE D!Begin("read", 0) /\ dumpPc' = "resolve"
      <3>1. Tracked /\ dumpPc = "resolve" /\ UNCHANGED <<stick, MSC_CSW, stickSlot, hc, res, events, armed>>
        BY <1>5, WalkIs DEF Tracked
      <3>2. Copied' /\ Left(1, 0)' /\ InStep(1, 0)'
        BY <2>1, <3>1, BeginSteps
      <3> QED
        BY <2>1, <3>1, <3>2 DEF Stepping, Copied
    <2>2. CASE file' = <<>> /\ dumpPc' = "load"
      BY <1>5, <2>2, WalkIs DEF Stepping
    <2>3. CASE /\ UNCHANGED <<walked, work, bot, MSC_CBW, ring>> /\ dumpPc' = "load"
      <3>1. /\ UNCHANGED <<bot, events, stick, ring, hc, stickSlot, work, armed, res>>
            /\ bot = D!Idle /\ res = "none" /\ dumpPc = "resolve"
        BY <1>5, <2>3, WalkIs
      <3> QED
        BY <1>1, <2>3, <3>1 DEF Stepping, Copied
    <2> QED
      BY <1>5, <2>1, <2>2, <2>3, WalkIs
  <1>6. CASE D!Walked
    <2>1. /\ UNCHANGED <<bot, events, stick, ring, hc, stickSlot, work, armed>>
          /\ bot = D!Idle /\ dumpPc = "resolve" /\ res' = "none"
      BY <1>6, WalkedIs
    <2>2. CASE res = "ok" /\ dumpPc' = dumpPc
      BY <1>1, <2>1, <2>2 DEF Stepping, Copied
    <2>3. CASE file' = <<>> /\ dumpPc' = "load"
      BY <2>1, <2>3 DEF Stepping
    <2> QED
      BY <1>6, <2>2, <2>3, WalkedIs
  <1>7. CASE D!BlockRead \/ D!Loaded
    <2>1. /\ UNCHANGED <<bot, events, stick, ring, hc, stickSlot, work, armed, file>>
          /\ bot = D!Idle /\ dumpPc = "load" /\ res' = "none"
          /\ dumpPc' = "loop" \/ (dumpPc' = "load" /\ res = "ok")
      BY <1>7, LoadIs
    <2> QED
      BY <1>1, <2>1 DEF Stepping, Copied
  <1>8. CASE D!WriteBlock \/ D!BlockWritten \/ D!Panic
    BY <1>8, WriteBlockIs, BlockWrittenIs, PanicIs DEF Stepping
  <1>9. CASE D!Poll \/ D!HidReport
    <2>1. /\ UNCHANGED <<dumpPc, file, stickSlot, work, bot, res, ring, hc, stick>>
          /\ dumpPc = "loop" \/ armed > 0
      BY <1>9, InputIs
    <2>2. dumpPc \notin {"resolve", "load"}
      BY <2>1 DEF Stepping
    <2>3. ASSUME NEW a, NEW b, Left(a, b) PROVE Left(a, b)'
      BY <2>1, <2>3 DEF Left, In, Out, InAt, OutAt, Slot
    <2>4. dumpPc = "loop" => bot = D!Idle
      BY DEF WritesOwn
    <2> QED
      BY <2>1, <2>2, <2>3, <2>4 DEF Stepping
  <1>10. CASE D!StickOut
    BY <1>10, OutSteps
  <1>11. CASE D!StickIn
    BY <1>11, InSteps
  <1>12. ASSUME NEW c \in Clusters, D!ReadBlock(c) PROVE Stepping'
    <2>1. /\ UNCHANGED <<dumpPc, stick, MSC_CSW, stickSlot, hc, res, events, armed, file>>
          /\ dumpPc = "load" /\ D!Begin("read", c)
      BY <1>12, ReadBlockIs
    <2>2. CASE file = <<>>
      BY <2>1, <2>2 DEF Stepping
    <2>3. CASE file # <<>>
      <3>1. Tracked
        BY <2>1, <2>3 DEF Tracked
      <3>2. Copied' /\ Left(1, 0)' /\ InStep(1, 0)'
        BY <2>1, <3>1, BeginSteps
      <3> QED
        BY <2>1, <3>2 DEF Stepping, Copied
    <2> QED
      BY <2>2, <2>3
  <1> QED
    BY <1>2, <1>3, <1>4, <1>5, <1>6, <1>7, <1>8, <1>9, <1>10, <1>11, <1>12, DumpSteps
-----------------------------------------------------------------------------
(* The dump.                                                               *)

LEMMA DumpInit == ASSUME D!Init PROVE Dumping /\ Dumped
  BY DEF D!Init, Dumping, Dumped, D!None

LEMMA StagePuts ==
    /\ OutPuts \in 1 .. 2 /\ InPuts \in 0 .. 1 /\ Needed \in 1 .. 3
    /\ bot.stage = "cbw" => OutPuts = 1 /\ InPuts = 0
    /\ bot.stage = "data" => OutPuts = 2 /\ InPuts = 0
    /\ bot.stage = "csw" => OutPuts = 2 /\ InPuts = 1
  BY DEF OutPuts, InPuts, Needed

\* The fault finds the stick as a read has left it, or cuts one short.
LEMMA PanicWaits ==
    ASSUME DumpTypes, WritesOwn, Tagged, Stepping, Dumping, D!Panic, file # <<>>
    PROVE  Waiting'
  <1>1. /\ UNCHANGED <<file, stickSlot, work, MSC_CBW, ring, hc, stick, events, armed, written>>
        /\ dumpPc \in {"load", "loop"} /\ bot' = D!Idle /\ res' = "none" /\ written = 0
    BY PanicIs DEF Dumping
  <1>2. Tracked /\ MSC_CBW.op = "read" /\ MSC_CBW.tag = work.tag
    BY <1>1 DEF Tracked, WritesOwn, Tagged
  <1>3. PICK a \in 0 .. 1, b \in 0 .. 1 : Kept1(a, b)
    BY <1>2, SteppingIs
  <1>4. CASE bot = D!Idle
    <2>1. work = stickSlot
      BY <1>1, <1>4 DEF Tagged
    <2>2. Left(a, b)'
      BY <1>1, <1>3, <1>4 DEF Kept1, Left, In, Out, InAt, OutAt, Slot
    <2>3. MSC_CBW'.tag <= stickSlot'.tag
      BY <1>1, <1>2, <2>1, TagTypes
    <2> QED
      BY <1>1, <1>2, <2>2, <2>3 DEF Waiting, Fresh
  <1>5. CASE bot # D!Idle
    <2>1. dumpPc = "load" /\ res = "none" /\ armed = 0
      BY <1>1, <1>5 DEF WritesOwn, DumpTypes, Stepping
    <2>2. /\ Again /\ work.out = Advance(stickSlot.out)
          /\ bot.stage = "cbw" => work.in = stickSlot.in
      BY <1>2, <1>5, SteppingIs DEF Copied
    <2>3. Left(a, b) /\ InStep(a, b) /\ Again'
      BY <1>1, <1>3, <2>1, <2>2 DEF Kept1, Again
    <2>4. /\ Ringed(ring["out"], work.out, hc["out"], a) /\ Ringed(ring["in"], work.in, hc["in"], b)
          /\ a = 1 => stick.phase = "cbw" /\ b = 0 /\ OutAt(1) = "cbw"
          /\ stick.phase # "out" /\ work.in \in Cursor
      BY <1>5, <2>3 DEF Left, Slot, In, Out, Ringed
    <2>5. /\ a + b + Len(events) = 1 /\ Len(events) \in Nat
          /\ a = 1 => bot.stage = "cbw" /\ stick.cmd.tag # work.tag
      BY <1>5, <2>3 DEF InStep, DumpTypes
    <2>6. CASE a = 1
      <3>1. b = 0 /\ Len(events) = 0
        BY <2>4, <2>5, <2>6
      <3>2. events = <<>>
        BY <3>1 DEF DumpTypes
      <3>3. stick.cmd.tag <= stickSlot.tag
        <4>1. stick.cmd.tag <= work.tag /\ work.tag <= stickSlot.tag + 1 /\ stick.cmd.tag # work.tag
          BY <1>2, <2>5, <2>6 DEF Tagged
        <4> QED
          BY <4>1, TagTypes
      <3>4. OutAt(1)' = OutAt(1)
        BY <1>1 DEF OutAt
      <3>5. Back'
        BY <1>1, <1>2, <2>1, <2>2, <2>3, <2>4, <2>5, <2>6, <3>1, <3>2, <3>3, <3>4
           DEF Back, In, Out
      <3> QED
        BY <1>1, <3>5 DEF Waiting
    <2>7. CASE a = 0
      <3>1. b + Len(events) <= 1
        BY <2>5, <2>7
      <3>2. OneMore'
        BY <1>1, <2>4, <3>1 DEF OneMore, In
      <3>3. Gone'
        BY <1>1, <2>1, <2>2, <2>3, <2>4, <2>7, <3>2 DEF Gone, Out
      <3> QED
        BY <1>1, <3>3 DEF Waiting
    <2> QED
      BY <2>6, <2>7
  <1> QED
    BY <1>4, <1>5

\* A write begins.
LEMMA BeginWrites ==
    ASSUME DumpTypes, Tagged, Waiting, NEW block, D!Begin("write", block),
           MSC_DATA' = D!Dump(written + 1),
           UNCHANGED <<stick, MSC_CSW, stickSlot, hc, events, armed, written>>
    PROVE  Course' /\ stick.phase # "out"
  <1>1. /\ bot = D!Idle /\ bot' # D!Idle /\ bot'.stage = "cbw"
        /\ work'.in = stickSlot.in /\ work'.out = Advance(stickSlot.out)
        /\ work'.tag = stickSlot.tag + 1
        /\ ring' = [ring EXCEPT !["out"] = Put(ring["out"], stickSlot.out, "cbw", 0, 0)]
    BY BeginIs
  <1>2. OutPuts' = 1 /\ InPuts' = 0
    BY <1>1 DEF OutPuts, InPuts
  <1>3. ring'["in"] = ring["in"]
    BY <1>1 DEF DumpTypes
  <1>4. \A k : InAt(k)' = InAt(k)
    BY <1>3 DEF InAt
  <1>5. ASSUME stick.cmd.tag <= stickSlot.tag
        PROVE  stick.cmd.tag # work'.tag /\ MSC_CSW.tag # work'.tag
    <2>1. MSC_CSW.tag <= stick.cmd.tag
      BY DEF Tagged
    <2> QED
      BY <1>1, <1>5, <2>1, TagTypes
  <1>6. CASE Fresh
    <2>1. PICK a \in 0 .. 1, b \in 0 .. 1 : Left(a, b)
      BY <1>6 DEF Fresh
    <2>2. stick.cmd.tag # work'.tag /\ MSC_CSW.tag # work'.tag
      <3>1. stick.cmd.tag <= MSC_CBW.tag /\ MSC_CBW.tag <= stickSlot.tag
        BY <1>6 DEF Tagged, Fresh
      <3> QED
        BY <1>5, <3>1, TagTypes
    <2>3. Out(stickSlot.out, a) /\ In(stickSlot.in, b) /\ stick.phase \in {"cbw", "in", "csw"}
      BY <1>1, <2>1 DEF Left, Slot
    <2>4. In(work.in, b)'
      BY <1>1, <1>3, <2>3 DEF In
    <2>5. CASE stick.phase = "in"
      <3>1. ShortIn(b)'
        <4>1. Needed' = 3
          BY <2>5 DEF Needed
        <4>2. b + (1 - 0) < 3
          OBVIOUS
        <4> QED
          BY <1>2, <2>2, <2>4, <4>1, <4>2 DEF ShortIn
      <3> QED
        BY <2>5, <3>1 DEF Course
    <2>6. CASE stick.phase = "csw"
      <3>1. stick.cmd.op = "read" /\ a = 0 /\ (b = 1 => InAt(1) = "csw")
        BY <2>1, <2>6 DEF Left
      <3>2. CASE b = 0
        <4>1. Needed' = 2
          BY <2>6, <3>1 DEF Needed
        <4>2. ShortIn(b)'
          BY <1>2, <2>2, <2>4, <3>2, <4>1 DEF ShortIn
        <4> QED
          BY <2>6, <4>2 DEF Course
      <3>3. CASE b = 1
        <4>1. /\ Ringed(ring'["out"], Advance(stickSlot.out), hc'["out"], 1) /\ OutAt(1)' = "cbw"
          BY <1>1, <2>3, <3>1, PutFirstOut
        <4>2. \A k \in 1 .. 1 : InAt(k)' = "csw"
          BY <1>4, <3>1, <3>3
        <4>3. Writes(1, 1)'
          BY <1>1, <1>2, <2>2, <2>4, <2>6, <3>1, <3>3, <4>1, <4>2 DEF Writes, Out
        <4> QED
          BY <2>6, <4>3 DEF Course
      <3> QED
        BY <3>2, <3>3
    <2>7. CASE stick.phase = "cbw"
      <3>1. b = 0 /\ (a = 1 => OutAt(1) = "cbw")
        BY <2>1, <2>7 DEF Left
      <3>2. CASE a = 0
        <4>1. /\ Ringed(ring'["out"], Advance(stickSlot.out), hc'["out"], 1) /\ OutAt(1)' = "cbw"
          BY <1>1, <2>3, <3>2, PutFirstOut
        <4>2. Writes(1, 0)'
          BY <1>1, <1>2, <2>2, <2>4, <2>7, <3>1, <4>1 DEF Writes, Out
        <4> QED
          BY <2>7, <4>2 DEF Course
      <3>3. CASE a = 1
        <4>1. Out(stickSlot.out, 1) /\ 1 <= 2 /\ 1 + 1 = 2 /\ 1 \in 1 .. 1
          BY <2>3, <3>3
        <4>2. /\ Ringed(ring'["out"], Advance(stickSlot.out), hc'["out"], 1 + 1)
              /\ OutAt(1 + 1)' = "cbw" /\ \A k \in 1 .. 1 : OutAt(k)' = OutAt(k)
          BY <1>1, <4>1, PutOut
        <4>4. /\ Ringed(ring'["out"], Advance(stickSlot.out), hc'["out"], 2)
              /\ OutAt(2)' = "cbw" /\ OutAt(1)' = OutAt(1)
          BY <4>1, <4>2
        <4>3. Stalls(2)'
          BY <1>1, <1>2, <2>2, <2>7, <3>1, <3>3, <4>4 DEF Stalls, Out
        <4> QED
          BY <2>7, <4>3 DEF Course
      <3> QED
        BY <3>2, <3>3
    <2> QED
      BY <2>3, <2>5, <2>6, <2>7
  <1>7. CASE Back
    <2>1. ring'["out"] = ring["out"]
      BY <1>1, <1>7 DEF Back, Again, DumpTypes
    <2>2. stick.cmd.tag # work'.tag /\ MSC_CSW.tag # work'.tag
      BY <1>5, <1>7 DEF Back
    <2>3. Out(work.out, 1)' /\ In(work.in, 0)' /\ OutAt(1)' = "cbw"
      BY <1>1, <1>3, <1>7, <2>1 DEF Back, In, Out, OutAt
    <2>4. stick.phase = "cbw"
      BY <1>7 DEF Back
    <2>5. Writes(1, 0)'
      BY <1>2, <2>2, <2>3, <2>4 DEF Writes
    <2> QED
      BY <2>4, <2>5 DEF Course
  <1>8. CASE Gone
    <2>1. ring'["out"] = ring["out"]
      BY <1>1, <1>8 DEF Gone, Again, DumpTypes
    <2>2. Out(work.out, 0)'
      BY <1>1, <1>8, <2>1 DEF Gone, Out
    <2>3. OneMore'
      BY <1>3, <1>8 DEF Gone, OneMore, In
    <2>4. Starved' /\ stick.phase # "out"
      BY <1>1, <1>8, <2>2, <2>3 DEF Gone, Starved
    <2> QED
      BY <2>4 DEF Course
  <1> QED
    BY <1>6, <1>7, <1>8 DEF Waiting

\* A write goes from stage to stage, and ends well only by its own status.
LEMMA AnswerWrites ==
    ASSUME DumpTypes, WritesOwn, Tagged, dumpPc = "panic", Course, D!Answer
    PROVE  \/ res' = "failed" /\ bot' = D!Idle
           \/ bot' # D!Idle /\ bot'.block = bot.block /\ res' = res /\ Course'
           \/ /\ bot' = D!Idle /\ res' = "ok" /\ Fresh'
              /\ disk[bot.block] = D!Dump(written + 1)
  <1>1. /\ UNCHANGED <<disk, dumpPc, MSC_CBW, MSC_DATA, MSC_CSW, hc, halted, stick, armed, written>>
        /\ bot # D!Idle /\ events # <<>> /\ events' = Tail(events)
    BY AnswerIs
  <1>2. bot.op = "write" /\ MSC_CBW.tag = work.tag
    BY <1>1 DEF WritesOwn, Tagged
  <1>3. Needed' = Needed
    BY <1>1 DEF Needed
  <1>4. CASE res' = "failed" /\ bot' = D!Idle
    BY <1>4
  <1>5. CASE /\ bot.stage = "csw" /\ MSC_CSW.tag = work.tag /\ MSC_CSW.good
             /\ stickSlot' = work /\ bot' = D!Idle /\ UNCHANGED <<work, ring>> /\ res' = "ok"
    <2>1. PICK a \in 0 .. 2, b \in 0 .. 2 : Writes(a, b)
      BY <1>5 DEF Course, ShortIn, Stalls, Starved
    <2>2. /\ stick.phase = "cbw" /\ a = 0 /\ b = 0 /\ disk[bot.block] = D!Dump(written + 1)
          /\ Out(work.out, 0) /\ In(work.in, 0)
      BY <1>5, <2>1 DEF Writes
    <2>3. Left(0, 0)'
      BY <1>1, <1>5, <2>2 DEF Left, Slot, In, Out
    <2>4. MSC_CBW'.tag <= stickSlot'.tag
      BY <1>1, <1>2, <1>5, TagTypes
    <2> QED
      BY <1>1, <1>5, <2>2, <2>3, <2>4 DEF Fresh
  <1>6. CASE /\ bot.stage = "cbw"
             /\ bot' = [op |-> bot.op, block |-> bot.block, stage |-> "data"] /\ res' = res
             /\ ring' = [ring EXCEPT !["out"] = Put(ring["out"], work.out, "data", 0, 0)]
             /\ work' = [in |-> work.in, out |-> Advance(work.out), tag |-> work.tag]
    <2>1. bot' # D!Idle /\ bot'.block = bot.block /\ bot'.stage = "data"
      BY <1>6 DEF D!Idle, D!None
    <2>2. OutPuts = 1 /\ InPuts = 0 /\ OutPuts' = 2 /\ InPuts' = 0
      BY <1>6, <2>1 DEF OutPuts, InPuts
    <2>3. ring'["in"] = ring["in"]
      BY <1>6 DEF DumpTypes
    <2>4. (\A k : InAt(k)' = InAt(k)) /\ \A n : In(work.in, n) => In(work.in, n)'
      BY <1>1, <1>6, <2>3 DEF InAt, In
    <2>5. ASSUME NEW n, Out(work.out, n), n <= 2
          PROVE  /\ Out(work.out, n + 1)' /\ OutAt(n + 1)' = "data"
                 /\ \A k \in 1 .. n : OutAt(k)' = OutAt(k)
      <3>1. /\ Ringed(ring'["out"], Advance(work.out), hc'["out"], n + 1) /\ OutAt(n + 1)' = "data"
            /\ \A k \in 1 .. n : OutAt(k)' = OutAt(k)
        BY <1>1, <1>6, <2>5, PutOut
      <3>2. work'.out = Advance(work.out)
        BY <1>6
      <3> QED
        BY <3>1, <3>2 DEF Out
    <2>6. CASE \E a, b \in 0 .. 2 : Writes(a, b)
      <3>1. PICK a \in 0 .. 2, b \in 0 .. 2 : Writes(a, b)
        BY <2>6
      <3>2. /\ Out(work.out, a) /\ In(work.in, b) /\ MSC_DATA = D!Dump(written + 1)
            /\ a = 1 => OutAt(1) = "cbw"
            /\ \A k \in 1 .. b : InAt(k) = "csw"
            /\ MSC_CSW.tag # work.tag
            /\ \/ /\ stick.phase = "csw" /\ stick.cmd.op = "read" /\ stick.cmd.tag # work.tag
                  /\ a = 1 /\ b = 1
               \/ stick.phase = "cbw" /\ a = 1 /\ b = 0
               \/ stick.phase = "out" /\ a = 0 /\ b = 0
        BY <2>2, <3>1 DEF Writes
      <3>3. Out(work.out, a + 1)' /\ OutAt(a + 1)' = "data" /\ \A k \in 1 .. a : OutAt(k)' = OutAt(k)
        BY <2>5, <3>2
      <3>4. In(work.in, b)' /\ \A k \in 1 .. b : InAt(k)' = "csw"
        BY <2>4, <3>2
      <3>5. CASE a = 1
        <4>1. Out(work.out, 2)' /\ OutAt(2)' = "data" /\ OutAt(1)' = "cbw"
          <5>1. 1 + 1 = 2 /\ 1 \in 1 .. 1
            OBVIOUS
          <5> QED
            BY <3>2, <3>3, <3>5, <5>1
        <4>2. Writes(2, b)'
          BY <1>1, <1>6, <2>2, <3>2, <3>4, <3>5, <4>1 DEF Writes
        <4> QED
          BY <1>6, <2>1, <4>2 DEF Course
      <3>6. CASE a = 0
        <4>1. Out(work.out, 1)' /\ OutAt(1)' = "data"
          <5>1. 0 + 1 = 1
            OBVIOUS
          <5> QED
            BY <3>3, <3>6, <5>1
        <4>2. Writes(1, b)'
          BY <1>1, <1>6, <2>2, <3>2, <3>4, <3>6, <4>1 DEF Writes
        <4> QED
          BY <1>6, <2>1, <4>2 DEF Course
      <3> QED
        BY <3>2, <3>5, <3>6
    <2>7. CASE \E b \in 0 .. 2 : ShortIn(b)
      <3>1. PICK b \in 0 .. 2 : ShortIn(b)
        BY <2>7
      <3>2. ShortIn(b)'
        BY <1>1, <1>3, <1>6, <2>2, <2>4, <3>1 DEF ShortIn
      <3> QED
        BY <1>6, <2>1, <3>2 DEF Course
    <2>8. CASE \E a \in 0 .. 3 : Stalls(a)
      <3>1. PICK a \in 0 .. 3 : Stalls(a)
        BY <2>8
      <3>2. CASE stick.phase = "out" /\ "out" \in halted
        <4>1. Stalls(0)'
          BY <1>1, <1>6, <3>1, <3>2 DEF Stalls
        <4> QED
          BY <1>6, <2>1, <4>1 DEF Course
      <3>3. CASE ~(stick.phase = "out" /\ "out" \in halted)
        <4>1. /\ MSC_CSW.tag # work.tag /\ stick.phase \in {"cbw", "out"} /\ Out(work.out, a)
              /\ a + (2 - 1) <= 3 /\ a > 0 /\ OutAt(1) = "cbw"
              /\ stick.phase = "cbw" => a > 1 /\ OutAt(2) = "cbw"
          BY <2>2, <3>1, <3>3 DEF Stalls
        <4>2. /\ a <= 2 /\ a + 1 \in 0 .. 3 /\ a + 1 + (2 - 2) <= 3 /\ 1 \in 1 .. a
              /\ a > 1 => 2 \in 1 .. a
              /\ a + 1 > 1 /\ a + 1 > 0
          BY <4>1
        <4>3. /\ Out(work.out, a + 1)' /\ OutAt(1)' = OutAt(1)
              /\ a > 1 => OutAt(2)' = OutAt(2)
          BY <2>5, <4>1, <4>2
        <4>4. Stalls(a + 1)'
          BY <1>1, <1>6, <2>2, <4>1, <4>2, <4>3 DEF Stalls
        <4> QED
          BY <1>6, <2>1, <4>2, <4>4 DEF Course
      <3> QED
        BY <3>2, <3>3
    <2>9. CASE Starved
      <3>1. armed = 0 /\ stick.phase # "out" /\ Out(work.out, 0) /\ OneMore
        BY <1>6, <2>9 DEF Starved
      <3>2. PICK p \in Cursor, b \in 0 .. 1 : In(p, b) /\ b + Len(events) <= 1
        BY <3>1 DEF OneMore
      <3>3. b = 0 /\ events' = <<>>
        <4>1. /\ Tail(events) \in Seq([ok : BOOLEAN]) /\ Len(Tail(events)) = Len(events) - 1
              /\ Len(events) > 0 /\ Len(events) \in Nat
          BY <1>1, SeqTypes DEF DumpTypes
        <4>2. b = 0 /\ Len(Tail(events)) = 0
          BY <3>2, <4>1
        <4>3. Tail(events) = <<>>
          BY <4>1, <4>2, SeqTypes
        <4> QED
          BY <1>1, <4>2, <4>3
      <3>4. In(p, 0)'
        BY <1>1, <2>3, <3>2, <3>3 DEF In
      <3>5. Out(work.out, 1)' /\ OutAt(1)' = "data"
        <4>1. 0 + 1 = 1 /\ 0 <= 2
          OBVIOUS
        <4>2. Out(work.out, 0 + 1)' /\ OutAt(0 + 1)' = "data"
          BY <2>5, <3>1, <4>1
        <4> QED
          BY <4>1, <4>2
      <3>6. Starved'
        BY <1>1, <2>1, <3>1, <3>3, <3>4, <3>5 DEF Starved
      <3> QED
        BY <1>6, <2>1, <3>6 DEF Course
    <2> QED
      BY <2>6, <2>7, <2>8, <2>9 DEF Course
  <1>7. CASE /\ events[1].ok /\ bot.stage = "data"
             /\ bot' = [op |-> bot.op, block |-> bot.block, stage |-> "csw"] /\ res' = res
             /\ ring' = [ring EXCEPT !["in"] = Put(ring["in"], work.in, "csw", 0, 0)]
             /\ work' = [in |-> Advance(work.in), out |-> work.out, tag |-> work.tag]
    <2>1. bot' # D!Idle /\ bot'.block = bot.block /\ bot'.stage = "csw"
      BY <1>7 DEF D!Idle, D!None
    <2>2. OutPuts = 2 /\ InPuts = 0 /\ OutPuts' = 2 /\ InPuts' = 1
      BY <1>7, <2>1 DEF OutPuts, InPuts
    <2>3. ring'["out"] = ring["out"]
      BY <1>7 DEF DumpTypes
    <2>4. (\A k : OutAt(k)' = OutAt(k)) /\ \A n : Out(work.out, n) => Out(work.out, n)'
      BY <1>1, <1>7, <2>3 DEF OutAt, Out
    <2>5. ASSUME NEW n, In(work.in, n), n <= 2
          PROVE  /\ In(work.in, n + 1)' /\ InAt(n + 1)' = "csw"
                 /\ \A k \in 1 .. n : InAt(k)' = InAt(k)
      <3>1. /\ Ringed(ring'["in"], Advance(work.in), hc'["in"], n + 1) /\ InAt(n + 1)' = "csw"
            /\ \A k \in 1 .. n : InAt(k)' = InAt(k)
        BY <1>1, <1>7, <2>5, PutIn
      <3>2. work'.in = Advance(work.in)
        BY <1>7
      <3> QED
        BY <3>1, <3>2 DEF In
    <2>6. CASE \E a, b \in 0 .. 2 : Writes(a, b)
      <3>1. PICK a \in 0 .. 2, b \in 0 .. 2 : Writes(a, b)
        BY <2>6
      <3>2. /\ Out(work.out, a) /\ In(work.in, b) /\ MSC_DATA = D!Dump(written + 1)
            /\ a = 2 => OutAt(1) = "cbw" /\ OutAt(2) = "data"
            /\ a = 1 => OutAt(1) = "data"
            /\ \A k \in 1 .. b : InAt(k) = "csw"
            /\ MSC_CSW.tag # work.tag
            /\ \/ /\ stick.phase = "csw" /\ stick.cmd.op = "read" /\ stick.cmd.tag # work.tag
                  /\ a = 2 /\ b = 1
               \/ stick.phase = "cbw" /\ a = 2 /\ b = 0
               \/ stick.phase = "out" /\ a = 1 /\ b = 0
               \/ /\ stick.phase = "csw" /\ stick.cmd = MSC_CBW /\ a = 0 /\ b = 0
                  /\ stick.good => disk[bot.block] = D!Dump(written + 1)
        BY <2>2, <3>1 DEF Writes
      <3>3. In(work.in, b + 1)' /\ InAt(b + 1)' = "csw" /\ \A k \in 1 .. b : InAt(k)' = InAt(k)
        BY <2>5, <3>2
      <3>4. /\ b + 1 \in 0 .. 2 /\ \A k \in 1 .. b + 1 : k \in 1 .. b \/ k = b + 1
            /\ b = 1 => b + 1 = 1 + 1
            /\ b = 0 => b + 1 = 1
        BY <3>2
      <3>5. \A k \in 1 .. b + 1 : InAt(k)' = "csw"
        BY <3>2, <3>3, <3>4
      <3>6. Writes(a, b + 1)'
        <4>1. Out(work.out, a)' /\ OutAt(1)' = OutAt(1) /\ OutAt(2)' = OutAt(2)
          BY <2>4, <3>2
        <4>2. OutPuts' - 1 = 1 /\ InPuts' + 1 = 1 + 1
          BY <2>2
        <4> QED
          BY <1>1, <1>7, <2>1, <2>2, <3>2, <3>3, <3>4, <3>5, <4>1, <4>2 DEF Writes
      <3> QED
        BY <1>7, <2>1, <3>4, <3>6 DEF Course
    <2>7. CASE \E b \in 0 .. 2 : ShortIn(b)
      <3>1. PICK b \in 0 .. 2 : ShortIn(b)
        BY <2>7
      <3>2. In(work.in, b) /\ b + (1 - 0) < Needed
        BY <2>2, <3>1 DEF ShortIn
      <3>3. b + 1 \in 0 .. 2 /\ b + 1 + (1 - 1) < Needed
        BY <3>2, StagePuts
      <3>4. In(work.in, b + 1)'
        BY <2>5, <3>2
      <3>5. ShortIn(b + 1)'
        BY <1>1, <1>3, <1>7, <2>2, <3>1, <3>3, <3>4 DEF ShortIn
      <3> QED
        BY <1>7, <2>1, <3>3, <3>5 DEF Course
    <2>8. CASE \E a \in 0 .. 3 : Stalls(a)
      <3>1. PICK a \in 0 .. 3 : Stalls(a)
        BY <2>8
      <3>2. Stalls(a)'
        BY <1>1, <1>7, <2>2, <2>4, <3>1 DEF Stalls
      <3> QED
        BY <1>7, <2>1, <3>2 DEF Course
    <2>9. CASE Starved
      <3>1. 1 \in 1 .. Len(events)
        BY <1>1 DEF DumpTypes
      <3> QED
        BY <1>1, <1>7, <2>9, <3>1 DEF Starved
    <2> QED
      BY <2>6, <2>7, <2>8, <2>9 DEF Course
  <1> QED
    BY <1>1, <1>2, <1>4, <1>5, <1>6, <1>7, AnswerIs

\* Between two writes the stick takes what is left.
LEMMA OutWaits ==
    ASSUME DumpTypes, Waiting, bot = D!Idle, D!StickOut
    PROVE  Waiting' /\ disk' = disk /\ stick'.phase = "in"
  <1>1. UNCHANGED <<stickSlot, work, bot, res, MSC_CBW, ring, armed, written>>
    BY StickOutIs
  <1>2. CASE Fresh
    <2>1. PICK a \in 0 .. 1, b \in 0 .. 1 :
              /\ Left(a, b) /\ (a = 1 => MSC_CBW.op = "read")
              /\ written > 0 \/ res = "ok" => stick.phase = "cbw" /\ a = 0
      BY <1>2 DEF Fresh
    <2>2. a = 1
      <3>1. Ringed(ring["out"], stickSlot.out, hc["out"], a)
        BY <2>1 DEF Left, Slot, Out
      <3>2. a > 0
        BY <3>1, OutTaken
      <3> QED
        BY <3>2
    <2>3. Left(0, 0)' /\ stick'.phase = "in" /\ stick.phase = "cbw"
      BY <2>1, <2>2, LeftOut
    <2>4. ~(written > 0 \/ res = "ok")
      BY <2>1, <2>2
    <2>5. MSC_CBW.tag <= stickSlot.tag
      BY <1>2 DEF Fresh
    <2>6. Fresh'
      BY <1>1, <2>3, <2>4, <2>5 DEF Fresh
    <2> QED
      BY <2>3, <2>6, StickOutIs DEF Waiting
  <1>3. CASE written = 0 /\ res = "none" /\ Back
    <2>1. /\ Ringed(ring["out"], Advance(stickSlot.out), hc["out"], 1) /\ OutAt(1) = "cbw"
          /\ Ringed(ring["in"], stickSlot.in, hc["in"], 0) /\ stick.phase = "cbw" /\ events = <<>>
          /\ Again /\ armed = 0 /\ MSC_CBW.op = "read"
      BY <1>3 DEF Back, In, Out
    <2>2. /\ Ringed(ring'["out"], Advance(stickSlot.out), hc'["out"], 1 - 1)
          /\ Entry(ring["out"], hc["out"]).what = "cbw" /\ hc'["in"] = hc["in"]
      BY <2>1, OutTaken
    <2>3. stick'.phase = "in" /\ events' = Append(events, [ok |-> TRUE]) /\ disk' = disk
      BY <2>1, <2>2, StickOutIs
    <2>4. Ringed(ring'["out"], Advance(stickSlot.out), hc'["out"], 0)
      <3>1. 1 - 1 = 0
        OBVIOUS
      <3> QED
        BY <2>2, <3>1
    <2>5. OneMore'
      <3>1. Len(events') = 1
        BY <2>1, <2>3
      <3>2. Ringed(ring'["in"], stickSlot.in, hc'["in"], 0) /\ stickSlot.in \in Cursor
        BY <1>1, <2>1, <2>2 DEF Ringed
      <3>3. 0 + Len(events') <= 1 /\ 0 \in 0 .. 1
        BY <3>1
      <3> QED
        BY <3>2, <3>3 DEF OneMore, In
    <2>6. Gone'
      BY <1>1, <2>1, <2>3, <2>4, <2>5 DEF Gone, Again, Out
    <2> QED
      BY <1>1, <1>3, <2>3, <2>6 DEF Waiting
  <1>4. CASE Gone
    <2>1. Ringed(ring["out"], Advance(stickSlot.out), hc["out"], 0)
      BY <1>4 DEF Gone, Out
    <2>2. 0 > 0
      BY <2>1, OutTaken
    <2> QED
      BY <2>2
  <1> QED
    BY <1>2, <1>3, <1>4 DEF Waiting

\* One completion less to come.
LEMMA InComes ==
    ASSUME DumpTypes, OneMore, D!StickIn
    PROVE  OneMore'
  <1>1. PICK p \in Cursor, b \in 0 .. 1 : In(p, b) /\ b + Len(events) <= 1
    BY DEF OneMore
  <1>2. b > 0 /\ Ringed(ring'["in"], p, hc'["in"], b - 1)
    BY <1>1, InTaken DEF In
  <1>3. Len(events') = Len(events) + 1 /\ Len(events) \in Nat
    <2>1. PICK ok \in BOOLEAN : events' = Append(events, [ok |-> ok])
      BY StickInIs
    <2>2. [ok |-> ok] \in [ok : BOOLEAN]
      OBVIOUS
    <2> QED
      BY <2>1, <2>2, SeqTypes DEF DumpTypes
  <1>4. b - 1 \in 0 .. 1 /\ b - 1 + Len(events') <= 1
    BY <1>1, <1>2, <1>3
  <1> QED
    BY <1>2, <1>4 DEF OneMore, In

LEMMA InWaits ==
    ASSUME DumpTypes, WritesOwn, Waiting, bot = D!Idle, D!StickIn
    PROVE  Waiting'
  <1>1. UNCHANGED <<stickSlot, work, bot, res, MSC_CBW, ring, armed, written>>
    BY StickInIs
  <1>2. CASE Fresh
    <2>1. PICK a \in 0 .. 1, b \in 0 .. 1 :
              /\ Left(a, b) /\ (a = 1 => MSC_CBW.op = "read")
              /\ written > 0 \/ res = "ok" => stick.phase = "cbw" /\ a = 0
      BY <1>2 DEF Fresh
    <2>2. Left(0, 0)' /\ stick.phase \in {"in", "csw"}
      BY <2>1, LeftIn
    <2>3. ~(written > 0 \/ res = "ok")
      BY <2>1, <2>2
    <2>4. MSC_CBW.tag <= stickSlot.tag
      BY <1>2 DEF Fresh
    <2>5. Fresh'
      BY <1>1, <2>2, <2>3, <2>4 DEF Fresh
    <2> QED
      BY <2>5 DEF Waiting
  <1>3. CASE Back
    BY <1>3, StickInIs DEF Back
  <1>4. CASE written = 0 /\ res = "none" /\ Gone
    <2>1. OneMore' /\ hc'["out"] = hc["out"] /\ stick'.phase # "out"
      BY <1>4, InComes, InTaken, StickInIs DEF Gone
    <2>2. Gone'
      BY <1>1, <1>4, <2>1 DEF Gone, Again, Out
    <2> QED
      BY <1>1, <1>4, <2>2 DEF Waiting
  <1> QED
    BY <1>2, <1>3, <1>4 DEF Waiting

\* During a write: the stick takes the command, then the block, and what is
\* not meant for it stalls it.
LEMMA OutWrites ==
    ASSUME DumpTypes, WritesOwn, Tagged, dumpPc = "panic", bot # D!Idle, Course, D!StickOut,
           bot.block \in Clusters,
           stick.phase = "out" => stick.cmd = MSC_CBW
    PROVE  Course' /\ (stick'.phase = "out" => stick'.cmd = MSC_CBW)
  <1>1. /\ UNCHANGED <<work, bot, MSC_CBW, MSC_DATA, MSC_CSW, ring, armed, written>>
        /\ "out" \notin halted /\ stick.phase \in {"cbw", "out"}
    BY StickOutIs
  <1>2. /\ MSC_CBW.op = "write" /\ MSC_CBW.block = bot.block /\ MSC_CBW.tag = work.tag
        /\ stick.phase = "out" => stick.cmd.op = "write"
    BY DEF WritesOwn, Tagged
  <1>3. OutPuts' = OutPuts /\ InPuts' = InPuts
    BY <1>1 DEF OutPuts, InPuts
  <1>4. /\ \A k : InAt(k)' = InAt(k)
        /\ \A p, n : In(p, n) => In(p, n)'
    BY OutTaken DEF In
  <1>5. ASSUME NEW p, NEW n, Out(p, n)
        PROVE  /\ n \in Nat /\ n > 0 /\ Entry(ring["out"], hc["out"]).what = OutAt(1)
               /\ Ringed(ring'["out"], p, hc'["out"], n - 1)
               /\ n > 1 => OutAt(1)' = OutAt(2)
    BY <1>5, OutTaken DEF Out
  <1>6. stick'.phase = "out" => stick'.cmd = MSC_CBW
    BY <1>1, StickOutIs
  <1>7. CASE \E a, b \in 0 .. 2 : Writes(a, b)
    <2>1. PICK a \in 0 .. 2, b \in 0 .. 2 : Writes(a, b)
      BY <1>7
    <2>2. /\ Out(work.out, a) /\ In(work.in, b) /\ MSC_DATA = D!Dump(written + 1)
          /\ a = 2 => OutAt(1) = "cbw" /\ OutAt(2) = "data"
          /\ a = 1 => OutAt(1) = (IF OutPuts = 1 THEN "cbw" ELSE "data")
          /\ \A k \in 1 .. b : InAt(k) = "csw"
      BY <2>1 DEF Writes
    <2>3. /\ a > 0 /\ Entry(ring["out"], hc["out"]).what = OutAt(1)
          /\ Ringed(ring'["out"], work.out, hc'["out"], a - 1)
          /\ a > 1 => OutAt(1)' = OutAt(2)
      BY <1>5, <2>2
    <2>4. \/ stick.phase = "cbw" /\ a = OutPuts /\ b = InPuts /\ MSC_CSW.tag # work.tag
          \/ stick.phase = "out" /\ a = OutPuts - 1 /\ b = InPuts /\ MSC_CSW.tag # work.tag
      BY <1>1, <2>1, <2>3 DEF Writes
    <2>5. In(work.in, b)' /\ \A k \in 1 .. b : InAt(k)' = "csw"
      BY <1>1, <1>4, <2>2
    <2>6. CASE stick.phase = "cbw"
      <3>1. a = OutPuts /\ b = InPuts /\ MSC_CSW.tag # work.tag /\ OutAt(1) = "cbw"
        BY <2>2, <2>4, <2>6, StagePuts
      <3>2. stick'.phase = "out"
        BY <1>2, <2>3, <2>6, <3>1, StickOutIs
      <3>3. a - 1 \in 0 .. 2 /\ a - 1 # 2 /\ (a - 1 = 1 => a = 2 /\ a > 1)
        BY <2>3
      <3>4. Writes(a - 1, b)'
        <4>1. Out(work.out, a - 1)'
          BY <1>1, <2>3 DEF Out
        <4>2. a - 1 = 1 => OutAt(1)' = (IF OutPuts' = 1 THEN "cbw" ELSE "data")
          BY <1>3, <2>2, <2>3, <3>1, <3>3
        <4>3. a - 1 = OutPuts' - 1 /\ b = InPuts'
          BY <1>3, <3>1
        <4> QED
          BY <1>1, <2>2, <2>5, <3>1, <3>2, <3>3, <4>1, <4>2, <4>3 DEF Writes
      <3> QED
        BY <1>6, <3>3, <3>4 DEF Course
    <2>7. CASE stick.phase = "out"
      <3>1. a = OutPuts - 1 /\ b = InPuts /\ MSC_CSW.tag # work.tag
        BY <2>4, <2>7
      <3>2. a = 1 /\ OutPuts = 2 /\ a - 1 = 0
        BY <2>3, <3>1, StagePuts
      <3>3. Entry(ring["out"], hc["out"]).what = "data"
        BY <2>2, <2>3, <3>2
      <3>4. /\ stick'.phase = "csw" /\ stick'.cmd = MSC_CBW
            /\ disk' = [disk EXCEPT ![stick.cmd.block] = MSC_DATA] \/ stick'.good = FALSE
        BY <2>7, <3>3, StickOutIs
      <3>5. stick'.good => disk'[bot.block] = D!Dump(written + 1)
        BY <1>2, <2>2, <2>7, <3>4 DEF DumpTypes
      <3>6. Writes(0, b)'
        <4>1. Out(work.out, 0)'
          BY <1>1, <2>3, <3>2 DEF Out
        <4> QED
          BY <1>1, <1>3, <2>2, <2>5, <3>1, <3>2, <3>4, <3>5, <4>1 DEF Writes
      <3> QED
        BY <1>6, <3>6 DEF Course
    <2> QED
      BY <1>1, <2>6, <2>7
  <1>8. CASE \E b \in 0 .. 2 : ShortIn(b)
    <2>1. PICK b \in 0 .. 2 : ShortIn(b)
      BY <1>8
    <2>2. Needed = 1
      BY <1>1 DEF Needed
    <2>3. \/ stick'.phase = "out" /\ stick'.cmd = MSC_CBW
          \/ stick'.phase = "csw" /\ stick'.cmd = stick.cmd /\ stick.cmd.op = "write"
          \/ stick' = stick
      BY <1>2, StickOutIs
    <2>4. Needed' = 1 /\ (stick'.cmd.op = "read" => stick'.cmd = stick.cmd)
      BY <1>1, <1>2, <2>3 DEF Needed
    <2>5. ShortIn(b)'
      BY <1>1, <1>3, <1>4, <2>1, <2>2, <2>4 DEF ShortIn
    <2> QED
      BY <1>6, <2>5 DEF Course
  <1>9. CASE \E a \in 0 .. 3 : Stalls(a)
    <2>1. PICK a \in 0 .. 3 : Stalls(a)
      BY <1>9
    <2>2. /\ MSC_CSW.tag # work.tag /\ Out(work.out, a) /\ a + (2 - OutPuts) <= 3
          /\ a > 0 /\ OutAt(1) = "cbw"
          /\ stick.phase = "cbw" => a > 1 /\ OutAt(2) = "cbw"
      BY <1>1, <2>1 DEF Stalls
    <2>3. /\ Entry(ring["out"], hc["out"]).what = "cbw"
          /\ Ringed(ring'["out"], work.out, hc'["out"], a - 1)
          /\ a > 1 => OutAt(1)' = OutAt(2)
      BY <1>5, <2>2
    <2>4. CASE stick.phase = "cbw"
      <3>1. stick'.phase = "out"
        BY <1>2, <2>3, <2>4, StickOutIs
      <3>2. a - 1 \in 0 .. 3 /\ a - 1 > 0 /\ a - 1 + (2 - OutPuts) <= 3
        BY <2>2, <2>4, StagePuts
      <3>3. Stalls(a - 1)'
        BY <1>1, <1>3, <2>2, <2>3, <2>4, <3>1, <3>2 DEF Stalls, Out
      <3> QED
        BY <1>6, <3>2, <3>3 DEF Course
    <2>5. CASE stick.phase = "out"
      <3>1. stick' = stick /\ halted' = halted \cup {"out"}
        BY <2>3, <2>5, StickOutIs
      <3>2. Stalls(0)'
        BY <1>1, <2>2, <2>5, <3>1 DEF Stalls
      <3> QED
        BY <1>6, <3>2 DEF Course
    <2> QED
      BY <1>1, <2>4, <2>5
  <1>10. CASE Starved
    <2>1. stick.phase = "cbw" /\ armed = 0
      BY <1>1, <1>10 DEF Starved
    <2>2. ~Out(work.out, 0)
      <3> SUFFICES ASSUME Out(work.out, 0) PROVE FALSE
        OBVIOUS
      <3>1. 0 > 0
        BY <1>5
      <3> QED
        BY <3>1
    <2>3. /\ bot.stage = "data" /\ \E p \in Cursor : In(p, 0)
          /\ events = <<>> /\ Out(work.out, 1) /\ OutAt(1) = "data"
      BY <1>1, <1>10, <2>2 DEF Starved
    <2>4. Entry(ring["out"], hc["out"]).what = "data"
      BY <1>5, <2>3
    <2>5. /\ stick' = stick /\ halted' = halted \cup {"out"}
          /\ events' = Append(events, [ok |-> FALSE])
      BY <2>1, <2>4, StickOutIs
    <2>6. Len(events') = 1 /\ events'[1] = [ok |-> FALSE]
      BY <2>3, <2>5
    <2>7. \A i \in 1 .. Len(events') : ~events'[i].ok
      <3>1. \A i \in 1 .. 1 : i = 1
        OBVIOUS
      <3> QED
        BY <2>6, <3>1
    <2>8. Starved'
      BY <1>1, <1>4, <2>1, <2>3, <2>5, <2>7 DEF Starved
    <2> QED
      BY <1>6, <2>8 DEF Course
  <1> QED
    BY <1>7, <1>8, <1>9, <1>10 DEF Course

\* The status of an earlier read, then that of the write.
LEMMA InWrites ==
    ASSUME DumpTypes, WritesOwn, Tagged, dumpPc = "panic", bot # D!Idle, Course, D!StickIn
    PROVE  Course' /\ stick'.phase # "out"
  <1>1. /\ UNCHANGED <<disk, work, bot, MSC_CBW, ring, armed, written>>
        /\ stick.phase \in {"in", "csw"}
    BY StickInIs
  <1>2. /\ MSC_CBW.op = "write" /\ MSC_CBW.tag = work.tag
        /\ stick.phase = "in" => stick.cmd.op = "read"
    BY DEF WritesOwn, Tagged
  <1>3. OutPuts' = OutPuts /\ InPuts' = InPuts
    BY <1>1 DEF OutPuts, InPuts
  <1>4. /\ \A k : OutAt(k)' = OutAt(k)
        /\ \A p, n : Out(p, n) => Out(p, n)'
    BY InTaken DEF Out
  <1>5. ASSUME NEW p, NEW n, In(p, n)
        PROVE  /\ n \in Nat /\ n > 0 /\ Entry(ring["in"], hc["in"]).what = InAt(1)
               /\ Ringed(ring'["in"], p, hc'["in"], n - 1)
               /\ n > 1 => InAt(1)' = InAt(2)
    BY <1>5, InTaken DEF In
  <1>6. stick'.phase # "out" /\ stick'.cmd = stick.cmd
    BY <1>1, StickInIs
  <1>7. CASE \E a, b \in 0 .. 2 : Writes(a, b)
    <2>1. PICK a \in 0 .. 2, b \in 0 .. 2 : Writes(a, b)
      BY <1>7
    <2>2. /\ Out(work.out, a) /\ In(work.in, b) /\ MSC_DATA = D!Dump(written + 1)
          /\ a = 2 => OutAt(1) = "cbw" /\ OutAt(2) = "data"
          /\ a = 1 => OutAt(1) = (IF OutPuts = 1 THEN "cbw" ELSE "data")
          /\ \A k \in 1 .. b : InAt(k) = "csw"
          /\ stick.phase = "csw" /\ MSC_CSW.tag # work.tag
          /\ \/ /\ stick.cmd.op = "read" /\ stick.cmd.tag # work.tag
                /\ a = OutPuts /\ b = InPuts + 1
             \/ /\ stick.cmd = MSC_CBW /\ a = 0 /\ OutPuts = 2 /\ b = InPuts
                /\ stick.good => disk[bot.block] = D!Dump(written + 1)
      BY <1>1, <2>1 DEF Writes
    <2>3. /\ b > 0 /\ Entry(ring["in"], hc["in"]).what = InAt(1)
          /\ Ringed(ring'["in"], work.in, hc'["in"], b - 1)
          /\ b > 1 => InAt(1)' = InAt(2)
      BY <1>5, <2>2
    <2>4. b - 1 \in 0 .. 2 /\ 1 \in 1 .. b /\ \A k \in 1 .. b - 1 : k = 1 /\ b > 1 /\ 2 \in 1 .. b
      BY <2>3
    <2>5. InAt(1) = "csw" /\ \A k \in 1 .. b - 1 : InAt(k)' = "csw"
      BY <2>2, <2>3, <2>4
    <2>6. /\ stick'.phase = "cbw" /\ MSC_DATA' = MSC_DATA
          /\ MSC_CSW' = [tag |-> stick.cmd.tag, good |-> stick.good]
      BY <2>2, <2>3, <2>5, StickInIs
    <2>7. In(work.in, b - 1)' /\ Out(work.out, a)' /\ OutAt(1)' = OutAt(1) /\ OutAt(2)' = OutAt(2)
      BY <1>1, <1>4, <2>2, <2>3 DEF In
    <2>8. CASE stick.cmd.op = "read" /\ stick.cmd.tag # work.tag /\ a = OutPuts /\ b = InPuts + 1
      <3>1. b - 1 = InPuts
        BY <2>8, StagePuts
      <3>2. MSC_CSW'.tag # work'.tag
        BY <1>1, <2>6, <2>8
      <3>3. Writes(a, b - 1)'
        BY <1>1, <1>3, <2>2, <2>5, <2>6, <2>7, <2>8, <3>1, <3>2 DEF Writes
      <3> QED
        BY <1>6, <2>4, <3>3 DEF Course
    <2>9. CASE /\ stick.cmd = MSC_CBW /\ a = 0 /\ OutPuts = 2 /\ b = InPuts
               /\ stick.good => disk[bot.block] = D!Dump(written + 1)
      <3>1. b - 1 = 0 /\ InPuts = 1
        BY <2>3, <2>9, StagePuts
      <3>2. MSC_CSW'.good => disk'[bot'.block] = D!Dump(written' + 1)
        BY <1>1, <2>6, <2>9
      <3>3. Writes(a, b - 1)'
        BY <1>1, <1>3, <2>2, <2>5, <2>6, <2>7, <2>9, <3>1, <3>2 DEF Writes
      <3> QED
        BY <1>6, <2>4, <3>3 DEF Course
    <2> QED
      BY <2>2, <2>8, <2>9
  <1>8. CASE \E b \in 0 .. 2 : ShortIn(b)
    <2>1. PICK b \in 0 .. 2 : ShortIn(b)
      BY <1>8
    <2>2. /\ In(work.in, b) /\ b + (1 - InPuts) < Needed /\ MSC_CSW.tag # work.tag
          /\ stick.cmd.op = "read" => stick.cmd.tag # work.tag
      BY <2>1 DEF ShortIn
    <2>3. b > 0 /\ Ringed(ring'["in"], work.in, hc'["in"], b - 1)
      BY <1>5, <2>2
    <2>4. stick.cmd.op = "read"
      <3>1. Needed > 1
        BY <2>2, <2>3, StagePuts
      <3> QED
        BY <1>2, <3>1 DEF Needed
    <2>5. MSC_CSW'.tag # work.tag
      <3>1. MSC_CSW' = MSC_CSW \/ MSC_CSW' = [tag |-> stick.cmd.tag, good |-> stick.good]
        BY StickInIs
      <3> QED
        BY <2>2, <2>4, <3>1
    <2>6. \/ stick.phase = "in" /\ stick'.phase \in {"in", "csw"}
          \/ stick.phase = "csw" /\ stick'.phase = "cbw"
      BY <1>1, StickInIs
    <2>7. Needed' >= Needed - 1
      BY <1>6, <2>4, <2>6 DEF Needed
    <2>8. Needed' \in 1 .. 3
      BY DEF Needed
    <2>9. b - 1 \in 0 .. 2 /\ b - 1 + (1 - InPuts) < Needed'
      BY <2>2, <2>3, <2>7, <2>8, StagePuts
    <2>10. ShortIn(b - 1)'
      BY <1>1, <1>3, <1>6, <2>2, <2>3, <2>5, <2>9 DEF ShortIn, In
    <2> QED
      BY <1>6, <2>9, <2>10 DEF Course
  <1>9. CASE \E a \in 0 .. 3 : Stalls(a)
    BY <1>1, <1>9 DEF Stalls
  <1>10. CASE Starved
    <2>1. \A p : ~In(p, 0)
      <3> SUFFICES ASSUME NEW p, In(p, 0) PROVE FALSE
        OBVIOUS
      <3>1. 0 > 0
        BY <1>5
      <3> QED
        BY <3>1
    <2>2. bot.stage = "cbw" /\ Out(work.out, 0) /\ OneMore /\ armed = 0
      BY <1>10, <2>1 DEF Starved
    <2>3. OneMore' /\ Out(work.out, 0)'
      BY <1>1, <1>4, <2>2, InComes
    <2>4. Starved'
      BY <1>1, <1>6, <2>2, <2>3 DEF Starved
    <2> QED
      BY <1>6, <2>4 DEF Course
  <1> QED
    BY <1>7, <1>8, <1>9, <1>10 DEF Course

\* What the panic handler's writes have come to.
Have1 ==
    /\ written <= Len(file) /\ Have(written)
    /\ res = "ok" => written < Len(file) /\ disk[file[written + 1]] = D!Dump(written + 1)
    /\ bot = D!Idle => Waiting
    /\ bot # D!Idle =>
          /\ written < Len(file) /\ bot.block = file[written + 1]
          /\ stick.phase = "out" => stick.cmd = MSC_CBW
          /\ Course

LEMMA DumpingIs ==
    Dumping <=> /\ dumpPc \in {"resolve", "load", "loop"} => written = 0
                /\ dumpPc = "panic" /\ file # <<>> /\ res # "failed" => Have1
  BY DEF Dumping, Have1

\* A write to the block at hand leaves the ones before it.
LEMMA OutHaves ==
    ASSUME DumpTypes, WritesOwn, FollowsFat, dumpPc = "panic", bot # D!Idle, D!StickOut,
           written < Len(file), bot.block = file[written + 1], Have(written),
           stick.phase = "out" => stick.cmd = MSC_CBW
    PROVE  Have(written)'
  <1>1. /\ UNCHANGED <<file, written>> /\ Len(file) \in Nat /\ written \in Nat
        /\ \A i \in 1 .. Len(file) : file[i] \in Clusters
    <2>1. UNCHANGED <<file, written>>
      BY StickOutIs
    <2>2. file \in Seq(Clusters) /\ written \in Nat
      BY DEF DumpTypes
    <2> QED
      BY <2>1, <2>2
  <1>2. disk' = disk \/ disk' = [disk EXCEPT ![bot.block] = MSC_DATA]
    <2>1. MSC_CBW.block = bot.block
      BY DEF WritesOwn
    <2>2. \/ disk' = disk
          \/ stick.phase = "out" /\ disk' = [disk EXCEPT ![stick.cmd.block] = MSC_DATA]
      BY StickOutIs
    <2> QED
      BY <2>1, <2>2
  <1>3. ASSUME NEW k \in 1 .. written PROVE disk'[file[k]] = disk[file[k]]
    <2>1. k \in 1 .. Len(file) /\ written + 1 \in 1 .. Len(file) /\ k # written + 1
      BY <1>1
    <2>2. file[k] # bot.block /\ file[k] \in Clusters
      BY <1>1, <2>1, ChainOnce DEF FollowsFat
    <2> QED
      BY <1>2, <2>2 DEF DumpTypes
  <1> QED
    BY <1>1, <1>3 DEF Have

LEMMA DumpingStep ==
    ASSUME DumpTypes, WritesOwn, FollowsFat, Tagged, Stepping, Dumping, [MCNext]_all
    PROVE  Dumping'
  <1>0. Len(file) \in Nat /\ written \in Nat
    BY DEF DumpTypes
  <1>1. ASSUME dumpPc' # "panic" \/ res' = "failed", written' = written,
               dumpPc' \in {"resolve", "load", "loop"} => dumpPc \in {"resolve", "load", "loop"}
        PROVE  Dumping'
    BY <1>1, DumpingIs DEF Dumping
  <1>2. CASE UNCHANGED dumpVars
    <2>1. UNCHANGED <<disk, dumpPc, file, stickSlot, work, bot, res, MSC_CBW, MSC_DATA, MSC_CSW, ring,
                      hc, halted, stick, events, armed, written>>
      BY <1>2 DEF dumpVars
    <2>2. Fresh' = Fresh
      BY <2>1 DEF Fresh, Left, In, Out, InAt, OutAt, Slot
    <2>3. Back' = Back /\ Gone' = Gone
      BY <2>1 DEF Back, Gone, Again, OneMore, In, Out, OutAt
    <2>4. ASSUME NEW a, NEW b PROVE Writes(a, b)' = Writes(a, b)
      BY <2>1 DEF Writes, In, Out, InAt, OutAt, OutPuts, InPuts
    <2>5. ASSUME NEW a PROVE ShortIn(a)' = ShortIn(a) /\ Stalls(a)' = Stalls(a)
      BY <2>1 DEF ShortIn, Stalls, In, Out, OutAt, OutPuts, InPuts, Needed
    <2>6. Starved' = Starved
      BY <2>1 DEF Starved, OneMore, In, Out, OutAt
    <2>7. Course' = Course
      BY <2>4, <2>5, <2>6 DEF Course
    <2>8. Waiting' = Waiting /\ Have(written)' = Have(written)
      BY <2>1, <2>2, <2>3 DEF Waiting, Have
    <2> QED
      BY <2>1, <2>7, <2>8 DEF Dumping
  <1>3. CASE D!Answer
    <2>1. UNCHANGED <<disk, dumpPc, file, MSC_CBW, stick, written>> /\ bot # D!Idle /\ res = "none"
      BY <1>3, AnswerIs DEF DumpTypes
    <2>2. CASE dumpPc # "panic"
      BY <1>1, <2>1, <2>2
    <2>3. CASE dumpPc = "panic" /\ file # <<>>
      <3>1. /\ written < Len(file) /\ bot.block = file[written + 1] /\ Have(written)
            /\ stick.phase = "out" => stick.cmd = MSC_CBW
            /\ Course
        BY <2>1, <2>3, DumpingIs DEF Have1
      <3>2. Have(written)' /\ written' < Len(file') /\ written' <= Len(file')
        BY <1>0, <2>1, <3>1 DEF Have
      <3>3. CASE res' = "failed"
        BY <1>1, <2>1, <3>3
      <3>4. CASE bot' # D!Idle /\ bot'.block = bot.block /\ res' = res /\ Course'
        <4>1. Have1'
          BY <2>1, <3>1, <3>2, <3>4 DEF Have1
        <4> QED
          BY <2>1, <2>3, <4>1 DEF Dumping, Have1
      <3>5. CASE bot' = D!Idle /\ res' = "ok" /\ Fresh' /\ disk[bot.block] = D!Dump(written + 1)
        <4>1. Have1'
          BY <2>1, <3>1, <3>2, <3>5 DEF Have1, Waiting
        <4> QED
          BY <2>1, <2>3, <4>1 DEF Dumping, Have1
      <3> QED
        BY <1>3, <2>3, <3>1, <3>3, <3>4, <3>5, AnswerWrites
    <2>4. CASE dumpPc = "panic" /\ file = <<>>
      BY <2>1, <2>4 DEF Dumping
    <2> QED
      BY <2>2, <2>3, <2>4
  <1>4. CASE D!GiveUp
    BY <1>1, <1>4, GiveUpIs
  <1>5. CASE D!Walk \/ D!Walked
    <2>1. dumpPc = "resolve" /\ written' = written /\ dumpPc' \in {"resolve", "load"}
      BY <1>5, WalkIs, WalkedIs
    <2> QED
      BY <1>1, <2>1
  <1>6. CASE D!BlockRead \/ D!Loaded
    <2>1. dumpPc = "load" /\ written' = written /\ dumpPc' \in {"loop", "load"}
      BY <1>6, LoadIs
    <2> QED
      BY <1>1, <2>1
  <1>7. ASSUME NEW c \in Clusters, D!ReadBlock(c) PROVE Dumping'
    <2>1. dumpPc = "load" /\ written' = written /\ dumpPc' = dumpPc
      BY <1>7, ReadBlockIs
    <2> QED
      BY <1>1, <2>1
  <1>8. CASE D!Panic
    <2>1. /\ UNCHANGED <<disk, file, written>> /\ dumpPc' = "panic" /\ bot' = D!Idle /\ res' = "none"
          /\ written = 0
      BY <1>8, PanicIs DEF Dumping
    <2>2. CASE file = <<>>
      BY <2>1, <2>2 DEF Dumping
    <2>3. CASE file # <<>>
      <3>1. Waiting'
        BY <1>8, <2>3, PanicWaits
      <3>2. Have(0)'
        BY DEF Have
      <3>3. Have1'
        BY <1>0, <2>1, <3>1, <3>2 DEF Have1
      <3> QED
        BY <2>1, <3>3 DEF Dumping, Have1
    <2> QED
      BY <2>2, <2>3
  <1>9. CASE D!WriteBlock
    <2>1. /\ UNCHANGED <<disk, file, stickSlot, res, MSC_CSW, hc, halted, stick, events, armed, written>>
          /\ dumpPc = "panic" /\ bot = D!Idle /\ res = "none"
      BY <1>9, WriteBlockIs
    <2>2. CASE dumpPc' = "done"
      BY <1>1, <2>1, <2>2
    <2>3. CASE /\ file # <<>> /\ written < Len(file)
               /\ MSC_DATA' = D!Dump(written + 1) /\ UNCHANGED <<dumpPc, outcome>>
               /\ D!Begin("write", file[written + 1])
      <3>1. Waiting /\ Have(written)
        BY <2>1, <2>3, DumpingIs DEF Have1
      <3>2. Course' /\ stick.phase # "out"
        BY <2>1, <2>3, <3>1, BeginWrites
      <3>3. bot' # D!Idle /\ bot'.block = file[written + 1]
        BY <2>3, BeginIs
      <3>4. Have(written)' /\ written' < Len(file') /\ written' <= Len(file')
        BY <1>0, <2>1, <2>3, <3>1 DEF Have
      <3>5. Have1'
        BY <2>1, <2>3, <3>2, <3>3, <3>4 DEF Have1
      <3> QED
        BY <2>1, <2>3, <3>5 DEF Dumping, Have1
    <2> QED
      BY <1>9, <2>2, <2>3, WriteBlockIs
  <1>10. CASE D!BlockWritten
    <2>1. /\ UNCHANGED <<disk, file, stickSlot, work, bot, MSC_CBW, ring, hc, stick>>
          /\ dumpPc = "panic" /\ bot = D!Idle /\ res' = "none"
      BY <1>10, BlockWrittenIs
    <2>2. CASE dumpPc' = "done" /\ written' = written
      BY <1>1, <2>2
    <2>3. CASE res = "ok" /\ written' = written + 1 /\ dumpPc' = dumpPc
      <3>1. CASE file = <<>>
        BY <2>1, <2>3, <3>1 DEF Dumping
      <3>2. CASE file # <<>>
        <4>1. /\ Have(written) /\ written < Len(file) /\ disk[file[written + 1]] = D!Dump(written + 1)
              /\ Waiting
          BY <2>1, <2>3, <3>2, DumpingIs DEF Have1
        <4>2. Have(written)'
          <5>1. \A k \in 1 .. written + 1 : k \in 1 .. written \/ k = written + 1
            BY <1>0
          <5> QED
            BY <2>1, <2>3, <4>1, <5>1 DEF Have
        <4>3. Fresh'
          <5>1. PICK a \in 0 .. 1, b \in 0 .. 1 : /\ Left(a, b) /\ (a = 1 => MSC_CBW.op = "read")
                                                /\ stick.phase = "cbw" /\ a = 0
            BY <2>3, <4>1 DEF Waiting, Fresh
          <5>2. Left(a, b)' /\ MSC_CBW.tag <= stickSlot.tag
            BY <2>1, <2>3, <4>1, <5>1 DEF Left, In, Out, InAt, OutAt, Slot, Waiting, Fresh
          <5> QED
            BY <2>1, <5>1, <5>2 DEF Fresh
        <4>4. written' <= Len(file')
          BY <1>0, <2>1, <2>3, <4>1
        <4>5. Have1'
          BY <2>1, <4>2, <4>3, <4>4 DEF Have1, Waiting, Have
        <4> QED
          BY <2>1, <2>3, <4>5 DEF Dumping, Have1
      <3> QED
        BY <3>1, <3>2
    <2> QED
      BY <1>10, <2>2, <2>3, BlockWrittenIs
  <1>11. CASE D!Poll \/ D!HidReport
    <2>1. /\ UNCHANGED <<disk, dumpPc, file, stickSlot, work, bot, res, MSC_CBW, ring, MSC_DATA, MSC_CSW,
                         hc, halted, stick, written>>
          /\ dumpPc = "loop" \/ armed > 0
      BY <1>11, InputIs
    <2>2. CASE dumpPc # "panic"
      BY <1>1, <2>1, <2>2
    <2>3. CASE dumpPc = "panic" /\ file # <<>> /\ res # "failed"
      <3>1. Have1
        BY <2>3, DumpingIs
      <3>2. armed # 0
        BY <2>1, <2>3
      <3>3. bot = D!Idle => Waiting'
        <4> SUFFICES ASSUME bot = D!Idle PROVE Waiting'
          OBVIOUS
        <4>1. Fresh
          BY <3>1, <3>2 DEF Have1, Waiting, Back, Gone
        <4>2. Fresh'
          BY <2>1, <4>1 DEF Fresh, Left, In, Out, InAt, OutAt, Slot
        <4> QED
          BY <4>2 DEF Waiting
      <3>4. bot # D!Idle => Course'
        <4> SUFFICES ASSUME bot # D!Idle PROVE Course'
          OBVIOUS
        <4>1. \/ \E a, b \in 0 .. 2 : Writes(a, b)
              \/ \E b \in 0 .. 2 : ShortIn(b)
              \/ \E a \in 0 .. 3 : Stalls(a)
          BY <3>1, <3>2 DEF Have1, Course, Starved
        <4>2. ASSUME NEW a, NEW b, Writes(a, b) PROVE Writes(a, b)'
          BY <2>1, <4>2 DEF Writes, In, Out, InAt, OutAt, OutPuts, InPuts
        <4>3. ASSUME NEW a PROVE ShortIn(a)' = ShortIn(a) /\ Stalls(a)' = Stalls(a)
          BY <2>1 DEF ShortIn, Stalls, In, Out, OutAt, OutPuts, InPuts, Needed
        <4> QED
          BY <4>1, <4>2, <4>3 DEF Course
      <3>5. Have(written)'
        BY <2>1, <3>1 DEF Have1, Have
      <3>6. Have1'
        BY <2>1, <3>1, <3>3, <3>4, <3>5 DEF Have1
      <3> QED
        BY <2>1, <2>3, <3>6 DEF Dumping, Have1
    <2>4. CASE dumpPc = "panic" /\ ~(file # <<>> /\ res # "failed")
      BY <2>1, <2>4 DEF Dumping
    <2> QED
      BY <2>2, <2>3, <2>4
  <1>12. CASE D!StickOut \/ D!StickIn
    <2>1. UNCHANGED <<dumpPc, file, bot, res, MSC_CBW, written>>
      BY <1>12, StickOutIs, StickInIs
    <2>2. CASE dumpPc # "panic"
      BY <1>1, <2>1, <2>2
    <2>3. CASE dumpPc = "panic" /\ ~(file # <<>> /\ res # "failed")
      BY <2>1, <2>3 DEF Dumping
    <2>4. CASE dumpPc = "panic" /\ file # <<>> /\ res # "failed" /\ bot = D!Idle
      <3>1. Have1
        BY <2>4, DumpingIs
      <3>2. Waiting' /\ disk' = disk
        BY <1>12, <2>4, <3>1, OutWaits, InWaits, StickInIs DEF Have1
      <3>3. Have(written)'
        BY <2>1, <3>1, <3>2 DEF Have1, Have
      <3>4. Have1'
        BY <2>1, <2>4, <3>1, <3>2, <3>3 DEF Have1
      <3> QED
        BY <2>1, <2>4, <3>4 DEF Dumping, Have1
    <2>5. CASE dumpPc = "panic" /\ file # <<>> /\ res # "failed" /\ bot # D!Idle
      <3>1. Have1 /\ res = "none"
        BY <2>5, DumpingIs DEF DumpTypes
      <3>2. /\ written < Len(file) /\ bot.block = file[written + 1] /\ Have(written) /\ Course
            /\ stick.phase = "out" => stick.cmd = MSC_CBW
        BY <2>5, <3>1 DEF Have1
      <3>3. bot.block \in Clusters
        <4>1. written + 1 \in 1 .. Len(file)
          BY <1>0, <3>2
        <4> QED
          BY <3>2, <4>1 DEF DumpTypes
      <3>4. Course' /\ (stick'.phase = "out" => stick'.cmd = MSC_CBW)
        BY <1>12, <2>5, <3>2, <3>3, OutWrites, InWrites
      <3>5. Have(written)'
        <4>1. CASE D!StickOut
          BY <2>5, <3>2, <4>1, OutHaves
        <4>2. CASE D!StickIn
          <5>1. disk' = disk
            BY <4>2, StickInIs
          <5> QED
            BY <2>1, <3>2, <5>1 DEF Have
        <4> QED
          BY <1>12, <4>1, <4>2
      <3>6. Have1'
        BY <2>1, <2>5, <3>1, <3>2, <3>4, <3>5 DEF Have1
      <3> QED
        BY <2>1, <2>5, <3>6 DEF Dumping, Have1
    <2> QED
      BY <2>2, <2>3, <2>4, <2>5
  <1> QED
    BY <1>2, <1>3, <1>4, <1>5, <1>6, <1>7, <1>8, <1>9, <1>10, <1>11, <1>12, DumpSteps

\* The stick has come to rest when the dump is reported as written.
LEMMA DumpedStep ==
    ASSUME DumpTypes, WritesOwn, Dumping, Dumped, [MCNext]_all PROVE Dumped'
  <1>0. Len(file) \in Nat /\ written \in Nat /\ DumpLen \in Nat
    BY DumpAssumption DEF DumpTypes
  <1>1. ASSUME UNCHANGED <<outcome, dumpPc, file, disk, stick, ring, hc, stickSlot>> PROVE Dumped'
    BY <1>1 DEF Dumped, Have, Out
  <1>2. ASSUME dumpPc # "done", outcome' = outcome PROVE Dumped'
    BY <1>2 DEF Dumped
  <1>3. ASSUME outcome' # "written" PROVE Dumped'
    BY <1>3 DEF Dumped
  <1>4. CASE UNCHANGED dumpVars
    BY <1>1, <1>4 DEF dumpVars
  <1>5. CASE D!Answer \/ D!GiveUp
    <2>1. bot # D!Idle /\ outcome' = outcome
      BY <1>5, AnswerIs, GiveUpIs
    <2> QED
      BY <1>2, <2>1 DEF WritesOwn
  <1>6. CASE D!Walk \/ D!Walked
    BY <1>2, <1>6, WalkIs, WalkedIs
  <1>7. CASE D!BlockRead \/ D!Loaded
    BY <1>2, <1>7, LoadIs
  <1>8. ASSUME NEW c \in Clusters, D!ReadBlock(c) PROVE Dumped'
    BY <1>2, <1>8, ReadBlockIs
  <1>9. CASE D!Panic
    BY <1>2, <1>9, PanicIs
  <1>10. CASE D!BlockWritten
    BY <1>2, <1>3, <1>10, BlockWrittenIs
  <1>11. CASE D!Poll \/ D!HidReport
    BY <1>1, <1>11, InputIs
  <1>12. CASE D!WriteBlock
    <2>1. /\ UNCHANGED <<disk, file, stickSlot, hc, stick>>
          /\ dumpPc = "panic" /\ bot = D!Idle /\ res = "none"
      BY <1>12, WriteBlockIs
    <2>2. CASE outcome' = "failed"
      BY <1>3, <2>2
    <2>3. CASE outcome' = outcome
      BY <1>2, <2>1, <2>3
    <2>4. CASE /\ dumpPc' = "done" /\ ring' = ring
               /\ outcome' = "written" /\ file # <<>> /\ DumpLen <= Len(file)
               /\ written >= DumpLen
      <3>1. Have(written) /\ Waiting
        BY <2>1, <2>4, DumpingIs DEF Have1
      <3>2. Have(DumpLen)'
        <4>1. \A k \in 1 .. DumpLen : k \in 1 .. written
          BY <1>0, <2>4
        <4> QED
          BY <2>1, <3>1, <4>1 DEF Have
      <3>3. ASSUME DumpLen > 0 PROVE stick.phase = "cbw" /\ Out(stickSlot.out, 0)
        <4>1. written > 0
          BY <1>0, <2>4, <3>3
        <4>2. PICK a \in 0 .. 1, b \in 0 .. 1 : Left(a, b) /\ stick.phase = "cbw" /\ a = 0
          BY <3>1, <4>1 DEF Waiting, Fresh
        <4> QED
          BY <2>1, <4>2 DEF Left, Slot
      <3> QED
        BY <2>1, <2>4, <3>2, <3>3 DEF Dumped, Out
    <2> QED
      BY <1>12, <2>2, <2>3, <2>4, WriteBlockIs
  <1>13. CASE D!StickOut \/ D!StickIn
    <2>1. UNCHANGED <<dumpPc, file, outcome>>
      BY <1>13, StickOutIs, StickInIs
    <2>2. CASE outcome # "written"
      BY <1>3, <2>1, <2>2
    <2>3. CASE outcome = "written" /\ ~(DumpLen > 0)
      BY <2>1, <2>3 DEF Dumped
    <2>4. CASE outcome = "written" /\ DumpLen > 0
      <3>1. stick.phase = "cbw" /\ Ringed(ring["out"], stickSlot.out, hc["out"], 0)
        BY <2>4 DEF Dumped, Out
      <3>2. ~D!StickIn
        BY <3>1, StickInIs
      <3>3. 0 > 0
        BY <1>13, <3>1, <3>2, OutTaken
      <3> QED
        BY <3>3
    <2> QED
      BY <2>2, <2>3, <2>4
  <1> QED
    BY <1>4, <1>5, <1>6, <1>7, <1>8, <1>9, <1>10, <1>11, <1>12, <1>13, DumpSteps
-----------------------------------------------------------------------------
(* The theorems about the stick.                                           *)

LEMMA LoadingStep == ASSUME DumpTypes, Loading, [MCNext]_all PROVE Loading'
  <1>1. ASSUME dumpPc' = dumpPc \/ dumpPc' # "load", UNCHANGED <<bot, res, MSC_CBW>> PROVE Loading'
    BY <1>1 DEF Loading
  <1>2. ASSUME dumpPc' # "load" PROVE Loading'
    BY <1>2 DEF Loading
  <1>3. CASE D!Answer \/ D!GiveUp
    <2>1. bot # D!Idle /\ UNCHANGED <<dumpPc, MSC_CBW>>
      BY <1>3, AnswerIs, GiveUpIs
    <2> QED
      BY <2>1 DEF Loading
  <1>4. CASE D!Walk \/ D!Walked
    <2>1. dumpPc' = "load" => bot' = D!Idle /\ res' = "none"
      BY <1>4, WalkIs, WalkedIs
    <2> QED
      BY <2>1 DEF Loading
  <1>5. CASE D!BlockRead \/ D!Loaded
    <2>1. bot' = D!Idle /\ res' = "none"
      BY <1>5, LoadIs
    <2> QED
      BY <2>1 DEF Loading
  <1>6. ASSUME NEW c \in Clusters, D!ReadBlock(c) PROVE Loading'
    <2>1. c # 0 /\ MSC_CBW'.block = c
      BY <1>6, ReadBlockIs, BeginIs, DumpAssumption
    <2> QED
      BY <2>1 DEF Loading
  <1>7. CASE UNCHANGED dumpVars
    BY <1>1, <1>7 DEF dumpVars
  <1>8. CASE D!WriteBlock \/ D!BlockWritten \/ D!Panic
    <2>1. dumpPc' \in {"panic", "done"}
      BY <1>8, WriteBlockIs, BlockWrittenIs, PanicIs
    <2> QED
      BY <1>2, <2>1
  <1>9. CASE D!Poll \/ D!HidReport
    BY <1>1, <1>9, InputIs
  <1>10. CASE D!StickOut
    BY <1>1, <1>10, StickOutIs
  <1>11. CASE D!StickIn
    BY <1>1, <1>11, StickInIs
  <1> QED
    BY <1>3, <1>4, <1>5, <1>6, <1>7, <1>8, <1>9, <1>10, <1>11, DumpSteps

LEMMA DumpInvInit == ASSUME MCInit PROVE DumpInv
  <1>1. D!Init
    BY DEF MCInit
  <1>2. Loading
    BY <1>1 DEF D!Init, Loading
  <1> QED
    BY <1>1, <1>2, TypesInit, OwnInit, FileInit, TagsInit, ReadInit, StepInit, DumpInit DEF DumpInv

LEMMA DumpInvStep == ASSUME DumpInv, [MCNext]_all PROVE DumpInv'
  <1>1. /\ DumpTypes /\ WritesOwn /\ FollowsFat /\ Tagged /\ Reading /\ Loading /\ Stepping
        /\ Dumping /\ Dumped
    BY DEF DumpInv
  <1>2. DumpTypes' /\ WritesOwn' /\ FollowsFat' /\ Tagged'
    BY <1>1, TypesStep, OwnStep, FileStep, TagsStep
  <1>3. Reading' /\ Loading' /\ Stepping'
    BY <1>1, ReadStep, LoadingStep, StepStep
  <1>4. Dumping' /\ Dumped'
    BY <1>1, DumpingStep, DumpedStep
  <1> QED
    BY <1>2, <1>3, <1>4 DEF DumpInv

\* The file found is all of CRASH.DMP.
LEMMA FileWhole ==
    ASSUME DumpInv, dumpPc # "resolve", file # <<>>
    PROVE  file = D!Chain
  BY ChainIs DEF DumpInv, FollowsFat

LEMMA DumpIsTrue == ASSUME DumpInv PROVE DumpTrue
  <1>1. ASSUME res = "ok", dumpPc = "load" PROVE MSC_DATA = disk[MSC_CBW.block]
    <2>1. MSC_DATA = Right /\ MSC_CBW.block # 0
      BY <1>1 DEF DumpInv, Reading, Loading
    <2> QED
      BY <2>1 DEF Right
  <1>2. ASSUME outcome = "written", NEW i \in 1 .. DumpLen
        PROVE  i <= Len(D!Chain) /\ disk[D!Chain[i]] = D!Dump(i)
    <2>1. /\ dumpPc = "done" /\ file # <<>> /\ DumpLen <= Len(file)
          /\ DumpLen > 0 => Have(DumpLen)
      BY <1>2 DEF DumpInv, Dumped
    <2>2. file = D!Chain
      BY <2>1, FileWhole
    <2>3. DumpLen \in Nat /\ Len(file) \in Nat
      BY DumpAssumption DEF DumpInv, DumpTypes
    <2>4. DumpLen > 0 /\ i <= Len(file)
      BY <2>1, <2>3
    <2> QED
      BY <2>1, <2>2, <2>4 DEF Have
  <1> QED
    BY <1>1, <1>2, FileWhole DEF DumpTrue, D!DumpTrue

LEMMA OwnOnly ==
    ASSUME DumpInv, [MCNext]_all
    PROVE  [\A c \in Clusters : disk'[c] # disk[c] =>
                \E i \in 1 .. Len(D!Chain) : D!Chain[i] = c]_(D!vars)
  <1> SUFFICES ASSUME ~UNCHANGED D!vars, NEW c \in Clusters, disk'[c] # disk[c]
               PROVE  \E i \in 1 .. Len(D!Chain) : D!Chain[i] = c
    OBVIOUS
  <1>1. DumpTypes /\ WritesOwn
    BY DEF DumpInv
  <1>2. D!StickOut
    BY <1>1, DumpSteps, AnswerIs, GiveUpIs, WalkIs, WalkedIs, LoadIs, WriteBlockIs, BlockWrittenIs,
       InputIs, PanicIs, StickInIs, ReadBlockIs
       DEF dumpVars
  <1>3. stick.phase = "out" /\ disk' = [disk EXCEPT ![stick.cmd.block] = MSC_DATA]
    BY <1>1, <1>2, StickOutIs
  <1>4. c = stick.cmd.block
    BY <1>1, <1>3 DEF DumpTypes
  <1>5. dumpPc # "resolve" /\ OwnBlock(c)
    BY <1>1, <1>3, <1>4 DEF WritesOwn
  <1>6. file # <<>>
    BY <1>5 DEF OwnBlock
  <1> QED
    BY <1>5, <1>6, FileWhole DEF OwnBlock

\* A block that read_block hands over is the block asked for, whatever waits
\* gave up and however the stick is behind; CRASH.DMP is resolved to its own
\* clusters in order, or not at all; and a dump that write_to_usb reports as
\* written is in the file, whole and in order, wherever the fault came: for
\* every volume, file, length of the dump and of the rings, and any number of
\* late answers, errors and reports of input devices.
THEOREM DumpAlwaysTrue == MCFairSpec => []DumpTrue
  <1>1. MCInit => DumpInv
    BY DumpInvInit
  <1>2. DumpInv /\ [MCNext]_all => DumpInv'
    BY DumpInvStep
  <1>3. DumpInv => DumpTrue
    BY DumpIsTrue
  <1> QED
    BY <1>1, <1>2, <1>3, PTL DEF MCFairSpec

\* No step of the driver or of the stick changes a block that is not one of
\* CRASH.DMP's: the commands that write are only the panic handler's, and the
\* stick carries one out only as it was given.
THEOREM OnlyCrashFileWritten == MCFairSpec => OnlyCrashFile
  <1>1. MCInit => DumpInv
    BY DumpInvInit
  <1>2. DumpInv /\ [MCNext]_all => DumpInv'
    BY DumpInvStep
  <1>3. DumpInv /\ [MCNext]_all =>
            [\A c \in Clusters : disk'[c] # disk[c] =>
                \E i \in 1 .. Len(D!Chain) : D!Chain[i] = c]_(D!vars)
    BY OwnOnly
  <1> QED
    BY <1>1, <1>2, <1>3, PTL DEF MCFairSpec, OnlyCrashFile, D!OnlyCrashFile
=============================================================================
