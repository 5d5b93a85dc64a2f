------------------------------ MODULE Reprobe ------------------------------
(***************************************************************************)
(* The hypervisor probe of a process and the cooldown on repeating it:     *)
(* cached, latest and reprobe of core/hypervisor.rs, called from any       *)
(* thread, over the gate of core/reprobe.rs.                               *)
(*                                                                         *)
(* A detection makes a guest exit many times, so what counts is when one   *)
(* begins.  The clock is read before the gate is locked and the detection  *)
(* begins after it was unlocked: time may pass at both places.             *)
(***************************************************************************)
EXTENDS Integers, FiniteSets

CONSTANTS
    Threads,
    DEFAULT_COOLDOWN,
    MaxTime, MaxSwitches    \* bounds: the clock, uses of the switch

\* What the constants are.
ReprobeConstants == IsFiniteSet(Threads) /\ DEFAULT_COOLDOWN \in Nat \ {0}

VARIABLES
    now,            \* monotonic_ns
    cooldown, last, \* GATE: 0 is no wait; Never is no probe yet
    cache,          \* CACHE: "empty", "busy" or "done"
    latest,         \* whether LATEST has the report of a re-probe
    pc,             \* where a thread is
    read,           \* the clock as a thread read it
    switches,
    first,          \* history: when the first detection began
    paid            \* history: a cooldown for each one after it, until the switch is used

gate == <<cooldown, last>>
history == <<first, paid>>
vars == <<now, cooldown, last, cache, latest, pc, read, switches, first, paid>>

Never == -1

Go(t, from, to) == pc[t] = from /\ pc' = [pc EXCEPT ![t] = to]

\* HypervisorReport::detect begins.
Detect ==
    /\ first' = IF first = Never THEN now ELSE first
    /\ paid' = IF first = Never \/ switches > 0 THEN paid ELSE paid + DEFAULT_COOLDOWN

-----------------------------------------------------------------------------
(* cached: the first caller detects, any other waits for it.               *)

\* A thread asks for the report (latest) or for a new detection (reprobe).
Latest(t) ==
    /\ pc[t] = "idle" /\ ~latest
    /\ Go(t, "idle", "cached_latest")
    /\ UNCHANGED <<now, gate, cache, latest, read, switches, history>>

\* Mutant: a re-probe does not wait for the first probe.
MutReprobe(t) ==
    /\ Go(t, "idle", "clock")
    /\ UNCHANGED <<now, gate, cache, latest, read, switches, history>>

Reprobe(t) ==
    /\ Go(t, "idle", "cached_reprobe")
    /\ UNCHANGED <<now, gate, cache, latest, read, switches, history>>

CacheHit(t) ==
    /\ cache = "done"
    /\ Go(t, "cached_latest", "idle") \/ Go(t, "cached_reprobe", "clock")
    /\ UNCHANGED <<now, gate, cache, latest, read, switches, history>>

CacheMiss(t) ==
    /\ cache = "empty" /\ cache' = "busy"
    /\ Go(t, "cached_latest", "first_latest") \/ Go(t, "cached_reprobe", "first_reprobe")
    /\ Detect
    /\ UNCHANGED <<now, gate, latest, read, switches>>

Initialising(t) == pc[t] \in {"first_latest", "first_reprobe"}

\* The detection is over; the clock is read for the gate.
FirstClock(t) ==
    /\ Initialising(t) /\ read[t] = Never
    /\ read' = [read EXCEPT ![t] = now]
    /\ UNCHANGED <<now, gate, cache, latest, pc, switches, history>>

-----------------------------------------------------------------------------
(* The gate.                                                               *)

\* remaining_ns, with its saturating subtractions.
Remaining(t) ==
    LET gone == IF read[t] < last THEN 0 ELSE read[t] - last
    IN  IF last = Never \/ cooldown = 0 \/ gone >= cooldown THEN 0 ELSE cooldown - gone

\* The first probe is recorded, whatever the gate says of it.
FirstRecorded(t) ==
    /\ Initialising(t) /\ read[t] # Never
    /\ last' = IF Remaining(t) = 0 THEN read[t] ELSE last
    /\ cache' = "done"
    /\ Go(t, "first_latest", "idle") \/ Go(t, "first_reprobe", "clock")
    /\ read' = [read EXCEPT ![t] = Never]
    /\ UNCHANGED <<now, cooldown, latest, switches, history>>

\* reprobe goes on: the clock, then the gate.
Clock(t) ==
    /\ Go(t, "clock", "gate")
    /\ read' = [read EXCEPT ![t] = now]
    /\ UNCHANGED <<now, gate, cache, latest, switches, history>>

TryBegin(t) ==
    /\ \/ Remaining(t) = 0 /\ last' = read[t] /\ Go(t, "gate", "granted")
       \/ Remaining(t) > 0 /\ last' = last /\ Go(t, "gate", "idle")
    /\ read' = [read EXCEPT ![t] = Never]
    /\ UNCHANGED <<now, cooldown, cache, latest, switches, history>>

Begin(t) ==
    /\ Go(t, "granted", "detect")
    /\ Detect
    /\ UNCHANGED <<now, gate, cache, latest, read, switches>>

Store(t) ==
    /\ Go(t, "detect", "idle")
    /\ latest' = TRUE
    /\ UNCHANGED <<now, gate, cache, read, switches, history>>

\* set_reprobe_cooldown_enabled.
Switch ==
    /\ switches < MaxSwitches
    /\ switches' = switches + 1
    /\ cooldown' = IF cooldown = 0 THEN DEFAULT_COOLDOWN ELSE 0
    /\ UNCHANGED <<now, last, cache, latest, pc, read, history>>

Tick ==
    /\ now < MaxTime
    /\ now' = now + 1
    /\ UNCHANGED <<gate, cache, latest, pc, read, switches, history>>

-----------------------------------------------------------------------------
Init ==
    /\ now = 0
    /\ cooldown = DEFAULT_COOLDOWN /\ last = Never
    /\ cache = "empty" /\ latest = FALSE
    /\ pc = [t \in Threads |-> "idle"]
    /\ read = [t \in Threads |-> Never]
    /\ switches = 0
    /\ first = Never /\ paid = 0

Step(t) ==
    \/ CacheHit(t) \/ CacheMiss(t) \/ FirstClock(t) \/ FirstRecorded(t)
    \/ Clock(t) \/ TryBegin(t) \/ Begin(t) \/ Store(t)

Next ==
    \/ \E t \in Threads : Latest(t) \/ Reprobe(t) \/ Step(t)
    \/ Switch \/ Tick

Spec == Init /\ [][Next]_vars

-----------------------------------------------------------------------------
(* Properties.                                                             *)

\* As long as the wait was never switched off, the detections begun since the
\* first one are at most one for each cooldown that has passed, whatever
\* threads ask at once and however long they are held up between the clock,
\* the gate and the probe.
ProbesPaced == switches = 0 /\ first # Never => paid <= now - first
=============================================================================
