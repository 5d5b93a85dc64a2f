---------------------------- MODULE SpaceTimers ----------------------------
(***************************************************************************)
(* The stopwatch and the countdown timer of the bare-metal screen, whose   *)
(* numbers live in memory where a bit may flip on its own, and the policy  *)
(* that decides when those numbers are checked (space_mode.rs).            *)
(*                                                                         *)
(* A number is a Protected word: a plain load returns what memory holds    *)
(* (raw); a verification decodes the Hamming code, repairs one flipped     *)
(* bit, asks the two replicas when two bits flipped, and gives up when     *)
(* the replicas cannot agree.  Module Redundancy checks the code itself;   *)
(* here a word carries the set of bits flipped, and the decoder's verdict  *)
(* depends on how many there are, up to its design limit of two.           *)
(*                                                                         *)
(* truth is a history variable: what each word would hold had no bit ever  *)
(* flipped.  It is what the properties compare the stored values with.     *)
(*                                                                         *)
(* The count of upsets kept for the status line is left out: nothing       *)
(* depends on it.                                                          *)
(***************************************************************************)
EXTENDS Integers, Sequences, FiniteSetsExt

CONSTANTS
    Width,              \* bits of a counter value (64 in the code)
    Laps,               \* the names of the lap words, oldest first
    DEFAULT_NS, STEP_NS,
    SCRUB_INTERVAL_NS, EMERGENCY_HOLD_NS,
    NsPerTick,          \* the calibration
    Sessions,           \* bound: [tabs, exposed, strikes, ticks], the tabs a session visits,
                        \* the words struck in it, how often, and until what counter value
    None

\* The words there are whatever laps were taken.
StopwatchCounters == {"accumulated", "started_at"}
TimerWords == {"target_ns", "spent", "timer_started_at"}
Fixed == StopwatchCounters \cup TimerWords

ASSUME SpaceAssumption ==
    /\ {Width, NsPerTick, STEP_NS, SCRUB_INTERVAL_NS} \subseteq Nat \ {0}
    /\ {DEFAULT_NS, EMERGENCY_HOLD_NS} \subseteq Nat
    /\ \A s \in Sessions : s.tabs \subseteq {"Clock", "Stopwatch", "Timer", "Bench"}
    /\ Laps \in Seq(STRING) /\ Len(Laps) > 0
    /\ \A i \in 1 .. Len(Laps) : Laps[i] \notin Fixed
    /\ None \notin Nat

VARIABLES
    words,      \* every protected word by name
    truth,      \* what it would hold without strikes (history)
    lap_count,
    stopwatch,  \* "running" or "idle"
    timer,      \* "running", "idle" or "expired"
    tab,
    bench,      \* bench_requested: "no" or "asked"; "running" while it holds up the frame
    mode,       \* [name, since_ns]: Mode::Normal or Mode::Emergency
    last_scrub_ns,
    unrecoverable,  \* the latch: "set" or "clear"
    now,        \* the counter
    drawn,      \* the counter at the last frame's readout
    looked,     \* the counter when the frame last begun read its clock
    shown,      \* the tab's last readout (history): "plain" when not drawn, not verified
                \* or under a reported loss, otherwise "exact" or "wrong"
    waived,     \* "yes" when a reset of the stopwatch took back a reported loss since
                \* the timer was last put to zero (history)
    session,    \* the one of Sessions that runs
    strikes

vars == <<words, truth, lap_count, stopwatch, timer, tab, bench, mode, last_scrub_ns,
          unrecoverable, now, drawn, looked, shown, waived, session, strikes>>
space == <<mode, last_scrub_ns, unrecoverable>>
screen == <<drawn, looked, shown>>
world == <<now, session, strikes>>

Tabs == UNION {s.tabs : s \in Sessions}
Values == 0 .. 2^Width - 1
LapWords == {Laps[i] : i \in 1 .. lap_count}
StopwatchWords == StopwatchCounters \cup LapWords
Live == StopwatchWords \cup TimerWords
NowNs == now * NsPerTick
Wrap(v) == v % 2^Width

-----------------------------------------------------------------------------
(* Protected words and verdicts, ordered by Integrity::severity *)

Clean == 0
CorrectedByEcc == 1
CorrectedByTmr == 2
Unrecoverable == 3

\* good: what was stored; flips: the bits of the working copy that are wrong,
\* those from Width on being in the check byte; spares: whether the replicas
\* still agree; at: since when it holds damage a verification would repair
\* (history).
Bits == 0 .. Width
Protected(v) == [good |-> v, flips |-> {}, spares |-> "agree", at |-> None]

\* Protected::get, a plain load: what was stored, if no bit flipped since.
Bit(v, k) == (v \div 2^k) % 2
Struck(w) == w.good + MapThenSumSet(LAMBDA k : IF Bit(w.good, k) = 1 THEN -(2^k) ELSE 2^k,
                                    {k \in w.flips : k < Width})
Get(w) == IF w.flips = {} THEN w.good ELSE Struck(w)

Set(ws, n, v) == [ws EXCEPT ![n] = Protected(v)]

\* Protected::verify: the word afterwards, and the verdict.
Verified(w) ==
    IF Cardinality(w.flips) = 1 \/ (Cardinality(w.flips) = 2 /\ w.spares = "agree")
    THEN Protected(w.good) ELSE w

Verdict(w) ==
    CASE Cardinality(w.flips) = 0 -> Clean
      [] Cardinality(w.flips) = 1 -> CorrectedByEcc
      [] OTHER -> IF w.spares = "agree" THEN CorrectedByTmr ELSE Unrecoverable

\* Damage a verification would repair.
Repairable(w) == Verdict(w) \in {CorrectedByEcc, CorrectedByTmr}

VerifyAll(ws, names) == [n \in DOMAIN ws |-> IF n \in names THEN Verified(ws[n]) ELSE ws[n]]
Worst(ws, names) == Max({Verdict(ws[n]) : n \in names})

Raw(ws) == [n \in DOMAIN ws |-> Get(ws[n])]

-----------------------------------------------------------------------------
(* SpaceMode *)

verify_reads == mode.name = "Emergency"

\* Mutant: one interval is not enough.
MutScrubLate(now_ns) ==
    last_scrub_ns = None \/ now_ns - last_scrub_ns > SCRUB_INTERVAL_NS

scrub_due(now_ns) ==
    last_scrub_ns = None \/ now_ns - last_scrub_ns >= SCRUB_INTERVAL_NS

\* SpaceMode::record, as the mode and the latch that follow from m and l.
RecordMode(m, l, outcome, now_ns) ==
    IF outcome # Clean THEN [name |-> "Emergency", since_ns |-> now_ns]
    ELSE IF m.name = "Emergency" /\ l = "clear" /\ now_ns - m.since_ns >= EMERGENCY_HOLD_NS
         THEN [name |-> "Normal", since_ns |-> 0] ELSE m

RecordLatch(l, outcome) == IF outcome = Unrecoverable THEN "set" ELSE l

Record(outcome) ==
    /\ mode' = RecordMode(mode, unrecoverable, outcome, NowNs)
    /\ unrecoverable' = RecordLatch(unrecoverable, outcome)
    /\ UNCHANGED last_scrub_ns

-----------------------------------------------------------------------------
(* The two instruments, over plain values (loaded or true) *)

Ticks(vs) ==
    IF stopwatch = "running" THEN Wrap(vs["accumulated"] + Wrap(now - vs["started_at"]))
    ELSE vs["accumulated"]

ElapsedTicks(vs) ==
    IF timer = "running" THEN Wrap(vs["spent"] + Wrap(now - vs["timer_started_at"]))
    ELSE vs["spent"]

TicksToNs(t) == t * NsPerTick
AtZero(vs) == TicksToNs(ElapsedTicks(vs)) >= vs["target_ns"]
Remaining(vs) == IF AtZero(vs) THEN 0 ELSE vs["target_ns"] - TicksToNs(ElapsedTicks(vs))

Init ==
    LET zero == [n \in Fixed \cup {Laps[i] : i \in 1 .. Len(Laps)} |->
                    IF n = "target_ns" THEN DEFAULT_NS ELSE 0]
    IN  /\ words = [n \in DOMAIN zero |-> Protected(zero[n])]
        /\ truth = zero
        /\ lap_count = 0 /\ stopwatch = "idle" /\ timer = "idle"
        /\ session \in Sessions /\ tab \in session.tabs /\ bench = "no"
        /\ mode = [name |-> "Normal", since_ns |-> 0]
        /\ last_scrub_ns = None /\ unrecoverable = "clear"
        /\ now = 0 /\ drawn = 0 /\ looked = 0 /\ strikes = 0
        /\ shown = "plain" /\ waived = "no"

\* Stopwatch::toggle.
ToggleStopwatch ==
    IF stopwatch = "running"
    THEN LET ws == VerifyAll(words, StopwatchCounters)
         IN  /\ words' = Set(ws, "accumulated", Ticks(Raw(ws)))
             /\ truth' = [truth EXCEPT !["accumulated"] = Ticks(truth)]
             /\ stopwatch' = "idle"
             /\ Record(Worst(words, StopwatchCounters))
    ELSE /\ words' = Set(words, "started_at", now)
         /\ truth' = [truth EXCEPT !["started_at"] = now]
         /\ stopwatch' = "running"
         /\ Record(Clean)

\* Timer::toggle.
ToggleTimer ==
    CASE timer = "expired" -> Record(Clean) /\ UNCHANGED <<words, truth, timer>>
      [] timer = "running" ->
            LET ws == VerifyAll(words, TimerWords)
            IN  /\ words' = Set(ws, "spent", ElapsedTicks(Raw(ws)))
                /\ truth' = [truth EXCEPT !["spent"] = ElapsedTicks(truth)]
                /\ timer' = "idle"
                /\ Record(Worst(words, TimerWords))
      [] OTHER ->
            /\ words' = Set(words, "timer_started_at", now)
            /\ truth' = [truth EXCEPT !["timer_started_at"] = now]
            /\ timer' = "running"
            /\ Record(Clean)

\* Space, P or a click on the readout.  On the benchmarks it asks for the one
\* selected, if the machine has it.
Toggle ==
    /\ \/ tab = "Stopwatch" /\ ToggleStopwatch /\ UNCHANGED <<timer, bench>>
       \/ tab = "Timer" /\ ToggleTimer /\ UNCHANGED <<stopwatch, bench>>
       \/ /\ tab = "Clock" /\ Record(Clean)
          /\ UNCHANGED <<words, truth, stopwatch, timer, bench>>
       \/ /\ tab = "Bench" /\ Record(Clean) /\ bench' \in {bench, "asked"}
          /\ UNCHANGED <<words, truth, stopwatch, timer>>
    /\ UNCHANGED <<lap_count, tab, screen, waived, world>>

\* Enter, or a click on a row, asks for a benchmark and records nothing.
AskBench ==
    /\ tab = "Bench" /\ bench' = "asked"
    /\ UNCHANGED <<words, truth, lap_count, stopwatch, timer, tab, space, screen, waived, world>>

\* The oldest lap goes and the others move up.
Shifted(f) ==
    [n \in DOMAIN f |->
        IF \E i \in 1 .. Len(Laps) - 1 : Laps[i] = n
        THEN f[Laps[1 + CHOOSE i \in 1 .. Len(Laps) - 1 : Laps[i] = n]] ELSE f[n]]

\* Stopwatch::lap, dropping the oldest lap once the table is full.
Lap ==
    LET ws == VerifyAll(words, StopwatchCounters)
        full == lap_count = Len(Laps)
        slot == IF full THEN lap_count ELSE lap_count + 1
        rotated(f) == IF full THEN Shifted(f) ELSE f
    IN  /\ tab = "Stopwatch"
        /\ words' = Set(rotated(ws), Laps[slot], Ticks(Raw(ws)))
        /\ truth' = [rotated(truth) EXCEPT ![Laps[slot]] = Ticks(truth)]
        /\ lap_count' = slot
        /\ Record(Worst(words, StopwatchCounters))
        /\ UNCHANGED <<stopwatch, timer, tab, bench, screen, waived, world>>

\* Z on the stopwatch: everything to zero, and the latch is cleared.
ResetStopwatch ==
    LET names == StopwatchCounters \cup {Laps[i] : i \in 1 .. Len(Laps)}
    IN  /\ tab = "Stopwatch"
        /\ words' = [n \in DOMAIN words |-> IF n \in names THEN Protected(0) ELSE words[n]]
        /\ truth' = [n \in DOMAIN truth |-> IF n \in names THEN 0 ELSE truth[n]]
        /\ stopwatch' = "idle" /\ lap_count' = 0
        /\ unrecoverable' = "clear"
        /\ waived' = IF unrecoverable = "set" THEN "yes" ELSE waived
        /\ UNCHANGED <<timer, tab, bench, mode, last_scrub_ns, screen, world>>

\* Z on the timer.
ResetTimer ==
    /\ tab = "Timer"
    /\ words' = Set(words, "spent", 0)
    /\ truth' = [truth EXCEPT !["spent"] = 0]
    /\ timer' = "idle" /\ waived' = "no"
    /\ UNCHANGED <<stopwatch, lap_count, tab, bench, space, screen, world>>

\* The target one step up or down, saturating, never below a step.
Adjusted(target, up) ==
    IF up THEN Min({target + STEP_NS, 2^Width - 1}) ELSE Max({target - STEP_NS, STEP_NS})

\* Up and Down on the timer.  The target is loaded, not verified.
Adjust(up) ==
    /\ tab = "Timer" /\ timer # "running"
    /\ words' = Set(Set(words, "target_ns", Adjusted(Get(words["target_ns"]), up)), "spent", 0)
    /\ truth' = [truth EXCEPT !["target_ns"] = Adjusted(@, up), !["spent"] = 0]
    /\ timer' = "idle" /\ waived' = "no"
    /\ UNCHANGED <<stopwatch, lap_count, tab, bench, space, screen, world>>

\* Another tab is shown; its readout is drawn with the next frame.
SelectTab(t) ==
    /\ t \in session.tabs \ {tab}
    /\ tab' = t /\ shown' = "plain"
    /\ UNCHANGED <<words, truth, lap_count, stopwatch, timer, bench, space, drawn, looked,
                   waived, world>>

\* Mutant: Emergency reads like Normal.
MutReadPlain(ws, checked) ==
    [words |-> ws, timer |-> timer, truth |-> truth,
     val |-> TicksToNs(Ticks(Raw(ws))), right |-> TicksToNs(Ticks(truth)), verdict |-> Clean]

\* The readout of the selected tab over words ws: the words, the timer and the
\* truth afterwards, what is shown and should be, and the verdict.
ReadStopwatch(ws, checked) ==
    LET read == IF checked THEN VerifyAll(ws, StopwatchCounters) ELSE ws
    IN  [words |-> read, timer |-> timer, truth |-> truth,
         val |-> TicksToNs(Ticks(Raw(read))), right |-> TicksToNs(Ticks(truth)),
         verdict |-> IF checked THEN Worst(ws, StopwatchCounters) ELSE Clean]

\* Mutant: expiry stores the total without verifying it first.
MutExpiryUnverified(ws, checked) ==
    LET read == IF checked THEN VerifyAll(ws, TimerWords) ELSE ws
        over == AtZero(Raw(read)) /\ timer = "running"
    IN  [words |-> IF over THEN Set(read, "spent", ElapsedTicks(Raw(read))) ELSE read,
         timer |-> IF over THEN "expired" ELSE timer,
         truth |-> IF over THEN [truth EXCEPT !["spent"] = ElapsedTicks(truth)] ELSE truth,
         val |-> Remaining(Raw(read)), right |-> Remaining(truth),
         verdict |-> IF checked THEN Worst(ws, TimerWords) ELSE Clean]

ReadTimer(ws, checked) ==
    LET read == IF checked THEN VerifyAll(ws, TimerWords) ELSE ws
        over == AtZero(Raw(read)) /\ timer = "running"
        stored == VerifyAll(read, TimerWords)
    IN  [words |-> IF over THEN Set(stored, "spent", ElapsedTicks(Raw(stored))) ELSE read,
         timer |-> IF over THEN "expired" ELSE timer,
         truth |-> IF over THEN [truth EXCEPT !["spent"] = ElapsedTicks(truth)] ELSE truth,
         val |-> Remaining(Raw(read)), right |-> Remaining(truth),
         verdict |-> IF checked \/ over THEN Worst(ws, TimerWords) ELSE Clean]

\* The clock's readout, or the benchmarks': no protected word is read.
ReadOther(ws) ==
    [words |-> ws, timer |-> timer, truth |-> truth, val |-> NowNs, right |-> NowNs,
     verdict |-> Clean]

\* A frame that finds a benchmark asked for reads its clock and is then held up
\* by the three passes.
RunBench ==
    /\ bench = "asked" /\ bench' = "running"
    /\ looked' = now
    /\ UNCHANGED <<words, truth, lap_count, stopwatch, timer, tab, space, drawn, shown,
                   waived, world>>

\* One turn of the main loop: the scrub when it is due by the clock as the turn
\* found it, before any benchmark, then the readout by the clock as it is now.
Frame ==
    LET start == IF bench = "running" THEN looked ELSE now
        start_ns == start * NsPerTick
        due == scrub_due(start_ns)
        scrubbed == IF due THEN VerifyAll(words, Live) ELSE words
        found == Worst(words, Live)
        m == IF due THEN RecordMode(mode, unrecoverable, found, start_ns) ELSE mode
        l == IF due THEN RecordLatch(unrecoverable, found) ELSE unrecoverable
        checked == m.name = "Emergency"
        r == CASE tab = "Stopwatch" -> ReadStopwatch(scrubbed, checked)
               [] tab = "Timer" -> ReadTimer(scrubbed, checked)
               [] OTHER -> ReadOther(scrubbed)
        noted == tab \in {"Stopwatch", "Timer"}
    IN  /\ bench # "asked" /\ bench' = "no"
        /\ words' = r.words /\ timer' = r.timer /\ truth' = r.truth
        /\ unrecoverable' = IF noted THEN RecordLatch(l, r.verdict) ELSE l
        /\ shown' = CASE ~checked \/ tab = "Bench" \/ unrecoverable' = "set" -> "plain"
                      [] r.val = r.right -> "exact"
                      [] OTHER -> "wrong"
        /\ last_scrub_ns' = IF due THEN start_ns ELSE last_scrub_ns
        /\ mode' = IF noted THEN RecordMode(m, l, r.verdict, NowNs) ELSE m
        /\ drawn' = now /\ looked' = start
        /\ UNCHANGED <<lap_count, stopwatch, tab, waived, world>>

\* Time passes; the loop draws at least one frame per tick, unless a benchmark
\* holds it up.
Tick ==
    /\ now < session.ticks /\ (drawn = now \/ bench = "running")
    /\ now' = now + 1
    /\ UNCHANGED <<words, truth, lap_count, stopwatch, timer, tab, bench, space, screen,
                   waived, session, strikes>>

\* A particle flips one or two bits of a word, or spoils its replicas, or both.
Strike(n, bits, spares) ==
    LET left == SymDiff(words[n].flips, bits)
    IN  /\ strikes < session.strikes
        /\ n \in session.exposed
        /\ Cardinality(left) <= 2
        /\ words' = [words EXCEPT ![n] =
            [good |-> words[n].good, flips |-> left,
             spares |-> IF spares THEN "differ" ELSE words[n].spares,
             at |-> IF left = {} THEN None
                    ELSE IF Repairable(words[n]) THEN words[n].at ELSE now]]
        /\ strikes' = strikes + 1
        /\ UNCHANGED <<truth, lap_count, stopwatch, timer, tab, bench, space, screen, waived,
                       now, session>>

\* Keys and clicks, which a running benchmark keeps waiting.
Input ==
    /\ bench # "running"
    /\ \/ Toggle
       \/ AskBench
       \/ Lap
       \/ ResetStopwatch
       \/ ResetTimer
       \/ \E up \in BOOLEAN : Adjust(up)
       \/ \E t \in Tabs : SelectTab(t)

Next ==
    \/ Input
    \/ RunBench
    \/ Frame
    \/ Tick
    \/ \E n \in Live, bits \in {{b, c} : b, c \in Bits}, spares \in BOOLEAN :
            Strike(n, bits, spares)

Spec == Init /\ [][Next]_vars

-----------------------------------------------------------------------------
(* Properties *)

\* Counters stay in their width and the history keeps up with the words.
TypeOK ==
    /\ DOMAIN words = DOMAIN truth /\ Live \subseteq DOMAIN words
    /\ \A n \in DOMAIN words :
        words[n] \in [good : Values, flips : SUBSET Bits, spares : {"agree", "differ"},
                     at : 0 .. session.ticks \cup {None}]
    /\ truth \in [DOMAIN words -> Values]
    /\ lap_count \in 0 .. Len(Laps)
    /\ stopwatch \in {"idle", "running"} /\ timer \in {"idle", "running", "expired"}
    /\ session \in Sessions /\ tab \in session.tabs
    /\ bench \in {"no", "asked", "running"} /\ waived \in {"no", "yes"}
    /\ mode.name \in {"Normal", "Emergency"} /\ mode.since_ns <= NowNs
    /\ unrecoverable \in {"clear", "set"}
    /\ drawn <= now /\ looked <= now

Trusted(names) ==
    \A n \in names : words[n].good # truth[n] => unrecoverable = "set"

\* Pauses, laps, expiry and resets verify before they store: a flipped bit is
\* never banked and re-encoded as good in the stopwatch, unless the loss was
\* reported and is still latched; nor in the ticks the timer has spent, unless,
\* besides, the latch that reported it was cleared by a reset of the stopwatch,
\* which it serves too, since those ticks were last put to zero.
BankedTrusted ==
    /\ Trusted(StopwatchWords)
    /\ waived = "no" => Trusted({"spent", "timer_started_at"})

\* Damage that can be repaired never survives a frame whose clock, read as the
\* frame began, stood a scrub interval or more after it was done, whichever tab
\* is shown and whatever the user does.  A benchmark run in the frame comes
\* after that reading and delays the repair by as long as it runs.
ScrubbedInTime ==
    bench # "running" =>
        \A n \in Live : Repairable(words[n]) =>
            (looked - words[n].at) * NsPerTick < SCRUB_INTERVAL_NS

\* In Emergency every readout is verified: what the stopwatch shows is what an
\* undamaged machine would show, or the loss is reported.  (The timer's target
\* may carry a banked flip, see TargetTrusted.)
EmergencyReadsExact == tab = "Stopwatch" => shown # "wrong"

\* "Set when it reaches zero": the timer expires only if its target has really
\* been spent, or a loss was reported.
ExpiredAtZero == timer = "expired" /\ unrecoverable = "clear" => AtZero(truth)

\* "at every transition that stores a value ... since that is where a flipped
\* bit would otherwise be written back as good": also a target that is adjusted.
TargetTrusted == Trusted({"target_ns"})
=============================================================================
