------------------------ MODULE SpaceTimersProofs -------------------------
(***************************************************************************)
(* Theorems about SpaceTimers, for counters of any width, any calibration, *)
(* any intervals and any number of laps: repairable damage is scrubbed in  *)
(* time, a verified readout is exact, and no flipped bit is banked.        *)
(***************************************************************************)
EXTENDS SpaceTimers, FiniteSetTheorems, TLAPS

LapNames == {Laps[i] : i \in 1 .. Len(Laps)}
Names == Fixed \cup LapNames

\* A word as the strikes leave it: within the decoder's design limit.
Word(w) ==
    /\ w.flips \subseteq Bits /\ Cardinality(w.flips) <= 2
    /\ w.spares \in {"agree", "differ"}

Table(ws) == DOMAIN ws = Names /\ \A n \in Names : Word(ws[n])

----------------------------------------------------------------------------
(* Words and verdicts.                                                     *)

\* The flips of a word are none, one or two.
LEMMA FlipCount ==
    ASSUME NEW w, Word(w)
    PROVE  /\ Cardinality(w.flips) \in {0, 1, 2}
           /\ Cardinality(w.flips) = 0 <=> w.flips = {}
  <1>1. IsFiniteSet(Bits)
    BY FS_Interval, SpaceAssumption DEF Bits
  <1>2. IsFiniteSet(w.flips)
    BY <1>1, FS_Subset DEF Word
  <1>3. Cardinality(w.flips) \in Nat /\ (Cardinality(w.flips) = 0 <=> w.flips = {})
    BY <1>2, FS_CardinalityType, FS_EmptySet
  <1> QED
    BY <1>3 DEF Word

\* A word just stored is undamaged and reads as what was stored.
LEMMA ProtectedIs ==
    ASSUME NEW v
    PROVE  /\ Word(Protected(v)) /\ Protected(v).good = v
           /\ Get(Protected(v)) = v
           /\ ~Repairable(Protected(v))
  <1>1. Cardinality({}) = 0
    BY FS_EmptySet
  <1> QED
    BY <1>1 DEF Word, Protected, Get, Repairable, Verdict, Clean, CorrectedByEcc, CorrectedByTmr

\* Verification changes no stored value, leaves nothing it could repair, and
\* gives a word that reads as what was stored unless it gave up.
LEMMA VerifiedIs ==
    ASSUME NEW w, Word(w)
    PROVE  /\ Word(Verified(w)) /\ Verified(w).good = w.good
           /\ ~Repairable(Verified(w))
           /\ Verdict(w) \in 0 .. 3
           /\ Verdict(w) # Unrecoverable => Get(Verified(w)) = w.good
  <1> USE FlipCount DEF Clean, CorrectedByEcc, CorrectedByTmr, Unrecoverable
  <1>1. CASE Cardinality(w.flips) = 0
    <2>1. Verified(w) = w /\ Verdict(w) = 0 /\ w.flips = {}
      BY <1>1 DEF Verified, Verdict
    <2> QED
      BY <2>1 DEF Repairable, Get
  <1>2. CASE Cardinality(w.flips) = 1
    <2>1. Verified(w) = Protected(w.good) /\ Verdict(w) = 1
      BY <1>2 DEF Verified, Verdict
    <2> QED
      BY <2>1, ProtectedIs
  <1>3. CASE Cardinality(w.flips) = 2 /\ w.spares = "agree"
    <2>1. Verified(w) = Protected(w.good) /\ Verdict(w) = 2
      BY <1>3 DEF Verified, Verdict
    <2> QED
      BY <2>1, ProtectedIs
  <1>4. CASE Cardinality(w.flips) = 2 /\ w.spares # "agree"
    <2>1. Verified(w) = w /\ Verdict(w) = 3
      BY <1>4 DEF Verified, Verdict
    <2> QED
      BY <2>1 DEF Repairable
  <1> QED
    BY <1>1, <1>2, <1>3, <1>4 DEF Word

\* Verifying again what verification did not give up on changes nothing.
LEMMA VerifiedTwice ==
    ASSUME NEW w, Word(w), Verdict(w) # Unrecoverable
    PROVE  Get(Verified(Verified(w))) = w.good
  <1>1. Word(Verified(w)) /\ Verified(w).good = w.good
    BY VerifiedIs
  <1>2. Verified(w).flips = {}
    BY FlipCount DEF Verified, Verdict, Protected, Unrecoverable, Clean, CorrectedByEcc,
       CorrectedByTmr, Word
  <1>3. Verdict(Verified(w)) # Unrecoverable
    BY <1>1, <1>2, FlipCount DEF Verdict, Clean, Unrecoverable
  <1> QED
    BY <1>1, <1>3, VerifiedIs

\* The worst verdict of some words is a verdict, and is Unrecoverable if one
\* of them is.
LEMMA WorstIs ==
    ASSUME NEW ws, Table(ws), NEW names \in SUBSET Names, names # {}
    PROVE  \A n \in names : Verdict(ws[n]) = Unrecoverable =>
                Worst(ws, names) = Unrecoverable
  <1> DEFINE S == {Verdict(ws[n]) : n \in names}
  <1>1. \A n \in names : Verdict(ws[n]) \in 0 .. 3
    BY VerifiedIs DEF Table
  <1>2. S \subseteq 0 .. 3
    BY <1>1
  <1> SUFFICES ASSUME NEW n \in names, Verdict(ws[n]) = Unrecoverable
               PROVE  Max(S) = Unrecoverable
    BY DEF Worst
  <1>3. 3 \in S
    BY DEF Unrecoverable
  <1>4. \A x \in S : (\A y \in S : x >= y) <=> x = 3
    BY <1>2, <1>3
  <1>5. \E x \in S : \A y \in S : x >= y
    BY <1>3, <1>4
  <1>6. Max(S) \in S /\ \A y \in S : Max(S) >= y
    BY <1>5 DEF Max
  <1> QED
    BY <1>4, <1>6 DEF Unrecoverable

\* What verifying some words of a table does to it.
LEMMA AllVerified ==
    ASSUME NEW ws, Table(ws), NEW names \in SUBSET Names, names # {}
    PROVE  /\ Table(VerifyAll(ws, names))
           /\ \A n \in Names : VerifyAll(ws, names)[n].good = ws[n].good
           /\ \A n \in names : ~Repairable(VerifyAll(ws, names)[n])
           /\ \A n \in Names : Repairable(VerifyAll(ws, names)[n]) =>
                    VerifyAll(ws, names)[n] = ws[n]
           /\ Worst(ws, names) # Unrecoverable =>
                    \A n \in names : Raw(VerifyAll(ws, names))[n] = ws[n].good
  <1>1. \A n \in Names : VerifyAll(ws, names)[n] =
            IF n \in names THEN Verified(ws[n]) ELSE ws[n]
    BY DEF Table, VerifyAll
  <1>2. DOMAIN VerifyAll(ws, names) = Names
    BY DEF Table, VerifyAll
  <1>3. Table(VerifyAll(ws, names))
    BY <1>1, <1>2, VerifiedIs DEF Table
  <1>4. \A n \in names : Raw(VerifyAll(ws, names))[n] = Get(Verified(ws[n]))
    BY <1>1, <1>2 DEF Raw
  <1>5. Worst(ws, names) # Unrecoverable =>
            \A n \in names : Get(Verified(ws[n])) = ws[n].good
    BY WorstIs, VerifiedIs DEF Table
  <1> QED
    BY <1>1, <1>3, <1>4, <1>5, VerifiedIs DEF Table

\* Storing a value in a table.
LEMMA SetIs ==
    ASSUME NEW ws, Table(ws), NEW n \in Names, NEW v
    PROVE  /\ Table(Set(ws, n, v))
           /\ Set(ws, n, v)[n].good = v
           /\ ~Repairable(Set(ws, n, v)[n])
           /\ \A m \in Names \ {n} : Set(ws, n, v)[m] = ws[m]
  BY ProtectedIs DEF Set, Table

\* The instruments read nothing but their own words.
LEMMA TicksReads ==
    ASSUME NEW f, NEW g, \A n \in StopwatchCounters : f[n] = g[n]
    PROVE  Ticks(f) = Ticks(g)
  BY DEF Ticks, StopwatchCounters

LEMMA ElapsedReads ==
    ASSUME NEW f, NEW g, \A n \in {"spent", "timer_started_at"} : f[n] = g[n]
    PROVE  ElapsedTicks(f) = ElapsedTicks(g)
  BY DEF ElapsedTicks

\* Moving the laps up copies words, of laps to laps.
LEMMA ShiftedIs ==
    ASSUME NEW f, NEW g, DOMAIN f = Names, DOMAIN g = Names, NEW n \in Names
    PROVE  \E m \in Names :
                /\ Shifted(f)[n] = f[m] /\ Shifted(g)[n] = g[m]
                /\ m = n \/ {m, n} \subseteq LapNames
  <1>1. CASE \E i \in 1 .. Len(Laps) - 1 : Laps[i] = n
    <2> DEFINE i == CHOOSE i \in 1 .. Len(Laps) - 1 : Laps[i] = n
    <2>1. i \in 1 .. Len(Laps) - 1 /\ Laps[i] = n
      BY <1>1
    <2>2. Len(Laps) \in Nat
      BY SpaceAssumption
    <2>3. i + 1 \in 1 .. Len(Laps) /\ 1 + i = i + 1 /\ i \in 1 .. Len(Laps)
      BY <2>1, <2>2
    <2>4. Shifted(f)[n] = f[Laps[1 + i]] /\ Shifted(g)[n] = g[Laps[1 + i]]
      BY <1>1 DEF Shifted
    <2> HIDE DEF i
    <2>5. Laps[1 + i] \in Names /\ {Laps[1 + i], n} \subseteq LapNames
      BY <2>1, <2>3 DEF Names, LapNames
    <2> QED
      BY <2>4, <2>5
  <1>2. CASE ~\E i \in 1 .. Len(Laps) - 1 : Laps[i] = n
    <2>1. Shifted(f)[n] = f[n] /\ Shifted(g)[n] = g[n]
      BY <1>2 DEF Shifted
    <2> QED
      BY <2>1
  <1> QED
    BY <1>1, <1>2

----------------------------------------------------------------------------
(* The invariant.                                                          *)

Shape ==
    /\ Table(words) /\ DOMAIN truth = Names
    /\ lap_count \in 0 .. Len(Laps)
    /\ session \in Sessions /\ tab \in session.tabs

\* The last frame drawn read its clock less than a scrub interval after the last
\* scrub, and what can be repaired was damaged since that scrub.
Paced ==
    /\ now \in Nat /\ looked \in Nat /\ looked <= now
    /\ last_scrub_ns = None => looked = 0 \/ bench = "running"
    /\ last_scrub_ns # None =>
            /\ last_scrub_ns \in Nat /\ last_scrub_ns <= NowNs
            /\ bench # "running" => looked * NsPerTick - last_scrub_ns < SCRUB_INTERVAL_NS
    /\ \A n \in Live : Repairable(words[n]) =>
            /\ words[n].at \in Nat
            /\ last_scrub_ns = None \/ last_scrub_ns <= words[n].at * NsPerTick

\* What the stopwatch holds is right, or a loss is latched; when the timer
\* started is always right, being stored and never computed.
Started == words["timer_started_at"].good = truth["timer_started_at"]
Kept == Trusted(StopwatchWords) /\ Started

Inv == Shape /\ Paced /\ Kept

\* No live word has damage to repair that no live word had before.
Carried ==
    \A n \in Live' : Repairable(words'[n]) => \E m \in Live : words'[n] = words[m]

\* A step outside the frame: a benchmark that holds it up goes on doing so.
Held ==
    /\ UNCHANGED <<looked, session>>
    /\ bench = "running" => bench' = "running"

\* A step leaves these words and their truth alone, damage apart.
Untouched(names) ==
    \A n \in names : words'[n].good = words[n].good /\ truth'[n] = truth[n]

\* What the timer has spent changes on its tab only, and stays right through a
\* step that ends, as it began, with no loss latched.
Banked ==
    /\ tab # "Timer" => Untouched({"spent"})
    /\ /\ words["spent"].good = truth["spent"]
       /\ unrecoverable # "set" /\ unrecoverable' # "set"
       => words'["spent"].good = truth'["spent"]

\* The names in use are names of the table.
LEMMA LiveNames ==
    ASSUME lap_count \in 0 .. Len(Laps)
    PROVE  /\ LapWords \subseteq LapNames
           /\ Live \subseteq Names /\ StopwatchWords \subseteq Live
           /\ Fixed \subseteq Live /\ Fixed \subseteq Names
           /\ StopwatchWords \cap TimerWords = {}
  <1>1. Len(Laps) \in Nat
    BY SpaceAssumption
  <1> QED
    BY <1>1, SpaceAssumption DEF LapNames, LapWords, Live, StopwatchWords, StopwatchCounters, TimerWords, Fixed, Names

\* An action that scrubs nothing and damages nothing keeps the pace.
LEMMA PaceKept ==
    ASSUME Paced, Carried, Held, UNCHANGED last_scrub_ns, now' \in Nat, now <= now'
    PROVE  Paced'
  <1>1. now * NsPerTick <= now' * NsPerTick
    BY SpaceAssumption DEF Paced
  <1>2. last_scrub_ns' # None =>
            /\ last_scrub_ns' \in Nat /\ last_scrub_ns' <= NowNs'
            /\ bench' # "running" => looked' * NsPerTick - last_scrub_ns' < SCRUB_INTERVAL_NS
    <2> SUFFICES ASSUME last_scrub_ns # None
                 PROVE  /\ last_scrub_ns \in Nat /\ last_scrub_ns <= now' * NsPerTick
                        /\ bench # "running" =>
                                looked * NsPerTick - last_scrub_ns < SCRUB_INTERVAL_NS
      BY DEF NowNs, Held
    <2>1. now * NsPerTick \in Nat /\ now' * NsPerTick \in Nat
      BY SpaceAssumption DEF Paced
    <2> QED
      BY <1>1, <2>1 DEF Paced, NowNs
  <1>3. \A n \in Live' : Repairable(words'[n]) =>
            /\ words'[n].at \in Nat
            /\ last_scrub_ns' = None \/ last_scrub_ns' <= words'[n].at * NsPerTick
    BY DEF Paced, Carried
  <1> QED
    BY <1>2, <1>3 DEF Paced, Held, Repairable, Verdict

\* The invariant holds at first.
LEMMA InvInit == Init => Inv
  <1> SUFFICES ASSUME Init PROVE Inv
    OBVIOUS
  <1> DEFINE zero == [n \in Fixed \cup {Laps[i] : i \in 1 .. Len(Laps)} |->
                        IF n = "target_ns" THEN DEFAULT_NS ELSE 0]
  <1>1. DOMAIN zero = Names
    BY DEF Names, LapNames
  <1>2. words = [n \in Names |-> Protected(zero[n])] /\ truth = zero
    BY <1>1 DEF Init
  <1> HIDE DEF zero
  <1>3. Shape
    <2>1. Len(Laps) \in Nat
      BY SpaceAssumption
    <2> QED
      BY <1>1, <1>2, <2>1, ProtectedIs DEF Init, Shape, Table
  <1>4. Live \subseteq Names /\ StopwatchWords \subseteq Names
    BY <1>3, LiveNames DEF Shape
  <1>5. Paced
    BY <1>2, <1>4, ProtectedIs, SpaceAssumption DEF Init, Paced
  <1>6. Kept
    BY <1>2, <1>3, <1>4, ProtectedIs, LiveNames DEF Kept, Trusted, Started, Shape, Fixed, TimerWords
  <1> QED
    BY <1>3, <1>5, <1>6 DEF Inv

----------------------------------------------------------------------------
(* The steps.                                                              *)

\* The latch after a verification that found nothing beyond repair is the
\* latch before it.
LEMMA LatchIs ==
    ASSUME NEW l, NEW outcome, RecordLatch(l, outcome) # "set"
    PROVE  outcome # Unrecoverable /\ l # "set"
  BY DEF RecordLatch

\* A step that leaves the laps, the tab and the clock to themselves.
LEMMA Quiet ==
    ASSUME Inv, UNCHANGED <<lap_count, tab, last_scrub_ns, now>>, Held,
           Table(words)', DOMAIN truth' = Names,
           \A n \in Names : Repairable(words'[n]) => words'[n] = words[n]
    PROVE  Shape' /\ Paced'
  <1>1. Shape'
    BY DEF Inv, Shape, Held
  <1>2. Live' = Live /\ Live \subseteq Names
    BY LiveNames DEF Live, StopwatchWords, LapWords, Inv, Shape
  <1>3. Carried
    BY <1>2 DEF Carried
  <1>4. Paced'
    BY <1>3, PaceKept DEF Inv, Paced
  <1> QED
    BY <1>1, <1>4

\* A step of the stopwatch keeps the invariant if what it stores is right or
\* a loss is latched, and it leaves the timer alone.
LEMMA StopwatchStep ==
    ASSUME Inv, Shape', Paced', Untouched(TimerWords),
           unrecoverable' # "set" => \A n \in StopwatchWords' : words'[n].good = truth'[n]
    PROVE  Inv' /\ Banked
  <1>1. Kept'
    BY DEF Inv, Kept, Trusted, Started, Untouched, TimerWords
  <1>2. Banked
    BY DEF Banked, Untouched, TimerWords
  <1> QED
    BY <1>1, <1>2 DEF Inv

\* A step of the timer keeps it if it leaves the stopwatch alone.
LEMMA TimerStep ==
    ASSUME Inv, Shape', Paced', UNCHANGED lap_count, Untouched(Names \ TimerWords),
           unrecoverable' # "set" => unrecoverable # "set", Started'
    PROVE  Inv'
  <1>1. StopwatchWords' = StopwatchWords /\ StopwatchWords \subseteq Names \ TimerWords
    BY LiveNames DEF StopwatchWords, LapWords, Inv, Shape
  <1>2. Kept'
    BY <1>1 DEF Inv, Kept, Trusted, Untouched
  <1> QED
    BY <1>2 DEF Inv

\* Pausing verifies before it banks; starting stores the counter.
LEMMA StopwatchToggled ==
    ASSUME Inv, ToggleStopwatch, UNCHANGED <<lap_count, tab, now>>, Held
    PROVE  Inv' /\ Banked
  <1> DEFINE ws == VerifyAll(words, StopwatchCounters)
  <1>1. StopwatchCounters \in SUBSET Names /\ StopwatchCounters # {}
        /\ {"accumulated", "started_at"} \subseteq Names
    BY DEF StopwatchCounters, Names, Fixed
  <1>2. Table(words) /\ DOMAIN truth = Names
    BY DEF Inv, Shape
  <1>3. StopwatchWords' = StopwatchWords /\ StopwatchWords \subseteq Names
        /\ StopwatchCounters \subseteq StopwatchWords
        /\ TimerWords \subseteq Names \ StopwatchCounters
    BY LiveNames, <1>1 DEF TimerWords, Fixed, StopwatchCounters, StopwatchWords, LapWords, Inv, Shape
  <1>4. CASE stopwatch = "running"
    <2>1. /\ words' = Set(ws, "accumulated", Ticks(Raw(ws)))
          /\ truth' = [truth EXCEPT !["accumulated"] = Ticks(truth)]
          /\ Record(Worst(words, StopwatchCounters))
      BY <1>4 DEF ToggleStopwatch
    <2>2. /\ Table(ws)
          /\ \A n \in Names : ws[n].good = words[n].good
          /\ \A n \in Names : Repairable(ws[n]) => ws[n] = words[n]
          /\ Worst(words, StopwatchCounters) # Unrecoverable =>
                    \A n \in StopwatchCounters : Raw(ws)[n] = words[n].good
      BY <1>1, <1>2, AllVerified
    <2> HIDE DEF ws
    <2>3. /\ Table(words')
          /\ words'["accumulated"].good = Ticks(Raw(ws))
          /\ ~Repairable(words'["accumulated"])
          /\ \A m \in Names \ {"accumulated"} : words'[m] = ws[m]
      BY <1>1, <2>1, <2>2, SetIs
    <2>4. Shape' /\ Paced'
      BY <1>2, <2>1, <2>2, <2>3, Quiet DEF Record, Table, Word
    <2>5. ASSUME unrecoverable' # "set" PROVE \A n \in StopwatchWords : words'[n].good = truth'[n]
      <3>1. Worst(words, StopwatchCounters) # Unrecoverable /\ unrecoverable # "set"
        BY <2>1, <2>5, LatchIs DEF Record
      <3>2. \A n \in StopwatchWords : words[n].good = truth[n]
        BY <3>1 DEF Inv, Kept, Trusted
      <3>3. Ticks(Raw(ws)) = Ticks(truth)
        BY <1>3, <2>2, <3>1, <3>2, TicksReads
      <3>4. truth'["accumulated"] = Ticks(truth)
            /\ \A m \in Names \ {"accumulated"} : truth'[m] = truth[m]
        BY <1>1, <1>2, <2>1
      <3> QED
        BY <1>3, <2>2, <2>3, <3>2, <3>3, <3>4
    <2>6. Untouched(TimerWords)
      BY <1>2, <1>3, <2>1, <2>2, <2>3 DEF Untouched, StopwatchCounters
    <2> QED
      BY <1>3, <2>4, <2>5, <2>6, StopwatchStep
  <1>5. CASE stopwatch # "running"
    <2>1. /\ words' = Set(words, "started_at", now)
          /\ truth' = [truth EXCEPT !["started_at"] = now]
          /\ Record(Clean)
      BY <1>5 DEF ToggleStopwatch
    <2>2. /\ Table(words')
          /\ words'["started_at"].good = now
          /\ ~Repairable(words'["started_at"])
          /\ \A m \in Names \ {"started_at"} : words'[m] = words[m]
      BY <1>1, <1>2, <2>1, SetIs
    <2>3. Shape' /\ Paced'
      BY <1>2, <2>1, <2>2, Quiet DEF Record, Table, Word
    <2>4. truth'["started_at"] = now
          /\ \A m \in Names \ {"started_at"} : truth'[m] = truth[m]
      BY <1>1, <1>2, <2>1
    <2>5. unrecoverable' = unrecoverable
      BY <2>1 DEF Record, RecordLatch, Clean, Unrecoverable
    <2>6. unrecoverable' # "set" => \A n \in StopwatchWords : words'[n].good = truth'[n]
      BY <1>3, <2>2, <2>4, <2>5 DEF Inv, Kept, Trusted
    <2>7. Untouched(TimerWords)
      BY <1>3, <2>2, <2>4 DEF Untouched, StopwatchCounters
    <2> QED
      BY <1>3, <2>3, <2>6, <2>7, StopwatchStep
  <1> QED
    BY <1>4, <1>5

\* So does the timer's pause; its start stores the counter; an expired timer
\* does not answer.
LEMMA TimerToggled ==
    ASSUME Inv, tab = "Timer", ToggleTimer, UNCHANGED <<lap_count, tab, now>>, Held
    PROVE  Inv' /\ Banked
  <1> DEFINE ws == VerifyAll(words, TimerWords)
  <1>1. TimerWords \in SUBSET Names /\ TimerWords # {}
        /\ {"spent", "timer_started_at"} \subseteq TimerWords
    BY DEF TimerWords, Names, Fixed
  <1>2. Table(words) /\ DOMAIN truth = Names /\ Started
    BY DEF Inv, Shape, Kept
  <1>3. CASE timer = "expired"
    <2>1. UNCHANGED <<words, truth>> /\ Record(Clean)
      BY <1>3 DEF ToggleTimer
    <2>2. UNCHANGED unrecoverable /\ UNCHANGED last_scrub_ns
      BY <2>1 DEF Record, RecordLatch, Clean, Unrecoverable
    <2>3. Shape' /\ Paced'
      BY <1>2, <2>1, <2>2, Quiet DEF Table, Word
    <2> QED
      BY <1>2, <2>1, <2>2, <2>3, TimerStep DEF Untouched, Started, Banked
  <1>4. CASE timer = "running"
    <2>1. /\ words' = Set(ws, "spent", ElapsedTicks(Raw(ws)))
          /\ truth' = [truth EXCEPT !["spent"] = ElapsedTicks(truth)]
          /\ Record(Worst(words, TimerWords))
      BY <1>4 DEF ToggleTimer
    <2>2. /\ Table(ws)
          /\ \A n \in Names : ws[n].good = words[n].good
          /\ \A n \in Names : Repairable(ws[n]) => ws[n] = words[n]
          /\ Worst(words, TimerWords) # Unrecoverable =>
                    \A n \in TimerWords : Raw(ws)[n] = words[n].good
      BY <1>1, <1>2, AllVerified
    <2> HIDE DEF ws
    <2>3. /\ Table(words')
          /\ words'["spent"].good = ElapsedTicks(Raw(ws))
          /\ ~Repairable(words'["spent"])
          /\ \A m \in Names \ {"spent"} : words'[m] = ws[m]
      BY <1>1, <2>1, <2>2, SetIs
    <2>4. Shape' /\ Paced'
      BY <1>2, <2>1, <2>2, <2>3, Quiet DEF Record, Table, Word
    <2>5. truth'["spent"] = ElapsedTicks(truth)
          /\ \A m \in Names \ {"spent"} : truth'[m] = truth[m]
      BY <1>1, <1>2, <2>1
    <2>6. ASSUME unrecoverable' # "set", words["spent"].good = truth["spent"]
          PROVE  words'["spent"].good = truth'["spent"]
      <3>1. Worst(words, TimerWords) # Unrecoverable
        BY <2>1, <2>6, LatchIs DEF Record
      <3>2. ElapsedTicks(Raw(ws)) = ElapsedTicks(truth)
        BY <1>1, <1>2, <2>2, <2>6, <3>1, ElapsedReads DEF Started
      <3> QED
        BY <2>3, <2>5, <3>2
    <2>7. Banked
      BY <2>6 DEF Banked
    <2>8. Untouched(Names \ TimerWords) /\ Started'
      BY <1>1, <1>2, <2>2, <2>3, <2>5 DEF Untouched, Started
    <2>9. unrecoverable' # "set" => unrecoverable # "set"
      BY <2>1, LatchIs DEF Record
    <2> QED
      BY <2>4, <2>7, <2>8, <2>9, TimerStep
  <1>5. CASE timer # "expired" /\ timer # "running"
    <2>1. /\ words' = Set(words, "timer_started_at", now)
          /\ truth' = [truth EXCEPT !["timer_started_at"] = now]
          /\ Record(Clean)
      BY <1>5 DEF ToggleTimer
    <2>2. /\ Table(words')
          /\ words'["timer_started_at"].good = now
          /\ ~Repairable(words'["timer_started_at"])
          /\ \A m \in Names \ {"timer_started_at"} : words'[m] = words[m]
      BY <1>1, <1>2, <2>1, SetIs
    <2>3. Shape' /\ Paced'
      BY <1>2, <2>1, <2>2, Quiet DEF Record, Table, Word
    <2>4. truth'["timer_started_at"] = now
          /\ \A m \in Names \ {"timer_started_at"} : truth'[m] = truth[m]
      BY <1>1, <1>2, <2>1
    <2>5. unrecoverable' = unrecoverable
      BY <2>1 DEF Record, RecordLatch, Clean, Unrecoverable
    <2>6. Untouched(Names \ TimerWords) /\ Started' /\ Banked
      BY <1>1, <2>2, <2>4 DEF Untouched, Started, Banked
    <2> QED
      BY <2>3, <2>5, <2>6, TimerStep
  <1> QED
    BY <1>3, <1>4, <1>5

\* Space, P or a click on any tab.
LEMMA Toggled == ASSUME Inv, Toggle, bench # "running" PROVE Inv' /\ Banked
  <1>0. UNCHANGED <<lap_count, tab, now>> /\ Held
    BY DEF Toggle, world, screen, Held
  <1>1. CASE tab = "Stopwatch" /\ ToggleStopwatch
    BY <1>0, <1>1, StopwatchToggled
  <1>2. CASE tab = "Timer" /\ ToggleTimer
    BY <1>0, <1>2, TimerToggled
  <1>3. CASE Record(Clean) /\ UNCHANGED <<words, truth>>
    <2>1. UNCHANGED unrecoverable /\ UNCHANGED last_scrub_ns
      BY <1>3 DEF Record, RecordLatch, Clean, Unrecoverable
    <2>2. Shape' /\ Paced'
      BY <1>0, <1>3, <2>1, Quiet DEF Inv, Shape, Table, Word
    <2> QED
      BY <1>0, <1>3, <2>1, <2>2, TimerStep DEF Untouched, Started, Banked, Inv, Kept
  <1> QED
    BY <1>1, <1>2, <1>3 DEF Toggle

\* Enter or a click on a row.
LEMMA BenchAsked == ASSUME Inv, AskBench, bench # "running" PROVE Inv' /\ Banked
  <1>1. UNCHANGED <<words, truth, lap_count, tab, unrecoverable, last_scrub_ns, now>> /\ Held
    BY DEF AskBench, space, screen, world, Held
  <1>2. Shape' /\ Paced'
    BY <1>1, Quiet DEF Inv, Shape, Table, Word
  <1> QED
    BY <1>1, <1>2, TimerStep DEF Untouched, Started, Banked, Inv, Kept

\* A lap verifies before it stores, and moves the laps up if the table is full.
LEMMA LapTaken == ASSUME Inv, Lap PROVE Inv' /\ Banked
  <1> DEFINE ws == VerifyAll(words, StopwatchCounters)
             full == lap_count = Len(Laps)
             slot == IF full THEN lap_count ELSE lap_count + 1
             rotated(f) == IF full THEN Shifted(f) ELSE f
  <1>1. /\ words' = Set(rotated(ws), Laps[slot], Ticks(Raw(ws)))
        /\ truth' = [rotated(truth) EXCEPT ![Laps[slot]] = Ticks(truth)]
        /\ lap_count' = slot
        /\ Record(Worst(words, StopwatchCounters))
        /\ UNCHANGED <<tab, session, now, last_scrub_ns>> /\ Held
    BY DEF Lap, world, screen, Record, Held
  <1>2. StopwatchCounters \in SUBSET Names /\ StopwatchCounters # {}
    BY DEF StopwatchCounters, Names, Fixed
  <1>3. /\ Table(words) /\ DOMAIN truth = Names /\ lap_count \in 0 .. Len(Laps)
        /\ session \in Sessions /\ tab \in session.tabs
    BY DEF Inv, Shape
  <1>4. Len(Laps) \in Nat /\ Len(Laps) > 0 /\ LapNames \cap Fixed = {}
    BY SpaceAssumption DEF LapNames
  <1>5. slot \in 1 .. Len(Laps) /\ Laps[slot] \in LapNames /\ Laps[slot] \in Names
    <2>1. slot \in 1 .. Len(Laps)
      BY <1>3, <1>4
    <2> QED
      BY <2>1 DEF Names, LapNames
  <1>6. /\ Table(ws)
        /\ \A n \in Names : ws[n].good = words[n].good
        /\ \A n \in Names : Repairable(ws[n]) => ws[n] = words[n]
        /\ Worst(words, StopwatchCounters) # Unrecoverable =>
                \A n \in StopwatchCounters : Raw(ws)[n] = words[n].good
    BY <1>2, <1>3, AllVerified
  <1>7. \A n \in Names : \E m \in Names :
            /\ rotated(ws)[n] = ws[m] /\ rotated(truth)[n] = truth[m]
            /\ m = n \/ (full /\ {m, n} \subseteq LapNames)
    <2>1. CASE full
      <3>1. DOMAIN ws = Names /\ rotated(ws) = Shifted(ws) /\ rotated(truth) = Shifted(truth)
        BY <1>6, <2>1 DEF Table
      <3> HIDE DEF ws, rotated, full
      <3>2. ASSUME NEW n \in Names
            PROVE  \E m \in Names :
                        /\ Shifted(ws)[n] = ws[m] /\ Shifted(truth)[n] = truth[m]
                        /\ m = n \/ {m, n} \subseteq LapNames
        BY <1>3, <3>1, ShiftedIs
      <3> QED
        BY <2>1, <3>1, <3>2
    <2>2. CASE ~full
      BY <2>2
    <2> QED
      BY <2>1, <2>2
  <1>8. DOMAIN rotated(ws) = Names /\ DOMAIN rotated(truth) = Names
    BY <1>3, <1>6 DEF Table, Shifted
  <1>9. Table(rotated(ws))
    BY <1>6, <1>7, <1>8 DEF Table
  <1>10. full => LapWords = LapNames
    BY DEF LapWords, LapNames
  <1>11. LapWords' \subseteq LapWords \cup {Laps[slot]}
    BY <1>1, <1>3, <1>4 DEF LapWords
  <1> HIDE DEF ws, full, slot, rotated
  <1>12. /\ Table(words') /\ words'[Laps[slot]].good = Ticks(Raw(ws))
         /\ ~Repairable(words'[Laps[slot]])
         /\ \A m \in Names \ {Laps[slot]} : words'[m] = rotated(ws)[m]
    BY <1>1, <1>5, <1>9, SetIs
  <1>13. /\ DOMAIN truth' = Names /\ truth'[Laps[slot]] = Ticks(truth)
         /\ \A m \in Names \ {Laps[slot]} : truth'[m] = rotated(truth)[m]
    BY <1>1, <1>5, <1>8
  <1>14. Shape'
    <2>1. lap_count' \in 0 .. Len(Laps)
      BY <1>1, <1>4, <1>5
    <2> QED
      BY <1>1, <1>3, <1>12, <1>13, <2>1 DEF Shape, Table, Word
  <1>15. /\ Live \subseteq Names /\ Live' \subseteq Names /\ LapWords \subseteq Live
         /\ Live' \subseteq Live \cup {Laps[slot]}
         /\ StopwatchWords' \subseteq StopwatchWords \cup {Laps[slot]}
         /\ StopwatchCounters \subseteq StopwatchWords
         /\ LapWords \subseteq StopwatchWords /\ StopwatchWords \subseteq Live
    <2>1. Live \subseteq Names
      BY <1>3, LiveNames
    <2> QED
      BY <1>5, <1>11, <2>1 DEF Live, StopwatchWords
  <1>16. Carried
    <2> SUFFICES ASSUME NEW n \in Live', Repairable(words'[n])
                 PROVE  \E m \in Live : words'[n] = words[m]
      BY DEF Carried
    <2>1. n # Laps[slot] /\ n \in Live /\ n \in Names
      BY <1>12, <1>15
    <2>2. PICK m \in Names : rotated(ws)[n] = ws[m] /\ (m = n \/ (full /\ {m, n} \subseteq LapNames))
      BY <1>7, <2>1
    <2>3. words'[n] = ws[m] /\ ws[m] = words[m]
      BY <1>6, <1>12, <2>1, <2>2
    <2>4. m \in Live
      BY <1>10, <1>15, <2>1, <2>2
    <2> QED
      BY <2>3, <2>4
  <1>17. Paced'
    BY <1>1, <1>16, PaceKept DEF Inv, Paced
  <1>18. ASSUME unrecoverable' # "set" PROVE \A n \in StopwatchWords' : words'[n].good = truth'[n]
    <2>1. Worst(words, StopwatchCounters) # Unrecoverable /\ unrecoverable # "set"
      BY <1>1, <1>18, LatchIs DEF Record
    <2>2. \A n \in StopwatchWords : words[n].good = truth[n]
      BY <2>1 DEF Inv, Kept, Trusted
    <2>3. Ticks(Raw(ws)) = Ticks(truth)
      BY <1>6, <1>15, <2>1, <2>2, TicksReads
    <2> SUFFICES ASSUME NEW n \in StopwatchWords', n # Laps[slot]
                 PROVE  words'[n].good = truth'[n]
      BY <1>12, <1>13, <2>3
    <2>4. n \in StopwatchWords /\ n \in Names
      BY <1>15
    <2>5. PICK m \in Names : /\ rotated(ws)[n] = ws[m] /\ rotated(truth)[n] = truth[m]
                             /\ m = n \/ (full /\ {m, n} \subseteq LapNames)
      BY <1>7, <2>4
    <2>6. m \in StopwatchWords
      BY <1>10, <1>15, <2>4, <2>5
    <2> QED
      BY <1>6, <1>12, <1>13, <2>2, <2>4, <2>5, <2>6
  <1>19. Untouched(TimerWords)
    <2> SUFFICES ASSUME NEW n \in TimerWords
                 PROVE  words'[n].good = words[n].good /\ truth'[n] = truth[n]
      BY DEF Untouched
    <2>1. n \in Names /\ n \notin LapNames /\ n # Laps[slot]
      BY <1>4, <1>5 DEF Fixed, Names
    <2>2. rotated(ws)[n] = ws[n] /\ rotated(truth)[n] = truth[n]
      BY <1>7, <2>1
    <2> QED
      BY <1>6, <1>12, <1>13, <2>1, <2>2
  <1> QED
    BY <1>14, <1>17, <1>18, <1>19, StopwatchStep

\* A reset of the stopwatch clears the latch with the words it spoke for.
LEMMA StopwatchReset ==
    ASSUME Inv, ResetStopwatch
    PROVE  Inv' /\ Untouched(TimerWords)
  <1> DEFINE names == StopwatchCounters \cup {Laps[i] : i \in 1 .. Len(Laps)}
  <1>1. /\ words' = [n \in DOMAIN words |-> IF n \in names THEN Protected(0) ELSE words[n]]
        /\ truth' = [n \in DOMAIN truth |-> IF n \in names THEN 0 ELSE truth[n]]
        /\ lap_count' = 0 /\ UNCHANGED <<tab, session, last_scrub_ns, now>> /\ Held
    BY DEF ResetStopwatch, world, screen, Held
  <1>2. /\ Table(words) /\ DOMAIN truth = Names /\ lap_count \in 0 .. Len(Laps)
        /\ session \in Sessions /\ tab \in session.tabs
    BY DEF Inv, Shape
  <1>3. Len(Laps) \in Nat /\ TimerWords \cap names = {} /\ TimerWords \subseteq Names
    BY SpaceAssumption DEF TimerWords, StopwatchCounters, Fixed, Names
  <1>4. StopwatchWords' = StopwatchCounters /\ StopwatchCounters \subseteq names
        /\ StopwatchCounters \subseteq Names
    BY <1>1 DEF StopwatchWords, LapWords, Names, Fixed
  <1> HIDE DEF names
  <1>5. \A n \in Names : /\ words'[n] = IF n \in names THEN Protected(0) ELSE words[n]
                         /\ truth'[n] = IF n \in names THEN 0 ELSE truth[n]
    BY <1>1, <1>2 DEF Table
  <1>6. DOMAIN words' = Names /\ DOMAIN truth' = Names
    BY <1>1, <1>2 DEF Table
  <1>7. Shape'
    BY <1>1, <1>2, <1>3, <1>5, <1>6, ProtectedIs DEF Shape, Table, Word
  <1>8. Live' \subseteq Live /\ Live \subseteq Names
    BY <1>2, <1>4, LiveNames DEF Live, StopwatchWords
  <1>9. Carried
    BY <1>5, <1>8, ProtectedIs DEF Carried
  <1>10. Paced'
    BY <1>1, <1>9, PaceKept DEF Inv, Paced
  <1>11. \A n \in StopwatchWords' : words'[n].good = truth'[n]
    BY <1>4, <1>5, ProtectedIs
  <1>12. Untouched(TimerWords)
    BY <1>3, <1>5 DEF Untouched
  <1> QED
    BY <1>7, <1>10, <1>11, <1>12, StopwatchStep

\* A reset of the timer stores a zero.
LEMMA TimerReset ==
    ASSUME Inv, ResetTimer
    PROVE  Inv' /\ Banked /\ words'["spent"].good = truth'["spent"]
  <1>1. {"spent", "timer_started_at"} \subseteq Names /\ "spent" \in TimerWords
    BY DEF TimerWords, Names, Fixed
  <1>2. Table(words) /\ DOMAIN truth = Names /\ Started
    BY DEF Inv, Shape, Kept
  <1>3. /\ words' = Set(words, "spent", 0) /\ truth' = [truth EXCEPT !["spent"] = 0]
        /\ UNCHANGED <<lap_count, tab, last_scrub_ns, now, unrecoverable>> /\ Held
        /\ tab = "Timer"
    BY DEF ResetTimer, space, screen, world, Held
  <1>4. /\ Table(words') /\ words'["spent"].good = 0 /\ ~Repairable(words'["spent"])
        /\ \A m \in Names \ {"spent"} : words'[m] = words[m]
    BY <1>1, <1>2, <1>3, SetIs
  <1>5. truth'["spent"] = 0 /\ \A m \in Names \ {"spent"} : truth'[m] = truth[m]
    BY <1>1, <1>2, <1>3
  <1>6. Shape' /\ Paced'
    BY <1>2, <1>3, <1>4, Quiet DEF Table, Word
  <1>7. Untouched(Names \ TimerWords) /\ Started' /\ Banked
    BY <1>1, <1>2, <1>3, <1>4, <1>5 DEF Untouched, Started, Banked
  <1> QED
    BY <1>3, <1>4, <1>5, <1>6, <1>7, TimerStep

\* So does an adjustment, whatever target it stores.
LEMMA TargetAdjusted ==
    ASSUME Inv, NEW up \in BOOLEAN, Adjust(up)
    PROVE  Inv' /\ Banked /\ words'["spent"].good = truth'["spent"]
  <1> DEFINE ws == Set(words, "target_ns", Adjusted(Get(words["target_ns"]), up))
  <1>1. {"spent", "timer_started_at", "target_ns"} \subseteq Names
        /\ {"spent", "target_ns"} \subseteq TimerWords
    BY DEF TimerWords, Names, Fixed
  <1>2. Table(words) /\ DOMAIN truth = Names /\ Started
    BY DEF Inv, Shape, Kept
  <1>3. /\ words' = Set(ws, "spent", 0)
        /\ truth' = [truth EXCEPT !["target_ns"] = Adjusted(@, up), !["spent"] = 0]
        /\ UNCHANGED <<lap_count, tab, last_scrub_ns, now, unrecoverable>> /\ Held
        /\ tab = "Timer"
    BY DEF Adjust, space, screen, world, Held
  <1>4. /\ Table(ws) /\ ~Repairable(ws["target_ns"])
        /\ \A m \in Names \ {"target_ns"} : ws[m] = words[m]
    BY <1>1, <1>2, SetIs
  <1> HIDE DEF ws
  <1>5. /\ Table(words') /\ words'["spent"].good = 0 /\ ~Repairable(words'["spent"])
        /\ \A m \in Names \ {"spent"} : words'[m] = ws[m]
    BY <1>1, <1>3, <1>4, SetIs
  <1>6. /\ DOMAIN truth' = Names /\ truth'["spent"] = 0
        /\ \A m \in Names \ {"spent", "target_ns"} : truth'[m] = truth[m]
    BY <1>1, <1>2, <1>3
  <1>7. Shape' /\ Paced'
    BY <1>3, <1>4, <1>5, <1>6, Quiet DEF Table, Word
  <1>8. Untouched(Names \ TimerWords) /\ Started' /\ Banked
    BY <1>1, <1>2, <1>3, <1>4, <1>5, <1>6 DEF Untouched, Started, Banked
  <1> QED
    BY <1>3, <1>5, <1>6, <1>7, <1>8, TimerStep

\* Another tab, or a tick of the counter, changes no word.
LEMMA TabSelected == ASSUME Inv, NEW t \in Tabs, SelectTab(t) PROVE Inv' /\ Banked
  <1>1. /\ UNCHANGED <<words, truth, lap_count, unrecoverable, last_scrub_ns, now, session>>
        /\ t \in session.tabs /\ tab' = t /\ Held
    BY DEF SelectTab, space, world, Held
  <1>2. Shape'
    BY <1>1 DEF Inv, Shape, Table, Word
  <1>3. Live' = Live
    BY <1>1 DEF Live, StopwatchWords, LapWords
  <1>4. Carried
    BY <1>1, <1>3 DEF Carried
  <1>5. Paced'
    BY <1>1, <1>4, PaceKept DEF Inv, Paced
  <1> QED
    BY <1>1, <1>2, <1>5, TimerStep DEF Untouched, Started, Banked, Inv, Kept

LEMMA Ticked == ASSUME Inv, Tick PROVE Inv' /\ Banked
  <1>1. /\ UNCHANGED <<words, truth, lap_count, unrecoverable, last_scrub_ns, tab, session>>
        /\ now' = now + 1 /\ Held
    BY DEF Tick, space, screen, Held
  <1>2. Shape'
    BY <1>1 DEF Inv, Shape, Table, Word
  <1>3. Live' = Live
    BY <1>1 DEF Live, StopwatchWords, LapWords
  <1>4. Carried
    BY <1>1, <1>3 DEF Carried
  <1>5. Paced'
    BY <1>1, <1>4, PaceKept DEF Inv, Paced
  <1> QED
    BY <1>1, <1>2, <1>5, TimerStep DEF Untouched, Started, Banked, Inv, Kept

\* A benchmark begins: the frame has read its clock.
LEMMA BenchRun == ASSUME Inv, RunBench PROVE Inv' /\ Banked
  <1>1. /\ UNCHANGED <<words, truth, lap_count, unrecoverable, last_scrub_ns, tab, now, session>>
        /\ looked' = now /\ bench' = "running"
    BY DEF RunBench, space, world
  <1>2. Shape'
    BY <1>1 DEF Inv, Shape, Table, Word
  <1>3. Live' = Live /\ NowNs' = NowNs
    BY <1>1 DEF Live, StopwatchWords, LapWords, NowNs
  <1>4. Paced'
    BY <1>1, <1>3 DEF Inv, Paced, Repairable, Verdict
  <1> QED
    BY <1>1, <1>2, <1>4, TimerStep DEF Untouched, Started, Banked, Inv, Kept

\* Damage done to a word is damage done now, unless there was some already.
LEMMA Stricken ==
    ASSUME Inv, NEW n \in Live, NEW bits \in SUBSET Bits, NEW spares \in BOOLEAN,
           Strike(n, bits, spares)
    PROVE  Inv' /\ Banked
  <1> DEFINE left == SymDiff(words[n].flips, bits)
             w == [good |-> words[n].good, flips |-> left,
                   spares |-> IF spares THEN "differ" ELSE words[n].spares,
                   at |-> IF left = {} THEN None
                          ELSE IF Repairable(words[n]) THEN words[n].at ELSE now]
  <1>1. /\ words' = [words EXCEPT ![n] = w] /\ Cardinality(left) <= 2
        /\ UNCHANGED <<truth, lap_count, unrecoverable, last_scrub_ns, looked, bench, tab, now,
                       session>>
    BY DEF Strike, space, screen
  <1>2. Table(words) /\ DOMAIN truth = Names /\ Live \subseteq Names /\ Started
    BY LiveNames DEF Inv, Shape, Kept
  <1>3. Word(words[n])
    BY <1>2 DEF Table
  <1>4. left \subseteq Bits
    BY <1>3 DEF Word, SymDiff
  <1>5. Word(w) /\ w.good = words[n].good
    BY <1>1, <1>3, <1>4 DEF Word
  <1>6. Repairable(w) => w.at = IF Repairable(words[n]) THEN words[n].at ELSE now
    <2>1. Cardinality({}) = 0
      BY FS_EmptySet
    <2>2. Repairable(w) => left # {}
      BY <2>1 DEF Repairable, Verdict, Clean, CorrectedByEcc, CorrectedByTmr
    <2> QED
      BY <2>2
  <1> HIDE DEF w, left
  <1>7. words'[n] = w /\ \A m \in Names \ {n} : words'[m] = words[m]
    BY <1>1, <1>2 DEF Table
  <1>8. Shape'
    BY <1>1, <1>2, <1>5, <1>7 DEF Inv, Shape, Table, Word
  <1>9. Live' = Live
    BY <1>1 DEF Live, StopwatchWords, LapWords
  <1>10. \A m \in Live : Repairable(words'[m]) =>
            /\ words'[m].at \in Nat
            /\ last_scrub_ns = None \/ last_scrub_ns <= words'[m].at * NsPerTick
    <2> SUFFICES ASSUME NEW m \in Live, Repairable(words'[m])
                 PROVE  /\ words'[m].at \in Nat
                        /\ last_scrub_ns = None \/ last_scrub_ns <= words'[m].at * NsPerTick
      OBVIOUS
    <2>1. CASE m # n
      BY <1>2, <1>7, <2>1 DEF Inv, Paced
    <2>2. CASE m = n /\ Repairable(words[n])
      BY <1>6, <1>7, <2>2 DEF Inv, Paced
    <2>3. CASE m = n /\ ~Repairable(words[n])
      BY <1>6, <1>7, <2>3 DEF Inv, Paced, NowNs
    <2> QED
      BY <2>1, <2>2, <2>3
  <1>11. Paced'
    <2>1. \A m \in Live' : Repairable(words'[m]) =>
            /\ words'[m].at \in Nat
            /\ last_scrub_ns' = None \/ last_scrub_ns' <= words'[m].at * NsPerTick
      BY <1>1, <1>9, <1>10
    <2>2. NowNs' = NowNs
      BY <1>1 DEF NowNs
    <2> QED
      BY <1>1, <2>1, <2>2 DEF Inv, Paced, Repairable, Verdict
  <1>12. \A m \in Names : words'[m].good = words[m].good
    BY <1>5, <1>7
  <1>13. "spent" \in Names /\ "timer_started_at" \in Names
    BY DEF Names, Fixed, TimerWords
  <1> QED
    BY <1>1, <1>2, <1>8, <1>11, <1>12, <1>13, TimerStep DEF Untouched, Started, Banked

----------------------------------------------------------------------------
(* The frame: the scrub, then the readout.                                 *)

\* A table the frame makes of ws: stored values are those of ws, the banked
\* "spent" apart, and no damage that can be repaired is new.
Redrawn(ws, rs) ==
    /\ Table(rs)
    /\ \A n \in Names \ {"spent"} : rs[n].good = ws[n].good
    /\ \A n \in Names : Repairable(rs[n]) => rs[n] = ws[n]

\* The scrub, if it is due.
LEMMA Scrubs ==
    ASSUME Inv, NEW start_ns
    PROVE  LET due == scrub_due(start_ns)
               scrubbed == IF due THEN VerifyAll(words, Live) ELSE words
               l == IF due THEN RecordLatch(unrecoverable, Worst(words, Live))
                    ELSE unrecoverable
           IN  /\ Redrawn(words, scrubbed)
               /\ scrubbed["spent"].good = words["spent"].good
               /\ due => \A n \in Live : ~Repairable(scrubbed[n])
               /\ l # "set" => unrecoverable # "set"
  <1>1. Table(words) /\ Live \in SUBSET Names /\ "spent" \in Live
    BY LiveNames DEF Inv, Shape, Live, TimerWords
  <1>2. CASE scrub_due(start_ns)
    <2>1. /\ Table(VerifyAll(words, Live))
          /\ \A n \in Names : VerifyAll(words, Live)[n].good = words[n].good
          /\ \A n \in Live : ~Repairable(VerifyAll(words, Live)[n])
          /\ \A n \in Names : Repairable(VerifyAll(words, Live)[n]) =>
                    VerifyAll(words, Live)[n] = words[n]
      BY <1>1, AllVerified
    <2> QED
      BY <1>1, <1>2, <2>1, LatchIs DEF Redrawn
  <1>3. CASE ~scrub_due(start_ns)
    BY <1>1, <1>3 DEF Redrawn
  <1> QED
    BY <1>2, <1>3

\* The stopwatch's readout: verified in Emergency, and then exact.
LEMMA StopwatchRead ==
    ASSUME NEW ws, Table(ws), NEW checked \in BOOLEAN
    PROVE  LET r == ReadStopwatch(ws, checked)
           IN  /\ Redrawn(ws, r.words) /\ r.words["spent"].good = ws["spent"].good
               /\ r.truth = truth
               /\ /\ checked /\ r.verdict # Unrecoverable
                  /\ \A n \in StopwatchCounters : ws[n].good = truth[n]
                  => r.val = r.right
  <1> DEFINE vs == VerifyAll(ws, StopwatchCounters)
  <1>1. StopwatchCounters \in SUBSET Names /\ StopwatchCounters # {} /\ "spent" \in Names
    BY DEF StopwatchCounters, Names, Fixed, TimerWords
  <1>2. /\ Table(vs) /\ \A n \in Names : vs[n].good = ws[n].good
        /\ \A n \in Names : Repairable(vs[n]) => vs[n] = ws[n]
        /\ Worst(ws, StopwatchCounters) # Unrecoverable =>
                \A n \in StopwatchCounters : Raw(vs)[n] = ws[n].good
    BY <1>1, AllVerified
  <1> HIDE DEF vs
  <1>3. CASE checked
    <2> DEFINE r == ReadStopwatch(ws, checked)
    <2>1. /\ r.words = vs /\ r.truth = truth /\ r.verdict = Worst(ws, StopwatchCounters)
          /\ r.val = TicksToNs(Ticks(Raw(vs))) /\ r.right = TicksToNs(Ticks(truth))
      BY <1>3 DEF ReadStopwatch, vs
    <2>2. /\ Worst(ws, StopwatchCounters) # Unrecoverable
          /\ \A n \in StopwatchCounters : ws[n].good = truth[n]
          => Ticks(Raw(vs)) = Ticks(truth)
      BY <1>2, TicksReads
    <2> QED
      BY <1>1, <1>2, <2>1, <2>2 DEF Redrawn
  <1>4. CASE ~checked
    BY <1>1, <1>4 DEF ReadStopwatch, Redrawn
  <1> QED
    BY <1>3, <1>4

\* The timer's readout: what it banks at expiry it verified, and the verdict
\* says if that failed.
LEMMA TimerRead ==
    ASSUME NEW ws, Table(ws), NEW checked \in BOOLEAN, DOMAIN truth = Names
    PROVE  LET r == ReadTimer(ws, checked)
           IN  /\ Redrawn(ws, r.words) /\ DOMAIN r.truth = Names
               /\ \A n \in Names \ {"spent"} : r.truth[n] = truth[n]
               /\ /\ r.verdict # Unrecoverable
                  /\ \A n \in {"spent", "timer_started_at"} : ws[n].good = truth[n]
                  => r.words["spent"].good = r.truth["spent"]
  <1> DEFINE read == IF checked THEN VerifyAll(ws, TimerWords) ELSE ws
             over == AtZero(Raw(read)) /\ timer = "running"
             stored == VerifyAll(read, TimerWords)
             r == ReadTimer(ws, checked)
  <1>1. TimerWords \in SUBSET Names /\ TimerWords # {}
        /\ {"spent", "timer_started_at"} \subseteq TimerWords /\ "spent" \in Names
    BY DEF Names, Fixed, TimerWords
  <1>2. /\ Table(VerifyAll(ws, TimerWords))
        /\ \A n \in Names : VerifyAll(ws, TimerWords)[n].good = ws[n].good
        /\ \A n \in Names : Repairable(VerifyAll(ws, TimerWords)[n]) =>
                VerifyAll(ws, TimerWords)[n] = ws[n]
    BY <1>1, AllVerified
  <1>3. Table(read) /\ Redrawn(ws, read) /\ \A n \in Names : read[n].good = ws[n].good
    BY <1>2 DEF Redrawn
  <1>4. CASE ~over
    <2>1. r.words = read /\ r.truth = truth
      BY <1>4 DEF ReadTimer
    <2> QED
      BY <1>1, <1>3, <2>1
  <1>5. CASE over
    <2>1. /\ r.words = Set(stored, "spent", ElapsedTicks(Raw(stored)))
          /\ r.truth = [truth EXCEPT !["spent"] = ElapsedTicks(truth)]
          /\ r.verdict = Worst(ws, TimerWords)
      BY <1>5 DEF ReadTimer
    <2>2. /\ Table(stored) /\ \A n \in Names : stored[n].good = read[n].good
          /\ \A n \in Names : Repairable(stored[n]) => stored[n] = read[n]
      BY <1>1, <1>3, AllVerified
    <2>3. Worst(ws, TimerWords) # Unrecoverable =>
                \A n \in TimerWords : Raw(stored)[n] = ws[n].good
      <3> SUFFICES ASSUME Worst(ws, TimerWords) # Unrecoverable, NEW n \in TimerWords
                   PROVE  Raw(stored)[n] = ws[n].good
        OBVIOUS
      <3>1. Word(ws[n]) /\ n \in Names
        BY <1>1 DEF Table
      <3>2. Get(Verified(ws[n])) = ws[n].good /\ Verdict(ws[n]) # Unrecoverable
        BY <1>1, <3>1, VerifiedIs, WorstIs
      <3>3. Raw(stored)[n] = Get(Verified(read[n]))
        BY <1>3, <2>2, <3>1 DEF Raw, Table, VerifyAll
      <3>4. read[n] = IF checked THEN Verified(ws[n]) ELSE ws[n]
        BY <3>1 DEF VerifyAll, Table
      <3>5. Get(Verified(Verified(ws[n]))) = ws[n].good
        BY <3>1, <3>2, VerifiedTwice
      <3> QED
        BY <3>2, <3>3, <3>4, <3>5
    <2> HIDE DEF read, over, stored, r
    <2>4. /\ Table(r.words) /\ r.words["spent"].good = ElapsedTicks(Raw(stored))
          /\ ~Repairable(r.words["spent"])
          /\ \A m \in Names \ {"spent"} : r.words[m] = stored[m]
      BY <1>1, <2>1, <2>2, SetIs
    <2>5. /\ DOMAIN r.truth = Names /\ r.truth["spent"] = ElapsedTicks(truth)
          /\ \A m \in Names \ {"spent"} : r.truth[m] = truth[m]
      BY <1>1, <2>1
    <2>6. /\ r.verdict # Unrecoverable
          /\ \A n \in {"spent", "timer_started_at"} : ws[n].good = truth[n]
          => ElapsedTicks(Raw(stored)) = ElapsedTicks(truth)
      BY <1>1, <2>1, <2>3, ElapsedReads
    <2>7. Redrawn(ws, r.words)
      BY <1>3, <2>2, <2>4 DEF Redrawn
    <2> QED
      BY <2>4, <2>5, <2>6, <2>7 DEF r
  <1> QED
    BY <1>4, <1>5

\* A frame that scrubs when that is due, by the clock it read, keeps the pace.
LEMMA FramePaced ==
    ASSUME Inv, NEW start \in Nat, start <= now, NEW start_ns, start_ns = start * NsPerTick,
           Redrawn(words, words'), DOMAIN truth' = Names, Kept',
           scrub_due(start_ns) => \A n \in Live : ~Repairable(words'[n]),
           last_scrub_ns' = IF scrub_due(start_ns) THEN start_ns ELSE last_scrub_ns,
           looked' = start, bench' = "no", UNCHANGED <<lap_count, tab, session, now>>
    PROVE  Inv'
  <1>1. Shape'
    BY DEF Inv, Shape, Redrawn, Table, Word
  <1>2. Live' = Live /\ Live \subseteq Names
    BY LiveNames DEF Live, StopwatchWords, LapWords, Inv, Shape
  <1>3. /\ NowNs' = NowNs /\ NowNs \in Nat
        /\ start_ns \in Nat /\ start_ns <= NowNs /\ start_ns # None
    <2>1. now \in Nat
      BY DEF Inv, Paced
    <2>2. start * NsPerTick <= now * NsPerTick /\ {start * NsPerTick, now * NsPerTick} \subseteq Nat
      BY <2>1, SpaceAssumption
    <2> QED
      BY <2>1, <2>2, SpaceAssumption DEF NowNs
  <1>4. now' \in Nat /\ looked' \in Nat /\ looked' <= now'
    BY DEF Inv, Paced
  <1>5. /\ last_scrub_ns' # None /\ last_scrub_ns' \in Nat /\ last_scrub_ns' <= NowNs'
        /\ looked' * NsPerTick - last_scrub_ns' < SCRUB_INTERVAL_NS
    <2>0. looked' * NsPerTick = start_ns
      OBVIOUS
    <2>1. CASE scrub_due(start_ns)
      BY <1>3, <2>0, <2>1, SpaceAssumption
    <2>2. CASE ~scrub_due(start_ns)
      BY <1>3, <2>0, <2>2, SpaceAssumption DEF scrub_due, Inv, Paced
    <2> QED
      BY <2>1, <2>2
  <1>6. \A n \in Live' : Repairable(words'[n]) =>
            /\ words'[n].at \in Nat
            /\ last_scrub_ns' = None \/ last_scrub_ns' <= words'[n].at * NsPerTick
    <2>1. CASE scrub_due(start_ns)
      BY <1>2, <2>1
    <2>2. CASE ~scrub_due(start_ns)
      BY <1>2, <2>2 DEF Inv, Paced, Redrawn
    <2> QED
      BY <2>1, <2>2
  <1>7. Paced'
    BY <1>4, <1>5, <1>6 DEF Paced, Repairable, Verdict
  <1> QED
    BY <1>1, <1>7 DEF Inv

\* A frame keeps the invariant, banks nothing wrong, and shows nothing wrong
\* that it verified.
LEMMA FrameDrawn ==
    ASSUME Inv, Frame
    PROVE  Inv' /\ Banked /\ (tab = "Stopwatch" => shown' # "wrong")
  <1> DEFINE start == IF bench = "running" THEN looked ELSE now
             start_ns == start * NsPerTick
             due == scrub_due(start_ns)
             scrubbed == IF due THEN VerifyAll(words, Live) ELSE words
             found == Worst(words, Live)
             m == IF due THEN RecordMode(mode, unrecoverable, found, start_ns) ELSE mode
             l == IF due THEN RecordLatch(unrecoverable, found) ELSE unrecoverable
             checked == m.name = "Emergency"
             r == CASE tab = "Stopwatch" -> ReadStopwatch(scrubbed, checked)
                    [] tab = "Timer" -> ReadTimer(scrubbed, checked)
                    [] OTHER -> ReadOther(scrubbed)
             noted == tab \in {"Stopwatch", "Timer"}
  <1>1. /\ words' = r.words /\ truth' = r.truth
        /\ unrecoverable' = IF noted THEN RecordLatch(l, r.verdict) ELSE l
        /\ shown' = CASE ~checked \/ tab = "Bench" \/ unrecoverable' = "set" -> "plain"
                      [] r.val = r.right -> "exact"
                      [] OTHER -> "wrong"
        /\ last_scrub_ns' = IF due THEN start_ns ELSE last_scrub_ns
        /\ looked' = start /\ bench' = "no"
        /\ UNCHANGED <<lap_count, tab, session, now>>
    BY DEF Frame, world
  <1>2. /\ Table(words) /\ DOMAIN truth = Names /\ Started
        /\ session \in Sessions /\ tab \in session.tabs
        /\ lap_count \in 0 .. Len(Laps)
    BY DEF Inv, Shape, Kept
  <1>3. tab \in {"Clock", "Stopwatch", "Timer", "Bench"}
    BY <1>2, SpaceAssumption
  <1>11. start \in Nat /\ start <= now
    BY DEF Inv, Paced
  <1>4. /\ Redrawn(words, scrubbed) /\ scrubbed["spent"].good = words["spent"].good
        /\ due => \A n \in Live : ~Repairable(scrubbed[n])
        /\ l # "set" => unrecoverable # "set"
    BY Scrubs
  <1>5. checked \in BOOLEAN
    OBVIOUS
  <1>6. /\ StopwatchWords \subseteq Names \ TimerWords /\ StopwatchWords \subseteq Live
        /\ Live \subseteq Names /\ Live' = Live /\ StopwatchWords' = StopwatchWords
        /\ StopwatchCounters \subseteq StopwatchWords
        /\ {"spent", "timer_started_at"} \subseteq Names /\ "spent" \in TimerWords
    BY <1>1, <1>2, LiveNames DEF Live, StopwatchWords, LapWords, TimerWords, Names, Fixed
  <1> HIDE DEF start, scrubbed, found, l, m, checked
  <1>7. Table(scrubbed) /\ \A n \in Names : scrubbed[n].good = words[n].good
    BY <1>4 DEF Redrawn
  <1>8. CASE tab = "Stopwatch"
    <2>1. r = ReadStopwatch(scrubbed, checked)
      BY <1>8
    <2> HIDE DEF r
    <2>2. /\ Redrawn(scrubbed, r.words) /\ r.words["spent"].good = scrubbed["spent"].good
          /\ r.truth = truth
          /\ /\ checked /\ r.verdict # Unrecoverable
             /\ \A n \in StopwatchCounters : scrubbed[n].good = truth[n]
             => r.val = r.right
      BY <1>5, <1>7, <2>1, StopwatchRead
    <2>3. unrecoverable' # "set" => l # "set" /\ r.verdict # Unrecoverable
      BY <1>1, <1>8, LatchIs
    <2>4. ASSUME unrecoverable' # "set"
          PROVE  \A n \in StopwatchWords : words[n].good = truth[n]
      BY <1>4, <2>3, <2>4 DEF Inv, Kept, Trusted
    <2>5. shown' # "wrong"
      <3>1. CASE checked /\ unrecoverable' # "set"
        <4>1. r.val = r.right
          BY <1>6, <1>7, <2>2, <2>3, <2>4, <3>1
        <4> QED
          BY <1>1, <3>1, <4>1
      <3>2. CASE ~(checked /\ unrecoverable' # "set")
        BY <1>1, <3>2
      <3> QED
        BY <3>1, <3>2
    <2>6. Redrawn(words, words') /\ truth' = truth
      BY <1>1, <1>4, <2>2 DEF Redrawn, Table, Word
    <2>7. \A n \in Names : words'[n].good = words[n].good
      BY <1>1, <1>7, <2>2 DEF Redrawn
    <2>8. Kept' /\ Banked
      BY <1>2, <1>6, <2>4, <2>6, <2>7 DEF Kept, Trusted, Started, Banked, Untouched
    <2>9. due => \A n \in Live : ~Repairable(words'[n])
      BY <1>1, <1>4, <1>6, <2>2 DEF Redrawn
    <2> QED
      BY <1>1, <1>2, <1>6, <1>11, <2>5, <2>6, <2>8, <2>9, FramePaced
  <1>9. CASE tab = "Timer"
    <2>1. r = ReadTimer(scrubbed, checked)
      BY <1>9
    <2> HIDE DEF r
    <2>2. /\ Redrawn(scrubbed, r.words) /\ DOMAIN r.truth = Names
          /\ \A n \in Names \ {"spent"} : r.truth[n] = truth[n]
          /\ /\ r.verdict # Unrecoverable
             /\ \A n \in {"spent", "timer_started_at"} : scrubbed[n].good = truth[n]
             => r.words["spent"].good = r.truth["spent"]
      BY <1>2, <1>5, <1>7, <2>1, TimerRead
    <2>3. unrecoverable' # "set" => unrecoverable # "set" /\ r.verdict # Unrecoverable
      BY <1>1, <1>4, <1>9, LatchIs
    <2>4. Redrawn(words, words') /\ DOMAIN truth' = Names
      BY <1>1, <1>4, <2>2 DEF Redrawn, Table, Word
    <2>5. \A n \in Names \ {"spent"} : words'[n].good = words[n].good /\ truth'[n] = truth[n]
      BY <1>1, <1>7, <2>2 DEF Redrawn
    <2>6. Banked
      BY <1>1, <1>2, <1>6, <1>7, <1>9, <2>2, <2>3 DEF Banked, Started
    <2>7. Kept'
      BY <1>2, <1>6, <2>3, <2>5 DEF Inv, Kept, Trusted, Started
    <2>8. due => \A n \in Live : ~Repairable(words'[n])
      BY <1>1, <1>4, <1>6, <2>2 DEF Redrawn
    <2> QED
      BY <1>1, <1>2, <1>6, <1>9, <1>11, <2>4, <2>6, <2>7, <2>8, FramePaced
  <1>10. CASE tab \in {"Clock", "Bench"}
    <2>1. r = ReadOther(scrubbed)
      BY <1>10
    <2>2. words' = scrubbed /\ truth' = truth /\ unrecoverable' = l
      BY <1>1, <1>10, <2>1 DEF ReadOther
    <2>3. Redrawn(words, words') /\ DOMAIN truth' = Names
      BY <1>2, <1>4, <2>2 DEF Redrawn, Table, Word
    <2>4. \A n \in Names : words'[n].good = words[n].good
      BY <1>7, <2>2
    <2>5. Kept' /\ Banked
      BY <1>2, <1>4, <1>6, <2>2, <2>4 DEF Inv, Kept, Trusted, Started, Banked, Untouched
    <2>6. due => \A n \in Live : ~Repairable(words'[n])
      BY <1>4, <2>2
    <2> QED
      BY <1>1, <1>2, <1>6, <1>10, <1>11, <2>3, <2>5, <2>6, FramePaced
  <1> QED
    BY <1>3, <1>8, <1>9, <1>10

----------------------------------------------------------------------------
(* The theorems.                                                           *)

\* Every step keeps the invariant; every one but a reset of the stopwatch
\* banks nothing wrong; and nothing wrong is shown on the stopwatch's tab.
LEMMA InvStep ==
    ASSUME Inv, Next
    PROVE  /\ Inv' /\ (Banked \/ ResetStopwatch)
           /\ EmergencyReadsExact => EmergencyReadsExact'
  <1> USE DEF EmergencyReadsExact
  <1> DEFINE Goal == Inv' /\ Banked /\ (EmergencyReadsExact => EmergencyReadsExact')
  <1>1. ASSUME Toggle, bench # "running" PROVE Goal
    BY <1>1, Toggled DEF Toggle, screen
  <1>2. CASE Lap
    BY <1>2, LapTaken DEF Lap, screen
  <1>3. CASE ResetStopwatch
    BY <1>3, StopwatchReset DEF ResetStopwatch, screen
  <1>4. CASE ResetTimer
    BY <1>4, TimerReset DEF ResetTimer, screen
  <1>5. ASSUME NEW up \in BOOLEAN, Adjust(up) PROVE Goal
    BY <1>5, TargetAdjusted DEF Adjust, screen
  <1>6. ASSUME NEW t \in Tabs, SelectTab(t) PROVE Goal
    BY <1>6, TabSelected DEF SelectTab
  <1>7. CASE Frame
    BY <1>7, FrameDrawn DEF Frame
  <1>8. CASE Tick
    BY <1>8, Ticked DEF Tick, screen
  <1>9. ASSUME NEW n \in Live, NEW b \in Bits, NEW c \in Bits, NEW spares \in BOOLEAN,
               Strike(n, {b, c}, spares)
        PROVE  Goal
    BY <1>9, Stricken DEF Strike, screen
  <1>10. ASSUME AskBench, bench # "running" PROVE Goal
    BY <1>10, BenchAsked DEF AskBench, screen
  <1>11. CASE RunBench
    BY <1>11, BenchRun DEF RunBench
  <1>12. CASE Input
    BY <1>1, <1>2, <1>3, <1>4, <1>5, <1>6, <1>10, <1>12 DEF Input
  <1> QED
    BY <1>7, <1>8, <1>9, <1>11, <1>12 DEF Next

\* Nothing changes in a stuttering step.
LEMMA InvStutter ==
    ASSUME Inv, UNCHANGED vars
    PROVE  Inv' /\ Banked /\ (EmergencyReadsExact => EmergencyReadsExact')
  <1>1. /\ UNCHANGED <<words, truth, lap_count, tab, last_scrub_ns, now, unrecoverable, shown>>
        /\ Held
    BY DEF vars, Held
  <1>2. Shape' /\ Paced'
    BY <1>1, Quiet DEF Inv, Shape, Table, Word
  <1> QED
    BY <1>1, <1>2, TimerStep DEF Untouched, Started, Banked, Inv, Kept, EmergencyReadsExact

\* The invariant holds in every behaviour.
LEMMA Invariant == Spec => []Inv
  BY InvInit, InvStep, InvStutter, PTL DEF Spec

\* Damage that can be repaired is gone from every live word at the end of the
\* first frame that reads its clock a scrub interval after it was done, for any
\* interval, any length of a tick and any benchmark the frame runs, whatever was
\* pressed meanwhile.
THEOREM AlwaysScrubbed == Spec => []ScrubbedInTime
  <1>1. Inv => ScrubbedInTime
    <2> SUFFICES ASSUME Inv, bench # "running", NEW n \in Live, Repairable(words[n])
                 PROVE  (looked - words[n].at) * NsPerTick < SCRUB_INTERVAL_NS
      BY DEF ScrubbedInTime
    <2> DEFINE at == words[n].at
               d == looked * NsPerTick
               a == at * NsPerTick
    <2>1. at \in Nat /\ looked \in Nat
      BY DEF Inv, Paced
    <2>2. (looked - at) * NsPerTick = d - a
      BY <2>1, SpaceAssumption
    <2>3. a \in Nat /\ d \in Nat /\ (looked = 0 => d = 0)
      BY <2>1, SpaceAssumption
    <2>4. CASE last_scrub_ns = None
      <3>1. d = 0
        BY <2>3, <2>4 DEF Inv, Paced
      <3> HIDE DEF a, d
      <3> QED
        BY <2>2, <2>3, <3>1, SpaceAssumption
    <2>5. CASE last_scrub_ns # None
      <3>1. last_scrub_ns \in Nat /\ last_scrub_ns <= a /\ d - last_scrub_ns < SCRUB_INTERVAL_NS
        BY <2>5 DEF Inv, Paced
      <3> HIDE DEF a, d
      <3> QED
        BY <2>2, <2>3, <3>1, SpaceAssumption
    <2> QED
      BY <2>4, <2>5
  <1> QED
    BY <1>1, Invariant, PTL

\* What the stopwatch shows in Emergency is what an undamaged machine would
\* show, or the loss is reported: no damage within the decoder's limit gets
\* past a verified readout.
THEOREM ReadoutsExact == Spec => []EmergencyReadsExact
  <1>1. Init => EmergencyReadsExact
    BY DEF Init, EmergencyReadsExact
  <1>2. ASSUME Inv, EmergencyReadsExact, [Next]_vars PROVE EmergencyReadsExact'
    BY <1>2, InvStep, InvStutter
  <1> QED
    BY <1>1, <1>2, Invariant, PTL DEF Spec

\* What the timer spent is right, or a loss is latched, or a reset of the
\* stopwatch took the latch back.
SpentKept ==
    words["spent"].good # truth["spent"] => unrecoverable = "set" \/ waived = "yes"

\* The latch is cleared by nothing but that reset.
LEMMA LatchStays ==
    ASSUME Next, ~ResetStopwatch, unrecoverable = "set"
    PROVE  unrecoverable' = "set"
  BY DEF Next, Input, Toggle, AskBench, ToggleStopwatch, ToggleTimer, Record, RecordLatch, Lap,
     ResetTimer, Adjust, SelectTab, RunBench, Frame, Tick, Strike, space

\* What was taken back is forgotten only when the timer is put to zero.
LEMMA WaivedStays ==
    ASSUME Inv, Next, ~ResetStopwatch
    PROVE  waived' = waived \/ words'["spent"].good = truth'["spent"]
  <1>1. CASE ResetTimer
    BY <1>1, TimerReset
  <1>2. ASSUME NEW up \in BOOLEAN, Adjust(up) PROVE words'["spent"].good = truth'["spent"]
    BY <1>2, TargetAdjusted
  <1> QED
    BY <1>1, <1>2 DEF Next, Input, Toggle, AskBench, Lap, SelectTab, RunBench, Frame, Tick, Strike

\* No flipped bit is ever banked: pauses, laps, expiry and resets store what an
\* undamaged machine would have stored, or the loss was reported and is still
\* latched, or, for the timer, was taken back with the stopwatch's reset.
THEOREM NothingBadBanked == Spec => []BankedTrusted
  <1>1. Init => SpentKept
    <2>1. {"spent"} \subseteq Fixed
      BY DEF Fixed, TimerWords
    <2> QED
      BY <2>1, ProtectedIs DEF Init, SpentKept
  <1>2. ASSUME Inv, SpentKept, [Next]_vars PROVE SpentKept'
    <2>1. CASE ResetStopwatch
      <3>1. Untouched(TimerWords) /\ waived' = IF unrecoverable = "set" THEN "yes" ELSE waived
        BY <1>2, <2>1, StopwatchReset DEF ResetStopwatch
      <3> QED
        BY <1>2, <3>1 DEF SpentKept, Untouched, TimerWords
    <2>2. CASE Next /\ ~ResetStopwatch
      <3>1. Banked
        BY <1>2, <2>2, InvStep
      <3>2. unrecoverable = "set" => unrecoverable' = "set"
        BY <2>2, LatchStays
      <3>3. waived' = waived \/ words'["spent"].good = truth'["spent"]
        BY <1>2, <2>2, WaivedStays
      <3> QED
        BY <1>2, <3>1, <3>2, <3>3 DEF SpentKept, Banked
    <2>3. CASE UNCHANGED vars
      BY <1>2, <2>3 DEF SpentKept, vars
    <2> QED
      BY <1>2, <2>1, <2>2, <2>3
  <1>3. Inv /\ SpentKept => BankedTrusted
    BY DEF Inv, Kept, Trusted, Started, SpentKept, BankedTrusted
  <1> QED
    BY <1>1, <1>2, <1>3, InvInit, InvStep, InvStutter, PTL DEF Spec

===========================================================================
