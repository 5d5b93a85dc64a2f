------------------------------- MODULE Frames -------------------------------
(***************************************************************************)
(* Physical memory of the bare-metal kernel: a table of at most N free     *)
(* ranges (frames.rs), filled from the loader's memory map, cut by the     *)
(* boot-time reservations, then allocated from and freed to (palloc.rs)    *)
(* by drivers, surfaces and the frame buffer.                              *)
(*                                                                         *)
(* A driver module supplies the length it frees (ncdri.rs), and free       *)
(* refuses only what overlaps free memory; misuses counts the frees whose  *)
(* length is not the allocated one.                                        *)
(*                                                                         *)
(* The code keeps the table sorted; its order only decides which range is  *)
(* tried first, so here the table is a set.  ram, reserved and taken are   *)
(* history: what was added, what was reserved and what is handed out.      *)
(***************************************************************************)
EXTENDS Integers, FiniteSetsExt

CONSTANTS
    PAGE,
    N,          \* ranges the table holds (RANGES in palloc.rs)
    Top,        \* the largest address (u64::MAX)
    CEILING,    \* exclusive limit of what is handed out
    Bases, Lens, Aligns,    \* the arguments calls are made with
    MaxEntries, \* bound: entries of the memory map
    MaxMisuses  \* bound: frees with a wrong length

ASSUME FramesAssumption ==
    /\ {PAGE} \cup Aligns \subseteq Nat \ {0}
    /\ {N, Top, CEILING} \subseteq Nat /\ MaxEntries \in Nat /\ MaxMisuses \in Nat
    /\ Bases \cup Lens \subseteq 0 .. Top
    /\ CEILING <= Top

VARIABLES
    ranges,     \* the free runs
    dropped,    \* bytes lost to a full table
    phase,      \* "map" until closed, "closed" until palloc is READY, "ready"
    in_use,     \* palloc's IN_USE
    entries,    \* entries of the map read
    ram, reserved, taken,
    misuses     \* runs freed with a wrong length (history)

vars == <<ranges, dropped, phase, in_use, entries, ram, reserved, taken, misuses>>

Run(b, e) == [base |-> b, end |-> e]
Length(r) == r.end - r.base
AlignDown(x, a) == x - (x % a)
AlignUp(x, a) == AlignDown(x + a - 1, a)
Sat(x) == IF x > Top THEN Top ELSE x

Overlap(r, s) == r.base < s.end /\ s.base < r.end
Touch(r, s) == r.base <= s.end /\ s.base <= r.end

-----------------------------------------------------------------------------
(* The table *)

\* insert: [base, end) merged with every range it overlaps or touches.  The
\* ranges held never touch each other, so at most one reaches below the base
\* and at most one above the end.
Merged(run) ==
    LET below == {r \in ranges : Touch(r, run) /\ r.base < run.base}
        above == {r \in ranges : Touch(r, run) /\ r.end > run.end}
    IN  Run(IF below = {} THEN run.base ELSE (CHOOSE r \in below : TRUE).base,
            IF above = {} THEN run.end ELSE (CHOOSE r \in above : TRUE).end)

Apart(run) == {r \in ranges : ~Touch(r, run)}

\* The first of the smallest ranges of a full table.
Smallest(S) ==
    CHOOSE r \in S : \A s \in S : Length(r) < Length(s) \/ (Length(r) = Length(s) /\ r.base <= s.base)

\* A full table keeps the larger of the new range and the smallest it holds.
Insert(run) ==
    LET new == Merged(run)
        rest == Apart(run)
        small == Smallest(rest)
    IN  IF Cardinality(rest) < N
        THEN ranges' = rest \cup {new} /\ UNCHANGED dropped
        ELSE IF N = 0 \/ Length(small) >= Length(new)
             THEN ranges' = rest /\ dropped' = dropped + Length(new)
             ELSE ranges' = (rest \ {small}) \cup {new} /\ dropped' = dropped + Length(small)

\* Mutant: a split with no slot keeps the whole range.
MutRemoveKeeps(run) ==
    LET hit == {r \in ranges : Overlap(r, run)}
        split == {r \in hit : r.base < run.base /\ run.end < r.end}
        left == {Run(r.base, run.base) : r \in {r \in hit : r.base < run.base}}
        right == {Run(run.end, r.end) : r \in {r \in hit : run.end < r.end}}
    IN  /\ ranges' = IF split # {} /\ Cardinality(ranges) = N THEN ranges
                     ELSE (ranges \ hit) \cup left \cup right
        /\ UNCHANGED dropped

\* remove: [base, end) cut out of every range; a range split in two needs a
\* slot, and without one the smaller half is lost.
Remove(run) ==
    LET hit == {r \in ranges : Overlap(r, run)}
        split == {r \in hit : r.base < run.base /\ run.end < r.end}
        left == {Run(r.base, run.base) : r \in {r \in hit : r.base < run.base}}
        right == {Run(run.end, r.end) : r \in {r \in hit : run.end < r.end}}
        full == split # {} /\ Cardinality(ranges) = N
        r0 == CHOOSE r \in split : TRUE
        keepLeft == run.base - r0.base >= r0.end - run.end
    IN  /\ ranges' = (ranges \ hit) \cup (IF full /\ ~keepLeft THEN {} ELSE left)
                                    \cup (IF full /\ keepLeft THEN {} ELSE right)
        /\ dropped' = IF ~full THEN dropped
                      ELSE dropped + (IF keepLeft THEN r0.end - run.end ELSE run.base - r0.base)

-----------------------------------------------------------------------------
(* palloc *)

Init ==
    /\ ranges = {} /\ dropped = 0 /\ phase = "map" /\ in_use = 0 /\ entries = 0
    /\ ram = {} /\ reserved = {} /\ taken = {} /\ misuses = 0

\* Frames::add, called with what lies below the ceiling and trimmed inward to
\* whole pages.
Add(base, len) ==
    LET end == Min({Sat(base + len), CEILING})
        lo == AlignUp(base, PAGE)
        hi == AlignDown(Sat(base + (end - base)), PAGE)
    IN  /\ phase = "map" /\ entries < MaxEntries
        /\ base < end
        /\ base + PAGE - 1 <= Top /\ lo < hi
        /\ Insert(Run(lo, hi))
        /\ ram' = ram \cup {Run(lo, hi)}
        /\ entries' = entries + 1
        /\ UNCHANGED <<phase, in_use, reserved, taken, misuses>>

\* Frames::reserve, widened outward to whole pages.
Reserve(base, len) ==
    LET lo == AlignDown(base, PAGE)
        hi == IF Sat(base + len) + PAGE - 1 <= Top THEN AlignUp(Sat(base + len), PAGE)
              ELSE AlignDown(Top, PAGE)
    IN  /\ phase \in {"map", "closed"}
        /\ phase' = "closed"
        /\ IF len = 0 THEN UNCHANGED <<ranges, dropped, reserved>>
           ELSE Remove(Run(lo, hi)) /\ reserved' = reserved \cup {Run(lo, hi)}
        /\ UNCHANGED <<in_use, entries, ram, taken, misuses>>

\* The end of init_multiboot.
Ready ==
    /\ phase = "closed"
    /\ phase' = "ready"
    /\ UNCHANGED <<ranges, dropped, in_use, entries, ram, reserved, taken, misuses>>

\* The highest run of a range that lies below the ceiling.
StartIn(r, len, align) == AlignDown(Min({r.end, AlignDown(CEILING, PAGE)}) - len, align)

Fits(r, len, align) ==
    /\ Min({r.end, AlignDown(CEILING, PAGE)}) - r.base >= len
    /\ StartIn(r, len, align) >= r.base

\* alloc: first fit from the top.
Alloc(asked, wanted) ==
    LET len == AlignUp(asked, PAGE)
        align == Max({wanted, PAGE})
        fit == {r \in ranges : Fits(r, len, align)}
    IN  /\ phase = "ready"
        /\ asked > 0 /\ asked + PAGE - 1 <= Top
        /\ \E r \in fit :
            /\ \A s \in fit : s.base <= r.base
            /\ LET run == Run(StartIn(r, len, align), StartIn(r, len, align) + len)
               IN  Remove(run) /\ taken' = taken \cup {run}
        /\ in_use' = in_use + len
        /\ UNCHANGED <<phase, entries, ram, reserved, misuses>>

\* Frames::free accepts any page-aligned run that overlaps no free memory.
Accepted(run) == run.base % PAGE = 0 /\ \A r \in ranges : ~Overlap(r, run)

\* Mutant: the count goes down by what was asked for, not by whole pages.
MutReturned(asked) == Min({asked, in_use})

\* What free takes from IN_USE, never below zero.
Returned(asked) == Min({AlignUp(asked, PAGE), in_use})

\* palloc::free of a run that is handed out, with the length it was asked for.
Free(run, asked) ==
    /\ phase = "ready"
    /\ run \in taken /\ asked > 0 /\ Length(run) = AlignUp(asked, PAGE)
    /\ Accepted(run)
    /\ Insert(run)
    /\ taken' = taken \ {run}
    /\ in_use' = in_use - Returned(asked)
    /\ UNCHANGED <<phase, entries, ram, reserved, misuses>>

\* palloc::free with a length the run was not allocated with.
FreeWrong(run, asked) ==
    LET freed == Run(run.base, run.base + AlignUp(asked, PAGE))
    IN  /\ phase = "ready" /\ misuses < MaxMisuses
        /\ run \in taken /\ asked > 0 /\ Length(run) # AlignUp(asked, PAGE)
        /\ Accepted(freed)
        /\ Insert(freed)
        /\ taken' = taken \ {run}
        /\ in_use' = in_use - Returned(asked)
        /\ misuses' = misuses + 1
        /\ UNCHANGED <<phase, entries, ram, reserved>>

Next ==
    \/ \E base \in Bases, len \in Lens : Add(base, len)
    \/ \E base \in Bases, len \in Lens : Reserve(base, len)
    \/ Ready
    \/ \E len \in Lens, align \in Aligns : Alloc(len, align)
    \/ \E run \in taken, len \in Lens : Free(run, len) \/ FreeWrong(run, len)

Spec == Init /\ [][Next]_vars

-----------------------------------------------------------------------------
(* Properties *)

\* The table stays within N ranges, whole pages, none empty.
TypeOK ==
    /\ Cardinality(ranges) <= N
    /\ \A r \in ranges : r.base < r.end /\ r.base % PAGE = 0 /\ r.end % PAGE = 0
    /\ \A r \in taken : r.base < r.end /\ r.end <= CEILING
    /\ {dropped, in_use} \subseteq Nat /\ misuses \in 0 .. MaxMisuses
    /\ phase \in {"map", "closed", "ready"}

\* "sorted and never touching (two adjacent ranges are always merged)", also
\* after a run came back with a wrong length.
NeverTouching == \A r, s \in ranges : r # s => ~Touch(r, s)

\* As long as every run is freed with the length it was asked for, memory that
\* is reserved or handed out is never free, and no two callers hold the same
\* memory, however full the table is.
NeverShared == misuses = 0 =>
    /\ \A t \in taken \cup reserved, r \in ranges : ~Overlap(t, r)
    /\ \A t, u \in taken : t # u => ~Overlap(t, u)
    /\ \A t \in taken, u \in reserved : ~Overlap(t, u)

Bytes(S) == UNION {r.base .. r.end - 1 : r \in S}

\* Under the same proviso, memory that is neither free nor in use was counted
\* as lost, and IN_USE is what is handed out.
Accounted == misuses = 0 =>
    /\ Cardinality(Bytes(ram) \ Bytes(ranges \cup taken \cup reserved)) <= dropped
    /\ in_use = Cardinality(Bytes(taken))
=============================================================================
