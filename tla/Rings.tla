-------------------------------- MODULE Rings --------------------------------
(***************************************************************************)
(* The rings a host controller and its driver share (xhci.rs).  A producer *)
(* hands an entry over by its cycle bit; the last entry of a ring is kept  *)
(* for a link back to the first, past which both sides use the other bit.  *)
(***************************************************************************)
EXTENDS Naturals

CONSTANT RING_LEN   \* entries of a ring, the last one for the link

Entries == 0..RING_LEN - 1

Start == [index |-> 0, cycle |-> 1]

\* An entry that was never written: its cycle bit is clear.
Blank == [what |-> "none", slot |-> 0, n |-> 0, cycle |-> 0]

-----------------------------------------------------------------------------
(* The producer never looks where the consumer is.                         *)

\* Mutant: the producer starts over with the bit it used before.
MutWrappedSameCycle(p) == IF p.index >= RING_LEN - 1 THEN [p EXCEPT !.index = 0] ELSE p

\* At the last entry a link is written, and the producer starts over with
\* the other cycle bit.
Wrapped(p) ==
    IF p.index >= RING_LEN - 1 THEN [index |-> 0, cycle |-> 1 - p.cycle] ELSE p

Put(ring, p, what, slot, n) ==
    LET q == Wrapped(p)
        linked == IF p.index >= RING_LEN - 1
                    THEN [ring EXCEPT ![RING_LEN - 1] = [Blank EXCEPT !.what = "link", !.cycle = p.cycle]]
                    ELSE ring
    IN  [linked EXCEPT ![q.index] = [what |-> what, slot |-> slot, n |-> n, cycle |-> q.cycle]]

Next1(p) == [p EXCEPT !.index = @ + 1]

Advance(p) == Next1(Wrapped(p))

-----------------------------------------------------------------------------
(* The consumer.                                                           *)

Visible(ring, c) == ring[c.index].cycle = c.cycle

Follow(ring, c) ==
    IF ring[c.index].what = "link" THEN [index |-> 0, cycle |-> 1 - c.cycle] ELSE c

\* There is an entry to take: past the link, if there is one, too.
Ready(ring, c) == Visible(ring, c) /\ Visible(ring, Follow(ring, c))

Entry(ring, c) == ring[Follow(ring, c).index]

Past(ring, c) == Next1(Follow(ring, c))
=============================================================================
