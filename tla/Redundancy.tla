----------------------------- MODULE Redundancy -----------------------------
(***************************************************************************)
(* A protected word of redundancy.rs: a value with its Hamming SECDED      *)
(* check byte and two replicas that carry a code of their own, hit by bit  *)
(* flips between the calls that read, verify and replace it.               *)
(*                                                                         *)
(* A copy is the set of its bits that are one: 0 is the overall parity     *)
(* bit, the powers of two are the Hamming parities, the other codeword     *)
(* positions hold the data.  The code has 71 positions and 7 parities;     *)
(* CodewordLen is a parameter, as there smaller than the next power of     *)
(* two, so that some syndromes name no position.                           *)
(***************************************************************************)
EXTENDS Integers, FiniteSetsExt

CONSTANTS CodewordLen, Parities, MaxFlips  \* bound: bits flipped since the last store

\* What the constants are.
RedundancyConstants ==
    /\ CodewordLen \in 0 .. 127 /\ MaxFlips \in Nat
    /\ Parities = {p \in {1, 2, 4, 8, 16, 32, 64} : p <= CodewordLen}

DataPositions == (1 .. CodewordLen) \ Parities
Positions == 0 .. CodewordLen
Replicas == {1, 2}

VARIABLES
    value,      \* the working copy: data and check byte
    replicas,
    stored      \* what the owner last stored (history)

vars == <<value, replicas, stored>>

-----------------------------------------------------------------------------
(* Hamming SECDED *)

Odd(S) == Cardinality(S) % 2 = 1
Data(copy) == copy \cap DataPositions

\* A position as a binary number: the parities that cover it.
Bits(position) == {p \in Parities : (position \div p) % 2 = 1}

\* hamming_parities: parity p covers the data positions with bit p set.
HammingParities(data) == {p \in Parities : Odd({d \in data : p \in Bits(d)})}

\* check_bits: the parities and the parity of data and parities together.
Overall(data, parities) == IF Odd(data \cup parities) THEN {0} ELSE {}
CheckBits(data) == HammingParities(data) \cup Overall(data, HammingParities(data))
Encode(data) == data \cup CheckBits(data)

\* The syndrome, as the set of its bits, and position_to_data_index: the data
\* bit it names, if any.
Syndrome(copy) == SymDiff(HammingParities(Data(copy)), copy \cap Parities)
Named(copy) == {d \in DataPositions : Bits(d) = Syndrome(copy)}
OverallDiffers(copy) == Overall(Data(copy), copy \cap Parities) # copy \cap {0}

\* Mutant: a word whose parity agrees is taken as it is.
MutDecodeNoDouble(copy) ==
    IF OverallDiffers(copy)
    THEN [kind |-> "Corrected", data |-> SymDiff(Data(copy), Named(copy))]
    ELSE [kind |-> "Clean", data |-> Data(copy)]

\* decode: a flip in the parity bits, or a syndrome that names no position,
\* leaves the data as it is.
Decode(copy) ==
    IF OverallDiffers(copy)
    THEN [kind |-> "Corrected", data |-> SymDiff(Data(copy), Named(copy))]
    ELSE [kind |-> IF Syndrome(copy) = {} THEN "Clean" ELSE "DoubleError", data |-> Data(copy)]

-----------------------------------------------------------------------------
(* The protected word *)

\* Replica::candidate, as a set of at most one value.
Candidate(copy) == IF Decode(copy).kind = "DoubleError" THEN {} ELSE {Decode(copy).data}

\* Protected::vote: both replicas must stand behind the same value.
Vote ==
    LET agreed == Candidate(replicas[1]) \cap Candidate(replicas[2])
    IN  IF agreed # {} THEN [data |-> CHOOSE d \in agreed : TRUE, outcome |-> "CorrectedByTmr"]
        ELSE [data |-> Data(value), outcome |-> "Unrecoverable"]

\* Protected::get_checked.
GetChecked ==
    LET d == Decode(value) IN
    CASE d.kind = "Clean" -> [data |-> d.data, outcome |-> "Clean"]
      [] d.kind = "Corrected" -> [data |-> d.data, outcome |-> "CorrectedByEcc"]
      [] OTHER -> Vote

Fill(data) ==
    /\ value' = Encode(data)
    /\ replicas' = [r \in Replicas |-> Encode(data)]

Init ==
    /\ stored \in SUBSET DataPositions
    /\ value = Encode(stored)
    /\ replicas = [r \in Replicas |-> Encode(stored)]

\* Protected::set.
SetValue(data) ==
    /\ Fill(data)
    /\ stored' = data

\* Mutant: an error corrected by the code leaves the replicas as they are.
MutVerifyPrimaryOnly ==
    LET g == GetChecked IN
    /\ IF g.outcome \in {"Clean", "Unrecoverable"} THEN UNCHANGED value ELSE value' = Encode(g.data)
    /\ UNCHANGED <<replicas, stored>>

\* Protected::verify with repair_by_vote: a repair rewrites all three copies,
\* a clean word and a lost one are left alone.
Verify ==
    LET g == GetChecked IN
    /\ IF g.outcome \in {"Clean", "Unrecoverable"} THEN UNCHANGED <<value, replicas>>
       ELSE Fill(g.data)
    /\ UNCHANGED stored

Damage(copy) == Cardinality(SymDiff(copy, Encode(stored)))
Flips == Damage(value) + Damage(replicas[1]) + Damage(replicas[2])

\* A bit flips in the working copy or in a replica.
FlipValue(bit) ==
    /\ Flips < MaxFlips
    /\ value' = SymDiff(value, {bit})
    /\ UNCHANGED <<replicas, stored>>

FlipReplica(r, bit) ==
    /\ Flips < MaxFlips
    /\ replicas' = [replicas EXCEPT ![r] = SymDiff(@, {bit})]
    /\ UNCHANGED <<value, stored>>

Next ==
    \/ Verify
    \/ \E data \in SUBSET DataPositions : SetValue(data)
    \/ \E bit \in Positions : FlipValue(bit)
    \/ \E r \in Replicas, bit \in Positions : FlipReplica(r, bit)

Spec == Init /\ [][Next]_vars

-----------------------------------------------------------------------------
(* Properties *)

\* One flip anywhere in the working copy and its check byte is corrected,
\* whatever the replicas look like ("it corrects any single-bit flip").  Two
\* flips are never believed: the replicas repair them if each has at most one
\* flip of its own, and as long as none has more than two the word is right or
\* reported as lost.
FlipsNeverBelieved ==
    /\ Damage(value) <= 1 => GetChecked.data = stored /\ GetChecked.outcome # "Unrecoverable"
    /\ Damage(value) = 2 =>
        /\ GetChecked.outcome \in {"CorrectedByTmr", "Unrecoverable"}
        /\ (\A r \in Replicas : Damage(replicas[r]) <= 1) =>
              GetChecked = [data |-> stored, outcome |-> "CorrectedByTmr"]
        /\ (\A r \in Replicas : Damage(replicas[r]) <= 2) =>
              GetChecked.data = stored \/ GetChecked.outcome = "Unrecoverable"

\* A repair leaves three whole copies: flips do not add up across repairs.
RepairsWhole ==
    [][Verify /\ GetChecked.outcome \in {"CorrectedByEcc", "CorrectedByTmr"} =>
        /\ value' = Encode(Data(value'))
        /\ \A r \in Replicas : replicas'[r] = value']_vars
=============================================================================
