---------------------------- MODULE KernelProofs ----------------------------
(***************************************************************************)
(* The parts of MCKernel, for every value of the constants: the protected  *)
(* word, the power confirmation, the cooldown, the plugins, the driver     *)
(* framework (by NcdriProofs) and, last, the page allocator.  A step of    *)
(* another part is a stutter of each, so what is inductive for a part is   *)
(* an invariant of MCSpec, and the theorems are about the properties that  *)
(* TLC checks of it.                                                       *)
(***************************************************************************)
EXTENDS MCKernel, Sequences, FiniteSetTheorems, WellFoundedInduction, TLAPS

KP == INSTANCE NcdriProofs

-----------------------------------------------------------------------------
(***************************************************************************)
(* The protected word, for every length of a codeword that seven parities  *)
(* can number.                                                             *)
(*                                                                         *)
(* Nothing is assumed of the flips, so that the invariant is only that the *)
(* copies are codewords' worth of bits.  The argument is the code's: one   *)
(* flip adds the bits of its position to the syndrome (FlipSyndrome) and   *)
(* changes the overall parity (FlipOverall), and no two positions have the *)
(* same bits (BitsDistinct).                                               *)
(***************************************************************************)
LEMMA WordCardinality == \A S : R!Cardinality(S) = Cardinality(S)
    BY DEF R!Cardinality, Cardinality

\* A position of the code is told by the parities that cover it.
LEMMA SevenBits ==
    ASSUME NEW x \in 0 .. 127, NEW y \in 0 .. 127,
           \A p \in {1, 2, 4, 8, 16, 32, 64} : (x \div p) % 2 = (y \div p) % 2
    PROVE  x = y
<1>1. /\ x % 2 = y % 2
      /\ (x \div 2) % 2 = (y \div 2) % 2
      /\ (x \div 4) % 2 = (y \div 4) % 2
      /\ (x \div 8) % 2 = (y \div 8) % 2
      /\ (x \div 16) % 2 = (y \div 16) % 2
      /\ (x \div 32) % 2 = (y \div 32) % 2
      /\ (x \div 64) % 2 = (y \div 64) % 2
    BY x \div 1 = x, y \div 1 = y
<1>2. ASSUME NEW z \in 0 .. 127
      PROVE  /\ z \div 64 = (z \div 64) % 2
             /\ z \div 32 = 2 * (z \div 64) + ((z \div 32) % 2)
             /\ z \div 16 = 2 * (z \div 32) + ((z \div 16) % 2)
             /\ z \div 8 = 2 * (z \div 16) + ((z \div 8) % 2)
             /\ z \div 4 = 2 * (z \div 8) + ((z \div 4) % 2)
             /\ z \div 2 = 2 * (z \div 4) + ((z \div 2) % 2)
             /\ z = 2 * (z \div 2) + (z % 2)
    OBVIOUS
<1>3. x \div 64 = y \div 64
    BY <1>1, <1>2
<1>4. x \div 32 = y \div 32
    BY <1>1, <1>2, <1>3
<1>5. x \div 16 = y \div 16
    BY <1>1, <1>2, <1>4
<1>6. x \div 8 = y \div 8
    BY <1>1, <1>2, <1>5
<1>7. x \div 4 = y \div 4
    BY <1>1, <1>2, <1>6
<1>8. x \div 2 = y \div 2
    BY <1>1, <1>2, <1>7
<1> QED
    BY <1>1, <1>2, <1>8

LEMMA BitsDistinct ==
    ASSUME R!RedundancyConstants, NEW x \in R!Positions, NEW y \in R!Positions,
           R!Bits(x) = R!Bits(y)
    PROVE  x = y
<1>1. x \in 0 .. 127 /\ y \in 0 .. 127 /\ CodewordLen \in 0 .. 127
    BY DEF R!RedundancyConstants, R!Positions
<1>2. ASSUME NEW p \in {1, 2, 4, 8, 16, 32, 64} PROVE (x \div p) % 2 = (y \div p) % 2
    <2>1. CASE p <= CodewordLen
        <3>1. p \in MCParities
            BY <2>1 DEF R!RedundancyConstants
        <3>2. (x \div p) % 2 = 1 <=> (y \div p) % 2 = 1
            BY <3>1 DEF R!Bits
        <3> QED
            BY <1>1, <3>2
    <2>2. CASE ~(p <= CodewordLen)
        <3>1. x < p /\ y < p
            BY <1>1, <2>2 DEF R!Positions
        <3> QED
            BY <1>1, <3>1
    <2> QED
        BY <2>1, <2>2
<1> QED
    BY <1>1, <1>2, SevenBits

\* The overall bit is covered by no parity, a parity by itself.
LEMMA BitsOfCheckBits ==
    ASSUME R!RedundancyConstants
    PROVE  /\ R!Bits(0) = {}
           /\ \A p \in MCParities : R!Bits(p) = {p}
<1>1. MCParities \subseteq {1, 2, 4, 8, 16, 32, 64}
    BY DEF R!RedundancyConstants
<1>2. ASSUME NEW p \in {1, 2, 4, 8, 16, 32, 64} PROVE (0 \div p) % 2 = 0
    OBVIOUS
<1>3. ASSUME NEW p \in {1, 2, 4, 8, 16, 32, 64}, NEW q \in {1, 2, 4, 8, 16, 32, 64}
      PROVE  (p \div q) % 2 = 1 <=> p = q
    OBVIOUS
<1>4. ASSUME NEW q \in R!Bits(0) PROVE FALSE
    <2>1. q \in MCParities /\ (0 \div q) % 2 = 1
        BY DEF R!Bits
    <2> QED
        BY <1>1, <1>2, <2>1
<1>5. ASSUME NEW p \in MCParities, NEW q \in MCParities PROVE q \in R!Bits(p) <=> q = p
    <2>1. q \in R!Bits(p) <=> (p \div q) % 2 = 1
        BY DEF R!Bits
    <2> QED
        BY <1>1, <1>3, <2>1
<1>6. \A x : R!Bits(x) \subseteq MCParities
    BY DEF R!Bits
<1> QED
    BY <1>4, <1>5, <1>6

\* One element more, the other parity.
LEMMA OneMore ==
    ASSUME NEW S, NEW T, Cardinality(T) \in Nat, Cardinality(S) = Cardinality(T) + 1
    PROVE  R!Odd(S) <=> ~R!Odd(T)
<1>1. R!Cardinality(S) = Cardinality(S) /\ R!Cardinality(T) = Cardinality(T)
    BY WordCardinality
<1> QED
    BY <1>1 DEF R!Odd

\* A flip changes the parity of a set.
LEMMA FlipParity ==
    ASSUME NEW S, IsFiniteSet(S), NEW x
    PROVE  /\ IsFiniteSet(R!SymDiff(S, {x}))
           /\ R!Odd(R!SymDiff(S, {x})) <=> ~R!Odd(S)
<1>1. Cardinality(S) \in Nat
    BY FS_CardinalityType
<1>2. CASE x \in S
    <2>1. R!SymDiff(S, {x}) = S \ {x}
        BY <1>2 DEF R!SymDiff
    <2>2. IsFiniteSet(S \ {x}) /\ Cardinality(S \ {x}) = Cardinality(S) - 1
        BY <1>2, FS_RemoveElement
    <2>3. Cardinality(S \ {x}) \in Nat
        BY <2>2, FS_CardinalityType
    <2>4. Cardinality(S) = Cardinality(S \ {x}) + 1
        BY <1>1, <2>2
    <2>5. R!Odd(S) <=> ~R!Odd(S \ {x})
        BY <2>3, <2>4, OneMore
    <2> QED
        BY <2>1, <2>2, <2>5
<1>3. CASE x \notin S
    <2>1. R!SymDiff(S, {x}) = S \cup {x}
        BY <1>3 DEF R!SymDiff
    <2>2. IsFiniteSet(S \cup {x}) /\ Cardinality(S \cup {x}) = Cardinality(S) + 1
        BY <1>3, FS_AddElement
    <2>3. R!Odd(S \cup {x}) <=> ~R!Odd(S)
        BY <1>1, <2>2, OneMore
    <2> QED
        BY <2>1, <2>2, <2>3
<1> QED
    BY <1>2, <1>3

-----------------------------------------------------------------------------
(* What one flip does to a codeword: it adds the flipped position's own    *)
(* bits to the syndrome and changes the overall parity.                    *)

\* A copy of the word, and what the parities must be sets of.
LEMMA CopiesFinite ==
    ASSUME R!RedundancyConstants, NEW copy \in SUBSET R!Positions
    PROVE  IsFiniteSet(copy)
<1>1. IsFiniteSet(0 .. CodewordLen)
    BY FS_Interval DEF R!RedundancyConstants
<1> QED
    BY <1>1, FS_Subset DEF R!Positions

LEMMA PositionKinds ==
    ASSUME R!RedundancyConstants
    PROVE  /\ MCParities \subseteq R!Positions /\ 0 \notin MCParities
           /\ R!DataPositions \subseteq R!Positions /\ 0 \notin R!DataPositions
           /\ R!Positions = {0} \cup MCParities \cup R!DataPositions
           /\ MCParities \cap R!DataPositions = {}
<1>1. MCParities \subseteq 1 .. CodewordLen /\ CodewordLen \in Nat
    BY DEF R!RedundancyConstants
<1>2. \A b : b \in R!Positions <=> b = 0 \/ b \in 1 .. CodewordLen
    BY <1>1 DEF R!Positions
<1>3. R!DataPositions = (1 .. CodewordLen) \ MCParities
    BY DEF R!DataPositions
<1>4. 0 \notin 1 .. CodewordLen
    OBVIOUS
<1> QED
    BY <1>1, <1>2, <1>3, <1>4

LEMMA FlipData ==
    ASSUME NEW copy, NEW b
    PROVE  R!Data(R!SymDiff(copy, {b})) =
               IF b \in R!DataPositions THEN R!SymDiff(R!Data(copy), {b}) ELSE R!Data(copy)
    BY DEF R!Data, R!SymDiff

\* A flipped data bit changes the Hamming parities that cover it.
LEMMA FlipHamming ==
    ASSUME NEW data, IsFiniteSet(data), NEW b
    PROVE  R!HammingParities(R!SymDiff(data, {b})) = R!SymDiff(R!HammingParities(data), R!Bits(b))
<1> DEFINE Cover(S, p) == {d \in S : p \in R!Bits(d)}
<1>1. ASSUME NEW p \in MCParities
      PROVE  R!Odd(Cover(R!SymDiff(data, {b}), p)) <=> (R!Odd(Cover(data, p)) <=> p \notin R!Bits(b))
    <2>1. IsFiniteSet(Cover(data, p))
        BY FS_Subset
    <2>2. CASE p \in R!Bits(b)
        <3>1. Cover(R!SymDiff(data, {b}), p) = R!SymDiff(Cover(data, p), {b})
            BY <2>2 DEF R!SymDiff
        <3> QED
            BY <2>1, <2>2, <3>1, FlipParity
    <2>3. CASE p \notin R!Bits(b)
        <3>1. Cover(R!SymDiff(data, {b}), p) = Cover(data, p)
            BY <2>3 DEF R!SymDiff
        <3> QED
            BY <2>3, <3>1
    <2> QED
        BY <2>2, <2>3
<1>2. \A S : R!HammingParities(S) = {p \in MCParities : R!Odd(Cover(S, p))}
    BY DEF R!HammingParities
<1>3. R!Bits(b) \subseteq MCParities
    BY DEF R!Bits
<1> HIDE DEF Cover
<1> QED
    BY <1>1, <1>2, <1>3 DEF R!SymDiff

LEMMA FlipSyndrome ==
    ASSUME R!RedundancyConstants, NEW copy \in SUBSET R!Positions, NEW b \in R!Positions
    PROVE  R!Syndrome(R!SymDiff(copy, {b})) = R!SymDiff(R!Syndrome(copy), R!Bits(b))
<1> DEFINE flipped == R!SymDiff(copy, {b})
           parities == R!HammingParities(R!Data(copy))
<1>1. CASE b \in R!DataPositions
    <2>1. R!Data(flipped) = R!SymDiff(R!Data(copy), {b})
        BY <1>1, FlipData
    <2>5. flipped \cap MCParities = copy \cap MCParities
        BY <1>1, PositionKinds DEF R!SymDiff
    <2>2. IsFiniteSet(R!Data(copy))
        BY CopiesFinite DEF R!Data
    <2>3. R!HammingParities(R!Data(flipped)) = R!SymDiff(parities, R!Bits(b))
        BY <2>1, <2>2, FlipHamming
    <2> HIDE DEF flipped, parities
    <2>4. R!SymDiff(R!SymDiff(parities, R!Bits(b)), copy \cap MCParities)
              = R!SymDiff(R!SymDiff(parities, copy \cap MCParities), R!Bits(b))
        BY DEF R!SymDiff
    <2> QED
        BY <2>3, <2>4, <2>5 DEF R!Syndrome, flipped, parities
<1>2. CASE b \notin R!DataPositions
    <2>1. R!Data(flipped) = R!Data(copy)
        BY <1>2, FlipData
    <2>2. flipped \cap MCParities = R!SymDiff(copy \cap MCParities, R!Bits(b))
        BY <1>2, PositionKinds, BitsOfCheckBits DEF R!SymDiff
    <2> HIDE DEF flipped, parities
    <2>3. R!SymDiff(parities, R!SymDiff(copy \cap MCParities, R!Bits(b)))
              = R!SymDiff(R!SymDiff(parities, copy \cap MCParities), R!Bits(b))
        BY DEF R!SymDiff
    <2> QED
        BY <2>1, <2>2, <2>3 DEF R!Syndrome, flipped, parities
<1> QED
    BY <1>1, <1>2

LEMMA FlipOverall ==
    ASSUME R!RedundancyConstants, NEW copy \in SUBSET R!Positions, NEW b \in R!Positions
    PROVE  R!OverallDiffers(R!SymDiff(copy, {b})) <=> ~R!OverallDiffers(copy)
<1> DEFINE flipped == R!SymDiff(copy, {b})
           body(c) == R!Data(c) \cup (c \cap MCParities)
<1>1. \A c : R!OverallDiffers(c) <=> (R!Odd(body(c)) <=> 0 \notin c)
    BY DEF R!OverallDiffers, R!Overall
<1>2. IsFiniteSet(body(copy))
    BY CopiesFinite, PositionKinds DEF R!Data
<1>3. CASE b = 0
    <2>1. body(flipped) = body(copy) /\ (0 \in flipped <=> 0 \notin copy)
        BY <1>3, PositionKinds DEF R!SymDiff, R!Data
    <2> HIDE DEF body, flipped
    <2> QED
        BY <1>1, <2>1 DEF flipped
<1>4. CASE b # 0
    <2>1. body(flipped) = R!SymDiff(body(copy), {b}) /\ (0 \in flipped <=> 0 \in copy)
        BY <1>4, PositionKinds DEF R!SymDiff, R!Data
    <2>2. R!Odd(body(flipped)) <=> ~R!Odd(body(copy))
        BY <1>2, <2>1, FlipParity
    <2> HIDE DEF body, flipped
    <2> QED
        BY <1>1, <2>1, <2>2 DEF flipped
<1> QED
    BY <1>3, <1>4

-----------------------------------------------------------------------------
(* What decode finds, by the number of flips.                              *)

LEMMA DataOfEncode ==
    ASSUME R!RedundancyConstants, NEW data \in SUBSET R!DataPositions
    PROVE  /\ R!Encode(data) \in SUBSET R!Positions
           /\ R!Data(R!Encode(data)) = data
           /\ R!Syndrome(R!Encode(data)) = {}
           /\ ~R!OverallDiffers(R!Encode(data))
<1> DEFINE parities == R!HammingParities(data)
           overall == R!Overall(data, parities)
<1>1. parities \subseteq MCParities /\ overall \subseteq {0}
    BY DEF R!HammingParities, R!Overall
<1>2. R!Encode(data) = data \cup parities \cup overall
    BY DEF R!Encode, R!CheckBits
<1> HIDE DEF parities, overall
<1>3. R!Encode(data) \in SUBSET R!Positions /\ R!Encode(data) \cap R!DataPositions = data
    BY <1>1, <1>2, PositionKinds
<1>4. R!Encode(data) \cap MCParities = parities /\ R!Encode(data) \cap {0} = overall
    BY <1>1, <1>2, PositionKinds
<1>5. R!Data(R!Encode(data)) = data
    BY <1>3 DEF R!Data
<1>6. R!Syndrome(R!Encode(data)) = {}
    BY <1>4, <1>5 DEF R!Syndrome, R!SymDiff, parities
<1>7. ~R!OverallDiffers(R!Encode(data))
    BY <1>4, <1>5 DEF R!OverallDiffers, overall
<1> QED
    BY <1>3, <1>5, <1>6, <1>7

\* A copy is what was encoded, with the bits flipped in which it differs.
LEMMA Undamaged ==
    ASSUME R!RedundancyConstants, NEW copy \in SUBSET R!Positions,
           NEW data \in SUBSET R!DataPositions,
           Cardinality(R!SymDiff(copy, R!Encode(data))) = 0
    PROVE  R!Decode(copy) = [kind |-> "Clean", data |-> data]
<1>1. IsFiniteSet(R!SymDiff(copy, R!Encode(data)))
    BY CopiesFinite, DataOfEncode DEF R!SymDiff
<1>2. R!SymDiff(copy, R!Encode(data)) = {}
    BY <1>1, FS_EmptySet
<1>3. copy = R!Encode(data)
    BY <1>2 DEF R!SymDiff
<1> QED
    BY <1>3, DataOfEncode DEF R!Decode

\* One flip is corrected: the syndrome is the flipped position itself.
LEMMA OneFlip ==
    ASSUME R!RedundancyConstants, NEW copy \in SUBSET R!Positions,
           NEW data \in SUBSET R!DataPositions,
           Cardinality(R!SymDiff(copy, R!Encode(data))) = 1
    PROVE  R!Decode(copy) = [kind |-> "Corrected", data |-> data]
<1> DEFINE whole == R!Encode(data)
<1>1. whole \in SUBSET R!Positions
    BY DataOfEncode
<1>2. IsFiniteSet(R!SymDiff(copy, whole))
    BY <1>1, CopiesFinite DEF R!SymDiff
<1>3. PICK b : R!SymDiff(copy, whole) = {b}
    BY <1>2, FS_Singleton
<1>4. b \in R!Positions /\ copy = R!SymDiff(whole, {b})
    BY <1>1, <1>3 DEF R!SymDiff
<1> HIDE DEF whole
<1>5. R!OverallDiffers(copy)
    BY <1>1, <1>4, FlipOverall, DataOfEncode DEF whole
<1>6. R!Syndrome(copy) = R!Bits(b)
    <2>1. R!Syndrome(copy) = R!SymDiff({}, R!Bits(b))
        BY <1>1, <1>4, FlipSyndrome, DataOfEncode DEF whole
    <2> QED
        BY <2>1 DEF R!SymDiff
<1>7. R!Named(copy) = {b} \cap R!DataPositions
    BY <1>4, <1>6, BitsDistinct, PositionKinds DEF R!Named
<1>8. R!Data(copy) = IF b \in R!DataPositions THEN R!SymDiff(data, {b}) ELSE data
    BY <1>4, FlipData, DataOfEncode DEF whole
<1>9. R!SymDiff(R!Data(copy), R!Named(copy)) = data
    BY <1>7, <1>8 DEF R!SymDiff
<1> QED
    BY <1>5, <1>9 DEF R!Decode

\* Two flips are seen and never taken for one, or for none: the overall parity
\* agrees, and two positions have different bits.
LEMMA TwoFlips ==
    ASSUME R!RedundancyConstants, NEW copy \in SUBSET R!Positions,
           NEW data \in SUBSET R!DataPositions,
           Cardinality(R!SymDiff(copy, R!Encode(data))) = 2
    PROVE  R!Decode(copy).kind = "DoubleError"
<1> DEFINE whole == R!Encode(data)
           flips == R!SymDiff(copy, whole)
<1>1. whole \in SUBSET R!Positions
    BY DataOfEncode
<1>2. IsFiniteSet(flips)
    BY <1>1, CopiesFinite DEF R!SymDiff
<1>3. PICK a : a \in flips
    BY <1>2, FS_EmptySet
<1>4. IsFiniteSet(flips \ {a}) /\ Cardinality(flips \ {a}) = 1
    BY <1>2, <1>3, FS_RemoveElement
<1>5. PICK b : flips \ {a} = {b}
    BY <1>4, FS_Singleton
<1>6. a # b /\ flips = {a, b}
    BY <1>3, <1>5
<1> HIDE DEF whole
<1>7. a \in R!Positions /\ b \in R!Positions
    BY <1>1, <1>6 DEF R!SymDiff
<1> DEFINE once == R!SymDiff(whole, {a})
<1>8. copy = R!SymDiff(once, {b}) /\ once \in SUBSET R!Positions
    BY <1>1, <1>6, <1>7 DEF R!SymDiff
<1>9. ~R!OverallDiffers(copy)
    BY <1>1, <1>7, <1>8, FlipOverall, DataOfEncode DEF whole
<1>10. R!Syndrome(copy) # {}
    <2>1. R!Syndrome(once) = R!SymDiff({}, R!Bits(a))
        BY <1>1, <1>7, FlipSyndrome, DataOfEncode DEF whole
    <2>2. R!Syndrome(copy) = R!SymDiff(R!Syndrome(once), R!Bits(b))
        BY <1>7, <1>8, FlipSyndrome
    <2>3. R!Bits(a) # R!Bits(b)
        BY <1>6, <1>7, BitsDistinct
    <2> HIDE DEF once
    <2> QED
        BY <2>1, <2>2, <2>3 DEF R!SymDiff
<1> QED
    BY <1>9, <1>10 DEF R!Decode

-----------------------------------------------------------------------------
(* The word and its replicas.                                              *)

\* Three copies of a codeword, whatever has been flipped in them.
WordType ==
    /\ stored \in SUBSET R!DataPositions
    /\ value \in SUBSET R!Positions
    /\ replicas \in [R!Replicas -> SUBSET R!Positions]

\* What is read of a word is data, so a repair stores a codeword.
LEMMA ReadsAreData ==
    ASSUME WordType
    PROVE  R!GetChecked.data \in SUBSET R!DataPositions
<1>1. ASSUME NEW copy PROVE R!Decode(copy).data \in SUBSET R!DataPositions
    <2>1. R!Data(copy) \subseteq R!DataPositions /\ R!Named(copy) \subseteq R!DataPositions
        BY DEF R!Data, R!Named
    <2>2. R!SymDiff(R!Data(copy), R!Named(copy)) \subseteq R!DataPositions
        BY <2>1 DEF R!SymDiff
    <2> QED
        BY <2>1, <2>2 DEF R!Decode
<1>2. R!Vote.data \in SUBSET R!DataPositions
    <2> DEFINE agreed == R!Candidate(replicas[1]) \cap R!Candidate(replicas[2])
    <2>1. \A d \in agreed : d \in SUBSET R!DataPositions
        BY <1>1 DEF R!Candidate
    <2>2. R!Data(value) \in SUBSET R!DataPositions
        BY DEF R!Data
    <2>3. R!Vote.data = IF agreed # {} THEN CHOOSE d \in agreed : TRUE ELSE R!Data(value)
        BY DEF R!Vote
    <2> HIDE DEF agreed
    <2>4. agreed # {} => (CHOOSE d \in agreed : TRUE) \in agreed
        OBVIOUS
    <2> QED
        BY <2>1, <2>2, <2>3, <2>4
<1> QED
    BY <1>1, <1>2 DEF R!GetChecked

LEMMA FillType ==
    ASSUME R!RedundancyConstants, NEW data \in SUBSET R!DataPositions, R!Fill(data)
    PROVE  /\ value' \in SUBSET R!Positions
           /\ replicas' \in [R!Replicas -> SUBSET R!Positions]
    BY DataOfEncode DEF R!Fill

LEMMA WordTyped == MCSpec => []WordType
<1> USE KernelConstants
<1>1. MCInit => WordType
    BY DataOfEncode DEF MCInit, R!Init, WordType
<1>2. ASSUME WordType, [MCNext]_all PROVE WordType'
    <2>1. CASE R!Verify
        <3>1. CASE R!GetChecked.outcome \in {"Clean", "Unrecoverable"}
            BY <1>2, <2>1, <3>1 DEF R!Verify, WordType
        <3>2. CASE R!Fill(R!GetChecked.data)
            BY <1>2, <2>1, <3>2, FillType, ReadsAreData DEF R!Verify, WordType
        <3> QED
            BY <2>1, <3>1, <3>2 DEF R!Verify
    <2>2. ASSUME NEW data \in SUBSET R!DataPositions, R!SetValue(data) PROVE WordType'
        BY <2>2, FillType DEF R!SetValue, WordType
    <2>3. ASSUME NEW bit \in R!Positions, R!FlipValue(bit) PROVE WordType'
        BY <1>2, <2>3 DEF R!FlipValue, R!SymDiff, WordType
    <2>4. ASSUME NEW r \in R!Replicas, NEW bit \in R!Positions, R!FlipReplica(r, bit)
          PROVE  WordType'
        <3>1. R!SymDiff(replicas[r], {bit}) \in SUBSET R!Positions
            BY <1>2 DEF R!SymDiff, WordType
        <3> QED
            BY <1>2, <2>4, <3>1 DEF R!FlipReplica, WordType
    <2>5. CASE UNCHANGED wordVars
        BY <1>2, <2>5 DEF wordVars, WordType
    <2> QED
        BY <1>2, <2>1, <2>2, <2>3, <2>4, <2>5
        DEF MCNext, WordStep, R!Next, FramesStep, PowerStep, ProbeStep, DriverStep, PluginStep, all
<1> QED
    BY <1>1, <1>2, PTL DEF MCSpec

\* A copy's standing: one flip or none leaves it able to say what was stored,
\* two leave it silent.
LEMMA Standing ==
    ASSUME R!RedundancyConstants, NEW copy \in SUBSET R!Positions, stored \in SUBSET R!DataPositions
    PROVE  /\ R!Damage(copy) \in Nat
           /\ R!Damage(copy) <= 1 =>
                 R!Decode(copy).kind \in {"Clean", "Corrected"} /\ R!Decode(copy).data = stored
           /\ R!Damage(copy) = 2 => R!Decode(copy).kind = "DoubleError"
<1>1. R!Damage(copy) = Cardinality(R!SymDiff(copy, R!Encode(stored)))
    BY WordCardinality DEF R!Damage
<1>2. R!Damage(copy) \in Nat
    <2>1. IsFiniteSet(R!SymDiff(copy, R!Encode(stored)))
        BY CopiesFinite, DataOfEncode DEF R!SymDiff
    <2> QED
        BY <1>1, <2>1, FS_CardinalityType
<1>3. R!Damage(copy) = 0 => R!Decode(copy) = [kind |-> "Clean", data |-> stored]
    BY <1>1, Undamaged
<1>4. R!Damage(copy) = 1 => R!Decode(copy) = [kind |-> "Corrected", data |-> stored]
    BY <1>1, OneFlip
<1>5. R!Damage(copy) = 2 => R!Decode(copy).kind = "DoubleError"
    BY <1>1, TwoFlips
<1> QED
    BY <1>2, <1>3, <1>4, <1>5

\* A flip of a protected word is corrected, two are repaired by the replicas or
\* reported, for a codeword of any length the seven parities can cover, the 71
\* positions of the code's among them (redundancy.rs decode, get_checked, vote).
THEOREM WordNeverMisread == MCSpec => []FlipsNeverBelieved
<1>1. ASSUME WordType PROVE FlipsNeverBelieved
    <2> USE KernelConstants, <1>1 DEF WordType
    <2>1. \A r \in R!Replicas : replicas[r] \in SUBSET R!Positions
        OBVIOUS
    <2>2. ASSUME R!Damage(value) <= 1
          PROVE  R!GetChecked.data = stored /\ R!GetChecked.outcome # "Unrecoverable"
        BY <2>2, Standing DEF R!GetChecked
    <2>3. ASSUME R!Damage(value) = 2
          PROVE  R!GetChecked = R!Vote
        BY <2>3, Standing DEF R!GetChecked
    <2>4. R!Vote.outcome \in {"CorrectedByTmr", "Unrecoverable"}
        BY DEF R!Vote
    <2>5. ASSUME \A r \in R!Replicas : R!Damage(replicas[r]) <= 1
          PROVE  R!Vote = [data |-> stored, outcome |-> "CorrectedByTmr"]
        <3>1. ASSUME NEW r \in R!Replicas PROVE R!Candidate(replicas[r]) = {stored}
            BY <2>1, <2>5, Standing DEF R!Candidate
        <3>2. R!Candidate(replicas[1]) \cap R!Candidate(replicas[2]) = {stored}
            BY <3>1 DEF R!Replicas
        <3>3. (CHOOSE d \in {stored} : TRUE) = stored
            OBVIOUS
        <3> QED
            BY <3>2, <3>3 DEF R!Vote
    <2>6. ASSUME \A r \in R!Replicas : R!Damage(replicas[r]) <= 2
          PROVE  R!Vote.data = stored \/ R!Vote.outcome = "Unrecoverable"
        <3>1. ASSUME NEW r \in R!Replicas PROVE R!Candidate(replicas[r]) \subseteq {stored}
            <4>1. R!Damage(replicas[r]) \in Nat /\ R!Damage(replicas[r]) <= 2
                BY <2>1, <2>6, Standing
            <4>2. CASE R!Damage(replicas[r]) <= 1
                BY <2>1, <4>2, Standing DEF R!Candidate
            <4>3. CASE R!Damage(replicas[r]) = 2
                BY <2>1, <4>3, Standing DEF R!Candidate
            <4> QED
                BY <4>1, <4>2, <4>3
        <3>2. R!Candidate(replicas[1]) \cap R!Candidate(replicas[2]) \subseteq {stored}
            BY <3>1 DEF R!Replicas
        <3> QED
            BY <3>2 DEF R!Vote
    <2> QED
        BY <2>2, <2>3, <2>4, <2>5, <2>6 DEF FlipsNeverBelieved, R!FlipsNeverBelieved
<1> QED
    BY <1>1, WordTyped, PTL

\* A repair leaves three whole copies, so that flips do not add up across
\* repairs (redundancy.rs verify, repair_by_vote).
THEOREM RepairsAlwaysWhole == MCSpec => RepairsWhole
<1>1. ASSUME WordType, R!Verify, R!GetChecked.outcome \in {"CorrectedByEcc", "CorrectedByTmr"}
      PROVE  /\ value' = R!Encode(R!Data(value'))
             /\ \A r \in R!Replicas : replicas'[r] = value'
    <2>1. R!Fill(R!GetChecked.data)
        BY <1>1 DEF R!Verify
    <2>2. R!Data(R!Encode(R!GetChecked.data)) = R!GetChecked.data
        BY <1>1, ReadsAreData, DataOfEncode, KernelConstants
    <2> QED
        BY <2>1, <2>2 DEF R!Fill
<1> QED
    BY <1>1, WordTyped, PTL DEF RepairsWhole, R!RepairsWhole

-----------------------------------------------------------------------------
(***************************************************************************)
(* PowerConfirm, for every length of a code, every window, lockout and     *)
(* ceiling, and any number of steps.                                       *)
(*                                                                         *)
(* The properties speak of the moment a code is completed or missed.  The  *)
(* invariant says what is true before: the prompt that is pending is the   *)
(* one on the screen, the keys pressed since are as much of its code as    *)
(* the policy has counted (Typed), it came up after the last lockout, and  *)
(* that lockout ends no sooner than the history asks (Paced).              *)
(***************************************************************************)
Prompts == [action : P!Actions, code : P!Codes, typed : 0..CODE_DIGITS - 1, since : Nat]

PowerType ==
    /\ screen \in P!Screens
    /\ clock \in Nat /\ misses \in Nat /\ locked_until \in Nat
    /\ streak \in Nat /\ due \in Nat
    /\ pending \in Prompts \cup {P!NoPrompt}
    /\ keys \in Seq(Digits \cup {P!Other})

\* The screen shows the pending prompt; the keys since then are the part of
\* the code that counts as typed; a screen that notes the action itself has
\* noted this one.
Typed ==
    pending # P!NoPrompt =>
        /\ prompt = [action |-> pending.action, code |-> pending.code, since |-> pending.since]
        /\ Len(keys) = pending.typed
        /\ \A i \in 1..pending.typed : keys[i] = pending.code[i]
        /\ asked \in {pending.action, P!None}

Paced ==
    /\ due <= locked_until
    /\ pending # P!NoPrompt => locked_until <= pending.since /\ pending.since <= clock

PowerInv == PowerType /\ Typed /\ Paced /\ P!OnlyByCode /\ P!GuessesSlow

-----------------------------------------------------------------------------
\* A power of two is the size of a powerset, and so a number.
LEMMA PowersOfTwo == ASSUME NEW n \in Nat PROVE 2 ^ n \in Nat
<1>1. IsFiniteSet(1..n) /\ Cardinality(1..n) = n
    BY FS_Interval
<1>2. IsFiniteSet(SUBSET (1..n)) /\ Cardinality(SUBSET (1..n)) = 2 ^ n
    BY <1>1, FS_SUBSET
<1> QED
    BY <1>2, FS_CardinalityType

\* A lockout is a length of time.
LEMMA LockoutType ==
    ASSUME P!PowerConstants, NEW m \in Nat
    PROVE  P!Lockout(m) \in Nat
<1>1. P!Least(m, MAX_SHIFT) \in Nat
    BY DEF P!PowerConstants, P!Least
<1>2. 2 ^ P!Least(m, MAX_SHIFT) \in Nat
    BY <1>1, PowersOfTwo
<1>3. ASSUME NEW k \in Nat PROVE LOCKOUT_BASE * k \in Nat
    BY <1>3 DEF P!PowerConstants
<1>4. LOCKOUT_BASE * 2 ^ P!Least(m, MAX_SHIFT) \in Nat
    BY <1>2, <1>3
<1> QED
    BY <1>4 DEF P!PowerConstants, P!Least, P!Lockout

\* A prompt is told from none by its action.
LEMMA PromptsReal == P!NoPrompt \notin Prompts
BY DEF P!NoPrompt, Prompts, P!Actions, P!None

-----------------------------------------------------------------------------
LEMMA PowerInitInv == P!Init => PowerInv
BY DEF P!Init, PowerInv, PowerType, Typed, Paced, P!OnlyByCode, P!GuessesSlow, P!Quiet, P!None

\* The step of the proof for a request: what is pending came up now, at the
\* end of the lockout or after it.
LEMMA AskInv ==
    ASSUME P!PowerConstants, PowerInv, NEW a \in P!Actions, P!Ask(a)
    PROVE  PowerInv'
<1> USE PromptsReal DEF P!Ask, PowerInv, P!PowerConstants
<1>1. CASE pending' = P!NoPrompt /\ UNCHANGED <<asked, prompt, keys>>
    BY <1>1 DEF PowerType, Typed, Paced, P!OnlyByCode, P!GuessesSlow, P!Quiet, P!None, P!guesses
<1>2. CASE /\ clock >= locked_until
           /\ \E c \in P!Codes :
                /\ pending' = [action |-> a, code |-> c, typed |-> 0, since |-> clock]
                /\ prompt' = [action |-> a, code |-> c, since |-> clock]
           /\ keys' = <<>>
           /\ asked' = IF P!Keeps THEN a ELSE P!None
    <2>1. PICK c \in P!Codes :
            /\ pending' = [action |-> a, code |-> c, typed |-> 0, since |-> clock]
            /\ prompt' = [action |-> a, code |-> c, since |-> clock]
        BY <1>2
    <2>2. clock \in Nat /\ 0 \in 0..CODE_DIGITS - 1
        BY DEF PowerType
    <2>3. pending' \in Prompts
        BY <2>1, <2>2 DEF Prompts
    <2>4. PowerType'
        BY <1>2, <2>3 DEF PowerType, P!guesses
    <2>5. Typed'
        BY <1>2, <2>1 DEF Typed
    <2>6. Paced'
        BY <1>2, <2>1 DEF Paced, PowerType, P!guesses
    <2>7. P!OnlyByCode' /\ P!GuessesSlow'
        BY DEF P!OnlyByCode, P!GuessesSlow, P!Quiet, P!None, P!guesses
    <2> QED
        BY <2>4, <2>5, <2>6, <2>7
<1> QED
    BY <1>1, <1>2 DEF P!Request

LEMMA CancelInv ==
    ASSUME PowerInv, P!Cancel, UNCHANGED <<screen, clock, prompt>>, keys' \in Seq(Digits \cup {P!Other})
    PROVE  PowerInv'
BY DEF P!Cancel, PowerInv, PowerType, Typed, Paced, P!OnlyByCode, P!GuessesSlow, P!Quiet, P!None, P!guesses

\* A wrong digit: the lockout of the code and that of the history have the
\* same length, and the code's begins no sooner.
LEMMA WrongInv ==
    ASSUME P!PowerConstants, PowerInv, NEW d \in Digits, P!Live, P!Wrong(d),
           keys' \in Seq(Digits \cup {P!Other}), UNCHANGED <<screen, clock, prompt>>
    PROVE  PowerInv'
<1>1. pending \in Prompts /\ due <= clock /\ due <= locked_until
    BY DEF PowerInv, PowerType, Typed, Paced, P!Live, Prompts
<1>2. misses = streak /\ streak \in Nat /\ clock \in Nat /\ due \in Nat
    BY DEF PowerInv, PowerType, P!GuessesSlow
<1>3. P!Lockout(streak) \in Nat
    BY <1>2, LockoutType
<1>4. PowerType'
    BY <1>2, <1>3 DEF P!Wrong, PowerInv, PowerType
<1>5. Typed'
    BY DEF P!Wrong, Typed
<1>6. Paced'
    BY <1>1, <1>2, <1>3 DEF P!Wrong, Paced
<1>7. P!OnlyByCode'
    BY DEF P!Wrong, P!OnlyByCode
<1>8. P!GuessesSlow'
    BY <1>1, <1>2 DEF P!Wrong, P!GuessesSlow
<1> QED
    BY <1>4, <1>5, <1>6, <1>7, <1>8 DEF PowerInv

\* What a digit adds to the keys.
LEMMA Appended ==
    ASSUME PowerInv, NEW d \in Digits
    PROVE  /\ Append(keys, d) \in Seq(Digits \cup {P!Other})
           /\ Len(Append(keys, d)) = Len(keys) + 1
           /\ Append(keys, d)[Len(keys) + 1] = d
           /\ \A i \in 1..Len(keys) : Append(keys, d)[i] = keys[i]
BY DEF PowerInv, PowerType

LEMMA RightInv ==
    ASSUME P!PowerConstants, PowerInv, NEW d \in Digits, P!Live, P!Right(d),
           keys' = Append(keys, d), UNCHANGED <<screen, clock, prompt>>
    PROVE  PowerInv'
<1>1. pending \in Prompts
    BY DEF PowerInv, PowerType, P!Live
<1>2. pending.typed \in Nat /\ CODE_DIGITS \in Nat
    BY <1>1 DEF Prompts, P!PowerConstants
<1>3. /\ pending' \in Prompts /\ pending'.typed = pending.typed + 1
      /\ pending'.action = pending.action /\ pending'.code = pending.code
      /\ pending'.since = pending.since
    BY <1>1, <1>2 DEF P!Right, Prompts
<1>4. PowerType'
    BY <1>3, Appended DEF P!Right, PowerInv, PowerType, P!guesses
<1>5. Typed'
    <2>1. Len(keys) = pending.typed /\ \A i \in 1..pending.typed : keys[i] = pending.code[i]
        BY DEF PowerInv, Typed, P!Live
    <2>2. \A i \in 1..pending.typed + 1 : keys'[i] = pending.code[i]
        BY <1>2, <2>1, Appended DEF P!Right
    <2>3. Len(keys') = pending.typed + 1
        BY <2>1, Appended
    <2>4. prompt' = [action |-> pending.action, code |-> pending.code, since |-> pending.since]
        BY DEF PowerInv, Typed, P!Live
    <2>5. asked' \in {pending.action, P!None}
        BY DEF PowerInv, Typed, P!Live, P!Right
    <2> QED
        BY <1>3, <2>2, <2>3, <2>4, <2>5 DEF Typed
<1>6. Paced'
    BY <1>3 DEF P!Right, PowerInv, Paced, P!Live, P!guesses
<1>7. P!OnlyByCode' /\ P!GuessesSlow'
    BY DEF P!Right, PowerInv, P!OnlyByCode, P!GuessesSlow, P!Quiet, P!None, P!guesses
<1> QED
    BY <1>4, <1>5, <1>6, <1>7 DEF PowerInv

\* The last digit: the keys are the code.
LEMMA ConfirmedInv ==
    ASSUME P!PowerConstants, PowerInv, NEW d \in Digits, P!Live, P!Confirmed(d), P!Keeps => asked # P!None,
           keys' = Append(keys, d), UNCHANGED <<screen, clock, prompt>>
    PROVE  PowerInv'
<1>1. pending \in Prompts /\ pending # P!NoPrompt
    BY DEF PowerInv, PowerType, P!Live
<1>2. pending.typed \in Nat /\ CODE_DIGITS \in Nat /\ pending.code \in [1..CODE_DIGITS -> Digits]
    BY <1>1 DEF Prompts, P!PowerConstants, P!Codes
<1>3. /\ prompt = [action |-> pending.action, code |-> pending.code, since |-> pending.since]
      /\ Len(keys) = pending.typed
      /\ \A i \in 1..pending.typed : keys[i] = pending.code[i]
      /\ asked \in {pending.action, P!None}
    BY <1>1 DEF PowerInv, Typed
<1>4. Append(keys, d) = pending.code
    <2> DEFINE s == Append(keys, d)
    <2>1. Len(s) = CODE_DIGITS /\ s \in Seq(Digits \cup {P!Other})
        BY <1>3, Appended DEF P!Confirmed
    <2>2. \A i \in 1..CODE_DIGITS : s[i] = pending.code[i]
        BY <1>2, <1>3, Appended DEF P!Confirmed
    <2> HIDE DEF s
    <2>3. s = [i \in 1..CODE_DIGITS |-> s[i]]
        BY <1>2, <2>1
    <2>4. pending.code = [i \in 1..CODE_DIGITS |-> pending.code[i]]
        BY <1>2
    <2>5. s = pending.code
        BY <2>2, <2>3, <2>4
    <2> QED
        BY <2>5 DEF s
<1>5. event' = [kind |-> "carried", action |-> pending.action, prompt |-> prompt,
                keys |-> pending.code, at |-> clock]
    BY <1>3, <1>4 DEF P!Confirmed
<1>6. P!OnlyByCode'
    <2>1. prompt # P!NoPrompt
        <3>1. prompt.action \in P!Actions
            BY <1>1, <1>3 DEF Prompts
        <3> QED
            BY <3>1 DEF P!NoPrompt, P!Actions, P!None
    <2>2. prompt.action = pending.action /\ prompt.code = pending.code /\ prompt.since = pending.since
        BY <1>3
    <2>3. clock - prompt.since < CONFIRM_WINDOW
        BY <2>2 DEF P!Live
    <2>4. /\ event'.prompt = prompt /\ event'.action = pending.action
          /\ event'.keys = pending.code /\ event'.at = clock
        BY <1>5
    <2> QED
        BY <2>1, <2>2, <2>3, <2>4 DEF P!OnlyByCode
<1>7. PowerType'
    BY Appended DEF P!Confirmed, PowerInv, PowerType
<1>8. Typed' /\ Paced' /\ P!GuessesSlow'
    BY <1>5 DEF P!Confirmed, PowerInv, Typed, Paced, P!GuessesSlow
<1> QED
    BY <1>6, <1>7, <1>8 DEF PowerInv

-----------------------------------------------------------------------------
LEMMA PowerNextInv ==
    ASSUME P!PowerConstants, PowerInv, [P!Next]_(P!vars)
    PROVE  PowerInv'
<1>1. ASSUME NEW a \in P!Actions, P!Ask(a) PROVE PowerInv'
    BY <1>1, AskInv
<1>2. ASSUME NEW d \in Digits, P!Digit(d) PROVE PowerInv'
    <2>1. keys' = Append(keys, d) /\ keys' \in Seq(Digits \cup {P!Other})
        BY <1>2, Appended DEF P!Digit
    <2>2. UNCHANGED <<screen, clock, prompt>>
        BY <1>2 DEF P!Digit
    <2>3. CASE P!Cancel
        BY <2>1, <2>2, <2>3, CancelInv
    <2>4. CASE P!Live /\ P!Wrong(d)
        BY <2>1, <2>2, <2>4, WrongInv
    <2>5. CASE P!Live /\ P!Right(d)
        BY <2>1, <2>2, <2>5, RightInv
    <2>6. CASE P!Live /\ P!Confirmed(d) /\ (P!Keeps => asked # P!None)
        BY <2>1, <2>2, <2>6, ConfirmedInv
    <2> QED
        BY <1>2, <2>3, <2>4, <2>5, <2>6 DEF P!Digit
<1>3. CASE P!WalkAway
    <2>1. keys' \in Seq(Digits \cup {P!Other})
        BY <1>3 DEF P!WalkAway, PowerInv, PowerType
    <2> QED
        BY <1>3, <2>1, CancelInv DEF P!WalkAway
<1>4. CASE P!Frame
    BY <1>4 DEF P!Frame, PowerInv, PowerType, Typed, Paced, P!OnlyByCode, P!GuessesSlow, P!Quiet, P!None, P!guesses
<1>5. CASE P!Tick
    <2>1. clock \in Nat /\ clock' = clock + 1 /\ UNCHANGED <<screen, pending, misses, locked_until,
                                                       asked, prompt, keys, streak, due>>
        BY <1>5 DEF P!Tick, PowerInv, PowerType, P!policy, P!guesses
    <2>2. Paced'
        BY <2>1, PromptsReal DEF PowerInv, Paced, PowerType, Prompts
    <2>3. PowerType' /\ Typed'
        BY <2>1 DEF PowerInv, PowerType, Typed
    <2>4. P!OnlyByCode' /\ P!GuessesSlow'
        BY <1>5, <2>1 DEF P!Tick, PowerInv, P!OnlyByCode, P!GuessesSlow, P!Quiet, P!None
    <2> QED
        BY <2>2, <2>3, <2>4 DEF PowerInv
<1>6. CASE UNCHANGED P!vars
    BY <1>6 DEF P!vars, PowerInv, PowerType, Typed, Paced, P!OnlyByCode, P!GuessesSlow
<1>7. ASSUME NEW s \in P!Screens, P!Renew(s) PROVE PowerInv'
    <2>1. keys' = <<>> /\ keys' \in Seq(Digits \cup {P!Other})
        BY <1>7 DEF P!Renew
    <2> QED
        BY <1>7, <2>1 DEF P!Renew, PowerInv, PowerType, Typed, Paced, P!OnlyByCode, P!GuessesSlow,
           P!Quiet, P!None
<1> QED
    BY <1>1, <1>2, <1>3, <1>4, <1>5, <1>6, <1>7 DEF P!Next

LEMMA PowerKept == MCSpec => []PowerInv
<1>1. MCInit => PowerInv
    BY PowerInitInv DEF MCInit
<1>2. ASSUME PowerInv, [MCNext]_all PROVE PowerInv'
    <2>1. [P!Next]_(P!vars)
        BY <1>2 DEF MCNext, PowerStep, FramesStep, WordStep, ProbeStep, DriverStep, PluginStep,
           all, powerVars, P!vars
    <2> QED
        BY <1>2, <2>1, PowerNextInv, KernelConstants
<1> QED
    BY <1>1, <1>2, PTL DEF MCSpec

\* Nothing restarts or powers off but by the whole code of the prompt on the
\* screen, typed in time: Confirm::digit, over any requests, cancels, frames
\* and lockouts, and whichever copy of the action the screen keeps.
THEOREM CodeBeforeAction == MCSpec => []OnlyByCode
<1>1. PowerInv => OnlyByCode
    BY DEF PowerInv, OnlyByCode
<1> QED
    BY <1>1, PowerKept, PTL

\* A run of wrong codes on one screen takes at least the sum of the lockouts of
\* all but its last, for any base, ceiling and number of doublings, and however
\* often screens are replaced, each with a policy of its own (Confirm::request,
\* Confirm::digit and Confirm::new).
THEOREM GuessesPaced == MCSpec => []GuessesSlow
<1>1. PowerInv => GuessesSlow
    BY DEF PowerInv, GuessesSlow
<1> QED
    BY <1>1, PowerKept, PTL

-----------------------------------------------------------------------------
(***************************************************************************)
(* Reprobe, for any number of threads, any cooldown and any time.          *)
(*                                                                         *)
(* The gate grants one probe for each cooldown; a probe that was granted   *)
(* may begin much later, and several may be waiting to begin.  What is     *)
(* inductive is that the time between the first probe and the last grant   *)
(* pays for the probes begun and for those still to begin (Paid).          *)
(***************************************************************************)
\* The threads whose probe was granted and has not begun.
Granted == {t \in Threads : at_thread[t] = "granted"}

ThreadPlaces == {"idle", "cached_latest", "cached_reprobe", "first_latest", "first_reprobe",
             "clock", "gate", "granted", "detect"}

ProbeType ==
    /\ now \in Nat /\ switches \in Nat /\ paid \in Nat
    /\ cooldown \in Nat
    /\ last \in Nat \cup {H!Never} /\ first \in Nat \cup {H!Never}
    /\ cache \in {"empty", "busy", "done"}
    /\ at_thread \in [Threads -> ThreadPlaces]
    /\ read \in [Threads -> Nat \cup {H!Never}]

\* One thread at most makes the first probe, and nobody comes to the gate
\* before that one is recorded.
FirstProbe ==
    /\ \A s, t \in Threads : H!Initialising(s) /\ H!Initialising(t) => s = t
    /\ \A t \in Threads : H!Initialising(t) => cache = "busy"
    /\ \A t \in Threads : at_thread[t] \in {"clock", "gate", "granted", "detect"} => cache = "done"
    /\ cache = "done" <=> last # H!Never
    /\ cache = "empty" <=> first = H!Never
    /\ cache # "done" => paid = 0

\* The clock as somebody read it is neither before the first probe nor in the
\* future, and neither is the last grant.
Clocks ==
    /\ first # H!Never => first <= now
    /\ \A t \in Threads : at_thread[t] = "gate" => read[t] # H!Never
    /\ \A t \in Threads : read[t] # H!Never => first # H!Never /\ first <= read[t] /\ read[t] <= now
    /\ last # H!Never => first # H!Never /\ first <= last /\ last <= now

Paid ==
    switches = 0 =>
        /\ cooldown = DEFAULT_COOLDOWN
        /\ last # H!Never => paid + DEFAULT_COOLDOWN * Cardinality(Granted) <= last - first

ProbeInv == ProbeType /\ FirstProbe /\ Clocks /\ Paid

-----------------------------------------------------------------------------
\* One more waiting costs one cooldown more.
LEMMA OneCooldownMore ==
    ASSUME NEW c \in Nat, NEW n \in Nat
    PROVE  c * (n + 1) = c * n + c /\ c * n \in Nat
OBVIOUS

LEMMA ThreadsFinite == H!ReprobeConstants => IsFiniteSet(Threads)
BY DEF H!ReprobeConstants, H!IsFiniteSet, IsFiniteSet

LEMMA GrantedFinite ==
    ASSUME H!ReprobeConstants
    PROVE  IsFiniteSet(Granted) /\ Cardinality(Granted) \in Nat
BY ThreadsFinite, FS_Subset, FS_CardinalityType DEF Granted

\* A thread that is granted a probe makes one more, one that begins it one
\* less, any other leaves the number as it is.
LEMMA NoneMoves ==
    ASSUME ProbeType, NEW t \in Threads, NEW to, at_thread' = [at_thread EXCEPT ![t] = to],
           at_thread[t] # "granted", to # "granted"
    PROVE  Granted' = Granted
<1>1. \A s \in Threads : at_thread'[s] = IF s = t THEN to ELSE at_thread[s]
    BY DEF ProbeType
<1> QED
    BY <1>1 DEF Granted

LEMMA OneJoins ==
    ASSUME H!ReprobeConstants, ProbeType, NEW t \in Threads, at_thread' = [at_thread EXCEPT ![t] = "granted"],
           at_thread[t] # "granted"
    PROVE  Cardinality(Granted') = Cardinality(Granted) + 1
<1>1. \A s \in Threads : at_thread'[s] = IF s = t THEN "granted" ELSE at_thread[s]
    BY DEF ProbeType
<1>2. Granted' = Granted \cup {t} /\ t \notin Granted
    BY <1>1 DEF Granted
<1> QED
    BY <1>2, GrantedFinite, FS_AddElement

LEMMA OneLeaves ==
    ASSUME H!ReprobeConstants, ProbeType, NEW t \in Threads, at_thread' = [at_thread EXCEPT ![t] = "detect"],
           at_thread[t] = "granted"
    PROVE  Cardinality(Granted) = Cardinality(Granted') + 1
<1>1. \A s \in Threads : at_thread'[s] = IF s = t THEN "detect" ELSE at_thread[s]
    BY DEF ProbeType
<1>2. Granted' = Granted \ {t} /\ t \in Granted
    BY <1>1 DEF Granted
<1>3. Cardinality(Granted') = Cardinality(Granted) - 1 /\ Cardinality(Granted) \in Nat
    BY <1>2, GrantedFinite, FS_RemoveElement
<1> QED
    BY <1>3

-----------------------------------------------------------------------------
LEMMA ProbeInitInv == H!ReprobeConstants /\ H!Init => ProbeInv
<1> SUFFICES ASSUME H!ReprobeConstants, H!Init PROVE ProbeInv
    OBVIOUS
<1>1. ProbeType
    BY DEF H!Init, H!ReprobeConstants, ProbeType, ThreadPlaces, H!Never
<1>2. FirstProbe /\ Clocks
    BY DEF H!Init, FirstProbe, Clocks, H!Initialising, H!Never
<1>3. Paid
    BY DEF H!Init, Paid
<1> QED
    BY <1>1, <1>2, <1>3 DEF ProbeInv

\* A thread that moves between places that are neither the gate's nor the
\* first probe's.
LEMMA QuietMove ==
    ASSUME H!ReprobeConstants, ProbeInv, NEW t \in Threads, NEW to \in ThreadPlaces,
           at_thread' = [at_thread EXCEPT ![t] = to],
           at_thread[t] \notin {"first_latest", "first_reprobe", "granted"},
           to \notin {"first_latest", "first_reprobe", "granted", "gate"},
           to \in {"clock", "detect"} => cache = "done",
           \/ read' = read
           \/ read' = [read EXCEPT ![t] = H!Never],
           UNCHANGED <<now, cooldown, last, cache, switches, first, paid>>
    PROVE  ProbeInv'
<1>1. \A s \in Threads : at_thread'[s] = IF s = t THEN to ELSE at_thread[s]
    BY DEF ProbeInv, ProbeType
<1>2. \A s \in Threads : read'[s] \in {read[s], H!Never} /\ (s # t => read'[s] = read[s])
    BY DEF ProbeInv, ProbeType
<1>3. ProbeType'
    BY DEF ProbeInv, ProbeType, H!Never
<1>4. FirstProbe'
    BY <1>1 DEF ProbeInv, FirstProbe, H!Initialising
<1>5. Clocks'
    BY <1>1, <1>2 DEF ProbeInv, Clocks, H!Never
<1>6. Paid'
    BY NoneMoves DEF ProbeInv, Paid
<1> QED
    BY <1>3, <1>4, <1>5, <1>6 DEF ProbeInv

LEMMA CacheMissInv ==
    ASSUME H!ReprobeConstants, ProbeInv, NEW t \in Threads, H!CacheMiss(t)
    PROVE  ProbeInv'
<1>1. PICK to \in {"first_latest", "first_reprobe"} :
        /\ at_thread' = [at_thread EXCEPT ![t] = to] /\ at_thread[t] \in {"cached_latest", "cached_reprobe"}
    BY DEF H!CacheMiss, H!Go
<1>2. \A s \in Threads : at_thread'[s] = IF s = t THEN to ELSE at_thread[s]
    BY <1>1 DEF ProbeInv, ProbeType
<1>3. /\ cache = "empty" /\ cache' = "busy" /\ first = H!Never /\ first' = now /\ paid' = paid
      /\ last = H!Never /\ paid = 0
      /\ UNCHANGED <<now, cooldown, last, read, switches>>
    BY DEF H!CacheMiss, H!Detect, ProbeInv, FirstProbe, H!gate
<1>4. ProbeType'
    BY <1>1, <1>3 DEF ProbeInv, ProbeType, ThreadPlaces
<1>5. FirstProbe'
    BY <1>1, <1>2, <1>3 DEF ProbeInv, FirstProbe, H!Initialising, ProbeType, H!Never
<1>6. Clocks'
    BY <1>1, <1>2, <1>3 DEF ProbeInv, Clocks, ProbeType
<1>7. Paid'
    BY <1>3 DEF ProbeInv, Paid
<1> QED
    BY <1>4, <1>5, <1>6, <1>7 DEF ProbeInv

LEMMA FirstClockInv ==
    ASSUME H!ReprobeConstants, ProbeInv, NEW t \in Threads, H!FirstClock(t)
    PROVE  ProbeInv'
<1>1. /\ H!Initialising(t) /\ read' = [read EXCEPT ![t] = now]
      /\ UNCHANGED <<now, cooldown, last, cache, at_thread, switches, first, paid>>
    BY DEF H!FirstClock, H!gate, H!history
<1>2. cache = "busy" /\ first # H!Never /\ first <= now
    BY <1>1 DEF ProbeInv, FirstProbe, Clocks
<1>3. ProbeType'
    BY <1>1 DEF ProbeInv, ProbeType
<1>4. FirstProbe'
    BY <1>1 DEF ProbeInv, FirstProbe, H!Initialising
<1>5. Clocks'
    <2>1. \A s \in Threads : read'[s] = IF s = t THEN now ELSE read[s]
        BY <1>1 DEF ProbeInv, ProbeType
    <2>2. now <= now
        BY DEF ProbeInv, ProbeType
    <2> QED
        BY <1>1, <1>2, <2>1, <2>2 DEF ProbeInv, Clocks, H!Initialising
<1>6. Paid'
    BY <1>1 DEF ProbeInv, Paid, Granted
<1> QED
    BY <1>3, <1>4, <1>5, <1>6 DEF ProbeInv

\* The first probe is recorded: nobody was granted one before.
LEMMA FirstRecordedInv ==
    ASSUME H!ReprobeConstants, ProbeInv, NEW t \in Threads, H!FirstRecorded(t)
    PROVE  ProbeInv'
<1>1. PICK to \in {"idle", "clock"} :
        at_thread' = [at_thread EXCEPT ![t] = to] /\ at_thread[t] \in {"first_latest", "first_reprobe"}
    BY DEF H!FirstRecorded, H!Go
<1>2. \A s \in Threads : at_thread'[s] = IF s = t THEN to ELSE at_thread[s]
    BY <1>1 DEF ProbeInv, ProbeType
<1>3. /\ cache = "busy" /\ last = H!Never /\ paid = 0 /\ first # H!Never
      /\ read[t] # H!Never /\ first <= read[t] /\ read[t] <= now
      /\ read[t] \in Nat /\ first \in Nat
    BY DEF H!FirstRecorded, ProbeInv, FirstProbe, Clocks, ProbeType
<1>4. last' = read[t] /\ cache' = "done"
      /\ read' = [read EXCEPT ![t] = H!Never]
      /\ UNCHANGED <<now, cooldown, switches, first, paid>>
    BY <1>3 DEF H!FirstRecorded, H!Remaining, H!history
<1>5. \A s \in Threads : read'[s] = IF s = t THEN H!Never ELSE read[s]
    BY <1>4 DEF ProbeInv, ProbeType
<1>6. ProbeType'
    BY <1>1, <1>3, <1>4 DEF ProbeInv, ProbeType, ThreadPlaces
<1>7. FirstProbe'
    BY <1>1, <1>2, <1>3, <1>4 DEF ProbeInv, FirstProbe, H!Initialising, H!Never
<1>8. Clocks'
    BY <1>1, <1>2, <1>3, <1>4, <1>5 DEF ProbeInv, Clocks
<1>9. Paid'
    <2>1. Granted' = {}
        BY <1>1, <1>2, <1>3 DEF ProbeInv, FirstProbe, Granted
    <2>2. Cardinality(Granted') = 0
        BY <2>1, FS_EmptySet
    <2>3. DEFAULT_COOLDOWN * 0 = 0
        BY DEF H!ReprobeConstants
    <2> QED
        BY <1>3, <1>4, <2>2, <2>3 DEF ProbeInv, Paid
<1> QED
    BY <1>6, <1>7, <1>8, <1>9 DEF ProbeInv

LEMMA ClockInv ==
    ASSUME H!ReprobeConstants, ProbeInv, NEW t \in Threads, H!Clock(t)
    PROVE  ProbeInv'
<1>1. /\ at_thread[t] = "clock" /\ at_thread' = [at_thread EXCEPT ![t] = "gate"] /\ read' = [read EXCEPT ![t] = now]
      /\ UNCHANGED <<now, cooldown, last, cache, switches, first, paid>>
    BY DEF H!Clock, H!Go, H!gate, H!history
<1>2. \A s \in Threads : /\ at_thread'[s] = IF s = t THEN "gate" ELSE at_thread[s]
                         /\ read'[s] = IF s = t THEN now ELSE read[s]
    BY <1>1 DEF ProbeInv, ProbeType
<1>3. cache = "done" /\ first # H!Never /\ first <= now
    BY <1>1 DEF ProbeInv, FirstProbe, Clocks
<1>4. ProbeType'
    BY <1>1 DEF ProbeInv, ProbeType, ThreadPlaces
<1>5. FirstProbe'
    BY <1>1, <1>2 DEF ProbeInv, FirstProbe, H!Initialising
<1>6. Clocks'
    <2>1. now <= now /\ now # H!Never
        BY DEF ProbeInv, ProbeType, H!Never
    <2> QED
        BY <1>1, <1>2, <1>3, <2>1 DEF ProbeInv, Clocks
<1>7. Paid'
    <2>1. Granted' = Granted
        BY <1>1, NoneMoves DEF ProbeInv
    <2> QED
        BY <1>1, <2>1 DEF ProbeInv, Paid
<1> QED
    BY <1>4, <1>5, <1>6, <1>7 DEF ProbeInv

\* A grant moves the last one by a cooldown or more.
LEMMA GrantInv ==
    ASSUME H!ReprobeConstants, ProbeInv, NEW t \in Threads, at_thread[t] = "gate",
           H!Remaining(t) = 0, last' = read[t], at_thread' = [at_thread EXCEPT ![t] = "granted"],
           read' = [read EXCEPT ![t] = H!Never],
           UNCHANGED <<now, cooldown, cache, switches, first, paid>>
    PROVE  ProbeInv'
<1>1. \A s \in Threads : /\ at_thread'[s] = IF s = t THEN "granted" ELSE at_thread[s]
                         /\ read'[s] = IF s = t THEN H!Never ELSE read[s]
    BY DEF ProbeInv, ProbeType
<1>2. /\ cache = "done" /\ last \in Nat /\ first \in Nat /\ read[t] \in Nat /\ paid \in Nat
      /\ first <= read[t] /\ read[t] <= now
    BY DEF ProbeInv, FirstProbe, Clocks, ProbeType
<1>3. ProbeType'
    BY <1>2 DEF ProbeInv, ProbeType, ThreadPlaces
<1>4. FirstProbe'
    BY <1>1, <1>2 DEF ProbeInv, FirstProbe, H!Initialising, H!Never
<1>5. Clocks'
    BY <1>1, <1>2 DEF ProbeInv, Clocks
<1>6. ASSUME switches = 0
      PROVE  paid + DEFAULT_COOLDOWN * Cardinality(Granted') <= read[t] - first
    <2>1. cooldown = DEFAULT_COOLDOWN /\ last # H!Never
          /\ paid + DEFAULT_COOLDOWN * Cardinality(Granted) <= last - first
        BY <1>2, <1>6 DEF ProbeInv, Paid, H!Never
    <2>2. Cardinality(Granted) \in Nat /\ Cardinality(Granted') = Cardinality(Granted) + 1
        BY GrantedFinite, OneJoins DEF ProbeInv
    <2>3. /\ DEFAULT_COOLDOWN * (Cardinality(Granted) + 1)
                = DEFAULT_COOLDOWN * Cardinality(Granted) + DEFAULT_COOLDOWN
          /\ DEFAULT_COOLDOWN * Cardinality(Granted) \in Nat
        BY <2>2, OneCooldownMore DEF H!ReprobeConstants
    <2>4. read[t] - last >= DEFAULT_COOLDOWN
        BY <1>2, <2>1 DEF H!Remaining, H!ReprobeConstants
    <2> QED
        BY <1>2, <2>1, <2>2, <2>3, <2>4 DEF H!ReprobeConstants
<1>7. Paid'
    BY <1>6 DEF ProbeInv, Paid
<1> QED
    BY <1>3, <1>4, <1>5, <1>7 DEF ProbeInv

\* A probe begins: it is paid for, and no longer waits.
LEMMA BeginInv ==
    ASSUME H!ReprobeConstants, ProbeInv, NEW t \in Threads, H!Begin(t)
    PROVE  ProbeInv'
<1>1. /\ at_thread[t] = "granted" /\ at_thread' = [at_thread EXCEPT ![t] = "detect"]
      /\ UNCHANGED <<now, cooldown, last, cache, read, switches>>
    BY DEF H!Begin, H!Go, H!gate
<1>2. \A s \in Threads : at_thread'[s] = IF s = t THEN "detect" ELSE at_thread[s]
    BY <1>1 DEF ProbeInv, ProbeType
<1>3. cache = "done" /\ first # H!Never /\ first' = first
    BY <1>1 DEF H!Begin, H!Detect, ProbeInv, FirstProbe
<1>4. paid' = IF switches > 0 THEN paid ELSE paid + DEFAULT_COOLDOWN
    BY <1>3 DEF H!Begin, H!Detect
<1>5. ProbeType'
    BY <1>1, <1>3, <1>4 DEF ProbeInv, ProbeType, ThreadPlaces, H!ReprobeConstants
<1>6. FirstProbe'
    BY <1>1, <1>2, <1>3 DEF ProbeInv, FirstProbe, H!Initialising
<1>7. Clocks'
    BY <1>1, <1>2, <1>3 DEF ProbeInv, Clocks
<1>8. ASSUME switches = 0
      PROVE  paid' + DEFAULT_COOLDOWN * Cardinality(Granted') <= last - first
    <2>1. paid' = paid + DEFAULT_COOLDOWN
        BY <1>4, <1>8
    <2>2. last # H!Never /\ paid + DEFAULT_COOLDOWN * Cardinality(Granted) <= last - first
        BY <1>3, <1>8 DEF ProbeInv, FirstProbe, Paid
    <2>3. Cardinality(Granted) = Cardinality(Granted') + 1
        BY <1>1, OneLeaves DEF ProbeInv
    <2>4. Cardinality(Granted') \in Nat
        <3>1. IsFiniteSet(Granted')
            BY ThreadsFinite, FS_Subset DEF Granted
        <3> QED
            BY <3>1, FS_CardinalityType
    <2>5. /\ DEFAULT_COOLDOWN * (Cardinality(Granted') + 1)
                = DEFAULT_COOLDOWN * Cardinality(Granted') + DEFAULT_COOLDOWN
          /\ DEFAULT_COOLDOWN * Cardinality(Granted') \in Nat
        BY <2>4, OneCooldownMore DEF H!ReprobeConstants
    <2>6. paid \in Nat /\ last \in Int /\ first \in Int
        BY DEF ProbeInv, ProbeType, H!Never
    <2> QED
        BY <2>1, <2>2, <2>3, <2>5, <2>6 DEF H!ReprobeConstants
<1>9. Paid'
    BY <1>1, <1>3, <1>8 DEF ProbeInv, Paid
<1> QED
    BY <1>5, <1>6, <1>7, <1>9 DEF ProbeInv

-----------------------------------------------------------------------------
LEMMA ProbeNextInv ==
    ASSUME H!ReprobeConstants, ProbeInv, [H!Next]_(H!vars)
    PROVE  ProbeInv'
<1>1. ASSUME NEW t \in Threads, H!Latest(t) PROVE ProbeInv'
    BY <1>1, QuietMove DEF H!Latest, H!Go, H!gate, H!history, ThreadPlaces
<1>2. ASSUME NEW t \in Threads, H!Reprobe(t) PROVE ProbeInv'
    BY <1>2, QuietMove DEF H!Reprobe, H!Go, H!gate, H!history, ThreadPlaces
<1>3. ASSUME NEW t \in Threads, H!CacheHit(t) PROVE ProbeInv'
    <2>1. PICK to \in {"idle", "clock"} :
            at_thread' = [at_thread EXCEPT ![t] = to] /\ at_thread[t] \in {"cached_latest", "cached_reprobe"}
        BY <1>3 DEF H!CacheHit, H!Go
    <2> QED
        BY <1>3, <2>1, QuietMove DEF H!CacheHit, H!gate, H!history, ThreadPlaces
<1>4. ASSUME NEW t \in Threads, H!CacheMiss(t) PROVE ProbeInv'
    BY <1>4, CacheMissInv
<1>5. ASSUME NEW t \in Threads, H!FirstClock(t) PROVE ProbeInv'
    BY <1>5, FirstClockInv
<1>6. ASSUME NEW t \in Threads, H!FirstRecorded(t) PROVE ProbeInv'
    BY <1>6, FirstRecordedInv
<1>7. ASSUME NEW t \in Threads, H!Clock(t) PROVE ProbeInv'
    BY <1>7, ClockInv
<1>8. ASSUME NEW t \in Threads, H!TryBegin(t) PROVE ProbeInv'
    <2>1. /\ at_thread[t] = "gate" /\ read' = [read EXCEPT ![t] = H!Never]
          /\ UNCHANGED <<now, cooldown, cache, switches, first, paid>>
        BY <1>8 DEF H!TryBegin, H!Go, H!history
    <2>2. CASE H!Remaining(t) = 0 /\ last' = read[t] /\ at_thread' = [at_thread EXCEPT ![t] = "granted"]
        BY <2>1, <2>2, GrantInv
    <2>3. CASE last' = last /\ at_thread' = [at_thread EXCEPT ![t] = "idle"]
        BY <2>1, <2>3, QuietMove DEF ThreadPlaces
    <2> QED
        BY <1>8, <2>2, <2>3 DEF H!TryBegin, H!Go
<1>9. ASSUME NEW t \in Threads, H!Begin(t) PROVE ProbeInv'
    BY <1>9, BeginInv
<1>10. ASSUME NEW t \in Threads, H!Store(t) PROVE ProbeInv'
    BY <1>10, QuietMove DEF H!Store, H!Go, H!gate, H!history, ThreadPlaces
<1>11. CASE H!Switch
    <2>1. UNCHANGED <<now, last, cache, at_thread, read, first, paid>> /\ switches' = switches + 1
        BY <1>11 DEF H!Switch, H!history
    <2>2. ProbeType'
        BY <1>11, <2>1 DEF H!Switch, ProbeInv, ProbeType, H!ReprobeConstants
    <2>3. FirstProbe' /\ Clocks'
        BY <2>1 DEF ProbeInv, FirstProbe, Clocks, H!Initialising
    <2>4. Paid'
        BY <2>1 DEF ProbeInv, Paid, ProbeType
    <2> QED
        BY <2>2, <2>3, <2>4 DEF ProbeInv
<1>12. CASE H!Tick
    <2>1. now' = now + 1 /\ now \in Nat
          /\ UNCHANGED <<cooldown, last, cache, at_thread, read, switches, first, paid>>
        BY <1>12 DEF H!Tick, H!gate, H!history, ProbeInv, ProbeType
    <2>2. ProbeType' /\ FirstProbe'
        BY <2>1 DEF ProbeInv, ProbeType, FirstProbe, H!Initialising
    <2>3. Clocks'
        BY <2>1 DEF ProbeInv, Clocks, ProbeType, H!Never
    <2>4. Paid'
        BY <2>1 DEF ProbeInv, Paid, Granted
    <2> QED
        BY <2>2, <2>3, <2>4 DEF ProbeInv
<1>13. CASE UNCHANGED H!vars
    BY <1>13 DEF H!vars, ProbeInv, ProbeType, FirstProbe, Clocks, Paid, Granted, H!Initialising
<1> QED
    BY <1>1, <1>2, <1>3, <1>4, <1>5, <1>6, <1>7, <1>8, <1>9, <1>10, <1>11, <1>12, <1>13
    DEF H!Next, H!Step

\* What is paid for lies between the first probe and now.
LEMMA ProbeInvPaced == H!ReprobeConstants /\ ProbeInv => H!ProbesPaced
<1> SUFFICES ASSUME H!ReprobeConstants, ProbeInv, switches = 0, first # H!Never
             PROVE  paid <= now - first
    BY DEF H!ProbesPaced
<1>1. paid \in Nat /\ now \in Nat /\ first \in Nat /\ first <= now
    BY DEF ProbeInv, ProbeType, Clocks
<1>2. CASE cache # "done"
    BY <1>1, <1>2 DEF ProbeInv, FirstProbe
<1>3. CASE cache = "done"
    <2>1. last \in Nat /\ last <= now
          /\ paid + DEFAULT_COOLDOWN * Cardinality(Granted) <= last - first
        BY <1>3 DEF ProbeInv, FirstProbe, Clocks, Paid, ProbeType
    <2>2. DEFAULT_COOLDOWN * Cardinality(Granted) \in Nat
        BY GrantedFinite, OneCooldownMore DEF H!ReprobeConstants
    <2> QED
        BY <1>1, <2>1, <2>2
<1> QED
    BY <1>2, <1>3

LEMMA ProbeKept == MCSpec => []ProbeInv
<1>1. MCInit => ProbeInv
    BY ProbeInitInv, KernelConstants DEF MCInit
<1>2. ASSUME ProbeInv, [MCNext]_all PROVE ProbeInv'
    <2>1. [H!Next]_(H!vars)
        BY <1>2 DEF MCNext, ProbeStep, FramesStep, WordStep, PowerStep, DriverStep, PluginStep,
           all, probeVars, H!vars
    <2> QED
        BY <1>2, <2>1, ProbeNextInv, KernelConstants
<1> QED
    BY <1>1, <1>2, PTL DEF MCSpec

\* The probes begun since the first are at most one for each cooldown that has
\* passed, for any number of threads racing through hypervisor::reprobe and
\* any cooldown, as long as it is not switched off.
THEOREM ProbesAlwaysPaced == MCSpec => []ProbesPaced
<1>1. ProbeInv => ProbesPaced
    BY ProbeInvPaced, KernelConstants DEF ProbesPaced
<1> QED
    BY <1>1, ProbeKept, PTL

-----------------------------------------------------------------------------
(***************************************************************************)
(* The plugins, for any capabilities and arenas.                           *)
(*                                                                         *)
(* Flags of the tier that does not run, and the arena of ring 3, may be an *)
(* earlier plugin's; the invariant says which of them each stage of        *)
(* ncplu::run has set for this one.                                        *)
(***************************************************************************)
\* Where a plugin is: before its first instruction, or from there to the end.
Before == stage \in {"idle", "card"}
Started == stage \in {"run", "service", "ended"}

\* What each stage of ncplu::run has set up, for the plugin's own tier.
PluginSetup ==
    /\ stage \in {"idle", "card", "run", "service", "ended", "stopped"}
    /\ prog \in [tier : {"kernel", "ring3"}, caps : SUBSET Caps, size : Nat \ {0}]
    /\ Before =>
        /\ GRANTED_CAPS = {} /\ PLUGIN_CTX = FALSE /\ CURRENT = FALSE /\ RUNNING_ARENA = 0
    /\ Started =>
        /\ GRANTED_CAPS = prog.caps
        /\ CURRENT = (prog.tier = "ring3")
        /\ RUNNING_ARENA = IF prog.tier = "kernel" THEN prog.size ELSE 0
    /\ (stage = "card" \/ Started) /\ prog.tier = "ring3" => R3_ARENA_LEN = prog.size

\* The call in progress, and the lock of the generator, which only a fault
\* inside a service leaves taken.
PluginCall ==
    /\ BUSY \in BOOLEAN
    /\ stage \in {"idle", "card", "run"} => BUSY = FALSE
    /\ stage = "ended" => BUSY = FALSE \/ (prog.tier = "kernel" /\ LAST_FAULT = "service")
    /\ stage = "service" =>
        /\ served \in L!Calls
        /\ served[1] \in prog.caps
        /\ (prog.tier = "ring3" /\ served[2] # "none") => served[2] \in L!Own

\* The flags that run reads are those of this plugin, whatever an earlier one
\* has left in those of the other tier.
PluginReason ==
    /\ stage = "idle" => told = {ended} \cap {"violation", "denied", "smashed", "fault"}
    /\ stage = "card" => told = {} /\ ended = "none"
    /\ stage # "ended" \/ prog.tier = "ring3" => STACK_SMASHED = FALSE
    /\ stage \in {"run", "service"} =>
        IF prog.tier = "ring3" THEN flags = {} ELSE LAST_FAULT = "none"
    /\ stage = "ended" /\ prog.tier = "ring3" =>
        flags = {ended} \cap {"violation", "denied", "smashed", "fault"}
    /\ stage = "ended" /\ prog.tier = "kernel" =>
        /\ ended \in {"exit", "smashed", "fault"}
        /\ STACK_SMASHED = (ended = "smashed")
        /\ (LAST_FAULT # "none") = (ended = "fault")

PluginInv == PluginSetup /\ PluginCall /\ PluginReason

LEMMA PluginInitial == ASSUME L!Init PROVE PluginInv
<1>1. PluginSetup
    BY DEF L!Init, PluginSetup, Before, Started
<1>2. PluginCall
    BY DEF L!Init, PluginCall
<1>3. PluginReason
    BY DEF L!Init, PluginReason
<1> QED
    BY <1>1, <1>2, <1>3 DEF PluginInv

\* Before the first instruction: nothing is granted until the card is answered.
LEMMA PluginStarts ==
    ASSUME PluginInv, (\E h \in L!Headers : L!Load(h)) \/ L!Cancel \/ L!Confirm
    PROVE  PluginInv'
<1>1. ASSUME NEW h \in L!Headers, L!Load(h) PROVE PluginInv'
    <2>1. PluginSetup'
        BY <1>1 DEF PluginInv, PluginSetup, Before, Started, L!Load, L!prepare, L!Headers
    <2>2. PluginCall'
        BY <1>1 DEF PluginInv, PluginCall, L!Load
    <2>3. PluginReason'
        BY <1>1 DEF PluginInv, PluginReason, L!Load
    <2> QED
        BY <2>1, <2>2, <2>3 DEF PluginInv
<1>2. CASE L!Cancel
    <2>1. PluginSetup'
        BY <1>2 DEF PluginInv, PluginSetup, Before, Started, L!Cancel, L!globals
    <2>2. PluginCall'
        BY <1>2 DEF PluginInv, PluginCall, L!Cancel
    <2>3. PluginReason'
        BY <1>2 DEF PluginInv, PluginReason, L!Cancel
    <2> QED
        BY <2>1, <2>2, <2>3 DEF PluginInv
<1>3. CASE L!Confirm
    <2>1. PluginSetup'
        BY <1>3 DEF PluginInv, PluginSetup, Before, Started, L!Confirm, L!EnterRing3,
           L!EnterKernel
    <2>2. PluginCall'
        BY <1>3 DEF PluginInv, PluginCall, L!Confirm
    <2>3. PluginReason'
        BY <1>3 DEF PluginInv, PluginReason, L!Confirm, L!EnterRing3, L!EnterKernel
    <2> QED
        BY <2>1, <2>2, <2>3 DEF PluginInv
<1> QED
    BY <1>1, <1>2, <1>3

\* What a plugin of ring 3 is found to own lies within its own memory: its
\* arena, its stack and its heap.
LEMMA OwnedIsOwn ==
    ASSUME PluginSetup, Started, prog.tier = "ring3", NEW b \in L!Buffers, L!plugin_owns(b)
    PROVE  b \in L!Own
<1>1. R3_ARENA_LEN = prog.size /\ prog.size \in Nat \ {0}
    BY DEF PluginSetup
<1>2. L!user_owns(b)
    BY <1>1 DEF L!plugin_owns, L!active
<1> QED
    BY <1>1, <1>2 DEF L!user_owns, L!Own

LEMMA PluginServes ==
    ASSUME PluginInv,
           \/ \E c \in L!Calls : L!Serve(c)
           \/ L!Answer
           \/ \E n \in 1 .. HEAP_PAGES : L!Mmap(n)
           \/ \E f \in 0 .. HEAP_PAGES - 1, n \in 1 .. HEAP_PAGES : L!Munmap(f, n)
    PROVE  PluginInv'
<1>1. ASSUME NEW c \in L!Calls, L!Serve(c) PROVE PluginInv'
    <2>1. PluginSetup'
        BY <1>1 DEF PluginInv, PluginSetup, Before, Started, L!Serve, L!globals
    <2>2. PluginCall'
        <3>1. (prog.tier = "ring3" /\ c[2] # "none") => c[2] \in L!Own
            <4> HAVE prog.tier = "ring3" /\ c[2] # "none"
            <4>1. c[2] \in L!Buffers
                BY DEF L!Calls
            <4>2. L!plugin_owns(c[2])
                BY <1>1 DEF L!Serve
            <4> QED
                BY <1>1, <4>1, <4>2, OwnedIsOwn DEF PluginInv, Started, L!Serve
        <3>2. c[1] \in prog.caps
            BY <1>1 DEF PluginInv, PluginSetup, Started, L!Serve
        <3> QED
            BY <1>1, <3>1, <3>2 DEF PluginCall, L!Serve, L!Own, L!Buffers, L!InArena
    <2>3. PluginReason'
        BY <1>1 DEF PluginInv, PluginReason, L!Serve
    <2> QED
        BY <2>1, <2>2, <2>3 DEF PluginInv
<1>2. CASE L!Answer
    <2>1. PluginSetup'
        BY <1>2 DEF PluginInv, PluginSetup, Before, Started, L!Answer, L!globals
    <2>2. PluginCall'
        BY <1>2 DEF PluginInv, PluginCall, L!Answer
    <2>3. PluginReason'
        BY <1>2 DEF PluginInv, PluginReason, L!Answer
    <2> QED
        BY <2>1, <2>2, <2>3 DEF PluginInv
<1>3. ASSUME NEW n \in 1 .. HEAP_PAGES, L!Mmap(n) PROVE PluginInv'
    BY <1>3 DEF PluginInv, PluginSetup, PluginCall, PluginReason, Before, Started, L!Mmap,
       L!globals, L!Own, L!Buffers, L!InArena
<1>4. ASSUME NEW f \in 0 .. HEAP_PAGES - 1, NEW n \in 1 .. HEAP_PAGES, L!Munmap(f, n)
      PROVE  PluginInv'
    BY <1>4 DEF PluginInv, PluginSetup, PluginCall, PluginReason, Before, Started, L!Munmap,
       L!globals, L!Own, L!Buffers, L!InArena
<1> QED
    BY <1>1, <1>2, <1>3, <1>4

\* However a plugin ends, what run will read of it says how.
LEMMA PluginEnds ==
    ASSUME PluginInv,
           \/ \E why \in {"exit", "unknown", "smashed", "denied", "violation"} : L!EndedRing3(why)
           \/ L!ContainRing3 \/ L!ReturnKernel \/ L!nc_stack_chk_fail \/ L!ContainKernel \/ L!Crash
    PROVE  PluginInv'
<1>1. ASSUME NEW why \in {"exit", "unknown", "smashed", "denied", "violation"}, L!EndedRing3(why)
      PROVE  PluginInv'
    <2>1. prog.tier = "ring3"
        BY <1>1 DEF PluginInv, PluginSetup, Started, L!EndedRing3
    <2>2. PluginSetup' /\ PluginCall'
        BY <1>1 DEF PluginInv, PluginSetup, PluginCall, Before, Started, L!EndedRing3, L!globals
    <2>3. PluginReason'
        BY <1>1, <2>1 DEF PluginInv, PluginReason, L!EndedRing3
    <2> QED
        BY <2>2, <2>3 DEF PluginInv
<1>2. CASE L!ContainRing3
    BY <1>2 DEF PluginInv, PluginSetup, PluginCall, PluginReason, Before, Started,
       L!ContainRing3, L!globals
<1>3. CASE L!ReturnKernel
    BY <1>3 DEF PluginInv, PluginSetup, PluginCall, PluginReason, Before, Started,
       L!ReturnKernel, L!globals
<1>4. CASE L!nc_stack_chk_fail
    BY <1>4 DEF PluginInv, PluginSetup, PluginCall, PluginReason, Before, Started,
       L!nc_stack_chk_fail, L!globals
<1>5. CASE L!ContainKernel
    BY <1>5 DEF PluginInv, PluginSetup, PluginCall, PluginReason, Before, Started,
       L!ContainKernel, L!globals
<1>6. CASE L!Crash
    BY <1>6 DEF PluginInv, PluginSetup, PluginCall, PluginReason, Before, Started,
       L!Crash, L!globals
<1> QED
    BY <1>1, <1>2, <1>3, <1>4, <1>5, <1>6

LEMMA PluginFinishes == ASSUME PluginInv, L!Finish PROVE PluginInv'
<1>1. CASE L!FinishRing3
    <2>1. PluginSetup'
        BY <1>1 DEF PluginInv, PluginSetup, Before, Started, L!Finish, L!FinishRing3
    <2>2. PluginCall'
        BY <1>1 DEF PluginInv, PluginCall, L!Finish, L!FinishRing3
    <2>3. PluginReason'
        <3>1. flags = {ended} \cap {"violation", "denied", "smashed", "fault"}
            BY <1>1 DEF PluginInv, PluginReason, L!FinishRing3
        <3>2. told' = {ended} \cap {"violation", "denied", "smashed", "fault"}
            BY <1>1, <3>1 DEF L!FinishRing3
        <3>3. stage' = "idle" /\ ended' = ended /\ STACK_SMASHED' = STACK_SMASHED
            BY <1>1 DEF L!Finish, L!FinishRing3
        <3>4. STACK_SMASHED = FALSE
            BY <1>1 DEF PluginInv, PluginReason, L!FinishRing3
        <3> QED
            BY <3>2, <3>3, <3>4 DEF PluginReason
    <2> QED
        BY <2>1, <2>2, <2>3 DEF PluginInv
<1>2. CASE L!FinishKernel
    <2>1. PluginSetup'
        BY <1>2 DEF PluginInv, PluginSetup, Before, Started, L!Finish, L!FinishKernel
    <2>2. PluginCall'
        BY <1>2 DEF PluginInv, PluginCall, L!Finish, L!FinishKernel
    <2>3. PluginReason'
        BY <1>2 DEF PluginInv, PluginReason, L!Finish, L!FinishKernel
    <2> QED
        BY <2>1, <2>2, <2>3 DEF PluginInv
<1> QED
    BY <1>1, <1>2 DEF L!Finish

LEMMA PluginsKept == MCSpec => []PluginInv
<1>1. MCInit => PluginInv
    BY PluginInitial DEF MCInit
<1>2. ASSUME PluginInv, [MCNext]_all PROVE PluginInv'
    <2>1. CASE PluginStep
        BY <1>2, <2>1, PluginStarts, PluginServes, PluginEnds, PluginFinishes
        DEF PluginStep, L!Next
    <2>2. CASE UNCHANGED pluginVars
        BY <1>2, <2>2 DEF pluginVars, PluginInv, PluginSetup, PluginCall, PluginReason, Before,
           Started, L!Own, L!Buffers, L!InArena
    <2> QED
        BY <1>2, <2>1, <2>2 DEF MCNext, FramesStep, WordStep, PowerStep, ProbeStep, DriverStep, all
<1> QED
    BY <1>1, <1>2, PTL DEF MCSpec

\* A plugin is served within the capabilities in its header and, at ring 3,
\* within its own memory; and however it ends, nothing of it is left for the
\* next one (ncplu.rs run, ring3.rs run, rng.rs recover_after_abort).
THEOREM PluginsWithinGrants == MCSpec => []WithinGrants
<1>1. PluginInv => WithinGrants
    BY DEF PluginInv, PluginSetup, PluginCall, Before, WithinGrants, L!WithinGrants
<1> QED
    BY <1>1, PluginsKept, PTL

\* run says of a plugin what ended it, never what ended an earlier one
\* (ring3.rs ended, contain and run; ncplu.rs contain_fault and run).
THEOREM PluginReasonsTrue == MCSpec => []ReasonTrue
<1>1. PluginInv => ReasonTrue
    BY DEF PluginInv, PluginReason, ReasonTrue, L!ReasonTrue
<1> QED
    BY <1>1, PluginsKept, PTL

-----------------------------------------------------------------------------
(* The driver framework.                                                   *)

LEMMA DriverInit == K!Init => KP!Init
    BY DEF K!Init, KP!Init, K!Empty, KP!Empty, K!NoOffer, KP!NoOffer, K!NoRun,
       KP!NoRun

LEMMA DriverNext == K!Next => KP!Next
<1>1. (K!Refuse => KP!Refuse) /\ (K!MainOk => KP!MainOk) /\ (K!Loaded => KP!Loaded)
    BY DEF K!Refuse, KP!Refuse, K!MainOk, KP!MainOk, K!Loaded, KP!Loaded, K!pools,
       KP!pools
<1>2. \A run \in Runs : K!Enter(run) => KP!Enter(run)
    BY DEF K!Enter, KP!Enter, K!Free, KP!Free, K!Slot, KP!Slot, K!Set, KP!Set
<1>3. K!MainFails => KP!MainFails
    BY DEF K!MainFails, KP!MainFails, K!Without, KP!Without
<1>4. \A desc \in Descs : K!DriverRegister(desc) => KP!DriverRegister(desc)
    BY DEF K!DriverRegister, KP!DriverRegister, K!Free, KP!Free, K!Slot, KP!Slot,
       K!Set, KP!Set, K!Module, KP!Module
<1>5. \A desc \in Descs : K!DriverUnregister(desc) => KP!DriverUnregister(desc)
    BY DEF K!DriverUnregister, KP!DriverUnregister, K!Without, KP!Without, K!Module,
       KP!Module, K!InUse, KP!InUse
<1>6. K!ResourceMap => KP!ResourceMap
    BY DEF K!ResourceMap, KP!ResourceMap, K!Free, KP!Free, K!Slot, KP!Slot, K!Set,
       KP!Set
<1>7. \A r \in DOMAIN RESOURCES : K!ResourceUnmap(r) => KP!ResourceUnmap(r)
    BY DEF K!ResourceUnmap, KP!ResourceUnmap, K!Of, KP!Of, K!Without, KP!Without
<1>8. \A d \in DOMAIN DMAS : K!DmaFree(d) => KP!DmaFree(d)
    BY DEF K!DmaFree, KP!DmaFree, K!Of, KP!Of, K!Without, KP!Without
<1>9. \A run \in Runs : K!DmaAlloc(run) => KP!DmaAlloc(run)
    BY DEF K!DmaAlloc, KP!DmaAlloc, K!Free, KP!Free, K!Slot, KP!Slot, K!Set, KP!Set
<1>10. \A run \in Runs : (K!MemAlloc(run) => KP!MemAlloc(run)) /\ (K!MemFree(run) => KP!MemFree(run))
    BY DEF K!MemAlloc, KP!MemAlloc, K!MemFree, KP!MemFree, K!pools, KP!pools,
       K!Cardinality, KP!Cardinality
<1>11. K!Offer => KP!Offer
    BY DEF K!Offer, KP!Offer, K!Free, KP!Free, K!Slot, KP!Slot, K!Set, KP!Set,
       K!NoRun, KP!NoRun, K!NoOffer, KP!NoOffer
<1>12. K!Probe => KP!Probe
    BY DEF K!Probe, KP!Probe, K!Offers, KP!Offers, K!NoOffer, KP!NoOffer, K!pools,
       KP!pools
<1>13. K!Choose => KP!Choose
    BY DEF K!Choose, KP!Choose, K!GiveUp, KP!GiveUp, K!Bound, KP!Bound, K!NoOffer,
       KP!NoOffer, K!NoRun, KP!NoRun, K!Without, KP!Without
<1>14. K!AttachOk => KP!AttachOk
    BY DEF K!AttachOk, KP!AttachOk
<1>15. K!AttachFails => KP!AttachFails
    BY DEF K!AttachFails, KP!AttachFails, K!Of, KP!Of, K!Without, KP!Without
<1> QED
    BY <1>1, <1>2, <1>3, <1>4, <1>5, <1>6, <1>7, <1>8, <1>9, <1>10, <1>11, <1>12,
       <1>13, <1>14, <1>15 DEF K!Next, KP!Next, K!Service, KP!Service

LEMMA DriversRefine == MCSpec => KP!Spec
<1>1. MCInit => KP!Init
    BY DriverInit DEF MCInit
<1>2. ASSUME [MCNext]_all PROVE [KP!Next]_(KP!vars)
    <2>1. CASE DriverStep
        BY <2>1, DriverNext DEF DriverStep
    <2>2. CASE UNCHANGED driverVars
        BY <2>2 DEF driverVars, KP!vars
    <2> QED
        BY <1>2, <2>1, <2>2 DEF MCNext, FramesStep, WordStep, PowerStep, ProbeStep, PluginStep, all
<1> QED
    BY <1>1, <1>2, PTL DEF MCSpec, KP!Spec

\* What a driver holds is a live device's, driver's or module's (ncdri.rs
\* offer, release, load).
THEOREM KernelHoldersLive == MCSpec => []HoldersLive
<1>1. KP!NcdriConstants
    BY KernelConstants DEF K!NcdriConstants, KP!NcdriConstants
<1>2. KP!Spec => []KP!HoldersLive
    BY <1>1, KP!HoldersAlwaysLive
<1>3. KP!HoldersLive => HoldersLive
    BY DEF KP!HoldersLive, HoldersLive, K!HoldersLive
<1> QED
    BY <1>2, <1>3, DriversRefine, PTL

\* Every run handed out has one owner (ncdri.rs release, k_dma_alloc,
\* k_dma_free, load).
THEOREM KernelRunsOwned == MCSpec => []RunsOwned
<1>1. KP!NcdriConstants
    BY KernelConstants DEF K!NcdriConstants, KP!NcdriConstants
<1>2. KP!Spec => []KP!RunsOwned
    BY <1>1, KP!EveryRunOwned
<1>3. KP!Holdings = K!Holdings
    BY DEF KP!Holdings, K!Holdings, KP!Arenas, K!Arenas, KP!Buffers, K!Buffers,
       KP!Private, K!Private, KP!Loose, K!Loose, KP!NoRun, K!NoRun
<1>4. KP!RunsOwned => RunsOwned
    BY <1>3 DEF KP!RunsOwned, RunsOwned, K!RunsOwned
<1> QED
    BY <1>2, <1>4, DriversRefine, PTL

-----------------------------------------------------------------------------
(***************************************************************************)
(* The page allocator, for any table size, page size and memory map: the   *)
(* ranges never touch, memory handed out or reserved is never free, and no *)
(* memory is missing that was not counted as dropped.                      *)
(***************************************************************************)
Interval == [base : Nat, end : Nat]

\* Where the last page of the address space begins.  A reservation in it is
\* empty, since its end would not be representable.
LastPage == AlignDown(Top, PAGE)

Inv ==
    /\ ranges \cup taken \cup reserved \subseteq Interval
    /\ \A r \in ranges \cup taken : r.base < r.end
    /\ \A r \in reserved : r.base < r.end \/ LastPage <= r.base
    /\ misuses = 0 => \A r \in ranges \cup taken : r.end <= LastPage
    /\ NeverTouching
    /\ NeverShared
    /\ misuses \in Nat
    /\ phase = "map" => reserved = {}
    /\ phase # "ready" => taken = {} /\ misuses = 0

\* Alignment moves an address down or up by less than the alignment.
LEMMA AlignBounds ==
    ASSUME NEW x \in Nat, NEW a \in Nat \ {0}
    PROVE  /\ AlignDown(x, a) \in Nat /\ AlignDown(x, a) <= x
           /\ AlignUp(x, a) \in Nat /\ AlignUp(x, a) >= x
<1>1. \A y \in Nat : y % a \in Nat /\ y % a < a /\ y % a <= y
    OBVIOUS
<1> QED BY <1>1 DEF AlignDown, AlignUp

\* A multiple that is no larger than a number is no larger than its multiple.
LEMMA Scaled == ASSUME NEW a \in Nat, NEW p \in Nat, NEW q \in Nat, p <= q PROVE a * p <= a * q
OBVIOUS

LEMMA AlignMonotone ==
    ASSUME NEW x \in Nat, NEW y \in Nat, x <= y, NEW a \in Nat \ {0}
    PROVE  AlignDown(x, a) <= AlignDown(y, a)
<1> DEFINE p == x \div a
           q == y \div a
<1>1. p \in Nat /\ q \in Nat
    OBVIOUS
<1>2. x - (x % a) = a * p /\ y - (y % a) = a * q
    OBVIOUS
<1>3. x % a \in Nat /\ y % a \in Nat /\ y % a < a
    OBVIOUS
<1> HIDE DEF p, q
<1>4. p <= q
    <2> SUFFICES ASSUME q + 1 <= p PROVE FALSE
        BY <1>1
    <2>1. a * (q + 1) <= a * p
        BY <1>1, Scaled
    <2>2. a * (q + 1) = a * q + a /\ a * q \in Nat /\ a * p \in Nat
        BY <1>1
    <2> QED BY <1>2, <1>3, <2>1, <2>2
<1>5. a * p <= a * q
    BY <1>1, <1>4, Scaled
<1> QED BY <1>2, <1>5 DEF AlignDown

\* The smaller and the larger of two addresses.
LEMMA MinMax ==
    ASSUME NEW x \in Int, NEW y \in Int
    PROVE  /\ Min({x, y}) = IF x <= y THEN x ELSE y
           /\ Max({x, y}) = IF x >= y THEN x ELSE y
<1>1. \E z \in {x, y} : \A w \in {x, y} : z <= w
    OBVIOUS
<1>2. \E z \in {x, y} : \A w \in {x, y} : z >= w
    OBVIOUS
<1> QED BY <1>1, <1>2 DEF Min, Max

\* A merged range covers what was inserted, made of it and of at most two
\* neighbours, and touches nothing that stays in the table.
LEMMA MergedApart ==
    ASSUME NEW run \in Interval, run.base < run.end,
           ranges \subseteq Interval, \A r \in ranges : r.base < r.end, NeverTouching
    PROVE  /\ Merged(run) \in Interval /\ Merged(run).base < Merged(run).end
           /\ \A r \in Apart(run) : ~Touch(r, Merged(run)) /\ ~Touch(Merged(run), r)
           /\ \A t \in Interval :
                /\ t.base < t.end /\ ~Overlap(t, run) /\ \A r \in ranges : ~Overlap(t, r)
                => ~Overlap(t, Merged(run))
           /\ Merged(run).end = run.end \/ \E r \in ranges : Merged(run).end = r.end
<1> DEFINE below == {r \in ranges : Touch(r, run) /\ r.base < run.base}
           above == {r \in ranges : Touch(r, run) /\ r.end > run.end}
           b == CHOOSE r \in below : TRUE
           a == CHOOSE r \in above : TRUE
           m == Merged(run)
<1>1. below # {} => b \in below
    OBVIOUS
<1>2. above # {} => a \in above
    OBVIOUS
<1>3. m = Run(IF below = {} THEN run.base ELSE b.base, IF above = {} THEN run.end ELSE a.end)
    BY DEF Merged
<1> HIDE DEF b, a, m
<1>4. m \in Interval /\ m.base <= run.base /\ run.end <= m.end
    BY <1>1, <1>2, <1>3 DEF Interval, Run
<1>5. ASSUME NEW r \in Apart(run)
      PROVE  ~Touch(r, m) /\ ~Touch(m, r)
    BY <1>1, <1>2, <1>3, <1>5 DEF Apart, Touch, NeverTouching, Interval, Run
<1>6. ASSUME NEW t \in Interval, t.base < t.end, ~Overlap(t, run),
             \A r \in ranges : ~Overlap(t, r)
      PROVE  ~Overlap(t, m)
    BY <1>1, <1>2, <1>3, <1>6 DEF Overlap, Touch, Interval, Run
<1>7. m.end = run.end \/ \E r \in ranges : m.end = r.end
    BY <1>2, <1>3 DEF Run
<1> QED BY <1>4, <1>5, <1>6, <1>7 DEF m, Interval

\* An insertion leaves the table free of touching ranges and of overlap with
\* every interval that overlapped neither the table nor the new run.
LEMMA InsertSound ==
    ASSUME NEW run \in Interval, run.base < run.end,
           ranges \subseteq Interval, \A r \in ranges : r.base < r.end, NeverTouching,
           Insert(run)
    PROVE  /\ ranges' \subseteq Interval /\ \A r \in ranges' : r.base < r.end
           /\ NeverTouching'
           /\ \A t \in Interval :
                /\ t.base < t.end /\ ~Overlap(t, run) /\ \A r \in ranges : ~Overlap(t, r)
                => \A r \in ranges' : ~Overlap(t, r)
           /\ \A r \in ranges' : r.end = run.end \/ \E s \in ranges : r.end = s.end
<1>1. ranges' \subseteq Apart(run) \cup {Merged(run)}
    BY DEF Insert
<1>2. Apart(run) \subseteq ranges
    BY DEF Apart
<1> QED BY <1>1, <1>2, MergedApart DEF NeverTouching

\* A removal leaves parts of the ranges held, none of them overlapping the run.
LEMMA RemoveSound ==
    ASSUME NEW run \in Interval, run.base < run.end,
           ranges \subseteq Interval, \A r \in ranges : r.base < r.end, NeverTouching,
           Remove(run)
    PROVE  /\ ranges' \subseteq Interval
           /\ NeverTouching'
           /\ \A p \in ranges' :
                /\ p.base < p.end /\ ~Overlap(run, p) /\ ~Overlap(p, run)
                /\ \E r \in ranges : r.base <= p.base /\ p.end <= r.end
<1> DEFINE hit == {r \in ranges : Overlap(r, run)}
           left == {Run(r.base, run.base) : r \in {r \in hit : r.base < run.base}}
           right == {Run(run.end, r.end) : r \in {r \in hit : run.end < r.end}}
<1>1. ranges' \subseteq (ranges \ hit) \cup left \cup right
    BY DEF Remove
<1>2. ASSUME NEW p \in (ranges \ hit) \cup left \cup right
      PROVE  /\ p \in Interval
             /\ p.base < p.end /\ ~Overlap(run, p) /\ ~Overlap(p, run)
             /\ \E r \in ranges : /\ r.base <= p.base /\ p.end <= r.end
                                  /\ p \notin ranges => r \in hit /\ (p.end <= run.base \/ run.end <= p.base)
    <2>1. CASE p \in ranges \ hit
        BY <2>1 DEF Overlap, Interval
    <2>2. CASE p \in left
        <3>1. PICK r \in hit : r.base < run.base /\ p = Run(r.base, run.base)
            BY <2>2
        <3> QED BY <3>1 DEF Overlap, Interval, Run
    <2>3. CASE p \in right
        <3>1. PICK r \in hit : run.end < r.end /\ p = Run(run.end, r.end)
            BY <2>3
        <3> QED BY <3>1 DEF Overlap, Interval, Run
    <2> QED BY <1>2, <2>1, <2>2, <2>3
<1>3. ASSUME NEW p \in (ranges \ hit) \cup left \cup right,
             NEW q \in (ranges \ hit) \cup left \cup right, p # q
      PROVE  ~Touch(p, q)
    <2>1. PICK r \in ranges : r.base <= p.base /\ p.end <= r.end
                              /\ (p \in ranges => p = r)
                              /\ (p \notin ranges => p = Run(r.base, run.base) \/ p = Run(run.end, r.end))
        BY DEF Interval, Run, Overlap
    <2>2. PICK s \in ranges : s.base <= q.base /\ q.end <= s.end
                              /\ (q \in ranges => q = s)
                              /\ (q \notin ranges => q = Run(s.base, run.base) \/ q = Run(run.end, s.end))
        BY DEF Interval, Run, Overlap
    <2>3. CASE r # s
        BY <1>2, <2>1, <2>2, <2>3 DEF NeverTouching, Touch, Interval
    <2>4. CASE r = s
        BY <1>2, <2>1, <2>2, <2>4, <1>3 DEF NeverTouching, Touch, Interval, Run
    <2> QED BY <2>3, <2>4
<1> QED BY <1>1, <1>2, <1>3 DEF NeverTouching

-----------------------------------------------------------------------------
(* What each call does to the table: one insertion or one removal of a run *)
(* that is an interval.                                                    *)

LEMMA AddRun ==
    ASSUME NEW base \in Bases, NEW len \in Lens, Add(base, len)
    PROVE  /\ phase = "map" /\ UNCHANGED <<phase, in_use, reserved, taken, misuses>>
           /\ \E run \in Interval :
                /\ run.base < run.end /\ run.end <= LastPage
                /\ Insert(run) /\ ram' = ram \cup {run}
<1> USE FramesAssumption
<1> DEFINE lo == AlignUp(base, PAGE)
           hi == AlignDown(Sat(base + (Min({Sat(base + len), CEILING}) - base)), PAGE)
<1>1. lo \in Nat
    BY AlignBounds
<1>2. /\ lo < hi /\ Insert(Run(lo, hi)) /\ ram' = ram \cup {Run(lo, hi)} /\ phase = "map"
      /\ UNCHANGED <<phase, in_use, reserved, taken, misuses>>
    BY DEF Add
<1>3. hi \in Nat /\ hi <= LastPage
    <2>1. Sat(base + len) \in Nat
        BY DEF Sat
    <2>2. Min({Sat(base + len), CEILING}) \in Nat /\ base < Min({Sat(base + len), CEILING})
        BY <2>1, MinMax DEF Add
    <2> DEFINE top == Sat(base + (Min({Sat(base + len), CEILING}) - base))
    <2>3. top \in Nat /\ top <= Top
        BY <2>2 DEF Sat
    <2> HIDE DEF top
    <2>4. AlignDown(top, PAGE) \in Nat /\ AlignDown(top, PAGE) <= AlignDown(Top, PAGE)
        BY <2>3, AlignBounds, AlignMonotone
    <2> QED BY <2>4 DEF top, LastPage
<1>4. /\ Run(lo, hi) \in Interval /\ Run(lo, hi).base < Run(lo, hi).end
      /\ Run(lo, hi).end <= LastPage
    BY <1>1, <1>2, <1>3 DEF Run, Interval
<1> HIDE DEF lo, hi
<1> QED BY <1>2, <1>4

\* The widened end is past the start, or both are the last page's start: then
\* nothing in the table reaches the reservation.
LEMMA ReserveRun ==
    ASSUME Inv, NEW base \in Bases, NEW len \in Lens, Reserve(base, len)
    PROVE  /\ phase \in {"map", "closed"} /\ phase' = "closed"
           /\ UNCHANGED <<in_use, ram, taken, misuses>>
           /\ \/ UNCHANGED <<ranges, dropped, reserved>>
              \/ UNCHANGED <<ranges, dropped>> /\ reserved' = reserved \cup {Run(LastPage, LastPage)}
              \/ \E run \in Interval :
                    run.base < run.end /\ Remove(run) /\ reserved' = reserved \cup {run}
<1> DEFINE lo == AlignDown(base, PAGE)
           to == Sat(base + len)
           hi == IF to + PAGE - 1 <= Top THEN AlignUp(to, PAGE) ELSE LastPage
<1>1. base \in Nat /\ len \in Nat /\ base <= Top /\ PAGE \in Nat \ {0} /\ Top \in Nat
    BY FramesAssumption
<1>2. to \in Nat /\ base <= to /\ (len # 0 /\ to # base + len => to = Top)
    BY <1>1 DEF Sat
<1>3. lo \in Nat /\ lo <= base /\ lo <= LastPage /\ LastPage \in Nat
    BY <1>1, AlignBounds, AlignMonotone DEF LastPage
<1>4. hi \in Nat /\ (hi = LastPage \/ to <= hi)
    <2> HIDE DEF to
    <2>1. AlignUp(to, PAGE) \in Nat /\ to <= AlignUp(to, PAGE)
        BY <1>1, <1>2, AlignBounds
    <2> QED BY <1>3, <2>1
<1>5. /\ phase \in {"map", "closed"} /\ phase' = "closed"
      /\ UNCHANGED <<in_use, ram, taken, misuses>>
    BY DEF Reserve
<1>6. len = 0 => UNCHANGED <<ranges, dropped, reserved>>
    BY DEF Reserve
<1>7. len # 0 => Remove(Run(lo, hi)) /\ reserved' = reserved \cup {Run(lo, hi)}
    BY DEF Reserve, LastPage
<1>8. len # 0 /\ hi # LastPage => base < to
    <2>1. CASE to = base + len
        BY <1>1, <2>1
    <2>2. CASE to # base + len
        <3> SUFFICES ASSUME len # 0, hi # LastPage PROVE FALSE
            OBVIOUS
        <3>1. to = Top /\ PAGE = 1
            BY <1>1, <1>2, <2>2
        <3>2. AlignUp(Top, 1) = AlignDown(Top, 1)
            BY <1>1 DEF AlignUp
        <3> QED BY <3>1, <3>2 DEF LastPage
    <2> QED BY <2>1, <2>2
<1> HIDE DEF lo, hi, to
<1>9. CASE len # 0 /\ lo < hi
    <2>1. Run(lo, hi) \in Interval /\ Run(lo, hi).base < Run(lo, hi).end
        BY <1>3, <1>4, <1>9 DEF Run, Interval
    <2> QED BY <1>5, <1>7, <1>9, <2>1
<1>10. CASE len # 0 /\ ~(lo < hi)
    <2>1. lo = LastPage /\ hi = LastPage
        BY <1>1, <1>2, <1>3, <1>4, <1>8, <1>10
    <2>2. \A r \in ranges : ~Overlap(r, Run(LastPage, LastPage))
        BY <1>3, <1>5 DEF Inv, Overlap, Run, Interval
    <2>3. UNCHANGED <<ranges, dropped>>
        <3> DEFINE hit == {r \in ranges : Overlap(r, Run(LastPage, LastPage))}
        <3>1. hit = {}
            BY <2>2
        <3>2. Remove(Run(LastPage, LastPage))
            BY <1>7, <1>10, <2>1
        <3> QED BY <3>1, <3>2 DEF Remove
    <2> QED BY <1>5, <1>7, <1>10, <2>1, <2>3
<1> QED BY <1>5, <1>6, <1>9, <1>10

LEMMA AllocRun ==
    ASSUME ranges \subseteq Interval, NEW sought \in Lens, NEW wanted \in Aligns, Alloc(sought, wanted)
    PROVE  /\ phase = "ready" /\ UNCHANGED <<phase, ram, reserved, misuses>>
           /\ \E run \in Interval, r \in ranges :
                /\ run.base < run.end /\ r.base <= run.base /\ run.end <= r.end
                /\ Remove(run) /\ taken' = taken \cup {run} /\ in_use' = in_use + Length(run)
<1> USE FramesAssumption
<1> DEFINE len == AlignUp(sought, PAGE)
           align == Max({wanted, PAGE})
<1>1. PICK r \in ranges : /\ Fits(r, len, align)
                          /\ LET run == Run(StartIn(r, len, align), StartIn(r, len, align) + len)
                             IN  Remove(run) /\ taken' = taken \cup {run}
    BY DEF Alloc
<1> DEFINE run == Run(StartIn(r, len, align), StartIn(r, len, align) + len)
<1>2. len \in Nat /\ len > 0
    <2>1. sought \in Nat /\ sought > 0 /\ PAGE \in Nat \ {0}
        BY DEF Alloc
    <2>2. AlignUp(sought, PAGE) \in Nat /\ AlignUp(sought, PAGE) >= sought
        BY <2>1, AlignBounds
    <2> QED BY <2>1, <2>2
<1>3. in_use' = in_use + len /\ phase = "ready" /\ UNCHANGED <<phase, ram, reserved, misuses>>
    BY DEF Alloc
<1> HIDE DEF len, align
<1>4. StartIn(r, len, align) \in Nat /\ StartIn(r, len, align) >= r.base
      /\ StartIn(r, len, align) + len <= r.end
    <2>1. align \in Nat \ {0}
        <3>1. wanted \in Nat \ {0} /\ PAGE \in Nat \ {0} /\ wanted \in Int /\ PAGE \in Int
            OBVIOUS
        <3>2. Max({wanted, PAGE}) = IF wanted >= PAGE THEN wanted ELSE PAGE
            BY <3>1, MinMax, Zenon
        <3> QED BY <3>1, <3>2 DEF align
    <2>2. AlignDown(CEILING, PAGE) \in Nat
        BY AlignBounds
    <2>3. r.base \in Nat /\ r.end \in Nat
        BY DEF Interval
    <2> DEFINE top == Min({r.end, AlignDown(CEILING, PAGE)})
    <2>4. top \in Nat /\ top <= r.end
        BY <2>2, <2>3, MinMax
    <2> HIDE DEF top
    <2>5. top - len \in Nat
        BY <1>1, <1>2, <2>3, <2>4 DEF Fits, top
    <2>6. AlignDown(top - len, align) \in Nat /\ AlignDown(top - len, align) <= top - len
        BY <2>1, <2>5, AlignBounds
    <2> QED BY <1>1, <1>2, <2>3, <2>4, <2>6 DEF Fits, StartIn, top
<1>5. /\ run \in Interval /\ run.base < run.end /\ r.base <= run.base /\ run.end <= r.end
      /\ Length(run) = len
    BY <1>2, <1>4 DEF Run, Interval, Length
<1>6. Remove(run) /\ taken' = taken \cup {run}
    BY <1>1
<1> HIDE DEF run
<1> QED BY <1>3, <1>5, <1>6

-----------------------------------------------------------------------------
LEMMA InitInv == Init => Inv
BY DEF Init, Inv, NeverTouching, NeverShared

LEMMA LastPageType == LastPage \in Nat
BY AlignBounds, FramesAssumption DEF LastPage

\* Each call preserves the invariant.
LEMMA StepInv ==
    ASSUME Inv, [Next]_vars
    PROVE  Inv'
<1> USE FramesAssumption, LastPageType
<1>1. ASSUME NEW base \in Bases, NEW len \in Lens, Add(base, len)
      PROVE  Inv'
    <2>1. PICK run \in Interval : run.base < run.end /\ run.end <= LastPage /\ Insert(run)
        BY <1>1, AddRun
    <2>2. phase = "map" /\ UNCHANGED <<phase, reserved, taken, misuses>>
        BY <1>1, AddRun
    <2>3. /\ ranges' \subseteq Interval /\ \A r \in ranges' : r.base < r.end
          /\ NeverTouching'
          /\ \A r \in ranges' : r.end = run.end \/ \E s \in ranges : r.end = s.end
        BY <2>1, InsertSound DEF Inv
    <2>4. reserved = {} /\ taken = {} /\ misuses = 0
        BY <2>2 DEF Inv
    <2>5. \A r \in ranges' : r.end <= LastPage
        BY <2>1, <2>3, <2>4 DEF Inv
    <2> QED BY <2>2, <2>3, <2>4, <2>5 DEF Inv, NeverShared, LastPage
<1>2. ASSUME NEW base \in Bases, NEW len \in Lens, Reserve(base, len)
      PROVE  Inv'
    <2>1. taken = {} /\ taken' = {} /\ phase' = "closed" /\ misuses' = misuses /\ misuses = 0
        BY <1>2, ReserveRun DEF Inv
    <2>2. CASE UNCHANGED <<ranges, dropped, reserved>>
        BY <2>1, <2>2 DEF Inv, NeverTouching, NeverShared, LastPage
    <2>3. CASE UNCHANGED <<ranges, dropped>> /\ reserved' = reserved \cup {Run(LastPage, LastPage)}
        <3>1. Run(LastPage, LastPage) \in Interval /\ Run(LastPage, LastPage).base = LastPage
            BY DEF Run, Interval
        <3>2. \A r \in ranges : ~Overlap(Run(LastPage, LastPage), r)
            BY <2>1, <3>1 DEF Inv, Overlap, Interval
        <3>3. NeverTouching' /\ NeverShared'
            BY <2>1, <2>3, <3>2 DEF Inv, NeverTouching, NeverShared
        <3>4. \A r \in reserved' : r \in Interval /\ (r.base < r.end \/ LastPage <= r.base)
            BY <2>3, <3>1 DEF Inv
        <3> QED BY <2>1, <2>3, <3>3, <3>4 DEF Inv, LastPage
    <2>4. ASSUME NEW run \in Interval, run.base < run.end, Remove(run),
                 reserved' = reserved \cup {run}
          PROVE  Inv'
        <3>1. /\ ranges' \subseteq Interval /\ NeverTouching'
              /\ \A p \in ranges' :
                    /\ p.base < p.end /\ ~Overlap(run, p)
                    /\ \E r \in ranges : r.base <= p.base /\ p.end <= r.end
            BY <2>4, RemoveSound DEF Inv
        <3>2. misuses = 0 => \A t \in reserved, p \in ranges' : ~Overlap(t, p)
            BY <3>1 DEF Inv, NeverShared, Overlap, Interval
        <3>3. \A p \in ranges' : p.end <= LastPage
            BY <2>1, <3>1 DEF Inv, Interval
        <3> QED BY <2>1, <2>4, <3>1, <3>2, <3>3 DEF Inv, NeverShared, LastPage
    <2> QED BY <1>2, <2>2, <2>3, <2>4, ReserveRun
<1>3. CASE Ready
    BY <1>3 DEF Ready, Inv, NeverTouching, NeverShared, LastPage
<1>4. ASSUME NEW sought \in Lens, NEW wanted \in Aligns, Alloc(sought, wanted)
      PROVE  Inv'
    <2>1. ranges \subseteq Interval
        BY DEF Inv
    <2>2. PICK run \in Interval, r \in ranges :
            /\ run.base < run.end /\ r.base <= run.base /\ run.end <= r.end
            /\ Remove(run) /\ taken' = taken \cup {run}
        BY <1>4, <2>1, AllocRun
    <2>3. phase = "ready" /\ UNCHANGED <<phase, reserved, misuses>>
        BY <1>4, <2>1, AllocRun
    <2>4. /\ ranges' \subseteq Interval /\ NeverTouching'
          /\ \A p \in ranges' :
                /\ p.base < p.end /\ ~Overlap(run, p)
                /\ \E q \in ranges : q.base <= p.base /\ p.end <= q.end
        BY <2>2, RemoveSound DEF Inv
    <2>5. misuses = 0 => \A t \in taken \cup reserved, p \in ranges' : ~Overlap(t, p)
        BY <2>4 DEF Inv, NeverShared, Overlap, Interval
    <2>6. misuses = 0 => \A t \in taken \cup reserved : ~Overlap(t, run) /\ ~Overlap(run, t)
        BY <2>2 DEF Inv, NeverShared, Overlap, Interval
    <2>7. misuses = 0 => run.end <= LastPage /\ \A p \in ranges' : p.end <= LastPage
        BY <2>2, <2>4 DEF Inv, Interval
    <2> QED BY <2>2, <2>3, <2>4, <2>5, <2>6, <2>7 DEF Inv, NeverShared, LastPage
<1>5. ASSUME NEW run \in taken, NEW sought \in Lens, Free(run, sought)
      PROVE  Inv'
    <2>1. run \in Interval /\ run.base < run.end /\ Insert(run) /\ taken' = taken \ {run}
          /\ UNCHANGED <<phase, reserved, misuses>> /\ phase = "ready"
        BY <1>5 DEF Free, Inv
    <2>2. /\ ranges' \subseteq Interval /\ \A r \in ranges' : r.base < r.end
          /\ NeverTouching'
          /\ \A t \in Interval :
                /\ t.base < t.end /\ ~Overlap(t, run) /\ \A r \in ranges : ~Overlap(t, r)
                => \A r \in ranges' : ~Overlap(t, r)
          /\ \A r \in ranges' : r.end = run.end \/ \E s \in ranges : r.end = s.end
        BY <2>1, InsertSound DEF Inv
    <2>3. misuses = 0 => \A r \in ranges' : r.end <= LastPage
        BY <2>2 DEF Inv
    <2>4. ASSUME misuses = 0, NEW t \in taken' \cup reserved', NEW r \in ranges'
          PROVE  ~Overlap(t, r)
        <3>1. t \in Interval /\ r \in Interval
            BY <2>1, <2>2 DEF Inv
        <3>2. CASE t.base < t.end
            <4>1. ~Overlap(t, run) /\ \A q \in ranges : ~Overlap(t, q)
                BY <2>1, <2>4 DEF Inv, NeverShared, Overlap, Interval
            <4> QED BY <2>2, <3>1, <3>2, <4>1
        <3>3. CASE ~(t.base < t.end)
            <4>1. LastPage <= t.base /\ r.end <= LastPage
                BY <2>1, <2>3, <2>4, <3>3 DEF Inv
            <4> QED BY <3>1, <4>1 DEF Overlap, Interval
        <3> QED BY <3>2, <3>3
    <2> QED BY <2>1, <2>2, <2>3, <2>4 DEF Inv, NeverShared, LastPage
<1>6. ASSUME NEW run \in taken, NEW sought \in Lens, FreeWrong(run, sought)
      PROVE  Inv'
    <2> DEFINE freed == Run(run.base, run.base + AlignUp(sought, PAGE))
    <2>1. /\ Insert(freed) /\ taken' = taken \ {run} /\ sought > 0
          /\ misuses' = misuses + 1 /\ UNCHANGED <<phase, reserved>> /\ phase = "ready"
        BY <1>6 DEF FreeWrong
    <2>2. AlignUp(sought, PAGE) \in Nat /\ AlignUp(sought, PAGE) >= sought
        BY AlignBounds
    <2>3. freed \in Interval /\ freed.base < freed.end
        BY <2>1, <2>2 DEF Inv, Run, Interval
    <2> HIDE DEF freed
    <2>4. /\ ranges' \subseteq Interval /\ \A r \in ranges' : r.base < r.end
          /\ NeverTouching'
        BY <2>1, <2>3, InsertSound DEF Inv
    <2> QED BY <2>1, <2>4 DEF Inv, NeverShared, LastPage
<1>7. CASE UNCHANGED vars
    BY <1>7 DEF vars, Inv, NeverTouching, NeverShared, LastPage
<1> QED BY <1>1, <1>2, <1>3, <1>4, <1>5, <1>6, <1>7 DEF Next

\* The other parts of the kernel leave the allocator alone.
LEMMA FramesRefine == MCSpec => Spec
<1>1. MCInit => Init
    BY DEF MCInit
<1>2. ASSUME [MCNext]_all PROVE [Next]_vars
    <2>1. CASE FramesStep
        BY <2>1 DEF FramesStep
    <2>2. CASE UNCHANGED vars
        BY <2>2
    <2> QED
        BY <1>2, <2>1, <2>2 DEF MCNext, WordStep, PowerStep, ProbeStep, DriverStep, PluginStep, all
<1> QED
    BY <1>1, <1>2, PTL DEF MCSpec, Spec

\* For every table size, page size and memory map the free ranges stay apart.
THEOREM RangesApart == MCSpec => []NeverTouching
<1>1. Inv => NeverTouching
    BY DEF Inv
<1> QED BY <1>1, InitInv, StepInv, FramesRefine, PTL DEF Spec

\* Memory reserved at boot or handed out is never free and never handed out
\* twice, also when a full table has to forget memory.
THEOREM MemoryNeverShared == MCSpec => []NeverShared
<1>1. Inv => NeverShared
    BY DEF Inv
<1> QED BY <1>1, InitInv, StepInv, FramesRefine, PTL DEF Spec

-----------------------------------------------------------------------------
(* The account of memory.  Every byte a full table forgets is one that     *)
(* dropped counts, and a byte taken out of the table is handed out or      *)
(* reserved; what is in use is a union of disjoint runs.                   *)

Lost == Bytes(ram) \ Bytes(ranges \cup taken \cup reserved)

Account ==
    /\ ram \subseteq Interval /\ IsFiniteSet(Bytes(ram)) /\ IsFiniteSet(Bytes(taken))
    /\ dropped \in Nat
    /\ Accounted

LEMMA BytesOf ==
    /\ \A S, x : x \in Bytes(S) <=> \E r \in S : x \in r.base .. r.end - 1
    /\ \A S, T : Bytes(S \cup T) = Bytes(S) \cup Bytes(T)
    /\ \A S, T : S \subseteq T => Bytes(S) \subseteq Bytes(T)
    /\ \A r : Bytes({r}) = r.base .. r.end - 1
    /\ Bytes({}) = {}
BY DEF Bytes

LEMMA RunBytes ==
    ASSUME NEW r \in Interval, r.base < r.end
    PROVE  IsFiniteSet(Bytes({r})) /\ Cardinality(Bytes({r})) = Length(r) /\ Length(r) \in Nat
<1>1. r.base \in Int /\ r.end - 1 \in Int /\ r.base <= r.end - 1
    BY DEF Interval
<1>2. IsFiniteSet(r.base .. r.end - 1) /\ Cardinality(r.base .. r.end - 1) = (r.end - 1) - r.base + 1
    BY <1>1, FS_Interval
<1> QED
    BY <1>2, BytesOf DEF Length, Interval

\* A set of numbers that is not empty has a least.
LEMMA LeastOf == ASSUME NEW S, S \subseteq Nat, S # {} PROVE \E x \in S : \A y \in S : x <= y
<1>1. \E x \in S : \A y \in S : ~ (<<y, x>> \in OpToRel(<, Nat))
    BY NatLessThanWellFounded, WFMin, Zenon
<1>2. \A x, y \in Nat : <<y, x>> \in OpToRel(<, Nat) <=> y < x
    BY Zenon DEF OpToRel
<1>3. \E x \in S : \A y \in S : ~ (y < x)
    BY <1>1, <1>2, Zenon
<1> QED
    BY <1>3, SMT

\* The smallest range of a table is one of its ranges.
LEMMA SmallestIn ==
    ASSUME NEW S \in SUBSET Interval, S # {}, \A r \in S : r.base < r.end
    PROVE  Smallest(S) \in S
<1>1. \A r \in S : Length(r) \in Nat /\ r.base \in Nat
    BY DEF Length, Interval
<1>2. PICK k \in {Length(r) : r \in S} : \A m \in {Length(r) : r \in S} : k <= m
    <2>1. {Length(r) : r \in S} \subseteq Nat /\ {Length(r) : r \in S} # {}
        BY <1>1
    <2> QED
        BY <2>1, LeastOf
<1> DEFINE short == {r \in S : Length(r) = k}
<1>3. PICK b \in {r.base : r \in short} : \A m \in {r.base : r \in short} : b <= m
    <2>1. {r.base : r \in short} \subseteq Nat /\ {r.base : r \in short} # {}
        BY <1>1, <1>2
    <2> QED
        BY <2>1, LeastOf
<1>4. PICK r \in short : r.base = b
    BY <1>3
<1>5. \A s \in S : Length(r) < Length(s) \/ (Length(r) = Length(s) /\ r.base <= s.base)
    BY <1>1, <1>2, <1>3, <1>4
<1> QED
    BY <1>4, <1>5 DEF Smallest

\* What merges with a run is covered by the range they become.
LEMMA MergedCovers ==
    ASSUME NEW run \in Interval, run.base < run.end,
           ranges \subseteq Interval, \A r \in ranges : r.base < r.end, NeverTouching
    PROVE  Bytes(ranges) \cup Bytes({run}) \subseteq Bytes(Apart(run) \cup {Merged(run)})
<1> DEFINE below == {r \in ranges : Touch(r, run) /\ r.base < run.base}
           above == {r \in ranges : Touch(r, run) /\ r.end > run.end}
           b == CHOOSE r \in below : TRUE
           a == CHOOSE r \in above : TRUE
           m == Merged(run)
<1>1. below # {} => b \in below
    OBVIOUS
<1>2. above # {} => a \in above
    OBVIOUS
<1>3. m = Run(IF below = {} THEN run.base ELSE b.base, IF above = {} THEN run.end ELSE a.end)
    BY DEF Merged
<1> HIDE DEF b, a, m
<1>4. m \in Interval /\ m.base <= run.base /\ run.end <= m.end
    BY <1>1, <1>2, <1>3 DEF Interval, Run
<1>5. ASSUME NEW r \in ranges, Touch(r, run) PROVE m.base <= r.base /\ r.end <= m.end
    <2>1. CASE r \in below
        <3>1. b = r
            BY <1>1, <2>1 DEF NeverTouching, Touch, Interval
        <3>2. m.base = r.base
            BY <1>3, <2>1, <3>1 DEF Run
        <3>3. r.end <= m.end
            <4>1. CASE r \in above
                BY <1>2, <1>3, <4>1 DEF Run, Interval, NeverTouching, Touch
            <4>2. CASE r \notin above
                BY <1>4, <1>5, <4>2 DEF Interval
            <4> QED
                BY <4>1, <4>2
        <3> QED
            BY <3>2, <3>3 DEF Interval
    <2>2. CASE r \in above
        <3>1. a = r
            BY <1>2, <2>2 DEF NeverTouching, Touch, Interval
        <3>2. m.end = r.end
            BY <1>3, <2>2, <3>1 DEF Run
        <3>3. m.base <= r.base
            <4>1. CASE r \in below
                BY <1>1, <1>3, <4>1 DEF Run, Interval, NeverTouching, Touch
            <4>2. CASE r \notin below
                BY <1>4, <1>5, <4>2 DEF Interval
            <4> QED
                BY <4>1, <4>2
        <3> QED
            BY <3>2, <3>3 DEF Interval
    <2>3. CASE r \notin below /\ r \notin above
        BY <1>4, <1>5, <2>3 DEF Interval
    <2> QED
        BY <2>1, <2>2, <2>3
<1>6. ASSUME NEW x, x \in Bytes(ranges) PROVE x \in Bytes(Apart(run) \cup {m})
    <2>1. PICK r \in ranges : x \in r.base .. r.end - 1
        BY <1>6, BytesOf
    <2>2. CASE Touch(r, run)
        <3>1. x \in m.base .. m.end - 1
            BY <1>4, <1>5, <2>1, <2>2 DEF Interval
        <3> QED
            BY <3>1, BytesOf
    <2>3. CASE ~Touch(r, run)
        <3>1. r \in Apart(run)
            BY <2>3 DEF Apart
        <3> QED
            BY <2>1, <3>1, BytesOf
    <2> QED
        BY <2>2, <2>3
<1>7. ASSUME NEW x, x \in Bytes({run}) PROVE x \in Bytes(Apart(run) \cup {m})
    <2>1. x \in run.base .. run.end - 1
        BY <1>7, BytesOf
    <2>2. x \in m.base .. m.end - 1
        BY <1>4, <2>1 DEF Interval
    <2> QED
        BY <2>2, BytesOf
<1> QED
    BY <1>6, <1>7 DEF m

\* What an insertion does not keep is what it counts as dropped.
LEMMA InsertCovers ==
    ASSUME NEW run \in Interval, run.base < run.end,
           ranges \subseteq Interval, \A r \in ranges : r.base < r.end, NeverTouching,
           dropped \in Nat, Insert(run)
    PROVE  \E lost : /\ IsFiniteSet(lost) /\ dropped' = dropped + Cardinality(lost)
                     /\ dropped' \in Nat
                     /\ Bytes(ranges) \cup Bytes({run}) \subseteq Bytes(ranges') \cup lost
<1> DEFINE new == Merged(run)
           rest == Apart(run)
           small == Smallest(rest)
<1>1. new \in Interval /\ new.base < new.end
    BY MergedApart
<1>2. rest \subseteq ranges /\ rest \subseteq Interval
    BY DEF Apart
<1>3. Bytes(ranges) \cup Bytes({run}) \subseteq Bytes(rest \cup {new})
    BY MergedCovers
<1>4. \/ Cardinality(rest) < N /\ ranges' = rest \cup {new} /\ dropped' = dropped
      \/ ranges' = rest /\ dropped' = dropped + Length(new)
      \/ /\ ~(Cardinality(rest) < N) /\ N # 0
         /\ ranges' = (rest \ {small}) \cup {new} /\ dropped' = dropped + Length(small)
    BY DEF Insert
<1> HIDE DEF new, rest, small
<1>5. CASE ranges' = rest \cup {new} /\ dropped' = dropped
    <2>1. IsFiniteSet({}) /\ Cardinality({}) = 0
        BY FS_EmptySet
    <2>2. dropped' = dropped + Cardinality({})
        BY <1>5, <2>1
    <2> QED
        BY <1>3, <1>5, <2>1, <2>2
<1>6. CASE ranges' = rest /\ dropped' = dropped + Length(new)
    <2>1. IsFiniteSet(Bytes({new})) /\ Cardinality(Bytes({new})) = Length(new) /\ Length(new) \in Nat
        BY <1>1, RunBytes
    <2>2. Bytes(rest \cup {new}) = Bytes(rest) \cup Bytes({new})
        BY BytesOf
    <2>3. dropped' = dropped + Cardinality(Bytes({new})) /\ dropped' \in Nat
        BY <1>6, <2>1
    <2> QED
        BY <1>3, <1>6, <2>1, <2>2, <2>3
<1>7. CASE /\ ~(Cardinality(rest) < N) /\ N # 0
           /\ ranges' = (rest \ {small}) \cup {new} /\ dropped' = dropped + Length(small)
    <2>1. rest # {}
        <3>1. Cardinality({}) = 0 /\ N \in Nat
            BY FS_EmptySet, FramesAssumption
        <3> QED
            BY <1>7, <3>1
    <2>2. small \in rest
        BY <1>2, <2>1, SmallestIn DEF small
    <2>3. /\ IsFiniteSet(Bytes({small})) /\ Cardinality(Bytes({small})) = Length(small)
          /\ Length(small) \in Nat
        BY <1>2, <2>2, RunBytes
    <2>4. rest \cup {new} = ranges' \cup {small}
        BY <1>7, <2>2
    <2>5. Bytes(rest \cup {new}) = Bytes(ranges') \cup Bytes({small})
        BY <2>4, BytesOf
    <2>6. dropped' = dropped + Cardinality(Bytes({small})) /\ dropped' \in Nat
        BY <1>7, <2>3
    <2> QED
        BY <1>3, <2>3, <2>5, <2>6
<1> QED
    BY <1>4, <1>5, <1>6, <1>7

\* What a removal does not keep is the run, and what it counts as dropped.
LEMMA RemoveCovers ==
    ASSUME NEW run \in Interval, run.base < run.end,
           ranges \subseteq Interval, \A r \in ranges : r.base < r.end, NeverTouching,
           dropped \in Nat, Remove(run)
    PROVE  \E lost : /\ IsFiniteSet(lost) /\ dropped' = dropped + Cardinality(lost)
                     /\ dropped' \in Nat
                     /\ Bytes(ranges) \subseteq Bytes(ranges') \cup Bytes({run}) \cup lost
<1> DEFINE hit == {r \in ranges : Overlap(r, run)}
           split == {r \in hit : r.base < run.base /\ run.end < r.end}
           left == {Run(r.base, run.base) : r \in {r \in hit : r.base < run.base}}
           right == {Run(run.end, r.end) : r \in {r \in hit : run.end < r.end}}
           r0 == CHOOSE r \in split : TRUE
<1>1. \/ ranges' = (ranges \ hit) \cup left \cup right /\ dropped' = dropped
      \/ split # {} /\ ranges' = (ranges \ hit) \cup left /\ dropped' = dropped + (r0.end - run.end)
      \/ split # {} /\ ranges' = (ranges \ hit) \cup right /\ dropped' = dropped + (run.base - r0.base)
    BY DEF Remove
<1>2. ASSUME NEW x, x \in Bytes(ranges), x \notin Bytes({run}), x \notin Bytes(ranges \ hit)
      PROVE  \E r \in hit : \/ r.base < run.base /\ x \in r.base .. run.base - 1
                            \/ run.end < r.end /\ x \in run.end .. r.end - 1
    <2>1. PICK r \in ranges : x \in r.base .. r.end - 1
        BY <1>2, BytesOf
    <2>2. r \in hit
        BY <1>2, <2>1, BytesOf
    <2>3. x \notin run.base .. run.end - 1
        BY <1>2, BytesOf
    <2>4. x \in Int /\ r.base \in Int /\ r.end \in Int /\ run.base \in Int /\ run.end \in Int
        BY <2>1 DEF Interval
    <2>5. \/ r.base < run.base /\ x \in r.base .. run.base - 1
          \/ run.end < r.end /\ x \in run.end .. r.end - 1
        BY <2>1, <2>3, <2>4
    <2> QED
        BY <2>2, <2>5
<1>3. ASSUME NEW r \in hit, NEW x
      PROVE  /\ r.base < run.base /\ x \in r.base .. run.base - 1 => x \in Bytes(left)
             /\ run.end < r.end /\ x \in run.end .. r.end - 1 => x \in Bytes(right)
    <2>1. ASSUME r.base < run.base, x \in r.base .. run.base - 1 PROVE x \in Bytes(left)
        <3>1. Run(r.base, run.base) \in left
            BY <2>1
        <3>2. Run(r.base, run.base).base = r.base /\ Run(r.base, run.base).end = run.base
            BY DEF Run
        <3> HIDE DEF left
        <3> QED
            BY <2>1, <3>1, <3>2, BytesOf
    <2>2. ASSUME run.end < r.end, x \in run.end .. r.end - 1 PROVE x \in Bytes(right)
        <3>1. Run(run.end, r.end) \in right
            BY <2>2
        <3>2. Run(run.end, r.end).base = run.end /\ Run(run.end, r.end).end = r.end
            BY DEF Run
        <3> HIDE DEF right
        <3> QED
            BY <2>2, <3>1, <3>2, BytesOf
    <2> QED
        BY <2>1, <2>2
<1>4. split # {} =>
        /\ r0 \in ranges /\ r0.base < run.base /\ run.end < r0.end
        /\ \A r \in hit : r = r0
    <2> SUFFICES ASSUME split # {}
                 PROVE  /\ r0 \in ranges /\ r0.base < run.base /\ run.end < r0.end
                        /\ \A r \in hit : r = r0
        OBVIOUS
    <2>1. r0 \in split
        OBVIOUS
    <2> HIDE DEF r0
    <2>2. r0 \in ranges /\ r0.base < run.base /\ run.end < r0.end
        BY <2>1
    <2>3. ASSUME NEW r \in hit PROVE r = r0
        BY <2>2, <2>3 DEF NeverTouching, Touch, Overlap, Interval
    <2> QED
        BY <2>2, <2>3
<1> HIDE DEF hit, split, left, right, r0
<1>5. CASE ranges' = (ranges \ hit) \cup left \cup right /\ dropped' = dropped
    <2>1. IsFiniteSet({}) /\ Cardinality({}) = 0
        BY FS_EmptySet
    <2>2. dropped' = dropped + Cardinality({}) /\ dropped' \in Nat
        BY <1>5, <2>1
    <2>3. Bytes(ranges') = Bytes(ranges \ hit) \cup Bytes(left) \cup Bytes(right)
        BY <1>5, BytesOf
    <2>4. Bytes(ranges) \subseteq Bytes(ranges') \cup Bytes({run}) \cup {}
        BY <1>2, <1>3, <2>3
    <2> QED
        BY <2>1, <2>2, <2>4
<1>6. CASE split # {} /\ ranges' = (ranges \ hit) \cup left /\ dropped' = dropped + (r0.end - run.end)
    <2> DEFINE half == Run(run.end, r0.end)
    <2>1. half \in Interval /\ half.base < half.end /\ Length(half) = r0.end - run.end
        BY <1>4, <1>6 DEF Run, Interval, Length
    <2>2. IsFiniteSet(Bytes({half})) /\ Cardinality(Bytes({half})) = Length(half) /\ Length(half) \in Nat
        BY <2>1, RunBytes
    <2>3. Bytes(ranges') = Bytes(ranges \ hit) \cup Bytes(left)
        BY <1>6, BytesOf
    <2>4. Bytes({half}) = run.end .. r0.end - 1
        <3>1. half.base = run.end /\ half.end = r0.end
            BY DEF Run
        <3> HIDE DEF half
        <3> QED
            BY <3>1, BytesOf
    <2> HIDE DEF half
    <2>5. Bytes(ranges) \subseteq Bytes(ranges') \cup Bytes({run}) \cup Bytes({half})
        BY <1>2, <1>3, <1>4, <1>6, <2>3, <2>4
    <2>6. dropped' = dropped + Cardinality(Bytes({half})) /\ dropped' \in Nat
        BY <1>6, <2>1, <2>2
    <2> QED
        BY <2>2, <2>5, <2>6
<1>7. CASE split # {} /\ ranges' = (ranges \ hit) \cup right /\ dropped' = dropped + (run.base - r0.base)
    <2> DEFINE half == Run(r0.base, run.base)
    <2>1. half \in Interval /\ half.base < half.end /\ Length(half) = run.base - r0.base
        BY <1>4, <1>7 DEF Run, Interval, Length
    <2>2. IsFiniteSet(Bytes({half})) /\ Cardinality(Bytes({half})) = Length(half) /\ Length(half) \in Nat
        BY <2>1, RunBytes
    <2>3. Bytes(ranges') = Bytes(ranges \ hit) \cup Bytes(right)
        BY <1>7, BytesOf
    <2>4. Bytes({half}) = r0.base .. run.base - 1
        <3>1. half.base = r0.base /\ half.end = run.base
            BY DEF Run
        <3> HIDE DEF half
        <3> QED
            BY <3>1, BytesOf
    <2> HIDE DEF half
    <2>5. Bytes(ranges) \subseteq Bytes(ranges') \cup Bytes({run}) \cup Bytes({half})
        BY <1>2, <1>3, <1>4, <1>7, <2>3, <2>4
    <2>6. dropped' = dropped + Cardinality(Bytes({half})) /\ dropped' \in Nat
        BY <1>7, <2>1, <2>2
    <2> QED
        BY <2>2, <2>5, <2>6
<1> QED
    BY <1>1, <1>5, <1>6, <1>7

\* Losing no byte but those counted keeps the account.
LEMMA LostBound ==
    ASSUME NEW A, NEW B, NEW lost, IsFiniteSet(A), IsFiniteSet(lost), B \subseteq A \cup lost,
           NEW d \in Nat, Cardinality(A) <= d
    PROVE  Cardinality(B) <= d + Cardinality(lost)
<1>1. IsFiniteSet(A \cup lost) /\ IsFiniteSet(A \cap lost)
    BY FS_Union, FS_Subset
<1>2. Cardinality(A \cup lost) = Cardinality(A) + Cardinality(lost) - Cardinality(A \cap lost)
    BY FS_Union
<1>3. Cardinality(B) <= Cardinality(A \cup lost) /\ IsFiniteSet(B)
    BY <1>1, FS_Subset
<1>4. /\ Cardinality(A) \in Nat /\ Cardinality(lost) \in Nat /\ Cardinality(B) \in Nat
      /\ Cardinality(A \cap lost) \in Nat /\ Cardinality(A \cup lost) \in Nat
    BY <1>1, <1>3, FS_CardinalityType
<1> QED
    BY <1>2, <1>3, <1>4

\* The size of disjoint memory adds up.
LEMMA SizesAdd ==
    ASSUME NEW S, NEW r \in Interval, r.base < r.end, IsFiniteSet(Bytes(S)),
           S \subseteq Interval, \A t \in S : ~Overlap(t, r)
    PROVE  /\ IsFiniteSet(Bytes(S \cup {r}))
           /\ Cardinality(Bytes(S \cup {r})) = Cardinality(Bytes(S)) + Length(r)
           /\ Cardinality(Bytes(S)) \in Nat
<1>1. Bytes(S \cup {r}) = Bytes(S) \cup Bytes({r})
    BY BytesOf
<1>2. Bytes(S) \cap Bytes({r}) = {}
    <2> SUFFICES ASSUME NEW x, x \in Bytes(S), x \in Bytes({r}) PROVE FALSE
        OBVIOUS
    <2>1. PICK t \in S : x \in t.base .. t.end - 1
        BY BytesOf
    <2>2. x \in r.base .. r.end - 1
        BY BytesOf
    <2> QED
        BY <2>1, <2>2 DEF Overlap, Interval
<1>3. IsFiniteSet(Bytes({r})) /\ Cardinality(Bytes({r})) = Length(r) /\ Length(r) \in Nat
    BY RunBytes
<1>4. /\ IsFiniteSet(Bytes(S) \cup Bytes({r}))
      /\ Cardinality(Bytes(S) \cup Bytes({r}))
             = Cardinality(Bytes(S)) + Cardinality(Bytes({r})) - Cardinality(Bytes(S) \cap Bytes({r}))
    BY <1>3, FS_Union
<1>5. Cardinality(Bytes(S) \cap Bytes({r})) = 0 /\ Cardinality(Bytes(S)) \in Nat
    BY <1>2, FS_EmptySet, FS_CardinalityType
<1>6. Cardinality(Bytes(S) \cup Bytes({r})) = Cardinality(Bytes(S)) + Length(r)
    BY <1>3, <1>4, <1>5
<1> QED
    BY <1>1, <1>4, <1>5, <1>6

LEMMA InitAccount == Init => Account
<1> SUFFICES ASSUME Init PROVE Account
    OBVIOUS
<1>1. Bytes({}) = {} /\ IsFiniteSet({}) /\ Cardinality({}) = 0
    BY BytesOf, FS_EmptySet
<1>2. Bytes(ram) \ Bytes(ranges \cup taken \cup reserved) = {}
    BY <1>1 DEF Init
<1> QED
    BY <1>1, <1>2 DEF Init, Account, Accounted

\* A step that loses only what it counts, and knows what is in use.
LEMMA AccountStep ==
    ASSUME Account, NEW lost, IsFiniteSet(lost), dropped' = dropped + Cardinality(lost),
           dropped' \in Nat, ram' \subseteq Interval, IsFiniteSet(Bytes(ram')),
           IsFiniteSet(Bytes(taken')),
           misuses' = 0 => /\ misuses = 0
                           /\ in_use' = Cardinality(Bytes(taken'))
                           /\ Lost' \subseteq Lost \cup lost
    PROVE  Account'
<1> SUFFICES ASSUME misuses' = 0
             PROVE  Cardinality(Lost') <= dropped' /\ in_use' = Cardinality(Bytes(taken'))
    BY DEF Account, Accounted, Lost
<1>1. IsFiniteSet(Lost)
    BY FS_Subset DEF Lost, Account
<1>2. Cardinality(Lost) <= dropped /\ dropped \in Nat
    BY DEF Account, Accounted, Lost
<1>3. Cardinality(Lost') <= dropped + Cardinality(lost)
    BY <1>1, <1>2, LostBound
<1> QED
    BY <1>3

LEMMA NextAccount ==
    ASSUME Inv, Account, [Next]_vars
    PROVE  Account'
<1>1. /\ ranges \subseteq Interval /\ taken \subseteq Interval /\ dropped \in Nat
      /\ \A r \in ranges : r.base < r.end
      /\ NeverTouching
    BY DEF Inv, Account
<1>2. \A S, T : Bytes(S \cup T) = Bytes(S) \cup Bytes(T)
    BY BytesOf
<1>3. /\ Lost = Bytes(ram) \ (Bytes(ranges) \cup Bytes(taken) \cup Bytes(reserved))
       /\ Lost' = Bytes(ram') \ (Bytes(ranges') \cup Bytes(taken') \cup Bytes(reserved'))
    <2>1. ASSUME NEW S, NEW T, NEW U
          PROVE  Bytes(S \cup T \cup U) = Bytes(S) \cup Bytes(T) \cup Bytes(U)
        <3>1. Bytes((S \cup T) \cup U) = Bytes(S \cup T) \cup Bytes(U)
            BY <1>2
        <3>2. Bytes(S \cup T) = Bytes(S) \cup Bytes(T)
            BY <1>2
        <3> QED
            BY <3>1, <3>2
    <2>2. Bytes(ranges \cup taken \cup reserved) = Bytes(ranges) \cup Bytes(taken) \cup Bytes(reserved)
        BY <2>1
    <2>3. Bytes(ranges' \cup taken' \cup reserved') = Bytes(ranges') \cup Bytes(taken') \cup Bytes(reserved')
        BY <2>1
    <2>4. Lost' = Bytes(ram') \ Bytes(ranges' \cup taken' \cup reserved')
        BY DEF Lost
    <2> QED
        BY <2>2, <2>3, <2>4 DEF Lost
<1>4. ASSUME NEW base \in Bases, NEW len \in Lens, Add(base, len)
      PROVE  Account'
    <2>1. PICK run \in Interval : run.base < run.end /\ Insert(run) /\ ram' = ram \cup {run}
        BY <1>4, AddRun
    <2>2. UNCHANGED <<in_use, reserved, taken, misuses>>
        BY <1>4, AddRun
    <2>3. PICK lost :
            /\ IsFiniteSet(lost) /\ dropped' = dropped + Cardinality(lost) /\ dropped' \in Nat
            /\ Bytes(ranges) \cup Bytes({run}) \subseteq Bytes(ranges') \cup lost
        BY <1>1, <2>1, InsertCovers
    <2>4. IsFiniteSet(Bytes(ram')) /\ ram' \subseteq Interval
        <3>1. IsFiniteSet(Bytes(ram)) /\ IsFiniteSet(Bytes({run}))
            BY <2>1, RunBytes DEF Account
        <3>2. IsFiniteSet(Bytes(ram) \cup Bytes({run}))
            BY <3>1, FS_Union
        <3> QED
            BY <1>2, <2>1, <3>2 DEF Account
    <2>5. Lost' \subseteq Lost \cup lost
        <3>1. Bytes(ram') = Bytes(ram) \cup Bytes({run})
            BY <1>2, <2>1
        <3> QED
            BY <1>3, <2>2, <2>3, <3>1
    <2> QED
        BY <2>2, <2>3, <2>4, <2>5, AccountStep DEF Account, Accounted
<1>5. ASSUME NEW base \in Bases, NEW len \in Lens, Reserve(base, len)
      PROVE  Account'
    <2>1. UNCHANGED <<in_use, ram, taken, misuses>>
        BY <1>5, ReserveRun
    <2>2. CASE UNCHANGED <<ranges, dropped, reserved>>
        BY <2>1, <2>2 DEF Account, Accounted
    <2>3. CASE UNCHANGED <<ranges, dropped>> /\ reserved' = reserved \cup {Run(LastPage, LastPage)}
        <3>1. IsFiniteSet({}) /\ Cardinality({}) = 0
            BY FS_EmptySet
        <3>2. Bytes(reserved') = Bytes(reserved) \cup Bytes({Run(LastPage, LastPage)})
            BY <1>2, <2>3
        <3>3. Lost' \subseteq Lost \cup {}
            BY <1>3, <2>1, <2>3, <3>2
        <3>4. dropped' = dropped + Cardinality({}) /\ dropped' \in Nat
            BY <1>1, <2>3, <3>1
        <3> QED
            BY <2>1, <3>1, <3>3, <3>4, AccountStep DEF Account, Accounted
    <2>4. ASSUME NEW run \in Interval, run.base < run.end, Remove(run),
                 reserved' = reserved \cup {run}
          PROVE  Account'
        <3>1. PICK lost :
                /\ IsFiniteSet(lost) /\ dropped' = dropped + Cardinality(lost) /\ dropped' \in Nat
                /\ Bytes(ranges) \subseteq Bytes(ranges') \cup Bytes({run}) \cup lost
            BY <1>1, <2>4, RemoveCovers
        <3>2. Lost' \subseteq Lost \cup lost
            <4>1. Bytes(reserved') = Bytes(reserved) \cup Bytes({run})
                BY <1>2, <2>4
            <4> QED
                BY <1>3, <2>1, <3>1, <4>1
        <3> QED
            BY <2>1, <3>1, <3>2, AccountStep DEF Account, Accounted
    <2> QED
        BY <1>5, <2>2, <2>3, <2>4, ReserveRun
<1>6. CASE Ready
    BY <1>6 DEF Ready, Account, Accounted
<1>7. ASSUME NEW sought \in Lens, NEW wanted \in Aligns, Alloc(sought, wanted)
      PROVE  Account'
    <2>1. PICK run \in Interval, r \in ranges :
            /\ run.base < run.end /\ r.base <= run.base /\ run.end <= r.end
            /\ Remove(run) /\ taken' = taken \cup {run} /\ in_use' = in_use + Length(run)
        BY <1>1, <1>7, AllocRun
    <2>2. UNCHANGED <<ram, reserved, misuses>>
        BY <1>1, <1>7, AllocRun
    <2>3. PICK lost :
            /\ IsFiniteSet(lost) /\ dropped' = dropped + Cardinality(lost) /\ dropped' \in Nat
            /\ Bytes(ranges) \subseteq Bytes(ranges') \cup Bytes({run}) \cup lost
        BY <1>1, <2>1, RemoveCovers
    <2>4. Lost' \subseteq Lost \cup lost
        <3>1. Bytes(taken') = Bytes(taken) \cup Bytes({run})
            BY <1>2, <2>1
        <3> QED
            BY <1>3, <2>2, <2>3, <3>1
    <2>5. misuses = 0 => in_use' = Cardinality(Bytes(taken'))
        <3> HAVE misuses = 0
        <3>1. \A t \in taken : ~Overlap(t, run)
            BY <1>1, <2>1 DEF Inv, NeverShared, Overlap, Interval
        <3>2. Cardinality(Bytes(taken \cup {run})) = Cardinality(Bytes(taken)) + Length(run)
            BY <1>1, <2>1, <3>1, SizesAdd DEF Account
        <3> QED
            BY <2>1, <3>2 DEF Account, Accounted
    <2>6. IsFiniteSet(Bytes(taken'))
        <3>1. IsFiniteSet(Bytes(taken)) /\ IsFiniteSet(Bytes({run}))
            BY <2>1, RunBytes DEF Account
        <3>2. IsFiniteSet(Bytes(taken) \cup Bytes({run}))
            BY <3>1, FS_Union
        <3> QED
            BY <1>2, <2>1, <3>2
    <2> QED
        BY <2>2, <2>3, <2>4, <2>5, <2>6, AccountStep DEF Account
<1>8. ASSUME NEW run \in taken, NEW sought \in Lens, Free(run, sought)
      PROVE  Account'
    <2>1. /\ Insert(run) /\ taken' = taken \ {run} /\ Length(run) = AlignUp(sought, PAGE)
          /\ in_use' = in_use - Returned(sought) /\ UNCHANGED <<ram, reserved, misuses>>
        BY <1>8 DEF Free
    <2>2. run \in Interval /\ run.base < run.end
        BY DEF Inv
    <2>3. PICK lost :
            /\ IsFiniteSet(lost) /\ dropped' = dropped + Cardinality(lost) /\ dropped' \in Nat
            /\ Bytes(ranges) \cup Bytes({run}) \subseteq Bytes(ranges') \cup lost
        BY <1>1, <2>1, <2>2, InsertCovers
    <2>4. taken = taken' \cup {run}
        BY <2>1
    <2>5. Bytes(taken) = Bytes(taken') \cup Bytes({run})
        BY <1>2, <2>4
    <2>6. Lost' \subseteq Lost \cup lost
        BY <1>3, <2>1, <2>3, <2>5
    <2>7. IsFiniteSet(Bytes(taken'))
        BY <2>5, FS_Subset DEF Account
    <2>8. misuses = 0 => in_use' = Cardinality(Bytes(taken'))
        <3> HAVE misuses = 0
        <3>1. \A t \in taken' : ~Overlap(t, run)
            BY <2>1 DEF Inv, NeverShared
        <3>2. /\ Cardinality(Bytes(taken' \cup {run})) = Cardinality(Bytes(taken')) + Length(run)
              /\ Cardinality(Bytes(taken')) \in Nat
            BY <1>1, <2>1, <2>2, <2>7, <3>1, SizesAdd
        <3>3. in_use = Cardinality(Bytes(taken')) + Length(run)
            BY <2>4, <3>2 DEF Account, Accounted
        <3>4. Length(run) \in Nat /\ in_use \in Nat
            <4>1. Length(run) \in Nat
                BY <2>2, RunBytes
            <4> QED
                BY <3>2, <3>3, <4>1
        <3>5. Returned(sought) = Length(run)
            <4>1. Min({Length(run), in_use}) = IF Length(run) <= in_use THEN Length(run) ELSE in_use
                BY <3>4, MinMax
            <4> QED
                BY <2>1, <3>2, <3>3, <3>4, <4>1 DEF Returned
        <3> QED
            BY <2>1, <3>2, <3>3, <3>4, <3>5
    <2> QED
        BY <2>1, <2>3, <2>6, <2>7, <2>8, AccountStep DEF Account
<1>9. ASSUME NEW run \in taken, NEW sought \in Lens, FreeWrong(run, sought)
      PROVE  Account'
    <2> DEFINE freed == Run(run.base, run.base + AlignUp(sought, PAGE))
    <2>1. /\ Insert(freed) /\ taken' = taken \ {run} /\ misuses' = misuses + 1 /\ sought > 0
          /\ ram' = ram
        BY <1>9 DEF FreeWrong
    <2>2. AlignUp(sought, PAGE) \in Nat /\ AlignUp(sought, PAGE) >= sought
        BY AlignBounds, FramesAssumption
    <2>3. freed \in Interval /\ freed.base < freed.end
        BY <2>1, <2>2, FramesAssumption DEF Inv, Run, Interval
    <2> HIDE DEF freed
    <2>4. dropped' \in Nat
        BY <1>1, <2>1, <2>3, InsertCovers
    <2>5. IsFiniteSet(Bytes(taken'))
        <3>1. Bytes(taken') \subseteq Bytes(taken)
            BY <2>1, BytesOf
        <3> QED
            BY <3>1, FS_Subset DEF Account
    <2>6. misuses' # 0
        BY <2>1 DEF Inv
    <2> QED
        BY <2>1, <2>4, <2>5, <2>6 DEF Account, Accounted
<1>10. CASE UNCHANGED vars
    BY <1>10 DEF vars, Account, Accounted
<1> QED
    BY <1>4, <1>5, <1>6, <1>7, <1>8, <1>9, <1>10 DEF Next

\* As long as runs come back with the length they were sought for, IN_USE is
\* what is handed out, and every byte of memory that is neither free nor in
\* use nor reserved was counted as dropped, however full the table is
\* (frames.rs insert and remove, palloc.rs alloc and free).
THEOREM MemoryAccounted == MCSpec => []Accounted
<1>1. Init => Inv /\ Account
    BY InitInv, InitAccount
<1>2. Inv /\ Account /\ [Next]_vars => Inv' /\ Account'
    BY StepInv, NextAccount
<1>3. Account => Accounted
    BY DEF Account
<1> QED
    BY <1>1, <1>2, <1>3, FramesRefine, PTL DEF Spec
=============================================================================
