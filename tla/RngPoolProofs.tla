--------------------------- MODULE RngPoolProofs ---------------------------
(***************************************************************************)
(* RngPool, for every number of bits a seed needs, every credit of the     *)
(* sources, every interval, chunk and bound on the nonces.                 *)
(*                                                                         *)
(* The properties speak of the moment output is made.  What makes them     *)
(* inductive is what each earlier step of the call leaves behind (Stages), *)
(* and that a pool holds a generator and a key exactly as long as both go  *)
(* back to a credited seed (Generator).                                    *)
(***************************************************************************)
EXTENDS RngPool, TLAPS

\* The seeds a generator may go back to.
Seeds == IF require_jitter = "yes" THEN {"jitter"} ELSE {"jitter", "degraded"}

\* Stages of a call in which the pool was started or is being started.
Running == {"start_jitter", "collect", "sources", "condition", "rekey", "next", "generate", "erase"}

Stages ==
    /\ pc \in Running => state # "Failed"
    /\ pc = "selftest" /\ call.op # "selftest" => state = "Cold"
    /\ pc \in {"next", "generate", "erase"} => state = "Ready"
    /\ pc \in Running => call.op # "selftest"
    /\ pc = "collect" => credited < NEED
    /\ pc = "sources" /\ credited >= NEED => jittered = "yes"
    /\ pc = "condition" => credited >= NEED /\ (require_jitter = "yes" => jittered = "yes")
    /\ pc = "rekey" => drbg = "seeded"

Generator ==
    /\ drbg = "seeded" => origin \in Seeds
    /\ key # "none" => key_origin \in Seeds
    /\ state = "Ready" => drbg = "seeded" /\ key # "none"
    /\ key = "spent" => pc = "erase"
    /\ state = "Failed" => drbg = "empty" /\ key = "none"

\* The counter of the code and the history agree; a nonce that was used is
\* behind the counter.
Counters ==
    /\ served = since_reseed
    /\ \A n \in nonces : n < next_nonce

\* What the invariant says besides the types.
Rest == Stages /\ Generator /\ Counters /\ SeedFresh /\ NoPartial

-----------------------------------------------------------------------------
LEMMA InitInv == Init => TypeOK /\ Rest
BY RngAssumption DEF Init, Rest, TypeOK, Stages, Running, Generator, Counters, SeedFresh,
    NoPartial

\* What a seed is credited with is a number of bits.
LEMMA CreditType ==
    ASSUME credited \in Nat, NEW n \in 0 .. Words, NEW external \in BOOLEAN
    PROVE  Credit(n, external) \in Nat
<1> USE RngAssumption
<1>1. NEED \in Nat /\ WORD_CREDIT \in Nat \ {0} /\ HW_EXTRA_WORDS \in Nat /\ EXTERNAL_CREDIT \in Nat
    OBVIOUS
<1>2. (NEED + WORD_CREDIT - 1) \div WORD_CREDIT \in Int
    BY <1>1
<1>3. n \in Nat
    BY <1>1, <1>2 DEF Words
<1>4. n * WORD_CREDIT \in Nat
    BY <1>1, <1>3
<1> QED
    BY <1>1, <1>4 DEF Credit

\* The length of a call is a number of bytes.
LEMMA LenType == TypeOK => call.len \in Nat /\ filled \in 0 .. call.len
<1> SUFFICES ASSUME TypeOK PROVE call.len \in Nat /\ filled \in 0 .. call.len
    OBVIOUS
<1>1. call.len \in Lens \cup {0}
    BY DEF TypeOK
<1>2. Lens \cup {0} \subseteq Nat
    BY RngAssumption
<1> QED
    BY <1>1, <1>2 DEF TypeOK

\* A round fits in what is left of the buffer.
LEMMA RoundFits ==
    ASSUME TypeOK, NEW size \in Nat
    PROVE  /\ Least(Left, size) \in Nat
           /\ filled + Least(Left, size) \in 0 .. call.len
BY LenType DEF Least, Left

LEMMA TypeNext == TypeOK /\ [Next]_vars => TypeOK'
<1> SUFFICES ASSUME TypeOK, [Next]_vars PROVE TypeOK'
    OBVIOUS
<1> USE RngAssumption DEF TypeOK, seeding, history
<1>1. ASSUME NEW op \in {"fill", "start", "selftest"}, NEW mode \in {"Fast", "True"},
             NEW len \in Lens \cup {0}, Call(op, mode, len)
      PROVE  TypeOK'
    BY <1>1 DEF Call, Ok
<1>2. ASSUME NEW passed \in BOOLEAN, Selftest(passed) PROVE TypeOK'
    BY <1>2 DEF Selftest, Ok, Err, WipeGenerator
<1>3. ASSUME NEW outcome \in {"Ready", "Timer", "Intermittent", "Permanent"}, StartJitter(outcome)
      PROVE  TypeOK'
    BY <1>3 DEF StartJitter, BeginSeed
<1>4. ASSUME NEW outcome \in {"Ok", "Intermittent", "Permanent"}, CollectJitter(outcome)
      PROVE  TypeOK'
    BY <1>4 DEF CollectJitter, Retuned
<1>5. ASSUME NEW n \in 0 .. Words, NEW drops \in BOOLEAN, NEW external \in BOOLEAN,
             Sources(n, drops, external)
      PROVE  TypeOK'
  <2>1. CASE require_jitter = "yes" /\ credited < NEED
    BY <1>5, <2>1, LenType DEF Sources, Err, WipeGenerator
  <2>2. CASE ~(require_jitter = "yes" /\ credited < NEED) /\ Enough(Credit(n, external))
    BY <1>5, <2>2, CreditType DEF Sources
  <2>3. CASE ~(require_jitter = "yes" /\ credited < NEED) /\ ~Enough(Credit(n, external))
    BY <1>5, <2>3, LenType DEF Sources, Err, WipeGenerator
  <2> QED
    BY <2>1, <2>2, <2>3
<1>6. CASE Condition
    BY <1>6 DEF Condition, Kept
<1>7. CASE Rekey
    BY <1>7 DEF Rekey, Ok
<1>8. CASE Round
    BY <1>8 DEF Round, BeginSeed, Ok
<1>9. CASE GenerateTrue
    BY <1>9, RoundFits DEF GenerateTrue, Deliver
<1>10. CASE FoldEvents
    BY <1>10 DEF FoldEvents, Kept
<1>11. CASE GenerateFast
  <2>1. CASE key = "none" \/ NextNonce > MAX_NONCE
    <3>1. pc' = "idle" /\ result' = "error" /\ filled' = 0
        BY <1>11, <2>1 DEF GenerateFast, Err
    <3>2. UNCHANGED <<state, drbg, key, origin, key_origin>>
        BY <1>11, <2>1 DEF GenerateFast, Err, Permanent
    <3>3. UNCHANGED <<next_nonce, nonces>>
        BY <1>11, <2>1 DEF GenerateFast
    <3> QED
        BY <1>11, <3>1, <3>2, <3>3, LenType DEF GenerateFast
  <2>2. CASE ~(key = "none" \/ NextNonce > MAX_NONCE)
    <3>1. next_nonce' \in 0 .. MAX_NONCE
        BY <1>11, <2>2 DEF GenerateFast, NextNonce
    <3>2. nonces' \subseteq 0 .. MAX_NONCE
        BY <1>11, <2>2 DEF GenerateFast
    <3> QED
        BY <1>11, <2>2, <3>1, <3>2 DEF GenerateFast
  <2> QED
    BY <2>1, <2>2
<1>12. CASE Erase
    BY <1>12, RoundFits DEF Erase, Deliver
<1>13. CASE Stir
    BY <1>13 DEF Stir
<1>14. CASE StirBusy
    BY <1>14 DEF StirBusy
<1>15. CASE Abort
    BY <1>15 DEF Abort, WipeGenerator
<1>16. CASE UNCHANGED vars
    BY <1>16 DEF vars
<1> QED
    BY <1>1, <1>2, <1>3, <1>4, <1>5, <1>6, <1>7, <1>8, <1>9, <1>10, <1>11, <1>12, <1>13, <1>14,
       <1>15, <1>16 DEF Next, Step

-----------------------------------------------------------------------------
LEMMA RestNext == TypeOK /\ TypeOK' /\ Rest /\ [Next]_vars => Rest'
<1> SUFFICES ASSUME TypeOK, TypeOK', Rest, [Next]_vars PROVE Rest'
    OBVIOUS
<1> USE RngAssumption, LenType DEF TypeOK, seeding, history, Rest, Stages, Running, Generator,
        Seeds, Counters, SeedFresh, NoPartial
<1>1. ASSUME NEW op \in {"fill", "start", "selftest"}, NEW mode \in {"Fast", "True"},
             NEW len \in Lens \cup {0}, Call(op, mode, len)
      PROVE  Rest'
    BY <1>1 DEF Call, Ok
<1>2. ASSUME NEW passed \in BOOLEAN, Selftest(passed) PROVE Rest'
    BY <1>2 DEF Selftest, Ok, Err, Permanent, WipeGenerator
<1>3. ASSUME NEW outcome \in {"Ready", "Timer", "Intermittent", "Permanent"}, StartJitter(outcome)
      PROVE  Rest'
    BY <1>3 DEF StartJitter, BeginSeed
<1>4. ASSUME NEW outcome \in {"Ok", "Intermittent", "Permanent"}, CollectJitter(outcome)
      PROVE  Rest'
  <2>1. CASE outcome = "Ok"
    BY <1>4, <2>1 DEF CollectJitter
  <2>2. CASE outcome = "Intermittent" /\ Retuned <= OSR_MAX
    BY <1>4, <2>2 DEF CollectJitter
  <2>3. CASE outcome # "Ok" /\ ~(outcome = "Intermittent" /\ Retuned <= OSR_MAX)
    BY <1>4, <2>3 DEF CollectJitter
  <2> QED
    BY <2>1, <2>2, <2>3
<1>5. ASSUME NEW n \in 0 .. Words, NEW drops \in BOOLEAN, NEW external \in BOOLEAN,
             Sources(n, drops, external)
      PROVE  Rest'
    BY <1>5, CreditType DEF Sources, Err, WipeGenerator, Enough
<1>6. CASE Condition
    BY <1>6 DEF Condition, Kept
<1>7. CASE Rekey
    BY <1>7 DEF Rekey, Ok
<1>8. CASE Round
    BY <1>8 DEF Round, BeginSeed, ReseedDue, Left, Ok
<1>9. CASE GenerateTrue
    BY <1>9 DEF GenerateTrue, Deliver
<1>10. CASE FoldEvents
    BY <1>10 DEF FoldEvents, Kept
<1>11. CASE GenerateFast
    BY <1>11 DEF GenerateFast, NextNonce, Err, Permanent, WipeGenerator
<1>12. CASE Erase
    BY <1>12 DEF Erase, Deliver
<1>13. CASE Stir
    BY <1>13 DEF Stir
<1>14. CASE StirBusy
    BY <1>14 DEF StirBusy
<1>15. CASE Abort
    BY <1>15 DEF Abort, WipeGenerator
<1>16. CASE UNCHANGED vars
    BY <1>16 DEF vars
<1> QED
    BY <1>1, <1>2, <1>3, <1>4, <1>5, <1>6, <1>7, <1>8, <1>9, <1>10, <1>11, <1>12, <1>13, <1>14,
       <1>15, <1>16 DEF Next, Step

-----------------------------------------------------------------------------
\* The pool's variables keep their types: in particular the nonce counter never
\* passes its width, and no more is written than the buffer holds.
THEOREM TypeCorrect == Spec => []TypeOK
<1>1. Init => TypeOK
    BY InitInv
<1> QED
    BY <1>1, TypeNext, PTL DEF Spec

\* The inductive invariant holds.
LEMMA Invariance == Spec => [](TypeOK /\ Rest)
<1>1. TypeOK /\ Rest /\ [Next]_vars => TypeOK' /\ Rest'
    BY TypeNext, RestNext
<1> QED
    BY InitInv, <1>1, PTL DEF Spec

\* Output is only made from a credited seed (reseed, recover_after_abort).
THEOREM OutputAlwaysCredited == Spec => []OutputCredited
<1>1. TypeOK /\ Rest => OutputCredited
    BY DEF TypeOK, Rest, Stages, Generator, Seeds, OutputCredited
<1> QED
    BY <1>1, Invariance, PTL

\* No seed serves longer than the interval allows (fill).
THEOREM SeedAlwaysFresh == Spec => []SeedFresh
<1>1. TypeOK /\ Rest => SeedFresh
    BY DEF Rest
<1> QED
    BY <1>1, Invariance, PTL

\* No key and no nonce serves twice (Stream::generate, recover_after_abort).
THEOREM KeysServeOnce == Spec => []KeyServesOnce
<1>1. TypeOK /\ Rest => KeyServesOnce
    BY RngAssumption DEF TypeOK, Rest, Generator, Counters, KeyServesOnce
<1> QED
    BY <1>1, Invariance, PTL

\* A read returns all of its output or none (fill).
THEOREM NeverPartial == Spec => []NoPartial
<1>1. TypeOK /\ Rest => NoPartial
    BY DEF Rest
<1> QED
    BY <1>1, Invariance, PTL

\* A pool that fails holds no generator, and nothing brings it back (record, start,
\* wipe).
THEOREM FailureIsFinal == Spec => OutOfService
<1> DEFINE Given == state' = "Failed" => drbg' = "empty" /\ key' = "none"
           Stays == state = "Failed" => state' = "Failed"
<1>1. TypeOK /\ Rest /\ [Next]_vars => [Stays]_vars
  <2> SUFFICES ASSUME TypeOK, Rest, Next, state = "Failed" PROVE state' = "Failed"
    OBVIOUS
  <2> USE DEF TypeOK, Rest, Stages, Running
  <2>1. ASSUME NEW passed \in BOOLEAN, Selftest(passed) PROVE state' = "Failed"
    BY <2>1 DEF Selftest, Err
  <2>2. ASSUME NEW n \in 0 .. Words, NEW drops \in BOOLEAN, NEW external \in BOOLEAN,
               Sources(n, drops, external)
        PROVE  state' = "Failed"
    BY <2>2 DEF Sources
  <2>3. CASE Rekey
    BY <2>3 DEF Rekey
  <2>4. CASE GenerateFast
    BY <2>4 DEF GenerateFast
  <2>5. CASE Abort
    BY <2>5 DEF Abort
  <2> QED
    BY <2>1, <2>2, <2>3, <2>4, <2>5 DEF Next, Step, Call, StartJitter, CollectJitter, Condition,
       Round, GenerateTrue, FoldEvents, Erase, Stir, StirBusy
<1>2. TypeOK /\ Rest /\ [Next]_vars => Given
    BY TypeNext, RestNext DEF Rest, Generator
<1>3. TypeOK /\ Rest /\ [Next]_vars => [Given /\ Stays]_vars
    BY <1>1, <1>2
<1> QED
    BY <1>3, Invariance, PTL DEF Spec, OutOfService
=============================================================================
