------------------------------ MODULE RngPool ------------------------------
(***************************************************************************)
(* The entropy pool of the kernel (rng/pool.rs, its output stage stream.rs *)
(* and its kernel side, nanochrono-baremetal/src/rng.rs).                  *)
(*                                                                         *)
(* A read starts the pool if need be, gathers credited bits into a seed,   *)
(* seeds the XDRBG, keys the output stage and hands out one chunk per key. *)
(* Every one of these is a step here, because the plugin that made the     *)
(* call may be stopped by a fault between any two of them: the kernel then *)
(* wipes the pool and releases it (recover_after_abort).                   *)
(*                                                                         *)
(* Ciphers, sponges and sample values are left out: a seed is the number   *)
(* of bits credited to it, a key is known by whether it has served a       *)
(* request.  RDRAND, the PMU and the choice of the engine only mix or      *)
(* compute; no step depends on them.                                       *)
(***************************************************************************)
EXTENDS Integers

CONSTANTS
    NEED,               \* Config::seed_bits
    WORD_CREDIT,        \* bits credited to a word of RDSEED
    HW_EXTRA_WORDS,     \* words of RDSEED beside a jitter seed
    EXTERNAL_CREDIT,    \* bits of the embedder's source, 0 if there is none
    OSR, OSR_MAX,       \* the configured and the highest oversampling rate
    CHUNK, BLOCK_LEN,   \* bytes per Fast and per True round
    RESEED_INTERVAL,
    EVENT_FOLD,         \* stirred events that trigger a fold
    MAX_NONCE,          \* u64::MAX
    Lens,               \* lengths that are asked for
    MaxEvents           \* bound: events pending

ASSUME RngAssumption ==
    /\ {NEED, WORD_CREDIT, CHUNK, BLOCK_LEN, RESEED_INTERVAL, EVENT_FOLD} \subseteq Nat \ {0}
    /\ {HW_EXTRA_WORDS, EXTERNAL_CREDIT, MAX_NONCE, MaxEvents} \subseteq Nat
    /\ OSR \in Nat /\ OSR_MAX \in Nat /\ OSR <= OSR_MAX
    /\ Lens \subseteq Nat

VARIABLES
    state,          \* PoolState
    jitter,         \* JitterState: "Untested", "Ready", or the class of its error
    osr,
    rdseed,         \* "usable", or "dropped": absent or failed
    drbg,           \* Xdrbg: "seeded" or "empty"
    key,            \* Stream: "none", "fresh", or "spent" once it made output
    next_nonce,
    since_reseed,
    events_pending,
    missed,         \* MISSED: an event came while the pool was busy
    require_jitter, \* Config::require_jitter
    pc, call,       \* the step and the arguments of the call that holds BUSY
    credited,       \* of the seed being gathered
    jittered,       \* whether that seed has the jitter source in it
    filled,         \* how much of the caller's buffer holds output
    result,         \* what the last call returned
    origin,         \* the last seed the XDRBG state goes back to (history)
    key_origin,     \* the same for the key (history)
    served,         \* bytes made since the last credited seed (history)
    nonces          \* nonces used (history)

seeding == <<jitter, osr, rdseed, credited>>
history == <<origin, key_origin, served, nonces>>
vars == <<state, drbg, key, next_nonce, since_reseed, events_pending, missed, require_jitter,
          pc, call, jittered, filled, result, seeding, history>>

Least(a, b) == IF a <= b THEN a ELSE b

Init ==
    /\ state = "Cold" /\ jitter = "Untested" /\ osr = OSR /\ rdseed = "dropped"
    /\ drbg = "empty" /\ key = "none" /\ next_nonce = 0 /\ since_reseed = 0
    /\ events_pending = 0 /\ missed = "no" /\ require_jitter \in {"yes", "no"}
    /\ pc = "idle" /\ call = [op |-> "start", mode |-> "Fast", len |-> 0]
    /\ credited = 0 /\ jittered = "no" /\ filled = 0 /\ result = "none"
    /\ origin = "none" /\ key_origin = "none" /\ served = 0 /\ nonces = {}

-----------------------------------------------------------------------------
(* Ends of a call *)

Ok ==
    /\ pc' = "idle" /\ result' = "ok"

WipeGenerator ==
    /\ drbg' = "empty" /\ key' = "none" /\ origin' = "none" /\ key_origin' = "none"

\* The errors record() treats as permanent.
Permanent(error) ==
    error \in {"SelfTest", "Permanent"} \/ (require_jitter = "yes" /\ error = "Timer")

\* Mutant: a pool that failed keeps its generator.
MutErrKeepsGenerator(error) ==
    /\ pc' = "idle" /\ result' = "error" /\ filled' = 0
    /\ state' = IF Permanent(error) THEN "Failed" ELSE state
    /\ UNCHANGED <<drbg, key, origin, key_origin>>

\* record, with the buffer wiped.
Err(error) ==
    /\ pc' = "idle" /\ result' = "error" /\ filled' = 0
    /\ IF Permanent(error)
       THEN state' = "Failed" /\ WipeGenerator
       ELSE UNCHANGED <<state, drbg, key, origin, key_origin>>

-----------------------------------------------------------------------------
(* Calls.  A call that finds the pool busy is refused and changes nothing. *)

\* fill, start and selftest, up to their first lasting step.
Call(op, mode, len) ==
    /\ pc = "idle"
    /\ call' = [op |-> op, mode |-> mode, len |-> len]
    /\ filled' = 0
    /\ CASE op = "selftest" -> pc' = "selftest" /\ result' = "none"
         [] op = "fill" /\ len = 0 -> Ok
         [] state = "Failed" -> pc' = "idle" /\ result' = "error"
         [] state = "Cold" -> pc' = "selftest" /\ result' = "none"
         [] op = "start" -> Ok
         [] OTHER -> pc' = "next" /\ result' = "none"
    /\ UNCHANGED <<state, drbg, key, next_nonce, since_reseed, events_pending, missed,
                   require_jitter, jittered, seeding, history>>

\* The known answers, and for start the detection of RDSEED.
Selftest(passed) ==
    /\ pc = "selftest"
    /\ CASE ~passed -> Err("SelfTest") /\ UNCHANGED rdseed
         [] passed /\ call.op = "selftest" ->
                Ok /\ UNCHANGED <<state, drbg, key, origin, key_origin, filled, rdseed>>
         [] OTHER ->
                /\ pc' = "start_jitter" /\ rdseed' \in {"usable", "dropped"}
                /\ UNCHANGED <<state, drbg, key, origin, key_origin, filled, result>>
    /\ UNCHANGED <<jitter, osr, credited, next_nonce, since_reseed, events_pending, missed,
                   require_jitter, call, jittered, served, nonces>>

\* The head of reseed: an empty seed, filled from the jitter source if it runs.
BeginSeed(jitter_state) ==
    /\ credited' = 0
    /\ jittered' = "no"
    /\ pc' = IF jitter_state = "Ready" THEN "collect" ELSE "sources"

\* start_jitter: at start, and again after each retune.
StartJitter(outcome) ==
    /\ pc = "start_jitter"
    /\ jitter' = outcome
    /\ BeginSeed(outcome)
    /\ UNCHANGED <<state, drbg, key, next_nonce, since_reseed, events_pending, missed,
                   require_jitter, call, filled, result, osr, rdseed, history>>

\* Mutant: an intermittent failure is tried again at the same rate.
MutRetuned == osr

Retuned == osr + 1

\* collect_jitter: an intermittent failure raises the oversampling rate and
\* validates the timer again, up to OSR_MAX.
CollectJitter(outcome) ==
    /\ pc = "collect"
    /\ CASE outcome = "Ok" ->
                /\ credited' = NEED /\ jittered' = "yes" /\ pc' = "sources"
                /\ UNCHANGED <<jitter, osr>>
         [] outcome = "Intermittent" /\ Retuned <= OSR_MAX ->
                /\ osr' = Retuned /\ pc' = "start_jitter"
                /\ UNCHANGED <<jitter, credited, jittered>>
         [] OTHER ->
                /\ jitter' = "Permanent" /\ pc' = "sources"
                /\ UNCHANGED <<osr, credited, jittered>>
    /\ UNCHANGED <<state, drbg, key, next_nonce, since_reseed, events_pending, missed,
                   require_jitter, call, filled, result, rdseed, history>>
JitterError == IF jitter \in {"Timer", "Intermittent", "Permanent"} THEN jitter ELSE "NoSource"

\* Words of RDSEED that are asked for: at half their width they must make the
\* whole seed when the jitter source made none of it.
Words == IF credited < NEED THEN (NEED + WORD_CREDIT - 1) \div WORD_CREDIT ELSE HW_EXTRA_WORDS

\* What the seed is credited with after n words and the embedder's source.
Credit(n, external) ==
    LET hw == IF credited < NEED THEN credited + n * WORD_CREDIT ELSE credited
    IN  IF external /\ hw < NEED THEN hw + EXTERNAL_CREDIT ELSE hw

\* Mutant: a seed is used whatever it is credited with.
MutEnough(bits) == TRUE

Enough(bits) == bits >= NEED

\* reseed, from the hardware words to the check of the credit.  RDSEED gives n
\* words and may fail for good (drops) at the next one.
Sources(n, drops, external) ==
    /\ pc = "sources"
    /\ n <= Words
    /\ n < Words \/ ~drops
    /\ rdseed = "dropped" => n = 0 /\ ~drops
    /\ IF require_jitter = "yes" /\ credited < NEED
       THEN /\ Err(JitterError) /\ credited' = 0
            /\ UNCHANGED <<rdseed, events_pending>>
       ELSE /\ rdseed' = IF drops THEN "dropped" ELSE rdseed
            /\ events_pending' = 0
            /\ IF Enough(Credit(n, external))
               THEN /\ credited' = Credit(n, external) /\ pc' = "condition"
                    /\ UNCHANGED <<state, drbg, key, origin, key_origin, filled, result>>
               ELSE Err(JitterError) /\ credited' = 0
    /\ UNCHANGED <<next_nonce, since_reseed, missed, require_jitter, call, jittered,
                   jitter, osr, served, nonces>>

\* Mixing in what is not credited takes nothing from an earlier seed.
Kept == IF origin = "none" THEN "uncredited" ELSE origin

\* The seed goes into the XDRBG.
Condition ==
    /\ pc = "condition"
    /\ drbg' = "seeded"
    /\ origin' = CASE credited < NEED -> Kept
                  [] jittered = "yes" -> "jitter"
                  [] OTHER -> "degraded"
    /\ pc' = "rekey"
    /\ UNCHANGED <<state, key, next_nonce, since_reseed, events_pending, missed, require_jitter,
                   call, jittered, filled, result, seeding, key_origin, served, nonces>>

\* The end of reseed: a new key, and for start a pool that is ready.
Rekey ==
    /\ pc = "rekey"
    /\ key' = "fresh" /\ key_origin' = origin
    /\ since_reseed' = 0 /\ served' = 0 /\ credited' = 0 /\ jittered' = "no"
    /\ state' = "Ready"
    /\ CASE call.op = "start" -> Ok
         [] state = "Cold" -> pc' = "next" /\ UNCHANGED result
         [] OTHER -> pc' = "generate" /\ UNCHANGED result
    /\ UNCHANGED <<drbg, next_nonce, events_pending, missed, require_jitter, call, filled,
                   jitter, osr, rdseed, origin, nonces>>

-----------------------------------------------------------------------------
(* The loop of fill *)

\* Mutant: the interval is passed before the pool is seeded again.
MutReseedDue ==
    \/ call.mode = "True"
    \/ drbg = "empty"
    \/ since_reseed > RESEED_INTERVAL

ReseedDue ==
    \/ call.mode = "True"
    \/ drbg = "empty"
    \/ since_reseed >= RESEED_INTERVAL

Left == call.len - filled

Round ==
    /\ pc = "next"
    /\ IF Left = 0 THEN Ok /\ UNCHANGED <<credited, jittered>>
       ELSE /\ UNCHANGED result
            /\ IF ReseedDue THEN BeginSeed(jitter)
               ELSE pc' = "generate" /\ UNCHANGED <<credited, jittered>>
    /\ UNCHANGED <<state, drbg, key, next_nonce, since_reseed, events_pending, missed,
                   require_jitter, call, filled, jitter, osr, rdseed, history>>

\* n bytes are in the caller's buffer.
Deliver(n) ==
    /\ filled' = filled + n /\ since_reseed' = since_reseed + n /\ served' = served + n
    /\ pc' = "next"

\* A True block, straight from the XDRBG.
GenerateTrue ==
    /\ pc = "generate" /\ call.mode = "True"
    /\ Deliver(Least(Left, BLOCK_LEN))
    /\ UNCHANGED <<state, drbg, key, next_nonce, events_pending, missed, require_jitter, call,
                   jittered, result, seeding, origin, key_origin, nonces>>

\* fold_events, before a Fast chunk.
FoldEvents ==
    /\ pc = "generate" /\ call.mode = "Fast" /\ events_pending >= EVENT_FOLD
    /\ events_pending' = 0
    /\ drbg' = "seeded" /\ origin' = Kept
    /\ key' = "fresh" /\ key_origin' = origin'
    /\ UNCHANGED <<state, next_nonce, since_reseed, missed, require_jitter, pc, call, jittered,
                   filled, result, seeding, served, nonces>>

NextNonce == next_nonce + 1

\* Stream::generate up to the keystream: refused without a key and when the
\* nonces have run out, else the key has served.
GenerateFast ==
    /\ pc = "generate" /\ call.mode = "Fast" /\ events_pending < EVENT_FOLD
    /\ IF key = "none" \/ NextNonce > MAX_NONCE
       THEN Err("Misuse") /\ UNCHANGED <<next_nonce, nonces>>
       ELSE /\ nonces' = nonces \cup {next_nonce} /\ next_nonce' = NextNonce
            /\ key' = "spent" /\ pc' = "erase"
            /\ UNCHANGED <<state, drbg, origin, key_origin, filled, result>>
    /\ UNCHANGED <<since_reseed, events_pending, missed, require_jitter, call, jittered,
                   seeding, served>>

\* The rest of it: the next key takes the place of the one that served.
Erase ==
    /\ pc = "erase"
    /\ key' = "fresh"
    /\ Deliver(Least(Left, CHUNK))
    /\ UNCHANGED <<state, drbg, next_nonce, events_pending, missed, require_jitter, call,
                   jittered, result, seeding, origin, key_origin, nonces>>

-----------------------------------------------------------------------------
(* What else reaches the pool *)

\* stir: the event, after the ones that found the pool busy.
Stir ==
    LET events == IF missed = "yes" THEN 2 ELSE 1
    IN  /\ pc = "idle"
        /\ events_pending + events <= MaxEvents
        /\ events_pending' = events_pending + events
        /\ missed' = "no"
        /\ UNCHANGED <<state, drbg, key, next_nonce, since_reseed, require_jitter, pc, call,
                       jittered, filled, result, seeding, history>>

\* stir, from within a call.
StirBusy ==
    /\ pc # "idle"
    /\ missed' = "yes"
    /\ UNCHANGED <<state, drbg, key, next_nonce, since_reseed, events_pending, require_jitter,
                   pc, call, jittered, filled, result, seeding, history>>

\* Mutant: the lock is released and the pool left as it is.
MutAbort ==
    /\ pc' = "idle" /\ result' = "aborted"
    /\ UNCHANGED <<state, drbg, key, events_pending, origin, key_origin,
                   next_nonce, since_reseed, missed, require_jitter, call, jittered, filled,
                   seeding, served, nonces>>

\* recover_after_abort: the plugin that made the call was stopped by a fault.
\* In an idle pool, the call is a stir or a status; the same wipe() is the
\* embedder's release step.
Abort ==
    /\ WipeGenerator /\ events_pending' = 0
    /\ state' = IF state = "Ready" THEN "Cold" ELSE state
    /\ pc' = "idle" /\ result' = "aborted"
    /\ UNCHANGED <<next_nonce, since_reseed, missed, require_jitter, call, jittered, filled,
                   seeding, served, nonces>>

-----------------------------------------------------------------------------
\* The steps of the call that holds the pool.
Step ==
    \/ \E passed \in BOOLEAN : Selftest(passed)
    \/ \E outcome \in {"Ready", "Timer", "Intermittent", "Permanent"} : StartJitter(outcome)
    \/ \E outcome \in {"Ok", "Intermittent", "Permanent"} : CollectJitter(outcome)
    \/ \E n \in 0 .. Words, drops, external \in BOOLEAN : Sources(n, drops, external)
    \/ Condition \/ Rekey
    \/ Round \/ GenerateTrue \/ FoldEvents \/ GenerateFast \/ Erase

Next ==
    \/ \E mode \in {"Fast", "True"}, len \in Lens : Call("fill", mode, len)
    \/ \E op \in {"start", "selftest"} : Call(op, "Fast", 0)
    \/ Step
    \/ Stir \/ StirBusy \/ Abort

Spec == Init /\ [][Next]_vars

\* The kernel runs one thread with interrupts masked: a call goes on.
FairSpec == Spec /\ WF_vars(Step)

-----------------------------------------------------------------------------
(* Properties *)

\* The values of the variables.
TypeOK ==
    /\ state \in {"Cold", "Ready", "Failed"}
    /\ jitter \in {"Untested", "Ready", "Timer", "Intermittent", "Permanent"}
    /\ osr \in OSR .. OSR_MAX
    /\ rdseed \in {"usable", "dropped"}
    /\ drbg \in {"empty", "seeded"}
    /\ key \in {"none", "fresh", "spent"}
    /\ next_nonce \in 0 .. MAX_NONCE
    /\ since_reseed \in Nat
    /\ events_pending \in Nat
    /\ missed \in {"yes", "no"}
    /\ require_jitter \in {"yes", "no"}
    /\ pc \in {"idle", "selftest", "start_jitter", "collect", "sources", "condition", "rekey",
               "next", "generate", "erase"}
    /\ call \in [op : {"fill", "start", "selftest"}, mode : {"Fast", "True"}, len : Lens \cup {0}]
    /\ credited \in Nat
    /\ jittered \in {"yes", "no"}
    /\ filled \in 0 .. call.len
    /\ result \in {"none", "ok", "error", "aborted"}
    /\ origin \in {"none", "uncredited", "degraded", "jitter"}
    /\ key_origin \in {"none", "uncredited", "degraded", "jitter"}
    /\ served \in Nat
    /\ nonces \subseteq 0 .. MAX_NONCE

\* Whatever sources fail and wherever an earlier call was stopped, output is
\* only made from a generator and a key that go back to a seed with the
\* credited bits it needs (reseed); where the jitter source is required, that
\* source was in the seed.
OutputCredited ==
    pc \in {"generate", "erase"} =>
        /\ drbg = "seeded"
        /\ {origin, key_origin} \subseteq
               IF require_jitter = "yes" THEN {"jitter"} ELSE {"jitter", "degraded"}

\* A seed serves one True block, and no more Fast output than the interval
\* allows plus the chunk that passes it (the loop of fill).
SeedFresh ==
    pc \in {"generate", "erase"} =>
        /\ served < RESEED_INTERVAL
        /\ call.mode = "True" => served = 0

\* No key makes output twice and no nonce is used twice, also after a call
\* was stopped between the output and the erasure of its key
\* (Stream::generate, recover_after_abort).
KeyServesOnce ==
    pc = "generate" => key # "spent" /\ next_nonce \notin nonces

\* A pool that fails gives up its generator and its key in the same step
\* (record), and no self-test, wipe or abort brings it back (start, wipe).
OutOfService ==
    [][/\ state' = "Failed" => drbg' = "empty" /\ key' = "none"
       /\ state = "Failed" => state' = "Failed"]_vars

\* A read that returns has the whole buffer filled or none of it (fill).
NoPartial ==
    pc = "idle" /\ call.op = "fill" =>
        /\ result = "ok" => filled = call.len
        /\ result = "error" => filled = 0

\* Every call returns, however often the jitter source fails (collect_jitter
\* raises the oversampling rate at most OSR_MAX times).
Completes ==
    pc # "idle" ~> pc = "idle"
=============================================================================
