------------------------------ MODULE Plugins ------------------------------
(***************************************************************************)
(* Loading and running a plugin: ncplu.rs with the ring-3 runtime of       *)
(* ring3.rs and the system call dispatcher of nccall.  A plugin of the     *)
(* kernel tier is called directly, one of the community tier runs at ring  *)
(* 3 and traps in; both are served within the capabilities they declared   *)
(* and within their own memory, and both may be abandoned at a fault.      *)
(* One core, interrupts masked: nothing runs beside the plugin.            *)
(***************************************************************************)
EXTENDS Integers, FiniteSets

CONSTANTS
    Caps,       \* the CAP_* groups of this instance
    MaxArena,   \* bound: lengths of an arena
    HEAP_PAGES

VARIABLES
    pc,             \* "idle", "card", "run", "service", "ended" or "stopped"
    prog,           \* the header of the plugin: [tier, caps, size]
    R3_ARENA_LEN, RUNNING_ARENA, GRANTED_CAPS, PLUGIN_CTX,
    CURRENT,        \* whether nccall serves Ring3
    user, readonly, \* regions ring 3 may reach; those it may not write
    HEAP_MAP,       \* pages of the heap handed out
    flags,          \* R3_STACK_SMASHED, R3_DENIED_CALL, R3_VIOLATION, R3_FAULT, as set
    STACK_SMASHED,
    LAST_FAULT,     \* "none", "code" or "service"
    BUSY,           \* the lock of NC_RNG
    served,         \* the call in progress: capability and buffer
    ended,          \* how the plugin ended
    told            \* what run reports

vars == <<pc, prog, R3_ARENA_LEN, RUNNING_ARENA, GRANTED_CAPS, PLUGIN_CTX, CURRENT, user,
          readonly, HEAP_MAP, flags, STACK_SMASHED, LAST_FAULT, BUSY, served, ended, told>>
globals == <<R3_ARENA_LEN, RUNNING_ARENA, GRANTED_CAPS, PLUGIN_CTX, CURRENT, user, readonly>>

NoCall == <<"none", "none">>

\* A buffer is told by its region and, in the arena, by where it ends.
Buffers == ({"arena"} \X (1 .. MaxArena))
           \cup ({"plugin_stack", "user_stack", "user_heap", "user_shared", "kernel"} \X {0})
Regions == {"arena", "user_stack", "user_heap", "user_shared"}
Headers == [tier : {"kernel", "ring3"}, caps : SUBSET Caps, size : 1 .. MaxArena]

InArena(b, len) == b[1] = "arena" /\ b[2] <= len

user_owns(b) ==
    /\ R3_ARENA_LEN # 0
    /\ InArena(b, R3_ARENA_LEN) \/ b[1] \in {"user_stack", "user_heap"}

active == R3_ARENA_LEN # 0

plugin_owns(b) ==
    IF active THEN user_owns(b)
    ELSE RUNNING_ARENA # 0 /\ (InArena(b, RUNNING_ARENA) \/ b[1] = "plugin_stack")

Init ==
    /\ pc = "idle"
    /\ prog = [tier |-> "kernel", caps |-> {}, size |-> 1]
    /\ R3_ARENA_LEN = 0 /\ RUNNING_ARENA = 0 /\ GRANTED_CAPS = {}
    /\ PLUGIN_CTX = FALSE /\ CURRENT = FALSE
    /\ user = {} /\ readonly = {} /\ HEAP_MAP = {} /\ flags = {}
    /\ STACK_SMASHED = FALSE /\ LAST_FAULT = "none" /\ BUSY = FALSE
    /\ served = NoCall /\ ended = "none" /\ told = {}

-----------------------------------------------------------------------------
(* ncplu::run up to the plugin's first instruction.                        *)

\* ring3::prepare: the arena, the stack and the heap become the plugin's.
prepare(len) ==
    /\ R3_ARENA_LEN' = len
    /\ HEAP_MAP' = {}
    /\ user' = user \cup {"arena", "user_stack", "user_heap"}
    /\ readonly' = readonly \ {"arena", "user_stack", "user_heap"}

\* A file that inspect passes; one that it refuses changes nothing.  place fails
\* on an import it cannot resolve.
Load(h) ==
    /\ pc = "idle"
    /\ prog' = h
    /\ STACK_SMASHED' = FALSE
    /\ IF h.tier = "ring3" THEN prepare(h.size)
                           ELSE UNCHANGED <<R3_ARENA_LEN, HEAP_MAP, user, readonly>>
    /\ pc' \in {"card", "idle"}
    /\ ended' = "none" /\ told' = {}
    /\ UNCHANGED <<RUNNING_ARENA, GRANTED_CAPS, PLUGIN_CTX, CURRENT, flags, LAST_FAULT, BUSY,
                   served>>

\* "No" at the launch card.
Cancel ==
    /\ pc = "card" /\ pc' = "idle"
    /\ UNCHANGED <<prog, globals, HEAP_MAP, flags, STACK_SMASHED, LAST_FAULT, BUSY, served,
                   ended, told>>

MutEnterRing3 ==
    /\ flags' = flags \ {"smashed", "violation", "fault"}
    /\ user' = user \cup {"user_shared"} /\ readonly' = readonly \cup {"user_shared"}
    /\ CURRENT' = TRUE
    /\ UNCHANGED <<RUNNING_ARENA, LAST_FAULT>>

\* ring3::run up to nc_ring3_enter: its flags reset, the stubs no longer writable.
EnterRing3 ==
    /\ flags' = {}
    /\ user' = user \cup {"user_shared"} /\ readonly' = readonly \cup {"user_shared"}
    /\ CURRENT' = TRUE
    /\ UNCHANGED <<RUNNING_ARENA, LAST_FAULT>>

EnterKernel ==
    /\ RUNNING_ARENA' = prog.size
    /\ LAST_FAULT' = "none"
    /\ UNCHANGED <<flags, user, readonly, CURRENT>>

Confirm ==
    /\ pc = "card" /\ pc' = "run"
    /\ GRANTED_CAPS' = prog.caps
    /\ PLUGIN_CTX' = TRUE
    /\ IF prog.tier = "ring3" THEN EnterRing3 ELSE EnterKernel
    /\ UNCHANGED <<prog, R3_ARENA_LEN, HEAP_MAP, STACK_SMASHED, BUSY, served, ended, told>>

-----------------------------------------------------------------------------
(* The services, called directly or through nccall's dispatcher.           *)

\* What a call asks for.  The screen, input, the clock and the counters need
\* PLUGIN_CTX or nothing; log, getrandom and clock_gettime take a buffer.
Calls == {<<c, "none">> : c \in Caps \ {"log"}}
         \cup ((Caps \cap {"log", "timer", "rng"}) \X Buffers)

\* A service checks the capability and the buffer itself.  A refusal (a value
\* of 0, ENOTCAPABLE, EFAULT) changes nothing.
Serve(c) ==
    /\ pc = "run" /\ pc' = "service"
    /\ c[1] \in GRANTED_CAPS
    /\ c[2] # "none" => plugin_owns(c[2])
    /\ served' = c
    /\ BUSY' = (c[1] = "rng")
    /\ UNCHANGED <<prog, globals, HEAP_MAP, flags, STACK_SMASHED, LAST_FAULT, ended, told>>

Answer ==
    /\ pc = "service" /\ pc' = "run"
    /\ served' = NoCall /\ BUSY' = FALSE
    /\ UNCHANGED <<prog, globals, HEAP_MAP, flags, STACK_SMASHED, LAST_FAULT, ended, told>>

\* heap_alloc: the first run of free pages that is long enough.
Mmap(n) ==
    LET Free(f) == f + n <= HEAP_PAGES /\ (f .. f + n - 1) \cap HEAP_MAP = {}
    IN  /\ pc = "run" /\ CURRENT
        /\ \E f \in 0 .. HEAP_PAGES - 1 :
               /\ Free(f) /\ \A g \in 0 .. f - 1 : ~Free(g)
               /\ HEAP_MAP' = HEAP_MAP \cup (f .. f + n - 1)
        /\ UNCHANGED <<pc, prog, globals, flags, STACK_SMASHED, LAST_FAULT, BUSY, served,
                       ended, told>>

\* heap_munmap: any range of the pool.
Munmap(f, n) ==
    /\ pc = "run" /\ CURRENT
    /\ f + n <= HEAP_PAGES
    /\ HEAP_MAP' = HEAP_MAP \ (f .. f + n - 1)
    /\ UNCHANGED <<pc, prog, globals, flags, STACK_SMASHED, LAST_FAULT, BUSY, served, ended,
                   told>>

-----------------------------------------------------------------------------
(* How a plugin ends.                                                      *)

\* Ring3::ended: the dispatcher ends the plugin rather than answer, on a call
\* from elsewhere than its stack or the stubs ("violation"), without the
\* capability ("denied"), from __stack_chk_fail ("smashed"), on an unknown
\* number, or on exit, which a return is too.
EndedRing3(why) ==
    /\ pc = "run" /\ CURRENT
    /\ why = "denied" => GRANTED_CAPS # Caps
    /\ flags' = flags \cup ({why} \cap {"violation", "denied", "smashed"})
    /\ pc' = "ended" /\ ended' = why
    /\ UNCHANGED <<prog, globals, HEAP_MAP, STACK_SMASHED, LAST_FAULT, BUSY, served, told>>

\* ring3::contain: any exception taken at ring 3.
ContainRing3 ==
    /\ pc = "run" /\ active /\ prog.tier = "ring3"
    /\ flags' = flags \cup {"fault"}
    /\ pc' = "ended" /\ ended' = "fault"
    /\ UNCHANGED <<prog, globals, HEAP_MAP, STACK_SMASHED, LAST_FAULT, BUSY, served, told>>

\* A plugin of the kernel tier returns, or its canary is found changed.
ReturnKernel ==
    /\ pc = "run" /\ prog.tier = "kernel"
    /\ pc' = "ended" /\ ended' = "exit"
    /\ UNCHANGED <<prog, globals, HEAP_MAP, flags, STACK_SMASHED, LAST_FAULT, BUSY, served,
                   told>>

nc_stack_chk_fail ==
    /\ pc = "run" /\ prog.tier = "kernel" /\ RUNNING_ARENA # 0
    /\ STACK_SMASHED' = TRUE
    /\ pc' = "ended" /\ ended' = "smashed"
    /\ UNCHANGED <<prog, globals, HEAP_MAP, flags, LAST_FAULT, BUSY, served, told>>

\* contain_fault, kernel tier: in the plugin's code, or on a guard page of its
\* stack, even inside a service.
ContainKernel ==
    /\ pc \in {"run", "service"} /\ prog.tier = "kernel" /\ RUNNING_ARENA # 0
    /\ LAST_FAULT' = IF pc = "run" THEN "code" ELSE "service"
    /\ pc' = "ended" /\ ended' = "fault"
    /\ served' = NoCall
    /\ UNCHANGED <<prog, globals, HEAP_MAP, flags, STACK_SMASHED, BUSY, told>>

\* Any other exception goes to the crash path: in kernel code, or an NMI,
\* double fault or machine check in the kernel tier.
Crash ==
    /\ pc = "service" \/ (pc = "run" /\ prog.tier = "kernel")
    /\ pc' = "stopped"
    /\ UNCHANGED <<prog, globals, HEAP_MAP, flags, STACK_SMASHED, LAST_FAULT, BUSY, served,
                   ended, told>>

\* The rest of ring3::run and of ncplu::run.
FinishRing3 ==
    /\ pc = "ended" /\ prog.tier = "ring3"
    /\ R3_ARENA_LEN' = 0
    /\ user' = {} /\ readonly' = {} /\ HEAP_MAP' = {}
    /\ CURRENT' = FALSE
    /\ told' = IF "fault" \in flags THEN {"fault"} ELSE flags
    /\ BUSY' = (BUSY /\ "fault" \notin flags)
    /\ UNCHANGED <<RUNNING_ARENA, STACK_SMASHED, LAST_FAULT>>

MutFinishKernel ==
    /\ pc = "ended" /\ prog.tier = "kernel"
    /\ RUNNING_ARENA' = 0
    /\ told' = (IF STACK_SMASHED THEN {"smashed"} ELSE {})
               \cup (IF LAST_FAULT # "none" THEN {"fault"} ELSE {})
    /\ STACK_SMASHED' = FALSE /\ LAST_FAULT' = "none"
    /\ BUSY' = (BUSY /\ LAST_FAULT # "code")
    /\ UNCHANGED <<R3_ARENA_LEN, user, readonly, HEAP_MAP, CURRENT>>

FinishKernel ==
    /\ pc = "ended" /\ prog.tier = "kernel"
    /\ RUNNING_ARENA' = 0
    /\ told' = (IF STACK_SMASHED THEN {"smashed"} ELSE {})
               \cup (IF LAST_FAULT # "none" THEN {"fault"} ELSE {})
    /\ STACK_SMASHED' = FALSE /\ LAST_FAULT' = "none"
    /\ BUSY' = (BUSY /\ LAST_FAULT # "service")
    /\ UNCHANGED <<R3_ARENA_LEN, user, readonly, HEAP_MAP, CURRENT>>

Finish ==
    /\ FinishRing3 \/ FinishKernel
    /\ PLUGIN_CTX' = FALSE /\ GRANTED_CAPS' = {}
    /\ pc' = "idle"
    /\ UNCHANGED <<prog, flags, served, ended>>

Next ==
    \/ \E h \in Headers : Load(h)
    \/ Cancel \/ Confirm
    \/ \E c \in Calls : Serve(c)
    \/ Answer
    \/ \E n \in 1 .. HEAP_PAGES : Mmap(n)
    \/ \E f \in 0 .. HEAP_PAGES - 1, n \in 1 .. HEAP_PAGES : Munmap(f, n)
    \/ \E why \in {"exit", "unknown", "smashed", "denied", "violation"} : EndedRing3(why)
    \/ ContainRing3 \/ ReturnKernel \/ nc_stack_chk_fail \/ ContainKernel \/ Crash
    \/ Finish

Spec == Init /\ [][Next]_vars

-----------------------------------------------------------------------------
(* Properties.                                                             *)

TypeOK ==
    /\ pc \in {"idle", "card", "run", "service", "ended", "stopped"}
    /\ prog \in Headers
    /\ {R3_ARENA_LEN, RUNNING_ARENA} \subseteq 0 .. MaxArena
    /\ GRANTED_CAPS \subseteq Caps
    /\ user \subseteq Regions /\ readonly \subseteq user
    /\ HEAP_MAP \subseteq 0 .. HEAP_PAGES - 1

\* The memory a plugin has: its arena, its stack and, at ring 3, its heap.
Own ==
    {b \in Buffers :
        \/ InArena(b, prog.size)
        \/ b[1] \in IF prog.tier = "ring3" THEN {"user_stack", "user_heap"} ELSE {"plugin_stack"}}

\* The kernel serves a plugin within the capabilities in its header and, at
\* ring 3, within its own memory; and however a plugin ends, refused,
\* cancelled, exited, ended at a call or abandoned at a fault inside a service,
\* nothing of it is left for the next: no grant, no context, no caller, no
\* running arena, no lock of the generator (ncplu.rs run, ring3.rs run,
\* rng.rs recover_after_abort).
WithinGrants ==
    /\ pc = "service" =>
        /\ served[1] \in prog.caps
        /\ (prog.tier = "ring3" /\ served[2] # "none") => served[2] \in Own
    /\ pc \in {"idle", "card"} =>
        /\ GRANTED_CAPS = {} /\ ~PLUGIN_CTX /\ ~CURRENT /\ RUNNING_ARENA = 0 /\ ~BUSY

\* run says of a plugin what ended it, never what ended an earlier one, though
\* the flags it reads outlive a run (ring3.rs ended, contain and run; ncplu.rs
\* contain_fault, nc_stack_chk_fail and run).
ReasonTrue ==
    pc = "idle" => told = {ended} \cap {"violation", "denied", "smashed", "fault"}

\* "Whether [ptr, ptr + len) lies wholly inside memory the running plugin owns:
\* its loaded arena or its stack" (ncplu.rs plugin_owns).
OwnMemory == pc = "run" => \A b \in Buffers : plugin_owns(b) <=> b \in Own
=============================================================================
