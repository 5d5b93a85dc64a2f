---------------------------- MODULE PowerConfirm ----------------------------
(***************************************************************************)
(* The code that stands between a key and a restart or power-off:          *)
(* core/power_confirm.rs, and the four screens that use it.                *)
(*                                                                         *)
(* The classic interface and the stop screen carry out what the policy     *)
(* confirms.  The desktop (power_action) and the shell (Job::Power) keep   *)
(* the action they asked for themselves and carry that out; they drop it   *)
(* when a frame or a tick finds the code expired.                          *)
(*                                                                         *)
(* Each screen makes a policy of its own when it starts: a shell with each *)
(* terminal opened and with the command line, the desktop and the classic  *)
(* interface with each session, the stop screen once.  A behaviour follows *)
(* one screen at a time; the next one starts with no miss and no lockout.  *)
(*                                                                         *)
(* The random pool is left out: the code drawn is any code.                *)
(***************************************************************************)
EXTENDS Naturals, Sequences

CONSTANTS
    Digits,         \* what a key may be: digits
    CODE_DIGITS, CONFIRM_WINDOW, LOCKOUT_BASE, LOCKOUT_MAX,
    MAX_SHIFT,      \* the doublings after which the shift stays (16)
    MaxTime         \* bound: the clock

\* What the constants are.
PowerConstants ==
    /\ {CODE_DIGITS, CONFIRM_WINDOW, LOCKOUT_BASE, LOCKOUT_MAX} \subseteq Nat \ {0}
    /\ MAX_SHIFT \in Nat /\ MaxTime \in Nat

VARIABLES
    screen,         \* "classic", "desktop", "shell" or "panic"
    now,            \* the monotonic clock
    pending,        \* NoPrompt or [action, code, typed, since]
    misses, locked_until,
    asked,          \* power_action, Job::Power: an action or None
    shown,          \* history: the prompt last put up, [action, code, since]
    keys,           \* history: the keys pressed since
    streak,         \* history: wrong codes on this screen since the last right one
    due,            \* history: when the next one may be at the earliest
    event           \* history: what the last step carried out, or missed

policy == <<pending, misses, locked_until>>
guesses == <<streak, due>>
vars == <<screen, now, pending, misses, locked_until, asked, shown, keys, streak, due,
          event>>

Actions == {"restart", "shutdown"}
Codes == [1..CODE_DIGITS -> Digits]
None == "none"
NoPrompt == [action |-> None]
Quiet == [kind |-> None]
Other == "other"    \* a key that is no digit, or a press elsewhere
Keeps == screen \in {"desktop", "shell"}

-----------------------------------------------------------------------------
(* The policy.                                                             *)

\* Mutant: an expired code still counts.
MutLive == pending # NoPrompt

Live == pending # NoPrompt /\ now - pending.since < CONFIRM_WINDOW

Least(a, b) == IF a < b THEN a ELSE b

Lockout(m) == Least(LOCKOUT_BASE * 2 ^ Least(m, MAX_SHIFT), LOCKOUT_MAX)

\* Mutant: a request during a lockout is shown a code.
MutRequest(a) ==
    /\ \E c \in Codes :
            /\ pending' = [action |-> a, code |-> c, typed |-> 0, since |-> now]
            /\ shown' = [action |-> a, code |-> c, since |-> now]
    /\ keys' = <<>>
    /\ asked' = IF Keeps THEN a ELSE None

\* request: refused during a lockout, which also drops what is pending.
Request(a) ==
    \/ /\ now < locked_until
       /\ pending' = NoPrompt
       /\ UNCHANGED <<asked, shown, keys>>
    \/ /\ now >= locked_until
       /\ \E c \in Codes :
            /\ pending' = [action |-> a, code |-> c, typed |-> 0, since |-> now]
            /\ shown' = [action |-> a, code |-> c, since |-> now]
       /\ keys' = <<>>
       /\ asked' = IF Keeps THEN a ELSE None

\* digit, on a code that is live; what follows is the screen's.
Wrong(d) ==
    /\ pending.code[pending.typed + 1] # d
    /\ pending' = NoPrompt
    /\ misses' = misses + 1
    /\ locked_until' = now + Lockout(misses)
    /\ asked' = None
    /\ streak' = streak + 1
    /\ due' = (IF streak = 0 THEN now ELSE due) + Lockout(streak)
    /\ event' = [kind |-> "missed", at |-> now, due |-> due]

Right(d) ==
    /\ pending.code[pending.typed + 1] = d
    /\ pending.typed + 1 < CODE_DIGITS
    /\ pending' = [pending EXCEPT !.typed = @ + 1]
    /\ event' = Quiet
    /\ UNCHANGED <<misses, locked_until, asked, guesses>>

Confirmed(d) ==
    /\ pending.code[pending.typed + 1] = d
    /\ pending.typed + 1 = CODE_DIGITS
    /\ pending' = NoPrompt /\ asked' = None /\ misses' = 0
    /\ event' = [kind |-> "carried", action |-> IF Keeps THEN asked ELSE pending.action,
                 prompt |-> shown, keys |-> Append(keys, d), at |-> now]
    /\ streak' = 0
    /\ UNCHANGED <<locked_until, due>>

Cancel ==
    /\ pending' = NoPrompt /\ asked' = None
    /\ event' = Quiet
    /\ UNCHANGED <<misses, locked_until, guesses>>

-----------------------------------------------------------------------------
(* The screens.                                                            *)

\* A command or a button; on the classic interface a button replaces the
\* request that is pending.  The desktop and the shell have no way to it while
\* a prompt is up, and the stop screen's keys all belong to the prompt.
Ask(a) ==
    /\ CASE Keeps -> asked = None
         [] screen = "panic" -> ~Live
         [] OTHER -> TRUE
    /\ Request(a)
    /\ event' = Quiet
    /\ UNCHANGED <<screen, now, misses, locked_until, guesses>>

\* A digit goes to the code on the screen; without one it is not the policy's.
\* The desktop and the shell go by their own note, and drop the prompt when
\* the code has expired under it.
Digit(d) ==
    /\ keys' = Append(keys, d) /\ UNCHANGED <<screen, now, shown>>
    /\ \/ /\ Live
          /\ Keeps => asked # None
          /\ Wrong(d) \/ Right(d) \/ Confirmed(d)
       \/ /\ ~Live /\ asked # None
          /\ Cancel

\* Any other key, or a press elsewhere, walks away from the prompt.
WalkAway ==
    /\ Live \/ asked # None
    /\ keys' = Append(keys, Other)
    /\ Cancel
    /\ UNCHANGED <<screen, now, shown>>

\* The desktop's frame and the shell's tick: the prompt goes with its code.
\* The shell only leaves the job.
Frame ==
    /\ asked # None /\ ~Live
    /\ asked' = None
    /\ pending' = IF screen = "desktop" THEN NoPrompt ELSE pending
    /\ event' = Quiet
    /\ UNCHANGED <<screen, now, misses, locked_until, shown, keys, guesses>>

Tick ==
    /\ now < MaxTime
    /\ now' = now + 1
    /\ event' = Quiet
    /\ UNCHANGED <<screen, policy, asked, shown, keys, guesses>>

\* Another screen takes over, with a new policy: the machine stops; a terminal
\* is closed, whatever its shell shows, and another one opened; or the session
\* goes on as the desktop, the command line or the classic interface.
Renew(s) ==
    /\ \/ s = "panic" /\ screen # "panic"
       \/ s = "shell" /\ screen = "shell"
       \/ s \in {"classic", "desktop", "shell"} \ {screen} /\ Keeps /\ asked = None
    /\ screen' = s
    /\ pending' = NoPrompt /\ misses' = 0 /\ locked_until' = 0 /\ asked' = None
    /\ shown' = NoPrompt /\ keys' = <<>>
    /\ streak' = 0 /\ due' = 0 /\ event' = Quiet
    /\ UNCHANGED now

-----------------------------------------------------------------------------
Screens == {"classic", "desktop", "shell", "panic"}

Init ==
    /\ screen \in Screens
    /\ now = 0
    /\ pending = NoPrompt /\ misses = 0 /\ locked_until = 0 /\ asked = None
    /\ shown = NoPrompt /\ keys = <<>>
    /\ streak = 0 /\ due = 0 /\ event = Quiet

Next ==
    \/ \E a \in Actions : Ask(a)
    \/ \E d \in Digits : Digit(d)
    \/ WalkAway \/ Frame \/ Tick
    \/ \E s \in Screens : Renew(s)

Spec == Init /\ [][Next]_vars

-----------------------------------------------------------------------------
(* Properties.                                                             *)

\* What is carried out is what the prompt on the screen asked for, and the
\* keys pressed since that prompt came up are its code and nothing else, the
\* last one before it expired: whichever copy of the action the screen uses.
OnlyByCode ==
    event.kind = "carried" =>
        /\ event.prompt # NoPrompt
        /\ event.action = event.prompt.action
        /\ event.keys = event.prompt.code
        /\ event.at - event.prompt.since < CONFIRM_WINDOW

\* A run of wrong codes on one screen takes at least the lockouts of all of them
\* but the last, doubling up to the ceiling, however requests, cancels and
\* expiries come between; and only a right code shortens it, as long as the
\* screen is not replaced.
GuessesSlow ==
    /\ event.kind = "missed" => event.due <= event.at
    /\ misses = streak
=============================================================================
