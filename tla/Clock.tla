------------------------------- MODULE Clock --------------------------------
(***************************************************************************)
(* The clocks: 64-bit counters that the 32-bit kernel reads and sets one   *)
(* word at a time while they run on.                                       *)
(*                                                                         *)
(* gettime (rtc.c, syscall_time.c) reads the real time clock and divides   *)
(* it bit by bit into seconds and nanoseconds, which date puts together    *)
(* again.  The timer trap (timer.c) reads the time and sets the next       *)
(* interrupt.  Both clocks are the one counter now; a word has WordBits    *)
(* bits.  The kernel runs with interrupts off: a trap is taken only while  *)
(* a program runs.                                                         *)
(***************************************************************************)
EXTENDS Integers

CONSTANTS WordBits,
          NSEC,             \* counts of the clock in a second, less than a word
          TIMER_INTERVAL,
          Pause             \* counts that may pass at a time: a bound of the model

\* 1 shifted left by k bits, for the bits of two words.
Bit[k \in 0 .. 2 * WordBits] == IF k = 0 THEN 1 ELSE 2 * Bit[k - 1]

Word == Bit[WordBits]

ASSUME ClockSizes ==
    /\ {WordBits, NSEC, TIMER_INTERVAL, Pause} \subseteq Nat \ {0}
    /\ NSEC < Word /\ TIMER_INTERVAL < Word * Word

Limit == Word * Word - TIMER_INTERVAL - 1  \* the counter does not wrap around
Low(n) == n % Word
High(n) == n \div Word
Double(hi, lo) == hi * Word + lo

VARIABLES
    now,
    clock_pc,                    \* user, or the next instruction of the kernel
    hi1, lo, hi2,          \* registers
    since,                 \* history: now, when the call or the trap began
    time_spec,             \* what gettime returned last
    called, returned,      \* history: when that gettime began and ended
    stimecmp, stimecmph,
    armed                  \* history: when the timer was set last

answer == <<time_spec, called, returned>>
timer == <<stimecmp, stimecmph, armed>>
clockVars == <<now, clock_pc, hi1, lo, hi2, since, answer, timer>>

ClockInit ==
    /\ now = 0
    /\ clock_pc = "user"
    /\ hi1 = 0 /\ lo = 0 /\ hi2 = 0
    /\ since = 0
    /\ time_spec = [sec_lo |-> 0, sec_hi |-> 0, nsec |-> 0] /\ called = 0 /\ returned = 0
    /\ stimecmp = Low(TIMER_INTERVAL) /\ stimecmph = High(TIMER_INTERVAL)
    /\ armed = 0

Runs ==
    /\ now' \in now + 1 .. now + Pause
    /\ now' <= Limit
    /\ UNCHANGED <<clock_pc, hi1, lo, hi2, since, answer, timer>>

-----------------------------------------------------------------------------
(* gettime.                                                                *)

gettime ==
    /\ clock_pc = "user"
    /\ clock_pc' = "rtc_hi1"
    /\ since' = now
    /\ UNCHANGED <<now, hi1, lo, hi2, answer, timer>>

rtc_hi1 ==
    /\ clock_pc = "rtc_hi1"
    /\ hi1' = High(now)
    /\ clock_pc' = "rtc_lo"
    /\ UNCHANGED <<now, lo, hi2, since, answer, timer>>

rtc_lo ==
    /\ clock_pc = "rtc_lo"
    /\ lo' = Low(now)
    /\ clock_pc' = "rtc_hi2"
    /\ UNCHANGED <<now, hi1, hi2, since, answer, timer>>

rtc_hi2_Once ==
    /\ clock_pc = "rtc_hi2"
    /\ hi2' = High(now)
    /\ clock_pc' = "divide"
    /\ UNCHANGED <<now, hi1, lo, since, answer, timer>>

\* Once more when the high word has changed.
rtc_hi2 ==
    /\ clock_pc = "rtc_hi2"
    /\ hi2' = High(now)
    /\ clock_pc' = IF hi1 = hi2' THEN "divide" ELSE "rtc_hi1"
    /\ UNCHANGED <<now, hi1, lo, since, answer, timer>>

\* One round: bit i of n goes into the remainder, and d out of it if it can.
Round(acc, n, d, i) ==
    LET rem == 2 * acc.rem + ((n \div Bit[i]) % 2)
    IN IF rem >= d THEN [q |-> acc.q + Bit[i], rem |-> rem - d]
                   ELSE [q |-> acc.q, rem |-> rem]

\* From the highest bit down: rounds[k] is what the first k of them leave.
udiv64_32_full(n, d) ==
    LET rounds[k \in 0 .. 2 * WordBits] ==
            IF k = 0 THEN [q |-> 0, rem |-> 0]
                     ELSE Round(rounds[k - 1], n, d, 2 * WordBits - k)
    IN rounds[2 * WordBits]

write_user_time_info ==
    LET d == udiv64_32_full(Double(hi1, lo), NSEC) IN
    /\ clock_pc = "divide"
    /\ time_spec' = [sec_lo |-> Low(d.q), sec_hi |-> High(d.q), nsec |-> d.rem]
    /\ called' = since /\ returned' = now
    /\ clock_pc' = "user" /\ since' = 0
    /\ hi1' = 0 /\ lo' = 0 /\ hi2' = 0
    /\ UNCHANGED <<now, timer>>

-----------------------------------------------------------------------------
(* The timer trap.                                                         *)

trap ==
    /\ clock_pc = "user"
    /\ Double(stimecmph, stimecmp) <= now
    /\ clock_pc' = "rdtimeh"
    /\ since' = now
    /\ UNCHANGED <<now, hi1, lo, hi2, answer, timer>>

\* The high word first, and only once: the low word may start over in between.
rdtimeh ==
    /\ clock_pc = "rdtimeh"
    /\ hi1' = High(now)
    /\ clock_pc' = "rdtime"
    /\ UNCHANGED <<now, lo, hi2, since, answer, timer>>

rdtime ==
    /\ clock_pc = "rdtime"
    /\ lo' = Low(now)
    /\ clock_pc' = "wrtimecmp"
    /\ UNCHANGED <<now, hi1, hi2, since, answer, timer>>

Next_Interrupt == Double(hi1, lo) + TIMER_INTERVAL

wrtimecmp ==
    /\ clock_pc = "wrtimecmp"
    /\ stimecmp' = Low(Next_Interrupt)
    /\ clock_pc' = "wrtimecmph"
    /\ UNCHANGED <<now, hi1, lo, hi2, since, answer, stimecmph, armed>>

wrtimecmph ==
    /\ clock_pc = "wrtimecmph"
    /\ stimecmph' = High(Next_Interrupt)
    /\ armed' = now
    /\ clock_pc' = "user" /\ since' = 0
    /\ hi1' = 0 /\ lo' = 0 /\ hi2' = 0
    /\ UNCHANGED <<now, answer, stimecmp>>

ClockNext ==
    \/ Runs
    \/ gettime \/ rtc_hi1 \/ rtc_lo \/ rtc_hi2 \/ write_user_time_info
    \/ trap \/ rdtimeh \/ rdtime \/ wrtimecmp \/ wrtimecmph

ClockSpec == ClockInit /\ [][ClockNext]_clockVars

-----------------------------------------------------------------------------
\* The registers hold words, and the division leaves less than a second.
ClockTypeOK ==
    /\ now \in 0 .. Limit
    /\ {hi1, lo, hi2, stimecmp, stimecmph} \subseteq 0 .. Word - 1
    /\ time_spec.nsec \in 0 .. NSEC - 1
    /\ {time_spec.sec_lo, time_spec.sec_hi} \subseteq 0 .. Word - 1

\* The time of a gettime is one the clock showed between the call and the
\* return, though its two words are read apart and its seconds split in two
\* words again (rtc_now_ns, syscall_handle_gettime, date).
TimeIsRead ==
    Double(time_spec.sec_hi, time_spec.sec_lo) * NSEC + time_spec.nsec \in called .. returned

\* A torn read of the time or the two writes of the compare register never
\* put the next timer interrupt further away than one interval from when it
\* was set: preemption does not stop (timer_set_next).
TimerArmed ==
    clock_pc = "user" => Double(stimecmph, stimecmp) <= armed + TIMER_INTERVAL

\* Together: no torn pair of words is believed (rtc_now_ns, timer_set_next).
ClocksRight == ClockTypeOK /\ TimeIsRead /\ TimerArmed
=============================================================================
