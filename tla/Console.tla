------------------------------- MODULE Console ------------------------------
(***************************************************************************)
(* Console input (trap/syscall_console.c): the ring buffer between the     *)
(* firmware's console and the processes that read descriptor 0.            *)
(*                                                                         *)
(* The timer trap and getchar itself move characters into the ring, with   *)
(* interrupts off; getchar takes one out or puts the caller to sleep.      *)
(* Characters are numbered as they are typed.  The scheduling in between   *)
(* and the death of a reader are in module Process, which has the C names  *)
(* of what is called here ring_count (input_count), poll_input             *)
(* (poll_console_input) and wakeup_readers (wakeup_input_waiters).         *)
(***************************************************************************)
EXTENDS Integers, Sequences

CONSTANTS Procs, Size,            \* readers; bytes of input_buf
          TypedMax                \* characters typed: a bound of the model

ASSUME ConsoleSizes == Size \in Nat \ {0} /\ TypedMax \in Nat

VARIABLES
    typed, uart,                  \* how many were typed; those not yet polled
    input_buf, input_head, input_tail, ring_count,
    reader,                       \* of a process: user, waiting, or ready to try again
    got                           \* history: what was read, in the order of reading

consoleVars == <<typed, uart, input_buf, input_head, input_tail, ring_count, reader, got>>

ConsoleInit ==
    /\ typed = 0 /\ uart = <<>>
    /\ input_buf = [i \in 0 .. Size - 1 |-> 0]
    /\ input_head = 0 /\ input_tail = 0 /\ ring_count = 0
    /\ reader = [p \in Procs |-> "user"]
    /\ got = <<>>

Type ==
    /\ typed < TypedMax
    /\ typed' = typed + 1
    /\ uart' = Append(uart, typed + 1)
    /\ UNCHANGED <<input_buf, input_head, input_tail, ring_count, reader, got>>

-----------------------------------------------------------------------------
Ring == [buf |-> input_buf, head |-> input_head, tail |-> input_tail, count |-> ring_count,
         uart |-> uart]

Least(a, b) == IF a < b THEN a ELSE b

\* As many as there are and fit: the others stay with the firmware.
Moves(r) == Least(Len(r.uart), Size - r.count)

poll_input_Drops(r) ==
    LET n == Moves(r) IN
    [r EXCEPT !.buf = [i \in 0 .. Size - 1 |->
                  LET k == (i - r.tail + Size) % Size IN IF k < n THEN r.uart[k + 1] ELSE r.buf[i]],
              !.tail = (r.tail + n) % Size, !.count = r.count + n, !.uart = <<>>]

poll_input(r) ==
    LET n == Moves(r) IN
    [buf |-> [i \in 0 .. Size - 1 |->
                 LET k == (i - r.tail + Size) % Size IN IF k < n THEN r.uart[k + 1] ELSE r.buf[i]],
     head |-> r.head,
     tail |-> (r.tail + n) % Size,
     count |-> r.count + n,
     uart |-> SubSeq(r.uart, n + 1, Len(r.uart))]

input_pop(r) == [r EXCEPT !.head = (r.head + 1) % Size, !.count = r.count - 1]

\* All of them, whenever a poll finds the ring not empty.
wakeup_readers(st, r) ==
    [p \in Procs |-> IF r.count > 0 /\ st[p] = "waiting" THEN "ready" ELSE st[p]]

Assign(r) ==
    /\ input_buf' = r.buf /\ input_head' = r.head /\ input_tail' = r.tail
    /\ ring_count' = r.count /\ uart' = r.uart

Poll_Busy ==
    LET r == IF \E p \in Procs : reader[p] # "waiting" THEN poll_input(Ring) ELSE Ring IN
    /\ Assign(r)
    /\ reader' = wakeup_readers(reader, r)
    /\ UNCHANGED <<typed, got>>

\* The timer trap.
Poll ==
    LET r == poll_input(Ring) IN
    /\ Assign(r)
    /\ reader' = wakeup_readers(reader, r)
    /\ UNCHANGED <<typed, got>>

\* A character from the ring, or from the firmware when the ring is empty.
syscall_handle_getchar(p) ==
    LET polled == ring_count = 0
        r == IF polled THEN poll_input(Ring) ELSE Ring
        st == IF polled THEN wakeup_readers(reader, r) ELSE reader
    IN
    /\ reader[p] # "waiting"
    /\ IF r.count > 0
         THEN /\ Assign(input_pop(r))
              /\ got' = Append(got, r.buf[r.head])
              /\ reader' = [st EXCEPT ![p] = "user"]
         ELSE /\ Assign(r)
              /\ reader' = [st EXCEPT ![p] = "waiting"]
              /\ UNCHANGED got
    /\ UNCHANGED typed

ConsoleNext == Type \/ Poll \/ \E p \in Procs : syscall_handle_getchar(p)

ConsoleSpec == ConsoleInit /\ [][ConsoleNext]_consoleVars

-----------------------------------------------------------------------------
\* The count is the distance from head to tail.
ConsoleTypeOK ==
    /\ {input_head, input_tail} \subseteq 0 .. Size - 1
    /\ ring_count \in 0 .. Size
    /\ input_tail = (input_head + ring_count) % Size

\* Every character typed is read once and in order, whoever reads it, also
\* when more is typed than the ring holds (poll_console_input, input_pop).
InOrder ==
    got \o [i \in 1 .. ring_count |-> input_buf[(input_head + i - 1) % Size]] \o uart
        = [i \in 1 .. typed |-> i]

\* No process sleeps while there is a character in the ring: whichever step
\* put it there has woken all that wait (wakeup_input_waiters).
NobodySleeps == ring_count > 0 => \A p \in Procs : reader[p] # "waiting"

\* The ring is a FIFO of what is typed, and nobody sleeps while it holds a
\* character (poll_console_input, input_pop, wakeup_input_waiters).
ConsoleSound == ConsoleTypeOK /\ InOrder /\ NobodySleeps

\* A process that waits for input is woken by what is typed, with no other
\* process left to poll for it (syscall_handle_getchar, handle_trap).
WokenByInput == \A p \in Procs : (reader[p] = "waiting" /\ uart # <<>>) ~> reader[p] # "waiting"
=============================================================================
