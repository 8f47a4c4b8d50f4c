---------------------------- MODULE DeviceProofs ----------------------------
(***************************************************************************)
(* Proofs about console input, for every ring and any readers, about the   *)
(* clocks, for every width of a word, and about the date, for every day.   *)
(*                                                                         *)
(* The console's invariant says of every place a character can be in,      *)
(* read, in the ring or with the firmware, which character is there.  It   *)
(* is stated for a ring r so that what polling and reading do to a ring is *)
(* proved once, outside of the steps.  The clocks' says of each register   *)
(* which moment its word is of, and the calendar's which day its date is.  *)
(***************************************************************************)
EXTENDS Console, Clock, Calendar, SequenceTheorems, WellFoundedInduction, TLAPS

-----------------------------------------------------------------------------
(* The inductive invariant.                                                *)

RingType == [buf : [0 .. Size - 1 -> Nat], head : 0 .. Size - 1, tail : 0 .. Size - 1,
             count : 0 .. Size, uart : Seq(Nat)]

\* Of the ring and the firmware when the first n characters have been read.
Holds(r, n) ==
    /\ r \in RingType
    /\ r.tail = (r.head + r.count) % Size
    /\ \A k \in 0 .. r.count - 1 : r.buf[(r.head + k) % Size] = n + k + 1
    /\ \A j \in 1 .. Len(r.uart) : r.uart[j] = n + r.count + j

InSequence ==
    /\ got \in Seq(Nat)
    /\ \A i \in 1 .. Len(got) : got[i] = i
    /\ Holds(Ring, Len(got))
    /\ typed = Len(got) + ring_count + Len(uart)

ConsoleInv ==
    /\ reader \in [Procs -> {"user", "waiting", "ready"}]
    /\ InSequence
    /\ NobodySleeps

-----------------------------------------------------------------------------
(* Indices of a ring.                                                      *)

LEMMA ModRange == ASSUME NEW S \in Nat \ {0}, NEW x \in Int PROVE x % S \in 0 .. S - 1
OBVIOUS

LEMMA ModOnce == ASSUME NEW S \in Nat \ {0}, NEW x \in 0 .. S - 1 PROVE x % S = x
OBVIOUS

LEMMA ModTwice == ASSUME NEW S \in Nat \ {0}, NEW x \in S .. 2 * S - 1 PROVE x % S = x - S
OBVIOUS

\* An index that has gone beyond the end begins anew.
Wrap(x) == IF x < Size THEN x ELSE x - Size

LEMMA ModIsWrap ==
    ASSUME Size \in Nat \ {0}
    PROVE  \A x \in 0 .. 2 * Size - 1 : x % Size = Wrap(x) /\ Wrap(x) \in 0 .. Size - 1
<1> SUFFICES ASSUME NEW x \in 0 .. 2 * Size - 1
             PROVE  x % Size = Wrap(x) /\ Wrap(x) \in 0 .. Size - 1
  OBVIOUS
<1>1. CASE x < Size
  BY <1>1, ModOnce DEF Wrap
<1>2. CASE x >= Size
  BY <1>2, ModTwice DEF Wrap
<1> QED
  BY <1>1, <1>2

\* Seen from the tail, the characters in the ring come last and the places
\* that polling fills come first.
LEMMA FromTail ==
    ASSUME Size \in Nat \ {0}, NEW head \in 0 .. Size - 1, NEW count \in 0 .. Size,
           NEW n \in 0 .. Size - count, NEW k \in 0 .. count + n - 1
    PROVE  LET i == (head + k) % Size
               tail == (head + count) % Size
               j == (i - tail + Size) % Size
           IN  /\ i \in 0 .. Size - 1
               /\ k < count => j >= n
               /\ k >= count => j = k - count
<1> DEFINE i == (head + k) % Size
           tail == (head + count) % Size
<1>1. i = Wrap(head + k) /\ tail = Wrap(head + count) /\ i \in 0 .. Size - 1
      /\ tail \in 0 .. Size - 1
  BY ModIsWrap
<1>2. i - tail + Size \in 0 .. 2 * Size - 1
  BY <1>1
<1>3. (i - tail + Size) % Size = Wrap(i - tail + Size)
  BY <1>2, ModIsWrap
<1> HIDE DEF i, tail
<1>4. (k < count => Wrap(i - tail + Size) >= n) /\ (k >= count => Wrap(i - tail + Size) = k - count)
  BY <1>1 DEF Wrap
<1> QED
  BY <1>1, <1>3, <1>4 DEF i, tail

-----------------------------------------------------------------------------
(* What the operations do to a ring.                                       *)

\* poll_console_input moves characters and loses, repeats and swaps none.
LEMMA PollHolds ==
    ASSUME Size \in Nat \ {0}, NEW n \in Nat, NEW r, Holds(r, n)
    PROVE  LET p == poll_input(r) IN
           /\ Holds(p, n)
           /\ p.count + Len(p.uart) = r.count + Len(r.uart)
           /\ p.count >= r.count
<1> DEFINE m == Moves(r)
           p == poll_input(r)
           head == r.head
           tail == r.tail
           count == r.count
           len == Len(r.uart)
<1>1. r \in RingType /\ r.uart \in Seq(Nat) /\ r.buf \in [0 .. Size - 1 -> Nat]
  BY DEF Holds, RingType
<1>2. /\ head \in 0 .. Size - 1 /\ tail \in 0 .. Size - 1 /\ count \in 0 .. Size /\ len \in Nat
      /\ tail = (head + count) % Size
  BY DEF Holds, RingType
<1>3. m \in 0 .. len /\ m \in 0 .. Size - count
  BY <1>2 DEF Moves, Least
<1>4. /\ p.buf = [i \in 0 .. Size - 1 |->
                    LET k == (i - tail + Size) % Size
                    IN  IF k < m THEN r.uart[k + 1] ELSE r.buf[i]]
      /\ p.head = head /\ p.tail = (tail + m) % Size /\ p.count = count + m
      /\ p.uart = SubSeq(r.uart, m + 1, len)
      /\ p = [buf |-> p.buf, head |-> p.head, tail |-> p.tail, count |-> p.count,
              uart |-> p.uart]
  BY DEF poll_input
<1>5. /\ \A k \in 0 .. count - 1 : r.buf[(head + k) % Size] = n + k + 1
      /\ \A j \in 1 .. len : r.uart[j] = n + count + j /\ r.uart[j] \in Nat
  BY <1>1, ElementOfSeq DEF Holds
<1> HIDE DEF m, p, head, tail, count, len
<1>6. /\ p.uart \in Seq(Nat)
      /\ Len(p.uart) = len - m
      /\ \A j \in 1 .. len - m : p.uart[j] = r.uart[m + j]
  <2>1. m + 1 \in Int /\ len \in Int /\ \A j \in m + 1 .. len : r.uart[j] \in Nat
    BY <1>2, <1>3, <1>5
  <2>2. /\ p.uart \in Seq(Nat)
        /\ Len(p.uart) = IF m + 1 <= len THEN len - (m + 1) + 1 ELSE 0
        /\ \A j \in 1 .. len - (m + 1) + 1 : p.uart[j] = r.uart[m + 1 + j - 1]
    <3> DEFINE rest == SubSeq(r.uart, m + 1, len)
    <3>1. /\ rest \in Seq(Nat)
          /\ Len(rest) = IF m + 1 <= len THEN len - (m + 1) + 1 ELSE 0
          /\ \A j \in 1 .. len - (m + 1) + 1 : rest[j] = r.uart[m + 1 + j - 1]
      BY <2>1, SubSeqProperties
    <3> QED
      BY <1>4, <3>1, Zenon
  <2>3. /\ \A j \in Int : m + 1 + j - 1 = m + j
        /\ len - (m + 1) + 1 = len - m
        /\ ~(m + 1 <= len) => len - m = 0
    BY <1>2, <1>3
  <2> QED
    BY <1>2, <1>3, <2>2, <2>3
<1>7. p.buf \in [0 .. Size - 1 -> Nat]
  <2> SUFFICES ASSUME NEW i \in 0 .. Size - 1
               PROVE  LET k == (i - tail + Size) % Size
                      IN  (IF k < m THEN r.uart[k + 1] ELSE r.buf[i]) \in Nat
    BY <1>4
  <2> DEFINE k == (i - tail + Size) % Size
  <2>1. k \in 0 .. Size - 1
    BY <1>2, ModRange
  <2> HIDE DEF k
  <2>2. k < m => k + 1 \in 1 .. len
    BY <1>2, <1>3, <2>1
  <2>3. r.buf[i] \in Nat
    BY <1>1
  <2> QED
    BY <1>5, <2>2, <2>3 DEF k
<1>8. p.tail = (p.head + p.count) % Size /\ p.tail \in 0 .. Size - 1
  <2>1. tail = Wrap(head + count)
    BY <1>2, ModIsWrap
  <2>2. tail + m \in 0 .. 2 * Size - 1 /\ head + (count + m) \in 0 .. 2 * Size - 1
    BY <1>2, <1>3
  <2>3. /\ (tail + m) % Size = Wrap(tail + m) /\ Wrap(tail + m) \in 0 .. Size - 1
        /\ (head + (count + m)) % Size = Wrap(head + (count + m))
    BY <2>2, ModIsWrap
  <2>4. Wrap(tail + m) = Wrap(head + (count + m))
    BY <1>2, <1>3, <2>1 DEF Wrap
  <2> QED
    BY <1>4, <2>3, <2>4
<1>9. \A k \in 0 .. count + m - 1 : p.buf[(head + k) % Size] = n + k + 1
  <2> SUFFICES ASSUME NEW k \in 0 .. count + m - 1
               PROVE  p.buf[(head + k) % Size] = n + k + 1
    OBVIOUS
  <2> DEFINE i == (head + k) % Size
             j == (i - tail + Size) % Size
  <2>1. i \in 0 .. Size - 1 /\ (k < count => j >= m) /\ (k >= count => j = k - count)
    BY <1>2, <1>3, FromTail
  <2>2. p.buf[i] = IF j < m THEN r.uart[j + 1] ELSE r.buf[i]
    BY <1>4, <2>1
  <2>3. j \in Int
    BY <1>2, <2>1, ModRange
  <2>4. CASE k < count
    <3>1. r.buf[i] = n + k + 1
      BY <1>2, <1>5, <2>4
    <3> HIDE DEF i, j
    <3>2. ~(j < m)
      BY <1>3, <2>1, <2>3, <2>4
    <3> QED
      BY <2>2, <3>1, <3>2 DEF i
  <2>5. CASE k >= count
    <3> HIDE DEF i, j
    <3>1. j < m /\ j + 1 \in 1 .. len /\ count + (j + 1) = k + 1
      BY <1>2, <1>3, <2>1, <2>5
    <3>2. r.uart[j + 1] = n + count + (j + 1)
      BY <1>5, <3>1
    <3>3. n + count + (j + 1) = n + k + 1
      BY <1>2, <2>3, <3>1
    <3> QED
      BY <2>2, <3>1, <3>2, <3>3 DEF i
  <2> QED
    BY <1>2, <2>4, <2>5
<1>10. \A j \in 1 .. len - m : p.uart[j] = n + (count + m) + j
  <2> SUFFICES ASSUME NEW j \in 1 .. len - m
               PROVE  p.uart[j] = n + (count + m) + j
    OBVIOUS
  <2>1. m + j \in 1 .. len /\ n + count + (m + j) = n + (count + m) + j
    BY <1>2, <1>3
  <2> QED
    BY <1>5, <1>6, <2>1
<1>11. p \in RingType
  <2>1. p.head \in 0 .. Size - 1 /\ p.count \in 0 .. Size
    <3>1. count + m \in 0 .. Size
      BY <1>2, <1>3
    <3> QED
      BY <1>2, <1>4, <3>1, Zenon
  <2> QED
    BY <1>4, <1>6, <1>7, <1>8, <2>1 DEF RingType
<1>12. p.count + Len(p.uart) = count + len /\ p.count >= count
  <2>1. (count + m) + (len - m) = count + len /\ count + m >= count
    BY <1>2, <1>3
  <2> QED
    BY <1>4, <1>6, <2>1
<1>13. Holds(p, n)
  <2>1. \A k \in 0 .. p.count - 1 : p.buf[(p.head + k) % Size] = n + k + 1
    <3>1. p.head = head /\ p.count = count + m
      BY <1>4
    <3>2. \A k \in 0 .. p.count - 1 : k \in 0 .. count + m - 1
      BY <1>2, <1>3, <3>1
    <3>3. \A k : (p.head + k) % Size = (head + k) % Size
      BY <3>1
    <3> QED
      BY <1>9, <3>2, <3>3, Zenon
  <2>2. \A j \in 1 .. Len(p.uart) : p.uart[j] = n + p.count + j
    BY <1>4, <1>6, <1>10, Zenon
  <2> QED
    BY <1>8, <1>11, <2>1, <2>2 DEF Holds
<1> QED
  BY <1>12, <1>13 DEF p, count, len

\* input_pop takes the character that comes next.
LEMMA PopHolds ==
    ASSUME Size \in Nat \ {0}, NEW n \in Nat, NEW r, Holds(r, n), r.count > 0
    PROVE  /\ r.buf[r.head] = n + 1
           /\ Holds(input_pop(r), n + 1)
           /\ input_pop(r).count = r.count - 1 /\ input_pop(r).uart = r.uart
<1> DEFINE p == input_pop(r)
           head == r.head
           count == r.count
           len == Len(r.uart)
<1>1. r \in RingType /\ r.tail = (head + count) % Size
  BY DEF Holds
<1>2. head \in 0 .. Size - 1 /\ count \in 1 .. Size /\ len \in Nat
  BY DEF Holds, RingType
<1>3. /\ p.head = (head + 1) % Size /\ p.count = count - 1
      /\ p.buf = r.buf /\ p.tail = r.tail /\ p.uart = r.uart
      /\ p = [r EXCEPT !.head = p.head, !.count = p.count]
  BY <1>1 DEF input_pop, RingType
<1>4. /\ \A k \in 0 .. count - 1 : r.buf[(head + k) % Size] = n + k + 1
      /\ \A j \in 1 .. len : r.uart[j] = n + count + j
  BY DEF Holds
<1> HIDE DEF p, head, count, len
<1>5. p.head = Wrap(head + 1) /\ p.head \in 0 .. Size - 1
  <2>1. head + 1 \in 0 .. 2 * Size - 1
    BY <1>2
  <2> QED
    BY <1>3, <2>1, ModIsWrap
<1>6. p \in RingType
  <2>1. p.count \in 0 .. Size
    BY <1>2, <1>3
  <2> QED
    BY <1>1, <1>3, <1>5, <2>1 DEF RingType
<1>7. r.buf[head] = n + 1
  <2>1. (head + 0) % Size = head
    BY <1>2, ModOnce
  <2>2. r.buf[(head + 0) % Size] = n + 0 + 1
    BY <1>2, <1>4
  <2> QED
    BY <2>1, <2>2
<1>8. \A k \in 0 .. count - 1 : (p.head + k) % Size = (head + (k + 1)) % Size
  <2> SUFFICES ASSUME NEW k \in 0 .. count - 1
               PROVE  (p.head + k) % Size = (head + (k + 1)) % Size
    OBVIOUS
  <2> DEFINE next == p.head
  <2>1. next = Wrap(head + 1) /\ next \in 0 .. Size - 1
    BY <1>5
  <2> HIDE DEF next
  <2>2. next + k \in 0 .. 2 * Size - 1 /\ head + (k + 1) \in 0 .. 2 * Size - 1
    BY <1>2, <2>1
  <2>3. (next + k) % Size = Wrap(next + k) /\ (head + (k + 1)) % Size = Wrap(head + (k + 1))
    BY <2>2, ModIsWrap
  <2>4. Wrap(next + k) = Wrap(head + (k + 1))
    BY <1>2, <2>1 DEF Wrap
  <2> QED
    BY <2>3, <2>4 DEF next
<1>9. p.tail = (p.head + p.count) % Size
  <2>1. count - 1 \in 0 .. count - 1 /\ (count - 1) + 1 = count
    BY <1>2
  <2> QED
    BY <1>1, <1>3, <1>8, <2>1
<1>10. \A k \in 0 .. p.count - 1 : p.buf[(p.head + k) % Size] = n + 1 + k + 1
  <2> SUFFICES ASSUME NEW k \in 0 .. (count - 1) - 1
               PROVE  p.buf[(p.head + k) % Size] = n + 1 + k + 1
    BY <1>3
  <2>1. k + 1 \in 0 .. count - 1 /\ k \in 0 .. count - 1 /\ n + (k + 1) + 1 = n + 1 + k + 1
    BY <1>2
  <2>2. r.buf[(head + (k + 1)) % Size] = n + (k + 1) + 1
    BY <1>4, <2>1
  <2> QED
    BY <1>3, <1>8, <2>1, <2>2
<1>11. \A j \in 1 .. Len(p.uart) : p.uart[j] = n + 1 + p.count + j
  <2>1. n + 1 + (count - 1) = n + count
    BY <1>2
  <2> QED
    BY <1>3, <1>4, <2>1 DEF len
<1> QED
  BY <1>3, <1>6, <1>7, <1>9, <1>10, <1>11 DEF Holds, p, head, count

-----------------------------------------------------------------------------
(* The steps.                                                              *)

\* wakeup_input_waiters leaves nobody asleep beside a ring that is not empty.
LEMMA WakeupAll ==
    ASSUME NEW st \in [Procs -> {"user", "waiting", "ready"}], NEW r
    PROVE  LET w == wakeup_readers(st, r) IN
           /\ w \in [Procs -> {"user", "waiting", "ready"}]
           /\ r.count > 0 => \A p \in Procs : w[p] # "waiting"
           /\ ~(r.count > 0) => w = st
BY DEF wakeup_readers

LEMMA HoldsType ==
    ASSUME NEW r, NEW n, Holds(r, n)
    PROVE  r \in RingType /\ r.count \in Nat /\ r.count \in 0 .. Size /\ Len(r.uart) \in Nat
BY DEF Holds, RingType

LEMMA RingAfter ==
    ASSUME NEW r, r \in RingType, Assign(r)
    PROVE  Ring' = r /\ ring_count' = r.count /\ uart' = r.uart
BY DEF Assign, Ring, RingType

LEMMA InitHolds == ASSUME Size \in Nat \ {0} PROVE ConsoleInit => ConsoleInv
<1> SUFFICES ASSUME ConsoleInit PROVE ConsoleInv
  OBVIOUS
<1>1. got = <<>> /\ uart = <<>> /\ Len(got) = 0 /\ Len(uart) = 0
      /\ got \in Seq(Nat) /\ uart \in Seq(Nat)
  BY EmptySeq DEF ConsoleInit
<1>2. (0 + 0) % Size = 0
  BY ModOnce
<1>3. Ring \in RingType
  BY <1>1 DEF ConsoleInit, Ring, RingType
<1>4. Holds(Ring, Len(got))
  BY <1>1, <1>2, <1>3 DEF Holds, ConsoleInit, Ring
<1> QED
  BY <1>1, <1>4 DEF ConsoleInit, ConsoleInv, InSequence, NobodySleeps

LEMMA TypeInv == ASSUME Size \in Nat \ {0} PROVE ConsoleInv /\ Type => ConsoleInv'
<1> SUFFICES ASSUME ConsoleInv, Type PROVE ConsoleInv'
  OBVIOUS
<1>1. /\ Ring \in RingType /\ got \in Seq(Nat) /\ Len(got) \in Nat /\ uart \in Seq(Nat)
      /\ ring_count \in Nat /\ Len(uart) \in Nat
      /\ typed = Len(got) + ring_count + Len(uart)
      /\ \A j \in 1 .. Len(uart) : uart[j] = Len(got) + ring_count + j
  BY SMTT(30) DEF ConsoleInv, InSequence, Holds, RingType, Ring
<1>2. /\ uart' \in Seq(Nat) /\ Len(uart') = Len(uart) + 1
      /\ \A j \in 1 .. Len(uart') : uart'[j] = Len(got) + ring_count + j
  <2>1. typed + 1 \in Nat /\ typed + 1 = Len(got) + ring_count + (Len(uart) + 1)
    BY <1>1
  <2>2. uart' = Append(uart, typed + 1)
    BY DEF Type
  <2>3. /\ uart' \in Seq(Nat) /\ Len(uart') = Len(uart) + 1
        /\ \A j \in 1 .. Len(uart) : uart'[j] = uart[j]
        /\ uart'[Len(uart) + 1] = typed + 1
    BY <1>1, <2>1, <2>2, AppendProperties
  <2>4. \A j \in 1 .. Len(uart) + 1 : j \in 1 .. Len(uart) \/ j = Len(uart) + 1
    BY <1>1
  <2> QED
    BY <1>1, <2>1, <2>3, <2>4
<1>3. UNCHANGED <<input_buf, input_head, input_tail, ring_count, reader, got>>
      /\ typed' = typed + 1
  BY DEF Type
<1>4. Ring' \in RingType
  BY <1>1, <1>2, <1>3 DEF Ring, RingType
<1>5. Holds(Ring', Len(got))
  BY <1>2, <1>3, <1>4 DEF ConsoleInv, InSequence, Holds, Ring
<1>6. typed' = Len(got') + ring_count' + Len(uart')
  BY <1>1, <1>2, <1>3
<1>7. got' = got /\ reader' = reader /\ ring_count' = ring_count
  BY <1>3
<1> QED
  BY <1>5, <1>6, <1>7 DEF ConsoleInv, InSequence, NobodySleeps

LEMMA PollInv == ASSUME Size \in Nat \ {0} PROVE ConsoleInv /\ Poll => ConsoleInv'
<1> SUFFICES ASSUME ConsoleInv, Poll PROVE ConsoleInv'
  OBVIOUS
<1> DEFINE r == poll_input(Ring)
<1>1. Len(got) \in Nat /\ Holds(Ring, Len(got))
  BY DEF ConsoleInv, InSequence
<1>2. /\ Holds(r, Len(got)) /\ r \in RingType
      /\ r.count + Len(r.uart) = Ring.count + Len(Ring.uart)
  BY <1>1, PollHolds, HoldsType
<1>3. Assign(r) /\ reader' = wakeup_readers(reader, r) /\ UNCHANGED <<typed, got>>
  BY DEF Poll
<1> HIDE DEF r
<1>4. Ring' = r /\ ring_count' = r.count /\ uart' = r.uart
  BY <1>2, <1>3, RingAfter
<1>5. InSequence'
  <2>1. Holds(Ring', Len(got'))
    BY <1>2, <1>3, <1>4
  <2>2. ring_count' + Len(uart') = ring_count + Len(uart)
    BY <1>2, <1>4 DEF Ring
  <2>3. ring_count \in Nat /\ ring_count' \in Nat /\ Len(uart) \in Nat /\ Len(uart') \in Nat
    <3>1. Ring.count \in Nat /\ r.count \in Nat /\ Len(Ring.uart) \in Nat /\ Len(r.uart) \in Nat
      BY <1>1, <1>2, HoldsType
    <3> QED
      BY <1>4, <3>1 DEF Ring
  <2>4. typed' = Len(got') + ring_count' + Len(uart')
    <3>1. typed = Len(got) + ring_count + Len(uart)
      BY DEF ConsoleInv, InSequence
    <3>2. typed' = typed /\ got' = got
      BY <1>3
    <3> QED
      BY <1>1, <2>2, <2>3, <3>1, <3>2
  <2> QED
    BY <1>3, <2>1, <2>4 DEF ConsoleInv, InSequence
<1>6. reader' \in [Procs -> {"user", "waiting", "ready"}] /\ NobodySleeps'
  BY <1>3, <1>4, WakeupAll DEF ConsoleInv, NobodySleeps
<1> QED
  BY <1>5, <1>6 DEF ConsoleInv

\* Whether it polled or not, getchar goes on with a ring that holds what is
\* next, and with nobody asleep if there is a character in it.
LEMMA GetcharInv ==
    ASSUME Size \in Nat \ {0}, NEW p \in Procs
    PROVE  ConsoleInv /\ syscall_handle_getchar(p) => ConsoleInv'
<1> SUFFICES ASSUME ConsoleInv, syscall_handle_getchar(p) PROVE ConsoleInv'
  OBVIOUS
<1> DEFINE polled == ring_count = 0
           r == IF polled THEN poll_input(Ring) ELSE Ring
           st == IF polled THEN wakeup_readers(reader, r) ELSE reader
           n == Len(got)
<1>1. n \in Nat /\ Holds(Ring, n) /\ got \in Seq(Nat) /\ \A i \in 1 .. n : got[i] = i
  BY DEF ConsoleInv, InSequence
<1>2. /\ Holds(r, n) /\ r \in RingType
      /\ r.count + Len(r.uart) = Ring.count + Len(Ring.uart)
  <2>1. CASE polled
    BY <1>1, <2>1, PollHolds, HoldsType
  <2>2. CASE ~polled
    BY <1>1, <2>2, HoldsType
  <2> QED
    BY <2>1, <2>2
<1>3. typed = n + (r.count + Len(r.uart)) /\ r.count \in Nat /\ Len(r.uart) \in Nat
  <2>1. /\ r.count \in Nat /\ Len(r.uart) \in Nat /\ Ring.count \in Nat
        /\ Len(Ring.uart) \in Nat
    BY <1>1, <1>2, HoldsType
  <2>2. typed = n + Ring.count + Len(Ring.uart)
    BY DEF ConsoleInv, InSequence, Ring
  <2> HIDE DEF r, n
  <2> QED
    BY <1>1, <1>2, <2>1, <2>2
<1>4. /\ st \in [Procs -> {"user", "waiting", "ready"}]
      /\ r.count > 0 => \A q \in Procs : st[q] # "waiting"
  <2>1. CASE polled
    BY <2>1, WakeupAll DEF ConsoleInv
  <2>2. CASE ~polled
    BY <2>2 DEF ConsoleInv, NobodySleeps, Ring
  <2> QED
    BY <2>1, <2>2
<1>5. /\ IF r.count > 0
           THEN /\ Assign(input_pop(r))
                /\ got' = Append(got, r.buf[r.head])
                /\ reader' = [st EXCEPT ![p] = "user"]
           ELSE /\ Assign(r)
                /\ reader' = [st EXCEPT ![p] = "waiting"]
                /\ UNCHANGED got
      /\ typed' = typed
  BY DEF syscall_handle_getchar
<1> HIDE DEF polled, r, st
<1>6. CASE r.count > 0
  <2> DEFINE q == input_pop(r)
  <2>1. /\ r.buf[r.head] = n + 1 /\ Holds(q, n + 1) /\ q.count = r.count - 1
        /\ q.uart = r.uart /\ q \in RingType
    <3> n \in Nat /\ Holds(r, n)
      BY <1>1, <1>2
    <3> HIDE DEF n
    <3> QED
      BY <1>6, PopHolds, HoldsType
  <2>2. Assign(q) /\ got' = Append(got, n + 1) /\ reader' = [st EXCEPT ![p] = "user"]
    BY <1>5, <1>6, <2>1
  <2> HIDE DEF q
  <2>3. Ring' = q /\ ring_count' = q.count /\ uart' = q.uart
    BY <2>1, <2>2, RingAfter
  <2>4. got' \in Seq(Nat) /\ Len(got') = n + 1 /\ \A i \in 1 .. n + 1 : got'[i] = i
    BY <1>1, <2>2
  <2>5. typed' = Len(got') + ring_count' + Len(uart')
    <3>1. n + (r.count + Len(r.uart)) = (n + 1) + (r.count - 1) + Len(r.uart)
      <4> HIDE DEF n
      <4> QED
        BY <1>1, <1>3
    <3> QED
      BY <1>3, <1>5, <2>1, <2>3, <2>4, <3>1
  <2>6. InSequence'
    BY <2>1, <2>3, <2>4, <2>5 DEF InSequence
  <2>7. reader' \in [Procs -> {"user", "waiting", "ready"}] /\ NobodySleeps'
    BY <1>4, <1>6, <2>2 DEF NobodySleeps
  <2> QED
    BY <2>6, <2>7 DEF ConsoleInv
<1>7. CASE ~(r.count > 0)
  <2>1. Assign(r) /\ reader' = [st EXCEPT ![p] = "waiting"] /\ got' = got
    BY <1>5, <1>7
  <2>2. Ring' = r /\ ring_count' = r.count /\ uart' = r.uart
    BY <1>2, <2>1, RingAfter
  <2>3. typed' = Len(got') + ring_count' + Len(uart')
    BY <1>1, <1>3, <1>5, <2>1, <2>2
  <2>4. InSequence'
    BY <1>1, <1>2, <2>1, <2>2, <2>3 DEF InSequence
  <2>5. reader' \in [Procs -> {"user", "waiting", "ready"}] /\ NobodySleeps'
    BY <1>4, <1>7, <2>1, <2>2 DEF NobodySleeps
  <2> QED
    BY <2>4, <2>5 DEF ConsoleInv
<1> QED
  BY <1>6, <1>7

LEMMA ConsoleInvariant == ASSUME Size \in Nat \ {0} PROVE ConsoleSpec => []ConsoleInv
<1>1. ConsoleInv /\ [ConsoleNext]_consoleVars => ConsoleInv'
  <2> SUFFICES ASSUME ConsoleInv, [ConsoleNext]_consoleVars PROVE ConsoleInv'
    OBVIOUS
  <2>1. CASE Type
    BY <2>1, TypeInv
  <2>2. CASE Poll
    BY <2>2, PollInv
  <2>3. ASSUME NEW p \in Procs, syscall_handle_getchar(p) PROVE ConsoleInv'
    BY <2>3, GetcharInv
  <2>4. CASE UNCHANGED consoleVars
    BY <2>4 DEF consoleVars, ConsoleInv, InSequence, NobodySleeps, Ring
  <2> QED
    BY <2>1, <2>2, <2>3, <2>4 DEF ConsoleNext
<1> QED
  BY <1>1, InitHolds, PTL DEF ConsoleSpec

-----------------------------------------------------------------------------
(* The theorem.                                                            *)

\* What is read, what is in the ring and what the firmware holds are, one
\* after the other, the characters typed.
LEMMA SequenceIsOrder == ASSUME Size \in Nat \ {0}, InSequence PROVE InOrder
<1> DEFINE ring == [i \in 1 .. ring_count |-> input_buf[(input_head + i - 1) % Size]]
           n == Len(got)
           len == Len(uart)
           count == ring_count
<1>0. got \in Seq(Nat) /\ uart \in Seq(Nat)
  BY DEF InSequence, Holds, Ring, RingType
<1>1. /\ n \in Nat /\ len \in Nat /\ count \in 0 .. Size /\ input_head \in 0 .. Size - 1
      /\ typed = n + count + len
  BY <1>0 DEF InSequence, Holds, Ring, RingType
<1>2. /\ \A i \in 1 .. n : got[i] = i
      /\ \A k \in 0 .. count - 1 : input_buf[(input_head + k) % Size] = n + k + 1
      /\ \A j \in 1 .. len : uart[j] = n + count + j
  BY DEF InSequence, Holds, Ring
<1>3. \A i \in 1 .. count : ring[i] = n + i
  <2> SUFFICES ASSUME NEW i \in 1 .. count PROVE ring[i] = n + i
    OBVIOUS
  <2>1. input_head + i - 1 = input_head + (i - 1) /\ i - 1 \in 0 .. count - 1
        /\ n + (i - 1) + 1 = n + i
    BY <1>1
  <2> QED
    BY <1>2, <2>1
<1>4. ring \in Seq(Nat) /\ Len(ring) = count
  <2>1. \A i \in 1 .. count : n + i \in Nat
    BY <1>1
  <2>2. \A i \in 1 .. count : ring[i] \in Nat
    BY <1>3, <2>1
  <2> QED
    BY <1>1, <2>2, IsASeq
<1> HIDE DEF ring, n, len, count
<1> DEFINE left == got \o ring
           all == [i \in 1 .. typed |-> i]
<1>5. /\ left \in Seq(Nat) /\ Len(left) = n + count
      /\ \A i \in 1 .. n + count : left[i] = IF i <= n THEN got[i] ELSE ring[i - n]
  BY <1>0, <1>1, <1>4, ConcatProperties DEF n
<1> HIDE DEF left
<1>6. /\ left \o uart \in Seq(Nat) /\ Len(left \o uart) = n + count + len
      /\ \A i \in 1 .. n + count + len :
            (left \o uart)[i] = IF i <= n + count THEN left[i] ELSE uart[i - (n + count)]
  <2>1. /\ left \o uart \in Seq(Nat) /\ Len(left \o uart) = Len(left) + Len(uart)
        /\ \A i \in 1 .. Len(left) + Len(uart) :
              (left \o uart)[i] = IF i <= Len(left) THEN left[i] ELSE uart[i - Len(left)]
    BY <1>0, <1>5, ConcatProperties
  <2> QED
    BY <1>1, <1>5, <2>1 DEF len
<1>7. all \in Seq(Nat) /\ Len(all) = n + count + len
  BY <1>1
<1>8. \A i \in 1 .. n + count + len : (left \o uart)[i] = i
  <2> SUFFICES ASSUME NEW i \in 1 .. n + count + len PROVE (left \o uart)[i] = i
    OBVIOUS
  <2>1. CASE i <= n
    <3>1. i \in 1 .. n /\ i \in 1 .. n + count /\ i <= n + count
      BY <1>1, <2>1
    <3> QED
      BY <1>2, <1>5, <1>6, <2>1, <3>1
  <2>2. CASE i > n /\ i <= n + count
    <3>1. i - n \in 1 .. count /\ n + (i - n) = i /\ i \in 1 .. n + count /\ ~(i <= n)
      BY <1>1, <2>2
    <3>2. ring[i - n] = i
      BY <1>3, <3>1
    <3> QED
      BY <1>5, <1>6, <2>2, <3>1, <3>2
  <2>3. CASE i > n + count
    <3>1. i - (n + count) \in 1 .. len /\ n + count + (i - (n + count)) = i /\ ~(i <= n + count)
      BY <1>1, <2>3
    <3>2. uart[i - (n + count)] = i
      BY <1>2, <3>1
    <3> QED
      BY <1>6, <3>1, <3>2
  <2>4. i <= n \/ (i > n /\ i <= n + count) \/ i > n + count
    BY <1>1
  <2> QED
    BY <2>1, <2>2, <2>3, <2>4
<1>9. left \o uart = all
  <2>1. \A i \in 1 .. n + count + len : all[i] = i
    BY <1>1
  <2> HIDE DEF all
  <2> QED
    BY <1>6, <1>7, <1>8, <2>1, SeqEqual
<1> QED
  BY <1>9 DEF InOrder, left, ring, count

\* Every character typed is read exactly once, in the order of typing, for
\* every number of readers and size of the ring, and nobody sleeps beside a
\* character (poll_console_input, input_pop, wakeup_input_waiters).
THEOREM ConsoleSafe == ConsoleSpec => []ConsoleSound
<1>0. Size \in Nat \ {0}
  BY ConsoleSizes
<1>1. ConsoleInv => ConsoleSound
  <2> SUFFICES ASSUME ConsoleInv PROVE ConsoleSound
    OBVIOUS
  <2>1. ConsoleTypeOK
    BY DEF ConsoleInv, InSequence, Holds, Ring, RingType, ConsoleTypeOK
  <2>2. InOrder /\ NobodySleeps
    BY <1>0, SequenceIsOrder DEF ConsoleInv
  <2> QED
    BY <2>1, <2>2 DEF ConsoleSound
<1> QED
  BY <1>0, <1>1, ConsoleInvariant, PTL

-----------------------------------------------------------------------------
(* Numbers, and functions that recur on them: what the library's induction *)
(* would give, from a least counterexample.                                *)

\* A set of numbers that is not empty has a least one.
LEMMA HasLeast ==
    ASSUME NEW S \in SUBSET Nat, S # {}
    PROVE  \E n \in S : \A m \in S : n <= m
<1> DEFINE R == OpToRel(<, Nat)
<1>1. IsWellFoundedOn(R, Nat)
    BY NatLessThanWellFounded
<1>2. \A x, y \in Nat : x < y => <<x, y>> \in R
    BY DEF OpToRel
<1> HIDE DEF R
<1>3. PICK n \in S : \A m \in S : ~(<<m, n>> \in R)
    BY <1>1, WFMin
<1>4. \A m \in S : ~(m < n)
    BY <1>2, <1>3
<1> QED BY <1>4

\* f takes step after step from base.
Unrolls(f, N, base, step) ==
    f[0] = base /\ \A k \in 1 .. N : f[k] = step[k][f[k - 1]]

\* What is defined from its last value is defined.
LEMMA Recursion ==
    ASSUME NEW S, NEW N \in Nat, NEW base \in S, NEW step \in [1 .. N -> [S -> S]]
    PROVE  \E f \in [0 .. N -> S] : Unrolls(f, N, base, step)
<1> DEFINE P(n) == \E f \in [0 .. n -> S] : f[0] = base /\ \A k \in 1 .. n : f[k] = step[k][f[k-1]]
           T == {n \in 0 .. N : ~P(n)}
<1>1. P(0)
    <2> DEFINE f == [k \in 0 .. 0 |-> base]
    <2>1. f \in [0 .. 0 -> S] /\ f[0] = base /\ \A k \in 1 .. 0 : f[k] = step[k][f[k-1]]
        OBVIOUS
    <2> HIDE DEF f
    <2> QED BY <2>1
<1>2. ASSUME NEW n \in 1 .. N, P(n - 1) PROVE P(n)
    <2>1. PICK f \in [0 .. n - 1 -> S] : f[0] = base /\ \A k \in 1 .. n - 1 : f[k] = step[k][f[k-1]]
        BY <1>2
    <2> DEFINE g == [k \in 0 .. n |-> IF k = n THEN step[n][f[n - 1]] ELSE f[k]]
    <2>2. /\ n - 1 \in 0 .. n - 1 /\ f[n - 1] \in S /\ step[n] \in [S -> S]
          /\ n \in 0 .. n /\ 0 # n /\ 0 \in 0 .. n /\ n \in Nat
        OBVIOUS
    <2>3. ASSUME NEW k \in 0 .. n, k # n PROVE g[k] = f[k] /\ k \in 0 .. n - 1
        BY <2>2, <2>3
    <2>4. g[n] = step[n][f[n - 1]]
        BY <2>2
    <2>5. g \in [0 .. n -> S]
        BY <2>2, <2>3, <2>4
    <2> HIDE DEF g
    <2>6. g[0] = base
        BY <2>1, <2>2, <2>3
    <2>7. ASSUME NEW k \in 1 .. n PROVE g[k] = step[k][g[k-1]]
        <3>1. k \in 0 .. n /\ k - 1 \in 0 .. n /\ k - 1 # n
            BY <2>2
        <3>2. g[k - 1] = f[k - 1]
            BY <2>3, <3>1
        <3>3. CASE k = n
            BY <2>4, <3>2, <3>3
        <3>4. CASE k # n
            <4>1. k \in 1 .. n - 1 /\ g[k] = f[k]
                BY <2>2, <2>3, <3>1, <3>4
            <4> QED BY <2>1, <3>2, <4>1
        <3> QED BY <3>3, <3>4
    <2> QED BY <2>5, <2>6, <2>7
<1> HIDE DEF P
<1>3. CASE T = {}
    BY <1>3 DEF P, Unrolls
<1>4. CASE T # {}
    <2>1. PICK n \in T : \A m \in T : n <= m
        <3>1. T \in SUBSET Nat
            OBVIOUS
        <3> HIDE DEF T
        <3> QED BY <1>4, <3>1, HasLeast
    <2>2. n \in 1 .. N /\ n - 1 \in 0 .. N /\ n - 1 \notin T
        BY <1>1, <2>1
    <2> QED BY <1>2, <2>1, <2>2
<1> QED BY <1>3, <1>4

-----------------------------------------------------------------------------
(* Bits, words and the division.                                           *)

LEMMA BitEq == Bit = [k \in 0 .. 2 * WordBits |-> IF k = 0 THEN 1 ELSE 2 * Bit[k - 1]]
<1> DEFINE N == 2 * WordBits
           step == [k \in 1 .. N |-> [x \in Nat |-> 2 * x]]
<1>1. N \in Nat /\ step \in [1 .. N -> [Nat -> Nat]] /\ 1 \in Nat
    BY ClockSizes
<1>a. PICK f \in [0 .. N -> Nat] : Unrolls(f, N, 1, step)
    <2> HIDE DEF N, step
    <2> QED BY <1>1, Recursion
<1>2. f[0] = 1 /\ \A k \in 1 .. N : f[k] = step[k][f[k-1]]
    BY <1>a DEF Unrolls
<1>3. f = [k \in 0 .. N |-> IF k = 0 THEN 1 ELSE 2 * f[k - 1]]
    <2> SUFFICES ASSUME NEW k \in 0 .. N PROVE f[k] = IF k = 0 THEN 1 ELSE 2 * f[k - 1]
        OBVIOUS
    <2>1. CASE k # 0
        <3>1. k \in 1 .. N /\ k - 1 \in 0 .. N
            BY <1>1, <2>1
        <3>2. step[k][f[k - 1]] = 2 * f[k - 1]
            <4>1. f[k - 1] \in Nat
                BY <3>1
            <4>2. step[k] = [x \in Nat |-> 2 * x]
                BY <3>1
            <4> QED BY <4>1, <4>2
        <3> HIDE DEF step, N
        <3> QED BY <1>2, <2>1, <3>1, <3>2
    <2>2. CASE k = 0
        BY <1>2, <2>2
    <2> QED BY <2>1, <2>2
<1> HIDE DEF N
<1>4. QED BY <1>3 DEF Bit, N

LEMMA BitFacts ==
    /\ Bit[0] = 1
    /\ \A k \in 1 .. 2 * WordBits : Bit[k] = 2 * Bit[k - 1]
    /\ \A k \in 0 .. 2 * WordBits : Bit[k] \in Nat \ {0}
<1> DEFINE N == 2 * WordBits
<1>1. N \in Nat
    BY ClockSizes
<1>2. Bit[0] = 1
    BY <1>1, BitEq
<1>3. ASSUME NEW k \in 1 .. N PROVE Bit[k] = 2 * Bit[k - 1]
    BY <1>1, BitEq
<1> DEFINE S == {k \in 0 .. N : Bit[k] \notin Nat \ {0}}
<1>4. CASE S # {}
    <2>1. PICK k \in S : \A j \in S : k <= j
        <3>1. S \in SUBSET Nat
            OBVIOUS
        <3> HIDE DEF S
        <3> QED BY <1>4, <3>1, HasLeast
    <2>2. k \in 1 .. N /\ k - 1 \in 0 .. N /\ k - 1 \notin S
        BY <1>1, <1>2, <2>1
    <2>3. Bit[k - 1] \in Nat \ {0} /\ Bit[k] = 2 * Bit[k - 1]
        BY <1>3, <2>2
    <2> QED BY <2>1, <2>3
<1> QED BY <1>2, <1>3, <1>4

\* Two words hold Word * Word numbers.
LEMMA WordFacts ==
    /\ WordBits \in Nat \ {0} /\ Word \in Nat \ {0}
    /\ Bit[2 * WordBits] = Word * Word
<1>1. WordBits \in Nat \ {0} /\ WordBits \in 0 .. 2 * WordBits /\ 2 * WordBits = WordBits + WordBits
    BY ClockSizes
<1>2. Word \in Nat \ {0}
    BY <1>1, BitFacts DEF Word
<1> DEFINE S == {k \in 0 .. WordBits : Bit[WordBits + k] # Word * Bit[k]}
<1>3. CASE S # {}
    <2>1. PICK k \in S : \A j \in S : k <= j
        <3>1. S \in SUBSET Nat
            OBVIOUS
        <3> HIDE DEF S
        <3> QED BY <1>3, <3>1, HasLeast
    <2>2. k # 0
        BY <1>1, <1>2, <2>1, BitFacts DEF Word
    <2>3. k \in 1 .. WordBits /\ k - 1 \in 0 .. WordBits /\ k - 1 \notin S
        BY <1>1, <2>1, <2>2
    <2>4. /\ WordBits + k \in 1 .. 2 * WordBits /\ k \in 1 .. 2 * WordBits
          /\ (WordBits + k) - 1 = WordBits + (k - 1)
        BY <1>1, <2>3
    <2>5. Bit[WordBits + k] = 2 * Bit[WordBits + (k - 1)] /\ Bit[k] = 2 * Bit[k - 1]
        BY <2>4, BitFacts
    <2>6. Bit[WordBits + (k - 1)] = Word * Bit[k - 1]
        BY <2>3
    <2>7. PICK b \in Nat : b = Bit[k - 1]
        BY <1>1, <2>3, BitFacts
    <2>8. PICK w \in Nat : w = Word
        BY <1>2
    <2>9. 2 * (w * b) = w * (2 * b)
        OBVIOUS
    <2> QED BY <2>1, <2>5, <2>6, <2>7, <2>8, <2>9
<1>4. CASE S = {}
    <2>1. WordBits \in 0 .. WordBits /\ WordBits \notin S
        BY <1>1, <1>4
    <2> QED BY <1>1, <1>2, <2>1 DEF Word
<1> QED BY <1>3, <1>4

LEMMA DivModUnique ==
    ASSUME NEW a \in Nat, NEW b \in Nat, NEW w \in Nat \ {0}, b < w
    PROVE  (a * w + b) \div w = a /\ (a * w + b) % w = b
OBVIOUS

LEMMA DivMod ==
    ASSUME NEW n \in Nat, NEW w \in Nat \ {0}
    PROVE  /\ n \div w \in Nat /\ n % w \in Nat /\ n % w < w
           /\ n = (n \div w) * w + (n % w)
<1>1. n % w \in Nat /\ n % w < w
    OBVIOUS
<1>2. n \div w \in Nat
    OBVIOUS
<1>3. n = (n \div w) * w + (n % w)
    OBVIOUS
<1> QED BY <1>1, <1>2, <1>3

LEMMA DivHalves ==
    ASSUME NEW n \in Nat, NEW w \in Nat \ {0}
    PROVE  n \div w = 2 * (n \div (2 * w)) + ((n \div w) % 2)
OBVIOUS

\* What one more bit does to a quotient and a remainder.
LEMMA NextBit ==
    ASSUME NEW p \in Nat, NEW b \in 0 .. 1, NEW d \in Nat \ {0}
    PROVE  LET r == 2 * (p % d) + b IN
           /\ r >= d => (2 * p + b) \div d = 2 * (p \div d) + 1 /\ (2 * p + b) % d = r - d
           /\ r < d => (2 * p + b) \div d = 2 * (p \div d) /\ (2 * p + b) % d = r
<1>1. PICK a \in Nat : a = p \div d
    BY DivMod
<1>2. PICK c \in Nat : c = p % d /\ c < d
    BY DivMod
<1>3. p = a * d + c
    BY <1>1, <1>2, DivMod
<1> DEFINE r == 2 * c + b
<1>4. ASSUME r >= d PROVE (2 * p + b) \div d = 2 * a + 1 /\ (2 * p + b) % d = r - d
    <2>1. PICK y \in Nat : y = r - d /\ y < d
        <3>1. r - d \in Nat /\ r - d < d
            BY <1>2, <1>4
        <3> QED BY <3>1
    <2>2. PICK x \in Nat : x = 2 * a + 1
        OBVIOUS
    <2>3. x * d = 2 * (a * d) + d
        BY <2>2
    <2>4. 2 * p + b = x * d + y
        BY <1>3, <2>1, <2>3
    <2>5. (x * d + y) \div d = x /\ (x * d + y) % d = y
        BY <2>1, DivModUnique
    <2> QED BY <2>1, <2>2, <2>4, <2>5, Zenon
<1>5. ASSUME r < d PROVE (2 * p + b) \div d = 2 * a /\ (2 * p + b) % d = r
    <2>1. PICK y \in Nat : y = r /\ y < d
        BY <1>5
    <2>2. PICK x \in Nat : x = 2 * a
        OBVIOUS
    <2>3. x * d = 2 * (a * d)
        BY <2>2
    <2>4. 2 * p + b = x * d + y
        BY <1>3, <2>1, <2>3
    <2>5. (x * d + y) \div d = x /\ (x * d + y) % d = y
        BY <2>1, DivModUnique
    <2> QED BY <2>1, <2>2, <2>4, <2>5, Zenon
<1> QED BY <1>1, <1>2, <1>4, <1>5

Acc == [q : Nat, rem : Nat]

LEMMA RoundType ==
    ASSUME NEW acc \in Acc, NEW n \in Nat, NEW d \in Nat \ {0}, NEW i \in 0 .. 2 * WordBits
    PROVE  Round(acc, n, d, i) \in Acc
<1>1. PICK w \in Nat \ {0} : w = Bit[i]
    BY BitFacts
<1>2. (n \div w) % 2 \in Nat
    OBVIOUS
<1>3. PICK rem \in Nat : rem = 2 * acc.rem + ((n \div Bit[i]) % 2)
    BY <1>1, <1>2 DEF Acc
<1>4. Round(acc, n, d, i) = IF rem >= d THEN [q |-> acc.q + w, rem |-> rem - d]
                                        ELSE [q |-> acc.q, rem |-> rem]
    BY <1>1, <1>3 DEF Round
<1>5. acc.q + w \in Nat /\ acc.q \in Nat
    BY DEF Acc
<1>6. rem >= d => rem - d \in Nat
    OBVIOUS
<1> QED BY <1>4, <1>5, <1>6 DEF Acc

\* The rounds, one after the other.
Divides(f, n, d) ==
    /\ f[0] = [q |-> 0, rem |-> 0]
    /\ \A k \in 1 .. 2 * WordBits : f[k] = Round(f[k - 1], n, d, 2 * WordBits - k)

LEMMA RoundsExist ==
    ASSUME NEW n \in Nat, NEW d \in Nat \ {0}
    PROVE  \E f : /\ Divides(f, n, d)
                  /\ udiv64_32_full(n, d) = f[2 * WordBits]
<1> DEFINE N == 2 * WordBits
           base == [q |-> 0, rem |-> 0]
           step == [k \in 1 .. N |-> [x \in Acc |-> Round(x, n, d, N - k)]]
           Eq(f) == f = [k \in 0 .. N |-> IF k = 0 THEN base ELSE Round(f[k - 1], n, d, N - k)]
<1>1. N \in Nat /\ base \in Acc
    BY ClockSizes DEF Acc
<1>2. step \in [1 .. N -> [Acc -> Acc]]
    <2>1. \A k \in 1 .. N : N - k \in 0 .. 2 * WordBits
        BY <1>1
    <2> HIDE DEF N
    <2> QED BY <2>1, RoundType
<1>3. PICK f \in [0 .. N -> Acc] : Unrolls(f, N, base, step)
    <2> HIDE DEF N, step, base
    <2> QED BY <1>1, <1>2, Recursion
<1>4. ASSUME NEW k \in 1 .. N PROVE f[k] = Round(f[k - 1], n, d, N - k)
    <2>1. k - 1 \in 0 .. N
        BY <1>1
    <2>2. f[k - 1] \in Acc
        BY <2>1
    <2>3. f[k] = step[k][f[k - 1]]
        BY <1>3 DEF Unrolls
    <2> HIDE DEF N
    <2>4. step[k] = [x \in Acc |-> Round(x, n, d, N - k)]
        OBVIOUS
    <2> QED BY <2>2, <2>3, <2>4
<1>5. f[0] = base
    BY <1>3 DEF Unrolls
<1>6. \E g : Eq(g)
    <2>1. Eq(f)
        <3> SUFFICES ASSUME NEW k \in 0 .. N
                     PROVE  f[k] = IF k = 0 THEN base ELSE Round(f[k - 1], n, d, N - k)
            OBVIOUS
        <3>1. k = 0 \/ k \in 1 .. N
            BY <1>1
        <3> HIDE DEF N, base
        <3> QED BY <1>4, <1>5, <3>1
    <2> QED BY <2>1
<1> DEFINE g == CHOOSE g : Eq(g)
<1>7. Eq(g)
    <2> HIDE DEF Eq
    <2> QED BY <1>6
<1>8. udiv64_32_full(n, d) = g[N]
    BY DEF udiv64_32_full
<1> HIDE DEF g
<1>9. g[0] = base /\ \A k \in 1 .. N : g[k] = Round(g[k - 1], n, d, N - k)
    <2>1. 0 \in 0 .. N /\ \A k \in 1 .. N : k \in 0 .. N /\ k # 0
        BY <1>1
    <2> HIDE DEF N, base
    <2> QED BY <1>7, <2>1
<1> QED BY <1>8, <1>9 DEF Divides

\* The quotient and the remainder of the bits that the rounds have seen.
LEMMA DivisionRight ==
    ASSUME NEW n \in 0 .. Word * Word - 1, NEW d \in Nat \ {0}
    PROVE  /\ udiv64_32_full(n, d).q = n \div d
           /\ udiv64_32_full(n, d).rem = n % d
<1> DEFINE N == 2 * WordBits
           P(k) == n \div Bit[N - k]
<1>1. n \in Nat /\ N \in Nat
    BY WordFacts
<1>2. PICK f : Divides(f, n, d) /\ udiv64_32_full(n, d) = f[N]
    BY <1>1, RoundsExist
<1> DEFINE Right(k) == f[k].q = (P(k) \div d) * Bit[N - k] /\ f[k].rem = P(k) % d
           S == {k \in 0 .. N : ~Right(k)}
<1>3. Right(0)
    <2>1. P(0) = 0
        <3>1. PICK w \in Nat \ {0} : w = Bit[N - 0] /\ n < w
            BY <1>1, WordFacts
        <3>2. 0 * w + n = n
            BY <1>1
        <3>3. (0 * w + n) \div w = 0
            BY <1>1, <3>1, DivModUnique
        <3> QED BY <3>1, <3>2, <3>3, Zenon
    <2>2. 0 \div d = 0 /\ 0 % d = 0
        <3>1. 0 * d + 0 = 0 /\ 0 < d
            OBVIOUS
        <3>2. (0 * d + 0) \div d = 0 /\ (0 * d + 0) % d = 0
            BY <3>1, DivModUnique
        <3> QED BY <3>1, <3>2, Zenon
    <2>3. f[0].q = 0 /\ f[0].rem = 0
        BY <1>2 DEF Divides
    <2>4. PICK w \in Nat : w = Bit[N - 0]
        BY <1>1, BitFacts
    <2>5. 0 * w = 0
        OBVIOUS
    <2>6. (P(0) \div d) * Bit[N - 0] = 0
        BY <2>1, <2>2, <2>4, <2>5, Zenon
    <2>7. P(0) % d = 0
        BY <2>1, <2>2, Zenon
    <2> QED BY <2>3, <2>6, <2>7
<1>4. ASSUME NEW k \in 1 .. N, Right(k - 1) PROVE Right(k)
    <2> DEFINE i == N - k
    <2>1. i \in 0 .. N /\ i + 1 \in 1 .. N /\ N - (k - 1) = i + 1 /\ (i + 1) - 1 = i
        BY <1>1
    <2>2. PICK w \in Nat \ {0} : w = Bit[i]
        BY <2>1, BitFacts
    <2>3. Bit[i + 1] = 2 * w
        BY <2>1, <2>2, BitFacts
    <2>4. PICK p \in Nat : p = P(k - 1) /\ p = n \div (2 * w)
        <3>1. PICK v \in Nat \ {0} : v = 2 * w
            OBVIOUS
        <3>2. n \div v \in Nat
            BY <1>1, DivMod
        <3> QED BY <2>1, <2>3, <3>1, <3>2
    <2>5. PICK b \in 0 .. 1 : b = (n \div w) % 2
        <3>1. n \div w \in Nat
            BY <1>1, DivMod
        <3>2. (n \div w) % 2 \in 0 .. 1
            BY <3>1
        <3> QED BY <3>2
    <2>6. n \div w = 2 * p + b
        <3>1. n \div w = 2 * (n \div (2 * w)) + ((n \div w) % 2)
            BY <1>1, DivHalves
        <3>2. 2 * (n \div (2 * w)) = 2 * p
            BY <2>4, Zenon
        <3>3. 2 * (n \div (2 * w)) + ((n \div w) % 2) = 2 * p + ((n \div w) % 2)
            BY <3>2, Zenon
        <3>4. 2 * p + ((n \div w) % 2) = 2 * p + b
            BY <2>5, Zenon
        <3> QED BY <3>1, <3>3, <3>4, Zenon
    <2>7. PICK a \in Nat : a = p \div d
        BY DivMod
    <2>8. PICK c \in Nat : c = p % d /\ c < d
        BY DivMod
    <2>9. f[k - 1].q = a * (2 * w) /\ f[k - 1].rem = c
        <3>1. f[k - 1].q = (p \div d) * (2 * w) /\ f[k - 1].rem = p % d
            BY <1>4, <2>1, <2>3, <2>4, Zenon
        <3> QED BY <2>7, <2>8, <3>1, Zenon
    <2>10. PICK r \in Nat : r = 2 * c + b
        OBVIOUS
    <2>11. f[k] = IF r >= d THEN [q |-> f[k - 1].q + w, rem |-> r - d]
                            ELSE [q |-> f[k - 1].q, rem |-> r]
        <3>1. f[k] = Round(f[k - 1], n, d, i)
            BY <1>2 DEF Divides
        <3>2. 2 * f[k - 1].rem + ((n \div Bit[i]) % 2) = r
            <4>1. 2 * f[k - 1].rem = 2 * c
                BY <2>9, Zenon
            <4>2. (n \div Bit[i]) % 2 = b
                BY <2>2, <2>5, Zenon
            <4> QED BY <2>10, <4>1, <4>2, Zenon
        <3> HIDE DEF i
        <3> QED BY <2>2, <3>1, <3>2, Zenon DEF Round
    <2>12. /\ r >= d => (2 * p + b) \div d = 2 * a + 1 /\ (2 * p + b) % d = r - d
           /\ r < d => (2 * p + b) \div d = 2 * a /\ (2 * p + b) % d = r
        <3>1. /\ 2 * (p % d) + b >= d => /\ (2 * p + b) \div d = 2 * (p \div d) + 1
                                         /\ (2 * p + b) % d = (2 * (p % d) + b) - d
              /\ 2 * (p % d) + b < d => /\ (2 * p + b) \div d = 2 * (p \div d)
                                        /\ (2 * p + b) % d = 2 * (p % d) + b
            BY NextBit, Zenon
        <3> QED BY <2>7, <2>8, <2>10, <3>1, Zenon
    <2>13. P(k) = 2 * p + b /\ Bit[N - k] = w
        BY <2>2, <2>6, Zenon
    <2>14. CASE r >= d
        <3>1. f[k].q = f[k - 1].q + w /\ f[k].rem = r - d
            BY <2>11, <2>14
        <3>2. a * (2 * w) + w = (2 * a + 1) * w
            OBVIOUS
        <3>3. f[k].q = (2 * a + 1) * w
            BY <2>9, <3>1, <3>2
        <3>4. P(k) \div d = 2 * a + 1 /\ P(k) % d = r - d
            BY <2>12, <2>13, <2>14, Zenon
        <3> QED BY <2>13, <3>1, <3>3, <3>4, Zenon
    <2>15. CASE r < d
        <3>1. f[k].q = f[k - 1].q /\ f[k].rem = r
            BY <2>11, <2>15
        <3>2. a * (2 * w) = (2 * a) * w
            OBVIOUS
        <3>3. f[k].q = (2 * a) * w
            BY <2>9, <3>1, <3>2
        <3>4. P(k) \div d = 2 * a /\ P(k) % d = r
            BY <2>12, <2>13, <2>15, Zenon
        <3> QED BY <2>13, <3>1, <3>3, <3>4, Zenon
    <2> QED BY <2>14, <2>15
<1>5. CASE S # {}
    <2> HIDE DEF Right
    <2>1. PICK k \in S : \A j \in S : k <= j
        <3>1. S \in SUBSET Nat
            OBVIOUS
        <3> HIDE DEF S
        <3> QED BY <1>5, <3>1, HasLeast
    <2>2. k \in 1 .. N /\ k - 1 \in 0 .. N /\ k - 1 \notin S
        BY <1>1, <1>3, <2>1
    <2> QED BY <1>4, <2>1, <2>2
<1>6. CASE S = {}
    <2>1. Right(N)
        <3> HIDE DEF Right
        <3> QED BY <1>1, <1>6
    <2>2. N - N = 0 /\ Bit[0] = 1
        BY <1>1, BitFacts
    <2>3. n \div 1 = n
        BY <1>1
    <2>4. P(N) = n
        BY <2>2, <2>3, Zenon
    <2>5. PICK x \in Nat : x = n \div d
        BY <1>1, DivMod
    <2>6. x * 1 = x
        OBVIOUS
    <2>7. f[N].q = n \div d /\ f[N].rem = n % d
        BY <2>1, <2>2, <2>4, <2>5, <2>6, Zenon
    <2> QED BY <1>2, <2>7, Zenon
<1> QED BY <1>5, <1>6

-----------------------------------------------------------------------------
(* The clocks' invariant: which moment each word in a register is of.      *)

LEMMA Words ==
    ASSUME NEW n \in Nat
    PROVE  /\ Low(n) \in 0 .. Word - 1 /\ High(n) \in Nat
           /\ Double(High(n), Low(n)) = n
           /\ n < Word * Word => High(n) \in 0 .. Word - 1
<1>1. PICK w \in Nat \ {0} : w = Word
    BY WordFacts
<1>2. n % w \in 0 .. w - 1 /\ n \div w \in Nat /\ (n \div w) * w + (n % w) = n
    BY DivMod
<1>3. n < w * w => n \div w < w
    OBVIOUS
<1>4. n < w * w => n \div w \in 0 .. w - 1
    BY <1>2, <1>3
<1> QED BY <1>1, <1>2, <1>4, Zenon DEF Low, High, Double

LEMMA HighMono ==
    ASSUME NEW m \in Nat, NEW n \in Nat, m <= n
    PROVE  High(m) <= High(n)
<1>1. PICK w \in Nat \ {0} : w = Word
    BY WordFacts
<1>2. m \div w <= n \div w
    OBVIOUS
<1> QED BY <1>1, <1>2, Zenon DEF High

\* Words of two moments: never later than the second.
LEMMA TornEarly ==
    ASSUME NEW m \in Nat, NEW n \in Nat, m <= n
    PROVE  Double(High(m), Low(n)) \in 0 .. n
<1>1. PICK w \in Nat \ {0} : w = Word
    BY WordFacts
<1>2. PICK a \in Nat : a = High(m)
    BY Words
<1>3. PICK b \in Nat : b = High(n)
    BY Words
<1>4. PICK c \in Nat : c = Low(n)
    BY Words
<1>5. a <= b
    BY <1>2, <1>3, HighMono
<1>6. b * w + c = n
    BY <1>1, <1>3, <1>4, Words DEF Double
<1>7. a * w <= b * w /\ a * w \in Nat
    BY <1>5
<1>8. a * w + c \in 0 .. n
    BY <1>6, <1>7
<1> QED BY <1>1, <1>2, <1>4, <1>8, Zenon DEF Double

WordsHeld ==
    /\ now \in 0 .. Limit /\ since \in 0 .. now /\ armed \in 0 .. now
    /\ called \in Nat /\ returned \in Nat
    /\ {hi1, lo, hi2, stimecmp, stimecmph} \subseteq 0 .. Word - 1
    /\ clock_pc \in {"user", "rtc_hi1", "rtc_lo", "rtc_hi2", "divide",
                     "rdtimeh", "rdtime", "wrtimecmp", "wrtimecmph"}

SpecRight ==
    /\ time_spec.nsec \in 0 .. NSEC - 1
    /\ {time_spec.sec_lo, time_spec.sec_hi} \subseteq 0 .. Word - 1
    /\ TimeIsRead

HighRead == \E t \in since .. now : hi1 = High(t)
BothRead == \E t, u \in since .. now : t <= u /\ hi1 = High(t) /\ lo = Low(u)

RegistersRight ==
    /\ clock_pc = "rtc_lo" => HighRead
    /\ clock_pc = "rtc_hi2" => BothRead
    /\ clock_pc = "divide" => Double(hi1, lo) \in since .. now
    /\ clock_pc = "rdtime" => HighRead
    /\ clock_pc \in {"wrtimecmp", "wrtimecmph"} => Double(hi1, lo) \in 0 .. now

TimerRight ==
    IF clock_pc = "wrtimecmph"
      THEN stimecmp = Low(Next_Interrupt)
      ELSE Double(stimecmph, stimecmp) <= armed + TIMER_INTERVAL

ClockInv == WordsHeld /\ SpecRight /\ RegistersRight /\ TimerRight

LEMMA LimitFacts ==
    /\ Limit \in Nat /\ TIMER_INTERVAL \in Nat \ {0} /\ NSEC \in Nat \ {0} /\ Pause \in Nat
    /\ Limit + TIMER_INTERVAL < Word * Word /\ Word * Word \in Nat
<1>1. PICK w \in Nat \ {0} : w = Word
    BY WordFacts
<1>2. w * w \in Nat
    OBVIOUS
<1>3. PICK x \in Nat : x = Word * Word
    BY <1>1, <1>2
<1>4. TIMER_INTERVAL \in Nat \ {0} /\ NSEC \in Nat \ {0} /\ Pause \in Nat /\ TIMER_INTERVAL < x
    BY <1>3, ClockSizes
<1>5. Limit = x - TIMER_INTERVAL - 1
    BY <1>3 DEF Limit
<1> QED BY <1>3, <1>4, <1>5

LEMMA ClockStarts == ClockInit => ClockInv
<1> SUFFICES ASSUME ClockInit PROVE ClockInv
    OBVIOUS
<1>1. /\ Limit \in Nat /\ TIMER_INTERVAL \in Nat /\ NSEC \in Nat \ {0}
      /\ TIMER_INTERVAL < Word * Word
    BY LimitFacts, ClockSizes
<1>2. PICK w \in Nat \ {0} : w = Word
    BY WordFacts
<1>3. Low(TIMER_INTERVAL) \in 0 .. Word - 1 /\ High(TIMER_INTERVAL) \in 0 .. Word - 1
    BY <1>1, Words
<1>4. WordsHeld
    BY <1>1, <1>2, <1>3 DEF ClockInit, WordsHeld
<1>5. SpecRight
    <2>1. 0 * w + 0 = 0 /\ 0 * NSEC + 0 = 0
        BY <1>1
    <2>2. Double(0, 0) * NSEC + 0 = 0
        BY <1>2, <2>1 DEF Double
    <2>3. time_spec.nsec = 0 /\ time_spec.sec_lo = 0 /\ time_spec.sec_hi = 0
             /\ called = 0 /\ returned = 0
        BY DEF ClockInit
    <2>4. TimeIsRead
        BY <2>2, <2>3 DEF TimeIsRead
    <2> QED BY <1>1, <1>2, <2>3, <2>4 DEF SpecRight
<1>6. RegistersRight
    BY DEF ClockInit, RegistersRight
<1>7. Double(stimecmph, stimecmp) = TIMER_INTERVAL
    BY <1>1, Words DEF ClockInit
<1>8. TimerRight
    BY <1>1, <1>7 DEF ClockInit, TimerRight
<1> QED BY <1>4, <1>5, <1>6, <1>8 DEF ClockInv

LEMMA NowFacts ==
    ASSUME ClockInv
    PROVE  /\ now \in Nat /\ now <= Limit /\ since \in Nat /\ since <= now
           /\ armed \in Nat /\ armed <= now /\ now < Word * Word
           /\ Low(now) \in 0 .. Word - 1 /\ High(now) \in 0 .. Word - 1
<1>1. /\ now \in Nat /\ now <= Limit /\ since \in Nat /\ since <= now
      /\ armed \in Nat /\ armed <= now
    BY LimitFacts DEF ClockInv, WordsHeld
<1>2. now < Word * Word
    BY <1>1, LimitFacts
<1> QED BY <1>1, <1>2, Words

LEMMA RunsKeep == ASSUME ClockInv, Runs PROVE ClockInv'
<1>1. /\ now' \in Nat /\ now < now' /\ now' <= Limit
      /\ UNCHANGED <<clock_pc, hi1, lo, hi2, since, time_spec, called, returned,
                     stimecmp, stimecmph, armed>>
    BY NowFacts, LimitFacts DEF Runs, answer, timer
<1>2. WordsHeld'
    BY <1>1, NowFacts DEF ClockInv, WordsHeld
<1>3. SpecRight'
    BY <1>1 DEF ClockInv, SpecRight, TimeIsRead
<1>4. \A t : t \in since .. now => t \in since' .. now'
    BY <1>1, NowFacts
<1>5. (HighRead => HighRead') /\ (BothRead => BothRead')
    BY <1>1, <1>4 DEF HighRead, BothRead
<1>6. \A t : t \in 0 .. now => t \in 0 .. now'
    BY <1>1, NowFacts
<1>7. RegistersRight'
    BY <1>1, <1>4, <1>5, <1>6 DEF ClockInv, RegistersRight
<1>8. TimerRight'
    BY <1>1 DEF ClockInv, TimerRight, Next_Interrupt
<1> QED BY <1>2, <1>3, <1>7, <1>8 DEF ClockInv

\* A step that leaves the timer and the answer alone.
LEMMA ReadKeeps ==
    ASSUME ClockInv, UNCHANGED <<now, time_spec, called, returned, stimecmp, stimecmph, armed>>,
           clock_pc # "wrtimecmph", clock_pc' # "wrtimecmph",
           {hi1', lo', hi2'} \subseteq 0 .. Word - 1, since' \in 0 .. now,
           clock_pc' \in {"user", "rtc_hi1", "rtc_lo", "rtc_hi2", "divide",
                          "rdtimeh", "rdtime", "wrtimecmp"},
           RegistersRight'
    PROVE  ClockInv'
<1>1. WordsHeld'
    BY DEF ClockInv, WordsHeld
<1>2. SpecRight'
    BY DEF ClockInv, SpecRight, TimeIsRead
<1>3. TimerRight'
    BY DEF ClockInv, TimerRight
<1> QED BY <1>1, <1>2, <1>3 DEF ClockInv

LEMMA CallKeeps == ASSUME ClockInv, gettime \/ trap PROVE ClockInv'
<1>1. /\ UNCHANGED <<now, time_spec, called, returned, stimecmp, stimecmph, armed, hi1, lo, hi2>>
      /\ clock_pc = "user" /\ clock_pc' \in {"rtc_hi1", "rdtimeh"} /\ since' = now
    BY DEF gettime, trap, answer, timer
<1>2. since' \in 0 .. now /\ {hi1', lo', hi2'} \subseteq 0 .. Word - 1
    BY <1>1, NowFacts DEF ClockInv, WordsHeld
<1>3. RegistersRight'
    BY <1>1 DEF RegistersRight
<1> QED BY <1>1, <1>2, <1>3, ReadKeeps

LEMMA HighKeeps == ASSUME ClockInv, rtc_hi1 \/ rdtimeh PROVE ClockInv'
<1>1. /\ UNCHANGED <<now, time_spec, called, returned, stimecmp, stimecmph, armed, lo, hi2, since>>
      /\ clock_pc \in {"rtc_hi1", "rdtimeh"} /\ clock_pc' \in {"rtc_lo", "rdtime"}
      /\ hi1' = High(now)
    BY DEF rtc_hi1, rdtimeh, answer, timer
<1>2. since' \in 0 .. now /\ {hi1', lo', hi2'} \subseteq 0 .. Word - 1
    BY <1>1, NowFacts DEF ClockInv, WordsHeld
<1>3. HighRead'
    BY <1>1, NowFacts DEF HighRead
<1>4. RegistersRight'
    BY <1>1, <1>3 DEF RegistersRight
<1> QED BY <1>1, <1>2, <1>4, ReadKeeps

LEMMA LowKeeps == ASSUME ClockInv, rtc_lo \/ rdtime PROVE ClockInv'
<1>1. /\ UNCHANGED <<now, time_spec, called, returned, stimecmp, stimecmph, armed, hi1, hi2, since>>
      /\ \/ clock_pc = "rtc_lo" /\ clock_pc' = "rtc_hi2"
         \/ clock_pc = "rdtime" /\ clock_pc' = "wrtimecmp"
      /\ lo' = Low(now)
    BY DEF rtc_lo, rdtime, answer, timer
<1>2. since' \in 0 .. now /\ {hi1', lo', hi2'} \subseteq 0 .. Word - 1
    BY <1>1, NowFacts DEF ClockInv, WordsHeld
<1>3. PICK t \in since .. now : hi1 = High(t)
    BY <1>1 DEF ClockInv, RegistersRight, HighRead
<1>4. t \in Nat /\ t <= now /\ now \in since .. now
    BY <1>3, NowFacts
<1>5. BothRead'
    BY <1>1, <1>3, <1>4 DEF BothRead
<1>6. Double(hi1', lo') \in 0 .. now'
    <2>1. Double(High(t), Low(now)) \in 0 .. now
        BY <1>4, NowFacts, TornEarly
    <2> QED BY <1>1, <1>3, <2>1
<1>7. RegistersRight'
    BY <1>1, <1>5, <1>6 DEF RegistersRight
<1> QED BY <1>1, <1>2, <1>7, ReadKeeps

\* The two readings of the high word agree: no word was torn off.
LEMMA AgainKeeps == ASSUME ClockInv, rtc_hi2 PROVE ClockInv'
<1>1. /\ UNCHANGED <<now, time_spec, called, returned, stimecmp, stimecmph, armed, hi1, lo, since>>
      /\ clock_pc = "rtc_hi2" /\ hi2' = High(now)
      /\ clock_pc' = IF hi1 = hi2' THEN "divide" ELSE "rtc_hi1"
    BY DEF rtc_hi2, answer, timer
<1>2. since' \in 0 .. now /\ {hi1', lo', hi2'} \subseteq 0 .. Word - 1
    BY <1>1, NowFacts DEF ClockInv, WordsHeld
<1>3. PICK t, u \in since .. now : t <= u /\ hi1 = High(t) /\ lo = Low(u)
    BY <1>1 DEF ClockInv, RegistersRight, BothRead
<1>4. t \in Nat /\ u \in Nat /\ u <= now /\ since \in Nat /\ now \in Nat
    BY <1>3, NowFacts
<1>5. ASSUME hi1 = hi2' PROVE Double(hi1', lo') \in since' .. now'
    <2>1. High(t) <= High(u) /\ High(u) <= High(now)
        BY <1>3, <1>4, HighMono
    <2>2. High(t) \in Nat /\ High(u) \in Nat /\ High(now) = High(t)
        BY <1>1, <1>3, <1>4, <1>5, Words
    <2>3. hi1 = High(u)
        BY <1>3, <2>1, <2>2
    <2>4. Double(hi1, lo) = u
        BY <1>3, <1>4, <2>3, Words
    <2> QED BY <1>1, <2>4
<1>6. RegistersRight'
    BY <1>1, <1>5 DEF RegistersRight
<1>7. clock_pc' \in {"divide", "rtc_hi1"}
    BY <1>1
<1> QED BY <1>1, <1>2, <1>6, <1>7, ReadKeeps

LEMMA DivideKeeps == ASSUME ClockInv, write_user_time_info PROVE ClockInv'
<1>1. PICK n \in Nat : n = Double(hi1, lo) /\ n \in since .. now
    BY NowFacts DEF ClockInv, RegistersRight, write_user_time_info
<1>2. n \in 0 .. Word * Word - 1 /\ NSEC \in Nat \ {0}
    BY <1>1, NowFacts, LimitFacts
<1>3. PICK q \in Nat : q = n \div NSEC /\ udiv64_32_full(n, NSEC).q = q
    BY <1>2, DivisionRight, DivMod
<1>4. PICK r \in Nat : r = n % NSEC /\ udiv64_32_full(n, NSEC).rem = r /\ r < NSEC
    BY <1>2, DivisionRight, DivMod
<1>5. q * NSEC + r = n
    BY <1>2, <1>3, <1>4, DivMod
<1>6. q <= n
    <2>1. q * NSEC >= q
        BY <1>2
    <2> QED BY <1>2, <1>5, <2>1
<1>7. /\ Low(q) \in 0 .. Word - 1 /\ High(q) \in 0 .. Word - 1
      /\ Double(High(q), Low(q)) = q
    BY <1>2, <1>6, Words, LimitFacts
<1>8. /\ time_spec' = [sec_lo |-> Low(q), sec_hi |-> High(q), nsec |-> r]
      /\ called' = since /\ returned' = now /\ clock_pc' = "user" /\ since' = 0
      /\ hi1' = 0 /\ lo' = 0 /\ hi2' = 0 /\ clock_pc = "divide"
      /\ UNCHANGED <<now, stimecmp, stimecmph, armed>>
    BY <1>1, <1>3, <1>4, Zenon DEF write_user_time_info, timer
<1>9. WordsHeld'
    BY <1>8, NowFacts, WordFacts DEF ClockInv, WordsHeld
<1>10. TimeIsRead'
    <2>1. Double(time_spec'.sec_hi, time_spec'.sec_lo) = q /\ time_spec'.nsec = r
        BY <1>7, <1>8
    <2> QED BY <1>1, <1>5, <1>8, <2>1 DEF TimeIsRead
<1>11. SpecRight'
    BY <1>2, <1>4, <1>7, <1>8, <1>10 DEF SpecRight
<1>12. RegistersRight' /\ TimerRight'
    BY <1>8 DEF ClockInv, RegistersRight, TimerRight
<1> QED BY <1>9, <1>11, <1>12 DEF ClockInv

LEMMA InterruptFacts ==
    ASSUME ClockInv, clock_pc \in {"wrtimecmp", "wrtimecmph"}
    PROVE  /\ Next_Interrupt \in Nat /\ Next_Interrupt <= now + TIMER_INTERVAL
           /\ Low(Next_Interrupt) \in 0 .. Word - 1 /\ High(Next_Interrupt) \in 0 .. Word - 1
           /\ Double(High(Next_Interrupt), Low(Next_Interrupt)) = Next_Interrupt
<1>1. PICK n \in Nat : n = Next_Interrupt /\ n <= now + TIMER_INTERVAL
    BY NowFacts, LimitFacts DEF ClockInv, RegistersRight, Next_Interrupt
<1>2. n < Word * Word
    BY <1>1, NowFacts, LimitFacts
<1>3. /\ Low(n) \in 0 .. Word - 1 /\ High(n) \in 0 .. Word - 1
      /\ Double(High(n), Low(n)) = n
    BY <1>2, Words
<1> QED BY <1>1, <1>3

LEMMA ArmKeeps == ASSUME ClockInv, wrtimecmp \/ wrtimecmph PROVE ClockInv'
<1>1. CASE wrtimecmp
    <2>1. /\ UNCHANGED <<now, time_spec, called, returned, stimecmph, armed, hi1, lo, hi2, since>>
          /\ clock_pc = "wrtimecmp" /\ clock_pc' = "wrtimecmph"
          /\ stimecmp' = Low(Next_Interrupt)
        BY <1>1 DEF wrtimecmp, answer
    <2>2. Next_Interrupt' = Next_Interrupt /\ stimecmp' \in 0 .. Word - 1
        BY <2>1, InterruptFacts DEF Next_Interrupt
    <2>3. WordsHeld'
        BY <2>1, <2>2 DEF ClockInv, WordsHeld
    <2>4. SpecRight'
        BY <2>1 DEF ClockInv, SpecRight, TimeIsRead
    <2>5. RegistersRight' /\ TimerRight'
        BY <2>1, <2>2 DEF ClockInv, RegistersRight, TimerRight
    <2> QED BY <2>3, <2>4, <2>5 DEF ClockInv
<1>2. CASE wrtimecmph
    <2>1. /\ UNCHANGED <<now, time_spec, called, returned, stimecmp>>
          /\ clock_pc = "wrtimecmph" /\ clock_pc' = "user" /\ armed' = now /\ since' = 0
          /\ hi1' = 0 /\ lo' = 0 /\ hi2' = 0
          /\ stimecmph' = High(Next_Interrupt)
        BY <1>2 DEF wrtimecmph, answer
    <2>2. stimecmp = Low(Next_Interrupt)
        BY <2>1 DEF ClockInv, TimerRight
    <2>3. Double(stimecmph', stimecmp') <= armed' + TIMER_INTERVAL /\ stimecmph' \in 0 .. Word - 1
        BY <2>1, <2>2, InterruptFacts
    <2>4. WordsHeld'
        BY <2>1, <2>3, NowFacts, WordFacts DEF ClockInv, WordsHeld
    <2>5. SpecRight'
        BY <2>1 DEF ClockInv, SpecRight, TimeIsRead
    <2>6. RegistersRight' /\ TimerRight'
        BY <2>1, <2>3 DEF RegistersRight, TimerRight
    <2> QED BY <2>4, <2>5, <2>6 DEF ClockInv
<1> QED BY <1>1, <1>2

\* No torn pair of words is believed, for every width of a word, whatever the
\* clock does between any two instructions: the time of a gettime is one the
\* clock showed during the call, and the timer is never set further away than
\* an interval (rtc_now_ns, udiv64_32_full, timer_set_next).
THEOREM ClockSafe == ClockSpec => []ClocksRight
<1>1. ClockInv /\ [ClockNext]_clockVars => ClockInv'
    <2> SUFFICES ASSUME ClockInv, [ClockNext]_clockVars PROVE ClockInv'
        OBVIOUS
    <2>1. CASE UNCHANGED clockVars
        BY <2>1 DEF clockVars, answer, timer, ClockInv, WordsHeld, SpecRight, TimeIsRead,
              RegistersRight, HighRead, BothRead, TimerRight, Next_Interrupt
    <2>2. CASE ClockNext
        BY <2>2, RunsKeep, CallKeeps, HighKeeps, LowKeeps, AgainKeeps, DivideKeeps, ArmKeeps
              DEF ClockNext
    <2> QED BY <2>1, <2>2
<1>2. ClockInv => ClocksRight
    BY DEF ClockInv, WordsHeld, SpecRight, TimerRight, ClocksRight, ClockTypeOK, TimerArmed
<1> QED BY <1>1, <1>2, ClockStarts, PTL DEF ClockSpec

-----------------------------------------------------------------------------
(* Dates.                                                                  *)

\* The days in front of a year, counted without a loop, and those of the year
\* in front of a month.
Leaps(y) == ((y - 1) \div 4) - ((y - 1) \div 100) + ((y - 1) \div 400) - 477
YearStart(y) == 365 * (y - 1970) + Leaps(y)

MonthStarts == <<0, 31, 59, 90, 120, 151, 181, 212, 243, 273, 304, 334, 365>>
MonthStart(y, m) == MonthStarts[m + 1] + (IF m >= 2 /\ is_leap_year(y) THEN 1 ELSE 0)

LEMMA YearLength ==
    ASSUME NEW y \in Nat
    PROVE  /\ days_in_year(y) \in 365 .. 366
           /\ YearStart(y) \in Int /\ YearStart(y + 1) \in Int
           /\ YearStart(y + 1) = YearStart(y) + days_in_year(y)
    BY DEF YearStart, Leaps, days_in_year, is_leap_year

LEMMA YearsApart ==
    ASSUME NEW y \in Nat, NEW z \in Nat, y <= z
    PROVE  YearStart(y) + 364 * (z - y) <= YearStart(z)
    BY DEF YearStart, Leaps

LEMMA MonthLength ==
    ASSUME NEW y \in Nat, NEW m \in 0 .. 11
    PROVE  /\ days_in_month(y, m) \in 28 .. 31
           /\ MonthStart(y, m + 1) = MonthStart(y, m) + days_in_month(y, m)
           /\ days_in_month(y, m) = LengthOf(m, y)
<1>1. m \in {0, 1, 2, 3, 4, 5, 6, 7, 8, 9, 10, 11}
    OBVIOUS
<1>2. is_leap_year(y) <=> (IF y = 100 * (y \div 100) THEN y \div 100 ELSE y) % 4 = 0
    BY DEF is_leap_year
<1>3. /\ days_in_month(y, m) \in 28 .. 31
      /\ MonthStart(y, m + 1) = MonthStart(y, m) + days_in_month(y, m)
    BY <1>1 DEF days_in_month, MonthStart, MonthStarts, mon_days
<1>4. LengthOf(m, y) = CASE m \in {0, 2, 4, 6, 7, 9, 11} -> 31
                         [] m \in {3, 5, 8, 10} -> 30
                         [] m = 1 -> IF is_leap_year(y) THEN 29 ELSE 28
    BY <1>2 DEF LengthOf
<1>5. days_in_month(y, m) = LengthOf(m, y)
    BY <1>1, <1>4 DEF days_in_month, mon_days
<1> QED BY <1>3, <1>5

\* The day t is in the year z.
InYear(z, t) == YearStart(z) <= t /\ t < YearStart(z + 1)
YearOf(t) == CHOOSE z \in Nat : InYear(z, t)

LEMMA YearUnique ==
    ASSUME NEW y \in Nat, NEW z \in Nat, NEW t \in Int, InYear(y, t), InYear(z, t)
    PROVE  y = z
<1>1. /\ YearStart(y) \in Int /\ YearStart(y + 1) \in Int
      /\ YearStart(z) \in Int /\ YearStart(z + 1) \in Int
    BY YearLength
<1>2. CASE y < z
    <2>1. YearStart(y + 1) + 364 * (z - (y + 1)) <= YearStart(z) /\ 364 * (z - (y + 1)) >= 0
        BY <1>2, YearsApart
    <2> QED BY <1>1, <2>1 DEF InYear
<1>3. CASE z < y
    <2>1. YearStart(z + 1) + 364 * (y - (z + 1)) <= YearStart(y) /\ 364 * (y - (z + 1)) >= 0
        BY <1>3, YearsApart
    <2> QED BY <1>1, <2>1 DEF InYear
<1> QED BY <1>2, <1>3

LEMMA YearExists ==
    ASSUME NEW y \in Nat, NEW d \in Nat
    PROVE  LET t == YearStart(y) + d IN YearOf(t) \in Nat /\ InYear(YearOf(t), t)
<1> DEFINE t == YearStart(y) + d
           S == {z \in Nat : t < YearStart(z + 1)}
<1>1. YearStart(y) \in Int /\ t \in Int
    BY YearLength
<1>2. y + d \in S
    <2>1. YearStart(y) + 364 * (((y + d) + 1) - y) <= YearStart((y + d) + 1)
        BY YearsApart
    <2>2. 364 * (((y + d) + 1) - y) > d /\ YearStart((y + d) + 1) \in Int
        BY YearLength
    <2>3. t < YearStart((y + d) + 1)
        BY <1>1, <2>1, <2>2
    <2> HIDE DEF t
    <2> QED BY <2>3
<1>3. PICK z \in S : \A w \in S : z <= w
    <2>1. S \in SUBSET Nat
        OBVIOUS
    <2> HIDE DEF S
    <2> QED BY <1>2, <2>1, HasLeast
<1>4. YearStart(z) <= t
    <2>1. CASE z <= y
        <3>1. YearStart(z) + 364 * (y - z) <= YearStart(y) /\ 364 * (y - z) >= 0
            BY <1>3, <2>1, YearsApart
        <3>2. YearStart(z) \in Int
            BY <1>3, YearLength
        <3> QED BY <1>1, <3>1, <3>2
    <2>2. CASE z > y
        <3>1. z - 1 \in Nat /\ z - 1 \notin S /\ (z - 1) + 1 = z
            <4> HIDE DEF t
            <4> QED BY <1>3, <2>2
        <3>2. YearStart(z) \in Int
            BY <1>3, YearLength
        <3> HIDE DEF t
        <3> QED BY <1>1, <3>1, <3>2
    <2> QED BY <1>3, <2>1, <2>2
<1>5. z \in Nat /\ InYear(z, t)
    <2> HIDE DEF t
    <2> QED BY <1>3, <1>4 DEF InYear
<1> HIDE DEF t
<1>6. YearOf(t) \in Nat /\ InYear(YearOf(t), t)
    BY <1>5 DEF YearOf
<1> QED BY <1>6 DEF t

\* What a loop makes of its variables: they keep the day they stand for.
YearDay(y) == YearStart(y.year) + y.d
YearEnd(y) == [year |-> YearOf(YearDay(y)), d |-> YearDay(y) - YearStart(YearOf(YearDay(y)))]

LEMMA YearTurn ==
    ASSUME NEW y \in YearState
    PROVE  LET next == [year |-> y.year + 1, d |-> y.d - days_in_year(y.year)]
           IN /\ y.d < days_in_year(y.year) => YearEnd(y) = y
              /\ ~(y.d < days_in_year(y.year)) =>
                    next \in YearState /\ next.d < y.d /\ YearEnd(next) = YearEnd(y)
<1> DEFINE next == [year |-> y.year + 1, d |-> y.d - days_in_year(y.year)]
<1>1. PICK a \in Int, l \in 365 .. 366 :
          /\ a = YearStart(y.year) /\ l = days_in_year(y.year) /\ YearStart(y.year + 1) = a + l
    BY YearLength DEF YearState
<1>2. y.year \in Nat /\ y.d \in Nat /\ YearDay(y) = a + y.d /\ YearDay(y) \in Int
      /\ y = [year |-> y.year, d |-> y.d]
    BY <1>1 DEF YearState, YearDay
<1>3. ASSUME y.d < l PROVE YearEnd(y) = y
    <2>1. InYear(y.year, YearDay(y))
        BY <1>1, <1>2, <1>3 DEF InYear
    <2>2. YearOf(YearDay(y)) \in Nat /\ InYear(YearOf(YearDay(y)), YearDay(y))
        BY <2>1, <1>2 DEF YearOf
    <2>3. YearOf(YearDay(y)) = y.year
        BY <1>2, <2>1, <2>2, YearUnique
    <2>4. YearDay(y) - a = y.d
        BY <1>2
    <2> QED BY <1>1, <1>2, <2>3, <2>4 DEF YearEnd
<1>4. ASSUME ~(y.d < l) PROVE next \in YearState /\ next.d < y.d /\ YearEnd(next) = YearEnd(y)
    <2>1. next.year = y.year + 1 /\ next.d = y.d - l
        BY <1>1
    <2>2. y.d - l \in Nat /\ y.d - l < y.d /\ (a + l) + (y.d - l) = a + y.d /\ y.year + 1 \in Nat
        BY <1>2, <1>4
    <2>3. YearDay(next) = YearDay(y)
        BY <1>1, <1>2, <2>1, <2>2 DEF YearDay
    <2>4. next \in YearState
        BY <1>1, <2>2 DEF YearState
    <2> HIDE DEF next
    <2> QED BY <2>1, <2>2, <2>3, <2>4 DEF YearEnd
<1> HIDE DEF next
<1>5. /\ y.d < days_in_year(y.year) => YearEnd(y) = y
      /\ ~(y.d < days_in_year(y.year)) =>
            next \in YearState /\ next.d < y.d /\ YearEnd(next) = YearEnd(y)
    BY <1>1, <1>3, <1>4
<1> QED BY <1>5 DEF next

\* The loop over the years ends in the year its day is in.
LEMMA YearFound == ASSUME NEW y \in YearState PROVE YearLoop[y] = YearEnd(y)
<1> DEFINE Next(x) == [year |-> x.year + 1, d |-> x.d - days_in_year(x.year)]
           Stop(x) == x.d < days_in_year(x.year)
           Eq(f) == f = [x \in YearState |-> IF Stop(x) THEN x ELSE f[Next(x)]]
           F == [x \in YearState |-> YearEnd(x)]
<1>1. ASSUME NEW x \in YearState
      PROVE  /\ Stop(x) => YearEnd(x) = x
             /\ ~Stop(x) => Next(x) \in YearState /\ Next(x).d < x.d /\ YearEnd(Next(x)) = YearEnd(x)
    BY YearTurn
<1> HIDE DEF Stop, Next
<1>2. Eq(F)
    <2> SUFFICES ASSUME NEW x \in YearState
                 PROVE  YearEnd(x) = IF Stop(x) THEN x ELSE F[Next(x)]
        OBVIOUS
    <2> QED BY <1>1
<1>3. \E f : Eq(f)
    <2> HIDE DEF F
    <2> QED BY <1>2
<1>4. Eq(YearLoop)
    <2>1. YearLoop = CHOOSE f : Eq(f)
        BY DEF YearLoop, YearState, Stop, Next
    <2> HIDE DEF Eq
    <2> QED BY <1>3, <2>1
<1>5. \A x \in YearState : YearLoop[x] = IF Stop(x) THEN x ELSE YearLoop[Next(x)]
    BY <1>4
<1> HIDE DEF Eq
<1> DEFINE Wrong(k) == \E x \in YearState : x.d = k /\ YearLoop[x] # YearEnd(x)
           S == {k \in Nat : Wrong(k)}
<1>6. CASE S = {}
    <2>1. y.d \in Nat
        BY DEF YearState
    <2> QED BY <1>6, <2>1
<1>7. CASE S # {}
    <2>1. PICK k \in S : \A j \in S : k <= j
        <3>1. S \in SUBSET Nat
            OBVIOUS
        <3> HIDE DEF S
        <3> QED BY <1>7, <3>1, HasLeast
    <2>2. PICK x \in YearState : x.d = k /\ YearLoop[x] # YearEnd(x)
        BY <2>1
    <2>3. ~Stop(x)
        BY <1>1, <1>5, <2>2
    <2>4. PICK z \in YearState : z = Next(x) /\ z.d < k /\ YearEnd(z) = YearEnd(x)
        BY <1>1, <2>2, <2>3
    <2>5. YearLoop[z] # YearEnd(z)
        BY <1>5, <2>2, <2>3, <2>4
    <2>6. z.d \in Nat /\ k \in Nat
        BY <2>1 DEF YearState
    <2>7. z.d \in S
        BY <2>5, <2>6
    <2> HIDE DEF S
    <2> QED BY <2>1, <2>4, <2>6, <2>7
<1> QED BY <1>6, <1>7


LEMMA MonthInYear ==
    ASSUME NEW y \in Nat, NEW m \in 0 .. 11
    PROVE  /\ MonthStart(y, m) \in Nat /\ MonthStart(y, m + 1) \in Nat
           /\ MonthStart(y, m + 1) <= days_in_year(y)
           /\ MonthStart(y, 0) = 0 /\ MonthStart(y, 12) = days_in_year(y)
<1>1. m \in {0, 1, 2, 3, 4, 5, 6, 7, 8, 9, 10, 11}
    OBVIOUS
<1> QED BY <1>1 DEF MonthStart, MonthStarts, days_in_year

LEMMA MonthStartType == ASSUME NEW y \in Nat, NEW m \in 0 .. 12 PROVE MonthStart(y, m) \in Nat
<1>1. m \in {0, 1, 2, 3, 4, 5, 6, 7, 8, 9, 10, 11, 12}
    OBVIOUS
<1> QED BY <1>1 DEF MonthStart, MonthStarts

\* The day t of the year y is in its month m; 12 is behind the year.
InMonth(y, m, t) == MonthStart(y, m) <= t /\ (m = 12 \/ t < MonthStart(y, m + 1))
MonthOf(y, t) == CHOOSE m \in 0 .. 12 : InMonth(y, m, t)

LEMMA MonthUnique ==
    ASSUME NEW y \in Nat, NEW m \in 0 .. 12, NEW k \in 0 .. 12, NEW t \in Nat,
           InMonth(y, m, t), InMonth(y, k, t)
    PROVE  m = k
<1>1. /\ m \in {0, 1, 2, 3, 4, 5, 6, 7, 8, 9, 10, 11, 12}
      /\ k \in {0, 1, 2, 3, 4, 5, 6, 7, 8, 9, 10, 11, 12}
    OBVIOUS
<1> QED BY <1>1 DEF InMonth, MonthStart, MonthStarts

MonthDay(m) == MonthStart(m.year, m.month) + m.d
MonthEnd(m) == [year |-> m.year, month |-> MonthOf(m.year, MonthDay(m)),
                d |-> MonthDay(m) - MonthStart(m.year, MonthOf(m.year, MonthDay(m)))]
MonthStops(m) == m.month >= 12 \/ m.d < days_in_month(m.year, m.month)
MonthNext(m) == [m EXCEPT !.month = @ + 1, !.d = @ - days_in_month(m.year, m.month)]

LEMMA MonthTurn ==
    ASSUME NEW m \in MonthState
    PROVE  /\ MonthStops(m) => MonthEnd(m) = m
           /\ ~MonthStops(m) => /\ MonthNext(m) \in MonthState
                                /\ MonthNext(m).month > m.month
                                /\ MonthEnd(MonthNext(m)) = MonthEnd(m)
<1>1. PICK y \in Nat, k \in 0 .. 12, d \in Nat : m = [year |-> y, month |-> k, d |-> d]
    BY DEF MonthState
<1>2. PICK a \in Nat : a = MonthStart(y, k)
    BY MonthStartType
<1>3. MonthDay(m) = a + d /\ m.year = y /\ m.month = k /\ m.d = d
    BY <1>1, <1>2 DEF MonthDay
<1>4. ASSUME MonthStops(m) PROVE MonthEnd(m) = m
    <2>1. InMonth(y, k, a + d)
        <3>1. CASE k = 12
            BY <1>2, <3>1 DEF InMonth
        <3>2. CASE k # 12
            <4>1. k \in 0 .. 11 /\ d < days_in_month(y, k)
                BY <1>3, <1>4, <3>2 DEF MonthStops
            <4>2. PICK l \in Nat : l = days_in_month(y, k) /\ MonthStart(y, k + 1) = a + l
                BY <1>2, <4>1, MonthLength
            <4> QED BY <1>2, <4>1, <4>2 DEF InMonth
        <3> QED BY <3>1, <3>2
    <2>2. MonthOf(y, a + d) \in 0 .. 12 /\ InMonth(y, MonthOf(y, a + d), a + d)
        BY <2>1 DEF MonthOf
    <2>3. MonthOf(y, a + d) = k
        <3>1. a + d \in Nat
            OBVIOUS
        <3> QED BY <2>1, <2>2, <3>1, MonthUnique
    <2>4. (a + d) - a = d
        OBVIOUS
    <2> QED BY <1>1, <1>2, <1>3, <2>3, <2>4 DEF MonthEnd
<1>5. ASSUME ~MonthStops(m)
      PROVE  /\ MonthNext(m) \in MonthState /\ MonthNext(m).month > m.month
             /\ MonthEnd(MonthNext(m)) = MonthEnd(m)
    <2>1. k \in 0 .. 11 /\ ~(d < days_in_month(y, k))
        BY <1>3, <1>5 DEF MonthStops
    <2>2. PICK l \in Nat : l = days_in_month(y, k) /\ MonthStart(y, k + 1) = a + l
        BY <1>2, <2>1, MonthLength
    <2>3. d - l \in Nat /\ k + 1 \in 0 .. 12 /\ k + 1 > k /\ (a + l) + (d - l) = a + d
        BY <2>1, <2>2
    <2>4. MonthNext(m) = [year |-> y, month |-> k + 1, d |-> d - l]
        <3>1. MonthNext(m) = [m EXCEPT !.month = k + 1, !.d = d - l]
            BY <1>3, <2>2 DEF MonthNext
        <3> QED BY <1>1, <3>1
    <2>5. MonthNext(m) \in MonthState /\ MonthNext(m).month > m.month
        BY <1>3, <2>3, <2>4 DEF MonthState
    <2>6. MonthDay(MonthNext(m)) = MonthDay(m) /\ MonthNext(m).year = m.year
        BY <1>3, <2>2, <2>3, <2>4 DEF MonthDay
    <2> QED BY <2>5, <2>6 DEF MonthEnd
<1> QED BY <1>4, <1>5

\* The loop over the months ends in the month its day is in.
LEMMA MonthFound == ASSUME NEW m \in MonthState PROVE MonthLoop[m] = MonthEnd(m)
<1> DEFINE Eq(f) == f = [x \in MonthState |-> IF MonthStops(x) THEN x ELSE f[MonthNext(x)]]
           F == [x \in MonthState |-> MonthEnd(x)]
<1>2. Eq(F)
    <2> SUFFICES ASSUME NEW x \in MonthState
                 PROVE  MonthEnd(x) = IF MonthStops(x) THEN x ELSE F[MonthNext(x)]
        OBVIOUS
    <2> QED BY MonthTurn
<1>3. \E f : Eq(f)
    <2> HIDE DEF F
    <2> QED BY <1>2
<1>4. Eq(MonthLoop)
    <2>1. MonthLoop = CHOOSE f : Eq(f)
        BY DEF MonthLoop, MonthState, MonthStops, MonthNext
    <2> HIDE DEF Eq
    <2> QED BY <1>3, <2>1
<1>5. \A x \in MonthState : MonthLoop[x] = IF MonthStops(x) THEN x ELSE MonthLoop[MonthNext(x)]
    BY <1>4
<1> HIDE DEF Eq
<1> DEFINE Wrong(k) == \E x \in MonthState : 12 - x.month = k /\ MonthLoop[x] # MonthEnd(x)
           S == {k \in Nat : Wrong(k)}
<1>6. CASE S = {}
    <2>1. 12 - m.month \in Nat
        BY DEF MonthState
    <2> QED BY <1>6, <2>1
<1>7. CASE S # {}
    <2>1. PICK k \in S : \A j \in S : k <= j
        <3>1. S \in SUBSET Nat
            OBVIOUS
        <3> HIDE DEF S
        <3> QED BY <1>7, <3>1, HasLeast
    <2>2. PICK x \in MonthState : 12 - x.month = k /\ MonthLoop[x] # MonthEnd(x)
        BY <2>1
    <2>3. ~MonthStops(x)
        BY <1>5, <2>2, MonthTurn
    <2>4. PICK z \in MonthState :
              z = MonthNext(x) /\ z.month > x.month /\ MonthEnd(z) = MonthEnd(x)
        BY <2>2, <2>3, MonthTurn
    <2>5. MonthLoop[z] # MonthEnd(z)
        BY <1>5, <2>2, <2>3, <2>4
    <2>6. 12 - z.month \in Nat /\ 12 - z.month < k /\ k \in Nat
        BY <2>1, <2>2, <2>4 DEF MonthState
    <2>7. 12 - z.month \in S
        BY <2>5, <2>6
    <2> HIDE DEF S
    <2> QED BY <2>1, <2>6, <2>7
<1> QED BY <1>6, <1>7

-----------------------------------------------------------------------------
\* The date on the wall is that of its day, a day that the year and the month have.
CalendarInv ==
    /\ days \in Nat
    /\ date \in [wday : 0 .. 6, month : 0 .. 11, mday : Nat, year : Nat]
    /\ date.wday = (days + 4) % 7
    /\ date.mday \in 1 .. days_in_month(date.year, date.month)
    /\ days = YearStart(date.year) + MonthStart(date.year, date.month) + date.mday - 1

\* The code answers the one date that is of its day.
LEMMA DateFound == CalendarInv => DateIsRight
<1> SUFFICES ASSUME CalendarInv PROVE DateIsRight
    OBVIOUS
<1>1. PICK n \in Nat, y \in Nat, m \in 0 .. 11, w \in 0 .. 6, q \in Nat :
          /\ n = days /\ date = [wday |-> w, month |-> m, mday |-> q, year |-> y]
          /\ w = (n + 4) % 7 /\ q \in 1 .. days_in_month(y, m)
          /\ n = YearStart(y) + MonthStart(y, m) + q - 1
    <2>1. /\ date = [wday |-> date.wday, month |-> date.month, mday |-> date.mday,
                     year |-> date.year]
          /\ date.wday \in 0 .. 6 /\ date.month \in 0 .. 11
          /\ date.mday \in Nat /\ date.year \in Nat
        BY DEF CalendarInv
    <2>2. /\ days \in Nat /\ date.wday = (days + 4) % 7
          /\ date.mday \in 1 .. days_in_month(date.year, date.month)
          /\ days = YearStart(date.year) + MonthStart(date.year, date.month) + date.mday - 1
        BY DEF CalendarInv
    <2> QED BY <2>1, <2>2, Zenon
<1>2. PICK a \in Int, b \in Nat, l \in Nat, c \in Nat :
          /\ a = YearStart(y) /\ b = MonthStart(y, m) /\ l = days_in_month(y, m)
          /\ c = days_in_year(y)
          /\ YearStart(y + 1) = a + c /\ MonthStart(y, m + 1) = b + l /\ b + l <= c
    <2>1. /\ YearStart(y) \in Int /\ days_in_year(y) \in Nat
          /\ YearStart(y + 1) = YearStart(y) + days_in_year(y)
        BY YearLength
    <2>2. days_in_month(y, m) \in Nat /\ MonthStart(y, m + 1) = MonthStart(y, m) + days_in_month(y, m)
        BY MonthLength
    <2>3. MonthStart(y, m) \in Nat /\ MonthStart(y, m + 1) <= days_in_year(y)
        BY MonthInYear
    <2> QED BY <2>1, <2>2, <2>3, Zenon
<1>3. /\ InYear(y, n) /\ n = a + b + q - 1 /\ n - a \in Nat
      /\ InMonth(y, m, n - a) /\ m \in 0 .. 12
    <2>1. /\ YearStart(y) <= n /\ n < YearStart(y + 1) /\ n = a + b + q - 1
          /\ b <= n - a /\ n - a < b + l /\ n - a \in Nat
        BY <1>1, <1>2
    <2> QED BY <1>2, <2>1 DEF InYear, InMonth
<1>4. YearLoop[[year |-> 1970, d |-> n]] = [year |-> y, d |-> n - a]
    <2> DEFINE x == [year |-> 1970, d |-> n]
    <2>1. x \in YearState /\ YearDay(x) = n
        <3>1. YearStart(1970) = 0
            BY DEF YearStart, Leaps
        <3> QED BY <3>1 DEF YearState, YearDay
    <2> HIDE DEF x
    <2>2. YearOf(n) \in Nat /\ InYear(YearOf(n), n)
        BY <1>3 DEF YearOf
    <2>3. YearOf(n) = y
        BY <1>3, <2>2, YearUnique
    <2>4. YearLoop[x] = [year |-> y, d |-> n - a]
        BY <1>2, <2>1, <2>3, YearFound DEF YearEnd
    <2> QED BY <2>4 DEF x
<1>5. MonthLoop[[year |-> y, month |-> 0, d |-> n - a]] = [year |-> y, month |-> m, d |-> q - 1]
    <2> DEFINE x == [year |-> y, month |-> 0, d |-> n - a]
    <2>1. x \in MonthState /\ MonthDay(x) = n - a /\ x.year = y
        <3>1. MonthStart(y, 0) = 0
            BY MonthInYear
        <3> QED BY <1>3, <3>1 DEF MonthState, MonthDay
    <2> HIDE DEF x
    <2>2. MonthOf(y, n - a) \in 0 .. 12 /\ InMonth(y, MonthOf(y, n - a), n - a)
        BY <1>3 DEF MonthOf
    <2>3. MonthOf(y, n - a) = m
        BY <1>3, <2>2, MonthUnique
    <2>4. (n - a) - b = q - 1
        BY <1>3
    <2>5. MonthLoop[x] = [year |-> y, month |-> m, d |-> q - 1]
        BY <1>2, <2>1, <2>3, <2>4, MonthFound DEF MonthEnd
    <2> QED BY <2>5 DEF x
<1>6. (q - 1) + 1 = q
    OBVIOUS
<1> QED BY <1>1, <1>4, <1>5, <1>6 DEF DateIsRight, unix_time_to_utc

LEMMA CalendarStarts == CalendarInit => CalendarInv
<1> SUFFICES ASSUME CalendarInit PROVE CalendarInv
    OBVIOUS
<1>1. 1970 \in Nat /\ YearStart(1970) = 0 /\ MonthStart(1970, 0) = 0
    BY DEF YearStart, Leaps, MonthStart, MonthStarts
<1>2. days_in_month(1970, 0) = 31
    BY DEF days_in_month, mon_days
<1> QED BY <1>1, <1>2 DEF CalendarInit, CalendarInv

LEMMA TurnKeeps == ASSUME CalendarInv, Turn PROVE CalendarInv'
<1>1. PICK n \in Nat, y \in Nat, m \in 0 .. 11, w \in 0 .. 6, q \in Nat :
          /\ n = days /\ date = [wday |-> w, month |-> m, mday |-> q, year |-> y]
          /\ w = (n + 4) % 7 /\ q \in 1 .. days_in_month(y, m)
          /\ n = YearStart(y) + MonthStart(y, m) + q - 1
    <2>1. /\ date = [wday |-> date.wday, month |-> date.month, mday |-> date.mday,
                     year |-> date.year]
          /\ date.wday \in 0 .. 6 /\ date.month \in 0 .. 11
          /\ date.mday \in Nat /\ date.year \in Nat
        BY DEF CalendarInv
    <2>2. /\ days \in Nat /\ date.wday = (days + 4) % 7
          /\ date.mday \in 1 .. days_in_month(date.year, date.month)
          /\ days = YearStart(date.year) + MonthStart(date.year, date.month) + date.mday - 1
        BY DEF CalendarInv
    <2> QED BY <2>1, <2>2, Zenon
<1>2. PICK a \in Int, b \in Nat, l \in Nat, c \in Nat :
          /\ a = YearStart(y) /\ b = MonthStart(y, m) /\ l = days_in_month(y, m)
          /\ l = LengthOf(m, y) /\ c = days_in_year(y)
          /\ YearStart(y + 1) = a + c /\ MonthStart(y, m + 1) = b + l
          /\ MonthStart(y, 12) = c
    <2>1. /\ YearStart(y) \in Int /\ days_in_year(y) \in Nat
          /\ YearStart(y + 1) = YearStart(y) + days_in_year(y)
        BY YearLength
    <2>2. /\ days_in_month(y, m) \in Nat /\ days_in_month(y, m) = LengthOf(m, y)
          /\ MonthStart(y, m + 1) = MonthStart(y, m) + days_in_month(y, m)
        BY MonthLength
    <2>3. MonthStart(y, m) \in Nat /\ MonthStart(y, 12) = days_in_year(y)
        BY MonthInYear
    <2> QED BY <2>1, <2>2, <2>3, Zenon
<1>3. PICK v \in 0 .. 6 : v = (IF w = 6 THEN 0 ELSE w + 1) /\ v = ((n + 1) + 4) % 7
    BY <1>1
<1>4. /\ days' = n + 1
      /\ date' = [wday |-> v,
                  month |-> IF q = l /\ m = 11 THEN 0 ELSE IF q = l THEN m + 1 ELSE m,
                  mday |-> IF q = l THEN 1 ELSE q + 1,
                  year |-> IF q = l /\ m = 11 THEN y + 1 ELSE y]
    BY <1>1, <1>2, <1>3 DEF Turn
<1>5. CASE q # l
    <2>1. date' = [wday |-> v, month |-> m, mday |-> q + 1, year |-> y]
        BY <1>4, <1>5
    <2>2. q + 1 \in 1 .. l /\ n + 1 = a + b + (q + 1) - 1
        BY <1>1, <1>2, <1>5
    <2>3. /\ q + 1 \in 1 .. days_in_month(y, m)
          /\ n + 1 = YearStart(y) + MonthStart(y, m) + (q + 1) - 1
        BY <1>2, <2>2, Zenon
    <2> QED BY <1>3, <1>4, <2>1, <2>3 DEF CalendarInv
<1>6. CASE q = l /\ m # 11
    <2>1. date' = [wday |-> v, month |-> m + 1, mday |-> 1, year |-> y]
        BY <1>4, <1>6
    <2>2. m + 1 \in 0 .. 11 /\ n + 1 = a + (b + l) + 1 - 1
        BY <1>1, <1>2, <1>6
    <2>3. 1 \in 1 .. days_in_month(y, m + 1)
        BY <2>2, MonthLength
    <2> QED BY <1>2, <1>3, <1>4, <2>1, <2>2, <2>3 DEF CalendarInv
<1>7. CASE q = l /\ m = 11
    <2>1. date' = [wday |-> v, month |-> 0, mday |-> 1, year |-> y + 1]
        BY <1>4, <1>7
    <2>2. b + l = c /\ n + 1 = (a + c) + 0 + 1 - 1
        BY <1>1, <1>2, <1>7
    <2>3. y + 1 \in Nat /\ 0 \in 0 .. 11
        BY <1>1
    <2>4. 1 \in 1 .. days_in_month(y + 1, 0) /\ MonthStart(y + 1, 0) = 0
        <3>1. days_in_month(y + 1, 0) \in 28 .. 31
            BY <2>3, MonthLength
        <3>2. MonthStart(y + 1, 0) = 0
            BY <2>3, MonthInYear
        <3> QED BY <3>1, <3>2
    <2> QED BY <1>2, <1>3, <1>4, <2>1, <2>2, <2>3, <2>4 DEF CalendarInv
<1> QED BY <1>5, <1>6, <1>7

\* The date that unix_time_to_utc_str prints is right on every day, however far the
\* calendar is turned: turned day by day, it agrees with the code's two loops.
THEOREM CalendarSafe == CalendarSpec => []DateIsRight
<1>1. CalendarInv /\ [CalendarNext]_calendarVars => CalendarInv'
    <2> SUFFICES ASSUME CalendarInv, [CalendarNext]_calendarVars PROVE CalendarInv'
        OBVIOUS
    <2>1. CASE Turn
        BY <2>1, TurnKeeps
    <2>2. CASE UNCHANGED calendarVars
        BY <2>2 DEF CalendarInv, calendarVars
    <2> QED BY <2>1, <2>2 DEF CalendarNext
<1> QED BY <1>1, CalendarStarts, DateFound, PTL DEF CalendarSpec
=============================================================================
