----------------------------- MODULE TrapProofs -----------------------------
(***************************************************************************)
(* Proofs that a process goes on where it stopped and that traps keep to   *)
(* their stacks, for every number of slots and every program counter.      *)
(*                                                                         *)
(* The invariant says, for every point of the code, what is on the kernel  *)
(* stack in use and in the registers, and for every process that is not    *)
(* running, what its saved context is (Parked).  A process keeps its frames*)
(* on its own stack, with one exception: a timer interrupt in kernel_main, *)
(* which runs with interrupts on, can leave sscratch on the boot stack, and*)
(* then the first traps of the init process go there (Home).               *)
(***************************************************************************)
EXTENDS Trap, TLAPS

Statuses == [SPP : {"U", "S"}, SIE : BOOLEAN, SPIE : BOOLEAN]
Addresses == {UserAddress(n) : n \in 0 .. MaxPc + 1}
             \cup {KernelAddress(k) : k \in KernelPoints}
Pointers == (Slots \cup {PROCS_MAX}) \X Nat
Registers == [t0 : {"none", "live", "spp"}, s : Slots \X (0 .. MaxPc)]
TrapFrames ==
    [kind : {"trap"}, cause : {"timer", "ecall"}, sp : Pointers, regs : Registers,
     user_pc : Addresses, owner : Slots, who : Slots]
WfiFrames == [kind : {"wfi"}, sstatus : Statuses]
Contexts ==
    [kind : {"ctx"}, ra : {"resume", "user_entry", "fork_child_trap_return"},
     sstatus : Statuses, s11 : Addresses]
Frames == TrapFrames \cup WfiFrames \cup Contexts
States == {"unused", "runnable", "waiting", "exited"}

Types ==
    /\ sp \in Pointers /\ sepc \in Addresses /\ sstatus \in Statuses
    /\ sscratch \in Slots \X Nat
    /\ satp \in Slots /\ current_proc \in Slots /\ next \in Slots /\ who \in Slots
    /\ state \in [Slots -> States]
    /\ stack \in [Slots -> Seq(Frames)]
    /\ proc_sp \in [Slots -> Slots \X Nat]
    /\ expect \in [Slots -> [pc : Addresses, regs : Registers]]

ShortStacks == \A p \in Slots : Len(stack[p]) <= 3

Alive(p) == state[p] \in {"runnable", "waiting"}

\* The stacks that may hold the frames of p.
Home(p, k) == k = p \/ (p = init_proc /\ k = 0)

\* Saved at a trap out of user mode, with interrupts off ...
FromUser(status) == status.SPP = "U" /\ status.SIE = FALSE
\* ... and at a trap in the kernel.
FromKernel(status) == status.SPP = "S" /\ status.SIE = FALSE /\ status.SPIE = TRUE

\* p has never run.
Fresh(p) == expect[p].pc = USER_BASE /\ expect[p].regs.s = NoRegs.s

\* f is the frame of a trap of p, and returning from it is what p expects.
TrapOf(p, f) ==
    /\ f \in TrapFrames /\ f.who = p /\ f.sp = USER_SP
    /\ f.regs.s = expect[p].regs.s
    /\ \E u \in UserPcs :
          /\ f.user_pc = UserAddress(u)
          /\ expect[p].pc = UserAddress(IF f.cause = "ecall" THEN u + 1 ELSE u)

\* p has been created and not run; or it gave up the processor in a system
\* call, or it is the child of a fork.
NewBorn(p, k) ==
    /\ k = p /\ Len(stack[k]) = 1
    /\ stack[k][1] \in Contexts /\ stack[k][1].ra = "user_entry"
    /\ FromUser(stack[k][1].sstatus) /\ Fresh(p)
InCall(p, k) ==
    /\ Len(stack[k]) = 2
    /\ TrapOf(p, stack[k][1]) /\ stack[k][1].cause = "ecall"
    /\ stack[k][2] \in Contexts /\ FromUser(stack[k][2].sstatus)
    /\ \/ stack[k][2].ra = "resume"
       \/ stack[k][2].ra = "fork_child_trap_return" /\ stack[k][2].s11 = expect[p].pc

\* The saved context of a process that does not run.
Parked(p) ==
    \E k \in Slots :
        /\ Home(p, k) /\ proc_sp[p] = <<k, Len(stack[k])>>
        /\ NewBorn(p, k) \/ InCall(p, k)

OthersParked(c) == \A p \in Procs \ {c} : Alive(p) => Parked(p)

-----------------------------------------------------------------------------
(* Boot: nobody has been in user mode.                                     *)

BootPoints == {"boot", "yield", "picked", "current"}

BootAt(point) ==
    \/ point \in {"boot", "yield"} /\ current_proc = 0 /\ next = 0 /\ satp = 0
    \/ point = "picked" /\ current_proc = 0 /\ next = init_proc /\ satp = init_proc
    \/ point = "current" /\ current_proc = init_proc /\ next = 0 /\ satp = init_proc

BootTable(point) ==
    /\ \A p \in Procs \ {init_proc} : state[p] = "unused"
    /\ IF point = "boot" THEN state[init_proc] = "unused"
       ELSE /\ state[init_proc] = "runnable"
            /\ proc_sp[init_proc] = <<init_proc, 1>> /\ NewBorn(init_proc, init_proc)

BootStraight ==
    /\ at \in BootPoints /\ BootAt(at) /\ BootTable(at)
    /\ sp = Top(0) /\ sstatus.SIE = TRUE

BootInterrupted(point) ==
    /\ BootAt(point) /\ BootTable(point)
    /\ at \in {"resume", "yield"} /\ (at = "yield" => point = "current")
    /\ sepc = KernelAddress(point) /\ FromKernel(sstatus)
    /\ sp = <<0, 1>> /\ Len(stack[0]) = 1
    /\ stack[0][1] \in TrapFrames /\ stack[0][1].cause = "timer"
    /\ stack[0][1].sp = Top(0) /\ stack[0][1].owner = 0

Booting ==
    /\ mode = "S" /\ who = 0
    /\ sscratch \in {Top(0), Top(init_proc)}
    /\ BootStraight \/ \E point \in BootPoints : BootInterrupted(point)

-----------------------------------------------------------------------------
(* Afterwards: process c runs, or was the last to.                         *)

InUserMode(c) ==
    /\ mode = "U" /\ at = "user" /\ who = c /\ sp = USER_SP
    /\ pc = expect[c].pc /\ regs.s = expect[c].regs.s
    /\ \E k \in Slots : Home(c, k) /\ sscratch = Top(k)
    /\ state[c] = "runnable"

\* The stack in use is k, n deep.
On(c, k, n) == Home(c, k) /\ sp = <<k, n>> /\ Len(stack[k]) = n

AtHandle(c, k) ==
    /\ at = "handle" /\ On(c, k, 1) /\ TrapOf(c, stack[k][1]) /\ stack[k][1].cause = "ecall"
    /\ FromUser(sstatus) /\ sepc = stack[k][1].user_pc /\ state[c] = "runnable"

\* yield() of c, in a system call or because its slice is over.
AtYield(c, k) ==
    /\ at = "yield" /\ On(c, k, 1) /\ FromUser(sstatus) /\ stack[k][1] \in TrapFrames
    /\ Alive(c) => TrapOf(c, stack[k][1])
    /\ stack[k][1].cause = "timer" => state[c] = "runnable" /\ sepc = stack[k][1].user_pc

AtResume(c, k) ==
    /\ at = "resume" /\ On(c, k, 1) /\ FromUser(sstatus) /\ TrapOf(c, stack[k][1])
    /\ state[c] = "runnable"
    /\ stack[k][1].cause = "timer" => sepc = stack[k][1].user_pc

\* wfi in yield() of c, and a timer interrupt in it.
Idle(c, k) ==
    /\ stack[k][1] \in TrapFrames /\ stack[k][1].cause = "ecall"
    /\ Alive(c) => TrapOf(c, stack[k][1])
    /\ stack[k][2] \in WfiFrames /\ FromUser(stack[k][2].sstatus)
AtWfi(c, k) == at = "wfi" /\ On(c, k, 2) /\ Idle(c, k)
InWfi(c, k) ==
    /\ at \in {"resume", "yield"} /\ (at = "yield" => state[c] = "runnable")
    /\ On(c, k, 3) /\ Idle(c, k)
    /\ stack[k][3] \in TrapFrames /\ stack[k][3].cause = "timer" /\ stack[k][3].sp = <<k, 2>>
    /\ sepc = KernelAddress("wfi") /\ FromKernel(sstatus)

AtUserEntry(c, k) ==
    /\ at = "user_entry" /\ Fresh(c) /\ FromUser(sstatus) /\ state[c] = "runnable"
    /\ Home(c, k) /\ sscratch = Top(k)
AtForkReturn(c, k) ==
    /\ at = "fork_child_trap_return" /\ On(c, k, 1) /\ TrapOf(c, stack[k][1])
    /\ sepc = expect[c].pc /\ FromUser(sstatus) /\ sscratch = Top(c)
    /\ state[c] = "runnable"

\* c leaves for p; c may be dead.
Leaving(c, k, p) ==
    /\ On(c, k, 1) /\ FromUser(sstatus) /\ state[c] # "runnable"
    /\ stack[k][1] \in TrapFrames
    /\ Alive(c) => TrapOf(c, stack[k][1]) /\ stack[k][1].cause = "ecall"
    /\ p \in Procs \ {c} /\ state[p] = "runnable" /\ satp = p /\ sscratch = Top(p)

\* c is the current process, with kernel stack k, ...
InKernel(c, k) ==
    /\ mode = "S" /\ current_proc = c /\ satp = c
    /\ \/ AtHandle(c, k) \/ AtYield(c, k) \/ AtResume(c, k) \/ AtWfi(c, k) \/ InWfi(c, k)
       \/ AtUserEntry(c, k) \/ AtForkReturn(c, k)

\* ... or about to be replaced, before or after current_proc is set.
Switching(c, k) ==
    /\ mode = "S"
    /\ \/ at = "picked" /\ current_proc = c /\ Leaving(c, k, next)
       \/ at = "current" /\ next = c /\ Leaving(c, k, current_proc)

Up(c) ==
    /\ OthersParked(c)
    /\ \/ InUserMode(c) /\ current_proc = c /\ satp = c
       \/ \E k \in Slots : InKernel(c, k) \/ Switching(c, k)

TrapInv == Types /\ ShortStacks /\ (Booting \/ \E c \in Procs : Up(c))

-----------------------------------------------------------------------------
(* Stacks.                                                                 *)

LEMMA Shortened ==
    ASSUME NEW s \in Seq(Frames), NEW n \in 0 .. Len(s)
    PROVE  /\ SubSeq(s, 1, n) \in Seq(Frames) /\ Len(SubSeq(s, 1, n)) = n
           /\ \A i \in 1 .. n : SubSeq(s, 1, n)[i] = s[i]
OBVIOUS

LEMMA Appended ==
    ASSUME NEW s \in Seq(Frames), NEW n \in 0 .. Len(s), NEW f \in Frames
    PROVE  /\ Append(SubSeq(s, 1, n), f) \in Seq(Frames)
           /\ Len(Append(SubSeq(s, 1, n), f)) = n + 1
           /\ Append(SubSeq(s, 1, n), f)[n + 1] = f
           /\ \A i \in 1 .. n : Append(SubSeq(s, 1, n), f)[i] = s[i]
<1> DEFINE b == SubSeq(s, 1, n)
<1>1. b \in Seq(Frames) /\ Len(b) = n /\ \A i \in 1 .. n : b[i] = s[i]
  OBVIOUS
<1> HIDE DEF b
<1>2. /\ Append(b, f) \in Seq(Frames) /\ Len(Append(b, f)) = n + 1
      /\ Append(b, f)[n + 1] = f
      /\ \A i \in 1 .. n : Append(b, f)[i] = s[i]
  BY <1>1
<1> QED  BY <1>2 DEF b

\* A push at the top of stack k leaves the new frame alone on it (Push).
LEMMA PushFirst ==
    ASSUME NEW st \in [Slots -> Seq(Frames)], NEW k \in Slots, NEW f \in Frames,
           NEW T, T = [st EXCEPT ![k] = Append(SubSeq(@, 1, 0), f)]
    PROVE  /\ T \in [Slots -> Seq(Frames)]
           /\ Len(T[k]) = 1 /\ T[k][1] = f
           /\ \A j \in Slots \ {k} : T[j] = st[j]
<1> DEFINE s == Append(SubSeq(st[k], 1, 0), f)
<1>1. st[k] \in Seq(Frames) /\ 0 \in 0 .. Len(st[k])
  OBVIOUS
<1>2. /\ s \in Seq(Frames) /\ Len(s) = 0 + 1 /\ s[0 + 1] = f
      /\ \A i \in 1 .. 0 : s[i] = st[k][i]
  BY <1>1, Appended
<1> HIDE DEF s
<1>3. s \in Seq(Frames) /\ Len(s) = 1 /\ s[1] = f
  BY <1>2
<1>4. T = [st EXCEPT ![k] = s]
  BY DEF s
<1> QED  BY <1>3, <1>4

\* ... below one frame ...
SecondOn(T, st, k, f) ==
    /\ T \in [Slots -> Seq(Frames)]
    /\ Len(T[k]) = 2 /\ T[k][1] = st[k][1] /\ T[k][2] = f
    /\ \A j \in Slots \ {k} : T[j] = st[j]

LEMMA PushSecond ==
    ASSUME NEW st \in [Slots -> Seq(Frames)], NEW k \in Slots, Len(st[k]) = 1, NEW f \in Frames,
           NEW T, T = Push(st, <<k, 1>>, f)
    PROVE  SecondOn(T, st, k, f)
<1> DEFINE s == Append(SubSeq(st[k], 1, 1), f)
<1>1. st[k] \in Seq(Frames) /\ 1 \in 0 .. Len(st[k])
  OBVIOUS
<1>2. /\ s \in Seq(Frames) /\ Len(s) = 1 + 1 /\ s[1 + 1] = f
      /\ \A i \in 1 .. 1 : s[i] = st[k][i]
  <2>1. PICK n \in 0 .. Len(st[k]) : n = 1
    BY <1>1
  <2>2. PICK z \in Seq(Frames) : z = st[k]
    BY <1>1
  <2>3. /\ Append(SubSeq(z, 1, n), f) \in Seq(Frames)
        /\ Len(Append(SubSeq(z, 1, n), f)) = n + 1
        /\ Append(SubSeq(z, 1, n), f)[n + 1] = f
        /\ \A i \in 1 .. n : Append(SubSeq(z, 1, n), f)[i] = z[i]
    <3>1. n \in 0 .. Len(z)
      BY <2>1, <2>2
    <3> QED  BY <3>1, Appended, Zenon
  <2> QED  BY <2>1, <2>2, <2>3
<1> HIDE DEF s
<1>3. s \in Seq(Frames) /\ Len(s) = 2 /\ s[1] = st[k][1] /\ s[2] = f
  BY <1>2
<1>4. T = [st EXCEPT ![k] = s]
  BY DEF s, Push
<1> QED  BY <1>3, <1>4 DEF SecondOn

\* ... and below two.
ThirdOn(T, st, k, f) ==
    /\ T \in [Slots -> Seq(Frames)]
    /\ Len(T[k]) = 3 /\ T[k][1] = st[k][1] /\ T[k][2] = st[k][2] /\ T[k][3] = f
    /\ \A j \in Slots \ {k} : T[j] = st[j]

LEMMA PushThird ==
    ASSUME NEW st \in [Slots -> Seq(Frames)], NEW k \in Slots, Len(st[k]) = 2, NEW f \in Frames,
           NEW T, T = Push(st, <<k, 2>>, f)
    PROVE  ThirdOn(T, st, k, f)
<1> DEFINE s == Append(SubSeq(st[k], 1, 2), f)
<1>1. st[k] \in Seq(Frames) /\ 2 \in 0 .. Len(st[k])
  OBVIOUS
<1>2. /\ s \in Seq(Frames) /\ Len(s) = 2 + 1 /\ s[2 + 1] = f
      /\ \A i \in 1 .. 2 : s[i] = st[k][i]
  <2>1. PICK n \in 0 .. Len(st[k]) : n = 2
    BY <1>1
  <2>2. PICK z \in Seq(Frames) : z = st[k]
    BY <1>1
  <2>3. /\ Append(SubSeq(z, 1, n), f) \in Seq(Frames)
        /\ Len(Append(SubSeq(z, 1, n), f)) = n + 1
        /\ Append(SubSeq(z, 1, n), f)[n + 1] = f
        /\ \A i \in 1 .. n : Append(SubSeq(z, 1, n), f)[i] = z[i]
    <3>1. n \in 0 .. Len(z)
      BY <2>1, <2>2
    <3> QED  BY <3>1, Appended, Zenon
  <2> QED  BY <2>1, <2>2, <2>3
<1> HIDE DEF s
<1>3. s \in Seq(Frames) /\ Len(s) = 3 /\ s[1] = st[k][1] /\ s[2] = st[k][2] /\ s[3] = f
  BY <1>2
<1>4. T = [st EXCEPT ![k] = s]
  BY DEF s, Push
<1> QED  BY <1>3, <1>4 DEF ThirdOn

\* A pop takes the last frame off (Pop).
LEMMA PopFirst ==
    ASSUME NEW st \in [Slots -> Seq(Frames)], NEW k \in Slots, Len(st[k]) = 1,
           NEW T, T = [st EXCEPT ![k] = SubSeq(@, 1, 1 - 1)]
    PROVE  /\ T \in [Slots -> Seq(Frames)]
           /\ Len(T[k]) = 0
           /\ \A j \in Slots \ {k} : T[j] = st[j]
<1> DEFINE s == SubSeq(st[k], 1, 1 - 1)
<1>1. st[k] \in Seq(Frames) /\ 1 - 1 \in 0 .. Len(st[k])
  OBVIOUS
<1>2. /\ s \in Seq(Frames) /\ Len(s) = 1 - 1
      /\ \A i \in 1 .. 1 - 1 : s[i] = st[k][i]
  BY <1>1, Shortened
<1> HIDE DEF s
<1>3. s \in Seq(Frames) /\ Len(s) = 0
  BY <1>2
<1>4. T = [st EXCEPT ![k] = s]
  BY DEF s
<1> QED  BY <1>3, <1>4

\* ... of two ...
LEMMA PopSecond ==
    ASSUME NEW st \in [Slots -> Seq(Frames)], NEW k \in Slots, Len(st[k]) = 2,
           NEW T, T = [st EXCEPT ![k] = SubSeq(@, 1, 2 - 1)]
    PROVE  /\ T \in [Slots -> Seq(Frames)]
           /\ Len(T[k]) = 1 /\ T[k][1] = st[k][1]
           /\ \A j \in Slots \ {k} : T[j] = st[j]
<1> DEFINE s == SubSeq(st[k], 1, 2 - 1)
<1>1. st[k] \in Seq(Frames) /\ 2 - 1 \in 0 .. Len(st[k])
  OBVIOUS
<1>2. /\ s \in Seq(Frames) /\ Len(s) = 2 - 1
      /\ \A i \in 1 .. 2 - 1 : s[i] = st[k][i]
  BY <1>1, Shortened
<1> HIDE DEF s
<1>3. s \in Seq(Frames) /\ Len(s) = 1 /\ s[1] = st[k][1]
  BY <1>2
<1>4. T = [st EXCEPT ![k] = s]
  BY DEF s
<1> QED  BY <1>3, <1>4

\* ... and of three.
LEMMA PopThird ==
    ASSUME NEW st \in [Slots -> Seq(Frames)], NEW k \in Slots, Len(st[k]) = 3,
           NEW T, T = [st EXCEPT ![k] = SubSeq(@, 1, 3 - 1)]
    PROVE  /\ T \in [Slots -> Seq(Frames)]
           /\ Len(T[k]) = 2 /\ T[k][1] = st[k][1] /\ T[k][2] = st[k][2]
           /\ \A j \in Slots \ {k} : T[j] = st[j]
<1> DEFINE s == SubSeq(st[k], 1, 3 - 1)
<1>1. st[k] \in Seq(Frames) /\ 3 - 1 \in 0 .. Len(st[k])
  OBVIOUS
<1>2. /\ s \in Seq(Frames) /\ Len(s) = 3 - 1
      /\ \A i \in 1 .. 3 - 1 : s[i] = st[k][i]
  BY <1>1, Shortened
<1> HIDE DEF s
<1>3. s \in Seq(Frames) /\ Len(s) = 2 /\ s[1] = st[k][1] /\ s[2] = st[k][2]
  BY <1>2
<1>4. T = [st EXCEPT ![k] = s]
  BY DEF s
<1> QED  BY <1>3, <1>4

\* A step that changes one stack, and leaves it short, leaves all short.
LEMMA ShortKept ==
    ASSUME ShortStacks, NEW k \in Slots, Len(stack'[k]) <= 3,
           \A j \in Slots \ {k} : stack'[j] = stack[j]
    PROVE  ShortStacks'
<1> SUFFICES ASSUME NEW p \in Slots PROVE Len(stack'[p]) <= 3
  BY DEF ShortStacks
<1> QED  BY DEF ShortStacks

\* No stack is home to two processes.
LEMMA HomesDiffer ==
    ASSUME NEW p \in Procs, NEW q \in Procs \ {p}, NEW k, Home(p, k)
    PROVE  ~Home(q, k)
BY DEF Home, Procs, init_proc

LEMMA HomeIsSlot ==
    ASSUME NEW p \in Procs, NEW k, Home(p, k)
    PROVE  k \in Slots
BY ProcsAssumption DEF Home, Procs, Slots, init_proc

LEMMA ProcIsSlot == Procs \subseteq Slots /\ 0 \in Slots /\ init_proc \in Procs /\ 0 \notin Procs
BY ProcsAssumption DEF Procs, Slots, init_proc

-----------------------------------------------------------------------------
(* The scan of yield().                                                    *)

\* A process that can go on is not left for another one, which is why the
\* timer's yield() never switches (yield).
LEMMA ScanStays ==
    ASSUME Types, Schedulable(current_proc)
    PROVE  Scan(current_proc) /\ \A p : Scan(p) => p = current_proc
<1>1. HasPid(current_proc) /\ current_proc \in 0 .. PROCS_MAX - 1
  BY DEF Types, Schedulable, Slots
<1>2. ScanFrom(0) = current_proc
  BY <1>1, ProcsAssumption DEF ScanFrom
<1>3. Scan(current_proc)
  <2>1. 0 \in 0 .. PROCS_MAX - 1 /\ \A j \in 0 .. 0 - 1 : ~Schedulable(ScanFrom(j))
    BY ProcsAssumption
  <2> QED  BY <2>1, <1>2 DEF Scan
<1>4. ASSUME NEW p, Scan(p) PROVE p = current_proc
  <2>1. PICK i \in 0 .. PROCS_MAX - 1 :
            /\ ScanFrom(i) = p /\ Schedulable(p)
            /\ \A j \in 0 .. i - 1 : ~Schedulable(ScanFrom(j))
    BY <1>4 DEF Scan
  <2>2. CASE i = 0
    BY <2>1, <2>2, <1>2
  <2>3. CASE i # 0
    <3>1. 0 \in 0 .. i - 1
      BY <2>3, ProcsAssumption
    <3> QED  BY <3>1, <2>1, <1>2
  <2> QED  BY <2>2, <2>3
<1> QED  BY <1>3, <1>4

\* What the scan finds is a process that can run.
LEMMA ScanFinds ==
    ASSUME NEW p \in Slots, Scan(p)
    PROVE  p \in Procs /\ state[p] = "runnable"
BY ProcsAssumption DEF Scan, Schedulable, HasPid, Procs, Slots

\* At boot the init process is the only one, and the scan finds it.
LEMMA ScanAtBoot ==
    ASSUME current_proc = 0, state[init_proc] = "runnable"
    PROVE  \E p \in Slots : Scan(p)
<1>1. \A i \in 0 .. PROCS_MAX - 1 : ScanFrom(i) = i
  BY ProcsAssumption DEF ScanFrom, HasPid
<1>2. ~Schedulable(0) /\ Schedulable(init_proc)
  BY DEF Schedulable, HasPid, init_proc
<1>3. \A j \in 0 .. 1 - 1 : ~Schedulable(ScanFrom(j))
  BY <1>1, <1>2, ProcsAssumption
<1>4. Scan(init_proc)
  <2>1. 1 \in 0 .. PROCS_MAX - 1 /\ ScanFrom(1) = init_proc
    BY <1>1, ProcsAssumption DEF init_proc
  <2> QED  BY <2>1, <1>2, <1>3 DEF Scan
<1> QED  BY <1>4, ProcIsSlot

-----------------------------------------------------------------------------
(* Processes that do not take part in a step.                              *)

\* A process stays parked while its stack, its saved pointer and what it
\* expects are left alone.
LEMMA ParkedKept ==
    ASSUME NEW q \in Procs, Parked(q), proc_sp'[q] = proc_sp[q], expect'[q] = expect[q],
           \A k \in Slots : Home(q, k) => stack'[k] = stack[k]
    PROVE  Parked(q)'
<1>1. PICK k \in Slots :
          /\ Home(q, k) /\ proc_sp[q] = <<k, Len(stack[k])>>
          /\ NewBorn(q, k) \/ InCall(q, k)
  BY DEF Parked
<1>2. stack'[k] = stack[k]
  BY <1>1
<1>3. NewBorn(q, k)' \/ InCall(q, k)'
  <2>1. CASE NewBorn(q, k)
    BY <2>1, <1>2 DEF NewBorn, Fresh
  <2>2. CASE InCall(q, k)
    <3>1. TrapOf(q, stack[k][1])'
      BY <2>2, <1>2 DEF InCall, TrapOf
    <3> QED  BY <3>1, <2>2, <1>2 DEF InCall
  <2> QED  BY <2>1, <2>2, <1>1
<1> QED  BY <1>1, <1>2, <1>3 DEF Parked, Home

\* While c runs on stack k, the others stay parked.
LEMMA OthersKept ==
    ASSUME NEW c \in Procs, NEW k, Home(c, k), OthersParked(c), proc_sp' = proc_sp,
           \A q \in Procs \ {c} : expect'[q] = expect[q],
           \A q \in Procs \ {c} : Alive(q)' => Alive(q),
           \A j \in Slots \ {k} : stack'[j] = stack[j]
    PROVE  OthersParked(c)'
<1> SUFFICES ASSUME NEW q \in Procs \ {c}, Alive(q)'
             PROVE  Parked(q)'
  BY DEF OthersParked
<1>1. Parked(q)
  BY DEF OthersParked
<1>2. \A j \in Slots : Home(q, j) => stack'[j] = stack[j]
  BY HomesDiffer
<1> QED  BY <1>1, <1>2, ParkedKept

-----------------------------------------------------------------------------
(* Traps out of user mode.                                                 *)

LEMMA AddressKinds ==
    /\ \A n \in 0 .. MaxPc + 1 : UserAddress(n) \in Addresses
    /\ \A k \in KernelPoints : KernelAddress(k) \in Addresses
BY DEF Addresses

LEMMA PointerKinds ==
    /\ USER_SP \in Pointers
    /\ \A k \in Slots, n \in Nat : <<k, n>> \in Pointers
BY ProcsAssumption DEF Pointers, USER_SP

LEMMA RegisterKinds ==
    ASSUME NEW p \in Slots, NEW upc \in UserPcs
    PROVE  /\ NoRegs \in Registers /\ NoRegs.s = <<0, 0>>
           /\ UserRegs(p, upc) \in Registers /\ UserRegs(p, upc).s = <<p, upc>>
           /\ Saved(UserRegs(p, upc)) \in Registers
           /\ Saved(UserRegs(p, upc)).s = <<p, upc>>
           /\ Saved(NoRegs) \in Registers
<1>1. 0 \in Slots /\ upc \in 0 .. MaxPc /\ 0 \in 0 .. MaxPc
  BY ProcsAssumption, PcAssumption DEF Slots, UserPcs
<1> QED  BY <1>1 DEF Registers, NoRegs, UserRegs, Saved

\* In user mode the process that runs is the current one.
LEMMA UserUp ==
    ASSUME NEW c \in Procs, Up(c), mode = "U"
    PROVE  InUserMode(c) /\ current_proc = c /\ satp = c /\ OthersParked(c)
BY DEF Up, InKernel, Switching

\* After kernel_entry the stack of the process holds the frame of the trap,
\* alone, and returning from it is what the process expects.
EntryFacts(c, k, cause) ==
    /\ Home(c, k) /\ On(c, k, 1)' /\ TrapOf(c, stack[k][1])'
    /\ stack'[k][1].cause = cause
    /\ FromUser(sstatus') /\ sepc' = stack'[k][1].user_pc
    /\ current_proc' = c /\ mode' = "S"
    /\ \A j \in Slots \ {k} : stack'[j] = stack[j]
    /\ \A q \in Procs \ {c} : expect'[q] = expect[q]
    /\ sp' \in Pointers /\ sepc' \in Addresses /\ sstatus' \in Statuses
    /\ sscratch' \in Slots \X Nat /\ stack' \in [Slots -> Seq(Frames)]
    /\ expect' \in [Slots -> [pc : Addresses, regs : Registers]]
    /\ ShortStacks'

LEMMA UserTrap ==
    ASSUME Types, ShortStacks, NEW c \in Procs, InUserMode(c), current_proc = c,
           NEW upc \in UserPcs, NEW cause \in {"timer", "ecall"},
           UserRan(upc, UserAddress(IF cause = "ecall" THEN upc + 1 ELSE upc)),
           kernel_entry(cause, UserAddress(upc), UserRegs(who, upc))
    PROVE  \E k \in Slots : EntryFacts(c, k, cause)
<1> USE ProcIsSlot
<1>1. PICK k \in Slots : Home(c, k) /\ sscratch = Top(k)
  BY DEF InUserMode
<1> DEFINE r == UserRegs(c, upc)
           f == [kind |-> "trap", cause |-> cause, sp |-> sp, regs |-> Saved(r),
                 user_pc |-> UserAddress(upc), owner |-> k, who |-> c]
           e == [pc |-> UserAddress(IF cause = "ecall" THEN upc + 1 ELSE upc), regs |-> r]
<1>2. mode = "U" /\ who = c /\ sp = USER_SP /\ Top(k) = <<k, 0>>
  BY DEF InUserMode, Top
<1>3. /\ UserAddress(upc) \in Addresses
      /\ UserAddress(IF cause = "ecall" THEN upc + 1 ELSE upc) \in Addresses
  <2>1. upc \in 0 .. MaxPc + 1 /\ upc + 1 \in 0 .. MaxPc + 1
    BY PcAssumption DEF UserPcs
  <2> QED  BY <2>1, AddressKinds
<1>4. f \in TrapFrames
  <2>1. Saved(r) \in Registers /\ sp \in Pointers
    BY RegisterKinds, <1>2, PointerKinds
  <2> QED  BY <2>1, <1>3 DEF TrapFrames
<1>5. /\ sepc' = UserAddress(upc)
      /\ sstatus' = [SPP |-> "U", SIE |-> FALSE, SPIE |-> sstatus.SIE]
      /\ mode' = "S" /\ sp' = <<k, 1>> /\ sscratch' = <<k, 0>>
      /\ stack' = Push(stack, <<k, 0>>, f)
      /\ current_proc' = IF k > 0 THEN k ELSE current_proc
  BY <1>1, <1>2 DEF kernel_entry, process_from_trap_frame, Below
<1>6. current_proc' = c
  BY <1>1, <1>5 DEF Home, Slots, Procs, init_proc
<1>7. expect' = [expect EXCEPT ![c] = e]
  BY <1>2 DEF UserRan
<1>8. /\ stack' \in [Slots -> Seq(Frames)]
      /\ Len(stack'[k]) = 1 /\ stack'[k][1] = f
      /\ \A j \in Slots \ {k} : stack'[j] = stack[j]
  <2>1. stack \in [Slots -> Seq(Frames)] /\ f \in Frames
    BY <1>4 DEF Types, Frames
  <2>2. stack' = [stack EXCEPT ![k] = Append(SubSeq(@, 1, 0), f)]
    BY <1>5 DEF Push
  <2> HIDE DEF f
  <2> QED  BY <2>1, <2>2, PushFirst
<1>9. e \in [pc : Addresses, regs : Registers]
  BY <1>3, RegisterKinds
<1>10. /\ expect' \in [Slots -> [pc : Addresses, regs : Registers]]
       /\ expect'[c] = e /\ \A q \in Procs \ {c} : expect'[q] = expect[q]
  <2> HIDE DEF e
  <2> QED  BY <1>7, <1>9 DEF Types
<1>11. TrapOf(c, stack[k][1])'
  <2>1. f.who = c /\ f.sp = USER_SP /\ f.user_pc = UserAddress(upc) /\ f.cause = cause
    BY <1>2
  <2>2. f.regs.s = e.regs.s
    BY RegisterKinds
  <2>3. e.pc = UserAddress(IF f.cause = "ecall" THEN upc + 1 ELSE upc)
    OBVIOUS
  <2> HIDE DEF f, e
  <2> QED  BY <2>1, <2>2, <2>3, <1>4, <1>8, <1>10 DEF TrapOf
<1>12. /\ stack'[k][1].cause = cause /\ sepc' = stack'[k][1].user_pc
  BY <1>8, <1>5
<1>13. sstatus' \in Statuses /\ FromUser(sstatus')
  BY <1>5 DEF Statuses, FromUser, Types
<1>14. ShortStacks'
  <2> HIDE DEF f
  <2>1. Len(stack'[k]) <= 3
    BY <1>8
  <2> QED  BY <2>1, <1>8, ShortKept
<1>15. sp' \in Pointers /\ sscratch' \in Slots \X Nat /\ On(c, k, 1)'
  BY <1>1, <1>5, <1>8, PointerKinds DEF On, Home
<1> QED  BY <1>1, <1>3, <1>5, <1>6, <1>8, <1>10, <1>11, <1>12, <1>13, <1>14, <1>15 DEF EntryFacts

\* The timer wakes processes and does nothing else to the table (TimerCase).
LEMMA TimerWakes ==
    ASSUME Types, TimerCase
    PROVE  /\ state' \in [Slots -> States]
           /\ \A p \in Slots : Alive(p)' <=> Alive(p)
           /\ \A p \in Slots : state[p] # "waiting" => state'[p] = state[p]
           /\ at' \in {"resume", "yield"}
           /\ at' = "yield" => state'[current_proc'] = "runnable"
           /\ satp' = satp /\ next' = next /\ proc_sp' = proc_sp /\ who' = who
<1>1. PICK W \in SUBSET {p \in Procs : state[p] = "waiting"} :
          state' = [p \in Slots |-> IF p \in W THEN "runnable" ELSE state[p]]
  BY DEF TimerCase
<1>2. state \in [Slots -> States]
  BY DEF Types
<1>3. \A p \in Slots : state'[p] = IF p \in W THEN "runnable" ELSE state[p]
  BY <1>1
<1>4. \A p \in W : state[p] = "waiting"
  OBVIOUS
<1>5. state' \in [Slots -> States]
  BY <1>1, <1>2 DEF States
<1>6. \A p \in Slots : Alive(p)' <=> Alive(p)
  BY <1>3, <1>4 DEF Alive
<1> QED  BY <1>3, <1>4, <1>5, <1>6 DEF TimerCase

LEMMA TimerInUserStep ==
    ASSUME Types, ShortStacks, NEW c \in Procs, Up(c), NEW upc \in UserPcs, TimerInUser(upc)
    PROVE  Types' /\ ShortStacks' /\ Up(c)'
<1>1. mode = "U"
  BY DEF TimerInUser, UserRan
<1>2. InUserMode(c) /\ current_proc = c /\ satp = c /\ OthersParked(c)
  BY <1>1, UserUp
<1>3. PICK k \in Slots : EntryFacts(c, k, "timer")
  <2>1. /\ UserRan(upc, UserAddress(IF "timer" = "ecall" THEN upc + 1 ELSE upc))
        /\ kernel_entry("timer", UserAddress(upc), UserRegs(who, upc))
    BY DEF TimerInUser
  <2> QED  BY <1>2, <2>1, UserTrap
<1>4. /\ state' \in [Slots -> States]
      /\ \A p \in Slots : Alive(p)' <=> Alive(p)
      /\ \A p \in Slots : state[p] # "waiting" => state'[p] = state[p]
      /\ at' \in {"resume", "yield"}
      /\ satp' = satp /\ next' = next /\ proc_sp' = proc_sp /\ who' = who
  BY TimerWakes DEF TimerInUser
<1>5. c \in Slots /\ state'[c] = "runnable"
  BY <1>2, <1>4, ProcIsSlot DEF InUserMode
<1>6. Types'
  BY <1>3, <1>4, <1>5 DEF Types, EntryFacts
<1>7. OthersParked(c)'
  BY <1>2, <1>3, <1>4, ProcIsSlot, OthersKept DEF EntryFacts
<1>8. InKernel(c, k)'
  <2>1. stack'[k][1] \in TrapFrames
    BY <1>3 DEF EntryFacts, TrapOf
  <2>2. AtResume(c, k)' \/ AtYield(c, k)'
    BY <1>3, <1>4, <1>5, <2>1 DEF EntryFacts, AtResume, AtYield
  <2> QED  BY <2>2, <1>2, <1>3, <1>4 DEF InKernel, EntryFacts
<1> QED  BY <1>3, <1>6, <1>7, <1>8 DEF Up, EntryFacts

LEMMA EcallStep ==
    ASSUME Types, ShortStacks, NEW c \in Procs, Up(c), NEW upc \in UserPcs, Ecall(upc)
    PROVE  Types' /\ ShortStacks' /\ Up(c)'
<1>1. mode = "U"
  BY DEF Ecall, UserRan
<1>2. InUserMode(c) /\ current_proc = c /\ satp = c /\ OthersParked(c)
  BY <1>1, UserUp
<1>3. PICK k \in Slots : EntryFacts(c, k, "ecall")
  <2>1. /\ UserRan(upc, UserAddress(IF "ecall" = "ecall" THEN upc + 1 ELSE upc))
        /\ kernel_entry("ecall", UserAddress(upc), UserRegs(who, upc))
    BY DEF Ecall
  <2> QED  BY <1>2, <2>1, UserTrap
<1>4. /\ at' = "handle"
      /\ satp' = satp /\ next' = next /\ state' = state /\ proc_sp' = proc_sp /\ who' = who
  BY DEF Ecall
<1>5. c \in Slots /\ state'[c] = "runnable"
  BY <1>2, <1>4, ProcIsSlot DEF InUserMode
<1>6. Types'
  BY <1>3, <1>4, <1>5 DEF Types, EntryFacts
<1>7. OthersParked(c)'
  <2>1. \A q \in Procs \ {c} : Alive(q)' => Alive(q)
    BY <1>4 DEF Alive
  <2> QED  BY <1>2, <1>3, <1>4, <2>1, OthersKept DEF EntryFacts
<1>8. InKernel(c, k)'
  <2>1. AtHandle(c, k)'
    BY <1>3, <1>4, <1>5 DEF EntryFacts, AtHandle
  <2> QED  BY <2>1, <1>2, <1>3, <1>4 DEF InKernel, EntryFacts
<1> QED  BY <1>3, <1>6, <1>7, <1>8 DEF Up, EntryFacts

-----------------------------------------------------------------------------
(* Returns to user mode.                                                   *)

\* Current and on its kernel stack k.
Current(c, k) ==
    mode = "S" /\ current_proc = c /\ satp = c /\ OthersParked(c) /\ On(c, k, 1)

\* A return from the only frame of stack k.
LeavesKernel(c, k) ==
    /\ mode' = "U" /\ at' = "user"
    /\ sp' = stack[k][1].sp /\ regs' = stack[k][1].regs /\ who' = stack[k][1].who
    /\ pc' = expect'[c].pc /\ sepc' \in Addresses /\ sstatus' \in Statuses
    /\ \E h \in Slots : Home(c, h) /\ sscratch' = Top(h)
    /\ stack' = [stack EXCEPT ![k] = SubSeq(@, 1, 1 - 1)]
    /\ satp' = satp /\ current_proc' = current_proc /\ next' = next /\ state' = state
    /\ proc_sp' = proc_sp
    /\ expect' \in [Slots -> [pc : Addresses, regs : Registers]]
    /\ expect'[c].regs = expect[c].regs
    /\ \A q \in Procs \ {c} : expect'[q] = expect[q]

LEMMA ReturnToUser ==
    ASSUME Types, ShortStacks, NEW c \in Procs, NEW k \in Slots, Current(c, k),
           TrapOf(c, stack[k][1]), state[c] = "runnable", LeavesKernel(c, k)
    PROVE  Types' /\ ShortStacks' /\ Up(c)'
<1>1. Home(c, k) /\ Len(stack[k]) = 1 /\ stack \in [Slots -> Seq(Frames)]
  BY DEF Current, On, Types
<1>2. /\ stack' \in [Slots -> Seq(Frames)]
      /\ Len(stack'[k]) = 0
      /\ \A j \in Slots \ {k} : stack'[j] = stack[j]
  <2>1. stack' = [stack EXCEPT ![k] = SubSeq(@, 1, 1 - 1)]
    BY DEF LeavesKernel
  <2> QED  BY <1>1, <2>1, PopFirst
<1>3. ShortStacks'
  <2>1. Len(stack'[k]) <= 3
    BY <1>2
  <2> QED  BY <2>1, <1>2, ShortKept
<1>4. sp' = USER_SP /\ who' = c /\ regs'.s = expect'[c].regs.s
  BY DEF LeavesKernel, TrapOf
<1>5. Types'
  <2>1. sp' \in Pointers /\ who' \in Slots /\ sscratch' \in Slots \X Nat
    BY <1>4, PointerKinds, ProcIsSlot DEF LeavesKernel, Top
  <2> QED  BY <2>1, <1>2 DEF Types, LeavesKernel
<1>6. OthersParked(c)'
  <2>1. \A q \in Procs \ {c} : Alive(q)' => Alive(q)
    BY DEF LeavesKernel, Alive
  <2> QED  BY <1>1, <1>2, <2>1, OthersKept DEF Current, LeavesKernel
<1>7. InUserMode(c)'
  BY <1>4 DEF InUserMode, LeavesKernel, Home
<1> QED  BY <1>3, <1>5, <1>6, <1>7 DEF Up, Current, LeavesKernel

\* The code of a system call runs for the current process, whose frame it is,
\* and never in the timer interrupt of the wfi (handle_trap).
LEMMA InCallOf ==
    ASSUME Types, NEW c \in Procs, Up(c), InSyscall
    PROVE  \E k \in Slots :
              /\ Current(c, k) /\ TrapOf(c, stack[k][1]) /\ stack[k][1].cause = "ecall"
              /\ FromUser(sstatus) /\ state[c] = "runnable" /\ FrameAt(sp) = stack[k][1]
              /\ sp = <<k, 1>>
              /\ at = "handle" => sepc = stack[k][1].user_pc
<1>1. at \in {"handle", "resume"} /\ stack[sp[1]][sp[2]].cause = "ecall"
  BY DEF InSyscall, FrameAt
<1>2. PICK k \in Slots :
          /\ mode = "S" /\ current_proc = c /\ satp = c /\ OthersParked(c)
          /\ AtHandle(c, k) \/ AtResume(c, k) \/ InWfi(c, k)
  BY <1>1 DEF Up, InUserMode, InKernel, Switching, AtYield, AtWfi, AtUserEntry, AtForkReturn
<1>3. ~InWfi(c, k)
  BY <1>1 DEF InWfi, On
<1> QED  BY <1>1, <1>2, <1>3 DEF AtHandle, AtResume, On, Current, FrameAt

\* A pid in its slot: the return stack is the process's own.
LEMMA ReturnsToOwnStack ==
    ASSUME NEW c \in Procs, current_proc = c, state[c] = "runnable", NEW f
    PROVE  ReturnStack(f) = Top(c)
BY ProcIsSlot DEF ReturnStack, HasPid, Procs

LEMMA syscall_returnsStep ==
    ASSUME Types, ShortStacks, NEW c \in Procs, Up(c), syscall_returns
    PROVE  Types' /\ ShortStacks' /\ Up(c)'
<1>1. PICK k \in Slots :
          /\ Current(c, k) /\ TrapOf(c, stack[k][1]) /\ stack[k][1].cause = "ecall"
          /\ FromUser(sstatus) /\ state[c] = "runnable" /\ FrameAt(sp) = stack[k][1]
          /\ sp = <<k, 1>>
  BY InCallOf DEF syscall_returns
<1>2. Plus4(stack[k][1].user_pc) = expect[c].pc /\ expect[c].pc \in Addresses
  <2>1. PICK u \in UserPcs : /\ stack[k][1].user_pc = UserAddress(u)
                             /\ expect[c].pc = UserAddress(u + 1)
    BY <1>1 DEF TrapOf
  <2>2. Plus4(UserAddress(u)) = UserAddress(u + 1)
    BY DEF Plus4, UserAddress, UserPcs
  <2> QED  BY <2>1, <2>2, ProcIsSlot DEF Types
<1>3. LeavesKernel(c, k)
  <2>1. ReturnStack(stack[k][1]) = Top(c)
    BY <1>1, ReturnsToOwnStack DEF Current
  <2>2. /\ sscratch' = Top(c) /\ sepc' = expect[c].pc
        /\ sstatus' = [SPP |-> "U", SIE |-> sstatus.SPIE, SPIE |-> TRUE]
        /\ mode' = "U" /\ at' = "user" /\ pc' = sepc'
        /\ sp' = stack[k][1].sp /\ regs' = stack[k][1].regs /\ who' = stack[k][1].who
    BY <1>1, <1>2, <2>1 DEF syscall_returns, SyscallReturns, sret, FromUser
  <2>3. stack' = [stack EXCEPT ![k] = SubSeq(@, 1, 1 - 1)]
    BY <1>1 DEF syscall_returns, SyscallReturns, Pop
  <2>4. sstatus' \in Statuses
    BY <2>2 DEF Types, Statuses
  <2>5. Home(c, c) /\ c \in Slots
    BY ProcIsSlot DEF Home
  <2>6. /\ satp' = satp /\ current_proc' = current_proc /\ next' = next /\ state' = state
        /\ proc_sp' = proc_sp /\ expect' = expect
    BY DEF syscall_returns, SyscallReturns
  <2> QED  BY <1>2, <2>2, <2>3, <2>4, <2>5, <2>6 DEF LeavesKernel, Types
<1> QED  BY <1>1, <1>3, ReturnToUser

LEMMA syscall_handle_execStep ==
    ASSUME Types, ShortStacks, NEW c \in Procs, Up(c), syscall_handle_exec
    PROVE  Types' /\ ShortStacks' /\ Up(c)'
<1>1. PICK k \in Slots :
          /\ Current(c, k) /\ TrapOf(c, stack[k][1]) /\ stack[k][1].cause = "ecall"
          /\ FromUser(sstatus) /\ state[c] = "runnable" /\ FrameAt(sp) = stack[k][1]
          /\ sp = <<k, 1>>
  BY InCallOf DEF syscall_handle_exec
<1>2. USER_BASE \in Addresses
  <2>1. 0 \in 0 .. MaxPc + 1
    BY PcAssumption
  <2> QED  BY <2>1, AddressKinds DEF USER_BASE
<1>3. /\ expect' \in [Slots -> [pc : Addresses, regs : Registers]]
      /\ expect'[c].pc = USER_BASE /\ expect'[c].regs = expect[c].regs
      /\ \A q \in Procs \ {c} : expect'[q] = expect[q]
  <2>1. expect' = [expect EXCEPT ![c].pc = USER_BASE]
    BY <1>1 DEF syscall_handle_exec, Current
  <2>2. expect[c] \in [pc : Addresses, regs : Registers] /\ c \in Slots
    BY ProcIsSlot DEF Types
  <2>3. [expect[c] EXCEPT !.pc = USER_BASE] \in [pc : Addresses, regs : Registers]
    BY <1>2, <2>2
  <2> QED  BY <2>1, <2>2, <2>3 DEF Types
<1>4. LeavesKernel(c, k)
  <2>1. ReturnStack(stack[k][1]) = Top(c)
    BY <1>1, ReturnsToOwnStack DEF Current
  <2>2. /\ sscratch' = Top(c) /\ sepc' = USER_BASE
        /\ sstatus' = [SPP |-> "U", SIE |-> sstatus.SPIE, SPIE |-> TRUE]
        /\ mode' = "U" /\ at' = "user" /\ pc' = sepc'
        /\ sp' = stack[k][1].sp /\ regs' = stack[k][1].regs /\ who' = stack[k][1].who
    BY <1>1, <2>1 DEF syscall_handle_exec, SyscallReturns, sret, FromUser
  <2>3. stack' = [stack EXCEPT ![k] = SubSeq(@, 1, 1 - 1)]
    BY <1>1 DEF syscall_handle_exec, SyscallReturns, Pop
  <2>4. sstatus' \in Statuses
    BY <2>2 DEF Types, Statuses
  <2>5. Home(c, c) /\ c \in Slots
    BY ProcIsSlot DEF Home
  <2>6. /\ satp' = satp /\ current_proc' = current_proc /\ next' = next /\ state' = state
        /\ proc_sp' = proc_sp
    BY DEF syscall_handle_exec, SyscallReturns
  <2> QED  BY <1>2, <1>3, <2>2, <2>3, <2>4, <2>5, <2>6 DEF LeavesKernel
<1> QED  BY <1>1, <1>4, ReturnToUser

\* The timer's return takes sepc as it finds it: it is still that of the trap,
\* because a yield() of a runnable process comes back at once (handle_trap).
LEMMA TimerReturnsStep ==
    ASSUME Types, ShortStacks, NEW c \in Procs, Up(c), TimerReturns
    PROVE  Types' /\ ShortStacks' /\ Up(c)'
<1>1. at = "resume" /\ stack[sp[1]][sp[2]].cause = "timer"
  BY DEF TimerReturns, FrameAt
<1>2. PICK k \in Slots :
          /\ mode = "S" /\ current_proc = c /\ satp = c /\ OthersParked(c)
          /\ AtResume(c, k) \/ InWfi(c, k)
  BY <1>1 DEF Up, InUserMode, InKernel, Switching, AtHandle, AtYield, AtWfi, AtUserEntry,
              AtForkReturn
<1>3. /\ satp' = satp /\ current_proc' = current_proc /\ next' = next /\ state' = state
      /\ proc_sp' = proc_sp /\ expect' = expect
  BY DEF TimerReturns
<1>4. CASE AtResume(c, k)
  <2>1. /\ sp = <<k, 1>> /\ stack[k][1].cause = "timer" /\ TrapOf(c, stack[k][1])
        /\ FromUser(sstatus) /\ state[c] = "runnable" /\ sepc = stack[k][1].user_pc
        /\ Current(c, k) /\ FrameAt(sp) = stack[k][1]
    BY <1>1, <1>2, <1>4 DEF AtResume, On, Current, FrameAt
  <2>2. sepc = expect[c].pc
    BY <2>1 DEF TrapOf
  <2>3. LeavesKernel(c, k)
    <3>1. ReturnStack(stack[k][1]) = Top(c)
      BY <1>2, <2>1, ReturnsToOwnStack
    <3>2. /\ sscratch' = Top(c) /\ sepc' = expect[c].pc
          /\ sstatus' = [SPP |-> "U", SIE |-> sstatus.SPIE, SPIE |-> TRUE]
          /\ mode' = "U" /\ at' = "user" /\ pc' = sepc'
          /\ sp' = stack[k][1].sp /\ regs' = stack[k][1].regs /\ who' = stack[k][1].who
      BY <2>1, <2>2, <3>1 DEF TimerReturns, sret, FromUser
    <3>3. stack' = [stack EXCEPT ![k] = SubSeq(@, 1, 1 - 1)]
      BY <2>1 DEF TimerReturns, Pop
    <3>4. sstatus' \in Statuses /\ sepc' \in Addresses
      BY <3>2, <2>2 DEF Types, Statuses
    <3>5. Home(c, c) /\ c \in Slots
      BY ProcIsSlot DEF Home
    <3> QED  BY <1>3, <3>2, <3>3, <3>4, <3>5 DEF LeavesKernel, Types
  <2> QED  BY <2>1, <2>3, ReturnToUser
<1>5. CASE InWfi(c, k)
  <2>1. /\ sp = <<k, 3>> /\ Len(stack[k]) = 3 /\ Home(c, k) /\ Idle(c, k)
        /\ stack[k][3] \in TrapFrames /\ stack[k][3].sp = <<k, 2>>
        /\ sepc = KernelAddress("wfi") /\ FromKernel(sstatus) /\ FrameAt(sp) = stack[k][3]
    BY <1>5 DEF InWfi, On, FrameAt
  <2>2. /\ sepc' = sepc
        /\ sstatus' = [SPP |-> "U", SIE |-> sstatus.SPIE, SPIE |-> TRUE]
        /\ mode' = "S" /\ sp' = <<k, 2>> /\ at' = "wfi" /\ who' = who
    BY <2>1 DEF TimerReturns, sret, FromKernel, KernelAddress
  <2>3. sscratch' \in Slots \X Nat
    <3>1. stack[k][3].owner \in Slots
      BY <2>1 DEF TrapFrames
    <3>2. \A p \in Slots : Top(p) \in Slots \X Nat
      BY DEF Top
    <3>3. sscratch' = ReturnStack(stack[k][3])
      BY <2>1 DEF TimerReturns
    <3>4. sscratch' \in {Top(current_proc), Top(stack[k][3].owner), sscratch}
      BY <3>3 DEF ReturnStack
    <3> QED  BY <3>1, <3>2, <3>4 DEF Types
  <2>4. /\ stack' \in [Slots -> Seq(Frames)] /\ Len(stack'[k]) = 2
        /\ stack'[k][1] = stack[k][1] /\ stack'[k][2] = stack[k][2]
        /\ \A j \in Slots \ {k} : stack'[j] = stack[j]
    <3>1. stack' = [stack EXCEPT ![k] = SubSeq(@, 1, 3 - 1)]
      BY <2>1 DEF TimerReturns, Pop
    <3>2. stack \in [Slots -> Seq(Frames)] /\ Len(stack[k]) = 3
      BY <2>1 DEF Types
    <3>0. PICK T : T = stack'
      OBVIOUS
    <3>3. PICK st \in [Slots -> Seq(Frames)] : st = stack
      BY <3>2
    <3>4. T = [st EXCEPT ![k] = SubSeq(@, 1, 3 - 1)] /\ Len(st[k]) = 3
      BY <3>1, <3>0, <3>2, <3>3
    <3>5. /\ T \in [Slots -> Seq(Frames)]
          /\ Len(T[k]) = 2 /\ T[k][1] = st[k][1] /\ T[k][2] = st[k][2]
          /\ \A j \in Slots \ {k} : T[j] = st[j]
      BY <3>4, PopThird, SMTT(30)
    <3> QED  BY <3>0, <3>3, <3>5
  <2>5. ShortStacks'
    <3>1. Len(stack'[k]) <= 3
      BY <2>4
    <3> QED  BY <3>1, <2>4, ShortKept
  <2>6. Types'
    <3>1. sstatus' \in Statuses
      BY <2>2 DEF Types, Statuses
    <3>2. sp' \in Pointers
      BY <2>2, PointerKinds
    <3> QED  BY <1>3, <2>2, <2>3, <2>4, <3>1, <3>2 DEF Types
  <2>7. OthersParked(c)'
    <3>1. \A q \in Procs \ {c} : Alive(q)' => Alive(q)
      BY <1>3 DEF Alive
    <3> QED  BY <1>2, <1>3, <2>1, <2>4, <3>1, OthersKept
  <2>8. AtWfi(c, k)'
    <3>1. Idle(c, k)'
      BY <2>1, <2>4, <1>3 DEF Idle, Alive, TrapOf
    <3> QED  BY <3>1, <2>1, <2>2, <2>4 DEF AtWfi, On, Home
  <2> QED  BY <1>2, <1>3, <2>2, <2>5, <2>6, <2>7, <2>8 DEF Up, InKernel
<1> QED  BY <1>2, <1>4, <1>5

LEMMA fork_child_trap_returnStep ==
    ASSUME Types, ShortStacks, NEW c \in Procs, Up(c), fork_child_trap_return
    PROVE  Types' /\ ShortStacks' /\ Up(c)'
<1>1. PICK k \in Slots :
          /\ mode = "S" /\ current_proc = c /\ satp = c /\ OthersParked(c)
          /\ AtForkReturn(c, k)
  BY DEF fork_child_trap_return, Up, InUserMode, InKernel, Switching, AtHandle, AtYield,
         AtResume, AtWfi, InWfi, AtUserEntry
<1>2. /\ sp = <<k, 1>> /\ TrapOf(c, stack[k][1]) /\ FromUser(sstatus)
      /\ state[c] = "runnable" /\ sepc = expect[c].pc /\ sscratch = Top(c)
      /\ Current(c, k) /\ FrameAt(sp) = stack[k][1]
  BY <1>1 DEF AtForkReturn, On, Current, FrameAt
<1>3. LeavesKernel(c, k)
  <2>1. /\ sscratch' = Top(c) /\ sepc' = expect[c].pc
        /\ sstatus' = [SPP |-> "U", SIE |-> sstatus.SPIE, SPIE |-> TRUE]
        /\ mode' = "U" /\ at' = "user" /\ pc' = sepc'
        /\ sp' = stack[k][1].sp /\ regs' = stack[k][1].regs /\ who' = stack[k][1].who
    BY <1>2 DEF fork_child_trap_return, sret, FromUser
  <2>2. stack' = [stack EXCEPT ![k] = SubSeq(@, 1, 1 - 1)]
    BY <1>2 DEF fork_child_trap_return, Pop
  <2>3. sstatus' \in Statuses /\ sepc' \in Addresses
    BY <1>2, <2>1 DEF Types, Statuses
  <2>4. Home(c, c) /\ c \in Slots
    BY ProcIsSlot DEF Home
  <2>5. /\ satp' = satp /\ current_proc' = current_proc /\ next' = next /\ state' = state
        /\ proc_sp' = proc_sp /\ expect' = expect
    BY DEF fork_child_trap_return
  <2> QED  BY <2>1, <2>2, <2>3, <2>4, <2>5 DEF LeavesKernel, Types
<1> QED  BY <1>2, <1>3, ReturnToUser

LEMMA user_entryStep ==
    ASSUME Types, ShortStacks, NEW c \in Procs, Up(c), user_entry
    PROVE  Types' /\ ShortStacks' /\ Up(c)'
<1>1. PICK k \in Slots :
          /\ mode = "S" /\ current_proc = c /\ satp = c /\ OthersParked(c)
          /\ AtUserEntry(c, k)
  BY DEF user_entry, Up, InUserMode, InKernel, Switching, AtHandle, AtYield,
         AtResume, AtWfi, InWfi, AtForkReturn
<1>2. /\ sepc' = USER_BASE /\ sstatus' = [SPP |-> "U", SIE |-> TRUE, SPIE |-> TRUE]
      /\ mode' = "U" /\ sp' = USER_SP /\ at' = "user" /\ pc' = USER_BASE
      /\ regs' = NoRegs /\ who' = current_proc
  BY DEF user_entry, sret
<1>3. /\ sscratch' = sscratch /\ satp' = satp /\ current_proc' = current_proc /\ next' = next
      /\ state' = state /\ stack' = stack /\ proc_sp' = proc_sp /\ expect' = expect
  BY DEF user_entry, kernel
<1>4. Types'
  <2>1. USER_BASE \in Addresses
    <3>1. 0 \in 0 .. MaxPc + 1
      BY PcAssumption
    <3> QED  BY <3>1, AddressKinds DEF USER_BASE
  <2>2. sstatus' \in Statuses
    BY <1>2 DEF Statuses
  <2> QED  BY <2>1, <2>2, <1>2, <1>3, PointerKinds DEF Types
<1>5. ShortStacks'
  BY <1>3 DEF ShortStacks
<1>6. OthersParked(c)'
  <2>1. \A q \in Procs \ {c} : Alive(q)' => Alive(q)
    BY <1>3 DEF Alive
  <2> QED  BY <1>1, <1>3, <2>1, OthersKept DEF AtUserEntry
<1>7. InUserMode(c)'
  BY <1>1, <1>2, <1>3 DEF InUserMode, AtUserEntry, Fresh, Home
<1> QED  BY <1>1, <1>3, <1>4, <1>5, <1>6, <1>7 DEF Up

-----------------------------------------------------------------------------
(* System calls that stay in the kernel.                                   *)

\* A step that changes only the state of processes and the point of the code.
OnlyTable ==
    /\ mode' = mode /\ sp' = sp /\ sepc' = sepc /\ sscratch' = sscratch
    /\ sstatus' = sstatus /\ satp' = satp /\ current_proc' = current_proc /\ next' = next
    /\ stack' = stack /\ proc_sp' = proc_sp /\ who' = who /\ expect' = expect

LEMMA TableStep ==
    ASSUME Types, ShortStacks, OnlyTable, NEW c \in Procs, OthersParked(c),
           state' \in [Slots -> States],
           \A q \in Procs \ {c} : Alive(q)' => Alive(q)
    PROVE  Types' /\ ShortStacks' /\ OthersParked(c)'
<1>1. Types'
  BY DEF Types, OnlyTable
<1>2. ShortStacks'
  BY DEF ShortStacks, OnlyTable
<1>3. OthersParked(c)'
  BY OthersKept DEF OnlyTable, Home
<1> QED  BY <1>1, <1>2, <1>3

\* waitpid, ipc_recv, getchar and exit end in yield().
LEMMA GivesUp ==
    ASSUME Types, ShortStacks, NEW c \in Procs, Up(c), InSyscall, OnlyTable, at' = "yield",
           NEW s \in {"waiting", "exited"}, state' = [state EXCEPT ![c] = s]
    PROVE  Types' /\ ShortStacks' /\ Up(c)'
<1>1. PICK k \in Slots :
          /\ Current(c, k) /\ TrapOf(c, stack[k][1]) /\ stack[k][1].cause = "ecall"
          /\ FromUser(sstatus)
  BY InCallOf
<1>2. state' \in [Slots -> States] /\ \A q \in Procs \ {c} : state'[q] = state[q]
  BY ProcIsSlot DEF Types, States
<1>3. Types' /\ ShortStacks' /\ OthersParked(c)'
  <2>1. \A q \in Procs \ {c} : Alive(q)' => Alive(q)
    BY <1>2 DEF Alive
  <2> QED  BY <1>1, <1>2, <2>1, TableStep DEF Current
<1>4. AtYield(c, k)'
  <2>1. TrapOf(c, stack[k][1])' /\ stack'[k][1] = stack[k][1]
    BY <1>1 DEF TrapOf, OnlyTable
  <2>2. stack[k][1] \in TrapFrames
    BY <1>1 DEF TrapOf
  <2> QED  BY <1>1, <2>1, <2>2 DEF AtYield, Current, On, OnlyTable, Home
<1> QED  BY <1>1, <1>3, <1>4 DEF Up, InKernel, Current, OnlyTable

LEMMA syscall_blocksStep ==
    ASSUME Types, ShortStacks, NEW c \in Procs, Up(c), syscall_blocks
    PROVE  Types' /\ ShortStacks' /\ Up(c)'
<1>1. current_proc = c
  BY InCallOf DEF syscall_blocks, Current
<1>2. OnlyTable /\ at' = "yield" /\ InSyscall /\ state' = [state EXCEPT ![c] = "waiting"]
  BY <1>1 DEF syscall_blocks, OnlyTable
<1> QED  BY <1>2, GivesUp

LEMMA syscall_handle_exitStep ==
    ASSUME Types, ShortStacks, NEW c \in Procs, Up(c), syscall_handle_exit
    PROVE  Types' /\ ShortStacks' /\ Up(c)'
<1>1. current_proc = c
  BY InCallOf DEF syscall_handle_exit, Current
<1>2. OnlyTable /\ at' = "yield" /\ InSyscall /\ state' = [state EXCEPT ![c] = "exited"]
  BY <1>1 DEF syscall_handle_exit, OnlyTable
<1> QED  BY <1>2, GivesUp

\* A system call of c at "handle" stays there.
LEMMA HandleKept ==
    ASSUME NEW c \in Procs, NEW k \in Slots, Current(c, k), TrapOf(c, stack[k][1]),
           stack[k][1].cause = "ecall", FromUser(sstatus), sepc = stack[k][1].user_pc,
           state'[c] = "runnable", hart' = hart, at = "handle",
           current_proc' = current_proc, stack'[k] = stack[k], expect'[c] = expect[c],
           OthersParked(c)'
    PROVE  Up(c)'
<1>1. mode' = mode /\ at' = at /\ sp' = sp /\ sepc' = sepc /\ sstatus' = sstatus /\ satp' = satp
  BY DEF hart
<1>2. TrapOf(c, stack[k][1])'
  BY DEF TrapOf
<1>3. AtHandle(c, k)'
  BY <1>1, <1>2 DEF AtHandle, Current, On, Home
<1> QED  BY <1>1, <1>3 DEF Up, InKernel, Current

LEMMA syscall_changesStep ==
    ASSUME Types, ShortStacks, NEW c \in Procs, Up(c), NEW p \in Procs, syscall_changes(p)
    PROVE  Types' /\ ShortStacks' /\ Up(c)'
<1>1. PICK k \in Slots :
          /\ Current(c, k) /\ TrapOf(c, stack[k][1]) /\ stack[k][1].cause = "ecall"
          /\ FromUser(sstatus) /\ state[c] = "runnable" /\ sepc = stack[k][1].user_pc
  BY InCallOf DEF syscall_changes
<1>2. OnlyTable /\ hart' = hart /\ p # c /\ at = "handle"
  BY <1>1 DEF syscall_changes, OnlyTable, hart, Current
<1>3. PICK s \in MayBecome(p) : state' = [state EXCEPT ![p] = s]
  BY DEF syscall_changes
<1>4. s \in States /\ (s \in {"runnable", "waiting"} => Alive(p))
  BY DEF MayBecome, States, Alive
<1>5. /\ state' \in [Slots -> States] /\ state'[c] = "runnable"
      /\ \A q \in Procs \ {c} : Alive(q)' => Alive(q)
  <2>1. state \in [Slots -> States] /\ p \in Slots /\ c \in Slots
    BY ProcIsSlot DEF Types
  <2> QED  BY <1>1, <1>2, <1>3, <1>4, <2>1, ProcIsSlot DEF Alive
<1>6. Types' /\ ShortStacks' /\ OthersParked(c)'
  BY <1>1, <1>2, <1>5, TableStep DEF Current
<1> QED  BY <1>1, <1>2, <1>5, <1>6, HandleKept DEF OnlyTable

\* A new process n is parked on its own stack, which nobody else uses, and the
\* caller goes on (create_process, fork).
LEMMA Creation ==
    ASSUME Types, ShortStacks, NEW c \in Procs, NEW k \in Slots, Current(c, k),
           TrapOf(c, stack[k][1]), stack[k][1].cause = "ecall", FromUser(sstatus),
           sepc = stack[k][1].user_pc, state[c] = "runnable", at = "handle",
           hart' = hart, current_proc' = current_proc, next' = next, who' = who,
           NEW n \in Procs, state[n] = "unused",
           NEW frames \in Seq(Frames), Len(frames) <= 2,
           NEW resume \in [pc : Addresses, regs : Registers],
           NewContext(n, frames, resume), Parked(n)'
    PROVE  Types' /\ ShortStacks' /\ Up(c)'
<1> USE ProcIsSlot
<1>1. n # c /\ n # k
  BY DEF Current, On, Home
<1>2. /\ state' \in [Slots -> States] /\ \A q \in Slots \ {n} : state'[q] = state[q]
      /\ stack' \in [Slots -> Seq(Frames)] /\ stack'[n] = frames
      /\ \A j \in Slots \ {n} : stack'[j] = stack[j]
  BY DEF NewContext, Types, States
<1>3. /\ proc_sp' \in [Slots -> Slots \X Nat]
      /\ \A q \in Slots \ {n} : proc_sp'[q] = proc_sp[q]
  <2>1. <<n, Len(frames)>> \in Slots \X Nat
    OBVIOUS
  <2> QED  BY <2>1 DEF NewContext, Types
<1>4. /\ expect' \in [Slots -> [pc : Addresses, regs : Registers]]
      /\ \A q \in Slots \ {n} : expect'[q] = expect[q]
  BY DEF NewContext, Types
<1>5. Types'
  BY <1>2, <1>3, <1>4 DEF Types, hart
<1>6. ShortStacks'
  <2>1. Len(frames) \in Nat
    OBVIOUS
  <2>2. Len(stack'[n]) <= 3
    BY <1>2, <2>1
  <2> QED  BY <1>2, <2>2, ShortKept
<1>7. OthersParked(c)'
  <2> SUFFICES ASSUME NEW q \in Procs \ {c}, Alive(q)', q # n
               PROVE  Parked(q)'
    BY DEF OthersParked
  <2>1. Parked(q)
    BY <1>2 DEF OthersParked, Alive, Current
  <2>2. Home(n, n)
    BY DEF Home
  <2>3. \A j \in Slots : Home(q, j) => stack'[j] = stack[j]
    BY <1>2, <2>2, HomesDiffer
  <2> QED  BY <1>3, <1>4, <2>1, <2>3, ParkedKept
<1>8. state'[c] = "runnable" /\ stack'[k] = stack[k] /\ expect'[c] = expect[c]
  BY <1>1, <1>2, <1>4
<1> QED  BY <1>5, <1>6, <1>7, <1>8, HandleKept

\* The context that create_process builds.
NewCtx == [kind |-> "ctx", ra |-> "user_entry", sstatus |-> InitialStatus, s11 |-> USER_BASE]
NewResume == [pc |-> USER_BASE, regs |-> NoRegs]

LEMMA NewProcess ==
    ASSUME Types, NEW n \in Procs, NewContext(n, <<NewCtx>>, NewResume)
    PROVE  /\ NewCtx \in Contexts /\ NewResume \in [pc : Addresses, regs : Registers]
           /\ NewBorn(n, n)' /\ proc_sp'[n] = <<n, 1>> /\ Parked(n)'
<1> USE ProcIsSlot
<1>1. USER_BASE \in Addresses
  <2>1. 0 \in 0 .. MaxPc + 1
    BY PcAssumption
  <2> QED  BY <2>1, AddressKinds DEF USER_BASE
<1>2. InitialStatus \in Statuses /\ FromUser(InitialStatus)
  BY DEF InitialStatus, Disabled, Statuses, FromUser
<1>3. NewCtx \in Contexts /\ NewCtx.ra = "user_entry" /\ NewCtx.sstatus = InitialStatus
  BY <1>1, <1>2 DEF NewCtx, Contexts
<1>4. /\ NewResume \in [pc : Addresses, regs : Registers]
      /\ NewResume.pc = USER_BASE /\ NewResume.regs = NoRegs
  <2>1. NoRegs \in Registers
    <3>1. 0 \in Slots /\ 0 \in 0 .. MaxPc
      BY PcAssumption
    <3> QED  BY <3>1 DEF NoRegs, Registers
  <2> QED  BY <1>1, <2>1 DEF NewResume
<1>5. /\ stack'[n] = <<NewCtx>> /\ proc_sp'[n] = <<n, Len(<<NewCtx>>)>>
      /\ expect'[n] = NewResume
  BY DEF NewContext, Types
<1>6. Len(<<NewCtx>>) = 1 /\ <<NewCtx>>[1] = NewCtx
  OBVIOUS
<1>7. NewBorn(n, n)'
  <2>1. Fresh(n)'
    BY <1>4, <1>5 DEF Fresh
  <2> QED  BY <2>1, <1>2, <1>3, <1>5, <1>6 DEF NewBorn
<1>8. Parked(n)'
  BY <1>5, <1>6, <1>7 DEF Parked, Home
<1> QED  BY <1>3, <1>4, <1>5, <1>6, <1>7, <1>8

LEMMA syscall_handle_cloneStep ==
    ASSUME Types, ShortStacks, NEW c \in Procs, Up(c), NEW n \in Procs, syscall_handle_clone(n)
    PROVE  Types' /\ ShortStacks' /\ Up(c)'
<1>1. PICK k \in Slots :
          /\ Current(c, k) /\ TrapOf(c, stack[k][1]) /\ stack[k][1].cause = "ecall"
          /\ FromUser(sstatus) /\ state[c] = "runnable" /\ sepc = stack[k][1].user_pc
  BY InCallOf DEF syscall_handle_clone
<1>2. /\ at = "handle" /\ hart' = hart /\ current_proc' = current_proc /\ next' = next
      /\ who' = who /\ state[n] = "unused" /\ NewContext(n, <<NewCtx>>, NewResume)
  BY DEF syscall_handle_clone, FreeSlot, create_process, NewCtx, NewResume
<1>3. /\ NewCtx \in Contexts /\ NewResume \in [pc : Addresses, regs : Registers] /\ Parked(n)'
  BY <1>2, NewProcess
<1>4. <<NewCtx>> \in Seq(Frames) /\ Len(<<NewCtx>>) <= 2
  BY <1>3 DEF Frames
<1> QED  BY <1>1, <1>2, <1>3, <1>4, Creation

LEMMA syscall_handle_forkStep ==
    ASSUME Types, ShortStacks, NEW c \in Procs, Up(c), NEW n \in Procs, syscall_handle_fork(n)
    PROVE  Types' /\ ShortStacks' /\ Up(c)'
<1> USE ProcIsSlot
<1>1. PICK k \in Slots :
          /\ Current(c, k) /\ TrapOf(c, stack[k][1]) /\ stack[k][1].cause = "ecall"
          /\ FromUser(sstatus) /\ state[c] = "runnable" /\ sepc = stack[k][1].user_pc
          /\ FrameAt(sp) = stack[k][1]
  BY InCallOf DEF syscall_handle_fork
<1>2. PICK tf, ctx, resume :
          /\ tf = [stack[k][1] EXCEPT !.who = n]
          /\ ctx = [kind |-> "ctx", ra |-> "fork_child_trap_return",
                    sstatus |-> sstatus, s11 |-> Plus4(sepc)]
          /\ resume = expect[c]
  OBVIOUS
<1>3. /\ at = "handle" /\ hart' = hart /\ current_proc' = current_proc /\ next' = next
      /\ who' = who /\ state[n] = "unused" /\ NewContext(n, <<tf, ctx>>, resume)
  BY <1>1, <1>2 DEF syscall_handle_fork, FreeSlot, Current
<1>4. resume \in [pc : Addresses, regs : Registers]
  BY <1>2 DEF Types
<1>5. PICK u \in UserPcs :
          stack[k][1].user_pc = UserAddress(u) /\ resume.pc = UserAddress(u + 1)
  BY <1>1, <1>2 DEF TrapOf
<1>6. /\ tf \in TrapFrames /\ tf.who = n /\ tf.sp = USER_SP /\ tf.cause = "ecall"
      /\ tf.regs.s = resume.regs.s /\ tf.user_pc = UserAddress(u)
  <2>1. stack[k][1] \in TrapFrames /\ n \in Slots
    BY <1>1 DEF TrapOf
  <2>2. /\ stack[k][1].sp = USER_SP /\ stack[k][1].cause = "ecall"
        /\ stack[k][1].regs.s = resume.regs.s
    BY <1>1, <1>2 DEF TrapOf
  <2>3. tf \in TrapFrames
    BY <2>1, <1>2 DEF TrapFrames
  <2>4. /\ tf.who = n /\ tf.sp = stack[k][1].sp /\ tf.cause = stack[k][1].cause
        /\ tf.regs = stack[k][1].regs /\ tf.user_pc = stack[k][1].user_pc
    BY <2>1, <1>2 DEF TrapFrames
  <2> QED  BY <2>2, <2>3, <2>4, <1>5
<1>7. /\ ctx \in Contexts /\ FromUser(ctx.sstatus) /\ ctx.ra = "fork_child_trap_return"
      /\ ctx.s11 = resume.pc
  <2>1. Plus4(sepc) = resume.pc
    BY <1>1, <1>5 DEF Plus4, UserAddress, UserPcs
  <2>2. sstatus \in Statuses /\ resume.pc \in Addresses
    BY <1>4 DEF Types
  <2> QED  BY <1>1, <1>2, <2>1, <2>2 DEF Contexts
<1>8. /\ stack'[n] = <<tf, ctx>> /\ proc_sp'[n] = <<n, 2>> /\ expect'[n] = resume
  BY <1>3 DEF NewContext, Types
<1>9. Len(<<tf, ctx>>) = 2 /\ <<tf, ctx>>[1] = tf /\ <<tf, ctx>>[2] = ctx
  OBVIOUS
<1>10. Parked(n)'
  <2>1. TrapOf(n, stack[n][1])'
    BY <1>5, <1>6, <1>8, <1>9 DEF TrapOf
  <2>2. InCall(n, n)'
    BY <2>1, <1>6, <1>7, <1>8, <1>9 DEF InCall
  <2> QED  BY <2>2, <1>8, <1>9 DEF Parked, Home
<1>11. <<tf, ctx>> \in Seq(Frames) /\ Len(<<tf, ctx>>) <= 2
  BY <1>6, <1>7 DEF Frames
<1> QED  BY <1>1, <1>3, <1>4, <1>10, <1>11, Creation

-----------------------------------------------------------------------------
(* yield().                                                                *)

\* yield() runs for the current process, in a trap of its own or in the timer
\* interrupt of its wfi.
LEMMA YieldOf ==
    ASSUME NEW c \in Procs, Up(c), at = "yield"
    PROVE  \E k \in Slots :
              /\ mode = "S" /\ current_proc = c /\ satp = c /\ OthersParked(c)
              /\ AtYield(c, k) \/ InWfi(c, k)
BY DEF Up, InUserMode, InKernel, Switching, AtHandle, AtResume, AtWfi, AtUserEntry, AtForkReturn

LEMMA RunnableStays ==
    ASSUME Types, NEW c \in Procs, current_proc = c, state[c] = "runnable"
    PROVE  Scan(c) /\ \A p : Scan(p) => p = c
<1>1. Schedulable(current_proc)
  BY DEF Schedulable, HasPid, Procs
<1> QED  BY <1>1, ScanStays

LEMMA reapStep ==
    ASSUME Types, ShortStacks, NEW c \in Procs, Up(c), NEW p \in Procs, reap_exited_processes(p)
    PROVE  Types' /\ ShortStacks' /\ Up(c)'
<1> USE ProcIsSlot
<1>1. PICK k \in Slots :
          /\ mode = "S" /\ current_proc = c /\ satp = c /\ OthersParked(c)
          /\ AtYield(c, k) \/ InWfi(c, k)
  BY YieldOf DEF reap_exited_processes
<1>2. /\ OnlyTable /\ at' = at /\ at = "yield" /\ state[p] = "exited"
      /\ state' = [state EXCEPT ![p] = "unused"]
  BY DEF reap_exited_processes, OnlyTable, hart
<1>3. /\ state' \in [Slots -> States]
      /\ \A q \in Slots : Alive(q)' => Alive(q)
      /\ state[c] = "runnable" => state'[c] = "runnable"
  BY <1>2 DEF Types, Alive, States
<1>4. Types' /\ ShortStacks' /\ OthersParked(c)'
  BY <1>1, <1>2, <1>3, TableStep
<1>5. CASE AtYield(c, k)
  <2>1. Alive(c)' => TrapOf(c, stack[k][1])'
    BY <1>2, <1>3, <1>5 DEF AtYield, TrapOf, OnlyTable
  <2>2. AtYield(c, k)'
    BY <2>1, <1>2, <1>3, <1>5 DEF AtYield, OnlyTable, On, Home
  <2> QED  BY <2>2, <1>1, <1>2, <1>4 DEF Up, InKernel, OnlyTable
<1>6. CASE InWfi(c, k)
  <2>1. Idle(c, k)'
    BY <1>2, <1>3, <1>6 DEF InWfi, Idle, TrapOf, OnlyTable
  <2>2. InWfi(c, k)'
    BY <2>1, <1>2, <1>3, <1>6 DEF InWfi, OnlyTable, On, Home
  <2> QED  BY <2>2, <1>1, <1>2, <1>4 DEF Up, InKernel, OnlyTable
<1> QED  BY <1>1, <1>5, <1>6

LEMMA yield_sameStep ==
    ASSUME Types, ShortStacks, NEW c \in Procs, Up(c), yield_same
    PROVE  Types' /\ ShortStacks' /\ Up(c)'
<1> USE ProcIsSlot
<1>1. PICK k \in Slots :
          /\ mode = "S" /\ current_proc = c /\ satp = c /\ OthersParked(c)
          /\ AtYield(c, k) \/ InWfi(c, k)
  BY YieldOf DEF yield_same
<1>2. state[c] = "runnable"
  BY <1>1, ScanFinds DEF yield_same
<1>3. /\ sscratch' = Top(c) /\ at' = "resume" /\ mode' = mode /\ sp' = sp /\ sepc' = sepc
      /\ sstatus' = sstatus /\ satp' = satp /\ current_proc' = current_proc /\ next' = next
      /\ state' = state /\ stack' = stack /\ proc_sp' = proc_sp /\ who' = who
      /\ expect' = expect
  BY <1>1 DEF yield_same, kernel, Return
<1>4. Types' /\ ShortStacks'
  <2>1. sscratch' \in Slots \X Nat
    BY <1>3 DEF Top
  <2> QED  BY <2>1, <1>3 DEF Types, ShortStacks
<1>5. OthersParked(c)'
  <2>1. \A q \in Procs \ {c} : Alive(q)' => Alive(q)
    BY <1>3 DEF Alive
  <2>2. Home(c, c)
    BY DEF Home
  <2> QED  BY <1>1, <1>3, <2>1, <2>2, OthersKept
<1>6. CASE AtYield(c, k)
  <2>1. TrapOf(c, stack[k][1]) /\ TrapOf(c, stack[k][1])'
    BY <1>2, <1>3, <1>6 DEF AtYield, Alive, TrapOf
  <2>2. AtResume(c, k)'
    BY <2>1, <1>2, <1>3, <1>6 DEF AtYield, AtResume, On, Home
  <2> QED  BY <2>2, <1>1, <1>3, <1>4, <1>5 DEF Up, InKernel
<1>7. CASE InWfi(c, k)
  <2>1. Idle(c, k)'
    BY <1>3, <1>7 DEF InWfi, Idle, TrapOf, Alive
  <2>2. InWfi(c, k)'
    BY <2>1, <1>3, <1>7 DEF InWfi, On, Home
  <2> QED  BY <2>2, <1>1, <1>3, <1>4, <1>5 DEF Up, InKernel
<1> QED  BY <1>1, <1>6, <1>7

LEMMA yield_pickStep ==
    ASSUME Types, ShortStacks, NEW c \in Procs, Up(c), NEW p \in Slots, yield_pick(p)
    PROVE  Types' /\ ShortStacks' /\ Up(c)'
<1> USE ProcIsSlot
<1>1. PICK k \in Slots :
          /\ mode = "S" /\ current_proc = c /\ satp = c /\ OthersParked(c)
          /\ AtYield(c, k) \/ InWfi(c, k)
  BY YieldOf DEF yield_pick
<1>2. p # c /\ Scan(p) /\ at = "yield"
  BY <1>1 DEF yield_pick
<1>3. state[c] # "runnable" /\ p \in Procs /\ state[p] = "runnable"
  BY <1>1, <1>2, RunnableStays, ScanFinds
<1>4. /\ next' = p /\ satp' = p /\ sscratch' = Top(p) /\ at' = "picked" /\ mode' = mode
      /\ sp' = sp /\ sepc' = sepc /\ sstatus' = sstatus /\ current_proc' = current_proc
      /\ state' = state /\ stack' = stack /\ proc_sp' = proc_sp /\ who' = who
      /\ expect' = expect
  BY DEF yield_pick
<1>5. Types' /\ ShortStacks'
  <2>1. sscratch' \in Slots \X Nat
    BY <1>4 DEF Top
  <2> QED  BY <2>1, <1>4 DEF Types, ShortStacks
<1>6. OthersParked(c)'
  <2>1. \A q \in Procs \ {c} : Alive(q)' => Alive(q)
    BY <1>4 DEF Alive
  <2>2. Home(c, c)
    BY DEF Home
  <2> QED  BY <1>1, <1>4, <2>1, <2>2, OthersKept
<1>7. AtYield(c, k)
  BY <1>1, <1>2, <1>3 DEF InWfi
<1>8. Alive(c)' => TrapOf(c, stack[k][1])'
  BY <1>4, <1>7 DEF AtYield, TrapOf, Alive
<1>9. stack[k][1] \in TrapFrames /\ stack[k][1].cause = "ecall"
  BY <1>3, <1>7 DEF AtYield, TrapFrames
<1>10. Leaving(c, k, next)'
  BY <1>3, <1>4, <1>2, <1>7, <1>8, <1>9 DEF Leaving, AtYield, On, Home
<1> QED  BY <1>1, <1>4, <1>5, <1>6, <1>10 DEF Up, Switching

LEMMA yield_set_currentStep ==
    ASSUME Types, ShortStacks, NEW c \in Procs, Up(c), yield_set_current
    PROVE  Types' /\ ShortStacks' /\ Up(c)'
<1>1. PICK k \in Slots :
          mode = "S" /\ current_proc = c /\ OthersParked(c) /\ Leaving(c, k, next)
  BY DEF yield_set_current, Up, InUserMode, InKernel, Switching, AtHandle, AtYield, AtResume,
         AtWfi, InWfi, AtUserEntry, AtForkReturn
<1>2. /\ current_proc' = next /\ next' = current_proc /\ at' = "current"
      /\ mode' = mode /\ sp' = sp /\ sepc' = sepc /\ sscratch' = sscratch
      /\ sstatus' = sstatus /\ satp' = satp /\ state' = state /\ stack' = stack
      /\ proc_sp' = proc_sp /\ who' = who /\ expect' = expect
  BY DEF yield_set_current
<1>3. Types' /\ ShortStacks'
  BY <1>2 DEF Types, ShortStacks
<1>4. OthersParked(c)'
  <2>1. \A q \in Procs \ {c} : Alive(q)' => Alive(q)
    BY <1>2 DEF Alive
  <2>2. Home(c, c)
    BY DEF Home
  <2> QED  BY <1>1, <1>2, <2>1, <2>2, OthersKept
<1>5. Alive(c)' => TrapOf(c, stack[k][1])' /\ stack'[k][1].cause = "ecall"
  BY <1>1, <1>2 DEF Leaving, TrapOf, Alive
<1>6. Leaving(c, k, current_proc)'
  BY <1>1, <1>2, <1>5 DEF Leaving, On, Home
<1> QED  BY <1>1, <1>2, <1>3, <1>4, <1>6 DEF Up, Switching

LEMMA yield_idleStep ==
    ASSUME Types, ShortStacks, NEW c \in Procs, Up(c), yield_idle
    PROVE  Types' /\ ShortStacks' /\ Up(c)'
<1> USE ProcIsSlot
<1>1. PICK k \in Slots :
          /\ mode = "S" /\ current_proc = c /\ satp = c /\ OthersParked(c)
          /\ AtYield(c, k) \/ InWfi(c, k)
  BY YieldOf DEF yield_idle
<1>2. state[c] # "runnable" /\ at = "yield"
  BY <1>1, RunnableStays DEF yield_idle
<1>3. AtYield(c, k)
  BY <1>1, <1>2 DEF InWfi
<1>4. /\ sp = <<k, 1>> /\ Len(stack[k]) = 1 /\ Home(c, k) /\ FromUser(sstatus)
      /\ stack[k][1] \in TrapFrames /\ stack[k][1].cause = "ecall"
      /\ Alive(c) => TrapOf(c, stack[k][1])
  BY <1>2, <1>3 DEF AtYield, On, TrapFrames
<1>5. PICK f \in Frames, st \in [Slots -> Seq(Frames)], T \in {stack'} :
          f = [kind |-> "wfi", sstatus |-> sstatus] /\ st = stack
  BY DEF WfiFrames, Frames, Types
<1>6. f \in WfiFrames /\ f.sstatus = sstatus
  BY <1>5 DEF WfiFrames, Types
<1>7. /\ stack' \in [Slots -> Seq(Frames)] /\ Len(stack'[k]) = 2
      /\ stack'[k][1] = stack[k][1] /\ stack'[k][2] = f
      /\ \A j \in Slots \ {k} : stack'[j] = stack[j]
  <2>1. T = Push(st, <<k, 1>>, f)
    BY <1>4, <1>5 DEF yield_idle, Push
  <2>2. Len(st[k]) = 1
    BY <1>4, <1>5
  <2>3. SecondOn(T, st, k, f)
    BY <2>1, <2>2, PushSecond
  <2> QED  BY <1>5, <2>3 DEF SecondOn
<1>8. /\ sscratch' = Top(c) /\ sp' = <<k, 2>> /\ at' = "wfi" /\ mode' = mode /\ sepc' = sepc
      /\ sstatus' = [sstatus EXCEPT !.SIE = TRUE] /\ satp' = satp
      /\ current_proc' = current_proc /\ next' = next /\ state' = state
      /\ proc_sp' = proc_sp /\ who' = who /\ expect' = expect
  BY <1>1, <1>4 DEF yield_idle, Below
<1>9. Types'
  <2>1. sscratch' \in Slots \X Nat /\ sp' \in Pointers
    BY <1>8, PointerKinds DEF Top
  <2>2. sstatus' \in Statuses
    BY <1>8 DEF Types, Statuses
  <2> QED  BY <1>7, <1>8, <2>1, <2>2 DEF Types
<1>10. ShortStacks'
  <2>1. Len(stack'[k]) <= 3
    BY <1>7
  <2> QED  BY <1>7, <2>1, ShortKept
<1>11. OthersParked(c)'
  <2>1. \A q \in Procs \ {c} : Alive(q)' => Alive(q)
    BY <1>8 DEF Alive
  <2> QED  BY <1>1, <1>4, <1>7, <1>8, <2>1, OthersKept
<1>12. AtWfi(c, k)'
  <2>1. Alive(c)' => TrapOf(c, stack[k][1])'
    BY <1>4, <1>7, <1>8 DEF Alive, TrapOf
  <2>2. Idle(c, k)'
    BY <1>4, <1>6, <1>7, <2>1 DEF Idle
  <2> QED  BY <2>2, <1>4, <1>7, <1>8 DEF AtWfi, On, Home
<1> QED  BY <1>1, <1>8, <1>9, <1>10, <1>11, <1>12 DEF Up, InKernel

\* wfi and the traps out of it happen in the yield() of the current process.
LEMMA WfiOf ==
    ASSUME NEW c \in Procs, Up(c), at = "wfi"
    PROVE  \E k \in Slots :
              /\ mode = "S" /\ current_proc = c /\ satp = c /\ OthersParked(c)
              /\ AtWfi(c, k)
BY DEF Up, InUserMode, InKernel, Switching, AtHandle, AtYield, AtResume, InWfi, AtUserEntry,
       AtForkReturn

LEMMA wfi_endsStep ==
    ASSUME Types, ShortStacks, NEW c \in Procs, Up(c), wfi_ends
    PROVE  Types' /\ ShortStacks' /\ Up(c)'
<1>1. PICK k \in Slots :
          /\ mode = "S" /\ current_proc = c /\ satp = c /\ OthersParked(c)
          /\ AtWfi(c, k)
  BY WfiOf DEF wfi_ends
<1>2. sp = <<k, 2>> /\ Len(stack[k]) = 2 /\ Home(c, k) /\ Idle(c, k)
  BY <1>1 DEF AtWfi, On
<1>0. PICK T : T = stack'
  OBVIOUS
<1>3. PICK st \in [Slots -> Seq(Frames)] : st = stack
  BY DEF Types
<1>4. /\ stack' \in [Slots -> Seq(Frames)] /\ Len(stack'[k]) = 1
      /\ stack'[k][1] = stack[k][1]
      /\ \A j \in Slots \ {k} : stack'[j] = stack[j]
  <2>1. T = [st EXCEPT ![k] = SubSeq(@, 1, 2 - 1)]
    BY <1>2, <1>0, <1>3 DEF wfi_ends, Pop
  <2>2. Len(st[k]) = 2
    BY <1>2, <1>3
  <2>3. /\ T \in [Slots -> Seq(Frames)] /\ Len(T[k]) = 1 /\ T[k][1] = st[k][1]
        /\ \A j \in Slots \ {k} : T[j] = st[j]
    BY <2>1, <2>2, PopSecond
  <2> QED  BY <1>0, <1>3, <2>3
<1>5. /\ sstatus' = stack[k][2].sstatus /\ sp' = <<k, 1>> /\ at' = "yield" /\ mode' = mode
      /\ sepc' = sepc /\ sscratch' = sscratch /\ satp' = satp
      /\ current_proc' = current_proc /\ next' = next /\ state' = state
      /\ proc_sp' = proc_sp /\ who' = who /\ expect' = expect
  BY <1>2 DEF wfi_ends, FrameAt
<1>6. sstatus' \in Statuses /\ FromUser(sstatus')
  BY <1>2, <1>5 DEF Idle, WfiFrames
<1>7. Types'
  BY <1>4, <1>5, <1>6, PointerKinds DEF Types
<1>8. ShortStacks'
  <2>1. Len(stack'[k]) <= 3
    BY <1>4
  <2> QED  BY <1>4, <2>1, ShortKept
<1>9. OthersParked(c)'
  <2>1. \A q \in Procs \ {c} : Alive(q)' => Alive(q)
    BY <1>5 DEF Alive
  <2> QED  BY <1>1, <1>2, <1>4, <1>5, <2>1, OthersKept
<1>10. AtYield(c, k)'
  <2>1. Alive(c)' => TrapOf(c, stack[k][1])'
    BY <1>2, <1>4, <1>5 DEF Idle, Alive, TrapOf
  <2>2. stack'[k][1] \in TrapFrames /\ stack'[k][1].cause = "ecall"
    BY <1>2, <1>4 DEF Idle
  <2> QED  BY <2>1, <2>2, <1>2, <1>4, <1>5, <1>6 DEF AtYield, On, Home
<1> QED  BY <1>1, <1>5, <1>7, <1>8, <1>9, <1>10 DEF Up, InKernel

\* The frame of a timer interrupt in the kernel, and what kernel_entry leaves.
LEMMA KernelTrap ==
    ASSUME Types, TimerInKernel, NEW k \in Slots, NEW n \in Nat, sp = <<k, n>>,
           at \in KernelPoints
    PROVE  \E f \in TrapFrames :
              /\ f.cause = "timer" /\ f.sp = <<k, n>> /\ f.owner = 0
              /\ stack' = [stack EXCEPT ![k] = Append(SubSeq(@, 1, n), f)]
              /\ sepc' = KernelAddress(at) /\ sepc' \in Addresses /\ mode' = "S"
              /\ sp' = <<k, n + 1>> /\ sp' \in Pointers
              /\ sstatus' \in Statuses /\ FromKernel(sstatus')
              /\ sscratch' = <<k, n>> /\ sscratch' \in Slots \X Nat
              /\ current_proc' = current_proc /\ expect' = expect
<1> USE ProcIsSlot
<1> DEFINE f == [kind |-> "trap", cause |-> "timer", sp |-> sp, regs |-> Saved(NoRegs),
                 user_pc |-> KernelAddress(at), owner |-> 0, who |-> who]
<1>1. mode = "S" /\ sstatus.SIE = TRUE /\ kernel_entry("timer", KernelAddress(at), NoRegs)
  BY DEF TimerInKernel, Types, Statuses
<1>2. KernelAddress(at) \in Addresses
  BY AddressKinds
<1>3. Saved(NoRegs) \in Registers
  <2>1. 0 \in Slots /\ 0 \in 0 .. MaxPc
    BY PcAssumption
  <2> QED  BY <2>1 DEF NoRegs, Registers, Saved
<1>4. f \in TrapFrames /\ f.cause = "timer" /\ f.sp = <<k, n>> /\ f.owner = 0
  BY <1>2, <1>3 DEF TrapFrames, Types
<1>5. /\ stack' = Push(stack, sp, f) /\ sepc' = KernelAddress(at) /\ mode' = "S"
      /\ sp' = Below(sp) /\ sscratch' = sp /\ current_proc' = current_proc
      /\ sstatus' = [SPP |-> "S", SIE |-> FALSE, SPIE |-> sstatus.SIE]
  BY <1>1 DEF kernel_entry
<1>6. stack' = [stack EXCEPT ![k] = Append(SubSeq(@, 1, n), f)]
  <2> HIDE DEF f
  <2> QED  BY <1>5 DEF Push
<1>7. sstatus' \in Statuses /\ FromKernel(sstatus')
  BY <1>1, <1>5 DEF Statuses, FromKernel
<1>8. sp' = <<k, n + 1>> /\ sp' \in Pointers /\ sscratch' = <<k, n>> /\ sscratch' \in Slots \X Nat
  BY <1>5, PointerKinds DEF Below
<1>9. expect' = expect
  BY DEF TimerInKernel
<1> HIDE DEF f
<1> QED  BY <1>2, <1>4, <1>5, <1>6, <1>7, <1>8, <1>9

LEMMA TimerInKernelStep ==
    ASSUME Types, ShortStacks, NEW c \in Procs, Up(c), TimerInKernel
    PROVE  Types' /\ ShortStacks' /\ Up(c)'
<1> USE ProcIsSlot
<1>1. mode = "S" /\ sstatus.SIE = TRUE
  BY DEF TimerInKernel, Types, Statuses
<1>2. at = "wfi"
  BY <1>1 DEF Up, InUserMode, InKernel, Switching, AtHandle, AtYield, AtResume, AtWfi, InWfi,
              AtUserEntry, AtForkReturn, Leaving, FromUser, FromKernel
<1>3. PICK k \in Slots :
          /\ current_proc = c /\ satp = c /\ OthersParked(c) /\ AtWfi(c, k)
  BY <1>2, WfiOf
<1>4. sp = <<k, 2>> /\ Len(stack[k]) = 2 /\ Home(c, k) /\ Idle(c, k)
  BY <1>3 DEF AtWfi, On
<1>5. PICK f \in TrapFrames :
          /\ f.cause = "timer" /\ f.sp = <<k, 2>>
          /\ stack' = [stack EXCEPT ![k] = Append(SubSeq(@, 1, 2), f)]
          /\ sepc' = KernelAddress("wfi") /\ sepc' \in Addresses /\ mode' = "S"
          /\ sp' = <<k, 2 + 1>> /\ sp' \in Pointers
          /\ sstatus' \in Statuses /\ FromKernel(sstatus') /\ sscratch' \in Slots \X Nat
          /\ current_proc' = current_proc /\ expect' = expect
  <2>1. at \in KernelPoints /\ 2 \in Nat
    BY <1>2 DEF KernelPoints
  <2>2. \E f \in TrapFrames :
          /\ f.cause = "timer" /\ f.sp = <<k, 2>> /\ f.owner = 0
          /\ stack' = [stack EXCEPT ![k] = Append(SubSeq(@, 1, 2), f)]
          /\ sepc' = KernelAddress(at) /\ sepc' \in Addresses /\ mode' = "S"
          /\ sp' = <<k, 2 + 1>> /\ sp' \in Pointers
          /\ sstatus' \in Statuses /\ FromKernel(sstatus')
          /\ sscratch' = <<k, 2>> /\ sscratch' \in Slots \X Nat
          /\ current_proc' = current_proc /\ expect' = expect
    BY <1>4, <2>1, KernelTrap
  <2> QED  BY <1>2, <2>2
<1>6. f \in Frames
  BY DEF Frames
<1>7. /\ stack' \in [Slots -> Seq(Frames)] /\ Len(stack'[k]) = 3
      /\ stack'[k][1] = stack[k][1] /\ stack'[k][2] = stack[k][2] /\ stack'[k][3] = f
      /\ \A j \in Slots \ {k} : stack'[j] = stack[j]
  <2>1. PICK st \in [Slots -> Seq(Frames)], T \in {stack'} : st = stack
    BY DEF Types
  <2>2. T = Push(st, <<k, 2>>, f) /\ Len(st[k]) = 2
    BY <1>4, <1>5, <2>1 DEF Push
  <2>3. ThirdOn(T, st, k, f)
    BY <1>6, <2>2, PushThird
  <2> QED  BY <2>1, <2>3 DEF ThirdOn
<1>8. /\ state' \in [Slots -> States]
      /\ \A p \in Slots : Alive(p)' <=> Alive(p)
      /\ at' \in {"resume", "yield"} /\ (at' = "yield" => state'[current_proc'] = "runnable")
      /\ satp' = satp /\ next' = next /\ proc_sp' = proc_sp /\ who' = who
  BY TimerWakes DEF TimerInKernel
<1>9. Types'
  BY <1>5, <1>7, <1>8 DEF Types
<1>10. ShortStacks'
  <2>1. Len(stack'[k]) <= 3
    BY <1>7
  <2> QED  BY <1>7, <2>1, ShortKept
<1>11. OthersParked(c)'
  BY <1>3, <1>4, <1>5, <1>7, <1>8, OthersKept
<1>12. InWfi(c, k)'
  <2>1. Alive(c)' => TrapOf(c, stack[k][1])'
    BY <1>4, <1>5, <1>7, <1>8 DEF Idle, TrapOf
  <2>2. Idle(c, k)'
    BY <1>4, <1>7, <2>1 DEF Idle
  <2>3. On(c, k, 3)'
    BY <1>4, <1>5, <1>7 DEF On, Home
  <2> QED  BY <2>2, <2>3, <1>3, <1>5, <1>7, <1>8 DEF InWfi
<1> QED  BY <1>3, <1>5, <1>8, <1>9, <1>10, <1>11, <1>12 DEF Up, InKernel

\* switch_context loads the context that p was parked with: p is at the start
\* of user mode, in its system call again, or on its way out of the fork.
LEMMA Resumed ==
    ASSUME Types, NEW p \in Procs, NEW m \in Slots, NEW n \in {1, 2}, NEW h \in Slots,
           Home(p, m), NewBorn(p, m) \/ InCall(p, m), n = Len(stack[m]),
           state[p] = "runnable", Home(p, h), sscratch = Top(h), InCall(p, m) => h = p,
           state' = state, expect' = expect, mode' = "S", current_proc' = p, satp' = p,
           sscratch' = sscratch, sp' = <<m, n - 1>>, Len(stack'[m]) = n - 1,
           n = 2 => stack'[m][1] = stack[m][1],
           sstatus' = stack[m][n].sstatus, at' = stack[m][n].ra,
           sepc' = IF stack[m][n].ra = "fork_child_trap_return" THEN stack[m][n].s11 ELSE sepc
    PROVE  /\ \E k \in Slots : InKernel(p, k)'
           /\ sstatus' \in Statuses /\ sepc' \in Addresses /\ sp' \in Pointers
<1>1. sp' \in Pointers
  <2>1. n - 1 \in Nat
    OBVIOUS
  <2> QED  BY <2>1, PointerKinds
<1>2. CASE NewBorn(p, m)
  <2>1. /\ stack[m][1] \in Contexts /\ stack[m][1].ra = "user_entry"
        /\ FromUser(stack[m][1].sstatus) /\ Fresh(p) /\ n = 1
    BY <1>2 DEF NewBorn
  <2>2. sstatus' \in Statuses /\ sepc' \in Addresses
    BY <2>1 DEF Contexts, Types
  <2>3. AtUserEntry(p, h)'
    BY <2>1 DEF AtUserEntry, Fresh, Home
  <2> QED  BY <1>1, <2>2, <2>3 DEF InKernel
<1>3. CASE InCall(p, m)
  <2>1. /\ n = 2 /\ TrapOf(p, stack[m][1]) /\ stack[m][1].cause = "ecall"
        /\ stack[m][2] \in Contexts /\ FromUser(stack[m][2].sstatus)
        /\ \/ stack[m][2].ra = "resume"
           \/ stack[m][2].ra = "fork_child_trap_return" /\ stack[m][2].s11 = expect[p].pc
    BY <1>3 DEF InCall
  <2>2. sstatus' \in Statuses /\ sepc' \in Addresses
    BY <2>1 DEF Contexts, Types
  <2>3. stack'[m][1] = stack[m][1] /\ TrapOf(p, stack[m][1])' /\ On(p, m, 1)'
    BY <2>1 DEF TrapOf, On, Home
  <2>4. CASE stack[m][2].ra = "resume"
    <3>1. AtResume(p, m)'
      BY <2>1, <2>3, <2>4 DEF AtResume
    <3> QED  BY <1>1, <2>2, <3>1 DEF InKernel
  <2>5. CASE stack[m][2].ra = "fork_child_trap_return" /\ stack[m][2].s11 = expect[p].pc
    <3>1. AtForkReturn(p, m)'
      BY <1>3, <2>1, <2>3, <2>5 DEF AtForkReturn
    <3> QED  BY <1>1, <2>2, <3>1 DEF InKernel
  <2> QED  BY <2>1, <2>4, <2>5
<1> QED  BY <1>2, <1>3

\* Taking the last of one or two frames off stack m.
LastOff(T, st, m, n) ==
    /\ T \in [Slots -> Seq(Frames)] /\ Len(T[m]) = n - 1
    /\ n = 2 => T[m][1] = st[m][1]
    /\ \A j \in Slots \ {m} : T[j] = st[j]

LEMMA PopLast ==
    ASSUME NEW st \in [Slots -> Seq(Frames)], NEW m \in Slots, NEW n \in {1, 2},
           Len(st[m]) = n, NEW T, T = Pop(st, <<m, n>>)
    PROVE  LastOff(T, st, m, n)
<1> DEFINE s == SubSeq(st[m], 1, n - 1)
<1>1. st[m] \in Seq(Frames) /\ n - 1 \in 0 .. Len(st[m])
  OBVIOUS
<1>2. s \in Seq(Frames) /\ Len(s) = n - 1 /\ \A i \in 1 .. n - 1 : s[i] = st[m][i]
  BY <1>1, Shortened
<1>3. T = [st EXCEPT ![m] = s]
  BY DEF Pop
<1> HIDE DEF s
<1>4. T \in [Slots -> Seq(Frames)] /\ T[m] = s /\ \A j \in Slots \ {m} : T[j] = st[j]
  BY <1>2, <1>3
<1>5. n = 2 => s[1] = st[m][1]
  BY <1>2
<1> QED  BY <1>2, <1>4, <1>5 DEF LastOff

\* The context that switch_context saves.
SavedCtx == [kind |-> "ctx", ra |-> "resume", sstatus |-> sstatus, s11 |-> USER_BASE]

LEMMA SavedCtxKind ==
    ASSUME Types
    PROVE  /\ SavedCtx \in Contexts /\ SavedCtx \in Frames
           /\ SavedCtx.ra = "resume" /\ SavedCtx.sstatus = sstatus
<1>1. USER_BASE \in Addresses
  <2>1. 0 \in 0 .. MaxPc + 1
    BY PcAssumption
  <2> QED  BY <2>1, AddressKinds DEF USER_BASE
<1>2. SavedCtx \in Contexts
  BY <1>1 DEF SavedCtx, Contexts, Types
<1> QED  BY <1>2 DEF Frames, SavedCtx

\* The new process takes over, and the one that leaves, if it is alive, is
\* parked in its system call (switch_context).
LEMMA switch_contextStep ==
    ASSUME Types, ShortStacks, NEW c \in Procs, Up(c), switch_context
    PROVE  Types' /\ ShortStacks' /\ \E p \in Procs : Up(p)'
<1> USE ProcIsSlot
<1>1. PICK k \in Slots :
          mode = "S" /\ next = c /\ OthersParked(c) /\ Leaving(c, k, current_proc)
  BY DEF switch_context, Up, InUserMode, InKernel, Switching, AtHandle, AtYield, AtResume,
         AtWfi, InWfi, AtUserEntry, AtForkReturn
<1>2. PICK p \in Procs : p = current_proc
  BY <1>1 DEF Leaving
<1>3. /\ p # c /\ state[p] = "runnable" /\ satp = p /\ sscratch = Top(p)
      /\ sp = <<k, 1>> /\ Len(stack[k]) = 1 /\ Home(c, k) /\ FromUser(sstatus)
      /\ Alive(c) => TrapOf(c, stack[k][1]) /\ stack[k][1].cause = "ecall"
  BY <1>1, <1>2 DEF Leaving, On
<1>4. PICK m \in Slots :
          /\ Home(p, m) /\ proc_sp[p] = <<m, Len(stack[m])>>
          /\ NewBorn(p, m) \/ InCall(p, m)
  BY <1>1, <1>3 DEF OthersParked, Alive, Parked
<1>5. m # k
  BY <1>3, <1>4, HomesDiffer
<1>6. PICK n \in {1, 2} : n = Len(stack[m])
  BY <1>4 DEF NewBorn, InCall
<1>7. PICK st \in [Slots -> Seq(Frames)], f \in Frames, S \in {Push(stack, <<k, 1>>, SavedCtx)}, T \in {stack'} :
          st = stack /\ f = SavedCtx /\ S = Push(st, <<k, 1>>, f)
  BY SavedCtxKind DEF Types
<1>8. /\ T = Pop(S, <<m, n>>) /\ sp' = <<m, n - 1>>
      /\ proc_sp' = [proc_sp EXCEPT ![c] = <<k, 2>>]
      /\ sstatus' = S[m][n].sstatus /\ at' = S[m][n].ra
      /\ sepc' = IF S[m][n].ra = "fork_child_trap_return" THEN S[m][n].s11 ELSE sepc
  <2>1. /\ proc_sp[current_proc] = <<m, n>> /\ next = c /\ sp = <<k, 1>> /\ current_proc # 0
        /\ Push(stack, sp, [kind |-> "ctx", ra |-> "resume", sstatus |-> sstatus,
                            s11 |-> USER_BASE]) = S
    BY <1>1, <1>2, <1>3, <1>4, <1>6, <1>7 DEF SavedCtx, Push
  <2>2. T = Pop(S, <<m, n>>)
    BY <2>1, <1>7 DEF switch_context, Pop
  <2>3. proc_sp' = [proc_sp EXCEPT ![c] = <<k, 2>>]
    BY <2>1 DEF switch_context, Below
  <2>4. sp' = <<m, n - 1>>
    BY <2>1 DEF switch_context
  <2>5. sstatus' = S[m][n].sstatus /\ at' = S[m][n].ra
    BY <2>1 DEF switch_context, Return
  <2>6. sepc' = IF S[m][n].ra = "fork_child_trap_return" THEN S[m][n].s11 ELSE sepc
    BY <2>1 DEF switch_context
  <2> QED  BY <2>2, <2>3, <2>4, <2>5, <2>6
<1>9. /\ mode' = mode /\ sscratch' = sscratch /\ satp' = satp /\ current_proc' = current_proc
      /\ next' = next /\ state' = state /\ who' = who /\ expect' = expect
  BY DEF switch_context
<1>10. /\ S \in [Slots -> Seq(Frames)] /\ Len(S[k]) = 2 /\ S[k][1] = st[k][1] /\ S[k][2] = f
       /\ \A j \in Slots \ {k} : S[j] = st[j]
  <2>1. Len(st[k]) = 1 /\ S = Push(st, <<k, 1>>, f)
    BY <1>3, <1>7
  <2>2. SecondOn(S, st, k, f)
    BY <2>1, PushSecond
  <2> QED  BY <2>2 DEF SecondOn
<1>11. /\ T \in [Slots -> Seq(Frames)] /\ Len(T[m]) = n - 1
       /\ n = 2 => T[m][1] = S[m][1]
       /\ \A j \in Slots \ {m} : T[j] = S[j]
  <2>1. Len(S[m]) = n /\ S \in [Slots -> Seq(Frames)] /\ T = Pop(S, <<m, n>>)
    BY <1>5, <1>6, <1>7, <1>8, <1>10
  <2>2. LastOff(T, S, m, n)
    BY <2>1, PopLast
  <2> QED  BY <2>2 DEF LastOff
<1>12. /\ stack' \in [Slots -> Seq(Frames)] /\ S[m] = stack[m]
       /\ Len(stack'[m]) = n - 1 /\ (n = 2 => stack'[m][1] = stack[m][1])
       /\ Len(stack'[k]) = 2 /\ stack'[k][1] = stack[k][1] /\ stack'[k][2] = f
       /\ \A j \in Slots \ {k, m} : stack'[j] = stack[j]
  BY <1>5, <1>7, <1>10, <1>11, ZenonT(60)
<1>13. /\ \E h \in Slots : InKernel(p, h)'
       /\ sstatus' \in Statuses /\ sepc' \in Addresses /\ sp' \in Pointers
  <2>1. Home(p, p)
    BY DEF Home
  <2>2. /\ sp' = <<m, n - 1>> /\ sstatus' = stack[m][n].sstatus /\ at' = stack[m][n].ra
        /\ sepc' = IF stack[m][n].ra = "fork_child_trap_return" THEN stack[m][n].s11 ELSE sepc
        /\ Len(stack'[m]) = n - 1 /\ (n = 2 => stack'[m][1] = stack[m][1])
    BY <1>8, <1>12
  <2>3. /\ state' = state /\ expect' = expect /\ mode' = "S" /\ current_proc' = p /\ satp' = p
        /\ sscratch' = sscratch /\ sscratch = Top(p) /\ state[p] = "runnable"
    BY <1>1, <1>2, <1>3, <1>9
  <2> QED  BY <1>4, <1>6, <2>1, <2>2, <2>3, Resumed
<1>14. /\ proc_sp' \in [Slots -> Slots \X Nat] /\ proc_sp'[c] = <<k, 2>>
       /\ \A q \in Procs \ {c} : proc_sp'[q] = proc_sp[q]
  <2>1. <<k, 2>> \in Slots \X Nat
    OBVIOUS
  <2> QED  BY <2>1, <1>8 DEF Types
<1>15. Types'
  BY <1>9, <1>12, <1>13, <1>14 DEF Types
<1>16. ShortStacks'
  <2> SUFFICES ASSUME NEW j \in Slots PROVE Len(stack'[j]) <= 3
    BY DEF ShortStacks
  <2>1. Len(stack'[m]) <= 3 /\ Len(stack'[k]) <= 3
    BY <1>12
  <2> QED  BY <2>1, <1>12 DEF ShortStacks
<1>17. OthersParked(p)'
  <2> SUFFICES ASSUME NEW q \in Procs \ {p}, Alive(q)'
               PROVE  Parked(q)'
    BY DEF OthersParked
  <2>1. Alive(q)
    BY <1>9 DEF Alive
  <2>2. CASE q = c
    <3>1. TrapOf(c, stack[k][1]) /\ stack[k][1].cause = "ecall"
      BY <1>3, <2>1, <2>2
    <3>2. TrapOf(c, stack[k][1])' /\ stack'[k][1].cause = "ecall"
      BY <3>1, <1>9, <1>12 DEF TrapOf
    <3>3. f \in Contexts /\ f.ra = "resume" /\ FromUser(f.sstatus)
      BY <1>3, <1>7, SavedCtxKind
    <3>4. InCall(c, k)'
      BY <3>2, <3>3, <1>12 DEF InCall
    <3> QED  BY <3>4, <1>3, <1>12, <1>14, <2>2 DEF Parked, Home
  <2>3. CASE q # c
    <3>1. Parked(q)
      BY <1>1, <2>1, <2>3 DEF OthersParked
    <3>2. \A j \in Slots : Home(q, j) => stack'[j] = stack[j]
      BY <1>3, <1>4, <1>12, <2>3, HomesDiffer
    <3> QED  BY <3>1, <3>2, <1>9, <1>14, <2>3, ParkedKept
  <2> QED  BY <2>2, <2>3
<1> QED  BY <1>13, <1>15, <1>16, <1>17 DEF Up

-----------------------------------------------------------------------------
(* Boot.                                                                   *)

LEMMA InitBoots ==
    ASSUME Init
    PROVE  Types /\ ShortStacks /\ Booting
<1> USE ProcIsSlot
<1>1. sp = Top(0) /\ Top(0) \in Pointers /\ Top(0) \in Slots \X Nat
  BY PointerKinds DEF Init, Top
<1>2. USER_BASE \in Addresses
  <2>1. 0 \in 0 .. MaxPc + 1
    BY PcAssumption
  <2> QED  BY <2>1, AddressKinds DEF USER_BASE
<1>3. NoRegs \in Registers
  <2>1. 0 \in Slots /\ 0 \in 0 .. MaxPc
    BY PcAssumption
  <2> QED  BY <2>1 DEF NoRegs, Registers
<1>4. expect \in [Slots -> [pc : Addresses, regs : Registers]]
  BY <1>2, <1>3 DEF Init
<1>5. sstatus \in Statuses /\ sstatus.SIE = TRUE
  BY DEF Init, Enabled, Statuses
<1>6. stack \in [Slots -> Seq(Frames)] /\ \A p \in Slots : Len(stack[p]) = 0
  BY DEF Init
<1>7. proc_sp \in [Slots -> Slots \X Nat]
  BY DEF Init, Top
<1>8. state \in [Slots -> States] /\ \A p \in Procs : state[p] = "unused"
  BY DEF Init, States, Procs
<1>9. Types
  BY <1>1, <1>2, <1>4, <1>5, <1>6, <1>7, <1>8 DEF Types, Init
<1>10. ShortStacks
  BY <1>6 DEF ShortStacks
<1>11. Booting
  BY <1>1, <1>5, <1>8 DEF Booting, BootStraight, BootPoints, BootAt, BootTable, Init
<1> QED  BY <1>9, <1>10, <1>11

LEMMA BootTableKept ==
    ASSUME NEW point, BootTable(point), \A q \in Procs : state'[q] = state[q],
           stack'[init_proc] = stack[init_proc], proc_sp'[init_proc] = proc_sp[init_proc],
           expect'[init_proc] = expect[init_proc]
    PROVE  BootTable(point)'
<1> USE ProcIsSlot
<1>1. NewBorn(init_proc, init_proc) => NewBorn(init_proc, init_proc)'
  BY DEF NewBorn, Fresh
<1> QED  BY <1>1 DEF BootTable

\* What kind of state the kernel is in while it boots.
LEMMA BootCases ==
    ASSUME Booting
    PROVE  \E point \in BootPoints :
              /\ BootAt(point) /\ BootTable(point) /\ point \in KernelPoints
              /\ \/ at = point /\ sp = Top(0) /\ sstatus.SIE = TRUE
                 \/ BootInterrupted(point)
<1>1. BootPoints \subseteq KernelPoints
  BY DEF BootPoints, KernelPoints
<1>2. CASE BootStraight
  BY <1>1, <1>2 DEF BootStraight
<1>3. CASE \E point \in BootPoints : BootInterrupted(point)
  BY <1>1, <1>3 DEF BootInterrupted
<1> QED  BY <1>2, <1>3 DEF Booting

LEMMA kernel_mainStep ==
    ASSUME Types, ShortStacks, Booting, kernel_main
    PROVE  Types' /\ ShortStacks' /\ Booting'
<1> USE ProcIsSlot
<1>1. BootStraight /\ at = "boot"
  BY DEF Booting, BootInterrupted, kernel_main
<1>2. PICK n \in Procs : n = init_proc
  OBVIOUS
<1>3. NewContext(n, <<NewCtx>>, NewResume)
  BY <1>2 DEF kernel_main, create_process, NewCtx, NewResume
<1>4. /\ NewCtx \in Contexts /\ NewResume \in [pc : Addresses, regs : Registers]
      /\ NewBorn(n, n)' /\ proc_sp'[n] = <<n, 1>>
  BY <1>3, NewProcess
<1>5. /\ at' = "yield" /\ mode' = mode /\ sp' = sp /\ sepc' = sepc /\ sscratch' = sscratch
      /\ sstatus' = sstatus /\ satp' = satp /\ current_proc' = current_proc /\ next' = next
      /\ who' = who
  BY DEF kernel_main
<1>6. <<NewCtx>> \in Seq(Frames) /\ Len(<<NewCtx>>) = 1
  BY <1>4 DEF Frames
<1>7. /\ state' \in [Slots -> States] /\ state'[n] = "runnable"
      /\ \A q \in Slots \ {n} : state'[q] = state[q]
  BY <1>3 DEF NewContext, Types, States
<1>8. /\ stack' \in [Slots -> Seq(Frames)] /\ Len(stack'[n]) = 1
      /\ \A j \in Slots \ {n} : stack'[j] = stack[j]
  BY <1>3, <1>6 DEF NewContext, Types
<1>9. proc_sp' \in [Slots -> Slots \X Nat]
  <2>1. <<n, Len(<<NewCtx>>)>> \in Slots \X Nat
    BY <1>6
  <2> QED  BY <1>3, <2>1 DEF NewContext, Types
<1>10. expect' \in [Slots -> [pc : Addresses, regs : Registers]]
  BY <1>3, <1>4 DEF NewContext, Types
<1>11. Types'
  BY <1>5, <1>7, <1>8, <1>9, <1>10 DEF Types
<1>12. ShortStacks'
  <2>1. Len(stack'[n]) <= 3
    BY <1>8
  <2> QED  BY <1>8, <2>1, ShortKept
<1>13. BootTable("yield")'
  BY <1>1, <1>2, <1>4, <1>7 DEF BootTable, BootStraight
<1>14. BootStraight'
  BY <1>1, <1>5, <1>13 DEF BootStraight, BootPoints, BootAt
<1> QED  BY <1>5, <1>11, <1>12, <1>14 DEF Booting

LEMMA TimerInBootStep ==
    ASSUME Types, ShortStacks, Booting, TimerInKernel
    PROVE  Types' /\ ShortStacks' /\ Booting'
<1> USE ProcIsSlot
<1>1. sstatus.SIE = TRUE
  BY DEF TimerInKernel, Types, Statuses
<1>2. PICK point \in BootPoints :
          /\ BootAt(point) /\ BootTable(point) /\ point \in KernelPoints
          /\ at = point /\ sp = Top(0)
  BY <1>1, BootCases DEF BootInterrupted, FromKernel
<1>3. PICK f \in TrapFrames :
          /\ f.cause = "timer" /\ f.sp = <<0, 0>> /\ f.owner = 0
          /\ stack' = [stack EXCEPT ![0] = Append(SubSeq(@, 1, 0), f)]
          /\ sepc' = KernelAddress(at) /\ sepc' \in Addresses /\ mode' = "S"
          /\ sp' = <<0, 0 + 1>> /\ sp' \in Pointers
          /\ sstatus' \in Statuses /\ FromKernel(sstatus')
          /\ sscratch' = <<0, 0>> /\ sscratch' \in Slots \X Nat
          /\ current_proc' = current_proc /\ expect' = expect
  <2>1. sp = <<0, 0>> /\ 0 \in Slots /\ 0 \in Nat /\ at \in KernelPoints
    BY <1>2 DEF Top
  <2> QED  BY <2>1, KernelTrap
<1>4. /\ stack' \in [Slots -> Seq(Frames)] /\ Len(stack'[0]) = 1 /\ stack'[0][1] = f
      /\ \A j \in Slots \ {0} : stack'[j] = stack[j]
  <2>1. stack \in [Slots -> Seq(Frames)] /\ f \in Frames
    BY DEF Types, Frames
  <2> QED  BY <1>3, <2>1, PushFirst
<1>5. /\ state' \in [Slots -> States]
      /\ \A p \in Slots : state[p] # "waiting" => state'[p] = state[p]
      /\ at' \in {"resume", "yield"}
      /\ satp' = satp /\ next' = next /\ proc_sp' = proc_sp /\ who' = who
  BY TimerWakes DEF TimerInKernel
<1>6. at' = "yield" => point = "current"
  <2>1. at' = "yield" => current_proc' > 0
    BY DEF TimerInKernel, TimerCase
  <2> QED  BY <2>1, <1>2, <1>3 DEF BootAt
<1>7. Types'
  BY <1>3, <1>4, <1>5 DEF Types
<1>8. ShortStacks'
  <2>1. Len(stack'[0]) <= 3
    BY <1>4
  <2> QED  BY <1>4, <2>1, ShortKept
<1>9. BootTable(point)'
  <2>1. \A q \in Procs : state[q] # "waiting"
    BY <1>2 DEF BootTable
  <2>2. \A q \in Procs : state'[q] = state[q]
    BY <2>1, <1>5
  <2> QED  BY <2>2, <1>2, <1>3, <1>4, <1>5, BootTableKept
<1>10. BootInterrupted(point)'
  <2>1. BootAt(point)'
    BY <1>2, <1>3, <1>5 DEF BootAt
  <2> QED  BY <2>1, <1>2, <1>3, <1>4, <1>5, <1>6, <1>9 DEF BootInterrupted, Top
<1> QED  BY <1>3, <1>5, <1>7, <1>8, <1>10 DEF Booting, Top

LEMMA TimerReturnsInBoot ==
    ASSUME Types, ShortStacks, Booting, TimerReturns
    PROVE  Types' /\ ShortStacks' /\ Booting'
<1> USE ProcIsSlot
<1>1. PICK point \in BootPoints : BootInterrupted(point)
  BY DEF Booting, BootStraight, BootPoints, TimerReturns
<1>2. /\ BootAt(point) /\ BootTable(point) /\ sepc = KernelAddress(point)
      /\ FromKernel(sstatus) /\ sp = <<0, 1>> /\ Len(stack[0]) = 1
      /\ stack[0][1] \in TrapFrames /\ stack[0][1].sp = Top(0) /\ stack[0][1].owner = 0
  BY <1>1 DEF BootInterrupted
<1>3. FrameAt(sp) = stack[0][1]
  BY <1>2 DEF FrameAt
<1>4. /\ sepc' = sepc /\ sstatus' = [SPP |-> "U", SIE |-> sstatus.SPIE, SPIE |-> TRUE]
      /\ mode' = "S" /\ sp' = Top(0) /\ at' = point /\ who' = who
  BY <1>2, <1>3 DEF TimerReturns, sret, FromKernel, KernelAddress
<1>5. /\ satp' = satp /\ current_proc' = current_proc /\ next' = next /\ state' = state
      /\ proc_sp' = proc_sp /\ expect' = expect
  BY DEF TimerReturns
<1>6. sscratch' \in {Top(0), Top(init_proc)}
  <2>1. sscratch' = ReturnStack(stack[0][1])
    BY <1>3 DEF TimerReturns
  <2>2. current_proc \in {0, init_proc}
    BY <1>2 DEF BootAt
  <2>3. sscratch' \in {Top(0), Top(init_proc), sscratch}
    BY <2>1, <2>2, <1>2 DEF ReturnStack
  <2> QED  BY <2>3 DEF Booting
<1>7. /\ stack' \in [Slots -> Seq(Frames)] /\ Len(stack'[0]) = 0
      /\ \A j \in Slots \ {0} : stack'[j] = stack[j]
  <2>1. stack' = [stack EXCEPT ![0] = SubSeq(@, 1, 1 - 1)]
    BY <1>2 DEF TimerReturns, Pop
  <2>2. stack \in [Slots -> Seq(Frames)] /\ Len(stack[0]) = 1
    BY <1>2 DEF Types
  <2> QED  BY <2>1, <2>2, PopFirst
<1>8. Types'
  <2>1. sstatus' \in Statuses
    BY <1>4 DEF Types, Statuses
  <2>2. sp' \in Pointers /\ sscratch' \in Slots \X Nat
    BY <1>4, <1>6, PointerKinds DEF Top
  <2> QED  BY <2>1, <2>2, <1>4, <1>5, <1>7 DEF Types
<1>9. ShortStacks'
  <2>1. Len(stack'[0]) <= 3
    BY <1>7
  <2> QED  BY <1>7, <2>1, ShortKept
<1>10. BootTable(point)'
  BY <1>2, <1>5, <1>7, BootTableKept
<1>11. BootStraight'
  <2>1. BootAt(point)' /\ sstatus'.SIE = TRUE
    BY <1>2, <1>4, <1>5 DEF BootAt, FromKernel
  <2>2. BootAt(at)' /\ BootTable(at)'
    BY <2>1, <1>4, <1>10 DEF BootAt, BootTable, NewBorn, Fresh
  <2> QED  BY <2>1, <2>2, <1>4 DEF BootStraight
<1> QED  BY <1>4, <1>6, <1>8, <1>9, <1>11 DEF Booting

\* yield() in boot: straight from kernel_main, or out of a timer interrupt.
LEMMA YieldInBoot ==
    ASSUME Booting, at = "yield"
    PROVE  \/ /\ current_proc = 0 /\ BootTable("yield") /\ sp = Top(0) /\ sstatus.SIE = TRUE
              /\ BootStraight
           \/ current_proc = init_proc /\ state[init_proc] = "runnable" /\ BootInterrupted("current")
BY DEF Booting, BootStraight, BootInterrupted, BootAt, BootTable

LEMMA yield_pickInBoot ==
    ASSUME Types, ShortStacks, Booting, NEW p \in Slots, yield_pick(p)
    PROVE  Types' /\ ShortStacks' /\ Booting'
<1> USE ProcIsSlot
<1>1. at = "yield" /\ Scan(p) /\ p # current_proc
  BY DEF yield_pick
<1>2. p \in Procs /\ state[p] = "runnable"
  BY <1>1, ScanFinds
<1>3. ~(current_proc = init_proc /\ state[init_proc] = "runnable")
  BY <1>1, RunnableStays
<1>4. current_proc = 0 /\ BootTable("yield") /\ sp = Top(0) /\ sstatus.SIE = TRUE
  BY <1>1, <1>3, YieldInBoot
<1>5. p = init_proc
  BY <1>2, <1>4 DEF BootTable
<1>6. /\ next' = p /\ satp' = p /\ sscratch' = Top(p) /\ at' = "picked" /\ mode' = mode
      /\ sp' = sp /\ sepc' = sepc /\ sstatus' = sstatus /\ current_proc' = current_proc
      /\ state' = state /\ stack' = stack /\ proc_sp' = proc_sp /\ who' = who
      /\ expect' = expect
  BY DEF yield_pick
<1>7. Types' /\ ShortStacks'
  <2>1. sscratch' \in Slots \X Nat
    BY <1>6 DEF Top
  <2> QED  BY <2>1, <1>6 DEF Types, ShortStacks
<1>8. BootTable("picked")'
  <2>1. BootTable("picked")
    BY <1>4 DEF BootTable
  <2> QED  BY <2>1, <1>6, BootTableKept
<1>9. BootStraight'
  BY <1>4, <1>5, <1>6, <1>8 DEF BootStraight, BootPoints, BootAt
<1> QED  BY <1>5, <1>6, <1>7, <1>9 DEF Booting

LEMMA yield_sameInBoot ==
    ASSUME Types, ShortStacks, Booting, yield_same
    PROVE  Types' /\ ShortStacks' /\ Booting'
<1> USE ProcIsSlot
<1>1. at = "yield" /\ Scan(current_proc) /\ current_proc \in Slots
  BY DEF yield_same, Types
<1>2. current_proc \in Procs
  BY <1>1, ScanFinds
<1>3. current_proc = init_proc /\ BootInterrupted("current")
  BY <1>1, <1>2, YieldInBoot
<1>4. /\ sscratch' = Top(init_proc) /\ at' = "resume" /\ mode' = mode /\ sp' = sp
      /\ sepc' = sepc /\ sstatus' = sstatus /\ satp' = satp
      /\ current_proc' = current_proc /\ next' = next /\ state' = state /\ stack' = stack
      /\ proc_sp' = proc_sp /\ who' = who /\ expect' = expect
  BY <1>2, <1>3 DEF yield_same, kernel, Return
<1>5. Types' /\ ShortStacks'
  <2>1. sscratch' \in Slots \X Nat
    BY <1>4 DEF Top
  <2> QED  BY <2>1, <1>4 DEF Types, ShortStacks
<1>6. BootTable("current")'
  <2>1. BootTable("current")
    BY <1>3 DEF BootInterrupted
  <2> QED  BY <2>1, <1>4, BootTableKept
<1>7. BootInterrupted("current")'
  BY <1>3, <1>4, <1>6 DEF BootInterrupted, BootAt
<1> QED  BY <1>4, <1>5, <1>7 DEF Booting, BootPoints

LEMMA yield_set_currentInBoot ==
    ASSUME Types, ShortStacks, Booting, yield_set_current
    PROVE  Types' /\ ShortStacks' /\ Booting'
<1>1. BootStraight /\ at = "picked"
  BY DEF Booting, BootInterrupted, yield_set_current
<1>2. /\ current_proc' = next /\ next' = current_proc /\ at' = "current"
      /\ mode' = mode /\ sp' = sp /\ sepc' = sepc /\ sscratch' = sscratch
      /\ sstatus' = sstatus /\ satp' = satp /\ state' = state /\ stack' = stack
      /\ proc_sp' = proc_sp /\ who' = who /\ expect' = expect
  BY DEF yield_set_current
<1>3. Types' /\ ShortStacks'
  BY <1>2 DEF Types, ShortStacks
<1>4. BootTable("current")'
  <2>1. BootTable("current")
    BY <1>1 DEF BootStraight, BootTable
  <2> QED  BY <2>1, <1>2, BootTableKept
<1>5. BootStraight'
  BY <1>1, <1>2, <1>4 DEF BootStraight, BootPoints, BootAt
<1> QED  BY <1>2, <1>3, <1>5 DEF Booting

\* The boot code switches to the init process, with whatever sscratch the last
\* timer interrupt left: its own stack's top or that of the boot stack.
LEMMA switch_contextInBoot ==
    ASSUME Types, ShortStacks, Booting, switch_context
    PROVE  Types' /\ ShortStacks' /\ \E p \in Procs : Up(p)'
<1> USE ProcIsSlot
<1>1. BootStraight /\ at = "current"
  BY DEF Booting, BootInterrupted, switch_context
<1>2. PICK p \in Procs, h \in Slots : p = init_proc /\ sscratch = Top(h) /\ Home(p, h)
  BY DEF Booting, Home
<1>3. /\ current_proc = p /\ next = 0 /\ satp = p /\ sp = <<0, 0>> /\ mode = "S"
      /\ state[p] = "runnable" /\ proc_sp[p] = <<p, 1>> /\ NewBorn(p, p)
      /\ \A q \in Procs \ {p} : state[q] = "unused"
  BY <1>1, <1>2 DEF BootStraight, BootAt, BootTable, Top, Booting
<1>4. PICK st \in [Slots -> Seq(Frames)], f \in Frames, S \in {Push(stack, <<0, 0>>, SavedCtx)}, T \in {stack'} :
          st = stack /\ f = SavedCtx /\ S = Push(st, <<0, 0>>, f)
  BY SavedCtxKind DEF Types
<1>5. /\ T = Pop(S, <<p, 1>>) /\ sp' = <<p, 1 - 1>>
      /\ proc_sp' = [proc_sp EXCEPT ![0] = <<0, 1>>]
      /\ sstatus' = S[p][1].sstatus /\ at' = S[p][1].ra
      /\ sepc' = IF S[p][1].ra = "fork_child_trap_return" THEN S[p][1].s11 ELSE sepc
  <2>1. /\ proc_sp[current_proc] = <<p, 1>> /\ next = 0 /\ sp = <<0, 0>> /\ current_proc # 0
        /\ Push(stack, sp, [kind |-> "ctx", ra |-> "resume", sstatus |-> sstatus,
                            s11 |-> USER_BASE]) = S
    BY <1>3, <1>4 DEF SavedCtx, Push
  <2>2. T = Pop(S, <<p, 1>>)
    BY <2>1, <1>4 DEF switch_context, Pop
  <2>3. proc_sp' = [proc_sp EXCEPT ![0] = <<0, 1>>]
    BY <2>1 DEF switch_context, Below
  <2>4. sp' = <<p, 1 - 1>>
    BY <2>1 DEF switch_context
  <2>5. sstatus' = S[p][1].sstatus /\ at' = S[p][1].ra
    BY <2>1 DEF switch_context, Return
  <2>6. sepc' = IF S[p][1].ra = "fork_child_trap_return" THEN S[p][1].s11 ELSE sepc
    BY <2>1 DEF switch_context
  <2> QED  BY <2>2, <2>3, <2>4, <2>5, <2>6
<1>6. /\ mode' = mode /\ sscratch' = sscratch /\ satp' = satp /\ current_proc' = current_proc
      /\ next' = next /\ state' = state /\ who' = who /\ expect' = expect
  BY DEF switch_context
<1>7. /\ S \in [Slots -> Seq(Frames)] /\ Len(S[0]) = 1
      /\ \A j \in Slots \ {0} : S[j] = st[j]
  <2>1. S = [st EXCEPT ![0] = Append(SubSeq(@, 1, 0), f)]
    BY <1>4 DEF Push
  <2> QED  BY <2>1, PushFirst
<1>8. Len(st[p]) = 1 /\ p # 0
  BY <1>3, <1>4 DEF NewBorn
<1>9. LastOff(T, S, p, 1)
  BY <1>5, <1>7, <1>8, PopLast
<1>10. /\ stack' \in [Slots -> Seq(Frames)] /\ S[p] = stack[p]
       /\ Len(stack'[p]) = 0 /\ Len(stack'[0]) = 1
       /\ \A j \in Slots \ {0, p} : stack'[j] = stack[j]
  BY <1>4, <1>7, <1>8, <1>9 DEF LastOff
<1>11. /\ \E k \in Slots : InKernel(p, k)'
       /\ sstatus' \in Statuses /\ sepc' \in Addresses /\ sp' \in Pointers
  <2>1. PICK n \in {1, 2} : n = 1
    OBVIOUS
  <2>2. /\ sp' = <<p, n - 1>> /\ sstatus' = stack[p][n].sstatus /\ at' = stack[p][n].ra
        /\ sepc' = IF stack[p][n].ra = "fork_child_trap_return" THEN stack[p][n].s11 ELSE sepc
        /\ Len(stack'[p]) = n - 1 /\ (n = 2 => stack'[p][1] = stack[p][1])
        /\ n = Len(stack[p])
    <3>1. n - 1 = 0 /\ 1 - 1 = 0 /\ n # 2
      BY <2>1
    <3>2. Len(stack[p]) = 1 /\ S[p][1] = stack[p][1]
      BY <1>4, <1>8, <1>10
    <3>3. sp' = <<p, n - 1>> /\ Len(stack'[p]) = n - 1
      BY <3>1, <1>5, <1>10
    <3>4. /\ sstatus' = stack[p][1].sstatus /\ at' = stack[p][1].ra
          /\ sepc' = IF stack[p][1].ra = "fork_child_trap_return" THEN stack[p][1].s11 ELSE sepc
      BY <3>2, <1>5
    <3> QED  BY <2>1, <3>1, <3>2, <3>3, <3>4
  <2>3. /\ state' = state /\ expect' = expect /\ mode' = "S" /\ current_proc' = p /\ satp' = p
        /\ sscratch' = sscratch /\ sscratch = Top(h) /\ state[p] = "runnable"
    BY <1>2, <1>3, <1>6
  <2>4. Home(p, p) /\ ~InCall(p, p)
    BY <1>4, <1>8 DEF Home, InCall
  <2> QED  BY <1>2, <1>3, <2>2, <2>3, <2>4, Resumed
<1>12. Types'
  <2>1. <<0, 1>> \in Slots \X Nat
    OBVIOUS
  <2>2. proc_sp' \in [Slots -> Slots \X Nat]
    BY <2>1, <1>5 DEF Types
  <2> QED  BY <2>2, <1>6, <1>10, <1>11 DEF Types
<1>13. ShortStacks'
  <2> SUFFICES ASSUME NEW j \in Slots PROVE Len(stack'[j]) <= 3
    BY DEF ShortStacks
  <2>1. Len(stack'[p]) <= 3 /\ Len(stack'[0]) <= 3
    BY <1>10
  <2> QED  BY <2>1, <1>10 DEF ShortStacks
<1>14. OthersParked(p)'
  BY <1>3, <1>6 DEF OthersParked, Alive
<1> QED  BY <1>11, <1>12, <1>13, <1>14 DEF Up

\* While the kernel boots there is no system call, no wfi, no process to reap,
\* and always one to run.
LEMMA NotInBoot ==
    ASSUME Types, Booting
    PROVE  /\ mode = "S" /\ ~InSyscall /\ ~wfi_ends /\ ~yield_idle
           /\ ~user_entry /\ ~fork_child_trap_return
           /\ \A p \in Procs : ~reap_exited_processes(p)
<1> USE ProcIsSlot
<1>1. at \in {"boot", "yield", "picked", "current", "resume"} /\ mode = "S"
  BY DEF Booting, BootStraight, BootInterrupted, BootPoints
<1>2. ~InSyscall
  <2>1. at = "resume" => stack[sp[1]][sp[2]].cause = "timer"
    BY DEF Booting, BootStraight, BootInterrupted, BootPoints
  <2> QED  BY <1>1, <2>1 DEF InSyscall, FrameAt
<1>3. ~yield_idle
  <2> SUFFICES ASSUME yield_idle PROVE FALSE
    OBVIOUS
  <2>1. at = "yield" /\ ~\E p \in Slots : Scan(p)
    BY DEF yield_idle
  <2>2. ~(current_proc = 0 /\ BootTable("yield"))
    BY <2>1, ScanAtBoot DEF BootTable
  <2>3. ~(current_proc = init_proc /\ state[init_proc] = "runnable")
    BY <2>1, RunnableStays
  <2> QED  BY <2>1, <2>2, <2>3, YieldInBoot
<1>4. \A p \in Procs : ~reap_exited_processes(p)
  <2>1. \A p \in Procs : state[p] # "exited"
    BY BootCases DEF BootTable
  <2> QED  BY <2>1 DEF reap_exited_processes
<1>5. ~wfi_ends /\ ~user_entry /\ ~fork_child_trap_return
  BY <1>1 DEF wfi_ends, user_entry, fork_child_trap_return
<1> QED  BY <1>1, <1>2, <1>3, <1>4, <1>5

LEMMA BootStep ==
    ASSUME Types, ShortStacks, Booting, Next
    PROVE  TrapInv'
<1>1. CASE kernel_main
  BY <1>1, kernel_mainStep DEF TrapInv
<1>2. CASE TimerInKernel
  BY <1>2, TimerInBootStep DEF TrapInv
<1>3. CASE TimerReturns
  BY <1>3, TimerReturnsInBoot DEF TrapInv
<1>4. CASE \E p \in Slots : yield_pick(p)
  BY <1>4, yield_pickInBoot DEF TrapInv
<1>5. CASE yield_same
  BY <1>5, yield_sameInBoot DEF TrapInv
<1>6. CASE yield_set_current
  BY <1>6, yield_set_currentInBoot DEF TrapInv
<1>7. CASE switch_context
  BY <1>7, switch_contextInBoot DEF TrapInv
<1>8. ~\E upc \in UserPcs : TimerInUser(upc) \/ Ecall(upc)
  BY NotInBoot DEF TimerInUser, Ecall, UserRan
<1>9. /\ ~syscall_returns /\ ~syscall_handle_exec /\ ~syscall_blocks /\ ~syscall_handle_exit
      /\ ~\E p \in Procs : \/ syscall_changes(p) \/ syscall_handle_clone(p)
                           \/ syscall_handle_fork(p)
  BY NotInBoot DEF syscall_returns, syscall_handle_exec, syscall_blocks, syscall_handle_exit,
                   syscall_changes, syscall_handle_clone, syscall_handle_fork
<1> QED  BY <1>1, <1>2, <1>3, <1>4, <1>5, <1>6, <1>7, <1>8, <1>9, NotInBoot DEF Next

LEMMA UpStep ==
    ASSUME Types, ShortStacks, NEW c \in Procs, Up(c), Next
    PROVE  TrapInv'
<1>1. CASE kernel_main
  BY <1>1 DEF kernel_main, Up, InUserMode, InKernel, Switching, AtHandle, AtYield, AtResume,
              AtWfi, InWfi, AtUserEntry, AtForkReturn
<1>2. CASE \E upc \in UserPcs : TimerInUser(upc) \/ Ecall(upc)
  BY <1>2, TimerInUserStep, EcallStep DEF TrapInv
<1>3. CASE TimerInKernel
  BY <1>3, TimerInKernelStep DEF TrapInv
<1>4. CASE TimerReturns
  BY <1>4, TimerReturnsStep DEF TrapInv
<1>5. CASE syscall_returns
  BY <1>5, syscall_returnsStep DEF TrapInv
<1>6. CASE syscall_handle_exec
  BY <1>6, syscall_handle_execStep DEF TrapInv
<1>7. CASE syscall_blocks
  BY <1>7, syscall_blocksStep DEF TrapInv
<1>8. CASE syscall_handle_exit
  BY <1>8, syscall_handle_exitStep DEF TrapInv
<1>9. ASSUME NEW p \in Procs, syscall_changes(p) PROVE TrapInv'
  BY <1>9, syscall_changesStep DEF TrapInv
<1>10. ASSUME NEW p \in Procs, syscall_handle_clone(p) PROVE TrapInv'
  BY <1>10, syscall_handle_cloneStep DEF TrapInv
<1>11. ASSUME NEW p \in Procs, syscall_handle_fork(p) PROVE TrapInv'
  BY <1>11, syscall_handle_forkStep DEF TrapInv
<1>12. ASSUME NEW p \in Procs, reap_exited_processes(p) PROVE TrapInv'
  BY <1>12, reapStep DEF TrapInv
<1>13. ASSUME NEW p \in Slots, yield_pick(p) PROVE TrapInv'
  BY <1>13, yield_pickStep DEF TrapInv
<1>14. CASE yield_idle
  BY <1>14, yield_idleStep DEF TrapInv
<1>15. CASE wfi_ends
  BY <1>15, wfi_endsStep DEF TrapInv
<1>16. CASE yield_same
  BY <1>16, yield_sameStep DEF TrapInv
<1>17. CASE yield_set_current
  BY <1>17, yield_set_currentStep DEF TrapInv
<1>18. CASE switch_context
  BY <1>18, switch_contextStep DEF TrapInv
<1>19. CASE user_entry
  BY <1>19, user_entryStep DEF TrapInv
<1>20. CASE fork_child_trap_return
  BY <1>20, fork_child_trap_returnStep DEF TrapInv
<1> QED  BY <1>1, <1>2, <1>3, <1>4, <1>5, <1>6, <1>7, <1>8, <1>9, <1>10, <1>11, <1>12,
            <1>13, <1>14, <1>15, <1>16, <1>17, <1>18, <1>19, <1>20 DEF Next

-----------------------------------------------------------------------------
(* The theorems.                                                           *)

LEMMA Stutter ==
    ASSUME TrapInv, UNCHANGED vars
    PROVE  TrapInv'
<1>1. /\ mode' = mode /\ at' = at /\ sp' = sp /\ pc' = pc /\ regs' = regs /\ sepc' = sepc
      /\ sscratch' = sscratch /\ sstatus' = sstatus /\ satp' = satp
      /\ current_proc' = current_proc /\ next' = next /\ state' = state /\ stack' = stack
      /\ proc_sp' = proc_sp /\ who' = who /\ expect' = expect
  BY DEF vars, hart, kernel
<1>2. Types' /\ ShortStacks'
  BY <1>1 DEF TrapInv, Types, ShortStacks
<1>3. CASE Booting
  <2>1. ASSUME NEW point, BootTable(point) PROVE BootTable(point)'
    BY <1>1, <2>1, BootTableKept
  <2>2. ASSUME BootStraight PROVE BootStraight'
    <3>1. PICK point : point = at
      OBVIOUS
    <3>2. BootTable(point)'
      BY <2>1, <2>2, <3>1 DEF BootStraight
    <3> QED  BY <1>1, <2>2, <3>1, <3>2 DEF BootStraight, BootAt
  <2>3. ASSUME NEW point, BootInterrupted(point) PROVE BootInterrupted(point)'
    BY <1>1, <2>1, <2>3 DEF BootInterrupted, BootAt
  <2>4. Booting'
    BY <1>1, <1>3, <2>2, <2>3 DEF Booting
  <2> QED  BY <1>2, <2>4 DEF TrapInv
<1>4. ASSUME NEW c \in Procs, Up(c) PROVE Up(c)'
  <2>1. OthersParked(c)'
    <3>1. \A q \in Procs \ {c} : Alive(q)' => Alive(q)
      BY <1>1 DEF Alive
    <3>2. Home(c, c)
      BY DEF Home
    <3> QED  BY <1>1, <1>4, <3>1, <3>2, OthersKept DEF Up
  <2>2. (InUserMode(c) => InUserMode(c)')
    BY <1>1 DEF InUserMode, Home
  <2>3. ASSUME NEW k \in Slots PROVE InKernel(c, k) => InKernel(c, k)'
    BY <1>1 DEF InKernel, AtHandle, AtYield, AtResume, AtWfi, InWfi, Idle, AtUserEntry,
                AtForkReturn, On, Home, Fresh, Alive, TrapOf
  <2>4. ASSUME NEW k \in Slots PROVE Switching(c, k) => Switching(c, k)'
    BY <1>1 DEF Switching, Leaving, On, Home, Alive, TrapOf
  <2> QED  BY <1>1, <1>4, <2>1, <2>2, <2>3, <2>4 DEF Up
<1> QED  BY <1>2, <1>3, <1>4 DEF TrapInv

\* The invariant of every step of kernel_entry, handle_trap, yield and
\* switch_context.
THEOREM TrapInvariant == Spec => []TrapInv
<1>1. Init => TrapInv
  BY InitBoots DEF TrapInv
<1>2. TrapInv /\ [Next]_vars => TrapInv'
  <2>1. ASSUME TrapInv, Next PROVE TrapInv'
    BY <2>1, BootStep, UpStep DEF TrapInv
  <2> QED  BY <2>1, Stutter
<1> QED  BY <1>1, <1>2, PTL DEF Spec

LEMMA InvResumes == TrapInv => ResumesWhereItStopped
<1> SUFFICES ASSUME TrapInv, mode = "U"
             PROVE  /\ who = current_proc /\ satp = who
                    /\ pc = expect[who].pc /\ regs.s = expect[who].regs.s
  BY DEF ResumesWhereItStopped
<1>1. PICK c \in Procs : Up(c)
  BY DEF TrapInv, Booting
<1> QED  BY <1>1, UserUp DEF InUserMode

\* A process in user mode is the current one, in its own address space, and
\* goes on exactly where it was to: after the timer, which does not restore
\* sepc, after a system call however long it was blocked, in the child of a
\* fork and at USER_BASE after exec; for every number of slots and every
\* program (kernel_entry, handle_trap, yield, switch_context).
THEOREM TrapResumes == Spec => []ResumesWhereItStopped
BY TrapInvariant, InvResumes, PTL

LEMMA InvTypes == TrapInv => TypeOK
<1> SUFFICES ASSUME TrapInv PROVE TypeOK
  OBVIOUS
<1>1. /\ mode \in {"U", "S"} /\ at \in KernelPoints \cup {"user"}
      /\ ((mode = "U") <=> (at = "user"))
  <2>1. CASE Booting
    BY <2>1 DEF Booting, BootStraight, BootInterrupted, BootPoints, KernelPoints
  <2>2. ASSUME NEW c \in Procs, Up(c)
        PROVE  /\ mode \in {"U", "S"} /\ at \in KernelPoints \cup {"user"}
               /\ ((mode = "U") <=> (at = "user"))
    BY <2>2 DEF Up, InUserMode, InKernel, Switching, AtHandle, AtYield, AtResume, AtWfi, InWfi,
                AtUserEntry, AtForkReturn, KernelPoints
  <2> QED  BY <2>1, <2>2 DEF TrapInv
<1>2. Types
  BY DEF TrapInv
<1>3. sp[1] \in Slots \cup {PROCS_MAX} /\ sscratch[1] \in Slots
  BY <1>2 DEF Types, Pointers
<1> QED  BY <1>1, <1>2, <1>3 DEF TypeOK, Types, Addresses, Statuses, States

LEMMA InvStackFree == TrapInv => TrapStackFree
<1> SUFFICES ASSUME TrapInv, mode = "U"
             PROVE  /\ sscratch[2] = 0
                    /\ \A p \in Procs \ {who} : Alive(p) => proc_sp[p][1] # sscratch[1]
  BY DEF TrapStackFree, Alive
<1>1. PICK c \in Procs : Up(c)
  BY DEF TrapInv, Booting
<1>2. InUserMode(c) /\ OthersParked(c) /\ who = c
  BY <1>1, UserUp DEF InUserMode
<1>3. PICK k \in Slots : Home(c, k) /\ sscratch = <<k, 0>>
  BY <1>2 DEF InUserMode, Top
<1>4. ASSUME NEW p \in Procs \ {c}, Alive(p) PROVE proc_sp[p][1] # k
  <2>1. PICK m \in Slots : Home(p, m) /\ proc_sp[p] = <<m, Len(stack[m])>>
    BY <1>2, <1>4 DEF OthersParked, Parked
  <2>2. m # k
    BY <1>3, <2>1, HomesDiffer
  <2> QED  BY <2>1, <2>2
<1> QED  BY <1>2, <1>3, <1>4

LEMMA InvUninterrupted == TrapInv => KernelUninterrupted
<1> SUFFICES ASSUME TrapInv, mode = "S", sstatus.SIE PROVE at = "wfi" \/ who = 0
  BY DEF KernelUninterrupted
<1>1. sstatus.SIE = TRUE
  BY DEF TrapInv, Types, Statuses
<1>2. CASE Booting
  BY <1>2 DEF Booting
<1>3. ASSUME NEW c \in Procs, Up(c) PROVE at = "wfi"
  BY <1>1, <1>3 DEF Up, InUserMode, InKernel, Switching, AtHandle, AtYield, AtResume, AtWfi,
                    InWfi, AtUserEntry, AtForkReturn, Leaving, FromUser, FromKernel
<1> QED  BY <1>2, <1>3 DEF TrapInv

\* A trap out of user mode finds a stack that only the running process uses,
\* kernel code is interrupted only in the wfi of yield(), traps do not pile up
\* on a kernel stack, and the kernel never returns to an address it did not
\* mean; for every number of slots (kernel_entry, handle_trap, yield).
THEOREM TrapStacksSafe == Spec => []TrapStacksSound
<1>1. TrapInv => StackBounded
  BY ProcIsSlot DEF TrapInv, ShortStacks, StackBounded
<1>2. TrapInv => TrapStacksSound
  BY <1>1, InvTypes, InvStackFree, InvUninterrupted DEF TrapStacksSound
<1> QED  BY TrapInvariant, <1>2, PTL
=============================================================================
