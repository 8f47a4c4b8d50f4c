-------------------------------- MODULE Trap --------------------------------
(***************************************************************************)
(* How the processor enters and leaves the kernel: kernel_entry and        *)
(* handle_trap, the trap frames on the kernel stacks, switch_context with  *)
(* the contexts that fork and create_process build by hand, the wfi of     *)
(* yield() with interrupts on, and the boot code, which runs with them on. *)
(* The registers that carry a process across all that are sepc, sscratch,  *)
(* sstatus and the stack pointer.                                          *)
(*                                                                         *)
(* A stack pointer <<k, n>> is n frames deep on the kernel stack of slot k;*)
(* stack 0 is the one boot runs on.  A user address counts instructions    *)
(* from USER_BASE; a kernel address is the name of a point of the code.  Of*)
(* the general registers t0, which kernel_entry uses before it saves it,   *)
(* stands apart; s stands for the others.                                  *)
(*                                                                         *)
(* Which processes run, wait and die is module Process; here a call may    *)
(* wake, kill or collect any other process.  Faults end in PANIC, the exit *)
(* of the init process in the shutdown of the machine: both are left out.  *)
(***************************************************************************)
EXTENDS Integers, Sequences

CONSTANTS PROCS_MAX,        \* slots; slot 0 is the idle process
          MaxPc             \* bound: traps happen at addresses 1 .. MaxPc

ASSUME ProcsAssumption == PROCS_MAX \in Nat /\ PROCS_MAX > 1
ASSUME PcAssumption == MaxPc \in Nat \ {0}

Procs == 1 .. PROCS_MAX - 1
Slots == 0 .. PROCS_MAX - 1
UserPcs == 1 .. MaxPc
UserAddress(n) == [mode |-> "U", point |-> "user", n |-> n]
KernelAddress(point) == [mode |-> "S", point |-> point, n |-> 0]
Plus4(address) == [address EXCEPT !.n = @ + 1]
USER_BASE == UserAddress(0)
USER_SP == <<PROCS_MAX, 0>>
Top(p) == <<p, 0>>
init_proc == 1
KernelPoints == {"boot", "yield", "picked", "current", "wfi", "resume",
                 "handle", "user_entry", "fork_child_trap_return"}

VARIABLES
    mode, at, sp, pc, regs,             \* pc and regs are those of user mode
    sepc, sscratch, sstatus, satp,
    current_proc, next, state,
    stack, proc_sp,                     \* kernel stacks; proc->sp
    who, expect                         \* history: who runs in user mode, and from where

hart == <<mode, at, sp, pc, regs, sepc, sscratch, sstatus, satp>>
kernel == <<current_proc, next, state, stack, proc_sp>>
vars == <<hart, kernel, who, expect>>

NoRegs == [t0 |-> "none", s |-> <<0, 0>>]
UserRegs(p, upc) == [t0 |-> "live", s |-> <<p, upc>>]
Enabled == [SPP |-> "U", SIE |-> TRUE, SPIE |-> FALSE]
Disabled == [SPP |-> "U", SIE |-> FALSE, SPIE |-> FALSE]

\* boot, and kernel_bootstrap up to the timer interrupt; idle has been created.
Init ==
    /\ mode = "S" /\ at = "boot" /\ sp = Top(0)
    /\ pc = USER_BASE /\ regs = NoRegs
    /\ sepc = USER_BASE /\ sscratch = Top(0) /\ sstatus = Enabled /\ satp = 0
    /\ current_proc = 0 /\ next = 0
    /\ state = [p \in Slots |-> IF p = 0 THEN "runnable" ELSE "unused"]
    /\ stack = [p \in Slots |-> <<>>]
    /\ proc_sp = [p \in Slots |-> Top(p)]
    /\ who = 0
    /\ expect = [p \in Slots |-> [pc |-> USER_BASE, regs |-> NoRegs]]

-----------------------------------------------------------------------------
(* Stacks.  A push at a pointer below the top overwrites what is there.    *)

Push(st, ptr, frame) ==
    [st EXCEPT ![ptr[1]] = Append(SubSeq(@, 1, ptr[2]), frame)]
Below(ptr) == <<ptr[1], ptr[2] + 1>>
FrameAt(ptr) == stack[ptr[1]][ptr[2]]
Pop(st, ptr) == [st EXCEPT ![ptr[1]] = SubSeq(@, 1, ptr[2] - 1)]

\* pid is 0 in the idle slot and in a slot that has been recycled.
HasPid(p) == p > 0 /\ state[p] # "unused"

-----------------------------------------------------------------------------
(* Trap entry: what the processor does, kernel_entry, and handle_trap up   *)
(* to the switch on scause.                                                *)

process_from_trap_frame(ptr) == ptr[1]

\* kernel_entry tests SPP in t0 before it saves t0.
Saved(r) == [r EXCEPT !.t0 = "spp"]

\* The trap is taken at address epc with register contents r.
kernel_entry(cause, epc, r) ==
    LET top == IF mode = "U" THEN sscratch ELSE sp
        owner == IF mode = "U" THEN process_from_trap_frame(top) ELSE 0
    IN  /\ sepc' = epc
        /\ sstatus' = [SPP |-> mode, SIE |-> FALSE, SPIE |-> sstatus.SIE]
        /\ mode' = "S"
        /\ stack' = Push(stack, top, [kind |-> "trap", cause |-> cause, sp |-> sp,
                                      regs |-> Saved(r), user_pc |-> epc,
                                      owner |-> owner, who |-> who])
        /\ sp' = Below(top)
        /\ sscratch' = top
        /\ current_proc' = IF owner > 0 THEN owner ELSE current_proc

\* A user program ran on to address upc, with new register contents; after
\* the trap it is to go on at resume.
UserRan(upc, resume) ==
    /\ mode = "U"
    /\ expect' = [expect EXCEPT ![who] = [pc |-> resume, regs |-> UserRegs(who, upc)]]
    /\ regs' = NoRegs /\ pc' = USER_BASE

\* poll_console_input wakes processes; the tick may use up the time slice of
\* a current process that is runnable, and then the handler yields.
TimerCase ==
    /\ \E W \in SUBSET {p \in Procs : state[p] = "waiting"} :
          state' = [p \in Slots |-> IF p \in W THEN "runnable" ELSE state[p]]
    /\ \/ at' = "resume"
       \/ /\ current_proc' > 0 /\ state'[current_proc'] = "runnable"
          /\ at' = "yield"
    /\ UNCHANGED <<satp, next, proc_sp, who>>

TimerInUser(upc) ==
    /\ UserRan(upc, UserAddress(upc))
    /\ kernel_entry("timer", UserAddress(upc), UserRegs(who, upc))
    /\ TimerCase

\* In the kernel the timer gets through only where interrupts are on.
TimerInKernel ==
    /\ mode = "S" /\ sstatus.SIE
    /\ kernel_entry("timer", KernelAddress(at), NoRegs)
    /\ TimerCase
    /\ UNCHANGED <<pc, regs, expect>>

Ecall(upc) ==
    /\ UserRan(upc, UserAddress(upc + 1))
    /\ kernel_entry("ecall", UserAddress(upc), UserRegs(who, upc))
    /\ at' = "handle"
    /\ UNCHANGED <<satp, next, state, proc_sp, who>>

-----------------------------------------------------------------------------
(* Trap return: the end of handle_trap and of kernel_entry.                *)

\* sret to address epc with the registers of frame; sstatus is what it was
\* when the trap was taken.
sret(epc, frame, status) ==
    /\ sepc' = epc
    /\ sstatus' = [SPP |-> "U", SIE |-> status.SPIE, SPIE |-> TRUE]
    /\ mode' = status.SPP
    /\ sp' = frame.sp
    /\ IF status.SPP = "U"
         THEN at' = "user" /\ pc' = epc /\ regs' = frame.regs /\ who' = frame.who
         ELSE /\ at' = IF epc.mode = "S" THEN epc.point ELSE "wild"
              /\ UNCHANGED <<pc, regs, who>>

ReturnStack(frame) ==
    CASE HasPid(current_proc) -> Top(current_proc)
      [] ~HasPid(current_proc) /\ frame.owner > 0 -> Top(frame.owner)
      [] OTHER -> sscratch

\* The timer case returns without writing sepc.
TimerReturns ==
    /\ at = "resume" /\ FrameAt(sp).cause = "timer"
    /\ LET f == FrameAt(sp) IN sscratch' = ReturnStack(f) /\ sret(sepc, f, sstatus)
    /\ stack' = Pop(stack, sp)
    /\ UNCHANGED <<satp, current_proc, next, state, proc_sp, expect>>

SyscallReturns(user_pc) ==
    /\ LET f == FrameAt(sp) IN sscratch' = ReturnStack(f) /\ sret(user_pc, f, sstatus)
    /\ stack' = Pop(stack, sp)
    /\ UNCHANGED <<satp, current_proc, next, state, proc_sp>>

-----------------------------------------------------------------------------
(* System calls, by what they do to contexts.                              *)

InSyscall == at \in {"handle", "resume"} /\ FrameAt(sp).cause = "ecall"

syscall_returns ==
    /\ InSyscall
    /\ SyscallReturns(Plus4(FrameAt(sp).user_pc))
    /\ UNCHANGED expect

syscall_handle_exec ==
    /\ InSyscall /\ at = "handle"
    /\ SyscallReturns(USER_BASE)
    /\ expect' = [expect EXCEPT ![current_proc].pc = USER_BASE]

\* waitpid, ipc_recv and getchar block, again after a wakeup if need be.
syscall_blocks ==
    /\ InSyscall
    /\ state' = [state EXCEPT ![current_proc] = "waiting"]
    /\ at' = "yield"
    /\ UNCHANGED <<mode, sp, pc, regs, sepc, sscratch, sstatus, satp, current_proc, next,
                   stack, proc_sp, who, expect>>

syscall_handle_exit ==
    /\ InSyscall /\ at = "handle" /\ current_proc # init_proc
    /\ state' = [state EXCEPT ![current_proc] = "exited"]
    /\ at' = "yield"
    /\ UNCHANGED <<mode, sp, pc, regs, sepc, sscratch, sstatus, satp, current_proc, next,
                   stack, proc_sp, who, expect>>

\* A message, an exit status or input wakes p; kill ends it, unless it is the
\* init process; waitpid or reap_exited_processes recycles it.
MayBecome(p) ==
    (IF state[p] = "waiting" THEN {"runnable"} ELSE {}) \cup
    (IF state[p] \in {"runnable", "waiting"} /\ p # init_proc THEN {"exited"} ELSE {}) \cup
    (IF state[p] = "exited" THEN {"unused"} ELSE {})

syscall_changes(p) ==
    /\ InSyscall /\ at = "handle"
    /\ p # current_proc
    /\ \E s \in MayBecome(p) : state' = [state EXCEPT ![p] = s]
    /\ UNCHANGED <<hart, current_proc, next, stack, proc_sp, who, expect>>

\* The first free slot; what was on its stack is gone.
FreeSlot(c) == c \in Procs /\ state[c] = "unused" /\ \A d \in 1 .. c - 1 : state[d] # "unused"

NewContext(c, frames, resume) ==
    /\ state' = [state EXCEPT ![c] = "runnable"]
    /\ stack' = [stack EXCEPT ![c] = frames]
    /\ proc_sp' = [proc_sp EXCEPT ![c] = <<c, Len(frames)>>]
    /\ expect' = [expect EXCEPT ![c] = resume]

InitialStatus == Disabled

create_process(c) ==
    NewContext(c, << [kind |-> "ctx", ra |-> "user_entry", sstatus |-> InitialStatus,
                      s11 |-> USER_BASE] >>,
               [pc |-> USER_BASE, regs |-> NoRegs])

syscall_handle_clone(c) ==
    /\ InSyscall /\ at = "handle" /\ FreeSlot(c)
    /\ create_process(c)
    /\ UNCHANGED <<hart, current_proc, next, who>>

\* The child gets a copy of the trap frame and returns from it by itself.
syscall_handle_fork(c) ==
    /\ InSyscall /\ at = "handle" /\ FreeSlot(c)
    /\ LET tf == [FrameAt(sp) EXCEPT !.who = c] IN
        NewContext(c, << tf, [kind |-> "ctx", ra |-> "fork_child_trap_return",
                              sstatus |-> sstatus, s11 |-> Plus4(sepc)] >>,
                   expect[current_proc])
    /\ UNCHANGED <<hart, current_proc, next, who>>

-----------------------------------------------------------------------------
(* yield().                                                                *)

\* The slots in the order of the scan.
ScanFrom(i) == (IF HasPid(current_proc) THEN current_proc + i ELSE i) % PROCS_MAX
Schedulable(p) == state[p] = "runnable" /\ HasPid(p)

Scan_Next(p) ==
    \E i \in 0 .. PROCS_MAX - 1 :
        /\ ScanFrom(i + 1) = p /\ Schedulable(p)
        /\ \A j \in 0 .. i - 1 : ~Schedulable(ScanFrom(j + 1))

\* p is the process the scan stops at.
Scan(p) ==
    \E i \in 0 .. PROCS_MAX - 1 :
        /\ ScanFrom(i) = p /\ Schedulable(p)
        /\ \A j \in 0 .. i - 1 : ~Schedulable(ScanFrom(j))

\* kernel_main, the context of idle, has nothing behind its call of yield().
Return(point) == IF current_proc = 0 THEN "wild" ELSE point

\* reap_exited_processes: the current process too, when it has no parent.
reap_exited_processes(p) ==
    /\ at = "yield" /\ state[p] = "exited"
    /\ state' = [state EXCEPT ![p] = "unused"]
    /\ UNCHANGED <<hart, current_proc, next, stack, proc_sp, who, expect>>

\* Nothing to run: interrupts on and wfi, the old sstatus in a local.
yield_idle ==
    /\ at = "yield" /\ ~\E p \in Slots : Scan(p)
    /\ sscratch' = Top(current_proc)
    /\ stack' = Push(stack, sp, [kind |-> "wfi", sstatus |-> sstatus])
    /\ sp' = Below(sp)
    /\ sstatus' = [sstatus EXCEPT !.SIE = TRUE]
    /\ at' = "wfi"
    /\ UNCHANGED <<mode, pc, regs, sepc, satp, current_proc, next, state, proc_sp, who, expect>>

\* wfi ends, after a trap that was taken in it or without one.
wfi_ends ==
    /\ at = "wfi"
    /\ sstatus' = FrameAt(sp).sstatus
    /\ stack' = Pop(stack, sp)
    /\ sp' = <<sp[1], sp[2] - 1>>
    /\ at' = "yield"
    /\ UNCHANGED <<mode, pc, regs, sepc, sscratch, satp, current_proc, next, state, proc_sp,
                   who, expect>>

yield_same ==
    /\ at = "yield" /\ Scan(current_proc)
    /\ sscratch' = Top(current_proc)
    /\ at' = Return("resume")
    /\ UNCHANGED <<mode, sp, pc, regs, sepc, sstatus, satp, kernel, who, expect>>

yield_pick_NoScratch(p) ==
    /\ at = "yield" /\ p # current_proc /\ Scan(p)
    /\ next' = p
    /\ satp' = p
    /\ at' = "picked"
    /\ UNCHANGED <<mode, sp, pc, regs, sepc, sscratch, sstatus, current_proc, state, stack,
                   proc_sp, who, expect>>

\* satp and sscratch are those of the next process ...
yield_pick(p) ==
    /\ at = "yield" /\ p # current_proc /\ Scan(p)
    /\ next' = p
    /\ satp' = p
    /\ sscratch' = Top(p)
    /\ at' = "picked"
    /\ UNCHANGED <<mode, sp, pc, regs, sepc, sstatus, current_proc, state, stack, proc_sp,
                   who, expect>>

\* ... before current_proc is; prev is the one that leaves.
yield_set_current ==
    /\ at = "picked"
    /\ current_proc' = next /\ next' = current_proc
    /\ at' = "current"
    /\ UNCHANGED <<mode, sp, pc, regs, sepc, sscratch, sstatus, satp, state, stack, proc_sp,
                   who, expect>>

\* Saves the context of prev on the stack in use and loads that of the
\* current process.
switch_context ==
    /\ at = "current"
    /\ LET prev == next
           there == proc_sp[current_proc]
           saved == Push(stack, sp, [kind |-> "ctx", ra |-> "resume", sstatus |-> sstatus,
                                     s11 |-> USER_BASE])
           ctx == saved[there[1]][there[2]]
       IN  /\ proc_sp' = [proc_sp EXCEPT ![prev] = Below(sp)]
           /\ stack' = Pop(saved, there)
           /\ sp' = <<there[1], there[2] - 1>>
           /\ sstatus' = ctx.sstatus
           /\ at' = Return(ctx.ra)
           /\ sepc' = IF ctx.ra = "fork_child_trap_return" THEN ctx.s11 ELSE sepc
    /\ UNCHANGED <<mode, pc, regs, sscratch, satp, current_proc, next, state, who, expect>>

user_entry ==
    /\ at = "user_entry"
    /\ sret(USER_BASE, [sp |-> USER_SP, regs |-> NoRegs, who |-> current_proc],
            [SPP |-> "U", SIE |-> FALSE, SPIE |-> TRUE])
    /\ UNCHANGED <<sscratch, satp, kernel, expect>>

fork_child_trap_return ==
    /\ at = "fork_child_trap_return"
    /\ sret(sepc, FrameAt(sp), sstatus)
    /\ stack' = Pop(stack, sp)
    /\ UNCHANGED <<sscratch, satp, current_proc, next, state, proc_sp, expect>>

-----------------------------------------------------------------------------
\* kernel_main starts the shell and yields, on the boot stack.
kernel_main ==
    /\ at = "boot"
    /\ create_process(init_proc)
    /\ at' = "yield"
    /\ UNCHANGED <<mode, sp, pc, regs, sepc, sscratch, sstatus, satp, current_proc, next, who>>

Next ==
    \/ kernel_main
    \/ \E upc \in UserPcs : TimerInUser(upc) \/ Ecall(upc)
    \/ TimerInKernel
    \/ TimerReturns
    \/ syscall_returns
    \/ syscall_handle_exec
    \/ syscall_blocks
    \/ syscall_handle_exit
    \/ \E p \in Procs :
          \/ syscall_changes(p)
          \/ syscall_handle_clone(p)
          \/ syscall_handle_fork(p)
          \/ reap_exited_processes(p)
    \/ \E p \in Slots : yield_pick(p)
    \/ yield_idle
    \/ wfi_ends
    \/ yield_same
    \/ yield_set_current
    \/ switch_context
    \/ user_entry
    \/ fork_child_trap_return

Spec == Init /\ [][Next]_vars

-----------------------------------------------------------------------------
\* Every register has a value of its kind, and the kernel never returns to an
\* address it did not mean: no user address in supervisor mode (kernel_entry,
\* handle_trap), no return into the unreachable end of kernel_main.
TypeOK ==
    /\ mode \in {"U", "S"}
    /\ at \in KernelPoints \cup {"user"}
    /\ (mode = "U") <=> (at = "user")
    /\ sp[1] \in Slots \cup {PROCS_MAX}
    /\ sscratch[1] \in Slots
    /\ sepc \in {UserAddress(n) : n \in 0 .. MaxPc + 1} \cup {KernelAddress(k) : k \in KernelPoints}
    /\ sstatus \in [SPP : {"U", "S"}, SIE : BOOLEAN, SPIE : BOOLEAN]
    /\ {satp, current_proc, next, who} \subseteq Slots
    /\ state \in [Slots -> {"unused", "runnable", "waiting", "exited"}]

\* A process in user mode is the current process, in its own address space,
\* and goes on exactly where it was to: at the interrupted instruction after
\* the timer, after the ecall of a system call however long it was blocked,
\* after the fork in the child, at USER_BASE after exec.  handle_trap does not
\* restore sepc after a timer trap, so this depends on what yield() picks.
ResumesWhereItStopped ==
    mode = "U" =>
        /\ who = current_proc /\ satp = who
        /\ pc = expect[who].pc
        /\ regs.s = expect[who].regs.s

\* The next trap out of user mode does not push its frame onto the stack of
\* another process that will run again: sscratch is the top of a stack that
\* only the running process uses (yield, handle_trap, mode-transition.md).
TrapStackFree ==
    mode = "U" =>
        /\ sscratch[2] = 0
        /\ \A p \in Procs \ {who} :
              state[p] \in {"runnable", "waiting"} => proc_sp[p][1] # sscratch[1]

\* Once the first process runs, kernel code is interrupted only in the wfi of
\* yield(): current_proc, the process table and the file system are changed
\* without locks (the comment in kernel_entry, create_process).
KernelUninterrupted ==
    mode = "S" /\ sstatus.SIE => at = "wfi" \/ who = 0

\* A kernel stack never holds more than the frame of the system call, the wfi
\* in it and the timer trap in that: traps do not pile up on the fixed stack
\* of a process while nothing is runnable (yield, kernel_entry).
StackBounded == \A p \in Procs : Len(stack[p]) <= 3

\* Together: a trap finds its own stack, with room for it, and no lock is
\* missing (kernel_entry, handle_trap, yield).
TrapStacksSound == TypeOK /\ TrapStackFree /\ KernelUninterrupted /\ StackBounded

\* All general registers come back after a trap (kernel-bootstrap.md says that
\* kernel_entry saves them).  t0 does not.
RegistersKept == mode = "U" => regs = expect[who].regs
=============================================================================
