------------------------------ MODULE Process ------------------------------
(***************************************************************************)
(* The process table of AquaCore and everything that changes it: process   *)
(* creation, exit, kill, waitpid, the one-slot mailboxes of IPC, the       *)
(* console wait queue, the timer tick and yield() (kernel/proc/process.c,  *)
(* kernel/trap/*.c).                                                       *)
(*                                                                         *)
(* The kernel runs with interrupts disabled on one hart, so a system call  *)
(* is one step up to the point where it calls yield().  yield() itself is  *)
(* split into the steps the code goes through (reap, pick, wfi), because   *)
(* the timer trap does interleave with the wfi inside it.  resume_at[s]    *)
(* is the kernel stack of slot s abstracted to the call it is suspended    *)
(* in; a process that blocked in a loop goes through that loop again when  *)
(* yield() returns to it.                                                  *)
(*                                                                         *)
(* Calls that return an error without changing anything (a full table, an  *)
(* unknown pid, a full mailbox) are stuttering steps and have no action.   *)
(* run_ticks and schedule_count are statistics nothing reads back and are  *)
(* left out.                                                               *)
(***************************************************************************)
EXTENDS Integers

CONSTANTS PROCS_MAX,                 \* slots of procs[]
          SCHED_TIME_SLICE_TICKS,    \* ticks of a fresh time slice
          INPUT_BUF_SIZE,            \* sizeof(input_buf)
          Messages                   \* payloads sent over IPC

ASSUME ProcsMaxAssumption == PROCS_MAX \in Nat /\ PROCS_MAX >= 2
ASSUME SliceAssumption == SCHED_TIME_SLICE_TICKS \in Nat \ {0}
ASSUME InputBufAssumption == INPUT_BUF_SIZE \in Nat \ {0}
ASSUME MessagesAssumption == Messages \subseteq Nat

Slots == 0 .. PROCS_MAX - 1
idle_proc == 0                       \* slot of the boot context
init_proc == 1                       \* slot of the shell

NoMessage == [has |-> FALSE, from |-> 0, message |-> 0]

VARIABLES
    pid, state, wait_reason, wait_pid, parent_pid, time_slice,
    mailbox,        \* ipc_has_message, ipc_from_pid, ipc_message
    resume_at,      \* the kernel call a slot's saved context is inside
    target_pid,     \* the argument of the waitpid a slot is inside
    current_proc,   \* a slot
    need_resched,
    input_count,    \* characters in the console ring
    satp,           \* slot whose page table is loaded (idle: none yet)
    cpu             \* what the hart does: run, reap, pick, wfi or halt

slotVars == <<pid, state, wait_reason, wait_pid, parent_pid, time_slice,
              mailbox, resume_at, target_pid>>
vars == <<slotVars, current_proc, need_resched, input_count, satp, cpu>>

Live == {"RUNNABLE", "WAITTING"}
Blocking == {"getchar", "waitpid", "ipc_recv"}

States == Live \cup {"UNUSED", "EXITED"}
WaitReasons == {"NONE", "CONSOLE_INPUT", "CHILD_EXIT", "IPC_RECV"}
WaitPids == -1 .. PROCS_MAX - 1
Slices == 0 .. SCHED_TIME_SLICE_TICKS
Mails == [has : BOOLEAN, from : Slots, message : Messages \cup {0}]
Contexts == Blocking \cup {"none", "boot", "user", "exit", "kill"}
Counts == 0 .. INPUT_BUF_SIZE
CpuModes == {"run", "reap", "pick", "wfi", "halt"}

TypeOK ==
    /\ pid \in [Slots -> Slots]
    /\ state \in [Slots -> States]
    /\ wait_reason \in [Slots -> WaitReasons]
    /\ wait_pid \in [Slots -> WaitPids]
    /\ parent_pid \in [Slots -> Slots]
    /\ time_slice \in [Slots -> Slices]
    /\ mailbox \in [Slots -> Mails]
    /\ resume_at \in [Slots -> Contexts]
    /\ target_pid \in [Slots -> WaitPids]
    /\ current_proc \in Slots
    /\ need_resched \in BOOLEAN
    /\ input_count \in Counts
    /\ satp \in Slots
    /\ cpu \in CpuModes

\* f with the value v at every slot of S.
SetAll(f, S, v) == [s \in Slots |-> IF s \in S THEN v ELSE f[s]]

(***************************************************************************)
(* kernel_bootstrap leaves the idle context in slot 0; kernel_main creates *)
(* the shell in slot 1 and calls yield().  The other slots are bss zeroes. *)
(***************************************************************************)
Init ==
    /\ pid = [s \in Slots |-> IF s = init_proc THEN init_proc ELSE 0]
    /\ state = [s \in Slots |-> IF s \in {idle_proc, init_proc}
                                THEN "RUNNABLE" ELSE "UNUSED"]
    /\ wait_reason = [s \in Slots |-> "NONE"]
    /\ wait_pid = [s \in Slots |-> IF s \in {idle_proc, init_proc}
                                   THEN -1 ELSE 0]
    /\ parent_pid = [s \in Slots |-> 0]
    /\ time_slice = [s \in Slots |-> IF s \in {idle_proc, init_proc}
                                     THEN SCHED_TIME_SLICE_TICKS ELSE 0]
    /\ mailbox = [s \in Slots |-> NoMessage]
    /\ resume_at = [s \in Slots |-> IF s = idle_proc THEN "boot"
                                    ELSE IF s = init_proc THEN "user"
                                    ELSE "none"]
    /\ target_pid = [s \in Slots |-> 0]
    /\ current_proc = idle_proc
    /\ need_resched = FALSE
    /\ input_count = 0
    /\ satp = idle_proc
    /\ cpu = "reap"

-----------------------------------------------------------------------------
(* Helpers on the table. *)

find_process_by_pid(p) ==
    {s \in Slots : p > 0 /\ pid[s] = p /\ state[s] # "UNUSED"}

\* Mutant: zombies are reaped although a parent may still wait for them.
Reapable_AnyParent == {s \in Slots : state[s] = "EXITED"}

\* Exited processes nobody will wait for.
Reapable == {s \in Slots : state[s] = "EXITED" /\ parent_pid[s] = 0}

ConsoleWaiters ==
    {s \in Slots : state[s] = "WAITTING" /\ wait_reason[s] = "CONSOLE_INPUT"}

\* Mutant: only a parent waiting for any child is notified.
notify_child_exit_AnyOnly(child) ==
    {s \in Slots : /\ parent_pid[child] > 0
                   /\ pid[s] = parent_pid[child]
                   /\ state[s] = "WAITTING"
                   /\ wait_reason[s] = "CHILD_EXIT"
                   /\ wait_pid[s] = -1}

\* The waiters notify_child_exit(child) makes runnable.
notify_child_exit(child) ==
    {s \in Slots : /\ parent_pid[child] > 0
                   /\ pid[s] = parent_pid[child]
                   /\ state[s] = "WAITTING"
                   /\ wait_reason[s] = "CHILD_EXIT"
                   /\ wait_pid[s] \in {-1, pid[child]}}

\* Mutant: zombies are skipped when children are orphaned.
orphan_children_LiveOnly(p) ==
    [s \in Slots |-> IF p > 0 /\ parent_pid[s] = p /\ state[s] # "EXITED"
                     THEN 0 ELSE parent_pid[s]]

\* Mutant: children are not orphaned at all.
orphan_children_None(p) == parent_pid

\* parent_pid after orphan_children(p).
orphan_children(p) ==
    [s \in Slots |-> IF p > 0 /\ parent_pid[s] = p THEN 0 ELSE parent_pid[s]]

\* The waits of W end: state, wait_reason and wait_pid of a woken process.
woken_state(W) == SetAll(state, W, "RUNNABLE")
woken_reason(W) == SetAll(wait_reason, W, "NONE")
woken_pid(W) == SetAll(wait_pid, W, -1)

\* Mutant: one waiter is woken per call.
wakeup_input_waiters_One(count) ==
    IF count > 0 THEN {s \in ConsoleWaiters : \A t \in ConsoleWaiters : s <= t}
    ELSE {}

\* Every process waiting for input is woken whenever input is left.
wakeup_input_waiters(count) == IF count > 0 THEN ConsoleWaiters ELSE {}

\* The slots of R become free; st, wr, wp and pp are the values the step has
\* given to state, wait_reason, wait_pid and parent_pid so far.
recycle_process_slot(R, st, wr, wp, pp) ==
    /\ state' = SetAll(st, R, "UNUSED")
    /\ wait_reason' = SetAll(wr, R, "NONE")
    /\ wait_pid' = SetAll(wp, R, -1)
    /\ parent_pid' = SetAll(pp, R, 0)
    /\ pid' = SetAll(pid, R, 0)
    /\ time_slice' = SetAll(time_slice, R, SCHED_TIME_SLICE_TICKS)
    /\ mailbox' = SetAll(mailbox, R, NoMessage)

-----------------------------------------------------------------------------
(* yield() *)

reap_exited_processes ==
    /\ cpu = "reap"
    /\ recycle_process_slot(Reapable, state, wait_reason, wait_pid, parent_pid)
    /\ resume_at' = SetAll(resume_at, Reapable, "none")
    /\ cpu' = "pick"
    /\ UNCHANGED <<target_pid, current_proc, need_resched, input_count, satp>>

\* Mutant: the scan only rules out waiting processes.
Candidates_NotWaiting ==
    {s \in Slots : state[s] \in {"RUNNABLE", "EXITED"} /\ pid[s] > 0}

Candidates == {s \in Slots : state[s] = "RUNNABLE" /\ pid[s] > 0}

\* How many slots the scan of yield() looks at before it comes to s.
ScanIndex(s) == IF s >= pid[current_proc] THEN s - pid[current_proc]
                ELSE s + PROCS_MAX - pid[current_proc]

\* next is the process the scan stops at.
ScanFinds(next) ==
    /\ next \in Candidates
    /\ \A s \in Candidates : ScanIndex(next) <= ScanIndex(s)

yield_idle ==
    /\ cpu = "pick"
    /\ Candidates = {}
    /\ cpu' = "wfi"
    /\ UNCHANGED <<slotVars, current_proc, need_resched, input_count, satp>>

\* Mutant: the slice of a process that keeps the processor is not refilled.
yield_same_NoRefill ==
    /\ cpu = "pick"
    /\ ScanFinds(current_proc)
    /\ need_resched' = FALSE
    /\ cpu' = "run"
    /\ UNCHANGED <<slotVars, current_proc, input_count, satp>>

yield_same ==
    /\ cpu = "pick"
    /\ ScanFinds(current_proc)
    /\ time_slice' = [time_slice EXCEPT ![current_proc] =
                        IF @ = 0 THEN SCHED_TIME_SLICE_TICKS ELSE @]
    /\ need_resched' = FALSE
    /\ cpu' = "run"
    /\ UNCHANGED <<pid, state, wait_reason, wait_pid, parent_pid, mailbox,
                   resume_at, target_pid, current_proc, input_count, satp>>

yield_switch(next) ==
    /\ cpu = "pick"
    /\ next # current_proc
    /\ ScanFinds(next)
    /\ time_slice' = [time_slice EXCEPT ![next] = SCHED_TIME_SLICE_TICKS]
    /\ need_resched' = FALSE
    /\ satp' = next
    /\ current_proc' = next
    /\ cpu' = "run"
    /\ UNCHANGED <<pid, state, wait_reason, wait_pid, parent_pid, mailbox,
                   resume_at, target_pid, input_count>>

-----------------------------------------------------------------------------
(* The timer trap, from user mode or out of the wfi of yield(). *)

\* scheduler_on_timer_tick: only a runnable current process is charged.
Ticks(st) == st[current_proc] = "RUNNABLE" /\ pid[current_proc] > 0

SliceLeft == IF time_slice[current_proc] > 0
             THEN time_slice[current_proc] - 1 ELSE 0

scheduler_on_timer_tick(st) ==
    /\ time_slice' = IF Ticks(st)
                     THEN [time_slice EXCEPT ![current_proc] = SliceLeft]
                     ELSE time_slice
    /\ need_resched' = (need_resched \/ (Ticks(st) /\ SliceLeft = 0))

\* poll_console_input finds k more characters on the serial line.
poll_console_input(k) ==
    /\ input_count + k <= INPUT_BUF_SIZE
    /\ input_count' = input_count + k
    /\ state' = woken_state(wakeup_input_waiters(input_count + k))
    /\ wait_reason' = woken_reason(wakeup_input_waiters(input_count + k))
    /\ wait_pid' = woken_pid(wakeup_input_waiters(input_count + k))

handle_timer(k) ==
    /\ poll_console_input(k)
    /\ scheduler_on_timer_tick(state')
    /\ UNCHANGED <<pid, parent_pid, mailbox, resume_at, target_pid,
                   current_proc, satp>>

\* Mutant: the tick is counted but the trap handler does not yield.
TimerInUser_NoYield(k) ==
    /\ cpu = "run" /\ resume_at[current_proc] = "user"
    /\ handle_timer(k)
    /\ cpu' = "run"

TimerInUser(k) ==
    /\ cpu = "run" /\ resume_at[current_proc] = "user"
    /\ handle_timer(k)
    /\ cpu' = IF need_resched' THEN "reap" ELSE "run"

TimerInWfi(k) ==
    /\ cpu = "wfi"
    /\ handle_timer(k)
    /\ cpu' = IF need_resched' THEN "reap" ELSE "pick"

-----------------------------------------------------------------------------
(* System calls. *)

InUser == cpu = "run" /\ resume_at[current_proc] = "user"

\* The current process runs the body of a call it enters or is resumed in.
Inside(call) == cpu = "run" /\ resume_at[current_proc] \in {"user", call}

\* The call returns to user mode.
Return ==
    /\ resume_at' = [resume_at EXCEPT ![current_proc] = "user"]
    /\ target_pid' = [target_pid EXCEPT ![current_proc] = 0]
    /\ cpu' = "run"

\* The call puts its process to sleep for reason, until its loop resumes.
Block(call, reason, target) ==
    /\ state' = [state EXCEPT ![current_proc] = "WAITTING"]
    /\ wait_reason' = [wait_reason EXCEPT ![current_proc] = reason]
    /\ resume_at' = [resume_at EXCEPT ![current_proc] = call]
    /\ target_pid' = [target_pid EXCEPT ![current_proc] = target]
    /\ cpu' = "reap"

\* Mutant: a character is taken without looking at the count.
getchar_pop_Unchecked ==
    /\ Inside("getchar")
    /\ input_count' = input_count - 1
    /\ wait_reason' = [wait_reason EXCEPT ![current_proc] = "NONE"]
    /\ Return
    /\ UNCHANGED <<pid, state, wait_pid, parent_pid, time_slice, mailbox,
                   current_proc, need_resched, satp>>

getchar_pop ==
    /\ Inside("getchar")
    /\ input_count > 0
    /\ input_count' = input_count - 1
    /\ wait_reason' = [wait_reason EXCEPT ![current_proc] = "NONE"]
    /\ Return
    /\ UNCHANGED <<pid, state, wait_pid, parent_pid, time_slice, mailbox,
                   current_proc, need_resched, satp>>

\* The ring is empty: poll it once more, and take a character that came.
getchar_poll(k) ==
    /\ Inside("getchar")
    /\ input_count = 0
    /\ k > 0
    /\ input_count' = k - 1
    /\ state' = woken_state(wakeup_input_waiters(k))
    /\ wait_reason' = [woken_reason(wakeup_input_waiters(k))
                         EXCEPT ![current_proc] = "NONE"]
    /\ wait_pid' = woken_pid(wakeup_input_waiters(k))
    /\ Return
    /\ UNCHANGED <<pid, parent_pid, time_slice, mailbox, current_proc,
                   need_resched, satp>>

getchar_wait ==
    /\ Inside("getchar")
    /\ input_count = 0
    /\ Block("getchar", "CONSOLE_INPUT", 0)
    /\ UNCHANGED <<pid, wait_pid, parent_pid, time_slice, mailbox,
                   current_proc, need_resched, input_count, satp>>

\* The children wait_for_child_exit looks at.
WaitedChildren(target) ==
    {s \in Slots : /\ state[s] # "UNUSED"
                   /\ parent_pid[s] = pid[current_proc]
                   /\ target = -1 \/ pid[s] = target}

\* waitpid(target): a fresh call, or the one the process is suspended in.
WaitsFor(target) ==
    /\ cpu = "run"
    /\ \/ resume_at[current_proc] = "user" /\ target \in Slots \cup {-1}
                                           /\ target # 0
       \/ resume_at[current_proc] = "waitpid"
                                    /\ target = target_pid[current_proc]

waitpid_collect(target, child) ==
    /\ WaitsFor(target)
    /\ child \in WaitedChildren(target) /\ state[child] = "EXITED"
    /\ \A s \in WaitedChildren(target) : state[s] = "EXITED" => child <= s
    /\ recycle_process_slot({child}, state, wait_reason, wait_pid, parent_pid)
    /\ resume_at' = [resume_at EXCEPT ![child] = "none",
                                      ![current_proc] = "user"]
    /\ target_pid' = [target_pid EXCEPT ![current_proc] = 0]
    /\ UNCHANGED <<current_proc, need_resched, input_count, satp, cpu>>

waitpid_none(target) ==
    /\ WaitsFor(target)
    /\ WaitedChildren(target) = {}
    /\ Return
    /\ UNCHANGED <<pid, state, wait_reason, wait_pid, parent_pid, time_slice,
                   mailbox, current_proc, need_resched, input_count, satp>>

waitpid_wait(target) ==
    /\ WaitsFor(target)
    /\ WaitedChildren(target) # {}
    /\ \A s \in WaitedChildren(target) : state[s] # "EXITED"
    /\ Block("waitpid", "CHILD_EXIT", target)
    /\ wait_pid' = [wait_pid EXCEPT ![current_proc] = target]
    /\ UNCHANGED <<pid, parent_pid, time_slice, mailbox,
                   current_proc, need_resched, input_count, satp>>

\* The receivers process_ipc_send(dst) makes runnable.
ReceiverWoken(dst) ==
    {s \in {dst} : state[s] = "WAITTING" /\ wait_reason[s] = "IPC_RECV"}

\* Mutant: a full mailbox is overwritten.
process_ipc_send_Overwrite(dst, m) ==
    /\ InUser
    /\ dst \in find_process_by_pid(dst)
    /\ state[dst] # "EXITED"
    /\ mailbox' = [mailbox EXCEPT ![dst] =
                     [has |-> TRUE, from |-> pid[current_proc],
                      message |-> m]]
    /\ state' = woken_state(ReceiverWoken(dst))
    /\ wait_reason' = woken_reason(ReceiverWoken(dst))
    /\ wait_pid' = woken_pid(ReceiverWoken(dst))
    /\ UNCHANGED <<pid, parent_pid, time_slice, resume_at, target_pid,
                   current_proc, need_resched, input_count, satp, cpu>>

process_ipc_send(dst, m) ==
    /\ InUser
    /\ dst \in find_process_by_pid(dst)
    /\ state[dst] # "EXITED"
    /\ ~mailbox[dst].has
    /\ mailbox' = [mailbox EXCEPT ![dst] =
                     [has |-> TRUE, from |-> pid[current_proc],
                      message |-> m]]
    /\ state' = woken_state(ReceiverWoken(dst))
    /\ wait_reason' = woken_reason(ReceiverWoken(dst))
    /\ wait_pid' = woken_pid(ReceiverWoken(dst))
    /\ UNCHANGED <<pid, parent_pid, time_slice, resume_at, target_pid,
                   current_proc, need_resched, input_count, satp, cpu>>

ipc_recv_take ==
    /\ Inside("ipc_recv")
    /\ mailbox[current_proc].has
    /\ mailbox' = [mailbox EXCEPT ![current_proc] = NoMessage]
    /\ Return
    /\ UNCHANGED <<pid, state, wait_reason, wait_pid, parent_pid, time_slice,
                   current_proc, need_resched, input_count, satp>>

ipc_recv_wait ==
    /\ Inside("ipc_recv")
    /\ ~mailbox[current_proc].has
    /\ Block("ipc_recv", "IPC_RECV", 0)
    /\ wait_pid' = [wait_pid EXCEPT ![current_proc] = -1]
    /\ UNCHANGED <<pid, parent_pid, time_slice, mailbox, current_proc,
                   need_resched, input_count, satp>>

\* Exit of the shell shuts the machine down.
exit_init ==
    /\ InUser
    /\ current_proc = init_proc
    /\ state' = [state EXCEPT ![current_proc] = "EXITED"]
    /\ wait_reason' = [wait_reason EXCEPT ![current_proc] = "NONE"]
    /\ wait_pid' = [wait_pid EXCEPT ![current_proc] = -1]
    /\ cpu' = "halt"
    /\ UNCHANGED <<pid, parent_pid, time_slice, mailbox, resume_at, target_pid,
                   current_proc, need_resched, input_count, satp>>

\* The current process dies inside call and yields for the last time.
Die(call, pp) ==
    LET W == notify_child_exit(current_proc)
    IN  /\ state' = [woken_state(W) EXCEPT ![current_proc] = "EXITED"]
        /\ wait_reason' = [woken_reason(W) EXCEPT ![current_proc] = "NONE"]
        /\ wait_pid' = [woken_pid(W) EXCEPT ![current_proc] = -1]
        /\ parent_pid' = pp
        /\ resume_at' = [resume_at EXCEPT ![current_proc] = call]
        /\ cpu' = "reap"
        /\ UNCHANGED <<pid, time_slice, mailbox, target_pid, current_proc,
                       need_resched, input_count, satp>>

syscall_handle_exit ==
    /\ InUser
    /\ current_proc # init_proc
    /\ Die("exit", orphan_children(pid[current_proc]))

kill_self ==
    /\ InUser
    /\ current_proc # init_proc
    /\ Die("kill", [orphan_children(pid[current_proc])
                      EXCEPT ![current_proc] = 0])

kill_other(target) ==
    /\ InUser
    /\ target \in find_process_by_pid(target)
    /\ state[target] # "EXITED"
    /\ target \notin {init_proc, current_proc}
    /\ LET W == notify_child_exit(target)
       IN  recycle_process_slot({target}, woken_state(W), woken_reason(W),
                                woken_pid(W), orphan_children(target))
    /\ resume_at' = [resume_at EXCEPT ![target] = "none"]
    /\ target_pid' = [target_pid EXCEPT ![target] = 0]
    /\ UNCHANGED <<current_proc, need_resched, input_count, satp, cpu>>

\* The lowest free slot, once the orphan zombies are reaped.
FreeSlots == {s \in Slots : state[s] = "UNUSED"} \cup Reapable

alloc_proc_slot(child) ==
    /\ child \in FreeSlots
    /\ \A s \in FreeSlots : child <= s

\* A slot is reaped and given to a new child of the current process.
NewProcess(child) ==
    LET R == Reapable
    IN  /\ pid' = [SetAll(pid, R, 0) EXCEPT ![child] = child]
        /\ state' = [SetAll(state, R, "UNUSED") EXCEPT ![child] = "RUNNABLE"]
        /\ wait_reason' = [SetAll(wait_reason, R, "NONE")
                             EXCEPT ![child] = "NONE"]
        /\ wait_pid' = [SetAll(wait_pid, R, -1) EXCEPT ![child] = -1]
        /\ parent_pid' = [SetAll(parent_pid, R, 0)
                            EXCEPT ![child] = pid[current_proc]]
        /\ time_slice' = [SetAll(time_slice, R, SCHED_TIME_SLICE_TICKS)
                            EXCEPT ![child] = SCHED_TIME_SLICE_TICKS]
        /\ mailbox' = [SetAll(mailbox, R, NoMessage)
                         EXCEPT ![child] = NoMessage]
        /\ resume_at' = [SetAll(resume_at, R, "none")
                           EXCEPT ![child] = "user"]
        /\ UNCHANGED <<target_pid, current_proc, need_resched, input_count,
                       satp, cpu>>

process_fork(child) ==
    /\ InUser
    /\ state[current_proc] \in Live
    /\ alloc_proc_slot(child)
    /\ NewProcess(child)

syscall_handle_clone(child) ==
    /\ InUser
    /\ alloc_proc_slot(child)
    /\ NewProcess(child)

process_exec ==
    /\ InUser
    /\ wait_reason' = [wait_reason EXCEPT ![current_proc] = "NONE"]
    /\ wait_pid' = [wait_pid EXCEPT ![current_proc] = -1]
    /\ time_slice' = [time_slice EXCEPT ![current_proc] =
                        SCHED_TIME_SLICE_TICKS]
    /\ UNCHANGED <<pid, state, parent_pid, mailbox, resume_at, target_pid,
                   current_proc, need_resched, input_count, satp, cpu>>

\* After kernel_shutdown nothing runs any more.
Halted == cpu = "halt" /\ UNCHANGED vars

-----------------------------------------------------------------------------
\* Where the kernel, not the environment, takes the next step.
KernelStep ==
    \/ reap_exited_processes
    \/ yield_idle
    \/ yield_same
    \/ \E next \in Slots : yield_switch(next)

\* The timer interrupt, with what it finds on the serial line.
TimerStep ==
    \E k \in Counts : TimerInUser(k) \/ TimerInWfi(k)

\* The body of a blocking call, entered or resumed.
BlockingCall ==
    \/ getchar_pop
    \/ \E k \in Counts : getchar_poll(k)
    \/ getchar_wait
    \/ \E t \in WaitPids :
          \/ \E child \in Slots : waitpid_collect(t, child)
          \/ waitpid_none(t)
          \/ waitpid_wait(t)
    \/ ipc_recv_take
    \/ ipc_recv_wait

OtherCall ==
    \/ \E dst \in Slots, m \in Messages : process_ipc_send(dst, m)
    \/ exit_init
    \/ syscall_handle_exit
    \/ kill_self
    \/ \E t \in Slots : kill_other(t)
    \/ \E child \in Slots : process_fork(child)
    \/ \E child \in Slots : syscall_handle_clone(child)
    \/ process_exec

Next == KernelStep \/ TimerStep \/ BlockingCall \/ OtherCall \/ Halted

Spec == Init /\ [][Next]_vars

\* A process resumed inside a blocking call goes on with it.
Resume == resume_at[current_proc] # "user" /\ BlockingCall

(***************************************************************************)
(* The kernel goes on with what it started.  The timer is a pending        *)
(* interrupt: system calls, which run with interrupts disabled, delay it   *)
(* but cannot keep it away, since it is taken on the return to user mode.  *)
(***************************************************************************)
Fairness ==
    /\ WF_vars(KernelStep)
    /\ WF_vars(Resume)
    /\ SF_vars(TimerStep)

FairSpec == Spec /\ Fairness

-----------------------------------------------------------------------------
(* Properties. *)

\* A slot in use carries its own number as pid and a free one no pid and no
\* parent; the idle context is never scheduled, recycled or anybody's child,
\* and the shell is never killed.
SlotSound ==
    /\ \A s \in Slots :
         /\ state[s] # "UNUSED" => pid[s] = s
         /\ state[s] = "UNUSED" => pid[s] = 0 /\ parent_pid[s] = 0
    /\ state[idle_proc] = "RUNNABLE" /\ parent_pid[idle_proc] = 0
    /\ resume_at[idle_proc] = "boot"
    /\ parent_pid[init_proc] = 0
    /\ cpu # "halt" => state[init_proc] \in Live

\* A process that sleeps is suspended inside the loop that tests the
\* condition its wait_reason names, with the target it recorded in wait_pid;
\* a process that does not sleep has no wait_reason left over.
WaitSound ==
    \A s \in Slots :
      IF state[s] = "WAITTING"
      THEN \/ wait_reason[s] = "CONSOLE_INPUT" /\ resume_at[s] = "getchar"
           \/ wait_reason[s] = "IPC_RECV" /\ resume_at[s] = "ipc_recv"
           \/ /\ wait_reason[s] = "CHILD_EXIT" /\ resume_at[s] = "waitpid"
              /\ wait_pid[s] = target_pid[s] /\ target_pid[s] # 0
      ELSE /\ wait_reason[s] = "NONE"
           /\ state[s] = "RUNNABLE" /\ s # idle_proc =>
                resume_at[s] \in Blocking \cup {"user"}
           /\ state[s] = "RUNNABLE" /\ resume_at[s] = "waitpid" =>
                target_pid[s] # 0

\* The waitpid that p is inside is about s.
Awaits(p, s) == /\ state[s] # "UNUSED" /\ parent_pid[s] = p
                /\ target_pid[p] \in {-1, s}

\* A process waiting in waitpid has a live child it waits for, and no
\* matching child has already exited: no exit, kill or slot reuse between
\* the check in wait_for_child_exit and the notification loses its wakeup.
NoLostChildWakeup ==
    cpu # "halt" =>
    \A p \in Slots :
      (state[p] = "WAITTING" /\ wait_reason[p] = "CHILD_EXIT") =>
        /\ \E s \in Slots : Awaits(p, s)
        /\ \A s \in Slots : Awaits(p, s) => state[s] \in Live

\* No process sleeps in getchar while the console ring holds a character,
\* and none sleeps in ipc_recv while its mailbox holds a message.
NoLostInputWakeup ==
    \A p \in Slots : state[p] = "WAITTING" =>
      /\ wait_reason[p] = "CONSOLE_INPUT" => input_count = 0
      /\ wait_reason[p] = "IPC_RECV" => ~mailbox[p].has

\* A parent_pid always names a live process, across exit, kill and the
\* reuse of slots and pids: no process inherits another one's children.
ParentAlive ==
    cpu # "halt" =>
    \A s \in Slots : parent_pid[s] # 0 =>
      state[parent_pid[s]] \in Live /\ pid[parent_pid[s]] = parent_pid[s]

\* The parent relation is a forest: every set of processes has a member
\* whose parent is outside, so waiting for children cannot go in a circle.
ParentForest ==
    \A S \in SUBSET (Slots \ {0}) :
      S # {} => \E s \in S : parent_pid[s] \notin S

\* What yield() returns into: a process that runs is runnable, has its own
\* pid, and its saved context is in user mode or in the blocking call it
\* waited in; the context of an exited or killed process is never resumed,
\* so the PANIC at the end of process_kill is unreachable.
ResumedAlive ==
    cpu = "run" =>
      /\ state[current_proc] = "RUNNABLE"
      /\ wait_reason[current_proc] = "NONE"
      /\ pid[current_proc] = current_proc
      /\ resume_at[current_proc] \in Blocking \cup {"user"}

\* In user mode the current process has ticks left and no reschedule is
\* pending: yield() refills the slice whenever the tick used it up.
RunningHasSlice ==
    cpu = "run" => time_slice[current_proc] > 0 /\ ~need_resched

\* A zombie with a parent disappears only when that parent collects it in
\* waitpid: neither the reaping in yield() or fork nor a kill takes it away.
ZombieKeptForParent ==
    [][\A s \in Slots :
         (state[s] = "EXITED" /\ parent_pid[s] # 0 /\ state'[s] # "EXITED")
           => /\ current_proc = parent_pid[s]
              /\ state'[s] = "UNUSED"
              /\ resume_at'[current_proc] = "user"]_vars

\* An exited process without a parent gives its slot back: the timer forces
\* a yield() even if every process keeps running, and yield() reaps.  The one
\* way round it is a program that execs over and over, since process_exec
\* fills the time slice again before it is used up.
OrphanZombieReaped ==
    \/ \A s \in Slots :
         (state[s] = "EXITED" /\ parent_pid[s] = 0)
           ~> (state[s] # "EXITED" \/ cpu = "halt")
    \/ []<><<process_exec>>_vars

\* The round robin the documentation promises: a runnable process is given
\* the processor, whatever the others do.
RoundRobin ==
    \A s \in Slots \ {idle_proc} :
      state[s] = "RUNNABLE" ~> (current_proc = s \/ state[s] # "RUNNABLE"
                                                \/ cpu = "halt")

\* The page table in satp belongs to a process that still has one: a slot
\* is not recycled while the hart runs on its address space.
AddressSpaceLoaded == satp # idle_proc => state[satp] # "UNUSED"

-----------------------------------------------------------------------------
(***************************************************************************)
(* The promise of ProcTree, read off the table.  An exited process without *)
(* a parent counts as free although its slot is reclaimed later, and the   *)
(* shell counts as live in the machine it has shut down.                   *)
(***************************************************************************)
IsLive(s) == state[s] \in Live \/ (cpu = "halt" /\ s = init_proc)

TreeStatus == [s \in Slots \ {idle_proc} |->
                 IF IsLive(s) THEN "live"
                 ELSE IF state[s] = "EXITED" /\ parent_pid[s] # 0
                 THEN "zombie" ELSE "free"]
TreeParent == [s \in Slots \ {idle_proc} |-> parent_pid[s]]
TreeMail == [s \in Slots \ {idle_proc} |->
               IF IsLive(s) /\ mailbox[s].has
               THEN {<<mailbox[s].from, mailbox[s].message>>} ELSE {}]

Tree == INSTANCE ProcTree
        WITH Procs <- Slots \ {idle_proc}, Root <- init_proc, Nobody <- 0,
             status <- TreeStatus, parent <- TreeParent, mail <- TreeMail,
             halted <- (cpu = "halt")

\* The process table, with its late reaping, slot reuse and wakeups, keeps
\* the promise of ProcTree at every step.
TreeSpec == Tree!Spec
=============================================================================
