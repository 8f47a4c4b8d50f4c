--------------------------- MODULE ProcessProofs ---------------------------
(***************************************************************************)
(* Theorems about Process for every table size, time slice, ring size and  *)
(* set of messages.                                                        *)
(***************************************************************************)
EXTENDS Process, TLAPS

USE DEF idle_proc, init_proc

-----------------------------------------------------------------------------
(* Type correctness, which is inductive by itself. *)

LEMMA TypeFacts ==
    /\ 0 \in Slots /\ 1 \in Slots
    /\ {"RUNNABLE", "WAITTING", "UNUSED", "EXITED"} \subseteq States
    /\ {"NONE", "CONSOLE_INPUT", "CHILD_EXIT", "IPC_RECV"}
         \subseteq WaitReasons
    /\ -1 \in WaitPids /\ Slots \subseteq WaitPids
    /\ 0 \in Slices /\ SCHED_TIME_SLICE_TICKS \in Slices
    /\ NoMessage \in Mails
    /\ {"none", "boot", "user", "exit", "kill", "getchar", "waitpid",
        "ipc_recv"} \subseteq Contexts
    /\ {"run", "reap", "pick", "wfi", "halt"} \subseteq CpuModes
BY ProcsMaxAssumption, SliceAssumption
   DEF Slots, States, WaitReasons, WaitPids, Slices, Mails, NoMessage,
       Contexts, CpuModes, Live, Blocking

LEMMA InitType == Init => TypeOK
<1> SUFFICES ASSUME Init PROVE TypeOK
  OBVIOUS
<1>1. 0 \in Counts
  BY InputBufAssumption DEF Counts
<1>2. -1 \in WaitPids /\ 0 \in WaitPids
  BY TypeFacts
<1>3. /\ wait_pid \in [Slots -> WaitPids]
      /\ time_slice \in [Slots -> Slices]
  BY <1>2, TypeFacts DEF Init
<1>4. /\ pid \in [Slots -> Slots]
      /\ state \in [Slots -> States]
      /\ resume_at \in [Slots -> Contexts]
  BY TypeFacts DEF Init
<1> QED
  BY <1>1, <1>2, <1>3, <1>4, TypeFacts DEF Init, TypeOK

LEMMA TypeKernelStep == TypeOK /\ KernelStep => TypeOK'
<1> SUFFICES ASSUME TypeOK, KernelStep PROVE TypeOK'
  OBVIOUS
<1> USE TypeFacts DEF TypeOK
<1>1. CASE reap_exited_processes
  BY <1>1 DEF reap_exited_processes, recycle_process_slot, SetAll
<1>2. CASE yield_idle
  BY <1>2 DEF yield_idle, slotVars
<1>3. CASE yield_same
  <2>1. time_slice' \in [Slots -> Slices]
    BY <1>3 DEF yield_same
  <2> QED
    BY <1>3, <2>1 DEF yield_same
<1>4. ASSUME NEW next \in Slots, yield_switch(next) PROVE TypeOK'
  BY <1>4 DEF yield_switch
<1> QED
  BY <1>1, <1>2, <1>3, <1>4 DEF KernelStep

LEMMA TypeTimerStep == TypeOK /\ TimerStep => TypeOK'
<1> SUFFICES ASSUME TypeOK, NEW k \in Counts,
                    TimerInUser(k) \/ TimerInWfi(k)
             PROVE  TypeOK'
  BY DEF TimerStep
<1> USE TypeFacts DEF TypeOK
<1>1. handle_timer(k) /\ cpu' \in {"run", "reap", "pick"}
  BY DEF TimerInUser, TimerInWfi
<1>2. /\ state' \in [Slots -> States]
      /\ wait_reason' \in [Slots -> WaitReasons]
      /\ wait_pid' \in [Slots -> WaitPids]
  BY <1>1 DEF handle_timer, poll_console_input, woken_state, woken_reason,
              woken_pid, SetAll
<1>3. input_count' \in Counts
  BY <1>1, InputBufAssumption DEF handle_timer, poll_console_input, Counts
<1>4. SliceLeft \in Slices
  BY SliceAssumption DEF SliceLeft, Slices
<1>5. /\ time_slice' \in [Slots -> Slices]
      /\ need_resched' \in BOOLEAN
  BY <1>1, <1>4 DEF handle_timer, scheduler_on_timer_tick
<1> QED
  BY <1>1, <1>2, <1>3, <1>5 DEF handle_timer

LEMMA TypeBlockingCall == TypeOK /\ BlockingCall => TypeOK'
<1> SUFFICES ASSUME TypeOK, BlockingCall PROVE TypeOK'
  OBVIOUS
<1> USE TypeFacts DEF TypeOK, Return, Block
<1>1. CASE getchar_pop
  <2>1. input_count' \in Counts
    BY <1>1, InputBufAssumption DEF getchar_pop, Counts
  <2> QED
    BY <1>1, <2>1 DEF getchar_pop
<1>2. ASSUME NEW k \in Counts, getchar_poll(k) PROVE TypeOK'
  <2>1. input_count' \in Counts
    BY <1>2, InputBufAssumption DEF getchar_poll, Counts
  <2> QED
    BY <1>2, <2>1 DEF getchar_poll, woken_state, woken_reason, woken_pid,
       SetAll
<1>3. CASE getchar_wait
  BY <1>3 DEF getchar_wait
<1>4. ASSUME NEW t \in WaitPids, NEW child \in Slots,
             waitpid_collect(t, child)
      PROVE  TypeOK'
  BY <1>4 DEF waitpid_collect, recycle_process_slot, SetAll
<1>5. ASSUME NEW t \in WaitPids, waitpid_none(t) PROVE TypeOK'
  BY <1>5 DEF waitpid_none
<1>6. ASSUME NEW t \in WaitPids, waitpid_wait(t) PROVE TypeOK'
  BY <1>6 DEF waitpid_wait
<1>7. CASE ipc_recv_take
  BY <1>7 DEF ipc_recv_take
<1>8. CASE ipc_recv_wait
  BY <1>8 DEF ipc_recv_wait
<1> QED
  BY <1>1, <1>2, <1>3, <1>4, <1>5, <1>6, <1>7, <1>8 DEF BlockingCall

LEMMA TypeOtherCall == TypeOK /\ OtherCall => TypeOK'
<1> SUFFICES ASSUME TypeOK, OtherCall PROVE TypeOK'
  OBVIOUS
<1> USE TypeFacts DEF TypeOK, SetAll, woken_state, woken_reason, woken_pid
<1>1. ASSUME NEW dst \in Slots, NEW m \in Messages, process_ipc_send(dst, m)
      PROVE  TypeOK'
  <2>1. [has |-> TRUE, from |-> pid[current_proc], message |-> m] \in Mails
    BY DEF Mails
  <2> QED
    BY <1>1, <2>1 DEF process_ipc_send
<1>2. CASE exit_init
  BY <1>2 DEF exit_init
<1>3. CASE syscall_handle_exit
  BY <1>3 DEF syscall_handle_exit, Die, orphan_children
<1>4. CASE kill_self
  BY <1>4 DEF kill_self, Die, orphan_children
<1>5. ASSUME NEW t \in Slots, kill_other(t) PROVE TypeOK'
  BY <1>5 DEF kill_other, recycle_process_slot, orphan_children
<1>6. ASSUME NEW child \in Slots,
             process_fork(child) \/ syscall_handle_clone(child)
      PROVE  TypeOK'
  <2> NewProcess(child)
    BY <1>6 DEF process_fork, syscall_handle_clone
  <2>1. /\ pid' \in [Slots -> Slots]
        /\ state' \in [Slots -> States]
        /\ parent_pid' \in [Slots -> Slots]
    BY DEF NewProcess
  <2>2. /\ wait_reason' \in [Slots -> WaitReasons]
        /\ wait_pid' \in [Slots -> WaitPids]
        /\ time_slice' \in [Slots -> Slices]
    BY DEF NewProcess
  <2>3. /\ mailbox' \in [Slots -> Mails]
        /\ resume_at' \in [Slots -> Contexts]
    BY DEF NewProcess
  <2> QED
    BY <2>1, <2>2, <2>3 DEF NewProcess
<1>7. CASE process_exec
  BY <1>7 DEF process_exec
<1> QED
  BY <1>1, <1>2, <1>3, <1>4, <1>5, <1>6, <1>7 DEF OtherCall

LEMMA TypeNext == TypeOK /\ [Next]_vars => TypeOK'
<1>1. ASSUME TypeOK, UNCHANGED vars PROVE TypeOK'
  BY <1>1 DEF TypeOK, vars, slotVars
<1> QED
  BY <1>1, TypeKernelStep, TypeTimerStep, TypeBlockingCall, TypeOtherCall
     DEF Next, Halted

\* Every variable of the process table keeps its type; in particular the
\* console count stays within the ring and a time slice never wraps below 0.
THEOREM TypeCorrect == Spec => []TypeOK
BY InitType, TypeNext, PTL DEF Spec

-----------------------------------------------------------------------------
(***************************************************************************)
(* The inductive invariant of the table.  ParentAlive needs SlotSound (no  *)
(* one is the child of a free slot, the shell is never killed) and         *)
(* ResumedAlive (the process that calls exit, fork or kill is a live one); *)
(* ResumedAlive needs WaitSound, since a woken process resumes inside the  *)
(* call it blocked in.                                                     *)
(***************************************************************************)
TableInv ==
    /\ TypeOK
    /\ SlotSound
    /\ WaitSound
    /\ ParentAlive
    /\ ResumedAlive

LEMMA SlotNat == \A s \in Slots : s \in Nat
BY ProcsMaxAssumption DEF Slots

LEMMA InitTable == Init => TableInv
BY InitType, TypeFacts, SlotNat
   DEF Init, TableInv, SlotSound, WaitSound, ParentAlive, ResumedAlive,
       Live, Blocking

LEMMA TableKernelStep == TableInv /\ KernelStep => TableInv'
<1> SUFFICES ASSUME TableInv, KernelStep PROVE TableInv'
  OBVIOUS
<1> USE TypeFacts, SlotNat DEF TableInv, TypeOK, Live, Blocking
<1>t. TypeOK'
  BY TypeKernelStep
<1>1. CASE reap_exited_processes
  <2>1. SlotSound'
    BY <1>1 DEF SlotSound, ResumedAlive, reap_exited_processes,
       recycle_process_slot, SetAll, Reapable
  <2>2. WaitSound'
    BY <1>1 DEF SlotSound, WaitSound, ResumedAlive, reap_exited_processes,
       recycle_process_slot, SetAll, Reapable
  <2>3. ParentAlive'
    BY <1>1 DEF SlotSound, ParentAlive, ResumedAlive, reap_exited_processes,
       recycle_process_slot, SetAll, Reapable
  <2>4. ResumedAlive'
    BY <1>1 DEF SlotSound, WaitSound, ResumedAlive, reap_exited_processes,
       recycle_process_slot, SetAll, Reapable
  <2> QED
    BY <1>t, <2>1, <2>2, <2>3, <2>4
<1>2. CASE yield_idle
  <2>1. SlotSound'
    BY <1>2 DEF SlotSound, ResumedAlive, yield_idle, slotVars
  <2>2. WaitSound'
    BY <1>2 DEF SlotSound, WaitSound, ResumedAlive, yield_idle, slotVars
  <2>3. ParentAlive'
    BY <1>2 DEF SlotSound, ParentAlive, ResumedAlive, yield_idle, slotVars
  <2>4. ResumedAlive'
    BY <1>2 DEF SlotSound, WaitSound, ResumedAlive, yield_idle, slotVars
  <2> QED
    BY <1>t, <2>1, <2>2, <2>3, <2>4
<1>3. CASE yield_same
  <2>1. SlotSound'
    BY <1>3 DEF SlotSound, ResumedAlive, yield_same, ScanFinds, Candidates
  <2>2. WaitSound'
    BY <1>3 DEF SlotSound, WaitSound, ResumedAlive, yield_same, ScanFinds,
       Candidates
  <2>3. ParentAlive'
    BY <1>3 DEF SlotSound, ParentAlive, ResumedAlive, yield_same, ScanFinds,
       Candidates
  <2>4. ResumedAlive'
    BY <1>3 DEF SlotSound, WaitSound, ResumedAlive, yield_same, ScanFinds,
       Candidates
  <2> QED
    BY <1>t, <2>1, <2>2, <2>3, <2>4
<1>4. ASSUME NEW next \in Slots, yield_switch(next) PROVE TableInv'
  <2>1. SlotSound'
    BY <1>4 DEF SlotSound, ResumedAlive, yield_switch, ScanFinds, Candidates
  <2>2. WaitSound'
    BY <1>4 DEF SlotSound, WaitSound, ResumedAlive, yield_switch, ScanFinds,
       Candidates
  <2>3. ParentAlive'
    BY <1>4 DEF SlotSound, ParentAlive, ResumedAlive, yield_switch, ScanFinds,
       Candidates
  <2>4. ResumedAlive'
    BY <1>4 DEF SlotSound, WaitSound, ResumedAlive, yield_switch, ScanFinds,
       Candidates
  <2> QED
    BY <1>t, <2>1, <2>2, <2>3, <2>4
<1> QED
  BY <1>1, <1>2, <1>3, <1>4 DEF KernelStep

LEMMA TableTimerStep == TableInv /\ TimerStep => TableInv'
<1> SUFFICES ASSUME TableInv, TimerStep PROVE TableInv'
  OBVIOUS
<1> USE TypeFacts, SlotNat DEF TableInv, TypeOK, Live, Blocking
<1>t. TypeOK'
  BY TypeTimerStep
<1>1. ASSUME NEW k \in Counts, TimerInUser(k) PROVE TableInv'
  <2>1. SlotSound'
    BY <1>1 DEF SlotSound, ResumedAlive, TimerInUser, handle_timer,
       poll_console_input, wakeup_input_waiters, ConsoleWaiters, SetAll,
       woken_state, woken_reason, woken_pid
  <2>2. WaitSound'
    BY <1>1 DEF SlotSound, WaitSound, ResumedAlive, TimerInUser, handle_timer,
       poll_console_input, wakeup_input_waiters, ConsoleWaiters, SetAll,
       woken_state, woken_reason, woken_pid
  <2>3. ParentAlive'
    BY <1>1 DEF SlotSound, ParentAlive, ResumedAlive, TimerInUser,
       handle_timer, poll_console_input, wakeup_input_waiters, ConsoleWaiters,
       SetAll, woken_state, woken_reason, woken_pid
  <2>4. ResumedAlive'
    BY <1>1 DEF SlotSound, WaitSound, ResumedAlive, TimerInUser, handle_timer,
       poll_console_input, wakeup_input_waiters, ConsoleWaiters, SetAll,
       woken_state, woken_reason, woken_pid
  <2> QED
    BY <1>t, <2>1, <2>2, <2>3, <2>4
<1>2. ASSUME NEW k \in Counts, TimerInWfi(k) PROVE TableInv'
  <2>1. SlotSound'
    BY <1>2 DEF SlotSound, ResumedAlive, TimerInWfi, handle_timer,
       poll_console_input, wakeup_input_waiters, ConsoleWaiters, SetAll,
       woken_state, woken_reason, woken_pid
  <2>2. WaitSound'
    BY <1>2 DEF SlotSound, WaitSound, ResumedAlive, TimerInWfi, handle_timer,
       poll_console_input, wakeup_input_waiters, ConsoleWaiters, SetAll,
       woken_state, woken_reason, woken_pid
  <2>3. ParentAlive'
    BY <1>2 DEF SlotSound, ParentAlive, ResumedAlive, TimerInWfi,
       handle_timer, poll_console_input, wakeup_input_waiters, ConsoleWaiters,
       SetAll, woken_state, woken_reason, woken_pid
  <2>4. ResumedAlive'
    BY <1>2 DEF SlotSound, WaitSound, ResumedAlive, TimerInWfi, handle_timer,
       poll_console_input, wakeup_input_waiters, ConsoleWaiters, SetAll,
       woken_state, woken_reason, woken_pid
  <2> QED
    BY <1>t, <2>1, <2>2, <2>3, <2>4
<1> QED
  BY <1>1, <1>2 DEF TimerStep

LEMMA TableBlockingCall == TableInv /\ BlockingCall => TableInv'
<1> SUFFICES ASSUME TableInv, BlockingCall PROVE TableInv'
  OBVIOUS
<1> USE TypeFacts, SlotNat DEF TableInv, TypeOK, Live, Blocking
<1>t. TypeOK'
  BY TypeBlockingCall
<1>1. CASE getchar_pop
  <2>1. SlotSound'
    BY <1>1 DEF SlotSound, ResumedAlive, getchar_pop, Inside, Return
  <2>2. WaitSound'
    BY <1>1 DEF SlotSound, WaitSound, ResumedAlive, getchar_pop, Inside,
       Return
  <2>3. ParentAlive'
    BY <1>1 DEF SlotSound, ParentAlive, ResumedAlive, getchar_pop, Inside,
       Return
  <2>4. ResumedAlive'
    BY <1>1 DEF SlotSound, WaitSound, ResumedAlive, getchar_pop, Inside,
       Return
  <2> QED
    BY <1>t, <2>1, <2>2, <2>3, <2>4
<1>2. ASSUME NEW k \in Counts, getchar_poll(k) PROVE TableInv'
  <2>1. SlotSound'
    BY <1>2 DEF SlotSound, ResumedAlive, getchar_poll, Inside, Return,
       wakeup_input_waiters, ConsoleWaiters, SetAll, woken_state,
       woken_reason, woken_pid
  <2>2. WaitSound'
    BY <1>2 DEF SlotSound, WaitSound, ResumedAlive, getchar_poll, Inside,
       Return, wakeup_input_waiters, ConsoleWaiters, SetAll, woken_state,
       woken_reason, woken_pid
  <2>3. ParentAlive'
    BY <1>2 DEF SlotSound, ParentAlive, ResumedAlive, getchar_poll, Inside,
       Return, wakeup_input_waiters, ConsoleWaiters, SetAll, woken_state,
       woken_reason, woken_pid
  <2>4. ResumedAlive'
    BY <1>2 DEF SlotSound, WaitSound, ResumedAlive, getchar_poll, Inside,
       Return, wakeup_input_waiters, ConsoleWaiters, SetAll, woken_state,
       woken_reason, woken_pid
  <2> QED
    BY <1>t, <2>1, <2>2, <2>3, <2>4
<1>3. CASE getchar_wait
  <2>1. SlotSound'
    BY <1>3 DEF SlotSound, ResumedAlive, getchar_wait, Inside, Block
  <2>2. WaitSound'
    BY <1>3 DEF SlotSound, WaitSound, ResumedAlive, getchar_wait, Inside,
       Block
  <2>3. ParentAlive'
    BY <1>3 DEF SlotSound, ParentAlive, ResumedAlive, getchar_wait, Inside,
       Block
  <2>4. ResumedAlive'
    BY <1>3 DEF SlotSound, WaitSound, ResumedAlive, getchar_wait, Inside,
       Block
  <2> QED
    BY <1>t, <2>1, <2>2, <2>3, <2>4
<1>4. ASSUME NEW t \in WaitPids, NEW child \in Slots,
             waitpid_collect(t, child)
      PROVE  TableInv'
  <2>1. SlotSound'
    BY <1>4 DEF SlotSound, ResumedAlive, waitpid_collect, WaitsFor,
       WaitedChildren, recycle_process_slot, SetAll
  <2>2. WaitSound'
    BY <1>4 DEF SlotSound, WaitSound, ResumedAlive, waitpid_collect, WaitsFor,
       WaitedChildren, recycle_process_slot, SetAll
  <2>3. ParentAlive'
    BY <1>4 DEF SlotSound, ParentAlive, ResumedAlive, waitpid_collect,
       WaitsFor, WaitedChildren, recycle_process_slot, SetAll
  <2>4. ResumedAlive'
    BY <1>4 DEF SlotSound, WaitSound, ResumedAlive, waitpid_collect, WaitsFor,
       WaitedChildren, recycle_process_slot, SetAll
  <2> QED
    BY <1>t, <2>1, <2>2, <2>3, <2>4
<1>5. ASSUME NEW t \in WaitPids, waitpid_none(t) PROVE TableInv'
  <2>1. SlotSound'
    BY <1>5 DEF SlotSound, ResumedAlive, waitpid_none, WaitsFor, Return
  <2>2. WaitSound'
    BY <1>5 DEF SlotSound, WaitSound, ResumedAlive, waitpid_none, WaitsFor,
       Return
  <2>3. ParentAlive'
    BY <1>5 DEF SlotSound, ParentAlive, ResumedAlive, waitpid_none, WaitsFor,
       Return
  <2>4. ResumedAlive'
    BY <1>5 DEF SlotSound, WaitSound, ResumedAlive, waitpid_none, WaitsFor,
       Return
  <2> QED
    BY <1>t, <2>1, <2>2, <2>3, <2>4
<1>6. ASSUME NEW t \in WaitPids, waitpid_wait(t) PROVE TableInv'
  <2>1. SlotSound'
    BY <1>6 DEF SlotSound, ResumedAlive, waitpid_wait, WaitsFor, Block,
       WaitedChildren
  <2>2. WaitSound'
    BY <1>6 DEF SlotSound, WaitSound, ResumedAlive, waitpid_wait, WaitsFor,
       Block, WaitedChildren
  <2>3. ParentAlive'
    BY <1>6 DEF SlotSound, ParentAlive, ResumedAlive, waitpid_wait, WaitsFor,
       Block, WaitedChildren
  <2>4. ResumedAlive'
    BY <1>6 DEF SlotSound, WaitSound, ResumedAlive, waitpid_wait, WaitsFor,
       Block, WaitedChildren
  <2> QED
    BY <1>t, <2>1, <2>2, <2>3, <2>4
<1>7. CASE ipc_recv_take
  <2>1. SlotSound'
    BY <1>7 DEF SlotSound, ResumedAlive, ipc_recv_take, Inside, Return
  <2>2. WaitSound'
    BY <1>7 DEF SlotSound, WaitSound, ResumedAlive, ipc_recv_take, Inside,
       Return
  <2>3. ParentAlive'
    BY <1>7 DEF SlotSound, ParentAlive, ResumedAlive, ipc_recv_take, Inside,
       Return
  <2>4. ResumedAlive'
    BY <1>7 DEF SlotSound, WaitSound, ResumedAlive, ipc_recv_take, Inside,
       Return
  <2> QED
    BY <1>t, <2>1, <2>2, <2>3, <2>4
<1>8. CASE ipc_recv_wait
  <2>1. SlotSound'
    BY <1>8 DEF SlotSound, ResumedAlive, ipc_recv_wait, Inside, Block
  <2>2. WaitSound'
    BY <1>8 DEF SlotSound, WaitSound, ResumedAlive, ipc_recv_wait, Inside,
       Block
  <2>3. ParentAlive'
    BY <1>8 DEF SlotSound, ParentAlive, ResumedAlive, ipc_recv_wait, Inside,
       Block
  <2>4. ResumedAlive'
    BY <1>8 DEF SlotSound, WaitSound, ResumedAlive, ipc_recv_wait, Inside,
       Block
  <2> QED
    BY <1>t, <2>1, <2>2, <2>3, <2>4
<1> QED
  BY <1>1, <1>2, <1>3, <1>4, <1>5, <1>6, <1>7, <1>8 DEF BlockingCall

LEMMA TableOtherCall == TableInv /\ OtherCall => TableInv'
<1> SUFFICES ASSUME TableInv, OtherCall PROVE TableInv'
  OBVIOUS
<1> USE TypeFacts, SlotNat DEF TableInv, TypeOK, Live, Blocking
<1>t. TypeOK'
  BY TypeOtherCall
<1>1. ASSUME NEW dst \in Slots, NEW m \in Messages, process_ipc_send(dst,
             m)
      PROVE  TableInv'
  <2>1. SlotSound'
    BY <1>1 DEF SlotSound, ResumedAlive, process_ipc_send, InUser,
       ReceiverWoken, SetAll, woken_state, woken_reason, woken_pid
  <2>2. WaitSound'
    BY <1>1 DEF SlotSound, WaitSound, ResumedAlive, process_ipc_send, InUser,
       ReceiverWoken, SetAll, woken_state, woken_reason, woken_pid
  <2>3. ParentAlive'
    BY <1>1 DEF SlotSound, ParentAlive, ResumedAlive, process_ipc_send,
       InUser, ReceiverWoken, SetAll, woken_state, woken_reason, woken_pid
  <2>4. ResumedAlive'
    BY <1>1 DEF SlotSound, WaitSound, ResumedAlive, process_ipc_send, InUser,
       ReceiverWoken, SetAll, woken_state, woken_reason, woken_pid
  <2> QED
    BY <1>t, <2>1, <2>2, <2>3, <2>4
<1>2. CASE exit_init
  <2>1. SlotSound'
    BY <1>2 DEF SlotSound, ResumedAlive, exit_init, InUser
  <2>2. WaitSound'
    BY <1>2 DEF SlotSound, WaitSound, ResumedAlive, exit_init, InUser
  <2>3. ParentAlive'
    BY <1>2 DEF SlotSound, ParentAlive, ResumedAlive, exit_init, InUser
  <2>4. ResumedAlive'
    BY <1>2 DEF SlotSound, WaitSound, ResumedAlive, exit_init, InUser
  <2> QED
    BY <1>t, <2>1, <2>2, <2>3, <2>4
<1>3. CASE syscall_handle_exit
  <2>1. SlotSound'
    BY <1>3 DEF SlotSound, ResumedAlive, syscall_handle_exit, InUser, Die,
       orphan_children, notify_child_exit, SetAll, woken_state, woken_reason,
       woken_pid
  <2>2. WaitSound'
    BY <1>3 DEF SlotSound, WaitSound, ResumedAlive, syscall_handle_exit,
       InUser, Die, orphan_children, notify_child_exit, SetAll, woken_state,
       woken_reason, woken_pid
  <2>3. ParentAlive'
    BY <1>3 DEF SlotSound, ParentAlive, ResumedAlive, syscall_handle_exit,
       InUser, Die, orphan_children, notify_child_exit, SetAll, woken_state,
       woken_reason, woken_pid
  <2>4. ResumedAlive'
    BY <1>3 DEF SlotSound, WaitSound, ResumedAlive, syscall_handle_exit,
       InUser, Die, orphan_children, notify_child_exit, SetAll, woken_state,
       woken_reason, woken_pid
  <2> QED
    BY <1>t, <2>1, <2>2, <2>3, <2>4
<1>4. CASE kill_self
  <2>1. SlotSound'
    BY <1>4 DEF SlotSound, ResumedAlive, kill_self, InUser, Die,
       orphan_children, notify_child_exit, SetAll, woken_state, woken_reason,
       woken_pid
  <2>2. WaitSound'
    BY <1>4 DEF SlotSound, WaitSound, ResumedAlive, kill_self, InUser, Die,
       orphan_children, notify_child_exit, SetAll, woken_state, woken_reason,
       woken_pid
  <2>3. ParentAlive'
    BY <1>4 DEF SlotSound, ParentAlive, ResumedAlive, kill_self, InUser, Die,
       orphan_children, notify_child_exit, SetAll, woken_state, woken_reason,
       woken_pid
  <2>4. ResumedAlive'
    BY <1>4 DEF SlotSound, WaitSound, ResumedAlive, kill_self, InUser, Die,
       orphan_children, notify_child_exit, SetAll, woken_state, woken_reason,
       woken_pid
  <2> QED
    BY <1>t, <2>1, <2>2, <2>3, <2>4
<1>5. ASSUME NEW t \in Slots, kill_other(t) PROVE TableInv'
  <2>1. SlotSound'
    BY <1>5 DEF SlotSound, ResumedAlive, kill_other, InUser,
       find_process_by_pid, recycle_process_slot, orphan_children,
       notify_child_exit, SetAll, woken_state, woken_reason, woken_pid
  <2>2. WaitSound'
    BY <1>5 DEF SlotSound, WaitSound, ResumedAlive, kill_other, InUser,
       find_process_by_pid, recycle_process_slot, orphan_children,
       notify_child_exit, SetAll, woken_state, woken_reason, woken_pid
  <2>3. ParentAlive'
    BY <1>5 DEF SlotSound, ParentAlive, ResumedAlive, kill_other, InUser,
       find_process_by_pid, recycle_process_slot, orphan_children,
       notify_child_exit, SetAll, woken_state, woken_reason, woken_pid
  <2>4. ResumedAlive'
    BY <1>5 DEF SlotSound, WaitSound, ResumedAlive, kill_other, InUser,
       find_process_by_pid, recycle_process_slot, orphan_children,
       notify_child_exit, SetAll, woken_state, woken_reason, woken_pid
  <2> QED
    BY <1>t, <2>1, <2>2, <2>3, <2>4
<1>6. ASSUME NEW child \in Slots,
             process_fork(child) \/ syscall_handle_clone(child)
      PROVE  TableInv'
  <2>0. InUser /\ alloc_proc_slot(child) /\ NewProcess(child)
    BY <1>6 DEF process_fork, syscall_handle_clone
  <2>1. SlotSound'
    BY <2>0 DEF SlotSound, ResumedAlive, InUser, alloc_proc_slot, FreeSlots,
       NewProcess, Reapable, SetAll
  <2>2. WaitSound'
    BY <2>0 DEF SlotSound, WaitSound, ResumedAlive, InUser, alloc_proc_slot,
       FreeSlots, NewProcess, Reapable, SetAll
  <2>3. ParentAlive'
    BY <2>0 DEF SlotSound, ParentAlive, ResumedAlive, InUser, alloc_proc_slot,
       FreeSlots, NewProcess, Reapable, SetAll
  <2>4. ResumedAlive'
    BY <2>0 DEF SlotSound, WaitSound, ResumedAlive, InUser, alloc_proc_slot,
       FreeSlots, NewProcess, Reapable, SetAll
  <2> QED
    BY <1>t, <2>1, <2>2, <2>3, <2>4
<1>7. CASE process_exec
  <2>1. SlotSound'
    BY <1>7 DEF SlotSound, ResumedAlive, process_exec, InUser
  <2>2. WaitSound'
    BY <1>7 DEF SlotSound, WaitSound, ResumedAlive, process_exec, InUser
  <2>3. ParentAlive'
    BY <1>7 DEF SlotSound, ParentAlive, ResumedAlive, process_exec, InUser
  <2>4. ResumedAlive'
    BY <1>7 DEF SlotSound, WaitSound, ResumedAlive, process_exec, InUser
  <2> QED
    BY <1>t, <2>1, <2>2, <2>3, <2>4
<1> QED
  BY <1>1, <1>2, <1>3, <1>4, <1>5, <1>6, <1>7 DEF OtherCall

LEMMA TableNext == TableInv /\ [Next]_vars => TableInv'
<1>1. ASSUME TableInv, UNCHANGED vars PROVE TableInv'
  BY <1>1 DEF TableInv, TypeOK, SlotSound, WaitSound, ParentAlive,
     ResumedAlive, vars, slotVars
<1> QED
  BY <1>1, TableKernelStep, TableTimerStep, TableBlockingCall, TableOtherCall
     DEF Next, Halted

LEMMA TableInvariant == Spec => []TableInv
BY InitTable, TableNext, PTL DEF Spec

\* A parent_pid always names a live process.
THEOREM ParentAliveSafe == Spec => []ParentAlive
BY TableInvariant, PTL DEF TableInv

\* yield() only returns into a live process, in user mode or in the loop of
\* the call it blocked in: the context of a dead process is never resumed.
THEOREM ResumedAliveSafe == Spec => []ResumedAlive
BY TableInvariant, PTL DEF TableInv

-----------------------------------------------------------------------------
(* NoLostChildWakeup *)

LEMMA InitChildWakeup == Init => NoLostChildWakeup
BY TypeFacts, SlotNat, SliceAssumption
   DEF Init, NoLostChildWakeup, NoMessage, Slots

LEMMA ChildWakeupKernelStep ==
    TableInv /\ NoLostChildWakeup /\ KernelStep => NoLostChildWakeup'
<1> SUFFICES ASSUME TableInv, NoLostChildWakeup, KernelStep
             PROVE  NoLostChildWakeup'
  OBVIOUS
<1> USE TypeFacts, SlotNat DEF TableInv, TypeOK, Live, Blocking
<1>1. CASE reap_exited_processes
  BY <1>1 DEF SlotSound, WaitSound, ParentAlive, ResumedAlive,
     NoLostChildWakeup, Awaits, reap_exited_processes, recycle_process_slot,
     SetAll, Reapable
<1>2. CASE yield_idle
  BY <1>2 DEF SlotSound, WaitSound, ParentAlive, ResumedAlive,
     NoLostChildWakeup, Awaits, yield_idle, slotVars
<1>3. CASE yield_same
  BY <1>3 DEF SlotSound, WaitSound, ParentAlive, ResumedAlive,
     NoLostChildWakeup, Awaits, yield_same, ScanFinds, Candidates
<1>4. ASSUME NEW next \in Slots, yield_switch(next) PROVE NoLostChildWakeup'
  BY <1>4 DEF SlotSound, WaitSound, ParentAlive, ResumedAlive,
     NoLostChildWakeup, Awaits, yield_switch, ScanFinds, Candidates
<1> QED
  BY <1>1, <1>2, <1>3, <1>4 DEF KernelStep

LEMMA ChildWakeupTimerStep ==
    TableInv /\ NoLostChildWakeup /\ TimerStep => NoLostChildWakeup'
<1> SUFFICES ASSUME TableInv, NoLostChildWakeup, TimerStep
             PROVE  NoLostChildWakeup'
  OBVIOUS
<1> USE TypeFacts, SlotNat DEF TableInv, TypeOK, Live, Blocking
<1>1. ASSUME NEW k \in Counts, TimerInUser(k) PROVE NoLostChildWakeup'
  BY <1>1 DEF SlotSound, WaitSound, ParentAlive, ResumedAlive,
     NoLostChildWakeup, Awaits, TimerInUser, handle_timer, poll_console_input,
     wakeup_input_waiters, ConsoleWaiters, SetAll, woken_state, woken_reason,
     woken_pid
<1>2. ASSUME NEW k \in Counts, TimerInWfi(k) PROVE NoLostChildWakeup'
  BY <1>2 DEF SlotSound, WaitSound, ParentAlive, ResumedAlive,
     NoLostChildWakeup, Awaits, TimerInWfi, handle_timer, poll_console_input,
     wakeup_input_waiters, ConsoleWaiters, SetAll, woken_state, woken_reason,
     woken_pid
<1> QED
  BY <1>1, <1>2 DEF TimerStep

LEMMA ChildWakeupBlockingCall ==
    TableInv /\ NoLostChildWakeup /\ BlockingCall => NoLostChildWakeup'
<1> SUFFICES ASSUME TableInv, NoLostChildWakeup, BlockingCall
             PROVE  NoLostChildWakeup'
  OBVIOUS
<1> USE TypeFacts, SlotNat DEF TableInv, TypeOK, Live, Blocking
<1>1. CASE getchar_pop
  BY <1>1 DEF SlotSound, WaitSound, ParentAlive, ResumedAlive,
     NoLostChildWakeup, Awaits, getchar_pop, Inside, Return
<1>2. ASSUME NEW k \in Counts, getchar_poll(k) PROVE NoLostChildWakeup'
  BY <1>2 DEF SlotSound, WaitSound, ParentAlive, ResumedAlive,
     NoLostChildWakeup, Awaits, getchar_poll, Inside, Return,
     wakeup_input_waiters, ConsoleWaiters, SetAll, woken_state, woken_reason,
     woken_pid
<1>3. CASE getchar_wait
  BY <1>3 DEF SlotSound, WaitSound, ParentAlive, ResumedAlive,
     NoLostChildWakeup, Awaits, getchar_wait, Inside, Block
<1>4. ASSUME NEW t \in WaitPids, NEW child \in Slots,
             waitpid_collect(t, child)
      PROVE  NoLostChildWakeup'
  BY <1>4 DEF SlotSound, WaitSound, ParentAlive, ResumedAlive,
     NoLostChildWakeup, Awaits, waitpid_collect, WaitsFor, WaitedChildren,
     recycle_process_slot, SetAll
<1>5. ASSUME NEW t \in WaitPids, waitpid_none(t) PROVE NoLostChildWakeup'
  BY <1>5 DEF SlotSound, WaitSound, ParentAlive, ResumedAlive,
     NoLostChildWakeup, Awaits, waitpid_none, WaitsFor, Return
<1>6. ASSUME NEW t \in WaitPids, waitpid_wait(t) PROVE NoLostChildWakeup'
  <2>1. /\ state' = [state EXCEPT ![current_proc] = "WAITTING"]
        /\ target_pid' = [target_pid EXCEPT ![current_proc] = t]
        /\ wait_reason' = [wait_reason EXCEPT ![current_proc] = "CHILD_EXIT"]
        /\ UNCHANGED <<parent_pid, current_proc>>
        /\ cpu = "run" /\ state[current_proc] = "RUNNABLE"
        /\ pid[current_proc] = current_proc
    BY <1>6 DEF waitpid_wait, WaitsFor, Block, ResumedAlive
  <2>2. \A s \in Slots : Awaits(current_proc, s)' <=> s \in WaitedChildren(t)
    BY <2>1 DEF Awaits, WaitedChildren, SlotSound
  <2>3. \A s \in WaitedChildren(t) : state'[s] \in Live
    BY <1>6, <2>1 DEF waitpid_wait, WaitedChildren, States
  <2>4. WaitedChildren(t) \subseteq Slots /\ WaitedChildren(t) # {}
    BY <1>6 DEF waitpid_wait, WaitedChildren
  <2>5. ASSUME NEW p \in Slots, p # current_proc
        PROVE  \A s \in Slots : Awaits(p, s)' <=> Awaits(p, s)
    BY <2>1, <2>5 DEF Awaits
  <2>6. \A s \in Slots : state[s] \in Live => state'[s] \in Live
    BY <2>1
  <2> QED
    BY <2>1, <2>2, <2>3, <2>4, <2>5, <2>6 DEF NoLostChildWakeup
<1>7. CASE ipc_recv_take
  BY <1>7 DEF SlotSound, WaitSound, ParentAlive, ResumedAlive,
     NoLostChildWakeup, Awaits, ipc_recv_take, Inside, Return
<1>8. CASE ipc_recv_wait
  BY <1>8 DEF SlotSound, WaitSound, ParentAlive, ResumedAlive,
     NoLostChildWakeup, Awaits, ipc_recv_wait, Inside, Block
<1> QED
  BY <1>1, <1>2, <1>3, <1>4, <1>5, <1>6, <1>7, <1>8 DEF BlockingCall

LEMMA ChildWakeupOtherCall ==
    TableInv /\ NoLostChildWakeup /\ OtherCall => NoLostChildWakeup'
<1> SUFFICES ASSUME TableInv, NoLostChildWakeup, OtherCall
             PROVE  NoLostChildWakeup'
  OBVIOUS
<1> USE TypeFacts, SlotNat DEF TableInv, TypeOK, Live, Blocking
<1>1. ASSUME NEW dst \in Slots, NEW m \in Messages, process_ipc_send(dst,
             m)
      PROVE  NoLostChildWakeup'
  BY <1>1 DEF SlotSound, WaitSound, ParentAlive, ResumedAlive,
     NoLostChildWakeup, Awaits, process_ipc_send, InUser, ReceiverWoken,
     SetAll, woken_state, woken_reason, woken_pid
<1>2. CASE exit_init
  BY <1>2 DEF SlotSound, WaitSound, ParentAlive, ResumedAlive,
     NoLostChildWakeup, Awaits, exit_init, InUser
<1>3. CASE syscall_handle_exit
  BY <1>3 DEF SlotSound, WaitSound, ParentAlive, ResumedAlive,
     NoLostChildWakeup, Awaits, syscall_handle_exit, InUser, Die,
     orphan_children, notify_child_exit, SetAll, woken_state, woken_reason,
     woken_pid
<1>4. CASE kill_self
  <2>1. /\ cpu = "run" /\ current_proc # 0
        /\ state[current_proc] = "RUNNABLE" /\ pid[current_proc] = current_proc
    BY <1>4 DEF kill_self, InUser, ResumedAlive, SlotSound
  <2>2. SUFFICES ASSUME NEW p \in Slots, state'[p] = "WAITTING",
                        wait_reason'[p] = "CHILD_EXIT"
                 PROVE  /\ \E s \in Slots : Awaits(p, s)'
                        /\ \A s \in Slots : Awaits(p, s)' => state'[s] \in Live
    BY DEF NoLostChildWakeup
  <2>3. /\ p # current_proc /\ p \notin notify_child_exit(current_proc)
        /\ state[p] = "WAITTING" /\ wait_reason[p] = "CHILD_EXIT"
    BY <1>4, <2>2
       DEF kill_self, Die, woken_state, woken_reason, SetAll
  <2>4. ~Awaits(p, current_proc) /\ p # 0
    BY <2>1, <2>3 DEF Awaits, notify_child_exit, WaitSound, SlotSound
  <2>5. \A s \in Slots : Awaits(p, s)' <=> Awaits(p, s) /\ s # current_proc
    BY <1>4, <2>1, <2>3, <2>4 DEF kill_self, Die, orphan_children, Awaits,
       woken_state, SetAll, notify_child_exit
  <2>6. \A s \in Slots : state[s] \in Live /\ s # current_proc
                           => state'[s] \in Live
    BY <1>4 DEF kill_self, Die, woken_state, SetAll
  <2> QED
    BY <2>1, <2>3, <2>4, <2>5, <2>6 DEF NoLostChildWakeup
<1>5. ASSUME NEW t \in Slots, kill_other(t) PROVE NoLostChildWakeup'
  BY <1>5 DEF SlotSound, WaitSound, ParentAlive, ResumedAlive,
     NoLostChildWakeup, Awaits, kill_other, InUser, find_process_by_pid,
     recycle_process_slot, orphan_children, notify_child_exit, SetAll,
     woken_state, woken_reason, woken_pid
<1>6. ASSUME NEW child \in Slots,
             process_fork(child) \/ syscall_handle_clone(child)
      PROVE  NoLostChildWakeup'
  <2>0. InUser /\ alloc_proc_slot(child) /\ NewProcess(child)
    BY <1>6 DEF process_fork, syscall_handle_clone
  <2>1. /\ cpu = "run" /\ current_proc # 0
        /\ state[current_proc] = "RUNNABLE" /\ pid[current_proc] = current_proc
    BY <2>0 DEF InUser, ResumedAlive, SlotSound
  <2>2. SUFFICES ASSUME NEW p \in Slots, state'[p] = "WAITTING",
                        wait_reason'[p] = "CHILD_EXIT"
                 PROVE  /\ \E s \in Slots : Awaits(p, s)'
                        /\ \A s \in Slots : Awaits(p, s)' => state'[s] \in Live
    BY DEF NoLostChildWakeup
  <2>3. /\ p # current_proc /\ p # 0 /\ p # child
        /\ state[p] = "WAITTING" /\ wait_reason[p] = "CHILD_EXIT"
    BY <2>0, <2>1, <2>2 DEF NewProcess, SetAll, SlotSound
  <2>4. state[child] \notin Live /\ parent_pid[child] = 0
    BY <2>0 DEF alloc_proc_slot, FreeSlots, Reapable, SlotSound
  <2>5. \A s \in Slots : Awaits(p, s)' <=> Awaits(p, s)
    BY <2>0, <2>1, <2>3, <2>4 DEF NewProcess, Awaits, SetAll, Reapable
  <2>6. \A s \in Slots : state[s] \in Live => state'[s] \in Live
    BY <2>0 DEF NewProcess, SetAll, Reapable
  <2> QED
    BY <2>1, <2>3, <2>5, <2>6 DEF NoLostChildWakeup
<1>7. CASE process_exec
  BY <1>7 DEF SlotSound, WaitSound, ParentAlive, ResumedAlive,
     NoLostChildWakeup, Awaits, process_exec, InUser
<1> QED
  BY <1>1, <1>2, <1>3, <1>4, <1>5, <1>6, <1>7 DEF OtherCall

LEMMA ChildWakeupNext ==
    TableInv /\ NoLostChildWakeup /\ [Next]_vars => NoLostChildWakeup'
<1>1. ASSUME NoLostChildWakeup, UNCHANGED vars PROVE NoLostChildWakeup'
  BY <1>1 DEF NoLostChildWakeup, Awaits, vars, slotVars
<1> QED
  BY <1>1, ChildWakeupKernelStep, ChildWakeupTimerStep, ChildWakeupBlockingCall,
     ChildWakeupOtherCall DEF Next, Halted

\* No exit, kill, reap or reuse of a slot leaves a process asleep in waitpid
\* without a live child to wait for.
THEOREM ChildWakeupSafe == Spec => []NoLostChildWakeup
BY TableInvariant, InitChildWakeup, ChildWakeupNext, PTL DEF Spec

-----------------------------------------------------------------------------
(* NoLostInputWakeup *)

LEMMA InitInputWakeup == Init => NoLostInputWakeup
BY TypeFacts, SlotNat, SliceAssumption
   DEF Init, NoLostInputWakeup, NoMessage, Slots

LEMMA InputWakeupKernelStep ==
    TableInv /\ NoLostInputWakeup /\ KernelStep => NoLostInputWakeup'
<1> SUFFICES ASSUME TableInv, NoLostInputWakeup, KernelStep
             PROVE  NoLostInputWakeup'
  OBVIOUS
<1> USE TypeFacts, SlotNat DEF TableInv, TypeOK, Live, Blocking
<1>1. CASE reap_exited_processes
  BY <1>1, InputBufAssumption DEF SlotSound, WaitSound, ResumedAlive,
     NoLostInputWakeup, reap_exited_processes, recycle_process_slot, SetAll,
     Reapable, Counts
<1>2. CASE yield_idle
  BY <1>2, InputBufAssumption DEF SlotSound, WaitSound, ResumedAlive,
     NoLostInputWakeup, yield_idle, slotVars, Counts
<1>3. CASE yield_same
  BY <1>3, InputBufAssumption DEF SlotSound, WaitSound, ResumedAlive,
     NoLostInputWakeup, yield_same, ScanFinds, Candidates, Counts
<1>4. ASSUME NEW next \in Slots, yield_switch(next) PROVE NoLostInputWakeup'
  BY <1>4, InputBufAssumption DEF SlotSound, WaitSound, ResumedAlive,
     NoLostInputWakeup, yield_switch, ScanFinds, Candidates, Counts
<1> QED
  BY <1>1, <1>2, <1>3, <1>4 DEF KernelStep

LEMMA InputWakeupTimerStep ==
    TableInv /\ NoLostInputWakeup /\ TimerStep => NoLostInputWakeup'
<1> SUFFICES ASSUME TableInv, NoLostInputWakeup, TimerStep
             PROVE  NoLostInputWakeup'
  OBVIOUS
<1> USE TypeFacts, SlotNat DEF TableInv, TypeOK, Live, Blocking
<1>1. ASSUME NEW k \in Counts, TimerInUser(k) PROVE NoLostInputWakeup'
  BY <1>1, InputBufAssumption DEF SlotSound, WaitSound, ResumedAlive,
     NoLostInputWakeup, TimerInUser, handle_timer, poll_console_input,
     wakeup_input_waiters, ConsoleWaiters, SetAll, woken_state, woken_reason,
     woken_pid, Counts
<1>2. ASSUME NEW k \in Counts, TimerInWfi(k) PROVE NoLostInputWakeup'
  BY <1>2, InputBufAssumption DEF SlotSound, WaitSound, ResumedAlive,
     NoLostInputWakeup, TimerInWfi, handle_timer, poll_console_input,
     wakeup_input_waiters, ConsoleWaiters, SetAll, woken_state, woken_reason,
     woken_pid, Counts
<1> QED
  BY <1>1, <1>2 DEF TimerStep

LEMMA InputWakeupBlockingCall ==
    TableInv /\ NoLostInputWakeup /\ BlockingCall => NoLostInputWakeup'
<1> SUFFICES ASSUME TableInv, NoLostInputWakeup, BlockingCall
             PROVE  NoLostInputWakeup'
  OBVIOUS
<1> USE TypeFacts, SlotNat DEF TableInv, TypeOK, Live, Blocking
<1>1. CASE getchar_pop
  BY <1>1, InputBufAssumption DEF SlotSound, WaitSound, ResumedAlive,
     NoLostInputWakeup, getchar_pop, Inside, Return, Counts
<1>2. ASSUME NEW k \in Counts, getchar_poll(k) PROVE NoLostInputWakeup'
  BY <1>2, InputBufAssumption DEF SlotSound, WaitSound, ResumedAlive,
     NoLostInputWakeup, getchar_poll, Inside, Return, wakeup_input_waiters,
     ConsoleWaiters, SetAll, woken_state, woken_reason, woken_pid, Counts
<1>3. CASE getchar_wait
  BY <1>3, InputBufAssumption DEF SlotSound, WaitSound, ResumedAlive,
     NoLostInputWakeup, getchar_wait, Inside, Block, Counts
<1>4. ASSUME NEW t \in WaitPids, NEW child \in Slots,
             waitpid_collect(t, child)
      PROVE  NoLostInputWakeup'
  BY <1>4, InputBufAssumption DEF SlotSound, WaitSound, ResumedAlive,
     NoLostInputWakeup, waitpid_collect, WaitsFor, WaitedChildren,
     recycle_process_slot, SetAll, Counts
<1>5. ASSUME NEW t \in WaitPids, waitpid_none(t) PROVE NoLostInputWakeup'
  BY <1>5, InputBufAssumption DEF SlotSound, WaitSound, ResumedAlive,
     NoLostInputWakeup, waitpid_none, WaitsFor, Return, Counts
<1>6. ASSUME NEW t \in WaitPids, waitpid_wait(t) PROVE NoLostInputWakeup'
  BY <1>6, InputBufAssumption DEF SlotSound, WaitSound, ResumedAlive,
     NoLostInputWakeup, waitpid_wait, WaitsFor, Block, WaitedChildren, Counts
<1>7. CASE ipc_recv_take
  BY <1>7, InputBufAssumption DEF SlotSound, WaitSound, ResumedAlive,
     NoLostInputWakeup, ipc_recv_take, Inside, Return, Counts
<1>8. CASE ipc_recv_wait
  BY <1>8, InputBufAssumption DEF SlotSound, WaitSound, ResumedAlive,
     NoLostInputWakeup, ipc_recv_wait, Inside, Block, Counts
<1> QED
  BY <1>1, <1>2, <1>3, <1>4, <1>5, <1>6, <1>7, <1>8 DEF BlockingCall

LEMMA InputWakeupOtherCall ==
    TableInv /\ NoLostInputWakeup /\ OtherCall => NoLostInputWakeup'
<1> SUFFICES ASSUME TableInv, NoLostInputWakeup, OtherCall
             PROVE  NoLostInputWakeup'
  OBVIOUS
<1> USE TypeFacts, SlotNat DEF TableInv, TypeOK, Live, Blocking
<1>1. ASSUME NEW dst \in Slots, NEW m \in Messages, process_ipc_send(dst,
             m)
      PROVE  NoLostInputWakeup'
  BY <1>1, InputBufAssumption DEF SlotSound, WaitSound, ResumedAlive,
     NoLostInputWakeup, process_ipc_send, InUser, ReceiverWoken, SetAll,
     woken_state, woken_reason, woken_pid, Counts
<1>2. CASE exit_init
  BY <1>2, InputBufAssumption DEF SlotSound, WaitSound, ResumedAlive,
     NoLostInputWakeup, exit_init, InUser, Counts
<1>3. CASE syscall_handle_exit
  BY <1>3, InputBufAssumption DEF SlotSound, WaitSound, ResumedAlive,
     NoLostInputWakeup, syscall_handle_exit, InUser, Die, orphan_children,
     notify_child_exit, SetAll, woken_state, woken_reason, woken_pid, Counts
<1>4. CASE kill_self
  BY <1>4, InputBufAssumption DEF SlotSound, WaitSound, ResumedAlive,
     NoLostInputWakeup, kill_self, InUser, Die, orphan_children,
     notify_child_exit, SetAll, woken_state, woken_reason, woken_pid, Counts
<1>5. ASSUME NEW t \in Slots, kill_other(t) PROVE NoLostInputWakeup'
  BY <1>5, InputBufAssumption DEF SlotSound, WaitSound, ResumedAlive,
     NoLostInputWakeup, kill_other, InUser, find_process_by_pid,
     recycle_process_slot, orphan_children, notify_child_exit, SetAll,
     woken_state, woken_reason, woken_pid, Counts
<1>6. ASSUME NEW child \in Slots,
             process_fork(child) \/ syscall_handle_clone(child)
      PROVE  NoLostInputWakeup'
  <2>0. InUser /\ alloc_proc_slot(child) /\ NewProcess(child)
    BY <1>6 DEF process_fork, syscall_handle_clone
  <2> QED
    BY <2>0, InputBufAssumption DEF SlotSound, WaitSound, ResumedAlive,
       NoLostInputWakeup, InUser, alloc_proc_slot, FreeSlots, NewProcess,
       Reapable, SetAll, Counts
<1>7. CASE process_exec
  BY <1>7, InputBufAssumption DEF SlotSound, WaitSound, ResumedAlive,
     NoLostInputWakeup, process_exec, InUser, Counts
<1> QED
  BY <1>1, <1>2, <1>3, <1>4, <1>5, <1>6, <1>7 DEF OtherCall

LEMMA InputWakeupNext ==
    TableInv /\ NoLostInputWakeup /\ [Next]_vars => NoLostInputWakeup'
<1>1. ASSUME NoLostInputWakeup, UNCHANGED vars PROVE NoLostInputWakeup'
  BY <1>1 DEF NoLostInputWakeup, vars, slotVars
<1> QED
  BY <1>1, InputWakeupKernelStep, InputWakeupTimerStep, InputWakeupBlockingCall,
     InputWakeupOtherCall DEF Next, Halted

\* Input and messages always wake the processes that sleep waiting for them.
THEOREM InputWakeupSafe == Spec => []NoLostInputWakeup
BY TableInvariant, InitInputWakeup, InputWakeupNext, PTL DEF Spec

-----------------------------------------------------------------------------
(* RunningHasSlice *)

LEMMA InitSlice == Init => RunningHasSlice
BY TypeFacts, SlotNat, SliceAssumption
   DEF Init, RunningHasSlice, NoMessage, Slots

LEMMA SliceKernelStep ==
    TableInv /\ RunningHasSlice /\ KernelStep => RunningHasSlice'
<1> SUFFICES ASSUME TableInv, RunningHasSlice, KernelStep
             PROVE  RunningHasSlice'
  OBVIOUS
<1> USE TypeFacts, SlotNat DEF TableInv, TypeOK, Live, Blocking
<1>1. CASE reap_exited_processes
  BY <1>1, SliceAssumption DEF SlotSound, ResumedAlive, RunningHasSlice,
     reap_exited_processes, recycle_process_slot, SetAll, Reapable
<1>2. CASE yield_idle
  BY <1>2, SliceAssumption DEF SlotSound, ResumedAlive, RunningHasSlice,
     yield_idle, slotVars
<1>3. CASE yield_same
  <2>1. time_slice'[current_proc] > 0
    BY <1>3, SliceAssumption DEF yield_same, Slices
  <2> QED
    BY <1>3, <2>1 DEF yield_same, RunningHasSlice
<1>4. ASSUME NEW next \in Slots, yield_switch(next) PROVE RunningHasSlice'
  BY <1>4, SliceAssumption DEF SlotSound, ResumedAlive, RunningHasSlice,
     yield_switch, ScanFinds, Candidates
<1> QED
  BY <1>1, <1>2, <1>3, <1>4 DEF KernelStep

LEMMA SliceTimerStep ==
    TableInv /\ RunningHasSlice /\ TimerStep => RunningHasSlice'
<1> SUFFICES ASSUME TableInv, RunningHasSlice, TimerStep
             PROVE  RunningHasSlice'
  OBVIOUS
<1> USE TypeFacts, SlotNat DEF TableInv, TypeOK, Live, Blocking
<1>1. ASSUME NEW k \in Counts, TimerInUser(k) PROVE RunningHasSlice'
  <2>1. /\ state[current_proc] = "RUNNABLE"
        /\ pid[current_proc] = current_proc /\ current_proc > 0
    BY <1>1 DEF TimerInUser, ResumedAlive, SlotSound
  <2>2. state'[current_proc] = "RUNNABLE"
    BY <1>1, <2>1 DEF TimerInUser, handle_timer, poll_console_input,
       woken_state, SetAll
  <2>3. SliceLeft \in Nat
    BY SliceAssumption DEF SliceLeft, Slices
  <2>4. Ticks(state')
    BY <2>1, <2>2 DEF Ticks
  <2>5. /\ time_slice'[current_proc] = SliceLeft
        /\ need_resched' = (need_resched \/ SliceLeft = 0)
    BY <1>1, <2>4 DEF TimerInUser, handle_timer, scheduler_on_timer_tick
  <2>6. current_proc' = current_proc
    BY <1>1 DEF TimerInUser, handle_timer
  <2>7. cpu' = "run" => ~need_resched'
    BY <1>1 DEF TimerInUser
  <2>8. ~need_resched' => SliceLeft # 0
    BY <2>5
  <2>9. SliceLeft # 0 => SliceLeft > 0
    BY <2>3
  <2> QED
    BY <2>5, <2>6, <2>7, <2>8, <2>9 DEF RunningHasSlice
<1>2. ASSUME NEW k \in Counts, TimerInWfi(k) PROVE RunningHasSlice'
  BY <1>2, SliceAssumption DEF SlotSound, ResumedAlive, RunningHasSlice,
     TimerInWfi, handle_timer, scheduler_on_timer_tick, Ticks, SliceLeft,
     Slices, poll_console_input, wakeup_input_waiters, ConsoleWaiters, SetAll,
     woken_state, woken_reason, woken_pid
<1> QED
  BY <1>1, <1>2 DEF TimerStep

LEMMA SliceBlockingCall ==
    TableInv /\ RunningHasSlice /\ BlockingCall => RunningHasSlice'
<1> SUFFICES ASSUME TableInv, RunningHasSlice, BlockingCall
             PROVE  RunningHasSlice'
  OBVIOUS
<1> USE TypeFacts, SlotNat DEF TableInv, TypeOK, Live, Blocking
<1>1. CASE getchar_pop
  BY <1>1, SliceAssumption DEF SlotSound, ResumedAlive, RunningHasSlice,
     getchar_pop, Inside, Return
<1>2. ASSUME NEW k \in Counts, getchar_poll(k) PROVE RunningHasSlice'
  BY <1>2, SliceAssumption DEF SlotSound, ResumedAlive, RunningHasSlice,
     getchar_poll, Inside, Return, wakeup_input_waiters, ConsoleWaiters,
     SetAll, woken_state, woken_reason, woken_pid
<1>3. CASE getchar_wait
  BY <1>3, SliceAssumption DEF SlotSound, ResumedAlive, RunningHasSlice,
     getchar_wait, Inside, Block
<1>4. ASSUME NEW t \in WaitPids, NEW child \in Slots,
             waitpid_collect(t, child)
      PROVE  RunningHasSlice'
  BY <1>4, SliceAssumption DEF SlotSound, ResumedAlive, RunningHasSlice,
     waitpid_collect, WaitsFor, WaitedChildren, recycle_process_slot, SetAll
<1>5. ASSUME NEW t \in WaitPids, waitpid_none(t) PROVE RunningHasSlice'
  BY <1>5, SliceAssumption DEF SlotSound, ResumedAlive, RunningHasSlice,
     waitpid_none, WaitsFor, Return
<1>6. ASSUME NEW t \in WaitPids, waitpid_wait(t) PROVE RunningHasSlice'
  BY <1>6, SliceAssumption DEF SlotSound, ResumedAlive, RunningHasSlice,
     waitpid_wait, WaitsFor, Block, WaitedChildren
<1>7. CASE ipc_recv_take
  BY <1>7, SliceAssumption DEF SlotSound, ResumedAlive, RunningHasSlice,
     ipc_recv_take, Inside, Return
<1>8. CASE ipc_recv_wait
  BY <1>8, SliceAssumption DEF SlotSound, ResumedAlive, RunningHasSlice,
     ipc_recv_wait, Inside, Block
<1> QED
  BY <1>1, <1>2, <1>3, <1>4, <1>5, <1>6, <1>7, <1>8 DEF BlockingCall

LEMMA SliceOtherCall ==
    TableInv /\ RunningHasSlice /\ OtherCall => RunningHasSlice'
<1> SUFFICES ASSUME TableInv, RunningHasSlice, OtherCall
             PROVE  RunningHasSlice'
  OBVIOUS
<1> USE TypeFacts, SlotNat DEF TableInv, TypeOK, Live, Blocking
<1>1. ASSUME NEW dst \in Slots, NEW m \in Messages, process_ipc_send(dst,
             m)
      PROVE  RunningHasSlice'
  BY <1>1, SliceAssumption DEF SlotSound, ResumedAlive, RunningHasSlice,
     process_ipc_send, InUser, ReceiverWoken, SetAll, woken_state,
     woken_reason, woken_pid
<1>2. CASE exit_init
  BY <1>2, SliceAssumption DEF SlotSound, ResumedAlive, RunningHasSlice,
     exit_init, InUser
<1>3. CASE syscall_handle_exit
  BY <1>3, SliceAssumption DEF SlotSound, ResumedAlive, RunningHasSlice,
     syscall_handle_exit, InUser, Die, orphan_children, notify_child_exit,
     SetAll, woken_state, woken_reason, woken_pid
<1>4. CASE kill_self
  BY <1>4, SliceAssumption DEF SlotSound, ResumedAlive, RunningHasSlice,
     kill_self, InUser, Die, orphan_children, notify_child_exit, SetAll,
     woken_state, woken_reason, woken_pid
<1>5. ASSUME NEW t \in Slots, kill_other(t) PROVE RunningHasSlice'
  BY <1>5, SliceAssumption DEF SlotSound, ResumedAlive, RunningHasSlice,
     kill_other, InUser, find_process_by_pid, recycle_process_slot,
     orphan_children, notify_child_exit, SetAll, woken_state, woken_reason,
     woken_pid
<1>6. ASSUME NEW child \in Slots,
             process_fork(child) \/ syscall_handle_clone(child)
      PROVE  RunningHasSlice'
  <2>0. InUser /\ alloc_proc_slot(child) /\ NewProcess(child)
    BY <1>6 DEF process_fork, syscall_handle_clone
  <2> QED
    BY <2>0, SliceAssumption DEF SlotSound, ResumedAlive, RunningHasSlice,
       InUser, alloc_proc_slot, FreeSlots, NewProcess, Reapable, SetAll
<1>7. CASE process_exec
  BY <1>7, SliceAssumption DEF SlotSound, ResumedAlive, RunningHasSlice,
     process_exec, InUser
<1> QED
  BY <1>1, <1>2, <1>3, <1>4, <1>5, <1>6, <1>7 DEF OtherCall

LEMMA SliceNext ==
    TableInv /\ RunningHasSlice /\ [Next]_vars => RunningHasSlice'
<1>1. ASSUME RunningHasSlice, UNCHANGED vars PROVE RunningHasSlice'
  BY <1>1 DEF RunningHasSlice, vars, slotVars
<1> QED
  BY <1>1, SliceKernelStep, SliceTimerStep, SliceBlockingCall,
     SliceOtherCall DEF Next, Halted

\* A running process has ticks left and no reschedule is left pending.
THEOREM SliceSafe == Spec => []RunningHasSlice
BY TableInvariant, InitSlice, SliceNext, PTL DEF Spec

-----------------------------------------------------------------------------
(* ParentForest *)

LEMMA InitForest == Init => ParentForest
<1> SUFFICES ASSUME Init, NEW S \in SUBSET (Slots \ {0}), S # {}
             PROVE  \E s \in S : parent_pid[s] \notin S
  BY DEF ParentForest
<1>1. PICK s \in S : TRUE
  OBVIOUS
<1>2. parent_pid[s] = 0 /\ 0 \notin S
  BY DEF Init
<1> QED
  BY <1>2

LEMMA ForestKernelStep ==
    TableInv /\ ParentForest /\ KernelStep => ParentForest'
<1> SUFFICES ASSUME TableInv, ParentForest, KernelStep PROVE ParentForest'
  OBVIOUS
<1> USE TypeFacts, SlotNat DEF TableInv, TypeOK, Live, Blocking
<1>1. CASE reap_exited_processes
  BY <1>1 DEF SlotSound, ParentAlive, ResumedAlive, ParentForest,
     reap_exited_processes, recycle_process_slot, SetAll, Reapable
<1>2. CASE yield_idle
  BY <1>2 DEF SlotSound, ParentAlive, ResumedAlive, ParentForest, yield_idle,
     slotVars
<1>3. CASE yield_same
  BY <1>3 DEF SlotSound, ParentAlive, ResumedAlive, ParentForest, yield_same,
     ScanFinds, Candidates
<1>4. ASSUME NEW next \in Slots, yield_switch(next) PROVE ParentForest'
  BY <1>4 DEF SlotSound, ParentAlive, ResumedAlive, ParentForest,
     yield_switch, ScanFinds, Candidates
<1> QED
  BY <1>1, <1>2, <1>3, <1>4 DEF KernelStep

LEMMA ForestTimerStep ==
    TableInv /\ ParentForest /\ TimerStep => ParentForest'
<1> SUFFICES ASSUME TableInv, ParentForest, TimerStep PROVE ParentForest'
  OBVIOUS
<1> USE TypeFacts, SlotNat DEF TableInv, TypeOK, Live, Blocking
<1>1. ASSUME NEW k \in Counts, TimerInUser(k) PROVE ParentForest'
  BY <1>1 DEF SlotSound, ParentAlive, ResumedAlive, ParentForest, TimerInUser,
     handle_timer, poll_console_input, wakeup_input_waiters, ConsoleWaiters,
     SetAll, woken_state, woken_reason, woken_pid
<1>2. ASSUME NEW k \in Counts, TimerInWfi(k) PROVE ParentForest'
  BY <1>2 DEF SlotSound, ParentAlive, ResumedAlive, ParentForest, TimerInWfi,
     handle_timer, poll_console_input, wakeup_input_waiters, ConsoleWaiters,
     SetAll, woken_state, woken_reason, woken_pid
<1> QED
  BY <1>1, <1>2 DEF TimerStep

LEMMA ForestBlockingCall ==
    TableInv /\ ParentForest /\ BlockingCall => ParentForest'
<1> SUFFICES ASSUME TableInv, ParentForest, BlockingCall PROVE ParentForest'
  OBVIOUS
<1> USE TypeFacts, SlotNat DEF TableInv, TypeOK, Live, Blocking
<1>1. CASE getchar_pop
  BY <1>1 DEF SlotSound, ParentAlive, ResumedAlive, ParentForest, getchar_pop,
     Inside, Return
<1>2. ASSUME NEW k \in Counts, getchar_poll(k) PROVE ParentForest'
  BY <1>2 DEF SlotSound, ParentAlive, ResumedAlive, ParentForest,
     getchar_poll, Inside, Return, wakeup_input_waiters, ConsoleWaiters,
     SetAll, woken_state, woken_reason, woken_pid
<1>3. CASE getchar_wait
  BY <1>3 DEF SlotSound, ParentAlive, ResumedAlive, ParentForest,
     getchar_wait, Inside, Block
<1>4. ASSUME NEW t \in WaitPids, NEW child \in Slots,
             waitpid_collect(t, child)
      PROVE  ParentForest'
  BY <1>4 DEF SlotSound, ParentAlive, ResumedAlive, ParentForest,
     waitpid_collect, WaitsFor, WaitedChildren, recycle_process_slot, SetAll
<1>5. ASSUME NEW t \in WaitPids, waitpid_none(t) PROVE ParentForest'
  BY <1>5 DEF SlotSound, ParentAlive, ResumedAlive, ParentForest,
     waitpid_none, WaitsFor, Return
<1>6. ASSUME NEW t \in WaitPids, waitpid_wait(t) PROVE ParentForest'
  BY <1>6 DEF SlotSound, ParentAlive, ResumedAlive, ParentForest,
     waitpid_wait, WaitsFor, Block, WaitedChildren
<1>7. CASE ipc_recv_take
  BY <1>7 DEF SlotSound, ParentAlive, ResumedAlive, ParentForest,
     ipc_recv_take, Inside, Return
<1>8. CASE ipc_recv_wait
  BY <1>8 DEF SlotSound, ParentAlive, ResumedAlive, ParentForest,
     ipc_recv_wait, Inside, Block
<1> QED
  BY <1>1, <1>2, <1>3, <1>4, <1>5, <1>6, <1>7, <1>8 DEF BlockingCall

LEMMA ForestOtherCall ==
    TableInv /\ ParentForest /\ OtherCall => ParentForest'
<1> SUFFICES ASSUME TableInv, ParentForest, OtherCall PROVE ParentForest'
  OBVIOUS
<1> USE TypeFacts, SlotNat DEF TableInv, TypeOK, Live, Blocking
<1>1. ASSUME NEW dst \in Slots, NEW m \in Messages, process_ipc_send(dst,
             m)
      PROVE  ParentForest'
  BY <1>1 DEF SlotSound, ParentAlive, ResumedAlive, ParentForest,
     process_ipc_send, InUser, ReceiverWoken, SetAll, woken_state,
     woken_reason, woken_pid
<1>2. CASE exit_init
  BY <1>2 DEF SlotSound, ParentAlive, ResumedAlive, ParentForest, exit_init,
     InUser
<1>3. CASE syscall_handle_exit
  BY <1>3 DEF SlotSound, ParentAlive, ResumedAlive, ParentForest,
     syscall_handle_exit, InUser, Die, orphan_children, notify_child_exit,
     SetAll, woken_state, woken_reason, woken_pid
<1>4. CASE kill_self
  BY <1>4 DEF SlotSound, ParentAlive, ResumedAlive, ParentForest, kill_self,
     InUser, Die, orphan_children, notify_child_exit, SetAll, woken_state,
     woken_reason, woken_pid
<1>5. ASSUME NEW t \in Slots, kill_other(t) PROVE ParentForest'
  BY <1>5 DEF SlotSound, ParentAlive, ResumedAlive, ParentForest, kill_other,
     InUser, find_process_by_pid, recycle_process_slot, orphan_children,
     notify_child_exit, SetAll, woken_state, woken_reason, woken_pid
<1>6. ASSUME NEW child \in Slots,
             process_fork(child) \/ syscall_handle_clone(child)
      PROVE  ParentForest'
  <2>0. InUser /\ alloc_proc_slot(child) /\ NewProcess(child)
    BY <1>6 DEF process_fork, syscall_handle_clone
  <2>1. /\ cpu = "run" /\ current_proc # 0
        /\ state[current_proc] = "RUNNABLE" /\ pid[current_proc] = current_proc
    BY <2>0 DEF InUser, ResumedAlive, SlotSound
  <2>2. /\ state[child] \notin Live
        /\ \A s \in Slots : parent_pid[s] # child \/ child = 0
    BY <2>0, <2>1 DEF alloc_proc_slot, FreeSlots, Reapable, SlotSound,
       ParentAlive
  <2>3. /\ parent_pid'[child] = current_proc /\ child # current_proc
        /\ \A s \in Slots : s # child => parent_pid'[s] = parent_pid[s]
    BY <2>0, <2>1, <2>2 DEF NewProcess, SetAll, Reapable
  <2>4. SUFFICES ASSUME NEW S \in SUBSET (Slots \ {0}), S # {}
                 PROVE  \E s \in S : parent_pid'[s] \notin S
    BY DEF ParentForest
  <2>5. CASE S \ {child} = {}
    BY <2>3, <2>4, <2>5
  <2>6. CASE S \ {child} # {}
    <3>1. PICK s \in S \ {child} : parent_pid[s] \notin S \ {child}
      BY <2>6 DEF ParentForest
    <3>2. s \in S /\ s \in Slots /\ parent_pid'[s] = parent_pid[s]
      BY <2>3
    <3>3. parent_pid[s] = child => child \notin S
      BY <2>2, <3>2
    <3> QED
      BY <3>1, <3>2, <3>3
  <2> QED
    BY <2>5, <2>6
<1>7. CASE process_exec
  BY <1>7 DEF SlotSound, ParentAlive, ResumedAlive, ParentForest,
     process_exec, InUser
<1> QED
  BY <1>1, <1>2, <1>3, <1>4, <1>5, <1>6, <1>7 DEF OtherCall

LEMMA ForestNext == TableInv /\ ParentForest /\ [Next]_vars => ParentForest'
<1>1. ASSUME ParentForest, UNCHANGED vars PROVE ParentForest'
  BY <1>1 DEF ParentForest, vars, slotVars
<1> QED
  BY <1>1, ForestKernelStep, ForestTimerStep, ForestBlockingCall,
     ForestOtherCall DEF Next, Halted

\* The parent relation never has a cycle, although slots and pids are reused.
THEOREM ForestSafe == Spec => []ParentForest
BY TableInvariant, InitForest, ForestNext, PTL DEF Spec

-----------------------------------------------------------------------------
(* ZombieKeptForParent *)

KeepsZombie(s) ==
    (state[s] = "EXITED" /\ parent_pid[s] # 0 /\ state'[s] # "EXITED")
      => /\ current_proc = parent_pid[s]
         /\ state'[s] = "UNUSED"
         /\ resume_at'[current_proc] = "user"

LEMMA ZombieKernelStep ==
    TableInv /\ KernelStep => \A s \in Slots : KeepsZombie(s)
<1> SUFFICES ASSUME TableInv, KernelStep, NEW s \in Slots PROVE KeepsZombie(s)
  OBVIOUS
<1> USE TypeFacts, SlotNat DEF TableInv, TypeOK, Live, Blocking, KeepsZombie
<1>1. CASE reap_exited_processes
  BY <1>1 DEF SlotSound, WaitSound, ResumedAlive, ParentAlive,
     reap_exited_processes, recycle_process_slot, SetAll, Reapable
<1>2. CASE yield_idle
  BY <1>2 DEF SlotSound, WaitSound, ResumedAlive, ParentAlive, yield_idle,
     slotVars
<1>3. CASE yield_same
  BY <1>3 DEF SlotSound, WaitSound, ResumedAlive, ParentAlive, yield_same,
     ScanFinds, Candidates
<1>4. ASSUME NEW next \in Slots,
             yield_switch(next)
      PROVE  KeepsZombie(s)
  BY <1>4 DEF SlotSound, WaitSound, ResumedAlive, ParentAlive, yield_switch,
     ScanFinds, Candidates
<1> QED
  BY <1>1, <1>2, <1>3, <1>4 DEF KernelStep

LEMMA ZombieTimerStep ==
    TableInv /\ TimerStep => \A s \in Slots : KeepsZombie(s)
<1> SUFFICES ASSUME TableInv, TimerStep, NEW s \in Slots PROVE KeepsZombie(s)
  OBVIOUS
<1> USE TypeFacts, SlotNat DEF TableInv, TypeOK, Live, Blocking, KeepsZombie
<1>1. ASSUME NEW k \in Counts,
             TimerInUser(k)
      PROVE  KeepsZombie(s)
  BY <1>1 DEF SlotSound, WaitSound, ResumedAlive, ParentAlive, TimerInUser,
     handle_timer, poll_console_input, wakeup_input_waiters, ConsoleWaiters,
     SetAll, woken_state, woken_reason, woken_pid
<1>2. ASSUME NEW k \in Counts,
             TimerInWfi(k)
      PROVE  KeepsZombie(s)
  BY <1>2 DEF SlotSound, WaitSound, ResumedAlive, ParentAlive, TimerInWfi,
     handle_timer, poll_console_input, wakeup_input_waiters, ConsoleWaiters,
     SetAll, woken_state, woken_reason, woken_pid
<1> QED
  BY <1>1, <1>2 DEF TimerStep

LEMMA ZombieBlockingCall ==
    TableInv /\ BlockingCall => \A s \in Slots : KeepsZombie(s)
<1> SUFFICES ASSUME TableInv, BlockingCall, NEW s \in Slots PROVE KeepsZombie(s)
  OBVIOUS
<1> USE TypeFacts, SlotNat DEF TableInv, TypeOK, Live, Blocking, KeepsZombie
<1>1. CASE getchar_pop
  BY <1>1 DEF SlotSound, WaitSound, ResumedAlive, ParentAlive, getchar_pop,
     Inside, Return
<1>2. ASSUME NEW k \in Counts,
             getchar_poll(k)
      PROVE  KeepsZombie(s)
  BY <1>2 DEF SlotSound, WaitSound, ResumedAlive, ParentAlive, getchar_poll,
     Inside, Return, wakeup_input_waiters, ConsoleWaiters, SetAll,
     woken_state, woken_reason, woken_pid
<1>3. CASE getchar_wait
  BY <1>3 DEF SlotSound, WaitSound, ResumedAlive, ParentAlive, getchar_wait,
     Inside, Block
<1>4. ASSUME NEW t \in WaitPids, NEW child \in Slots,
             waitpid_collect(t, child)
      PROVE  KeepsZombie(s)
  BY <1>4 DEF SlotSound, WaitSound, ResumedAlive, ParentAlive,
     waitpid_collect, WaitsFor, WaitedChildren, recycle_process_slot, SetAll
<1>5. ASSUME NEW t \in WaitPids,
             waitpid_none(t)
      PROVE  KeepsZombie(s)
  BY <1>5 DEF SlotSound, WaitSound, ResumedAlive, ParentAlive, waitpid_none,
     WaitsFor, Return
<1>6. ASSUME NEW t \in WaitPids,
             waitpid_wait(t)
      PROVE  KeepsZombie(s)
  BY <1>6 DEF SlotSound, WaitSound, ResumedAlive, ParentAlive, waitpid_wait,
     WaitsFor, Block, WaitedChildren
<1>7. CASE ipc_recv_take
  BY <1>7 DEF SlotSound, WaitSound, ResumedAlive, ParentAlive, ipc_recv_take,
     Inside, Return
<1>8. CASE ipc_recv_wait
  BY <1>8 DEF SlotSound, WaitSound, ResumedAlive, ParentAlive, ipc_recv_wait,
     Inside, Block
<1> QED
  BY <1>1, <1>2, <1>3, <1>4, <1>5, <1>6, <1>7, <1>8 DEF BlockingCall

LEMMA ZombieOtherCall ==
    TableInv /\ OtherCall => \A s \in Slots : KeepsZombie(s)
<1> SUFFICES ASSUME TableInv, OtherCall, NEW s \in Slots PROVE KeepsZombie(s)
  OBVIOUS
<1> USE TypeFacts, SlotNat DEF TableInv, TypeOK, Live, Blocking, KeepsZombie
<1>1. ASSUME NEW dst \in Slots, NEW m \in Messages,
             process_ipc_send(dst, m)
      PROVE  KeepsZombie(s)
  BY <1>1 DEF SlotSound, WaitSound, ResumedAlive, ParentAlive,
     process_ipc_send, InUser, ReceiverWoken, SetAll, woken_state,
     woken_reason, woken_pid
<1>2. CASE exit_init
  BY <1>2 DEF SlotSound, WaitSound, ResumedAlive, ParentAlive, exit_init,
     InUser
<1>3. CASE syscall_handle_exit
  BY <1>3 DEF SlotSound, WaitSound, ResumedAlive, ParentAlive,
     syscall_handle_exit, InUser, Die, orphan_children, notify_child_exit,
     SetAll, woken_state, woken_reason, woken_pid
<1>4. CASE kill_self
  BY <1>4 DEF SlotSound, WaitSound, ResumedAlive, ParentAlive, kill_self,
     InUser, Die, orphan_children, notify_child_exit, SetAll, woken_state,
     woken_reason, woken_pid
<1>5. ASSUME NEW t \in Slots,
             kill_other(t)
      PROVE  KeepsZombie(s)
  BY <1>5 DEF SlotSound, WaitSound, ResumedAlive, ParentAlive, kill_other,
     InUser, find_process_by_pid, recycle_process_slot, orphan_children,
     notify_child_exit, SetAll, woken_state, woken_reason, woken_pid
<1>6. ASSUME NEW child \in Slots,
             process_fork(child) \/ syscall_handle_clone(child)
      PROVE  KeepsZombie(s)
  <2>0. InUser /\ alloc_proc_slot(child) /\ NewProcess(child)
    BY <1>6 DEF process_fork, syscall_handle_clone
  <2> QED
    BY <2>0 DEF SlotSound, WaitSound, ResumedAlive, ParentAlive, InUser,
       alloc_proc_slot, FreeSlots, NewProcess, Reapable, SetAll
<1>7. CASE process_exec
  BY <1>7 DEF SlotSound, WaitSound, ResumedAlive, ParentAlive, process_exec,
     InUser
<1> QED
  BY <1>1, <1>2, <1>3, <1>4, <1>5, <1>6, <1>7 DEF OtherCall

\* A zombie with a parent is only ever taken away by that parent's waitpid.
THEOREM ZombieSafe == Spec => ZombieKeptForParent
<1> DEFINE Keeps == \A s \in Slots : KeepsZombie(s)
<1>1. TableInv /\ [Next]_vars => [Keeps]_vars
  BY ZombieKernelStep, ZombieTimerStep, ZombieBlockingCall, ZombieOtherCall
     DEF Next, Halted
<1>2. Keeps <=> \A s \in Slots :
         (state[s] = "EXITED" /\ parent_pid[s] # 0 /\ state'[s] # "EXITED")
           => /\ current_proc = parent_pid[s]
              /\ state'[s] = "UNUSED"
              /\ resume_at'[current_proc] = "user"
  BY DEF KeepsZombie
<1> QED
  BY <1>1, <1>2, TableInvariant, PTL DEF Spec, ZombieKeptForParent

-----------------------------------------------------------------------------
(***************************************************************************)
(* The table implements ProcTree.  Each step is looked at slot by slot:    *)
(* StatusOf, parent_pid and MailOf are what the tree shows of a slot.      *)
(***************************************************************************)
StatusOf(s) ==
    IF IsLive(s) THEN "live"
    ELSE IF state[s] = "EXITED" /\ parent_pid[s] # 0 THEN "zombie" ELSE "free"

MailOf(s) ==
    IF IsLive(s) /\ mailbox[s].has
    THEN {<<mailbox[s].from, mailbox[s].message>>} ELSE {}

Processes == Slots \ {idle_proc}

\* A step that the tree does not show.
SameTree ==
    /\ \A s \in Processes : /\ StatusOf(s)' = StatusOf(s)
                            /\ parent_pid'[s] = parent_pid[s]
                            /\ MailOf(s)' = MailOf(s)
    /\ cpu # "halt" /\ cpu' # "halt"

LEMMA TreeIs ==
    /\ TreeStatus = [s \in Processes |-> StatusOf(s)]
    /\ TreeParent = [s \in Processes |-> parent_pid[s]]
    /\ TreeMail = [s \in Processes |-> MailOf(s)]
BY DEF TreeStatus, TreeParent, TreeMail, StatusOf, MailOf, Processes

LEMMA TreeIsNext ==
    /\ TreeStatus' = [s \in Processes |-> StatusOf(s)']
    /\ TreeParent' = [s \in Processes |-> parent_pid'[s]]
    /\ TreeMail' = [s \in Processes |-> MailOf(s)']
BY DEF TreeStatus, TreeParent, TreeMail, StatusOf, MailOf, Processes

LEMMA SameTreeUnchanged == SameTree => UNCHANGED Tree!vars
BY TreeIs, TreeIsNext DEF SameTree, Tree!vars

\* A step that neither ends nor begins a process, gives it to another parent
\* nor touches its mailbox is not shown.
LEMMA QuietStep ==
    ASSUME cpu # "halt", cpu' # "halt", parent_pid' = parent_pid, mailbox' = mailbox,
           \A s \in Processes : /\ (state'[s] \in Live <=> state[s] \in Live)
                               /\ (state'[s] = "EXITED" <=> state[s] = "EXITED")
    PROVE  SameTree
<1> SUFFICES ASSUME NEW s \in Processes
             PROVE  /\ StatusOf(s)' = StatusOf(s) /\ parent_pid'[s] = parent_pid[s]
                    /\ MailOf(s)' = MailOf(s)
  BY DEF SameTree
<1>1. IsLive(s)' <=> IsLive(s)
  BY DEF IsLive
<1>2. StatusOf(s)' = StatusOf(s)
  BY <1>1 DEF StatusOf
<1>3. MailOf(s)' = MailOf(s)
  BY <1>1 DEF MailOf
<1> QED
  BY <1>2, <1>3

LEMMA TreeKernelStep == TableInv /\ KernelStep => SameTree
<1> SUFFICES ASSUME TableInv, KernelStep PROVE SameTree
  OBVIOUS
<1> USE TypeFacts DEF TableInv, TypeOK
<1>1. CASE reap_exited_processes
  BY <1>1 DEF reap_exited_processes, recycle_process_slot, SetAll, Reapable, SameTree, StatusOf,
              MailOf, IsLive, Live, Processes
<1>2. CASE yield_idle
  BY <1>2, QuietStep DEF yield_idle, slotVars
<1>3. CASE yield_same
  BY <1>3, QuietStep DEF yield_same
<1>4. ASSUME NEW next \in Slots, yield_switch(next) PROVE SameTree
  BY <1>4, QuietStep DEF yield_switch
<1> QED
  BY <1>1, <1>2, <1>3, <1>4 DEF KernelStep

LEMMA TreeTimerStep == TableInv /\ TimerStep => SameTree
<1> SUFFICES ASSUME TableInv, NEW k \in Counts, TimerInUser(k) \/ TimerInWfi(k)
             PROVE  SameTree
  BY DEF TimerStep
<1>1. handle_timer(k) /\ cpu # "halt" /\ cpu' # "halt"
  BY DEF TimerInUser, TimerInWfi
<1>2. \A s \in Processes : /\ (state'[s] \in Live <=> state[s] \in Live)
                          /\ (state'[s] = "EXITED" <=> state[s] = "EXITED")
  BY <1>1 DEF handle_timer, poll_console_input, wakeup_input_waiters, ConsoleWaiters,
              woken_state, SetAll, Live, Processes
<1> QED
  BY <1>1, <1>2, QuietStep DEF handle_timer

LEMMA TreeBlockingCall ==
    TableInv /\ BlockingCall =>
        \/ SameTree
        \/ cpu # "halt" /\ \E p, c \in Processes : Tree!Collect(p, c)
        \/ cpu # "halt" /\ \E p \in Processes : Tree!Receive(p)
<1> SUFFICES ASSUME TableInv, BlockingCall
             PROVE  \/ SameTree
                    \/ cpu # "halt" /\ \E p, c \in Processes : Tree!Collect(p, c)
                    \/ cpu # "halt" /\ \E p \in Processes : Tree!Receive(p)
  OBVIOUS
<1> USE TypeFacts DEF TableInv, TypeOK
<1>0. ASSUME cpu = "run"
      PROVE  /\ current_proc \in Processes /\ state[current_proc] = "RUNNABLE"
             /\ pid[current_proc] = current_proc
  BY <1>0 DEF ResumedAlive, SlotSound, Processes, Blocking
<1>1. CASE getchar_pop
  BY <1>1, QuietStep DEF getchar_pop, Inside, Return
<1>2. ASSUME NEW k \in Counts, getchar_poll(k) PROVE SameTree
  <2>1. \A s \in Processes : /\ (state'[s] \in Live <=> state[s] \in Live)
                            /\ (state'[s] = "EXITED" <=> state[s] = "EXITED")
    BY <1>2 DEF getchar_poll, wakeup_input_waiters, ConsoleWaiters, woken_state, SetAll, Live,
                Processes
  <2> QED
    BY <1>2, <2>1, QuietStep DEF getchar_poll, Inside, Return
<1>3. CASE getchar_wait
  BY <1>0, <1>3, QuietStep DEF getchar_wait, Inside, Block, Live, Processes
<1>4. ASSUME NEW t \in WaitPids, NEW child \in Slots, waitpid_collect(t, child)
      PROVE  cpu # "halt" /\ \E p, c \in Processes : Tree!Collect(p, c)
  <2>1. cpu = "run" /\ cpu' = "run" /\ state[child] = "EXITED" /\ parent_pid[child] = current_proc
    BY <1>0, <1>4 DEF waitpid_collect, WaitsFor, WaitedChildren
  <2>2. child \in Processes /\ current_proc \in Processes /\ current_proc # child
    BY <1>0, <2>1 DEF Processes, SlotSound
  <2>3. \A s \in Processes :
          /\ StatusOf(s)' = IF s = child THEN "free" ELSE StatusOf(s)
          /\ parent_pid'[s] = IF s = child THEN 0 ELSE parent_pid[s]
          /\ MailOf(s)' = MailOf(s)
    BY <1>4, <2>1, <2>2 DEF waitpid_collect, recycle_process_slot, SetAll, StatusOf, MailOf,
                           IsLive, Live, Processes
  <2>4. StatusOf(current_proc) = "live" /\ StatusOf(child) = "zombie"
    BY <1>0, <2>1, <2>2 DEF StatusOf, IsLive, Live, Processes
  <2>5. Tree!Collect(current_proc, child)
    BY <2>1, <2>2, <2>3, <2>4, TreeIs, TreeIsNext DEF Tree!Collect
  <2> QED
    BY <2>1, <2>2, <2>5
<1>5. ASSUME NEW t \in WaitPids, waitpid_none(t) PROVE SameTree
  BY <1>5, QuietStep DEF waitpid_none, WaitsFor, Return
<1>6. ASSUME NEW t \in WaitPids, waitpid_wait(t) PROVE SameTree
  BY <1>0, <1>6, QuietStep DEF waitpid_wait, WaitsFor, Block, Live, Processes
<1>7. CASE ipc_recv_take
  <2>1. cpu = "run" /\ cpu' = "run" /\ mailbox[current_proc].has
    BY <1>7 DEF ipc_recv_take, Inside, Return
  <2>2. \A s \in Processes :
          /\ StatusOf(s)' = StatusOf(s)
          /\ parent_pid'[s] = parent_pid[s]
          /\ MailOf(s)' = IF s = current_proc THEN {} ELSE MailOf(s)
    BY <1>0, <1>7, <2>1 DEF ipc_recv_take, StatusOf, MailOf, IsLive, Processes, NoMessage
  <2>3. StatusOf(current_proc) = "live" /\ MailOf(current_proc) # {}
    BY <1>0, <2>1 DEF StatusOf, MailOf, IsLive, Live
  <2>4. Tree!Receive(current_proc)
    BY <1>0, <2>1, <2>2, <2>3, TreeIs, TreeIsNext DEF Tree!Receive
  <2> QED
    BY <1>0, <2>1, <2>4
<1>8. CASE ipc_recv_wait
  BY <1>0, <1>8, QuietStep DEF ipc_recv_wait, Inside, Block, Live, Processes
<1> QED
  BY <1>1, <1>2, <1>3, <1>4, <1>5, <1>6, <1>7, <1>8 DEF BlockingCall

\* Nobody is its own parent.
LEMMA NotOwnParent ==
    ASSUME TypeOK, ParentForest, NEW s \in Processes
    PROVE  parent_pid[s] # s
<1>1. {s} \in SUBSET (Slots \ {0}) /\ {s} # {}
  BY DEF Processes
<1>2. \E t \in {s} : parent_pid[t] \notin {s}
  BY <1>1 DEF ParentForest
<1> QED
  BY <1>2

\* p ends: its children become orphans, and those that are zombies go.
LEMMA EndsStep ==
    ASSUME NEW p \in Processes, NEW fate \in {"free", "zombie"},
           cpu = "run", cpu' # "halt", p # 1, state[p] \in Live, parent_pid[p] # p,
           \A s \in Processes \ {p} : /\ (state'[s] \in Live <=> state[s] \in Live)
                                     /\ (state'[s] = "EXITED" <=> state[s] = "EXITED")
                                     /\ mailbox'[s] = mailbox[s],
           state'[p] \notin Live,
           \A s \in Processes :
             parent_pid'[s] = IF parent_pid[s] = p \/ (s = p /\ fate = "free")
                              THEN 0 ELSE parent_pid[s],
           fate = "zombie" <=> (state'[p] = "EXITED" /\ parent_pid'[p] # 0)
    PROVE  Tree!Ends(p, fate)
<1>1. p # 0 /\ IsLive(p) /\ ~IsLive(p)'
  BY DEF IsLive, Processes
<1>2. \A s \in Processes \ {p} : IsLive(s)' <=> IsLive(s)
  BY DEF IsLive
<1>3. \A s \in Processes :
        StatusOf(s)' = IF s = p THEN fate
                       ELSE IF StatusOf(s) = "zombie" /\ parent_pid[s] = p
                       THEN "free" ELSE StatusOf(s)
  <2> SUFFICES ASSUME NEW s \in Processes
               PROVE  StatusOf(s)' = IF s = p THEN fate
                                     ELSE IF StatusOf(s) = "zombie" /\ parent_pid[s] = p
                                     THEN "free" ELSE StatusOf(s)
    OBVIOUS
  <2>1. CASE s = p
    BY <1>1, <2>1 DEF StatusOf
  <2>2. CASE s # p
    <3>1. IsLive(s)' <=> IsLive(s)
      BY <1>2, <2>2
    <3>2. /\ (state'[s] = "EXITED" <=> state[s] = "EXITED")
          /\ parent_pid'[s] = IF parent_pid[s] = p THEN 0 ELSE parent_pid[s]
      BY <2>2
    <3> QED
      BY <1>1, <2>2, <3>1, <3>2 DEF StatusOf
  <2> QED
    BY <2>1, <2>2
<1>4. \A s \in Processes : MailOf(s)' = IF s = p THEN {} ELSE MailOf(s)
  <2> SUFFICES ASSUME NEW s \in Processes
               PROVE  MailOf(s)' = IF s = p THEN {} ELSE MailOf(s)
    OBVIOUS
  <2>1. CASE s = p
    BY <1>1, <2>1 DEF MailOf
  <2>2. CASE s # p
    BY <1>2, <2>2 DEF MailOf
  <2> QED
    BY <2>1, <2>2
<1>5. StatusOf(p) = "live"
  BY <1>1 DEF StatusOf
<1> QED
  BY <1>3, <1>4, <1>5, TreeIs, TreeIsNext DEF Tree!Ends, Processes

LEMMA TreeOtherCall ==
    TableInv /\ ParentForest /\ OtherCall =>
        \/ SameTree
        \/ cpu # "halt" /\ Tree!Next
<1> SUFFICES ASSUME TableInv, ParentForest, OtherCall
             PROVE  SameTree \/ (cpu # "halt" /\ Tree!Next)
  OBVIOUS
<1> USE TypeFacts, SlotNat DEF TableInv, TypeOK
<1>0. /\ cpu = "run" /\ current_proc \in Processes /\ state[current_proc] = "RUNNABLE"
      /\ pid[current_proc] = current_proc /\ current_proc > 0 /\ current_proc \in Slots
      /\ StatusOf(current_proc) = "live"
  <2>1. InUser
    BY DEF OtherCall, process_ipc_send, exit_init, syscall_handle_exit, kill_self, kill_other,
           process_fork, syscall_handle_clone, process_exec
  <2> QED
    BY <2>1 DEF InUser, ResumedAlive, SlotSound, Processes, Blocking, StatusOf, IsLive, Live
<1>1. ASSUME NEW dst \in Slots, NEW m \in Messages, process_ipc_send(dst, m)
      PROVE  Tree!Next
  <2>1. dst \in Processes /\ dst > 0 /\ state[dst] \in Live /\ ~mailbox[dst].has /\ cpu' = cpu
    BY <1>1 DEF process_ipc_send, find_process_by_pid, Processes, States
  <2>2. \A s \in Slots : (state'[s] \in Live <=> state[s] \in Live)
                         /\ (state'[s] = "EXITED" <=> state[s] = "EXITED")
    BY <1>1 DEF process_ipc_send, ReceiverWoken, woken_state, SetAll, Live
  <2>3. \A s \in Processes :
          /\ StatusOf(s)' = StatusOf(s)
          /\ parent_pid'[s] = parent_pid[s]
    BY <1>0, <1>1, <2>1, <2>2 DEF process_ipc_send, StatusOf, IsLive, Processes
  <2>4. mailbox' = [mailbox EXCEPT ![dst] = [has |-> TRUE, from |-> current_proc, message |-> m]]
    BY <1>0, <1>1 DEF process_ipc_send
  <2>5. \A s \in Processes : MailOf(s)' = IF s = dst THEN {<<current_proc, m>>} ELSE MailOf(s)
    BY <1>0, <2>1, <2>2, <2>4 DEF MailOf, IsLive, Processes
  <2>6. StatusOf(dst) = "live" /\ MailOf(dst) = {}
    BY <2>1 DEF StatusOf, MailOf, IsLive
  <2>7. Tree!Send(current_proc, dst, m)
    BY <1>0, <2>1, <2>3, <2>5, <2>6, TreeIs, TreeIsNext DEF Tree!Send
  <2> QED
    BY <1>0, <2>1, <2>7 DEF Tree!Next, Processes
<1>2. CASE exit_init
  <2>1. cpu' = "halt" /\ current_proc = 1 /\ parent_pid' = parent_pid /\ mailbox' = mailbox
        /\ state' = [state EXCEPT ![1] = "EXITED"]
    BY <1>2 DEF exit_init
  <2>2. \A s \in Processes : IsLive(s)' <=> IsLive(s)
    BY <1>0, <2>1 DEF IsLive, Live, Processes
  <2>3. \A s \in Processes : /\ StatusOf(s)' = StatusOf(s) /\ parent_pid'[s] = parent_pid[s]
                            /\ MailOf(s)' = MailOf(s)
    BY <1>0, <2>1, <2>2 DEF StatusOf, MailOf, IsLive, Live, Processes
  <2>4. Tree!Shutdown
    BY <2>1, <2>3, TreeIs, TreeIsNext DEF Tree!Shutdown
  <2> QED
    BY <1>0, <2>4 DEF Tree!Next
<1>3. CASE syscall_handle_exit
  <2> DEFINE p == current_proc
             fate == IF parent_pid[p] = 0 THEN "free" ELSE "zombie"
  <2>1. parent_pid[p] # p /\ p # 1 /\ cpu' = "reap" /\ mailbox' = mailbox
    BY <1>0, <1>3, NotOwnParent DEF syscall_handle_exit, Die
  <2>2. /\ \A s \in Processes \ {p} : /\ (state'[s] \in Live <=> state[s] \in Live)
                                     /\ (state'[s] = "EXITED" <=> state[s] = "EXITED")
        /\ state'[p] = "EXITED"
    BY <1>0, <1>3 DEF syscall_handle_exit, Die, notify_child_exit, woken_state, SetAll, Live,
                     Processes
  <2>3. \A s \in Processes : parent_pid'[s] = IF parent_pid[s] = p THEN 0 ELSE parent_pid[s]
    BY <1>0, <1>3 DEF syscall_handle_exit, Die, orphan_children, Processes
  <2>4. Tree!Ends(p, fate)
    BY <1>0, <2>1, <2>2, <2>3, EndsStep DEF Live
  <2>5. Tree!Exit(p)
    BY <1>0, <2>4, TreeIs DEF Tree!Exit
  <2> QED
    BY <1>0, <2>5 DEF Tree!Next, Processes
<1>4. CASE kill_self
  <2> DEFINE p == current_proc
  <2>1. parent_pid[p] # p /\ p # 1 /\ cpu' = "reap" /\ mailbox' = mailbox
    BY <1>0, <1>4, NotOwnParent DEF kill_self, Die
  <2>2. /\ \A s \in Processes \ {p} : /\ (state'[s] \in Live <=> state[s] \in Live)
                                     /\ (state'[s] = "EXITED" <=> state[s] = "EXITED")
        /\ state'[p] = "EXITED"
    BY <1>0, <1>4 DEF kill_self, Die, notify_child_exit, woken_state, SetAll, Live, Processes
  <2>3. \A s \in Processes :
          parent_pid'[s] = IF parent_pid[s] = p \/ s = p THEN 0 ELSE parent_pid[s]
    BY <1>0, <1>4 DEF kill_self, Die, orphan_children, Processes
  <2>4. Tree!Ends(p, "free")
    BY <1>0, <2>1, <2>2, <2>3, EndsStep DEF Live
  <2> QED
    BY <1>0, <2>4 DEF Tree!Next, Tree!Kill, Processes
<1>5. ASSUME NEW t \in Slots, kill_other(t) PROVE Tree!Next
  <2>1. t \in Processes /\ t > 0 /\ t # 1 /\ state[t] \in Live /\ pid[t] = t /\ cpu' = cpu
    BY <1>5 DEF kill_other, find_process_by_pid, Processes, States
  <2>2. parent_pid[t] # t
    BY <2>1, NotOwnParent
  <2>3. /\ \A s \in Processes \ {t} : /\ (state'[s] \in Live <=> state[s] \in Live)
                                     /\ (state'[s] = "EXITED" <=> state[s] = "EXITED")
                                     /\ mailbox'[s] = mailbox[s]
        /\ state'[t] = "UNUSED"
    BY <1>5 DEF kill_other, recycle_process_slot, notify_child_exit, woken_state, SetAll, Live,
                Processes
  <2>4. \A s \in Processes :
          parent_pid'[s] = IF parent_pid[s] = t \/ s = t THEN 0 ELSE parent_pid[s]
    BY <1>5, <2>1 DEF kill_other, recycle_process_slot, orphan_children, SetAll, Processes
  <2>5. Tree!Ends(t, "free")
    BY <1>0, <2>1, <2>2, <2>3, <2>4, EndsStep DEF Live
  <2> QED
    BY <1>0, <2>1, <2>5 DEF Tree!Next, Tree!Kill, Processes
<1>6. ASSUME NEW child \in Slots, process_fork(child) \/ syscall_handle_clone(child)
      PROVE  Tree!Next
  <2>0. alloc_proc_slot(child) /\ NewProcess(child)
    BY <1>6 DEF process_fork, syscall_handle_clone
  <2>1. /\ child \in Processes /\ child # current_proc /\ cpu' = cpu /\ child # 0
        /\ state[child] = "UNUSED" \/ (state[child] = "EXITED" /\ parent_pid[child] = 0)
    BY <1>0, <2>0 DEF alloc_proc_slot, FreeSlots, Reapable, NewProcess, SlotSound, Processes
  <2>2. \A s \in Processes :
          /\ StatusOf(s)' = IF s = child THEN "live" ELSE StatusOf(s)
          /\ parent_pid'[s] = IF s = child THEN current_proc ELSE parent_pid[s]
          /\ MailOf(s)' = MailOf(s)
    BY <1>0, <2>0, <2>1 DEF NewProcess, Reapable, SetAll, StatusOf, MailOf, IsLive, Live,
                           Processes, NoMessage
  <2>3. StatusOf(child) = "free"
    BY <1>0, <2>1 DEF StatusOf, IsLive, Live
  <2>4. Tree!Spawn(current_proc, child)
    BY <1>0, <2>1, <2>2, <2>3, TreeIs, TreeIsNext DEF Tree!Spawn
  <2> QED
    BY <1>0, <2>1, <2>4 DEF Tree!Next, Processes
<1>7. CASE process_exec
  BY <1>0, <1>7, QuietStep DEF process_exec
<1> QED
  BY <1>0, <1>1, <1>2, <1>3, <1>4, <1>5, <1>6, <1>7 DEF OtherCall

LEMMA TreeInit == Init => Tree!Init
<1> SUFFICES ASSUME Init PROVE Tree!Init
  OBVIOUS
<1>1. \A s \in Processes : /\ StatusOf(s) = IF s = 1 THEN "live" ELSE "free"
                          /\ parent_pid[s] = 0 /\ MailOf(s) = {}
  BY TypeFacts DEF Init, StatusOf, MailOf, IsLive, Live, Processes, NoMessage
<1>2. cpu # "halt"
  BY DEF Init
<1> QED
  BY <1>1, <1>2, TreeIs DEF Tree!Init, Processes

\* Whatever happens in the table, with its late reaping, its reuse of slots and
\* its wakeups, a program sees only what ProcTree promises: a zombie stays
\* until its parent collects it, the children of a process that ends become
\* orphans, a message stays until it is taken (process.c).
THEOREM TreeImplemented == Spec => TreeSpec
<1>1. TableInv /\ ParentForest /\ [Next]_vars => [Tree!Next]_(Tree!vars)
  <2> SUFFICES ASSUME TableInv, ParentForest, [Next]_vars
               PROVE  Tree!Next \/ UNCHANGED Tree!vars
    OBVIOUS
  <2>1. CASE KernelStep
    BY <2>1, TreeKernelStep, SameTreeUnchanged
  <2>2. CASE TimerStep
    BY <2>2, TreeTimerStep, SameTreeUnchanged
  <2>3. CASE BlockingCall
    BY <2>3, TreeBlockingCall, SameTreeUnchanged DEF Tree!Next, Processes
  <2>4. CASE OtherCall
    BY <2>4, TreeOtherCall, SameTreeUnchanged
  <2>5. CASE UNCHANGED vars
    BY <2>5 DEF vars, slotVars, Tree!vars, TreeStatus, TreeParent, TreeMail, IsLive
  <2> QED
    BY <2>1, <2>2, <2>3, <2>4, <2>5 DEF Next, Halted
<1> QED
  BY <1>1, TreeInit, TableInvariant, ForestSafe, PTL DEF Spec, TreeSpec, Tree!Spec
=============================================================================
