------------------------------- MODULE Procfs -------------------------------
(***************************************************************************)
(* /proc: the file /proc/<pid>/status that procfs_sync_process rewrites    *)
(* when a process changes and procfs_cleanup removes when its slot is      *)
(* recycled (kernel/proc/process.c), beside the process table it describes *)
(* and the descriptors that processes hold on these files.                 *)
(*                                                                         *)
(* A sync goes through the descriptor table of the process it describes:   *)
(* while that table is full, open creates and truncates the file and only  *)
(* then fails, so that the file is left empty.  Cleanup cannot unlink a    *)
(* file that anyone has open, and what it leaves stays.  Scheduling is     *)
(* abstracted: any runnable process may make a call.  Processes create no  *)
(* files of their own in /proc and open these for reading, so its node     *)
(* table (two nodes a process) has room.                                   *)
(***************************************************************************)
EXTENDS Integers

CONSTANTS Pids,             \* of the processes but idle, which is 0
          FS_FD_MAX,        \* descriptors of a process
          Apps,             \* program names
          Dirs,             \* directories to chdir to
          Files             \* files to open: the pid of a status file, or Other

InitPid == 1                \* init_proc, the shell

ASSUME ProcfsSizes == Pids \subseteq Nat \ {0} /\ InitPid \in Pids /\ FS_FD_MAX \in Nat \ {0}
ASSUME ProcfsNames == "shell" \in Apps /\ "/" \in Dirs

Fds == 0 .. FS_FD_MAX - 1
Closed == 0
Other == -1                 \* a file that is not in /proc
ASSUME ProcfsFiles == Files \subseteq Pids \cup {Other}
AnyChild == -1              \* wait_pid of a process that waits for no child, or for any

VARIABLES
    procs,      \* what the table says of every process
    wait_pid,   \* the child it waits for, which the file does not show
    dir,        \* /proc/<pid> exists
    status,     \* contents of /proc/<pid>/status
    fd_table,   \* per process: the pid whose status each descriptor has open
    missed      \* history: the last sync of the process failed

procfsVars == <<procs, wait_pid, dir, status, fd_table, missed>>

Unused == [state |-> "UNUSED", reason |-> "NONE", ppid |-> 0, name |-> "", cwd |-> ""]
NoFile == [state |-> "NO FILE", reason |-> "", ppid |-> 0, name |-> "", cwd |-> ""]
EmptyFile == [state |-> "EMPTY FILE", reason |-> "", ppid |-> 0, name |-> "", cwd |-> ""]
Shell == [state |-> "RUN", reason |-> "NONE", ppid |-> 0, name |-> "shell", cwd |-> "/"]

ProcfsInit ==
    /\ procs = [p \in Pids |-> IF p = InitPid THEN Shell ELSE Unused]
    /\ wait_pid = [p \in Pids |-> AnyChild]
    /\ dir = [p \in Pids |-> p = InitPid]
    /\ status = [p \in Pids |-> IF p = InitPid THEN Shell ELSE NoFile]
    /\ fd_table = [p \in Pids |-> [f \in Fds |-> Closed]]
    /\ missed = [p \in Pids |-> FALSE]

IsRun(p) == procs[p].state = "RUN"
Waits(p, reason) == procs[p].state = "WAIT" /\ procs[p].reason = reason
IsOpen(p, fds) == \E q \in Pids, f \in Fds : fds[q][f] = p
HasFreeFd(p, fds) == \E f \in Fds : fds[p][f] = Closed

-----------------------------------------------------------------------------
\* What the files say after a sync of the processes in S, when the table is T
\* and the descriptors are fds: open with O_CREAT and O_TRUNC, write, close.
Synced(S, T, fds) ==
    [p \in Pids |-> IF p \notin S THEN status[p] ELSE IF HasFreeFd(p, fds) THEN T[p] ELSE EmptyFile]

SyncMissed(S, fds) ==
    [p \in Pids |-> IF p \in S THEN ~HasFreeFd(p, fds) ELSE missed[p]]

\* procfs_sync_process for the processes in S, after the table has become T
\* and the descriptors fds: mkdir, and the file.
procfs_sync_process(S, T, fds) ==
    /\ dir' = [p \in Pids |-> dir[p] \/ p \in S]
    /\ status' = Synced(S, T, fds)
    /\ missed' = SyncMissed(S, fds)
    /\ procs' = T
    /\ fd_table' = fds

Change(T, S) == procfs_sync_process(S, T, fd_table)

\* Every change of wait_reason back to NONE sets wait_pid to -1.
StopWaiting(S) == wait_pid' = [p \in Pids |-> IF p \in S THEN AnyChild ELSE wait_pid[p]]

\* recycle_process_slot: procfs_cleanup comes before the descriptors of the
\* process are closed, so one of its own can be in the way.
recycle_process_slot(p, T, dir0, status0) ==
    LET kept == IsOpen(p, fd_table) /\ status0[p] # NoFile IN
    /\ status' = [status0 EXCEPT ![p] = IF kept THEN @ ELSE NoFile]
    /\ dir' = [dir0 EXCEPT ![p] = @ /\ kept]
    /\ fd_table' = [fd_table EXCEPT ![p] = [f \in Fds |-> Closed]]
    /\ procs' = [T EXCEPT ![p] = Unused]

\* reap_exited_processes, and wait_for_child_exit for an exited child.
reap(p) ==
    /\ procs[p].state = "EXIT"
    /\ procs[p].ppid = 0 \/ \E q \in Pids : IsRun(q) /\ procs[p].ppid = q
    /\ recycle_process_slot(p, procs, dir, status)
    /\ StopWaiting({p})
    /\ UNCHANGED missed

-----------------------------------------------------------------------------
FirstUnused(c) ==
    procs[c].state = "UNUSED" /\ \A d \in Pids : d < c => procs[d].state # "UNUSED"

\* create_process syncs before the caller sets parent_pid.
clone(p, c, app) ==
    LET new == [Shell EXCEPT !.name = app] IN
    /\ IsRun(p) /\ FirstUnused(c)
    /\ dir' = [dir EXCEPT ![c] = TRUE]
    /\ status' = [status EXCEPT ![c] = new]
    /\ missed' = [missed EXCEPT ![c] = FALSE]
    /\ procs' = [procs EXCEPT ![c] = [new EXCEPT !.ppid = p]]
    /\ UNCHANGED <<wait_pid, fd_table>>

process_fork(p, c) ==
    /\ IsRun(p) /\ FirstUnused(c)
    /\ procfs_sync_process({c}, [procs EXCEPT ![c] = [procs[p] EXCEPT !.ppid = p]],
                           [fd_table EXCEPT ![c] = fd_table[p]])
    /\ UNCHANGED wait_pid

process_exec(p, app) ==
    /\ IsRun(p)
    /\ Change([procs EXCEPT ![p].name = app], {p})
    /\ UNCHANGED wait_pid

syscall_handle_chdir_NoSync(p, d) ==
    /\ IsRun(p)
    /\ Change([procs EXCEPT ![p].cwd = d], {})
    /\ UNCHANGED wait_pid

syscall_handle_chdir(p, d) ==
    /\ IsRun(p)
    /\ Change([procs EXCEPT ![p].cwd = d], {p})
    /\ UNCHANGED wait_pid

\* The children that a process asks for in waitpid.
Children(p, target) == {c \in Pids : procs[c].ppid = p /\ target \in {AnyChild, c}}

\* wait_for_child_exit and process_ipc_recv sync before they yield,
\* syscall_handle_getchar does not.
Wait(p, reason, target) ==
    /\ IsRun(p)
    /\ IF reason = "CHILD_EXIT"
         THEN Children(p, target) # {} /\ \A c \in Children(p, target) : procs[c].state # "EXIT"
         ELSE target = AnyChild
    /\ wait_pid' = [wait_pid EXCEPT ![p] = target]
    /\ Change([procs EXCEPT ![p].state = "WAIT", ![p].reason = reason],
              IF reason = "CONSOLE_INPUT" THEN {} ELSE {p})

Woken(T, S) ==
    [p \in Pids |-> IF p \in S THEN [T[p] EXCEPT !.state = "RUN", !.reason = "NONE"] ELSE T[p]]

wakeup_input_waiters ==
    LET S == {p \in Pids : Waits(p, "CONSOLE_INPUT")} IN
    /\ S # {}
    /\ Change(Woken(procs, S), S)
    /\ StopWaiting(S)

process_ipc_send(p, q) ==
    /\ IsRun(p) /\ Waits(q, "IPC_RECV")
    /\ Change(Woken(procs, {q}), {q})
    /\ StopWaiting({q})

\* orphan_children, EXITED and sync, then notify_child_exit.
Dead(p) ==
    [q \in Pids |->
        IF q = p THEN [procs[p] EXCEPT !.state = "EXIT", !.reason = "NONE"]
        ELSE IF procs[q].ppid = p THEN [procs[q] EXCEPT !.ppid = 0] ELSE procs[q]]
Notified(p) ==
    {q \in Pids : procs[p].ppid = q /\ Waits(q, "CHILD_EXIT") /\ wait_pid[q] \in {AnyChild, p}}

exit(p) ==
    /\ IsRun(p) /\ p # InitPid
    /\ Change(Woken(Dead(p), Notified(p)), {p} \cup Notified(p))
    /\ StopWaiting({p} \cup Notified(p))

\* kill of another process recycles its slot at once; of itself leaves that
\* to the reaper.  The file is written before parent_pid becomes 0.
process_kill_self(p) ==
    /\ IsRun(p) /\ p # InitPid
    /\ LET S == {p} \cup Notified(p)
           T == Woken(Dead(p), Notified(p))
       IN  /\ procs' = [T EXCEPT ![p].ppid = 0]
           /\ dir' = [dir EXCEPT ![p] = TRUE]
           /\ status' = Synced(S, T, fd_table)
           /\ missed' = SyncMissed(S, fd_table)
           /\ StopWaiting(S)
           /\ UNCHANGED fd_table

process_kill(p, t) ==
    /\ IsRun(p) /\ t # p /\ t # InitPid
    /\ procs[t].state \in {"RUN", "WAIT"}
    /\ LET S == {t} \cup Notified(t)
           T == Woken(Dead(t), Notified(t))
       IN  /\ recycle_process_slot(t, T, [dir EXCEPT ![t] = TRUE], Synced(S, T, fd_table))
           /\ missed' = SyncMissed(S, fd_table)
           /\ StopWaiting(S)

-----------------------------------------------------------------------------
(* Descriptors: vfs_alloc_fd takes the lowest free one.                    *)

LowestFree(p, f) == fd_table[p][f] = Closed /\ \A g \in 0 .. f - 1 : fd_table[p][g] # Closed

open(p, f, what) ==
    /\ IsRun(p) /\ LowestFree(p, f)
    /\ what # Other => status[what] # NoFile
    /\ fd_table' = [fd_table EXCEPT ![p][f] = what]
    /\ UNCHANGED <<procs, wait_pid, dir, status, missed>>

close(p, f) ==
    /\ IsRun(p) /\ fd_table[p][f] # Closed
    /\ fd_table' = [fd_table EXCEPT ![p][f] = Closed]
    /\ UNCHANGED <<procs, wait_pid, dir, status, missed>>

ProcfsNext ==
    \/ \E p \in Pids :
          \/ reap(p)
          \/ \E c \in Pids, app \in Apps : clone(p, c, app)
          \/ \E c \in Pids : process_fork(p, c) \/ process_ipc_send(p, c) \/ process_kill(p, c)
          \/ \E app \in Apps : process_exec(p, app)
          \/ \E d \in Dirs : syscall_handle_chdir(p, d)
          \/ \E reason \in {"CHILD_EXIT", "IPC_RECV", "CONSOLE_INPUT"},
                target \in Pids \cup {AnyChild} : Wait(p, reason, target)
          \/ exit(p)
          \/ process_kill_self(p)
          \/ \E f \in Fds, what \in Files : open(p, f, what)
          \/ \E f \in Fds : close(p, f)
    \/ wakeup_input_waiters

ProcfsSpec == ProcfsInit /\ [][ProcfsNext]_procfsVars

-----------------------------------------------------------------------------
Records == [state : {"UNUSED", "RUN", "WAIT", "EXIT", "NO FILE", "EMPTY FILE"},
            reason : {"", "NONE", "CHILD_EXIT", "IPC_RECV", "CONSOLE_INPUT"},
            ppid : Pids \cup {0}, name : Apps \cup {""}, cwd : Dirs \cup {""}]

\* What /proc/<pid>/status says of a live process is what the table says of
\* it, whatever happened to the slot before: its name and its directory
\* always, its state and wait reason unless it waits for the console, and the
\* parent only when it was forked and never orphaned (procfs_sync_process and
\* the places that call it).  A process whose descriptors were all in use at
\* its last change has an empty file: never one that tells of an older state.
StatusFresh ==
    \A p \in Pids : procs[p].state # "UNUSED" =>
        IF missed[p] THEN status[p] = EmptyFile
        ELSE /\ status[p].name = procs[p].name /\ status[p].cwd = procs[p].cwd
             /\ Waits(p, "CONSOLE_INPUT") \/
                   (status[p].state = procs[p].state /\ status[p].reason = procs[p].reason)
             /\ status[p].ppid \in {0, procs[p].ppid} \/ procs[p].ppid = 0

\* What stays behind in /proc for a process that is gone is a directory with
\* its status file, which says EXIT, or nothing if that last sync failed; an
\* empty directory never stays (procfs_cleanup: unlink before rmdir).
LeftoverIsDead ==
    \A p \in Pids : procs[p].state = "UNUSED" /\ dir[p] =>
        IF missed[p] THEN status[p] = EmptyFile ELSE status[p].state = "EXIT"

\* The table, the files and the descriptors have their types, and a status
\* file is in a directory that exists (procfs_sync_process).
ProcfsTypeOK ==
    /\ procs \in [Pids -> Records]
    /\ wait_pid \in [Pids -> Pids \cup {AnyChild}]
    /\ status \in [Pids -> Records]
    /\ fd_table \in [Pids -> [Fds -> Pids \cup {Closed, Other}]]
    /\ \A p \in Pids : status[p] # NoFile => dir[p]
    /\ \A p \in Pids : IsOpen(p, fd_table) => status[p] # NoFile

\* Together: /proc tells the truth of the living and lists the dead as dead.
ProcTellsTruth == ProcfsTypeOK /\ StatusFresh /\ LeftoverIsDead

\* A process that is killed by another one is gone from /proc when kill returns
\* (docs/procfs.md, process_kill).  It is not so while anyone, the killed
\* process included, has its status file open.
KilledIsGone ==
    [][\A t \in Pids :
          procs[t].state \in {"RUN", "WAIT"} /\ procs'[t].state = "UNUSED" => ~dir'[t]]_procfsVars
=============================================================================
