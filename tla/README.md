# AquaCore: a TLA+ model of the kernel

AquaCore is a small teaching kernel for RISC-V (RV32, Sv32, one hart, OpenSBI,
QEMU `virt`): processes with fork/exec/waitpid/kill, a timer-driven scheduler,
one-slot IPC mailboxes, a console ring, a RAM file system with mounts and a
persistent image behind a virtio block device, and a shell.  This directory
holds TLA+ modules that model its components, TLC configurations that check
them on small instances, and TLAPS proofs for every instance.  All paths below
are relative to `src/src/`.

## 1. Inventory

| Component | State | Operations | Interacts with |
|---|---|---|---|
| Process table (`kernel/proc/process.c`) | `procs[]`: pid, state, wait_reason, wait_pid, parent_pid, time_slice, mailbox, page table, kernel stack; `current_proc`, `need_resched` | create, fork, clone, exec, exit, kill, waitpid, ipc_send/recv, yield, timer tick, reap, recycle | memory (page tables), fs (descriptors, procfs), console (wait queue), trap entry |
| Trap entry and dispatch (`kernel/kernel.c`, `kernel/trap/*.c`) | sscratch, sepc, sstatus, trap frames on the kernel stacks | timer trap, ecall, return to user, exec restart | everything |
| Console (`kernel/trap/syscall_console.c`) | 64-byte ring: head, tail, count | poll (timer and getchar), pop, sleep | process table |
| Memory (`kernel/mm/memory.c`) | bitmap of managed pages | memory_init, alloc_pages, free_pages, map_page | process table |
| File system (`kernel/fs/fs.c`) | two node trees (RAM and persistent), mount table, descriptor table per process | open, close, read, write, mkdir, readdir, unlink, rmdir, dup2, fork copy, recycle, sync of the image | block device, process table |
| procfs (`process.c` 818-993) | `/proc/<pid>/status` files | sync on state changes, cleanup on recycle | file system, using the process's own descriptors |
| Block driver (`kernel/fs/blockdev_virtio.c`) | virtqueue memory, used index, device status | init, request, busy wait with timeout, reset and retry | the device, which answers asynchronously |
| Boot, timer, RTC, SBI | device registers | boot, arming the next interrupt, reading clocks word by word | traps, `gettime` |
| Shell and user programs (`user/`) | command line array, history ring and file, descriptors 0 and 1, working directory | line editing, history, command loop with redirection, path resolution, ls | system calls |
| Common library (`lib/commonlibs.c`) | - | bounded copies, date conversion, division, printing | everything |

What is hard in this code.  The kernel runs with interrupts disabled, so two
system calls never overlap; but a call that sleeps is suspended in a loop on
its own kernel stack, and between its sleep and its resumption any sequence of
other calls runs: exits, kills, reaps, reuse of slots and of pids (a pid *is* a
slot number).  Timer traps interleave with user code and with the `wfi` in
`yield()`.  Wakeups happen in five places.  A process that dies goes on
executing kernel code until the switch.  On the file system side, procfs uses
the descriptors of the process it describes, an image is written block by block,
and a device may answer after its request timed out.  Clocks run on between the
reads of their two words.  User programs are loops of system calls, and between
two of them files, directories and processes come and go.  `PROJECT.json` lists each
hazard at the line where it bites, with the properties that cover it.

What makes each component correct: processes - no lost wakeup, no dangling
parent, no dead context resumed, zombies kept for their parents and slots given
back, every runnable process scheduled; memory - pages have one owner and none
leak; console - a FIFO; file system - a tree without lost nodes, descriptors
that never name a freed node, an image that survives a crash; procfs - the truth
about live processes; driver - a completed request is the one that was asked
for, every call returns; traps - a process resumes where it stopped, on its own
stack; clocks - no torn reading is believed; shell - a line is edited as a text,
remembered as entered, runs with the files it names and leaves the console as it
was; paths - an argument means the file its names lead to.

## 2. Modules

### Process

`Process.tla` is the process table and everything that changes it.  The fields
of `struct process` are functions over `Slots`, under their C names; the three
`ipc_*` fields, which are always set together, form `mailbox[s]`.  Three
variables stand for what C keeps elsewhere:

* `resume_at[s]` is the saved kernel context of slot `s` abstracted to the call
  it is suspended in (`getchar`, `waitpid`, `ipc_recv`, `exit`, `kill`), or
  `user`; `target_pid[s]` is the argument of a suspended waitpid, which lives
  on the kernel stack, while the field `wait_pid` is reset by the wakeup;
* `cpu` is the phase of the hart: `run` (a process, in user mode or about to go
  on with its call), `reap` and `pick` (the two parts of `yield()`), `wfi`,
  `halt`;
* `satp` is the slot whose page table is loaded.

A system call is one action from entry to its return or to its call of
`yield()`; since interrupts are disabled nothing can come in between.  A
blocking call has one action per way its loop body can go, enabled both when the
call is made and when the process is resumed inside it.  `yield()` is
`reap_exited_processes`, then one of `yield_idle`, `yield_same`,
`yield_switch`; `wfi` waits for `TimerInWfi`, which goes back to `pick` without
reaping, as the `continue` in the code does.  The serial line is the
environment: a poll finds any number of characters that fits the ring.

Calls that fail without changing anything (`-1`, `-2`, `-3` returns, a full
table) are stuttering steps.  `run_ticks` and `schedule_count` are only ever
printed and left out.  The text of procfs, user pages, descriptors and registers
are other components.

### ProcTree

`ProcTree.tla` is what programs may rely on: processes are free, live or
zombie; zombies have a live parent and wait for it; a process that ends orphans
its children and its zombies vanish; a message stays until its receiver takes
it.  `Process` implements it under the mapping at the end of `Process.tla`: an
exited process without a parent counts as free, so that reaping, whenever it
happens, is invisible.

### FileSystem

`FileSystem.tla` is `kernel/fs/fs.c` as the system calls of `syscall_fs.c` drive
it.  `nodes[m]` is the node table of mount `m` (a mount is named by its path),
`fd_table` is `fd_table`, `disk` is what the blocks of the persistent image
hold (`magic` and a node table), `live` is the set of slots in use and `phase`
tells whether the machine is off, in `fs_init` or up.  Paths are sequences of
names, as `next_component` sees them; two spellings of one path (a doubled
slash) are not distinguished, so a path that hides its mount point from
`vfs_match_mount` that way is outside the model.

Path resolution is stated as a relation: a walk from node 0 in which each step
is the first child of that name, through nodes of any type for
`nodefs_resolve_path` and through directories for
`nodefs_resolve_parent_and_leaf`.  What a call does to a table is an operator
that returns the new table (`AddNode`, `RemoveNode`, `nodefs_truncate`,
`nodefs_write`); every such change goes through `pfs_sync`, which puts it in
memory first and then writes the whole image of `/`.  `open` is three actions
(create, truncate, as it is), each ending in `vfs_alloc_fd`, which may find no
descriptor after the file was created.

Failures.  A block write may fail (`DeviceErrors`): the call returns -1, memory
keeps the change, and the disk has some prefix of the new image.  The power may
fail (`PowerCuts`) between two calls or between two blocks of an image: memory
is lost, the disk has such a prefix, and the next step is a boot.  `Torn` is a
prefix that ends in node `k`: 512-byte blocks and 544-byte nodes behind a 4-byte
magic put a block boundary inside the data of a node, or between its name and
size for every sixteenth one, and nowhere else.

### Memory

`Memory.tla` is the bitmap allocator and what is done with its pages.  `bitmap`
is the set of pages whose bit is set, `mem` the contents of every page as words
(a page table entry or user data), `page_table` and `user_pages` are the fields
of `struct process`; a first-level table is the page `page_table[s]`, a
second-level table a page that an entry of it names, so that a table whose page
was freed and reused really has other contents.  Creating, forking, executing
and recycling are jobs: the kernel has at most one, and every `alloc_pages` or
`free_pages` of it is a step, because each of them may end in PANIC.  When a
slot is recycled is decided by the process table; here it may happen at any
time a job may start.  Second-level tables of the identity map are allocated and
freed, their entries are left out: no code that is modelled reads them.
`MapAssumption` says what the memory layout gives: no page of a program lies
under a first-level entry of the kernel's map.

### BlockDevice and VirtioBlk

`BlockDevice.tla` is what `blockdev.h` promises: a read or write of one block
that takes effect inside the call if it returns 0 and may or may not if it
fails.  `VirtioBlk.tla` is the driver: one request at a time through three
descriptors, one header and one status byte, polled under a spin limit, and after
a timeout a reset, a probe read and one retry.  The device is a process of its
own that takes, serves and answers what it finds in the ring; it may report an
error or hang.  Indices are counted modulo `IDX`, as the 16-bit ones of the ring.
The feature exchange at boot is one step that works or fails.  With `Late = FALSE`
a device that misses the limit stays silent until it is reset; with `Late = TRUE`
it may answer after the limit.  A probe that fails is followed by STATUS = FAILED and
no reset (`StatusFailed`): the device may go on or be silent from there.  `faults` counts hangs and errors within a call, up
to two.  VirtioBlk implements BlockDevice, which is the block write that
`FileSystem` assumes.

### Trap

`Trap.tla` is `kernel_entry`, `handle_trap` and the return from them, with
`switch_context`, the contexts that fork and create build by hand, `wfi` and the
boot code.  Variables are the registers (`sepc`, `sscratch`, `sstatus`, the stack
pointer) and the frames on each kernel stack.  A user address is a count of
instructions, a kernel address the name of a point in the code; `t0` stands apart
from the other general registers because `kernel_entry` uses it.  Which processes
wait or die is left to `Process`: here a call may wake, kill or collect any.

### Procfs

`Procfs.tla` is `/proc/<pid>/status` beside the fields it prints (name, state,
parent, working directory): each change of a process with the sync the code makes
after it, the descriptors that hold a status file open, and the cleanup in
`recycle_process_slot`.  A sync opens the file in the descriptor table of the
process it describes; if that is full, `fs_open` has created or truncated the file
before it fails, so an empty file is left (`EmptyFile`; `missed` records that the
last sync failed).  `wait_pid` decides whom the death of a child wakes and syncs,
but is not in the file.  The text is a record.

### Shell, LineEdit and History

`Shell.tla` is the command loop from a line to the next prompt: parsing of words
and redirections, open, dup2 and close of descriptors 0 and 1, commands of the
shell, fork, exec and waitpid, children that exit at any time.  No child has
pid 0, and the console is not among the files (`SlotsAssumption`, `NotFiles`).

`LineEdit.tla` is the key loop of `main` on the character array it really uses,
with what earlier lines left behind the end; `Editor.tla` is a text with a cursor,
a history and a draft, and LineEdit implements it.  `screen` is the text behind
the prompt, the cursor's place on it is left out.  Neither a key nor the name of
a program is a NUL (`NamesAssumption`).

The two share the sizes in `ShellLimits.tla`.  `History.tla` is the ring of lines and the file it is saved to and loaded from,
with escapes, in pieces of the code's buffer, and with several shells on one file
and a kill between any two steps.  A line that is entered is not empty, fits a
command line and has no carriage return in it (`EnteredAssumption`): the key loop of
`main` sees to that.

### UserPath, Listing, ExecArgs

`UserPath.tla` is `user_path_resolve` on sequences of characters, with the cut
copies of `strcpy_s` and `strcat_s`, under cd, mkdir and rmdir; the reference
(`Meant`) works on lists of names.  No argument is empty (`ArgsAssumption`).

`Listing.tla` extends `FileSystem` with ls: readdir by number, one call at a time,
while every call of the file system goes on around it.  `during` is history: the
names that were there all the time, and whether any came or went.

`ExecArgs.tla` is the way of a program's words: copied from the caller by execv,
kept in the process, handed to main by getargs, across fork, clone and the reuse
of a slot.  Words are C strings, so they have no NUL in them (`WordsAssumption`).

### Console, Clock, Calendar

`Console.tla` is the ring of `syscall_console.c` with its contents; the
characters are numbered, so that order and loss are visible.  What it shares with
`Process` has other names here (`ring_count`, `poll_input`, `wakeup_readers`).  Its readers are
processes that make calls, wait or have been woken.

`Clock.tla` is the RTC and the machine timer, each a pair of words that runs on
between two instructions: `rtc_now_ns` with its second look at the high word,
`rdtime` without one, the two writes of `stimecmp`, and the 64-by-32-bit division
of gettime.

`Calendar.tla` is the date in `unix_time_to_utc_str` against a calendar that is
turned one day at a time.

### The instances

`MCProcess` and `MCFileSystem` give one module its constants.  `MCLiveness`
(Process, VirtioBlk, Console), `MCKernelParts` (Trap, Clock, Procfs), `MCPrograms`
(Shell, LineEdit, History, UserPath, Calendar, Memory) and `MCListing` (Listing,
FileSystem on a failing disk, ExecArgs) put several instances in one run; Trap,
VirtioBlk and Procfs need no MC module in their violated runs.
Their components share no variable: `part` is chosen at the start and
says which of them moves, so that TLC goes through the sum of their states and
not through the product.  Where they do interact, the interaction is in the
modules themselves: Process polls and wakes as Console does, FileSystem's block
writes are what BlockDevice promises, Listing runs inside FileSystem.

## 3. Runs

| Run | Bounds | Question |
|---|---|---|
| `process_safety` | 4 slots (idle, shell, two more), slice 1, ring of 2, one message | safety of the table, and `TreeSpec`: refinement of `ProcTree` |
| `liveness` | process table: 4 slots, slice 2, no messages, ring of 1; driver: 2 of 3 blocks within the capacity, two values, ring indices modulo 3, any number of hangs and errors; console: 2 readers, ring of 2, 5 characters; fairness | `OrphanZombieReaped` and `RunningHasSlice`; a return of 0 means done, one hang is survived, every call returns, refinement of `BlockDevice`; FIFO and wakeups |
| `file_sharing` | 2 processes, 2 descriptors each, 3 nodes per mount, files of 2 bytes, the paths `/tmp/a` and `/tmp/a/b` | descriptors against unlink, rmdir, truncate, fork, dup2 and recycle |
| `power_cut` | 1 process, 1 descriptor, 4 nodes, files of 2 bytes, the paths `/a`, `/a/b`, `/b` | the disk after a power failure anywhere, and the next boot |
| `listing` | ls: 2 processes, 4 nodes, 3 names in `/tmp`, one hidden; failing disk: 1 process, 4 nodes, files of 1 byte, the paths of `power_cut`, any block write may fail; exec: 3 processes, 2 rows of 3 bytes, up to 3 words | what ls may miss or repeat; memory after a failed sync; the words main gets |
| `kernel_parts` | traps: idle, shell and two more, two user addresses; clocks: words of 2 bits, 3 "nanoseconds" a second, interval 2, up to 3 ticks between instructions; procfs: 3 processes, 1 descriptor each, one program, two directories, the files opened are the status file of process 2 and one outside `/proc` | resumption, stacks, where interrupts are on; torn readings; `/proc` against the process table |
| `programs` | shell: 4 descriptors, 2 children, lines with every mix of `<`, `>`, `&`, own commands and programs; editor: lines of 2 characters, history of 2; history: 2 shells, a file of 6 bytes read 4 at a time; paths of 6 characters, names of 2, 3 directories; every day from 1970 to November 2100; memory: idle, shell and two more, 14 pages, images of 1 and 2 pages, one kernel region | descriptors and children; refinement of `Editor`, and the screen; what is remembered; resolution and the working directory; the date; ownership of pages |
| `round_robin` | 3 slots, slice 2, fairness | violated: see below |
| `address_space_loaded` | 3 slots | violated: see below |
| `trap_registers` | the traps of `kernel_parts` | violated: see below |
| `block_late` | the driver of `liveness`, answers may come late | violated: see below |
| `procfs_kill` | 2 processes, 1 descriptor each, two programs and directories | violated: see below |

The invariants of the smaller components are checked as conjunctions of named
parts: `DriverSound`, `ConsoleSound`, `TrapStacksSound`, `ClocksRight`,
`ProcTellsTruth`, `PagesSound`, `ListingRight`, `LinesRunAsAsked`, `LineShown`,
`HistoryKept`, `PathsLeadRight`, `ArgsDelivered` and `SoundOnErrors`; each part
has its own comment in the module.  `SlotSound` and `WaitSound` of `Process` are
parts of the invariant that is proved (section 4) and are in no run.

Two processes beside the shell are enough for a grandchild, an orphaned zombie,
a kill by a sibling and the reuse of a slot while another process sleeps; the
proofs below cover every size.  A ring of two characters lets a poll bring more
than one waiter can take.

For the file system, `/tmp/a` can be a file or a directory with an entry, so
that every call meets every kind of node; two descriptors in two slots give
sharing by fork, by dup2 and by a second open; three nodes make the table run
full and reuse every node; two bytes make a gap after a truncation.  On the
disk, four nodes hold the mount point, a directory, its entry and a file beside
it, so that the nodes of a parent and its child are written in either order.

For memory, fourteen pages hold three one-page processes, or two larger ones, so
that memory runs out at every kind of allocation, and two processes beside the
shell leave holes that the next exec or fork fills in another order.

For procfs, one descriptor makes a table full with the first open file, and with a
third process a parent can wait for one child while the other one dies, or be woken
while its own table is full.  Process 2's file can be open in its own table, its
parent's, its child's or its sibling's (`Files`).

For the driver, three blocks of which the device has two give a block that only the
range check of the driver refuses; indices modulo 3 wrap around within one
recovery, which takes three requests.  For the ring, five characters wrap around
a ring of two twice.  For paths, arrays of seven and three characters make cut
paths and cut names with the short arguments that also hold every mix of dots and
slashes.  For the editor, two characters are a line that is full after one
insertion in front, and the rest of the array is what an earlier line left.  Two
bits a word make both words of both clocks start over.

Fairness (`FairSpec` of `Process`): the kernel goes on with what it started (weak fairness
of `KernelStep` and of a resumed call), and the timer interrupt is eventually
taken (strong fairness: it is pending while a system call runs with interrupts
disabled and is taken on the return to user mode, so frequent system calls delay
it but cannot keep it away).  Nothing is assumed of user programs or of the
serial line.

`LiveSpec` of `MCLiveness` has the same fairness for the process table, and two
more.  The driver polls with interrupts disabled, so nothing keeps it from its
next step, and a device that has not hung goes on with its request.  The timer
trap, which polls the console, is taken again and again, also from the `wfi` of
`yield()` when everyone waits.
Nothing is assumed of when a woken process runs: `round_robin` shows that the
scheduler does not promise it, and for the same reason that ls ends is stated as
a bound on its index and not as liveness.

With a slice of more than one tick the timer does not always force a `yield()`:
`process_exec` fills the slice again (`process.c:551`), so a program that execs
itself once per tick is never preempted, and nothing is reaped meanwhile.
`OrphanZombieReaped` therefore excepts a behaviour with exec steps without end.

### Disagreements between the code and what is said about it

* `round_robin`.  `README.md:56` promises a round robin with time slices.  The
  scan of `yield()` starts with the current process, so a process that stays
  runnable is always chosen again: its slice is refilled and no other process
  runs until it blocks or exits.
* `address_space_loaded`.  The comment at `process.c:806` says that a process
  that kills itself cannot be freed at once; but the `yield()` it calls begins
  by reaping, and recycles the slot and zeroes the page table in `satp` while
  the hart still runs on them.  An orphan that exits does the same.
* `block_late`.  `docs/vfs.md:157` says that a change of `/` is reflected on the
  block device.  The driver takes any change of the used index for its own answer
  and does not reset the device after a probe or retry that timed out: a late
  answer to that one makes a later write return 0 undone.  It does not depend on what
  a device makes of STATUS = FAILED: a retry that times out is followed by no such
  write, and its late answer is enough.
* `trap_registers`.  `docs/kernel-bootstrap.md:61` says that `kernel_entry` saves
  the general registers; it loads `t0` with `sstatus` before it saves it.
* `procfs_kill`.  `docs/procfs.md:117` says that `/proc/<pid>` is gone after a kill.
  `procfs_cleanup` cannot unlink a file that anyone has open, the killed process
  included, whose descriptors are closed only afterwards; directory and file stay
  until the slot is used and recycled again.  `LeftoverIsDead` is what holds.

Seen while modelling, on larger or extended instances that are not kept as runs:

* `docs/fork-exec.md:57` says that a fork that fails recycles the child, and the
  code tests the result of `alloc_pages`; but `alloc_pages` never fails, it stops
  the machine (`OutOfMemory` in `Memory`).
* `docs/fork-exec.md:95` says that a successful exec must not return to the old
  code; exec changes the entries of the loaded table and no `sfence.vma` follows,
  so an old translation of `USER_BASE` may still be cached.  Translations are
  outside `Memory`.
* `docs/mode-transition.md:36` says what `sscratch` holds after a switch; a timer
  trap in the first `yield()`, which runs with interrupts on, leaves it on the boot
  stack.
* `docs/shell-redirection.md:43` says that 0 and 1 are free again after a line, so that
  the next command has the console; when `<` has bound 0 and the file of `>` cannot be
  opened, 0 is not closed (`shell/main.c:329`).  `PromptIsClean` excepts this case and
  no other.
* `README.md:77` says that the left and right keys move the cursor, and the comment at
  `shell/utils.c:199` that the line is printed; a character typed at the end stores no
  NUL (`shell/main.c:269`), so the redraw of a cursor key prints the rest of an earlier,
  longer line too.  `ScreenStartsWithLine` is what holds.
* `docs/kernel-operation-walkthrough.md:63` says that arguments are normalised;
  names and paths too long are cut, and name another file.  `ResolvesAsMeant` is
  about those that fit.

## 4. Proofs

`ProcessProofs.tla` proves, for every number of slots, slice, ring size and
message set (assumptions: at least two slots, slice and ring not empty, messages
are naturals - the assumptions named in `Process.tla`):

* `TypeCorrect`: `TypeOK` is inductive by itself;
* `ParentAliveSafe`, `ResumedAliveSafe`: from the inductive invariant
  `TableInv`, which joins `TypeOK`, `SlotSound`, `WaitSound`, `ParentAlive` and
  `ResumedAlive`.  Neither of the two is inductive alone: that no child is left
  behind needs that the process that exits is live and has its slot's number as
  pid (`ResumedAlive`, `SlotSound`); that a woken process resumes in its own loop
  needs that a sleeping process's context and wait reason agree (`WaitSound`);
* `ChildWakeupSafe`, `InputWakeupSafe`, `SliceSafe`, `ForestSafe`: each of these
  invariants is preserved by every step from a state with `TableInv`.  The
  absence of cycles is stated over sets (every set of processes has a member
  whose parent is outside), which makes the step for a new child a first-order
  argument: its slot is nobody's parent;
* `ZombieSafe`: the action property, from `TableInv`.

One lemma per group of actions and property, one step per action.

`FileSystemProofs.tla` proves, for every number of processes, descriptors,
nodes, names and paths and every file size:

* `FsTypeCorrect`, `OpenNodeSafe`, `NoStaleBytesSafe`, `FreeSlotSafe`: from the
  inductive invariant `FsInv`: types, `FdsSound` (an open descriptor names a file
  that exists, and all bytes of it from its end up to the offset are zero),
  `FreeSlotClosed`, no descriptor before the system is up, and node 0 a
  directory.  That a node is never freed under a descriptor needs
  `RootsAreDirs` and types; that a created process has no stale descriptor needs
  `FreeSlotClosed`.  The lemmas `AddSafe`, `RemoveSafe`, `TruncateSafe`,
  `WriteSafe` show once that a change of a table respects the open descriptors
  (`SafeChange`); the actions cite them;
* `TreeSafe`, `NamesSafe`, `DurableSafe`, `DiskSafe`, `CrashSafe`: from `TreeInv`
  on top of `FsInv`: all tables in memory are trees with unique names, the disk
  equals `/` unless a write may fail, what a boot would load is sound, and a disk
  without the magic is empty.  The argument: every call changes one node
  (`OneNode`), so a torn image has the shape of the old or of the new table
  (`TornShape`), and both are sound (`SoundChange`).  That needs the disk to equal
  memory before the call, hence `Durable`.  That no way up ends in a cycle is
  stated over sets, as for processes.

* `ListingSafe`, of `Listing` on top of them: `ListInv` says that while ls runs, the
  entries numbered from its index on are not printed yet unless an entry came
  (`Ahead`), and those below it are printed unless one went (`Behind`).  An entry's
  number is its `Rank` among the entries of the directory.  What makes it inductive
  is `TreeInv`: a call changes one node, so a directory only grows or only shrinks
  by an entry (`Grows`), and every other entry keeps its node and its name.

These six theorems assume `~(DeviceErrors /\ PowerCuts)`.  The assumption is
needed: after a failed sync the disk is behind memory by more than one node, and
when a later sync is cut off by a power failure the image can hold a node whose
directory never reached the disk; with both constants true TLC reaches a reboot
that loads it.  The code has no check at boot that would notice.

Without power failures they cover a disk that fails: `TreeSafe` and `OpenNodeSafe`
are the two parts of `SoundOnErrors` of the `listing` run.

Refinements.  `TreeImplemented` (`ProcessProofs`): every step of the process table
is a step of `ProcTree` or stutters.  One lemma per action; the mapping counts an
exited process without a parent as free, so `reap_exited_processes` must be shown
to touch nothing else, which is where `TableInv` is used.

`VirtioBlkProofs.tla`, for every disk, ring and data, assumes `~Late`; without it
`block_late` shows the properties false:

* `DriverSafe`, `RecoverySafe`: `BlkInv` is `CallInv` (where in a call or in a
  recovery the driver can be, with which arguments) and `RingInv` (the one request
  is in the ring, in the device's hands or answered, never two of them, and
  `faults` counts what the driver has met).  `DriverSound` alone is not inductive:
  that the status byte is of this request needs to know where the request is;
* `DriverImplements`: `BlkSpec` implements `BlockDevice`.

`DeviceProofs.tla`, for every ring and any readers, every width of a word and every
day:

* `ConsoleSafe`: `ConsoleInv` numbers every place a character can be in (read, ring,
  firmware); `Holds` states it of a ring and a count, so that polling and reading are
  lemmas about rings;
* `ClockSafe`: `ClockInv` says of each register which moment of the call its word is
  of.  Two equal high words around a low word are of one moment, because the clock
  only goes forward (`RegistersRight`); a high word with a later low word, as the
  timer trap reads them, is never ahead of the clock.  The division is right because
  after k rounds quotient and remainder are those of the first k bits.  The interval
  is assumed to fit the two words (`ClockSizes`), and the clock stops short of the end
  of 64 bits (`Limit`);
* `CalendarSafe`: `CalendarInv` says that the date on the wall is the one of its day,
  by closed forms of the days before a year and before a month; both loops of the code
  are shown to end at the one year and month those forms allow.

`ProcfsProofs.tla`, for any pids, programs and directories, if there is a
descriptor, the shell and the root: `ProcfsSafe`.  `ProcInv` adds to
`ProcTellsTruth` that a live process has a directory and is not its own parent;
without these a wakeup by a dying child could write into a directory that is gone,
or say something newer than EXIT.  It is stated of one process at a time (`Row`): a
sync that succeeds and one that leaves the file empty are a lemma each (`SyncedRow`,
`MissedRow`), and every action is a sync of some rows, a recycling of one, or both.

`MemoryProofs.tla`, for every number of pages, slots, entries and programs:
`PagesSafe`, `ImageSafe`.  `MemInv` looks at memory through the tables: `Own` maps
every place that can name a page (a first-level table, an entry of one, an entry of
a second-level table, the kernel's hands) to that page, and `Sound` says that it is
injective and that the bitmap is its range.  A step changes what one place names,
because no other walk passes through the page it writes: this is what `Sound` is
needed for in its own proof.  `MapsExactly` says how far a load or a free has got.

`TrapProofs.tla`, for every number of slots and every program:

* `TrapInvariant`: `TrapInv` says for every point of the code what is on the stack in
  use and in the registers, and for every process that does not run what its saved
  context is (`Parked`).  Frames are on the process's own stack, except that a timer
  trap in the first `yield()` can send the first traps of init to the boot stack
  (`Home`);
* `TrapResumes`, `TrapStacksSafe` follow from it.  The argument that carries them is
  `ScanStays`: `yield()` stays with a runnable current process, so a timer trap,
  which does not restore `sepc`, never comes back through a switch.  The scan that
  breaks the round robin (section 3) is what keeps this code right.

`ProgramsProofs.tla`, for every size and any lines, words, names and keys:

* `ShellSafe`: `ShellInv` says at each point of the loop what the descriptors are,
  which children there may be and with which descriptors each was forked;
* `ArgsSafe`: `ArgsInv` says that what getargs would answer now is what was given.
  Words are copied twice, from the caller and into the process: cut twice is cut
  once (`CutTwice`);
* `LineSafe`: `LineInv` adds that no NUL is in front of the end of the line and that
  what browsing can fetch fits an array;
* `EditorImplemented`: `LineSpec` implements `Editor`.  The lemmas say what a shift of
  array cells does to the text in it (`TextInserted`, `TextRemoved`), and that the
  loop over names computes the longest common beginning (`LongestIs`);
* `PathsSafe`: `PathInv` says that the working directory is the plain path of a list of
  names, none of them empty, `.` or `..`, and so is what was resolved last.  The loop
  is described after each prefix of the path (`ScanReaches`): the names walked so far
  and the part of a name read so far.  Cuts are harmless to it: a cut path is still a
  path, and the limit on the result lies behind the limit on the absolute path;
* `HistorySafe`: `HistoryInv` says of each shell what it holds in its phase - in
  particular that one that is loading a file nobody touched has decoded exactly what is
  in front of its offset, wherever the buffer ended - and that the file of a shell that
  saved alone is the encoding of its lines.  Decoding in pieces is decoding at once
  (`DecodeConcat`), decoding an encoded line pushes that line (`EncodedDecodes`,
  `SavedIsLoaded`), and pushing into the ring keeps the newest lines (`PushIntoRing`).

The loops of the code are recursive functions (`Bit`, `YearLoop`, `Scan`, `Names`,
`EncodedAll`, ...).  The library's induction theorems cannot be instantiated by the
provers, so that such a function exists and what it computes is shown by way of a least
counterexample (`HasLeast`, `SeqRecursion`, `SeqInduction`): a set of naturals or of
sequences where the claim fails would have a least or a shortest member.

The inductive invariants were model-checked with the constants of their runs before
they were proved, except `PathInv`, which speaks of all sequences of names: there
`PathsLeadRight`, which it was drawn from, is what TLC checks.  `CalendarInv` was
checked for the first 160000 days, past a leap year that ends a century.

Every safety invariant, action property and refinement of a passing run is stated by
a theorem, `SoundOnErrors` by its two parts.  Model-checked only: liveness
(`OrphanZombieReaped`, `CallReturns`, `WokenByInput`), because fairness is out of the
prover's reach.

## 5. Plan

Done: all modules, model-checked, and a theorem for every property of theirs that is
not liveness.

Open: an image that is behind memory by more than one node (block errors together with
power failures, section 4).  The properties are false there; a weaker one that holds,
of which nodes a boot can find without their directory, is still to be stated.

## 6. Not modelled

* Formatting and printing, SBI calls and CSR encodings: pure output, or one
  instruction.  What a conversion computes is modelled where a property is about
  it (the date, the time, exec arguments, paths, saved history).
* The programs rm, touch, write, cat, date, ps, kill, ipc_rx, bitmap and
  kernel_info: they resolve a path (`UserPath`), make the system calls that
  `FileSystem` and `Process` model, and print the results.  ps and kernel_info
  copy fields out and change nothing.
* A path that hides a mount point behind a doubled slash when it reaches the
  kernel: the programs pass paths that `user_path_resolve` has normalised
  (`CwdCanonical`, `ResolvesAsMeant`), but the shell passes the file of a redirection
  as it was typed (`shell/main.c:310` and `:326`), so there such a path does reach
  `vfs_resolve_mount`.  `Shell` takes the files that can be opened as given
  (`Readable`, `Writable`).
* Cached address translations and `sfence.vma` (section 3).
* Boot failures other than those of the block device: they end in PANIC.
* Block errors together with power failures (section 4).
