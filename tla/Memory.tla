------------------------------- MODULE Memory -------------------------------
(***************************************************************************)
(* Physical pages: the bitmap allocator (kernel/mm/memory.c) and the pages *)
(* every process owns through its Sv32 tables, as create_process, fork,    *)
(* exec and recycle_process_slot build and tear them down                  *)
(* (kernel/proc/process.c).                                                *)
(*                                                                         *)
(* The kernel runs with interrupts disabled, so one of these operations    *)
(* runs at a time; it is the job of the kernel, and every call of          *)
(* alloc_pages or free_pages is a step of its own, after which the machine *)
(* may have stopped in PANIC.  A page is its index in the bitmap.  Callers *)
(* only ask for one page at a time.                                        *)
(*                                                                         *)
(* A word of memory is a page table entry (the page it names, or NULL) or  *)
(* user data.  The entries of the identity map of kernel and devices name  *)
(* no allocated page and are left out; the tables that hold them are not.  *)
(* fork and create keep the new table in a local variable first; here it   *)
(* is in page_table from the start, where nobody looks for it.             *)
(***************************************************************************)
EXTENDS Integers

CONSTANTS PROCS_MAX,
          managed_pages,
          ENTRIES,          \* words of a page: 1024
          KernelVpn1,       \* first-level entries of kernel and devices
          USER_VPN1,        \* first-level entry of USER_BASE
          Images            \* sizes of the programs, in pages

ASSUME MemorySizes == PROCS_MAX \in Nat \ {0} /\ managed_pages \in Nat \ {0}
ASSUME TableSizes ==
    /\ ENTRIES \in Nat \ {0}
    /\ USER_VPN1 \in Nat
    /\ Images \subseteq Nat \ {0}
    /\ \E n \in Images : \A k \in Images : k <= n
\* Programs end below the next thing mapped, and kernel and devices are not
\* mapped at user addresses.
ASSUME MapAssumption ==
    /\ KernelVpn1 \subseteq 0 .. ENTRIES - 1
    /\ \A n \in Images : \A i \in 0 .. n - 1 :
          USER_VPN1 + (i \div ENTRIES) \in (0 .. ENTRIES - 1) \ KernelVpn1

Slots == 0 .. PROCS_MAX - 1
Pages == 0 .. managed_pages - 1
Entries == 0 .. ENTRIES - 1
NULL == -1
DATA == -2
Words == Pages \cup {NULL, DATA}
PageOrNull == Pages \cup {NULL}
idle_proc == 0
init_proc == 1

VARIABLES
    bitmap,         \* pages whose bit is set
    mem,            \* contents of every page
    page_table,     \* first-level table of every slot
    user_pages,
    live,           \* slots in use
    current_proc,
    job             \* what the kernel is doing

vars == <<bitmap, mem, page_table, user_pages, live, current_proc, job>>

Ops == {"none", "map_kernel", "load", "free_user", "free_tables",
        "out_of_memory", "double_free"}

\* slot is worked on, i counts user pages, n is the size of the new image,
\* page is allocated and not yet mapped, parent is the process a fork copies
\* (or the slot itself) and then says what follows the freeing of user pages.
NoJob == [op |-> "none", slot |-> idle_proc, i |-> 0, n |-> 0, page |-> NULL,
          parent |-> idle_proc, then |-> "none"]

Job(op, s, n, parent, then) ==
    [op |-> op, slot |-> s, i |-> 0, n |-> n, page |-> NULL,
     parent |-> parent, then |-> then]

\* The state memory_init leaves.
Init ==
    /\ bitmap = {}
    /\ mem = [p \in Pages |-> [e \in Entries |-> DATA]]
    /\ page_table = [s \in Slots |-> NULL]
    /\ user_pages = [s \in Slots |-> 0]
    /\ live = {}
    /\ current_proc = idle_proc
    /\ job = NoJob

-----------------------------------------------------------------------------
(* Tables.                                                                 *)

vpn1(i) == USER_VPN1 + (i \div ENTRIES)
vpn0(i) == i % ENTRIES

table1(s) == mem[page_table[s]]
table0(s, v) == mem[table1(s)[v]]

\* The page that user page i of s is mapped to, or NULL.
UserPage(s, i) == IF table1(s)[vpn1(i)] = NULL THEN NULL
              ELSE table0(s, vpn1(i))[vpn0(i)]

-----------------------------------------------------------------------------
(* The allocator.                                                          *)

\* First fit, and the page is cleared.
FirstFit(p) == p \in Pages \ bitmap /\ \A q \in Pages \ bitmap : p <= q

Cleared == [e \in Entries |-> NULL]

alloc_pages(p) == FirstFit(p) /\ bitmap' = bitmap \cup {p}

\* The bit is tested before it is cleared.
free_pages(p, next) ==
    /\ bitmap' = bitmap \ {p}
    /\ job' = IF p \in bitmap THEN next ELSE [job EXCEPT !.op = "double_free"]

-----------------------------------------------------------------------------
(* Starting a job.                                                         *)

FreeSlot(s) == s \in Slots \ live /\ \A t \in Slots \ live : s <= t

\* A slot and a cleared first-level table.
NewTable(n, parent) ==
    \E s \in Slots, p \in Pages :
        /\ FreeSlot(s)
        /\ alloc_pages(p)
        /\ mem' = [mem EXCEPT ![p] = Cleared]
        /\ page_table' = [page_table EXCEPT ![s] = p]
        /\ job' = Job("map_kernel", s, n, IF parent = NULL THEN s ELSE parent, "none")
        /\ UNCHANGED <<user_pages, live, current_proc>>

Running == job.op = "none" /\ current_proc \in live

\* Boot creates the idle process, without an image, and from it the shell;
\* later processes create others by clone.
create_process ==
    \/ job.op = "none" /\ live = {} /\ NewTable(0, NULL)
    \/ /\ Running
       /\ current_proc = idle_proc => live = {idle_proc}
       /\ \E n \in Images : NewTable(n, NULL)

process_fork ==
    /\ Running /\ current_proc # idle_proc
    /\ NewTable(user_pages[current_proc], current_proc)

process_exec_NoFree ==
    /\ Running /\ current_proc # idle_proc
    /\ \E n \in Images : job' = Job("load", current_proc, n, current_proc, "none")
    /\ UNCHANGED <<bitmap, mem, page_table, user_pages, live, current_proc>>

process_exec ==
    /\ Running /\ current_proc # idle_proc
    /\ \E n \in Images : job' = Job("free_user", current_proc, n, current_proc, "load")
    /\ UNCHANGED <<bitmap, mem, page_table, user_pages, live, current_proc>>

\* A process that exited or was killed; it may be the one that still runs.
\* The shell cannot be killed, and its exit shuts the machine down.
recycle_process_slot(s) ==
    /\ job.op = "none"
    /\ s \in live \ {idle_proc, init_proc}
    /\ job' = Job("free_user", s, 0, s, "free_tables")
    /\ UNCHANGED <<bitmap, mem, page_table, user_pages, live, current_proc>>

\* yield() loads the table of the next process.
yield_switch(s) ==
    /\ job.op = "none"
    /\ s \in live \ {current_proc}
    /\ current_proc' = s
    /\ UNCHANGED <<bitmap, mem, page_table, user_pages, live, job>>

-----------------------------------------------------------------------------
(* The steps of a job.                                                     *)

Unmapped == {v \in KernelVpn1 : table1(job.slot)[v] = NULL}

\* map_page of the first address of a kernel region: its second-level table.
map_kernel ==
    /\ job.op = "map_kernel"
    /\ \E v \in Unmapped, p \in Pages :
        /\ alloc_pages(p)
        /\ mem' = [mem EXCEPT ![p] = Cleared, ![page_table[job.slot]][v] = p]
    /\ UNCHANGED <<page_table, user_pages, live, current_proc, job>>

map_kernel_done ==
    /\ job.op = "map_kernel"
    /\ Unmapped = {}
    /\ job' = [job EXCEPT !.op = "load"]
    /\ UNCHANGED <<bitmap, mem, page_table, user_pages, live, current_proc>>

\* A page for the image, or for the copy of the parent's page, and its
\* contents.  A fork whose parent's entry were not valid would fail; ImageMapped
\* says that there is none.
load_page ==
    /\ job.op = "load"
    /\ job.page = NULL
    /\ job.i < job.n
    /\ job.parent # job.slot => UserPage(job.parent, job.i) # NULL
    /\ \E p \in Pages :
        /\ alloc_pages(p)
        /\ mem' = [mem EXCEPT ![p] = [e \in Entries |-> DATA]]
        /\ job' = [job EXCEPT !.page = p]
    /\ UNCHANGED <<page_table, user_pages, live, current_proc>>

Mapped == [job EXCEPT !.page = NULL, !.i = @ + 1]

\* The second-level table exists.
map_page ==
    LET t == table1(job.slot)[vpn1(job.i)] IN
    /\ job.op = "load"
    /\ job.page # NULL
    /\ t # NULL
    /\ mem' = [mem EXCEPT ![t][vpn0(job.i)] = job.page]
    /\ job' = Mapped
    /\ UNCHANGED <<bitmap, page_table, user_pages, live, current_proc>>

\* It does not, and is allocated.
map_page_table ==
    /\ job.op = "load"
    /\ job.page # NULL
    /\ table1(job.slot)[vpn1(job.i)] = NULL
    /\ \E t \in Pages :
        /\ alloc_pages(t)
        /\ mem' = [mem EXCEPT ![t] = [Cleared EXCEPT ![vpn0(job.i)] = job.page],
                              ![page_table[job.slot]][vpn1(job.i)] = t]
    /\ job' = Mapped
    /\ UNCHANGED <<page_table, user_pages, live, current_proc>>

load_done ==
    /\ job.op = "load"
    /\ job.page = NULL
    /\ job.i = job.n
    /\ user_pages' = [user_pages EXCEPT ![job.slot] = job.n]
    /\ live' = live \cup {job.slot}
    /\ job' = NoJob
    /\ UNCHANGED <<bitmap, mem, page_table, current_proc>>

\* free_user_pages_only, or the first loop of free_process_memory: one user page
\* is freed and its entry cleared; an entry that is not valid is skipped.
free_user_page_KeepsEntry ==
    LET p == UserPage(job.slot, job.i)
        next == [job EXCEPT !.i = @ + 1] IN
    /\ job.op = "free_user"
    /\ job.i < user_pages[job.slot]
    /\ IF p = NULL THEN bitmap' = bitmap /\ job' = next ELSE free_pages(p, next)
    /\ UNCHANGED <<mem, page_table, user_pages, live, current_proc>>

free_user_page ==
    LET t == table1(job.slot)[vpn1(job.i)]
        p == UserPage(job.slot, job.i)
        next == [job EXCEPT !.i = @ + 1] IN
    /\ job.op = "free_user"
    /\ job.i < user_pages[job.slot]
    /\ IF p = NULL
         THEN bitmap' = bitmap /\ mem' = mem /\ job' = next
         ELSE free_pages(p, next) /\ mem' = [mem EXCEPT ![t][vpn0(job.i)] = NULL]
    /\ UNCHANGED <<page_table, user_pages, live, current_proc>>

free_user_done ==
    /\ job.op = "free_user"
    /\ job.i >= user_pages[job.slot]
    /\ user_pages' = [user_pages EXCEPT ![job.slot] = 0]
    /\ job' = [job EXCEPT !.op = job.then, !.i = 0]
    /\ UNCHANGED <<bitmap, mem, page_table, live, current_proc>>

Tables0 == {v \in Entries : table1(job.slot)[v] # NULL}

free_table0 ==
    /\ job.op = "free_tables"
    /\ \E v \in Tables0 :
        /\ \A u \in Tables0 : v <= u
        /\ free_pages(table1(job.slot)[v], job)
        /\ mem' = [mem EXCEPT ![page_table[job.slot]][v] = NULL]
    /\ UNCHANGED <<page_table, user_pages, live, current_proc>>

free_table1 ==
    /\ job.op = "free_tables"
    /\ Tables0 = {}
    /\ free_pages(page_table[job.slot], NoJob)
    /\ page_table' = [page_table EXCEPT ![job.slot] = NULL]
    /\ live' = live \ {job.slot}
    /\ UNCHANGED <<mem, user_pages, current_proc>>

-----------------------------------------------------------------------------
\* A step that needs a page when there is none stops the machine.
NeedsPage ==
    \/ Running /\ live # Slots /\ (current_proc = idle_proc => live = {idle_proc})
    \/ job.op = "map_kernel" /\ Unmapped # {}
    \/ job.op = "load" /\ job.page = NULL /\ job.i < job.n
    \/ job.op = "load" /\ job.page # NULL /\ table1(job.slot)[vpn1(job.i)] = NULL

OutOfMemory ==
    /\ bitmap = Pages
    /\ NeedsPage
    /\ job' = [job EXCEPT !.op = "out_of_memory"]
    /\ UNCHANGED <<bitmap, mem, page_table, user_pages, live, current_proc>>

Panicked == job.op \in {"out_of_memory", "double_free"} /\ UNCHANGED vars

JobStep ==
    \/ map_kernel \/ map_kernel_done
    \/ load_page \/ map_page \/ map_page_table \/ load_done
    \/ free_user_page \/ free_user_done \/ free_table0 \/ free_table1
    \/ OutOfMemory \/ Panicked

Next ==
    \/ create_process \/ process_fork \/ process_exec
    \/ \E s \in Slots : recycle_process_slot(s) \/ yield_switch(s)
    \/ JobStep

Spec == Init /\ [][Next]_vars

-----------------------------------------------------------------------------
(* Properties.                                                             *)

MaxImage == CHOOSE n \in Images : \A k \in Images : k <= n

\* Every variable has its type: a word that is followed is never user data.
TypeOK ==
    /\ bitmap \subseteq Pages
    /\ mem \in [Pages -> [Entries -> Words]]
    /\ page_table \in [Slots -> PageOrNull]
    /\ user_pages \in [Slots -> Images \cup {0}]
    /\ live \subseteq Slots
    /\ current_proc \in Slots
    /\ job \in [op : Ops, slot : Slots, i : Nat, n : Images \cup {0},
                page : PageOrNull, parent : Slots, then : {"none", "load", "free_tables"}]

Built == {s \in Slots : page_table[s] # NULL}

\* What pages are used for: first-level tables, the tables they name, the user
\* pages those name, and the page that is about to be mapped.
Uses ==
    {<<"table1", s, 0>> : s \in Built}
    \cup {u \in {"table0"} \X Built \X Entries : table1(u[2])[u[3]] # NULL}
    \cup {u \in {"user"} \X Built \X (0 .. MaxImage - 1) : UserPage(u[2], u[3]) # NULL}
    \cup {u \in {<<"job", job.slot, 0>>} : job.page # NULL}

PageOf(u) ==
    CASE u[1] = "table1" -> page_table[u[2]]
      [] u[1] = "table0" -> table1(u[2])[u[3]]
      [] u[1] = "user" -> UserPage(u[2], u[3])
      [] u[1] = "job" -> job.page

\* No page has two uses: no process sees a page of another one, and no page
\* table is user memory (alloc_pages clears what the last owner left).
OneOwner == \A u, w \in Uses : PageOf(u) = PageOf(w) => u = w

\* The bitmap is exactly the pages in use, at every step of every operation:
\* nothing leaks when a process is replaced or recycled.
NoLeak == bitmap = {PageOf(u) : u \in Uses}

\* The PANIC of free_pages is never reached (memory.c 113-115).
NoDoubleFree == job.op # "double_free"

\* Together: every page has one owner or is free (alloc_pages, free_pages and
\* the operations that use them).
PagesSound == TypeOK /\ OneOwner /\ NoLeak /\ NoDoubleFree

\* A process has the pages of its image mapped and nothing beyond: a smaller
\* image leaves no entry of a larger one behind (process_exec).
ImageMapped ==
    \A s \in live : job.op = "none" \/ job.slot # s =>
        \A i \in 0 .. MaxImage - 1 : UserPage(s, i) # NULL <=> i < user_pages[s]
=============================================================================
