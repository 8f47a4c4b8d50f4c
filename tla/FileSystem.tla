----------------------------- MODULE FileSystem -----------------------------
(***************************************************************************)
(* The file system of AquaCore (kernel/fs/fs.c): the node tables behind /  *)
(* (persistent) and behind the mount points (volatile), path resolution,   *)
(* the descriptor table of every process, and the image on the block       *)
(* device that every change of / is written to.                            *)
(*                                                                         *)
(* A mount is named by its path: <<>> is /, <<"tmp">> is /tmp.  System     *)
(* calls run with interrupts disabled, so each is one step; what can       *)
(* happen inside one is that a block write fails or that the power does,   *)
(* when some prefix of the new image has reached the disk.                 *)
(*                                                                         *)
(* Calls that change nothing (reads of directories, the console behind     *)
(* the descriptors 0 and 1 when they are closed, every return of -1 before *)
(* the first change) have no action.  The contents of a write are one      *)
(* byte repeated: no decision depends on them.                             *)
(***************************************************************************)
EXTENDS Integers, Sequences

CONSTANTS Pids,               \* slots of the process table
          shell,              \* the process that boot starts
          FS_FD_MAX, FS_MAX_NODES, FS_FILE_MAX_SIZE,
          Names,              \* names of files and directories
          MountPoints,        \* names in / that a volatile file system covers
          Paths,              \* arguments of the calls
          OpenFlags,          \* flag sets passed to open
          Bytes,              \* bytes written, other than 0
          DeviceErrors,       \* blockdev_write may fail
          PowerCuts           \* the machine may lose power

ASSUME PidsAssumption == shell \in Pids
ASSUME SizesAssumption ==
    /\ FS_FD_MAX \in Nat \ {0}
    /\ FS_MAX_NODES \in Nat \ {0}
    /\ FS_FILE_MAX_SIZE \in Nat \ {0}
ASSUME NamesAssumption == MountPoints \subseteq Names /\ Paths \subseteq Seq(Names)
ASSUME FlagsAssumption ==
    OpenFlags \subseteq SUBSET {"O_RDONLY", "O_WRONLY", "O_CREAT", "O_TRUNC"}
ASSUME BytesAssumption == Bytes \subseteq Nat
ASSUME FailureAssumption == DeviceErrors \in BOOLEAN /\ PowerCuts \in BOOLEAN

Nodes == 0 .. FS_MAX_NODES - 1
Fds == 0 .. FS_FD_MAX - 1
Positions == 0 .. FS_FILE_MAX_SIZE - 1
Offsets == 0 .. FS_FILE_MAX_SIZE
Parents == -1 .. FS_MAX_NODES - 1

RootFS == <<>>
Mounts == {RootFS} \cup {<<m>> : m \in MountPoints}

VARIABLES
    nodes,      \* fs->nodes of every mount
    fd_table,
    disk,       \* the image on the block device: magic and nodes
    live,       \* pids whose slot is in use
    phase       \* off, boot (fs_init is running) or up

vars == <<nodes, fd_table, disk, live, phase>>

-----------------------------------------------------------------------------
(* Nodes, descriptors and images.                                          *)

Zeros == [j \in Positions |-> 0]

FreeNode == [used |-> FALSE, type |-> "NONE", parent |-> 0, name |-> "",
             size |-> 0, data |-> Zeros]

NewNode(type, parent, name) ==
    [used |-> TRUE, type |-> type, parent |-> parent, name |-> name,
     size |-> 0, data |-> Zeros]

\* The table nodefs_format leaves: an empty root directory.
nodefs_format == [n \in Nodes |-> IF n = 0 THEN NewNode("DIR", -1, "/")
                                           ELSE FreeNode]

\* A closed descriptor; its other fields are never read.
NoFd == [used |-> FALSE, mount |-> RootFS, node |-> 0, offset |-> 0,
         flags |-> {}]

\* Of the flags, only the two access bits are looked at after open.
NewFd(m, n, flags) ==
    [used |-> TRUE, mount |-> m, node |-> n, offset |-> 0,
     flags |-> flags \cap {"O_RDONLY", "O_WRONLY"}]

AllClosed == [p \in Pids |-> [fd \in Fds |-> NoFd]]

Image(N) == [magic |-> TRUE, nodes |-> N]

NodeType == [used : BOOLEAN, type : {"NONE", "FILE", "DIR"}, parent : Parents,
             name : Names \cup {"", "/"}, size : Offsets,
             data : [Positions -> Bytes \cup {0}]]

Tables == [Nodes -> NodeType]

FdType == [used : BOOLEAN, mount : Mounts, node : Nodes, offset : Offsets,
           flags : SUBSET {"O_RDONLY", "O_WRONLY"}]

Init ==
    /\ nodes = [m \in Mounts |-> nodefs_format]
    /\ fd_table = AllClosed
    /\ disk = [magic |-> FALSE, nodes |-> [n \in Nodes |-> FreeNode]]
    /\ live = {}
    /\ phase = "off"

-----------------------------------------------------------------------------
(* Path resolution.  N is the node table of one mount, s a path inside it. *)

\* The longest mount that is a prefix of the path, and the rest of the path.
vfs_resolve_mount(path) ==
    IF path # <<>> /\ <<Head(path)>> \in Mounts THEN <<Head(path)>> ELSE RootFS

subpath(path) == IF vfs_resolve_mount(path) = RootFS THEN path ELSE Tail(path)

ChildrenNamed(N, parent, name) ==
    {n \in Nodes : N[n].used /\ N[n].parent = parent /\ N[n].name = name}

\* The scan returns the first match.
nodefs_find_child(N, parent, name, child) ==
    /\ child \in ChildrenNamed(N, parent, name)
    /\ \A n \in ChildrenNamed(N, parent, name) : child <= n

\* s resolves to node n; the walk does not look at the types it goes through.
nodefs_resolve_path(N, s, n) ==
    \E walk \in [0 .. Len(s) -> Nodes] :
        /\ walk[0] = 0
        /\ \A i \in 1 .. Len(s) : nodefs_find_child(N, walk[i-1], s[i], walk[i])
        /\ walk[Len(s)] = n

\* parent is the directory that holds the last component of s.
nodefs_resolve_parent_and_leaf(N, s, parent) ==
    /\ s # <<>>
    /\ \E walk \in [0 .. Len(s) - 1 -> Nodes] :
        /\ walk[0] = 0
        /\ \A i \in 1 .. Len(s) - 1 :
              /\ nodefs_find_child(N, walk[i-1], s[i], walk[i])
              /\ N[walk[i]].type = "DIR"
        /\ walk[Len(s) - 1] = parent

Leaf(s) == s[Len(s)]

\* The lowest free node above the root.
nodefs_alloc_node(N, n) ==
    /\ n \in Nodes \ {0}
    /\ ~N[n].used
    /\ \A k \in Nodes \ {0} : ~N[k].used => n <= k

nodefs_is_node_open(m, n) ==
    \E p \in Pids, fd \in Fds :
        fd_table[p][fd].used /\ fd_table[p][fd].mount = m /\ fd_table[p][fd].node = n

nodefs_is_dir_empty(N, n) == ~\E k \in Nodes : N[k].used /\ N[k].parent = n

-----------------------------------------------------------------------------
(* The changes calls make to one node table, as the sets of tables they    *)
(* may leave: empty where the call fails before it changes anything.       *)

\* Where a new node for s goes: the free node and the directory.
Places(N, s) ==
    {pl \in [node : Nodes, parent : Nodes] :
        /\ nodefs_alloc_node(N, pl.node)
        /\ nodefs_resolve_parent_and_leaf(N, s, pl.parent)
        /\ ChildrenNamed(N, pl.parent, Leaf(s)) = {}}

AddNode(N, pl, type, s) == [N EXCEPT ![pl.node] = NewNode(type, pl.parent, Leaf(s))]

nodefs_mkdir_NoLookup(N, s) ==
    {AddNode(N, pl, "DIR", s) :
        pl \in {q \in [node : Nodes, parent : Nodes] :
                  /\ nodefs_alloc_node(N, q.node)
                  /\ nodefs_resolve_parent_and_leaf(N, s, q.parent)}}

nodefs_mkdir(N, s) == {AddNode(N, pl, "DIR", s) : pl \in Places(N, s)}

nodefs_truncate_SizeOnly(N, n) == [N EXCEPT ![n].size = 0]

nodefs_truncate(N, n) == [N EXCEPT ![n].size = 0, ![n].data = Zeros]

to_read(remain, size) == IF size > remain THEN remain ELSE size

\* The bytes that a write of size bytes at an offset has room for.
to_write_Unclamped(offset, size) == size

to_write(offset, size) ==
    IF size > FS_FILE_MAX_SIZE - offset THEN FS_FILE_MAX_SIZE - offset ELSE size

nodefs_write(N, n, offset, len, byte) ==
    [N EXCEPT
        ![n].data = [j \in Positions |->
                        IF offset <= j /\ j < offset + len THEN byte ELSE @[j]],
        ![n].size = IF offset + len > @ THEN offset + len ELSE @]

Unlinkable(m, s) ==
    {n \in Nodes \ {0} :
        /\ nodefs_resolve_path(nodes[m], s, n)
        /\ nodes[m][n].type = "FILE"
        /\ ~nodefs_is_node_open(m, n)}

Removable_AnyType(m, s) ==
    {n \in Nodes \ {0} :
        /\ nodefs_resolve_path(nodes[m], s, n)
        /\ nodefs_is_dir_empty(nodes[m], n)}

Removable_NotEmpty(m, s) ==
    {n \in Nodes \ {0} :
        /\ nodefs_resolve_path(nodes[m], s, n)
        /\ nodes[m][n].type = "DIR"}

Removable(m, s) ==
    {n \in Nodes \ {0} :
        /\ nodefs_resolve_path(nodes[m], s, n)
        /\ nodes[m][n].type = "DIR"
        /\ nodefs_is_dir_empty(nodes[m], n)}

RemoveNode(N, n) == [N EXCEPT ![n] = FreeNode]

-----------------------------------------------------------------------------
(* pfs_sync: the whole image, block after block.  A prefix ends inside     *)
(* some node k: blocks are shorter than nodes and the layout puts block    *)
(* boundaries inside the data (c bytes of it are new) or, for every        *)
(* sixteenth node, between name and size (c = -1).  The last block may     *)
(* reach the disk although the driver gives up on it.                      *)

Torn(old, new, k, c) ==
    [n \in Nodes |->
        IF n < k THEN new[n]
        ELSE IF n > k THEN old[n]
        ELSE [new[n] EXCEPT
                !.size = IF c < 0 THEN old[n].size ELSE @,
                !.data = [j \in Positions |-> IF j < c THEN @[j] ELSE old[n].data[j]]]]

TornImages(new) ==
    {disk} \cup {Image(Torn(disk.nodes, new, k, c)) :
                     k \in Nodes, c \in -1 .. FS_FILE_MAX_SIZE}

\* The change reaches memory in any case; ok is whether pfs_sync returned 0.
pfs_sync(m, new, ok) ==
    /\ nodes' = [nodes EXCEPT ![m] = new]
    /\ \/ /\ ok
          /\ disk' = IF m = RootFS THEN Image(new) ELSE disk
       \/ /\ ~ok
          /\ DeviceErrors
          /\ m = RootFS
          /\ disk' \in TornImages(new)

\* Power is lost: only the disk is left.
LoseMemory ==
    /\ phase' = "off"
    /\ nodes' = [m \in Mounts |-> nodefs_format]
    /\ fd_table' = AllClosed
    /\ live' = {}

-----------------------------------------------------------------------------
(* Boot: fs_init.                                                          *)

ImageValid == disk.magic /\ disk.nodes[0].used /\ disk.nodes[0].type = "DIR"

\* The image is loaded as it is, or replaced by an empty root directory.
nodefs_init_instance ==
    /\ phase = "off"
    /\ LET loaded == IF ImageValid THEN disk.nodes ELSE nodefs_format IN
        /\ nodes' = [m \in Mounts |-> IF m = RootFS THEN loaded ELSE nodefs_format]
        /\ disk' = Image(loaded)
    /\ phase' = "boot"
    /\ UNCHANGED <<fd_table, live>>

\* The first sync of a formatted image stops half way: the kernel panics.
InitialSyncFails ==
    /\ phase = "off"
    /\ DeviceErrors \/ PowerCuts
    /\ ~ImageValid
    /\ disk' \in TornImages(nodefs_format)
    /\ UNCHANGED <<nodes, fd_table, live, phase>>

\* A missing mount point is created; the result of the call is ignored.
fs_init_mountpoint(name, ok) ==
    /\ phase = "boot"
    /\ ~\E n \in Nodes : nodefs_resolve_path(nodes[RootFS], <<name>>, n)
    /\ \E new \in nodefs_mkdir(nodes[RootFS], <<name>>) : pfs_sync(RootFS, new, ok)
    /\ UNCHANGED <<fd_table, live, phase>>

\* All mount points exist, or there is no node left for them.
fs_init_done ==
    /\ phase = "boot"
    /\ \/ \A name \in MountPoints :
            \E n \in Nodes : nodefs_resolve_path(nodes[RootFS], <<name>>, n)
       \/ \A n \in Nodes : nodes[RootFS][n].used
    /\ phase' = "up"
    /\ live' = {shell}
    /\ UNCHANGED <<nodes, fd_table, disk>>

-----------------------------------------------------------------------------
(* System calls.  m is the mount and s the path inside it.                 *)

Up == phase = "up"

\* The first free descriptor gets the entry; without one open returns -1.
vfs_alloc_fd(p, entry) ==
    \/ /\ \A fd \in Fds : fd_table[p][fd].used
       /\ UNCHANGED fd_table
    \/ \E fd \in Fds :
        /\ ~fd_table[p][fd].used
        /\ \A g \in Fds : ~fd_table[p][g].used => fd <= g
        /\ fd_table' = [fd_table EXCEPT ![p][fd] = entry]

\* open of a path that does not exist, with O_CREAT.
open_create(p, m, s, flags, ok) ==
    /\ Up /\ p \in live
    /\ "O_CREAT" \in flags
    /\ ~\E n \in Nodes : nodefs_resolve_path(nodes[m], s, n)
    /\ \E pl \in Places(nodes[m], s) :
        /\ pfs_sync(m, AddNode(nodes[m], pl, "FILE", s), ok)
        /\ \/ ok /\ vfs_alloc_fd(p, NewFd(m, pl.node, flags))
           \/ ~ok /\ UNCHANGED fd_table
    /\ UNCHANGED <<live, phase>>

\* open of a file that exists, left as it is.
open_existing(p, m, s, flags) ==
    /\ Up /\ p \in live
    /\ ~({"O_TRUNC", "O_WRONLY"} \subseteq flags)
    /\ \E n \in Nodes :
        /\ nodefs_resolve_path(nodes[m], s, n)
        /\ nodes[m][n].type = "FILE"
        /\ vfs_alloc_fd(p, NewFd(m, n, flags))
    /\ UNCHANGED <<nodes, disk, live, phase>>

\* open of a file that exists, for writing from the start.
open_truncate(p, m, s, flags, ok) ==
    /\ Up /\ p \in live
    /\ {"O_TRUNC", "O_WRONLY"} \subseteq flags
    /\ \E n \in Nodes :
        /\ nodefs_resolve_path(nodes[m], s, n)
        /\ nodes[m][n].type = "FILE"
        /\ pfs_sync(m, nodefs_truncate(nodes[m], n), ok)
        /\ \/ ok /\ vfs_alloc_fd(p, NewFd(m, n, flags))
           \/ ~ok /\ UNCHANGED fd_table
    /\ UNCHANGED <<live, phase>>

fs_close(p, fd) ==
    /\ Up /\ p \in live
    /\ fd_table[p][fd].used
    /\ fd_table' = [fd_table EXCEPT ![p][fd] = NoFd]
    /\ UNCHANGED <<nodes, disk, live, phase>>

\* The descriptor may be used for flag and still names a file.
Usable(p, fd, flag) ==
    LET f == fd_table[p][fd] IN
        /\ f.used
        /\ flag \in f.flags
        /\ f.node > 0
        /\ nodes[f.mount][f.node].used
        /\ nodes[f.mount][f.node].type = "FILE"

\* A read moves the offset by what there is left to read.
fs_read(p, fd, size) ==
    LET f == fd_table[p][fd]
        remain == nodes[f.mount][f.node].size - f.offset IN
        /\ Up /\ p \in live
        /\ Usable(p, fd, "O_RDONLY")
        /\ remain > 0
        /\ fd_table' = [fd_table EXCEPT ![p][fd].offset =
                            @ + to_read(remain, size)]
        /\ UNCHANGED <<nodes, disk, live, phase>>

fs_write_NoSync(p, fd, size, byte, ok) ==
    LET f == fd_table[p][fd]
        len == to_write(f.offset, size) IN
        /\ Up /\ p \in live
        /\ Usable(p, fd, "O_WRONLY")
        /\ f.offset < FS_FILE_MAX_SIZE
        /\ nodes' = [nodes EXCEPT ![f.mount] =
                        nodefs_write(@, f.node, f.offset, len, byte)]
        /\ fd_table' = [fd_table EXCEPT ![p][fd].offset = @ + len]
        /\ UNCHANGED <<disk, live, phase>>

\* Memory and offset have changed by the time pfs_sync fails.
fs_write(p, fd, size, byte, ok) ==
    LET f == fd_table[p][fd]
        len == to_write(f.offset, size) IN
        /\ Up /\ p \in live
        /\ Usable(p, fd, "O_WRONLY")
        /\ f.offset < FS_FILE_MAX_SIZE
        /\ pfs_sync(f.mount, nodefs_write(nodes[f.mount], f.node, f.offset, len, byte), ok)
        /\ fd_table' = [fd_table EXCEPT ![p][fd].offset = @ + len]
        /\ UNCHANGED <<live, phase>>

fs_mkdir(m, s, ok) ==
    /\ Up
    /\ \E new \in nodefs_mkdir(nodes[m], s) : pfs_sync(m, new, ok)
    /\ UNCHANGED <<fd_table, live, phase>>

fs_unlink_NoSync(m, s, ok) ==
    /\ Up
    /\ \E n \in Unlinkable(m, s) : nodes' = [nodes EXCEPT ![m] = RemoveNode(@, n)]
    /\ UNCHANGED <<fd_table, disk, live, phase>>

fs_unlink(m, s, ok) ==
    /\ Up
    /\ \E n \in Unlinkable(m, s) : pfs_sync(m, RemoveNode(nodes[m], n), ok)
    /\ UNCHANGED <<fd_table, live, phase>>

fs_rmdir(m, s, ok) ==
    /\ Up
    /\ \E n \in Removable(m, s) : pfs_sync(m, RemoveNode(nodes[m], n), ok)
    /\ UNCHANGED <<fd_table, live, phase>>

\* The old entry of new_fd is closed by the copy; offsets are not shared.
fs_dup2(p, old_fd, new_fd) ==
    /\ Up /\ p \in live
    /\ fd_table[p][old_fd].used
    /\ old_fd # new_fd
    /\ fd_table' = [fd_table EXCEPT ![p][new_fd] = fd_table[p][old_fd]]
    /\ UNCHANGED <<nodes, disk, live, phase>>

-----------------------------------------------------------------------------
(* Processes: fork copies the descriptors, a created process starts with   *)
(* what is in its slot, and a recycled slot has all of them closed.        *)

fs_fork_copy_fds(p, child) ==
    /\ Up /\ p \in live /\ child \notin live
    /\ fd_table' = [fd_table EXCEPT ![child] = fd_table[p]]
    /\ live' = live \cup {child}
    /\ UNCHANGED <<nodes, disk, phase>>

create_process(child) ==
    /\ Up /\ child \notin live
    /\ live' = live \cup {child}
    /\ UNCHANGED <<nodes, fd_table, disk, phase>>

fs_on_process_recycle_SkipsLast(p) ==
    /\ Up /\ p \in live \ {shell}
    /\ fd_table' = [fd_table EXCEPT ![p] = [fd \in Fds |->
                        IF fd = FS_FD_MAX - 1 THEN @[fd] ELSE NoFd]]
    /\ live' = live \ {p}
    /\ UNCHANGED <<nodes, disk, phase>>

fs_on_process_recycle(p) ==
    /\ Up /\ p \in live \ {shell}
    /\ fd_table' = [fd_table EXCEPT ![p] = [fd \in Fds |-> NoFd]]
    /\ live' = live \ {p}
    /\ UNCHANGED <<nodes, disk, phase>>

-----------------------------------------------------------------------------
(* Power failures.                                                         *)

\* Between two calls.
PowerFails ==
    /\ PowerCuts
    /\ phase # "off"
    /\ LoseMemory
    /\ UNCHANGED disk

RootPaths == {path \in Paths : vfs_resolve_mount(path) = RootFS}

\* In the middle of the pfs_sync of a call, or of fs_init: part of the table
\* the call was writing is on the disk.
PowerFailsInSync ==
    LET N == nodes[RootFS] IN
    /\ PowerCuts
    /\ \/ phase = "boot" /\ \E name \in MountPoints :
            \E new \in nodefs_mkdir(N, <<name>>) : disk' \in TornImages(new)
       \/ Up /\ \E s \in RootPaths :
            \/ \E new \in nodefs_mkdir(N, s) : disk' \in TornImages(new)
            \/ \E pl \in Places(N, s) : disk' \in TornImages(AddNode(N, pl, "FILE", s))
            \/ \E n \in Unlinkable(RootFS, s) \cup Removable(RootFS, s) :
                  disk' \in TornImages(RemoveNode(N, n))
            \/ \E n \in Nodes :
                  /\ nodefs_resolve_path(N, s, n)
                  /\ N[n].type = "FILE"
                  /\ disk' \in TornImages(nodefs_truncate(N, n))
       \/ Up /\ \E p \in live, fd \in Fds, size \in Offsets, byte \in Bytes :
            LET f == fd_table[p][fd] IN
            /\ Usable(p, fd, "O_WRONLY")
            /\ f.mount = RootFS
            /\ f.offset < FS_FILE_MAX_SIZE
            /\ disk' \in TornImages(nodefs_write(N, f.node, f.offset,
                                                to_write(f.offset, size), byte))
    /\ LoseMemory

-----------------------------------------------------------------------------
Calls(ok) ==
    \/ \E path \in Paths :
        LET m == vfs_resolve_mount(path)
            s == subpath(path) IN
        \/ fs_mkdir(m, s, ok)
        \/ fs_unlink(m, s, ok)
        \/ fs_rmdir(m, s, ok)
        \/ \E p \in Pids, flags \in OpenFlags :
            \/ open_create(p, m, s, flags, ok)
            \/ open_truncate(p, m, s, flags, ok)
            \/ ok /\ open_existing(p, m, s, flags)
    \/ \E p \in Pids, fd \in Fds, size \in 0 .. FS_FILE_MAX_SIZE + 1 :
        \/ ok /\ fs_read(p, fd, size)
        \/ \E byte \in Bytes : fs_write(p, fd, size, byte, ok)

Next ==
    \/ nodefs_init_instance
    \/ InitialSyncFails
    \/ \E name \in MountPoints, ok \in BOOLEAN : fs_init_mountpoint(name, ok)
    \/ fs_init_done
    \/ \E ok \in BOOLEAN : Calls(ok)
    \/ \E p \in Pids, fd \in Fds : fs_close(p, fd)
    \/ \E p \in Pids, old_fd, new_fd \in Fds : fs_dup2(p, old_fd, new_fd)
    \/ \E p, child \in Pids : fs_fork_copy_fds(p, child)
    \/ \E p \in Pids : create_process(p) \/ fs_on_process_recycle(p)
    \/ PowerFails
    \/ PowerFailsInSync

Spec == Init /\ [][Next]_vars

-----------------------------------------------------------------------------
(* Properties.                                                             *)

\* Every variable has its type: in particular sizes and offsets stay within
\* FS_FILE_MAX_SIZE, so that no write leaves the data of a node (fs.c 470-484).
TypeOK ==
    /\ nodes \in [Mounts -> Tables]
    /\ fd_table \in [Pids -> [Fds -> FdType]]
    /\ disk \in [magic : BOOLEAN, nodes : Tables]
    /\ live \subseteq Pids
    /\ phase \in {"off", "boot", "up"}

\* An open descriptor names a file that exists: unlink refuses an open file,
\* rmdir refuses files, and the descriptors of a slot are closed before it is
\* used again, so a node is never freed and reused under a descriptor
\* (fs.c 558-577, 579-598).
OpenNodeIsFile ==
    \A p \in Pids, fd \in Fds :
        LET f == fd_table[p][fd] IN
        f.used => nodes[f.mount][f.node].used /\ nodes[f.mount][f.node].type = "FILE"

\* N is a tree: node 0 is a directory, every other node is in a directory that
\* exists, and from every node the way up ends (each set of nodes has one
\* whose parent is outside).
Tree(N) ==
    /\ N[0].used /\ N[0].type = "DIR" /\ N[0].parent = -1
    /\ \A n \in Nodes \ {0} : N[n].used =>
          N[n].parent \in Nodes /\ N[N[n].parent].used /\ N[N[n].parent].type = "DIR"
    /\ \A S \in SUBSET {n \in Nodes \ {0} : N[n].used} :
          S # {} => \E n \in S : N[n].parent \notin S

Siblings(N, a, b) == N[a].used /\ N[b].used /\ N[a].parent = N[b].parent

\* No two entries of a directory have the same name.
NamesUnique(N) ==
    \A a, b \in Nodes : Siblings(N, a, b) /\ N[a].name = N[b].name => a = b

\* Every mounted file system is a tree in which nothing is lost, whatever
\* order calls come in and after every reboot (nodefs_mkdir, nodefs_open,
\* nodefs_unlink, nodefs_rmdir).
TreeSound == \A m \in Mounts : Tree(nodes[m])

\* A path never has two meanings (nodefs_find_child returns the first match).
UniqueNames == \A m \in Mounts : NamesUnique(nodes[m])

\* A descriptor can be ahead of the end of its file when another process has
\* truncated it; what a write would then leave in between is zeros, never
\* bytes of the file's old contents (nodefs_open clears the data, fs.c 414-420).
NoStaleBytes ==
    \A p \in Pids, fd \in Fds :
        LET f == fd_table[p][fd]
            n == nodes[f.mount][f.node] IN
        f.used => \A j \in Positions : n.size <= j /\ j < f.offset => n.data[j] = 0

\* A slot that is not in use holds no descriptor: the next process created in
\* it would inherit it, and its file could never be removed (fs.c 958-970).
FreeSlotClosed ==
    \A p \in Pids \ live : \A fd \in Fds : ~fd_table[p][fd].used

\* While no block write fails, the disk holds exactly what memory holds after
\* every call: no change of / is left unsynchronised (pfs_sync).
Durable == DeviceErrors \/ phase = "off" \/ disk = Image(nodes[RootFS])

\* While no block write fails, the image on the disk is at every moment one
\* from which a sound tree is loaded, although it is written in place and the
\* power may fail between any two blocks (pfs_sync, nodefs_init_instance).
DiskSound == DeviceErrors \/ (disk.magic => Tree(disk.nodes) /\ NamesUnique(disk.nodes))

\* A power failure costs at most the change of the one node that was being
\* written: every other node is on the disk as it was in memory (pfs_sync,
\* fs.c 143-174).
CrashLosesOneNode ==
    [][~DeviceErrors /\ phase # "off" /\ phase' = "off" =>
        \E n \in Nodes : \A k \in Nodes \ {n} : disk'.nodes[k] = nodes[RootFS][k]]_vars
=============================================================================
