-------------------------- MODULE FileSystemProofs --------------------------
(***************************************************************************)
(* Proofs about FileSystem for every number of processes, nodes and        *)
(* descriptors, every file size and every set of paths, and about Listing, *)
(* for every directory.                                                    *)
(***************************************************************************)
EXTENDS Listing, FiniteSetTheorems, WellFoundedInduction, TLAPS

-----------------------------------------------------------------------------
(* Types.                                                                  *)

\* Facts about the index sets that spare the proofs their bounds.
LEMMA IndexFacts ==
    /\ 0 \in Nodes /\ Nodes \subseteq Int /\ Nodes \subseteq Parents /\ -1 \in Parents
    /\ 0 \in Offsets /\ Offsets \subseteq Int /\ Positions \subseteq Int
    /\ Fds \subseteq Int
    /\ RootFS \in Mounts
    /\ Zeros \in [Positions -> Bytes \cup {0}]
BY SizesAssumption DEF Nodes, Parents, Offsets, Positions, Fds, Mounts, Zeros

LEMMA NodeTypes ==
    /\ FreeNode \in NodeType
    /\ \A type \in {"FILE", "DIR"}, parent \in Parents, name \in Names \cup {"/"} :
          NewNode(type, parent, name) \in NodeType
<1>1. FreeNode \in NodeType
    BY IndexFacts DEF FreeNode, NodeType
<1>2. ASSUME NEW type \in {"FILE", "DIR"}, NEW parent \in Parents,
             NEW name \in Names \cup {"/"}
      PROVE  NewNode(type, parent, name) \in NodeType
    BY IndexFacts DEF NewNode, NodeType
<1> QED BY <1>1, <1>2

LEMMA FormatType == nodefs_format \in Tables
<1>1. NewNode("DIR", -1, "/") \in NodeType
    BY NodeTypes, IndexFacts
<1> QED BY <1>1, NodeTypes DEF nodefs_format, Tables

LEMMA FormatRoot ==
    nodefs_format[0].used /\ nodefs_format[0].type = "DIR" /\ nodefs_format[0].parent = -1
BY IndexFacts DEF nodefs_format, NewNode

LEMMA FdTypes ==
    /\ NoFd \in FdType
    /\ \A m \in Mounts, n \in Nodes, flags \in OpenFlags : NewFd(m, n, flags) \in FdType
    /\ AllClosed \in [Pids -> [Fds -> FdType]]
<1>1. NoFd \in FdType
    BY IndexFacts DEF NoFd, FdType
<1>2. ASSUME NEW m \in Mounts, NEW n \in Nodes, NEW flags \in OpenFlags
      PROVE  NewFd(m, n, flags) \in FdType
    BY IndexFacts, FlagsAssumption DEF NewFd, FdType
<1>3. AllClosed \in [Pids -> [Fds -> FdType]]
    BY <1>1 DEF AllClosed
<1> QED BY <1>1, <1>2, <1>3

\* A path inside a mount is a path.
LEMMA NamesSubpath ==
    ASSUME NEW path \in Seq(Names)
    PROVE  vfs_resolve_mount(path) \in Mounts /\ subpath(path) \in Seq(Names)
<1>2. CASE vfs_resolve_mount(path) = RootFS
    BY <1>2, IndexFacts DEF subpath
<1>3. CASE vfs_resolve_mount(path) # RootFS
    <2>1. path # <<>> /\ <<Head(path)>> \in Mounts
        BY <1>3 DEF vfs_resolve_mount
    <2>2. Tail(path) \in Seq(Names)
        BY <2>1
    <2> QED BY <1>3, <2>1, <2>2 DEF subpath, vfs_resolve_mount
<1> QED BY <1>2, <1>3

LEMMA SubpathType ==
    ASSUME NEW path \in Paths
    PROVE  vfs_resolve_mount(path) \in Mounts /\ subpath(path) \in Seq(Names)
BY NamesSubpath, NamesAssumption

\* What a place for a new node is.
LEMMA PlaceFacts ==
    ASSUME NEW N \in Tables, NEW s \in Seq(Names), NEW pl \in Places(N, s)
    PROVE  /\ pl.node \in Nodes \ {0} /\ pl.parent \in Nodes
           /\ ~N[pl.node].used
           /\ Leaf(s) \in Names
           /\ ChildrenNamed(N, pl.parent, Leaf(s)) = {}
           /\ pl.parent = 0 \/ (N[pl.parent].used /\ N[pl.parent].type = "DIR")
<1>1. /\ nodefs_alloc_node(N, pl.node)
      /\ nodefs_resolve_parent_and_leaf(N, s, pl.parent)
      /\ ChildrenNamed(N, pl.parent, Leaf(s)) = {}
      /\ pl.node \in Nodes /\ pl.parent \in Nodes
    BY DEF Places
<1>2. s # <<>> /\ Len(s) \in Nat \ {0}
    BY <1>1 DEF nodefs_resolve_parent_and_leaf
<1>3. Leaf(s) \in Names
    BY <1>2 DEF Leaf
<1>4. PICK walk \in [0 .. Len(s) - 1 -> Nodes] :
        /\ walk[0] = 0
        /\ \A i \in 1 .. Len(s) - 1 :
              /\ nodefs_find_child(N, walk[i-1], s[i], walk[i])
              /\ N[walk[i]].type = "DIR"
        /\ walk[Len(s) - 1] = pl.parent
    BY <1>1 DEF nodefs_resolve_parent_and_leaf
<1>5. CASE Len(s) = 1
    BY <1>1, <1>3, <1>4, <1>5 DEF nodefs_alloc_node
<1>6. CASE Len(s) # 1
    <2>1. Len(s) - 1 \in 1 .. Len(s) - 1
        BY <1>2, <1>6
    <2>2. nodefs_find_child(N, walk[Len(s) - 1 - 1], s[Len(s) - 1], walk[Len(s) - 1])
             /\ N[walk[Len(s) - 1]].type = "DIR"
        BY <1>4, <2>1
    <2>3. N[pl.parent].used /\ N[pl.parent].type = "DIR"
        BY <2>2, <1>4 DEF nodefs_find_child, ChildrenNamed
    <2> QED BY <1>1, <1>3, <2>3 DEF nodefs_alloc_node
<1> QED BY <1>5, <1>6

\* A path resolves to the root or to a node in use.
LEMMA ResolvedUsed ==
    ASSUME NEW N \in Tables, NEW s \in Seq(Names), NEW n \in Nodes,
           nodefs_resolve_path(N, s, n)
    PROVE  n = 0 \/ N[n].used
<1>1. PICK walk \in [0 .. Len(s) -> Nodes] :
        /\ walk[0] = 0
        /\ \A i \in 1 .. Len(s) : nodefs_find_child(N, walk[i-1], s[i], walk[i])
        /\ walk[Len(s)] = n
    BY DEF nodefs_resolve_path
<1>2. CASE Len(s) = 0
    BY <1>1, <1>2
<1>3. CASE Len(s) # 0
    <2>1. Len(s) \in 1 .. Len(s)
        BY <1>3
    <2>2. nodefs_find_child(N, walk[Len(s) - 1], s[Len(s)], walk[Len(s)])
        BY <1>1, <2>1
    <2> QED BY <1>1, <2>2 DEF nodefs_find_child, ChildrenNamed
<1> QED BY <1>2, <1>3

\* The fields of a node of a table.
LEMMA FieldFacts ==
    ASSUME NEW N \in Tables, NEW n \in Nodes
    PROVE  /\ N[n] \in NodeType
           /\ N[n].size \in Offsets /\ N[n].size \in Int
           /\ N[n].size <= N[n].size
<1>1. N[n] \in NodeType
    BY DEF Tables
<1>2. N[n].size \in Offsets
    BY <1>1 DEF NodeType
<1>3. N[n].size \in Int
    BY <1>2, IndexFacts
<1>4. N[n].size <= N[n].size
    BY <1>3
<1> QED BY <1>1, <1>2, <1>3, <1>4

LEMMA AddType ==
    ASSUME NEW N \in Tables, NEW s \in Seq(Names), NEW pl \in Places(N, s),
           NEW type \in {"FILE", "DIR"}
    PROVE  AddNode(N, pl, type, s) \in Tables
<1>1. pl.parent \in Parents /\ Leaf(s) \in Names
    BY PlaceFacts, IndexFacts
<1>2. NewNode(type, pl.parent, Leaf(s)) \in NodeType
    BY <1>1, NodeTypes
<1> QED BY <1>2 DEF AddNode, Tables

LEMMA RemoveType ==
    ASSUME NEW N \in Tables, NEW n \in Nodes
    PROVE  RemoveNode(N, n) \in Tables
BY NodeTypes DEF RemoveNode, Tables

\* Truncation: the node after it, and no other node changes.
LEMMA TruncateFacts ==
    ASSUME NEW N \in Tables, NEW n \in Nodes
    PROVE  /\ nodefs_truncate(N, n) \in Tables
           /\ \A k \in Nodes \ {n} : nodefs_truncate(N, n)[k] = N[k]
           /\ nodefs_truncate(N, n)[n] = [N[n] EXCEPT !.size = 0, !.data = Zeros]
<1> DEFINE x == [N[n] EXCEPT !.size = 0, !.data = Zeros]
<1>1. nodefs_truncate(N, n) = [N EXCEPT ![n] = x]
    BY DEF nodefs_truncate, Tables
<1>2. N[n] \in NodeType
    BY DEF Tables
<1>3. x \in NodeType
    BY <1>2, IndexFacts DEF NodeType
<1> QED BY <1>1, <1>3 DEF Tables

LEMMA ToWriteFacts ==
    ASSUME NEW offset \in Offsets, NEW size \in 0 .. FS_FILE_MAX_SIZE + 1
    PROVE  to_write(offset, size) \in Nat /\ offset + to_write(offset, size) \in Offsets
BY SizesAssumption DEF to_write, Offsets

\* The node that a write leaves.
Written(x, offset, len, byte) ==
    [x EXCEPT
        !.data = [j \in Positions |->
                     IF offset <= j /\ j < offset + len THEN byte ELSE x.data[j]],
        !.size = IF offset + len > x.size THEN offset + len ELSE x.size]

LEMMA WriteFacts ==
    ASSUME NEW N \in Tables, NEW n \in Nodes, NEW offset \in Offsets, NEW len \in Nat,
           NEW byte \in Bytes, offset + len \in Offsets
    PROVE  /\ nodefs_write(N, n, offset, len, byte) \in Tables
           /\ \A k \in Nodes \ {n} : nodefs_write(N, n, offset, len, byte)[k] = N[k]
           /\ nodefs_write(N, n, offset, len, byte)[n] = Written(N[n], offset, len, byte)
<1> DEFINE x == N[n]
           d == [j \in Positions |->
                    IF offset <= j /\ j < offset + len THEN byte ELSE x.data[j]]
           z == IF offset + len > x.size THEN offset + len ELSE x.size
           y == [x EXCEPT !.data = d, !.size = z]
<1>1. nodefs_write(N, n, offset, len, byte) = [N EXCEPT ![n] = y]
    BY DEF nodefs_write, Tables
<1>2. x \in NodeType
    BY DEF Tables
<1>3. x.data \in [Positions -> Bytes \cup {0}] /\ x.size \in Offsets
    BY <1>2 DEF NodeType
<1>4. d \in [Positions -> Bytes \cup {0}]
    BY <1>3
<1>5. z \in Offsets
    BY <1>3
<1>6. y \in NodeType
    <2> HIDE DEF x, d, z
    <2> QED BY <1>2, <1>4, <1>5 DEF NodeType
<1>7. y = Written(N[n], offset, len, byte)
    BY DEF Written
<1> QED BY <1>1, <1>6, <1>7 DEF Tables

LEMMA TornType ==
    ASSUME NEW old \in Tables, NEW new \in Tables, NEW k \in Nodes,
           NEW c \in -1 .. FS_FILE_MAX_SIZE
    PROVE  Torn(old, new, k, c) \in Tables
<1> SUFFICES ASSUME NEW n \in Nodes PROVE Torn(old, new, k, c)[n] \in NodeType
    BY DEF Torn, Tables
<1> DEFINE z == IF c < 0 THEN old[n].size ELSE new[n].size
           d == [j \in Positions |-> IF j < c THEN new[n].data[j] ELSE old[n].data[j]]
<1>1. old[n] \in NodeType /\ new[n] \in NodeType
    BY DEF Tables
<1>2. z \in Offsets /\ d \in [Positions -> Bytes \cup {0}]
    BY <1>1 DEF NodeType
<1>3. [new[n] EXCEPT !.size = z, !.data = d] \in NodeType
    <2> HIDE DEF z, d
    <2> QED BY <1>1, <1>2 DEF NodeType
<1>4. [new[n] EXCEPT !.size = IF c < 0 THEN old[n].size ELSE @,
                     !.data = [j \in Positions |-> IF j < c THEN @[j] ELSE old[n].data[j]]]
        = [new[n] EXCEPT !.size = z, !.data = d]
    BY <1>1 DEF NodeType
<1>5. CASE n < k \/ n > k
    BY <1>1, <1>5, IndexFacts DEF Torn
<1>6. CASE n = k
    BY <1>3, <1>4, <1>6, IndexFacts DEF Torn
<1> QED BY <1>5, <1>6, IndexFacts

Images == [magic : BOOLEAN, nodes : Tables]

LEMMA TornImagesType ==
    ASSUME NEW new \in Tables, disk \in Images
    PROVE  TornImages(new) \subseteq Images
<1>1. ASSUME NEW k \in Nodes, NEW c \in -1 .. FS_FILE_MAX_SIZE
      PROVE  Image(Torn(disk.nodes, new, k, c)) \in Images
    <2>1. disk.nodes \in Tables
        BY DEF Images
    <2> QED BY <2>1, TornType DEF Image, Images
<1> QED BY <1>1 DEF TornImages

LEMMA SyncType ==
    ASSUME nodes \in [Mounts -> Tables], disk \in Images, NEW m \in Mounts,
           NEW new \in Tables, NEW ok \in BOOLEAN, pfs_sync(m, new, ok)
    PROVE  nodes' \in [Mounts -> Tables] /\ disk' \in Images
<1>1. nodes' = [nodes EXCEPT ![m] = new]
    BY DEF pfs_sync
<1>2. disk' = disk \/ disk' = Image(new) \/ disk' \in TornImages(new)
    BY DEF pfs_sync
<1>3. Image(new) \in Images
    BY DEF Image, Images
<1>4. disk' \in Images
    BY <1>2, <1>3, TornImagesType
<1> QED BY <1>1, <1>4

-----------------------------------------------------------------------------
(* Descriptors.  FdSound is what OpenNodeIsFile and NoStaleBytes say of    *)
(* one descriptor f over the tables T.                                     *)

FdSound(T, f) ==
    f.used =>
        /\ T[f.mount][f.node].used /\ T[f.mount][f.node].type = "FILE"
        /\ \A j \in Positions :
              T[f.mount][f.node].size <= j /\ j < f.offset
                  => T[f.mount][f.node].data[j] = 0

FdsSound == \A p \in Pids, fd \in Fds : FdSound(nodes, fd_table[p][fd])

\* Nothing is open before the system is up.
ClosedUntilUp == phase # "up" => fd_table = AllClosed /\ live = {}

\* open tells a directory from a file by its type: node 0 is no file.
RootsAreDirs == \A m \in Mounts : nodes[m][0].used /\ nodes[m][0].type = "DIR"

FsInv == TypeOK /\ FdsSound /\ FreeSlotClosed /\ ClosedUntilUp /\ RootsAreDirs

\* A change of table m that no open descriptor minds.
SafeChange(m, new) ==
    /\ new \in Tables
    /\ new[0].used /\ new[0].type = "DIR"
    /\ \A n \in Nodes : nodefs_is_node_open(m, n) =>
          /\ new[n].used /\ new[n].type = "FILE"
          /\ \/ new[n].data = Zeros
             \/ /\ nodes[m][n].size <= new[n].size
                /\ \A j \in Positions :
                      new[n].size <= j => new[n].data[j] = nodes[m][n].data[j]

LEMMA SafeChangeKeepsFds ==
    ASSUME TypeOK, FdsSound, NEW m \in Mounts, NEW new, SafeChange(m, new),
           nodes' = [nodes EXCEPT ![m] = new], NEW p \in Pids, NEW fd \in Fds
    PROVE  FdSound(nodes', fd_table[p][fd])
<1> DEFINE f == fd_table[p][fd]
<1> SUFFICES ASSUME f.used PROVE FdSound(nodes', f)
    BY DEF FdSound
<1>0. f \in FdType /\ f.mount \in Mounts /\ f.node \in Nodes /\ f.offset \in Offsets
    BY DEF TypeOK, FdType
<1>1. FdSound(nodes, f)
    BY DEF FdsSound
<1>2. CASE f.mount # m
    <2>1. nodes'[f.mount] = nodes[f.mount]
        BY <1>0, <1>2 DEF TypeOK
    <2> QED BY <1>1, <2>1 DEF FdSound
<1>3. CASE f.mount = m
    <2>1. nodes'[f.mount] = new
        BY <1>3 DEF TypeOK
    <2>2. nodefs_is_node_open(m, f.node)
        BY <1>3 DEF nodefs_is_node_open
    <2>3. new[f.node].used /\ new[f.node].type = "FILE"
        BY <1>0, <2>2 DEF SafeChange
    <2>4. ASSUME NEW j \in Positions, new[f.node].size <= j, j < f.offset
          PROVE  new[f.node].data[j] = 0
        <3>1. CASE new[f.node].data = Zeros
            BY <3>1 DEF Zeros
        <3>2. CASE new[f.node].data # Zeros
            <4>1. /\ nodes[m][f.node].size <= new[f.node].size
                  /\ new[f.node].data[j] = nodes[m][f.node].data[j]
                BY <1>0, <2>2, <2>4, <3>2 DEF SafeChange
            <4>2. nodes[m][f.node].size \in Int /\ new[f.node].size \in Int /\ j \in Int
                <5>1. nodes[m] \in Tables /\ new \in Tables
                    BY DEF TypeOK, SafeChange
                <5> QED BY <1>0, <5>1, FieldFacts, IndexFacts
            <4>3. nodes[m][f.node].size <= j
                BY <2>4, <4>1, <4>2
            <4>4. nodes[m][f.node].data[j] = 0
                BY <1>1, <1>3, <2>4, <4>3 DEF FdSound
            <4> QED BY <4>1, <4>4
        <3> QED BY <3>1, <3>2
    <2> QED BY <2>1, <2>3, <2>4 DEF FdSound
<1> QED BY <1>2, <1>3

\* An open node is in use.
LEMMA OpenUsed ==
    ASSUME FdsSound, NEW m, NEW n, nodefs_is_node_open(m, n)
    PROVE  nodes[m][n].used /\ nodes[m][n].type = "FILE"
BY DEF FdsSound, FdSound, nodefs_is_node_open

\* Each kind of change is safe.
LEMMA AddSafe ==
    ASSUME TypeOK, FdsSound, RootsAreDirs, NEW m \in Mounts, NEW s \in Seq(Names),
           NEW pl \in Places(nodes[m], s), NEW type \in {"FILE", "DIR"}
    PROVE  SafeChange(m, AddNode(nodes[m], pl, type, s))
<1> DEFINE new == AddNode(nodes[m], pl, type, s)
<1>1. nodes[m] \in Tables
    BY DEF TypeOK
<1>2. new \in Tables
    BY <1>1, AddType
<1>3. ASSUME NEW n \in Nodes, nodefs_is_node_open(m, n)
      PROVE  new[n] = nodes[m][n] /\ nodes[m][n].used /\ nodes[m][n].type = "FILE"
    <2>1. nodes[m][n].used /\ nodes[m][n].type = "FILE"
        BY <1>3, OpenUsed
    <2>2. n # pl.node
        BY <1>1, <2>1, PlaceFacts
    <2> QED BY <1>1, <2>1, <2>2 DEF AddNode, Tables
<1>4. \A n \in Nodes : nodes[m][n].size <= nodes[m][n].size
    BY <1>1, FieldFacts
<1>5. new[0] = nodes[m][0]
    BY <1>1, PlaceFacts, IndexFacts DEF AddNode, Tables
<1>6. new[0].used /\ new[0].type = "DIR"
    BY <1>5 DEF RootsAreDirs
<1> QED BY <1>2, <1>3, <1>4, <1>6 DEF SafeChange

LEMMA MkdirSafe ==
    ASSUME TypeOK, FdsSound, RootsAreDirs, NEW m \in Mounts, NEW s \in Seq(Names),
           NEW new \in nodefs_mkdir(nodes[m], s)
    PROVE  SafeChange(m, new)
<1>1. PICK pl \in Places(nodes[m], s) : new = AddNode(nodes[m], pl, "DIR", s)
    BY DEF nodefs_mkdir
<1> QED BY <1>1, AddSafe

LEMMA RemoveSafe ==
    ASSUME TypeOK, FdsSound, RootsAreDirs, NEW m \in Mounts, NEW k \in Nodes \ {0},
           ~nodefs_is_node_open(m, k)
    PROVE  SafeChange(m, RemoveNode(nodes[m], k))
<1> DEFINE new == RemoveNode(nodes[m], k)
<1>1. nodes[m] \in Tables
    BY DEF TypeOK
<1>2. new \in Tables
    BY <1>1, RemoveType
<1>3. ASSUME NEW n \in Nodes, nodefs_is_node_open(m, n)
      PROVE  new[n] = nodes[m][n] /\ nodes[m][n].used /\ nodes[m][n].type = "FILE"
    <2>1. nodes[m][n].used /\ nodes[m][n].type = "FILE"
        BY <1>3, OpenUsed
    <2>2. n # k
        BY <1>3
    <2> QED BY <1>1, <2>1, <2>2 DEF RemoveNode, Tables
<1>4. \A n \in Nodes : nodes[m][n].size <= nodes[m][n].size
    BY <1>1, FieldFacts
<1>5. new[0] = nodes[m][0]
    BY <1>1, IndexFacts DEF RemoveNode, Tables
<1>6. new[0].used /\ new[0].type = "DIR"
    BY <1>5 DEF RootsAreDirs
<1> QED BY <1>2, <1>3, <1>4, <1>6 DEF SafeChange

LEMMA TruncateSafe ==
    ASSUME TypeOK, FdsSound, RootsAreDirs, NEW m \in Mounts, NEW k \in Nodes
    PROVE  SafeChange(m, nodefs_truncate(nodes[m], k))
<1> DEFINE new == nodefs_truncate(nodes[m], k)
<1>1. nodes[m] \in Tables
    BY DEF TypeOK
<1>2. /\ new \in Tables
      /\ \A n \in Nodes \ {k} : new[n] = nodes[m][n]
      /\ new[k] = [nodes[m][k] EXCEPT !.size = 0, !.data = Zeros]
    BY <1>1, TruncateFacts
<1>3. /\ new[k].used = nodes[m][k].used /\ new[k].type = nodes[m][k].type
      /\ new[k].data = Zeros
    <2>1. nodes[m][k] \in NodeType
        BY <1>1, FieldFacts
    <2> HIDE DEF new
    <2> QED BY <1>2, <2>1 DEF NodeType
<1>4. \A n \in Nodes : nodes[m][n].size <= nodes[m][n].size
    BY <1>1, FieldFacts
<1> HIDE DEF new
<1>6. new[0].used /\ new[0].type = "DIR"
    BY <1>2, <1>3, IndexFacts DEF RootsAreDirs
<1> SUFFICES ASSUME NEW n \in Nodes, nodefs_is_node_open(m, n)
             PROVE  /\ new[n].used /\ new[n].type = "FILE"
                    /\ \/ new[n].data = Zeros
                       \/ /\ nodes[m][n].size <= new[n].size
                          /\ \A j \in Positions :
                                new[n].size <= j => new[n].data[j] = nodes[m][n].data[j]
    BY <1>2, <1>6 DEF SafeChange, new
<1>5. nodes[m][n].used /\ nodes[m][n].type = "FILE"
    BY OpenUsed
<1> QED BY <1>2, <1>3, <1>4, <1>5

LEMMA WriteSafe ==
    ASSUME TypeOK, FdsSound, RootsAreDirs, NEW m \in Mounts, NEW k \in Nodes, NEW offset \in Offsets,
           NEW len \in Nat, NEW byte \in Bytes, offset + len \in Offsets
    PROVE  /\ SafeChange(m, nodefs_write(nodes[m], k, offset, len, byte))
           /\ offset + len <= nodefs_write(nodes[m], k, offset, len, byte)[k].size
<1> DEFINE new == nodefs_write(nodes[m], k, offset, len, byte)
           x == nodes[m][k]
<1>1. nodes[m] \in Tables
    BY DEF TypeOK
<1>2. /\ new \in Tables
      /\ \A n \in Nodes \ {k} : new[n] = nodes[m][n]
      /\ new[k] = Written(nodes[m][k], offset, len, byte)
    BY <1>1, WriteFacts
<1>3. x \in NodeType /\ x.size \in Offsets /\ x.size \in Int /\ offset \in Int
    BY <1>1, FieldFacts, IndexFacts
<1>4. /\ new[k].used = x.used /\ new[k].type = x.type
      /\ new[k].size = IF offset + len > x.size THEN offset + len ELSE x.size
      /\ \A j \in Positions : new[k].data[j] =
            IF offset <= j /\ j < offset + len THEN byte ELSE x.data[j]
    <2> HIDE DEF new, x
    <2>1. new[k] = Written(x, offset, len, byte)
        BY <1>2 DEF x
    <2> DEFINE d == [j \in Positions |->
                        IF offset <= j /\ j < offset + len THEN byte ELSE x.data[j]]
               z == IF offset + len > x.size THEN offset + len ELSE x.size
    <2>2. new[k] = [x EXCEPT !.data = d, !.size = z]
        BY <2>1 DEF Written
    <2>3. new[k].used = x.used /\ new[k].type = x.type /\ new[k].size = z /\ new[k].data = d
        <3> HIDE DEF d, z
        <3> QED BY <1>3, <2>2 DEF NodeType
    <2> QED BY <2>3
<1>5. x.size <= new[k].size /\ offset + len <= new[k].size
    <2> HIDE DEF new, x
    <2> QED BY <1>3, <1>4
<1>6. \A j \in Positions : new[k].size <= j => new[k].data[j] = x.data[j]
    <2>1. ASSUME NEW j \in Positions, new[k].size <= j PROVE ~(j < offset + len)
        <3>1. j \in Int /\ new[k].size \in Int
            BY <1>2, FieldFacts, IndexFacts
        <3> HIDE DEF new, x
        <3> QED BY <1>3, <1>5, <2>1, <3>1
    <2> QED BY <1>4, <2>1
<1>7. \A n \in Nodes : nodes[m][n].size <= nodes[m][n].size
    BY <1>1, FieldFacts
<1>8. ASSUME NEW n \in Nodes, nodefs_is_node_open(m, n)
      PROVE  /\ new[n].used /\ new[n].type = "FILE"
             /\ nodes[m][n].size <= new[n].size
             /\ \A j \in Positions :
                   new[n].size <= j => new[n].data[j] = nodes[m][n].data[j]
    <2>1. nodes[m][n].used /\ nodes[m][n].type = "FILE"
        BY <1>8, OpenUsed
    <2> HIDE DEF new
    <2> QED BY <1>2, <1>4, <1>5, <1>6, <1>7, <2>1
<1>9. new[0].used /\ new[0].type = "DIR"
    <2> HIDE DEF new
    <2> QED BY <1>2, <1>4, IndexFacts DEF RootsAreDirs
<1> QED BY <1>2, <1>5, <1>8, <1>9 DEF SafeChange

-----------------------------------------------------------------------------
(* FsInv is inductive.                                                     *)

LEMMA AllocFacts ==
    ASSUME TypeOK, NEW p \in Pids, NEW entry \in FdType, vfs_alloc_fd(p, entry)
    PROVE  /\ fd_table' \in [Pids -> [Fds -> FdType]]
           /\ \A q \in Pids, g \in Fds :
                 \/ fd_table'[q][g] = fd_table[q][g]
                 \/ q = p /\ fd_table'[q][g] = entry
<1>1. CASE UNCHANGED fd_table
    BY <1>1 DEF TypeOK
<1>2. ASSUME NEW fd \in Fds, fd_table' = [fd_table EXCEPT ![p][fd] = entry]
      PROVE  /\ fd_table' \in [Pids -> [Fds -> FdType]]
             /\ \A q \in Pids, g \in Fds :
                   \/ fd_table'[q][g] = fd_table[q][g]
                   \/ q = p /\ fd_table'[q][g] = entry
    BY <1>2 DEF TypeOK
<1> QED BY <1>1, <1>2 DEF vfs_alloc_fd

\* What a call has to show: types, and that each entry is sound or old.
LEMMA CallKeeps ==
    ASSUME FsInv, Up, TypeOK', RootsAreDirs', UNCHANGED <<live, phase>>,
           \A q \in Pids, g \in Fds : FdSound(nodes', fd_table[q][g]),
           \A q \in Pids, g \in Fds :
              \/ fd_table'[q][g] = fd_table[q][g]
              \/ q \in live /\ FdSound(nodes', fd_table'[q][g])
    PROVE  FsInv'
<1>0. \A q \in Pids, g \in Fds : FdSound(nodes', fd_table'[q][g])
    <2> SUFFICES ASSUME NEW q \in Pids, NEW g \in Fds
                 PROVE  FdSound(nodes', fd_table'[q][g])
        OBVIOUS
    <2>1. FdSound(nodes', fd_table[q][g])
        BY Zenon
    <2>2. \/ fd_table'[q][g] = fd_table[q][g]
          \/ q \in live /\ FdSound(nodes', fd_table'[q][g])
        BY Zenon
    <2> QED BY <2>1, <2>2, Zenon
<1>1. FdsSound'
    <2> SUFFICES ASSUME NEW q \in Pids, NEW g \in Fds
                 PROVE  FdSound(nodes, fd_table[q][g])'
        BY Zenon DEF FdsSound
    <2>1. FdSound(nodes', fd_table'[q][g])
        BY <1>0, Zenon
    <2> QED BY <2>1, Zenon DEF FdSound
<1>2. FreeSlotClosed'
    BY DEF FsInv, FreeSlotClosed
<1>3. ClosedUntilUp'
    BY DEF Up, ClosedUntilUp
<1> QED BY <1>1, <1>2, <1>3 DEF FsInv

LEMMA SafeChangeKeepsRoots ==
    ASSUME FsInv, NEW m \in Mounts, NEW new, SafeChange(m, new),
           nodes' = [nodes EXCEPT ![m] = new]
    PROVE  RootsAreDirs'
BY DEF FsInv, TypeOK, SafeChange, RootsAreDirs

\* A synchronised change of one table that leaves the descriptors alone.
LEMMA ChangeKeeps ==
    ASSUME FsInv, Up, NEW m \in Mounts, NEW new, SafeChange(m, new),
           NEW ok \in BOOLEAN, pfs_sync(m, new, ok), UNCHANGED <<fd_table, live, phase>>
    PROVE  FsInv'
<1>1. TypeOK /\ FdsSound /\ new \in Tables
    BY DEF FsInv, SafeChange
<1>2. nodes' \in [Mounts -> Tables] /\ disk' \in Images
    BY <1>1, SyncType DEF TypeOK, Images
<1>3. TypeOK'
    BY <1>1, <1>2 DEF TypeOK, Images
<1>4. nodes' = [nodes EXCEPT ![m] = new]
    BY DEF pfs_sync
<1>5. \A q \in Pids, g \in Fds : FdSound(nodes', fd_table[q][g])
    BY <1>1, <1>4, SafeChangeKeepsFds
<1>6. RootsAreDirs'
    BY <1>4, SafeChangeKeepsRoots
<1> QED BY <1>3, <1>5, <1>6, CallKeeps

\* The same with a new descriptor for node n, a file of the new table.
LEMMA OpenKeeps ==
    ASSUME FsInv, Up, NEW m \in Mounts, NEW new, SafeChange(m, new),
           NEW n \in Nodes, new[n].used, new[n].type = "FILE",
           NEW p \in live, NEW flags \in OpenFlags, vfs_alloc_fd(p, NewFd(m, n, flags)),
           nodes' = [nodes EXCEPT ![m] = new], disk' \in Images, UNCHANGED <<live, phase>>
    PROVE  FsInv'
<1> DEFINE entry == NewFd(m, n, flags)
<1>1. TypeOK /\ FdsSound /\ new \in Tables /\ p \in Pids
    BY DEF FsInv, SafeChange, TypeOK
<1>2. entry \in FdType
    BY FdTypes
<1>3. /\ fd_table' \in [Pids -> [Fds -> FdType]]
      /\ \A q \in Pids, g \in Fds :
            \/ fd_table'[q][g] = fd_table[q][g]
            \/ q = p /\ fd_table'[q][g] = entry
    BY <1>1, <1>2, AllocFacts
<1>4. nodes' \in [Mounts -> Tables] /\ nodes'[m] = new
    BY <1>1 DEF TypeOK
<1>5. TypeOK'
    BY <1>1, <1>3, <1>4 DEF TypeOK, Images
<1>6. \A q \in Pids, g \in Fds : FdSound(nodes', fd_table[q][g])
    BY <1>1, SafeChangeKeepsFds
<1>7. FdSound(nodes', entry)
    <2>1. entry.mount = m /\ entry.node = n /\ entry.offset = 0
        BY DEF NewFd
    <2>2. ASSUME NEW j \in Positions PROVE ~(j < entry.offset)
        BY <2>1, SizesAssumption DEF Positions
    <2> QED BY <1>4, <2>1, <2>2 DEF FdSound
<1>8. RootsAreDirs'
    BY SafeChangeKeepsRoots
<1> QED BY <1>3, <1>5, <1>6, <1>7, <1>8, CallKeeps

\* A step that only changes descriptors and keeps every entry sound.
LEMMA DescriptorsKeep ==
    ASSUME FsInv, Up, NEW p \in live, UNCHANGED <<nodes, disk, live, phase>>,
           fd_table' \in [Pids -> [Fds -> FdType]],
           \A q \in Pids, g \in Fds :
              \/ fd_table'[q][g] = fd_table[q][g]
              \/ q \in live /\ FdSound(nodes, fd_table'[q][g])
    PROVE  FsInv'
<1>1. TypeOK'
    BY DEF FsInv, TypeOK
<1>2. \A q \in Pids, g \in Fds : FdSound(nodes', fd_table[q][g])
    BY DEF FsInv, FdsSound
<1>3. RootsAreDirs'
    BY DEF FsInv, RootsAreDirs
<1> QED BY <1>1, <1>2, <1>3, CallKeeps

LEMMA NoFdSound == \A T : FdSound(T, NoFd)
BY DEF FdSound, NoFd

\* A write: the table changes and the descriptor moves to the end of it.
LEMMA WriteKeeps ==
    ASSUME FsInv, NEW p \in Pids, NEW fd \in Fds, NEW size \in 0 .. FS_FILE_MAX_SIZE + 1,
           NEW byte \in Bytes, NEW ok \in BOOLEAN, fs_write(p, fd, size, byte, ok)
    PROVE  FsInv'
<1> DEFINE f == fd_table[p][fd]
           len == to_write(f.offset, size)
           new == nodefs_write(nodes[f.mount], f.node, f.offset, len, byte)
           g1 == fd_table'[p][fd]
<1>1. TypeOK /\ FdsSound /\ RootsAreDirs
    BY DEF FsInv
<1>2. f \in FdType /\ f.mount \in Mounts /\ f.node \in Nodes /\ f.offset \in Offsets
    BY <1>1 DEF TypeOK, FdType
<1>3. len \in Nat /\ f.offset + len \in Offsets
    BY <1>2, ToWriteFacts
<1>4. /\ Up /\ p \in live /\ pfs_sync(f.mount, new, ok)
      /\ fd_table' = [fd_table EXCEPT ![p][fd].offset = @ + len]
      /\ UNCHANGED <<live, phase>>
    BY DEF fs_write
<1>5. SafeChange(f.mount, new) /\ f.offset + len <= new[f.node].size
    BY <1>1, <1>2, <1>3, WriteSafe
<1>6. new \in Tables /\ nodes' = [nodes EXCEPT ![f.mount] = new]
    BY <1>4, <1>5 DEF SafeChange, pfs_sync
<1>7. nodes' \in [Mounts -> Tables] /\ disk' \in Images
    BY <1>1, <1>2, <1>4, <1>6, SyncType DEF TypeOK, Images
<1>8. /\ fd_table' \in [Pids -> [Fds -> FdType]]
      /\ g1 = [f EXCEPT !.offset = f.offset + len]
      /\ \A q \in Pids, g \in Fds : <<q, g>> # <<p, fd>> => fd_table'[q][g] = fd_table[q][g]
    <2> HIDE DEF len
    <2>1. [f EXCEPT !.offset = f.offset + len] \in FdType
        BY <1>2, <1>3 DEF FdType
    <2>2. fd_table' = [fd_table EXCEPT ![p] =
                          [fd_table[p] EXCEPT ![fd] = [f EXCEPT !.offset = f.offset + len]]]
        BY <1>1, <1>4 DEF TypeOK
    <2> QED BY <1>1, <2>1, <2>2 DEF TypeOK
<1>9. TypeOK'
    BY <1>1, <1>4, <1>7, <1>8 DEF TypeOK, Images
<1>10. \A q \in Pids, g \in Fds : FdSound(nodes', fd_table[q][g])
    BY <1>1, <1>2, <1>5, <1>6, SafeChangeKeepsFds
<1>11. FdSound(nodes', g1)
    <2>1. /\ g1.used = f.used /\ g1.mount = f.mount /\ g1.node = f.node
          /\ g1.offset = f.offset + len
        <3> HIDE DEF len, f, g1
        <3> QED BY <1>2, <1>8 DEF FdType
    <2>2. nodes'[f.mount] = new
        BY <1>1, <1>2, <1>6 DEF TypeOK
    <2>3. FdSound(nodes', f)
        BY <1>10
    <2>4. ASSUME NEW j \in Positions, new[f.node].size <= j PROVE ~(j < f.offset + len)
        <3>1. j \in Int /\ new[f.node].size \in Int /\ f.offset + len \in Int
            BY <1>2, <1>3, <1>6, FieldFacts, IndexFacts
        <3> DEFINE a == new[f.node].size
                   b == f.offset + len
        <3>2. b <= a /\ a <= j /\ a \in Int /\ b \in Int /\ j \in Int
            BY <1>5, <2>4, <3>1
        <3> HIDE DEF a, b
        <3>3. ~(j < b)
            BY <3>2
        <3> QED BY <3>3 DEF b
    <2> HIDE DEF f, new, len, g1
    <2> QED BY <2>1, <2>2, <2>3, <2>4 DEF FdSound
<1>12. \A q \in Pids, g \in Fds :
          \/ fd_table'[q][g] = fd_table[q][g]
          \/ q \in live /\ FdSound(nodes', fd_table'[q][g])
    BY <1>4, <1>8, <1>11
<1>13. RootsAreDirs'
    BY <1>2, <1>5, <1>6, SafeChangeKeepsRoots
<1> QED BY <1>4, <1>9, <1>10, <1>12, <1>13, CallKeeps

LEMMA FsInit == Init => FsInv
<1> SUFFICES ASSUME Init PROVE FsInv
    OBVIOUS
<1>1. [n \in Nodes |-> FreeNode] \in Tables
    BY NodeTypes DEF Tables
<1>2. TypeOK
    BY <1>1, FormatType, FdTypes DEF Init, TypeOK
<1>3. \A p \in Pids, fd \in Fds : fd_table[p][fd] = NoFd
    BY DEF Init, AllClosed
<1>4. FdsSound
    BY <1>3, NoFdSound DEF FdsSound
<1>5. FreeSlotClosed
    BY <1>3 DEF FreeSlotClosed, NoFd
<1>6. ClosedUntilUp
    BY DEF Init, ClosedUntilUp
<1>7. RootsAreDirs
    BY FormatRoot DEF Init, RootsAreDirs
<1> QED BY <1>2, <1>4, <1>5, <1>6, <1>7 DEF FsInv

\* With all descriptors closed only the types are left to show.
LEMMA AllClosedKeeps ==
    ASSUME TypeOK', RootsAreDirs', fd_table' = AllClosed, live' = {} \/ live' = {shell},
           phase' # "up" => live' = {}
    PROVE  FsInv'
<1>1. \A p \in Pids, fd \in Fds : fd_table'[p][fd] = NoFd
    BY DEF AllClosed
<1>2. FdsSound'
    BY <1>1, NoFdSound DEF FdsSound
<1>3. FreeSlotClosed'
    BY <1>1 DEF FreeSlotClosed, NoFd
<1>4. ClosedUntilUp'
    BY DEF ClosedUntilUp
<1> QED BY <1>2, <1>3, <1>4 DEF FsInv

LEMMA BootKeeps ==
    ASSUME FsInv,
           \/ nodefs_init_instance
           \/ InitialSyncFails
           \/ \E name \in MountPoints, ok \in BOOLEAN : fs_init_mountpoint(name, ok)
           \/ fs_init_done
    PROVE  FsInv'
<1>0. TypeOK /\ ClosedUntilUp /\ RootsAreDirs /\ FdsSound /\ disk \in Images
    BY DEF FsInv, TypeOK, Images
<1>1. CASE nodefs_init_instance
    <2> DEFINE loaded == IF ImageValid THEN disk.nodes ELSE nodefs_format
    <2>1. loaded \in Tables
        BY <1>0, FormatType DEF Images
    <2>2. /\ nodes' = [m \in Mounts |-> IF m = RootFS THEN loaded ELSE nodefs_format]
          /\ disk' = Image(loaded) /\ phase = "off" /\ phase' = "boot"
          /\ UNCHANGED <<fd_table, live>>
        BY <1>1 DEF nodefs_init_instance
    <2> HIDE DEF loaded
    <2>3. nodes' \in [Mounts -> Tables] /\ disk' \in [magic : BOOLEAN, nodes : Tables]
        BY <2>1, <2>2, FormatType DEF Image
    <2>4. TypeOK'
        BY <1>0, <2>2, <2>3 DEF TypeOK
    <2>5. loaded[0].used /\ loaded[0].type = "DIR"
        BY FormatRoot DEF loaded, ImageValid
    <2>6. RootsAreDirs'
        BY <2>2, <2>5, FormatRoot DEF RootsAreDirs
    <2> QED BY <1>0, <2>2, <2>4, <2>6, AllClosedKeeps DEF ClosedUntilUp
<1>2. CASE InitialSyncFails
    <2>1. disk' \in Images
        BY <1>0, <1>2, FormatType, TornImagesType DEF InitialSyncFails
    <2>2. TypeOK'
        BY <1>0, <1>2, <2>1 DEF InitialSyncFails, TypeOK, Images
    <2>3. RootsAreDirs'
        BY <1>0, <1>2 DEF InitialSyncFails, RootsAreDirs
    <2> QED BY <1>0, <1>2, <2>2, <2>3, AllClosedKeeps DEF InitialSyncFails, ClosedUntilUp
<1>3. ASSUME NEW name \in MountPoints, NEW ok \in BOOLEAN, fs_init_mountpoint(name, ok)
      PROVE  FsInv'
    <2>1. PICK new \in nodefs_mkdir(nodes[RootFS], <<name>>) : pfs_sync(RootFS, new, ok)
        BY <1>3 DEF fs_init_mountpoint
    <2>2. <<name>> \in Seq(Names) /\ nodes[RootFS] \in Tables
        BY <1>0, NamesAssumption, IndexFacts DEF TypeOK
    <2>3. SafeChange(RootFS, new) /\ new \in Tables
        <3>1. SafeChange(RootFS, new)
            BY <1>0, <2>1, <2>2, MkdirSafe, IndexFacts
        <3> QED BY <3>1 DEF SafeChange
    <2>4. nodes' \in [Mounts -> Tables] /\ disk' \in Images
        BY <1>0, <2>1, <2>3, IndexFacts, SyncType DEF TypeOK
    <2>5. TypeOK'
        BY <1>0, <1>3, <2>4 DEF fs_init_mountpoint, TypeOK, Images
    <2>6. RootsAreDirs'
        BY <2>1, <2>3, IndexFacts, SafeChangeKeepsRoots DEF pfs_sync
    <2> QED BY <1>0, <1>3, <2>5, <2>6, AllClosedKeeps DEF fs_init_mountpoint, ClosedUntilUp
<1>4. CASE fs_init_done
    <2>1. TypeOK'
        BY <1>0, <1>4, PidsAssumption DEF fs_init_done, TypeOK
    <2>2. RootsAreDirs'
        BY <1>0, <1>4 DEF fs_init_done, RootsAreDirs
    <2> QED BY <1>0, <1>4, <2>1, <2>2, AllClosedKeeps DEF fs_init_done, ClosedUntilUp
<1> QED BY <1>1, <1>2, <1>3, <1>4

LEMMA OpenCallKeeps ==
    ASSUME FsInv, NEW p \in Pids, NEW m \in Mounts, NEW s \in Seq(Names),
           NEW flags \in OpenFlags, NEW ok \in BOOLEAN,
           \/ open_create(p, m, s, flags, ok)
           \/ open_truncate(p, m, s, flags, ok)
           \/ open_existing(p, m, s, flags)
    PROVE  FsInv'
<1>0. TypeOK /\ FdsSound /\ RootsAreDirs /\ nodes[m] \in Tables /\ disk \in Images
    BY DEF FsInv, TypeOK, Images
<1>1. CASE open_create(p, m, s, flags, ok)
    <2>1. PICK pl \in Places(nodes[m], s) :
            /\ pfs_sync(m, AddNode(nodes[m], pl, "FILE", s), ok)
            /\ \/ vfs_alloc_fd(p, NewFd(m, pl.node, flags))
               \/ UNCHANGED fd_table
        BY <1>1 DEF open_create
    <2> DEFINE new == AddNode(nodes[m], pl, "FILE", s)
    <2>2. SafeChange(m, new) /\ pl.node \in Nodes
        BY <1>0, AddSafe, PlaceFacts
    <2>3. new[pl.node].used /\ new[pl.node].type = "FILE"
        BY <1>0, <2>2 DEF AddNode, NewNode, Tables
    <2>4. Up /\ p \in live /\ UNCHANGED <<live, phase>>
        BY <1>1 DEF open_create
    <2>5. nodes' = [nodes EXCEPT ![m] = new] /\ disk' \in Images
        BY <1>0, <2>1, <2>2, SyncType DEF SafeChange, pfs_sync, TypeOK
    <2> HIDE DEF new
    <2>6. CASE vfs_alloc_fd(p, NewFd(m, pl.node, flags))
        BY <2>2, <2>3, <2>4, <2>5, <2>6, OpenKeeps
    <2>7. CASE UNCHANGED fd_table
        BY <2>1, <2>2, <2>4, <2>7, ChangeKeeps DEF new
    <2> QED BY <2>1, <2>6, <2>7
<1>2. CASE open_truncate(p, m, s, flags, ok)
    <2>1. PICK n \in Nodes :
            /\ nodefs_resolve_path(nodes[m], s, n)
            /\ nodes[m][n].type = "FILE"
            /\ pfs_sync(m, nodefs_truncate(nodes[m], n), ok)
            /\ \/ ok /\ vfs_alloc_fd(p, NewFd(m, n, flags))
               \/ ~ok /\ UNCHANGED fd_table
        BY <1>2 DEF open_truncate
    <2> DEFINE new == nodefs_truncate(nodes[m], n)
    <2>2. SafeChange(m, new)
        BY <1>0, TruncateSafe
    <2>3. Up /\ p \in live /\ UNCHANGED <<live, phase>>
        BY <1>2 DEF open_truncate
    <2>4. nodes' = [nodes EXCEPT ![m] = new] /\ disk' \in Images
        BY <1>0, <2>1, <2>2, SyncType DEF SafeChange, pfs_sync, TypeOK
    <2>5. nodes[m][n].used
        BY <1>0, <2>1, ResolvedUsed DEF RootsAreDirs
    <2>6. new[n].used /\ new[n].type = "FILE"
        <3>1. new[n] = [nodes[m][n] EXCEPT !.size = 0, !.data = Zeros]
            BY <1>0, TruncateFacts
        <3>2. nodes[m][n] \in NodeType
            BY <1>0, FieldFacts
        <3> HIDE DEF new
        <3> QED BY <2>1, <2>5, <3>1, <3>2 DEF NodeType
    <2> HIDE DEF new
    <2>7. CASE vfs_alloc_fd(p, NewFd(m, n, flags))
        BY <2>2, <2>3, <2>4, <2>6, <2>7, OpenKeeps
    <2>8. CASE UNCHANGED fd_table
        BY <2>1, <2>2, <2>3, <2>8, ChangeKeeps DEF new
    <2> QED BY <2>1, <2>7, <2>8
<1>3. CASE open_existing(p, m, s, flags)
    <2>1. PICK n \in Nodes :
            /\ nodefs_resolve_path(nodes[m], s, n)
            /\ nodes[m][n].type = "FILE"
            /\ vfs_alloc_fd(p, NewFd(m, n, flags))
        BY <1>3 DEF open_existing
    <2> DEFINE entry == NewFd(m, n, flags)
    <2>2. Up /\ p \in live /\ UNCHANGED <<nodes, disk, live, phase>>
        BY <1>3 DEF open_existing
    <2>3. nodes[m][n].used
        BY <1>0, <2>1, ResolvedUsed DEF RootsAreDirs
    <2>4. entry \in FdType
        BY FdTypes
    <2>5. /\ fd_table' \in [Pids -> [Fds -> FdType]]
          /\ \A q \in Pids, g \in Fds :
                \/ fd_table'[q][g] = fd_table[q][g]
                \/ q = p /\ fd_table'[q][g] = entry
        BY <1>0, <2>1, <2>4, AllocFacts
    <2>6. FdSound(nodes, entry)
        <3>1. entry.mount = m /\ entry.node = n /\ entry.offset = 0
            BY DEF NewFd
        <3>2. ASSUME NEW j \in Positions PROVE ~(j < entry.offset)
            BY <3>1, SizesAssumption DEF Positions
        <3> QED BY <2>1, <2>3, <3>1, <3>2 DEF FdSound
    <2> QED BY <2>2, <2>5, <2>6, DescriptorsKeep
<1> QED BY <1>1, <1>2, <1>3

LEMMA TreeCallKeeps ==
    ASSUME FsInv, NEW m \in Mounts, NEW s \in Seq(Names), NEW ok \in BOOLEAN,
           fs_mkdir(m, s, ok) \/ fs_unlink(m, s, ok) \/ fs_rmdir(m, s, ok)
    PROVE  FsInv'
<1>0. TypeOK /\ FdsSound /\ RootsAreDirs /\ nodes[m] \in Tables
    BY DEF FsInv, TypeOK
<1>1. CASE fs_mkdir(m, s, ok)
    <2>1. PICK new \in nodefs_mkdir(nodes[m], s) : pfs_sync(m, new, ok)
        BY <1>1 DEF fs_mkdir
    <2>2. SafeChange(m, new)
        BY <1>0, MkdirSafe
    <2> QED BY <1>1, <2>1, <2>2, ChangeKeeps DEF fs_mkdir
<1>2. CASE fs_unlink(m, s, ok)
    <2>1. PICK n \in Unlinkable(m, s) : pfs_sync(m, RemoveNode(nodes[m], n), ok)
        BY <1>2 DEF fs_unlink
    <2>2. n \in Nodes \ {0} /\ ~nodefs_is_node_open(m, n)
        BY DEF Unlinkable
    <2>3. SafeChange(m, RemoveNode(nodes[m], n))
        BY <1>0, <2>2, RemoveSafe
    <2> QED BY <1>2, <2>1, <2>3, ChangeKeeps DEF fs_unlink
<1>3. CASE fs_rmdir(m, s, ok)
    <2>1. PICK n \in Removable(m, s) : pfs_sync(m, RemoveNode(nodes[m], n), ok)
        BY <1>3 DEF fs_rmdir
    <2>2. n \in Nodes \ {0} /\ nodes[m][n].type = "DIR"
        BY DEF Removable
    <2>3. ~nodefs_is_node_open(m, n)
        BY <1>0, <2>2, OpenUsed
    <2>4. SafeChange(m, RemoveNode(nodes[m], n))
        BY <1>0, <2>2, <2>3, RemoveSafe
    <2> QED BY <1>3, <2>1, <2>4, ChangeKeeps DEF fs_rmdir
<1> QED BY <1>1, <1>2, <1>3

LEMMA ReadKeeps ==
    ASSUME FsInv, NEW p \in Pids, NEW fd \in Fds, NEW size \in 0 .. FS_FILE_MAX_SIZE + 1,
           fs_read(p, fd, size)
    PROVE  FsInv'
<1> DEFINE f == fd_table[p][fd]
           n == nodes[f.mount][f.node]
           remain == n.size - f.offset
           moved == f.offset + (IF size > remain THEN remain ELSE size)
           g1 == [f EXCEPT !.offset = moved]
<1>1. TypeOK /\ FdsSound
    BY DEF FsInv
<1>2. f \in FdType /\ f.mount \in Mounts /\ f.node \in Nodes /\ f.offset \in Offsets
    BY <1>1 DEF TypeOK, FdType
<1>3. n.size \in Offsets
    BY <1>1, <1>2, FieldFacts DEF TypeOK
<1>4. /\ Up /\ p \in live /\ remain > 0
      /\ fd_table' = [fd_table EXCEPT ![p][fd].offset =
                          @ + (IF size > remain THEN remain ELSE size)]
      /\ UNCHANGED <<nodes, disk, live, phase>>
    BY DEF fs_read, to_read
<1>5. moved \in Offsets /\ moved <= n.size
    <2> HIDE DEF n, f
    <2> QED BY <1>2, <1>3, <1>4, SizesAssumption DEF Offsets
<1>6. g1 \in FdType
    <2> HIDE DEF moved, f
    <2> QED BY <1>2, <1>5 DEF FdType
<1>7. fd_table' = [fd_table EXCEPT ![p] = [fd_table[p] EXCEPT ![fd] = g1]]
    BY <1>1, <1>4 DEF TypeOK
<1>8. /\ fd_table' \in [Pids -> [Fds -> FdType]]
      /\ \A q \in Pids, g \in Fds :
            fd_table'[q][g] = fd_table[q][g] \/ (q = p /\ fd_table'[q][g] = g1)
    <2> HIDE DEF g1
    <2> QED BY <1>1, <1>6, <1>7 DEF TypeOK
<1>9. FdSound(nodes, g1)
    <2>1. /\ g1.used = f.used /\ g1.mount = f.mount /\ g1.node = f.node
          /\ g1.offset = moved
        <3> HIDE DEF moved, f
        <3> QED BY <1>2 DEF FdType
    <2>2. FdSound(nodes, f)
        BY <1>1 DEF FdsSound
    <2>3. ASSUME NEW j \in Positions, n.size <= j PROVE ~(j < moved)
        <3>1. j \in Int /\ n.size \in Int /\ moved \in Int
            BY <1>3, <1>5, IndexFacts
        <3> HIDE DEF n, moved
        <3> QED BY <1>5, <2>3, <3>1
    <2> HIDE DEF f, moved, g1
    <2> QED BY <2>1, <2>2, <2>3 DEF FdSound, n
<1>10. \A q \in Pids, g \in Fds :
          \/ fd_table'[q][g] = fd_table[q][g]
          \/ q \in live /\ FdSound(nodes, fd_table'[q][g])
    <2> HIDE DEF g1
    <2> QED BY <1>4, <1>8, <1>9
<1> QED BY <1>4, <1>8, <1>10, DescriptorsKeep

LEMMA DescriptorCallKeeps ==
    ASSUME FsInv, NEW p \in Pids, NEW fd \in Fds, NEW new_fd \in Fds,
           fs_close(p, fd) \/ fs_dup2(p, fd, new_fd)
    PROVE  FsInv'
<1>1. TypeOK /\ FdsSound
    BY DEF FsInv
<1>2. CASE fs_close(p, fd)
    <2>1. fd_table' \in [Pids -> [Fds -> FdType]]
        BY <1>1, <1>2, FdTypes DEF fs_close, TypeOK
    <2>2. \A q \in Pids, g \in Fds :
             fd_table'[q][g] = fd_table[q][g] \/ (q = p /\ fd_table'[q][g] = NoFd)
        BY <1>1, <1>2 DEF fs_close, TypeOK
    <2> QED BY <1>2, <2>1, <2>2, NoFdSound, DescriptorsKeep DEF fs_close
<1>3. CASE fs_dup2(p, fd, new_fd)
    <2>1. fd_table' \in [Pids -> [Fds -> FdType]]
        BY <1>1, <1>3 DEF fs_dup2, TypeOK
    <2>2. \A q \in Pids, g \in Fds :
             fd_table'[q][g] = fd_table[q][g] \/ (q = p /\ fd_table'[q][g] = fd_table[p][fd])
        BY <1>1, <1>3 DEF fs_dup2, TypeOK
    <2>3. FdSound(nodes, fd_table[p][fd])
        BY <1>1 DEF FdsSound
    <2> QED BY <1>3, <2>1, <2>2, <2>3, DescriptorsKeep DEF fs_dup2
<1> QED BY <1>2, <1>3

LEMMA ProcessStepKeeps ==
    ASSUME FsInv, NEW p \in Pids, NEW child \in Pids,
           \/ fs_fork_copy_fds(p, child)
           \/ create_process(p)
           \/ fs_on_process_recycle(p)
    PROVE  FsInv'
<1>1. TypeOK /\ FdsSound /\ FreeSlotClosed /\ RootsAreDirs
    BY DEF FsInv
<1>2. Up /\ UNCHANGED <<nodes, disk, phase>>
    BY DEF fs_fork_copy_fds, create_process, fs_on_process_recycle
<1>3. RootsAreDirs' /\ ClosedUntilUp'
    BY <1>1, <1>2 DEF RootsAreDirs, ClosedUntilUp, Up
<1>4. CASE fs_fork_copy_fds(p, child)
    <2>1. TypeOK'
        BY <1>1, <1>4 DEF fs_fork_copy_fds, TypeOK
    <2>2. \A q \in Pids : fd_table'[q] = IF q = child THEN fd_table[p] ELSE fd_table[q]
        BY <1>1, <1>4 DEF fs_fork_copy_fds, TypeOK
    <2>3. FdsSound'
        BY <1>1, <1>2, <2>2 DEF FdsSound, FdSound
    <2>4. FreeSlotClosed'
        BY <1>1, <1>4, <2>2 DEF FreeSlotClosed, fs_fork_copy_fds
    <2> QED BY <1>3, <2>1, <2>3, <2>4 DEF FsInv
<1>5. CASE create_process(p)
    <2>1. TypeOK'
        BY <1>1, <1>5 DEF create_process, TypeOK
    <2>2. FdsSound' /\ FreeSlotClosed'
        BY <1>1, <1>5 DEF create_process, FdsSound, FdSound, FreeSlotClosed
    <2> QED BY <1>3, <2>1, <2>2 DEF FsInv
<1>6. CASE fs_on_process_recycle(p)
    <2>1. TypeOK'
        BY <1>1, <1>6, FdTypes DEF fs_on_process_recycle, TypeOK
    <2>2. \A q \in Pids, g \in Fds :
             fd_table'[q][g] = IF q = p THEN NoFd ELSE fd_table[q][g]
        BY <1>1, <1>6 DEF fs_on_process_recycle, TypeOK
    <2>3. FdsSound'
        BY <1>1, <1>2, <2>2, NoFdSound DEF FdsSound
    <2>4. FreeSlotClosed'
        BY <1>1, <1>6, <2>2 DEF FreeSlotClosed, fs_on_process_recycle, NoFd
    <2> QED BY <1>3, <2>1, <2>3, <2>4 DEF FsInv
<1> QED BY <1>4, <1>5, <1>6

\* The changes a call can be making to / when the power fails.
Adds(new) ==
    \E s \in Seq(Names) : \E pl \in Places(nodes[RootFS], s) :
        \E type \in {"FILE", "DIR"} : new = AddNode(nodes[RootFS], pl, type, s)
Removes(new) ==
    \E s \in Seq(Names) : \E n \in Unlinkable(RootFS, s) \cup Removable(RootFS, s) :
        new = RemoveNode(nodes[RootFS], n)
Truncates(new) == \E n \in Nodes : new = nodefs_truncate(nodes[RootFS], n)
Writes(new) ==
    \E n \in Nodes, offset \in Offsets, len \in Nat, byte \in Bytes :
        /\ offset + len \in Offsets
        /\ new = nodefs_write(nodes[RootFS], n, offset, len, byte)

LEMMA InterruptedChange ==
    ASSUME TypeOK, PowerFailsInSync
    PROVE  \E new : /\ disk' \in TornImages(new)
                    /\ Adds(new) \/ Removes(new) \/ Truncates(new) \/ Writes(new)
<1> DEFINE N == nodes[RootFS]
<1>1. \A s \in RootPaths : s \in Seq(Names)
    BY NamesAssumption DEF RootPaths
<1>2. \A name \in MountPoints : <<name>> \in Seq(Names)
    BY NamesAssumption
<1>3. ASSUME NEW s \in Seq(Names), NEW new \in nodefs_mkdir(N, s) PROVE Adds(new)
    BY DEF nodefs_mkdir, Adds
<1>4. CASE \E name \in MountPoints :
              \E new \in nodefs_mkdir(N, <<name>>) : disk' \in TornImages(new)
    BY <1>2, <1>3, <1>4
<1>5. CASE \E s \in RootPaths : \E new \in nodefs_mkdir(N, s) : disk' \in TornImages(new)
    BY <1>1, <1>3, <1>5
<1>6. CASE \E s \in RootPaths : \E pl \in Places(N, s) :
              disk' \in TornImages(AddNode(N, pl, "FILE", s))
    BY <1>1, <1>6 DEF Adds
<1>7. CASE \E s \in RootPaths : \E n \in Unlinkable(RootFS, s) \cup Removable(RootFS, s) :
              disk' \in TornImages(RemoveNode(N, n))
    BY <1>1, <1>7 DEF Removes
<1>8. CASE \E n \in Nodes : disk' \in TornImages(nodefs_truncate(N, n))
    BY <1>8 DEF Truncates
<1>9. ASSUME NEW p \in live, NEW fd \in Fds, NEW size \in Offsets, NEW byte \in Bytes,
             disk' \in TornImages(nodefs_write(N, fd_table[p][fd].node, fd_table[p][fd].offset,
                                    to_write(fd_table[p][fd].offset, size), byte))
      PROVE  \E new : disk' \in TornImages(new) /\ Writes(new)
    <2>1. fd_table[p][fd].node \in Nodes /\ fd_table[p][fd].offset \in Offsets
        BY DEF TypeOK, FdType
    <2>2. size \in 0 .. FS_FILE_MAX_SIZE + 1
        BY SizesAssumption DEF Offsets
    <2>3. /\ to_write(fd_table[p][fd].offset, size) \in Nat
          /\ fd_table[p][fd].offset + to_write(fd_table[p][fd].offset, size) \in Offsets
        BY <2>1, <2>2, ToWriteFacts
    <2> QED BY <1>9, <2>1, <2>3 DEF Writes
<1> QED BY <1>4, <1>5, <1>6, <1>7, <1>8, <1>9 DEF PowerFailsInSync

LEMMA InterruptedType ==
    ASSUME TypeOK, NEW new, Adds(new) \/ Removes(new) \/ Truncates(new) \/ Writes(new)
    PROVE  new \in Tables
<1>0. nodes[RootFS] \in Tables
    BY IndexFacts DEF TypeOK
<1>1. CASE Adds(new)
    BY <1>0, <1>1, AddType DEF Adds
<1>2. CASE Removes(new)
    BY <1>0, <1>2, RemoveType DEF Removes, Unlinkable, Removable
<1>3. CASE Truncates(new)
    BY <1>0, <1>3, TruncateFacts DEF Truncates
<1>4. CASE Writes(new)
    BY <1>0, <1>4, WriteFacts DEF Writes
<1> QED BY <1>1, <1>2, <1>3, <1>4

LEMMA PowerFailureKeeps ==
    ASSUME FsInv, PowerFails \/ PowerFailsInSync
    PROVE  FsInv'
<1>1. TypeOK /\ disk \in Images
    BY DEF FsInv, TypeOK, Images
<1>2. LoseMemory
    BY DEF PowerFails, PowerFailsInSync
<1>3. disk' \in Images
    <2>1. CASE PowerFails
        BY <1>1, <2>1 DEF PowerFails
    <2>2. CASE PowerFailsInSync
        BY <1>1, <2>2, InterruptedChange, InterruptedType, TornImagesType
    <2> QED BY <2>1, <2>2
<1>4. TypeOK'
    BY <1>2, <1>3, FormatType, FdTypes DEF LoseMemory, TypeOK, Images
<1>5. RootsAreDirs'
    BY <1>2, FormatRoot DEF LoseMemory, RootsAreDirs
<1> QED BY <1>2, <1>4, <1>5, AllClosedKeeps DEF LoseMemory

LEMMA CallsKeep ==
    ASSUME FsInv, NEW ok \in BOOLEAN, Calls(ok)
    PROVE  FsInv'
<1>1. ASSUME NEW path \in Paths,
             LET m == vfs_resolve_mount(path)
                 s == subpath(path) IN
             \/ fs_mkdir(m, s, ok)
             \/ fs_unlink(m, s, ok)
             \/ fs_rmdir(m, s, ok)
      PROVE  FsInv'
    BY <1>1, SubpathType, TreeCallKeeps
<1>2. ASSUME NEW path \in Paths, NEW p \in Pids, NEW flags \in OpenFlags,
             LET m == vfs_resolve_mount(path)
                 s == subpath(path) IN
             \/ open_create(p, m, s, flags, ok)
             \/ open_truncate(p, m, s, flags, ok)
             \/ ok /\ open_existing(p, m, s, flags)
      PROVE  FsInv'
    BY <1>2, SubpathType, OpenCallKeeps
<1>3. ASSUME NEW p \in Pids, NEW fd \in Fds, NEW size \in 0 .. FS_FILE_MAX_SIZE + 1,
             \/ ok /\ fs_read(p, fd, size)
             \/ \E byte \in Bytes : fs_write(p, fd, size, byte, ok)
      PROVE  FsInv'
    BY <1>3, ReadKeeps, WriteKeeps
<1> QED BY <1>1, <1>2, <1>3 DEF Calls

LEMMA FsNext == FsInv /\ [Next]_vars => FsInv'
<1> SUFFICES ASSUME FsInv, [Next]_vars PROVE FsInv'
    OBVIOUS
<1>1. CASE UNCHANGED vars
    BY <1>1 DEF vars, FsInv, TypeOK, FdsSound, FdSound, FreeSlotClosed, ClosedUntilUp,
                RootsAreDirs
<1>2. CASE \/ nodefs_init_instance
           \/ InitialSyncFails
           \/ \E name \in MountPoints, ok \in BOOLEAN : fs_init_mountpoint(name, ok)
           \/ fs_init_done
    BY <1>2, BootKeeps
<1>3. CASE \E ok \in BOOLEAN : Calls(ok)
    BY <1>3, CallsKeep
<1>4. CASE \E p \in Pids, fd \in Fds : fs_close(p, fd)
    BY <1>4, DescriptorCallKeeps
<1>5. CASE \E p \in Pids, old_fd, new_fd \in Fds : fs_dup2(p, old_fd, new_fd)
    BY <1>5, DescriptorCallKeeps
<1>6. CASE \/ \E p, child \in Pids : fs_fork_copy_fds(p, child)
           \/ \E p \in Pids : create_process(p) \/ fs_on_process_recycle(p)
    BY <1>6, ProcessStepKeeps
<1>7. CASE PowerFails \/ PowerFailsInSync
    BY <1>7, PowerFailureKeeps
<1> QED BY <1>1, <1>2, <1>3, <1>4, <1>5, <1>6, <1>7 DEF Next

LEMMA FsInvariant == Spec => []FsInv
BY FsInit, FsNext, PTL DEF Spec

\* Types: offsets and sizes stay within FS_FILE_MAX_SIZE, so that no read or
\* write leaves the data of a node.
THEOREM FsTypeCorrect == Spec => []TypeOK
<1>1. FsInv => TypeOK
    BY DEF FsInv
<1> QED BY <1>1, FsInvariant, PTL

\* An open descriptor names a file that exists, for every number of
\* processes that fork, duplicate, unlink and die in any order.
THEOREM OpenNodeSafe == Spec => []OpenNodeIsFile
<1>1. FsInv => OpenNodeIsFile
    BY DEF FsInv, FdsSound, FdSound, OpenNodeIsFile
<1> QED BY <1>1, FsInvariant, PTL

\* No write past the end of a truncated file uncovers its old contents.
THEOREM NoStaleBytesSafe == Spec => []NoStaleBytes
<1>1. FsInv => NoStaleBytes
    BY DEF FsInv, FdsSound, FdSound, NoStaleBytes
<1> QED BY <1>1, FsInvariant, PTL

\* A slot that is not in use holds no descriptor.
THEOREM FreeSlotSafe == Spec => []FreeSlotClosed
<1>1. FsInv => FreeSlotClosed
    BY DEF FsInv
<1> QED BY <1>1, FsInvariant, PTL

-----------------------------------------------------------------------------
(* The tree in memory and on the disk.                                     *)

GoodTable(N) == Tree(N) /\ NamesUnique(N)

\* Equal up to sizes, data and the contents of free nodes.
SameShape(N, M) ==
    \A n \in Nodes :
        /\ N[n].used = M[n].used
        /\ N[n].used =>
              N[n].type = M[n].type /\ N[n].parent = M[n].parent /\ N[n].name = M[n].name

LEMMA ShapeKeepsTree ==
    ASSUME NEW N, NEW M, GoodTable(N), SameShape(N, M)
    PROVE  GoodTable(M)
<1>1. M[0].used /\ M[0].type = "DIR" /\ M[0].parent = -1
    BY IndexFacts DEF GoodTable, Tree, SameShape
<1>2. ASSUME NEW n \in Nodes \ {0}, M[n].used
      PROVE  M[n].parent \in Nodes /\ M[M[n].parent].used /\ M[M[n].parent].type = "DIR"
    BY <1>2 DEF GoodTable, Tree, SameShape
<1>3. ASSUME NEW S \in SUBSET {n \in Nodes \ {0} : M[n].used}, S # {}
      PROVE  \E n \in S : M[n].parent \notin S
    <2>1. S \in SUBSET {n \in Nodes \ {0} : N[n].used}
        BY DEF SameShape
    <2>2. PICK n \in S : N[n].parent \notin S
        BY <1>3, <2>1 DEF GoodTable, Tree
    <2> QED BY <2>1, <2>2 DEF SameShape
<1>4. NamesUnique(M)
    BY DEF GoodTable, NamesUnique, Siblings, SameShape
<1> QED BY <1>1, <1>2, <1>3, <1>4 DEF GoodTable, Tree

LEMMA FormatTree == GoodTable(nodefs_format)
<1> DEFINE N == nodefs_format
<1>1. \A n \in Nodes : N[n].used <=> n = 0
    BY DEF nodefs_format, NewNode, FreeNode
<1>2. Tree(N)
    BY <1>1, FormatRoot DEF Tree
<1>3. NamesUnique(N)
    BY <1>1 DEF NamesUnique, Siblings
<1> QED BY <1>2, <1>3 DEF GoodTable

LEMMA AddKeepsTree ==
    ASSUME NEW N \in Tables, GoodTable(N), NEW s \in Seq(Names), NEW pl \in Places(N, s),
           NEW type \in {"FILE", "DIR"}
    PROVE  GoodTable(AddNode(N, pl, type, s))
<1> DEFINE M == AddNode(N, pl, type, s)
           i == pl.node
<1>1. /\ i \in Nodes \ {0} /\ pl.parent \in Nodes /\ ~N[i].used
      /\ ChildrenNamed(N, pl.parent, Leaf(s)) = {}
      /\ N[pl.parent].used /\ N[pl.parent].type = "DIR"
    BY PlaceFacts DEF GoodTable, Tree
<1>2. /\ M[i].used /\ M[i].parent = pl.parent /\ M[i].name = Leaf(s)
      /\ \A n \in Nodes \ {i} : M[n] = N[n]
    BY <1>1 DEF AddNode, NewNode, Tables
<1> HIDE DEF M
<1>3. \A n \in Nodes \ {0} : N[n].used =>
          N[n].parent \in Nodes \ {i} /\ N[N[n].parent].used /\ N[N[n].parent].type = "DIR"
    BY <1>1 DEF GoodTable, Tree
<1>4. M[0].used /\ M[0].type = "DIR" /\ M[0].parent = -1
    BY <1>1, <1>2, IndexFacts DEF GoodTable, Tree
<1>5. ASSUME NEW n \in Nodes \ {0}, M[n].used
      PROVE  M[n].parent \in Nodes /\ M[M[n].parent].used /\ M[M[n].parent].type = "DIR"
    BY <1>1, <1>2, <1>3, <1>5
<1>6. ASSUME NEW S \in SUBSET {n \in Nodes \ {0} : M[n].used}, S # {}
      PROVE  \E n \in S : M[n].parent \notin S
    <2>1. CASE S = {i}
        BY <1>1, <1>2, <2>1
    <2>2. CASE S # {i}
        <3> DEFINE R == S \ {i}
        <3>1. R # {} /\ R \in SUBSET {n \in Nodes \ {0} : N[n].used}
            BY <1>2, <1>6, <2>2
        <3>2. PICK n \in R : N[n].parent \notin R
            BY <3>1 DEF GoodTable, Tree
        <3>3. n \in Nodes \ {0} /\ n # i /\ N[n].used /\ n \in S
            BY <3>1
        <3>4. N[n].parent # i /\ M[n] = N[n]
            BY <1>2, <1>3, <3>3
        <3>5. M[n].parent \notin S
            BY <3>2, <3>4
        <3> QED BY <3>3, <3>5
    <2> QED BY <2>1, <2>2
<1>7. NamesUnique(M)
    <2> SUFFICES ASSUME NEW a \in Nodes, NEW b \in Nodes, Siblings(M, a, b),
                        M[a].name = M[b].name
                 PROVE  a = b
        BY DEF NamesUnique
    <2>1. CASE a # i /\ b # i
        BY <1>2, <2>1 DEF GoodTable, NamesUnique, Siblings
    <2>2. CASE a = i /\ b # i
        BY <1>1, <1>2, <2>2 DEF Siblings, ChildrenNamed
    <2>3. CASE a # i /\ b = i
        BY <1>1, <1>2, <2>3 DEF Siblings, ChildrenNamed
    <2> QED BY <2>1, <2>2, <2>3
<1>8. Tree(M)
    BY <1>4, <1>5, <1>6 DEF Tree
<1> QED BY <1>7, <1>8 DEF GoodTable, M

LEMMA RemoveKeepsTree ==
    ASSUME NEW N \in Tables, GoodTable(N), NEW i \in Nodes \ {0},
           nodefs_is_dir_empty(N, i)
    PROVE  GoodTable(RemoveNode(N, i))
<1> DEFINE M == RemoveNode(N, i)
<1>1. ~M[i].used /\ \A n \in Nodes \ {i} : M[n] = N[n]
    BY DEF RemoveNode, FreeNode, Tables
<1> HIDE DEF M
<1>2. \A n \in Nodes : M[n].used => n # i /\ N[n].used /\ M[n] = N[n]
    BY <1>1
<1>3. \A n \in Nodes \ {0} : N[n].used =>
          N[n].parent \in Nodes \ {i} /\ N[N[n].parent].used /\ N[N[n].parent].type = "DIR"
    BY DEF GoodTable, Tree, nodefs_is_dir_empty
<1>4. M[0].used /\ M[0].type = "DIR" /\ M[0].parent = -1
    BY <1>1, IndexFacts DEF GoodTable, Tree
<1>5. ASSUME NEW n \in Nodes \ {0}, M[n].used
      PROVE  M[n].parent \in Nodes /\ M[M[n].parent].used /\ M[M[n].parent].type = "DIR"
    BY <1>1, <1>2, <1>3, <1>5
<1>6. ASSUME NEW S \in SUBSET {n \in Nodes \ {0} : M[n].used}, S # {}
      PROVE  \E n \in S : M[n].parent \notin S
    <2>1. S \in SUBSET {n \in Nodes \ {0} : N[n].used}
        BY <1>2
    <2>2. PICK n \in S : N[n].parent \notin S
        BY <1>6, <2>1 DEF GoodTable, Tree
    <2> QED BY <1>2, <2>2
<1>7. NamesUnique(M)
    BY <1>2 DEF GoodTable, NamesUnique, Siblings
<1> QED BY <1>4, <1>5, <1>6, <1>7 DEF GoodTable, Tree, M

\* Changes of sizes and data keep the shape.
LEMMA TruncateShape ==
    ASSUME NEW N \in Tables, NEW n \in Nodes
    PROVE  SameShape(N, nodefs_truncate(N, n))
<1> DEFINE M == nodefs_truncate(N, n)
<1>1. /\ \A k \in Nodes \ {n} : M[k] = N[k]
      /\ M[n] = [N[n] EXCEPT !.size = 0, !.data = Zeros]
    BY TruncateFacts
<1>2. N[n] \in NodeType
    BY FieldFacts
<1> HIDE DEF M
<1>3. /\ M[n].used = N[n].used /\ M[n].type = N[n].type
      /\ M[n].parent = N[n].parent /\ M[n].name = N[n].name
    BY <1>1, <1>2 DEF NodeType
<1> QED BY <1>1, <1>3 DEF SameShape, M

LEMMA WriteShape ==
    ASSUME NEW N \in Tables, NEW n \in Nodes, NEW offset \in Offsets, NEW len \in Nat,
           NEW byte \in Bytes, offset + len \in Offsets
    PROVE  SameShape(N, nodefs_write(N, n, offset, len, byte))
<1> DEFINE M == nodefs_write(N, n, offset, len, byte)
           d == [j \in Positions |->
                    IF offset <= j /\ j < offset + len THEN byte ELSE N[n].data[j]]
           z == IF offset + len > N[n].size THEN offset + len ELSE N[n].size
<1>1. /\ \A k \in Nodes \ {n} : M[k] = N[k]
      /\ M[n] = Written(N[n], offset, len, byte)
    BY WriteFacts
<1>2. M[n] = [N[n] EXCEPT !.data = d, !.size = z]
    BY <1>1 DEF Written
<1>3. N[n] \in NodeType
    BY FieldFacts
<1> HIDE DEF M, d, z
<1>4. /\ M[n].used = N[n].used /\ M[n].type = N[n].type
      /\ M[n].parent = N[n].parent /\ M[n].name = N[n].name
    BY <1>2, <1>3 DEF NodeType
<1> QED BY <1>1, <1>4 DEF SameShape, M

\* A torn node has the place of the new one; it is the old one if nothing
\* about the node changes.
LEMMA TornNode ==
    ASSUME NEW old \in Tables, NEW new \in Tables, NEW k \in Nodes,
           NEW c \in -1 .. FS_FILE_MAX_SIZE, NEW n \in Nodes
    PROVE  /\ n > k => Torn(old, new, k, c)[n] = old[n]
           /\ n <= k =>
                 /\ Torn(old, new, k, c)[n].used = new[n].used
                 /\ Torn(old, new, k, c)[n].type = new[n].type
                 /\ Torn(old, new, k, c)[n].parent = new[n].parent
                 /\ Torn(old, new, k, c)[n].name = new[n].name
           /\ old[n] = new[n] => Torn(old, new, k, c)[n] = old[n]
<1> DEFINE t == Torn(old, new, k, c)[n]
           z == IF c < 0 THEN old[n].size ELSE new[n].size
           d == [j \in Positions |-> IF j < c THEN new[n].data[j] ELSE old[n].data[j]]
           x == new[n]
<1>1. old[n] \in NodeType /\ x \in NodeType /\ n \in Int /\ k \in Int
    BY FieldFacts, IndexFacts
<1>2. t = IF n < k THEN x ELSE IF n > k THEN old[n]
          ELSE [x EXCEPT !.size = IF c < 0 THEN old[n].size ELSE @,
                         !.data = [j \in Positions |-> IF j < c THEN @[j] ELSE old[n].data[j]]]
    BY DEF Torn
<1>3. [x EXCEPT !.size = IF c < 0 THEN old[n].size ELSE @,
                !.data = [j \in Positions |-> IF j < c THEN @[j] ELSE old[n].data[j]]]
        = [x EXCEPT !.size = z, !.data = d]
    BY <1>1 DEF NodeType
<1>4. n > k => t = old[n]
    BY <1>1, <1>2
<1>5. n < k => t = x
    BY <1>1, <1>2
<1>6. n = k => t = [x EXCEPT !.size = z, !.data = d]
    BY <1>1, <1>2, <1>3
<1>7. n = k => /\ t.used = x.used /\ t.type = x.type
               /\ t.parent = x.parent /\ t.name = x.name
    <2> HIDE DEF z, d, x, t
    <2> QED BY <1>1, <1>6 DEF NodeType
<1>8. ASSUME old[n] = x PROVE t = old[n]
    <2>1. z = x.size
        BY <1>8
    <2>2. x.data \in [Positions -> Bytes \cup {0}]
        BY <1>1 DEF NodeType
    <2>3. d = x.data
        BY <1>8, <2>2
    <2>4. [x EXCEPT !.size = x.size, !.data = x.data] = x
        <3> HIDE DEF x
        <3> QED BY <1>1 DEF NodeType
    <2>5. n = k => t = x
        <3> HIDE DEF z, d, x, t
        <3> QED BY <1>6, <2>1, <2>3, <2>4
    <2> QED BY <1>1, <1>4, <1>5, <1>8, <2>5
<1> HIDE DEF t, x
<1>9. n <= k => n < k \/ n = k
    BY <1>1
<1>10. n <= k => /\ t.used = x.used /\ t.type = x.type
                 /\ t.parent = x.parent /\ t.name = x.name
    BY <1>5, <1>7, <1>9
<1> QED BY <1>4, <1>8, <1>10 DEF t, x

\* new differs from old in node i only.
OneNode(old, new, i) == \A n \in Nodes \ {i} : new[n] = old[n]

\* When a call changes one node, a torn image has the old or the new shape.
LEMMA TornShape ==
    ASSUME NEW old \in Tables, NEW new \in Tables, NEW i \in Nodes, OneNode(old, new, i),
           NEW k \in Nodes, NEW c \in -1 .. FS_FILE_MAX_SIZE
    PROVE  \/ SameShape(old, Torn(old, new, k, c))
           \/ SameShape(new, Torn(old, new, k, c))
<1> DEFINE T == Torn(old, new, k, c)
<1>1. i \in Int /\ k \in Int
    BY IndexFacts
<1>2. \A n \in Nodes \ {i} : T[n] = old[n]
    BY TornNode DEF OneNode
<1>3. CASE i <= k
    <2>1. /\ T[i].used = new[i].used /\ T[i].type = new[i].type
          /\ T[i].parent = new[i].parent /\ T[i].name = new[i].name
        BY <1>3, TornNode
    <2> HIDE DEF T
    <2>2. SameShape(new, T)
        BY <1>2, <2>1 DEF OneNode, SameShape
    <2> QED BY <2>2 DEF T
<1>4. CASE i > k
    <2>1. T[i] = old[i]
        BY <1>4, TornNode
    <2> HIDE DEF T
    <2>2. SameShape(old, T)
        BY <1>2, <2>1 DEF SameShape
    <2> QED BY <2>2 DEF T
<1> QED BY <1>1, <1>3, <1>4

\* Every change of a table is sound and touches one node.
SoundChange(N, new) ==
    new \in Tables /\ GoodTable(new) /\ \E i \in Nodes : OneNode(N, new, i)

LEMMA AddSound ==
    ASSUME NEW N \in Tables, GoodTable(N), NEW s \in Seq(Names), NEW pl \in Places(N, s),
           NEW type \in {"FILE", "DIR"}
    PROVE  SoundChange(N, AddNode(N, pl, type, s))
<1>1. pl.node \in Nodes /\ OneNode(N, AddNode(N, pl, type, s), pl.node)
    BY PlaceFacts DEF OneNode, AddNode, Tables
<1> QED BY <1>1, AddKeepsTree, AddType DEF SoundChange

LEMMA MkdirSound ==
    ASSUME NEW N \in Tables, GoodTable(N), NEW s \in Seq(Names),
           NEW new \in nodefs_mkdir(N, s)
    PROVE  SoundChange(N, new)
<1>1. PICK pl \in Places(N, s) : new = AddNode(N, pl, "DIR", s)
    BY DEF nodefs_mkdir
<1> QED BY <1>1, AddSound

LEMMA RemoveSound ==
    ASSUME NEW m \in Mounts, nodes[m] \in Tables, GoodTable(nodes[m]), NEW s,
           NEW n \in Unlinkable(m, s) \cup Removable(m, s)
    PROVE  SoundChange(nodes[m], RemoveNode(nodes[m], n))
<1>1. n \in Nodes \ {0}
    BY DEF Unlinkable, Removable
<1>2. nodefs_is_dir_empty(nodes[m], n)
    <2>1. CASE n \in Removable(m, s)
        BY <2>1 DEF Removable
    <2>2. CASE n \in Unlinkable(m, s)
        <3>1. nodes[m][n].type = "FILE"
            BY <2>2 DEF Unlinkable
        <3>2. ASSUME NEW k \in Nodes, nodes[m][k].used, nodes[m][k].parent = n PROVE FALSE
            <4>1. CASE k = 0
                BY <1>1, <3>2, <4>1, SizesAssumption DEF GoodTable, Tree, Nodes
            <4>2. CASE k # 0
                BY <3>1, <3>2, <4>2 DEF GoodTable, Tree
            <4> QED BY <4>1, <4>2
        <3> QED BY <3>2 DEF nodefs_is_dir_empty
    <2> QED BY <2>1, <2>2
<1>3. OneNode(nodes[m], RemoveNode(nodes[m], n), n)
    BY <1>1 DEF OneNode, RemoveNode, Tables
<1> QED BY <1>1, <1>2, <1>3, RemoveKeepsTree, RemoveType DEF SoundChange

LEMMA TruncateSound ==
    ASSUME NEW N \in Tables, GoodTable(N), NEW n \in Nodes
    PROVE  SoundChange(N, nodefs_truncate(N, n))
BY TruncateFacts, TruncateShape, ShapeKeepsTree DEF SoundChange, OneNode

LEMMA WriteSound ==
    ASSUME NEW N \in Tables, GoodTable(N), NEW n \in Nodes, NEW offset \in Offsets,
           NEW len \in Nat, NEW byte \in Bytes, offset + len \in Offsets
    PROVE  SoundChange(N, nodefs_write(N, n, offset, len, byte))
BY WriteFacts, WriteShape, ShapeKeepsTree DEF SoundChange, OneNode

\* Whatever part of a sound change reaches the disk, the disk is sound.
LEMMA TornSound ==
    ASSUME disk \in Images, GoodTable(disk.nodes), NEW new, SoundChange(disk.nodes, new),
           NEW img \in TornImages(new)
    PROVE  GoodTable(img.nodes)
<1>1. CASE img = disk
    BY <1>1
<1>2. ASSUME NEW k \in Nodes, NEW c \in -1 .. FS_FILE_MAX_SIZE,
             img = Image(Torn(disk.nodes, new, k, c))
      PROVE  GoodTable(img.nodes)
    <2> DEFINE T == Torn(disk.nodes, new, k, c)
    <2>1. img.nodes = T
        BY <1>2 DEF Image
    <2>2. disk.nodes \in Tables
        BY DEF Images
    <2>3. SameShape(disk.nodes, T) \/ SameShape(new, T)
        BY <2>2, TornShape DEF SoundChange
    <2> HIDE DEF T
    <2> QED BY <2>1, <2>3, ShapeKeepsTree DEF SoundChange
<1> QED BY <1>1, <1>2 DEF TornImages

\* The tables in memory are sound; the disk equals / in memory unless a write
\* may fail; what a boot loads is sound; a disk that was never written is empty.
TablesGood == \A m \in Mounts : GoodTable(nodes[m])
DiskLoads == phase = "off" \/ ~DeviceErrors => (disk.magic => GoodTable(disk.nodes))
BlankDisk == ~disk.magic => \A n \in Nodes : ~disk.nodes[n].used

TreeInv == TablesGood /\ Durable /\ DiskLoads /\ BlankDisk

LEMMA SyncKeepsTree ==
    ASSUME TypeOK, TreeInv, phase # "off", UNCHANGED phase, NEW m \in Mounts, NEW new,
           SoundChange(nodes[m], new), NEW ok \in BOOLEAN, pfs_sync(m, new, ok)
    PROVE  TreeInv'
<1>1. nodes' = [nodes EXCEPT ![m] = new] /\ GoodTable(new)
    BY DEF pfs_sync, SoundChange
<1>2. TablesGood'
    BY <1>1 DEF TypeOK, TreeInv, TablesGood
<1>3. nodes'[RootFS] = IF m = RootFS THEN new ELSE nodes[RootFS]
    BY <1>1, IndexFacts DEF TypeOK
<1>4. CASE disk' = IF m = RootFS THEN Image(new) ELSE disk
    <2>1. CASE m = RootFS
        <3>1. disk'.magic /\ disk'.nodes = new /\ disk' = Image(new)
            BY <1>4, <2>1 DEF Image
        <3> QED BY <1>1, <1>2, <1>3, <2>1, <3>1
                DEF TreeInv, Durable, DiskLoads, BlankDisk
    <2>2. CASE m # RootFS
        BY <1>2, <1>3, <1>4, <2>2 DEF TreeInv, Durable, DiskLoads, BlankDisk
    <2> QED BY <2>1, <2>2
<1>5. CASE DeviceErrors /\ disk' \in TornImages(new)
    <2>1. disk' = disk \/ disk'.magic
        BY <1>5 DEF TornImages, Image
    <2>2. BlankDisk'
        BY <2>1 DEF TreeInv, BlankDisk
    <2> QED BY <1>2, <1>5, <2>2 DEF TreeInv, Durable, DiskLoads
<1> QED BY <1>4, <1>5 DEF pfs_sync

LEMMA BootKeepsTree ==
    ASSUME FsInv, TreeInv,
           \/ nodefs_init_instance
           \/ InitialSyncFails
           \/ \E name \in MountPoints, ok \in BOOLEAN : fs_init_mountpoint(name, ok)
           \/ fs_init_done
    PROVE  TreeInv'
<1>0. TypeOK /\ disk \in Images /\ disk.nodes \in Tables
    BY DEF FsInv, TypeOK, Images
<1>1. CASE nodefs_init_instance
    <2> DEFINE loaded == IF ImageValid THEN disk.nodes ELSE nodefs_format
    <2>1. GoodTable(loaded)
        BY <1>1, FormatTree DEF nodefs_init_instance, ImageValid, TreeInv, DiskLoads
    <2>2. /\ nodes' = [m \in Mounts |-> IF m = RootFS THEN loaded ELSE nodefs_format]
          /\ disk' = Image(loaded) /\ phase' = "boot"
        BY <1>1 DEF nodefs_init_instance
    <2> HIDE DEF loaded
    <2>3. nodes'[RootFS] = loaded /\ disk'.nodes = loaded /\ disk'.magic
        BY <2>2, IndexFacts DEF Image
    <2>4. TablesGood'
        BY <2>1, <2>2, FormatTree DEF TablesGood
    <2> QED BY <2>1, <2>2, <2>3, <2>4 DEF TreeInv, Durable, DiskLoads, BlankDisk
<1>2. CASE InitialSyncFails
    <2>1. phase = "off" /\ ~ImageValid /\ disk' \in TornImages(nodefs_format)
             /\ UNCHANGED <<nodes, phase>>
        BY <1>2 DEF InitialSyncFails
    <2>2. ~disk.magic
        BY <2>1 DEF ImageValid, TreeInv, DiskLoads, GoodTable, Tree
    <2>3. \A n \in Nodes : ~disk.nodes[n].used
        BY <2>2 DEF TreeInv, BlankDisk
    <2>4. ASSUME NEW k \in Nodes, NEW c \in -1 .. FS_FILE_MAX_SIZE,
                 disk' = Image(Torn(disk.nodes, nodefs_format, k, c))
          PROVE  disk'.magic /\ GoodTable(disk'.nodes)
        <3> DEFINE T == Torn(disk.nodes, nodefs_format, k, c)
                   F == nodefs_format
        <3>1. \A n \in Nodes : F[n].used <=> n = 0
            BY DEF nodefs_format, NewNode, FreeNode
        <3>2. disk'.magic /\ disk'.nodes = T
            BY <2>4 DEF Image
        <3>3. ASSUME NEW n \in Nodes
              PROVE  /\ F[n].used = T[n].used
                     /\ F[n].used => /\ F[n].type = T[n].type /\ F[n].parent = T[n].parent
                                     /\ F[n].name = T[n].name
            <4>1. n \in Int /\ k \in Int /\ 0 <= k /\ n >= 0
                BY SizesAssumption DEF Nodes
            <4>2. CASE n <= k
                BY <1>0, <4>2, TornNode, FormatType
            <4>3. CASE n > k
                <5>1. T[n] = disk.nodes[n]
                    BY <1>0, <4>3, TornNode, FormatType
                <5>2. n # 0
                    BY <4>1, <4>3
                <5>3. ~T[n].used /\ ~F[n].used
                    BY <2>3, <3>1, <5>1, <5>2
                <5>4. T[n].used \in BOOLEAN /\ F[n].used \in BOOLEAN
                    BY <1>0, <5>1, FieldFacts, FormatType DEF NodeType
                <5> HIDE DEF T, F
                <5> QED BY <5>3, <5>4
            <4> QED BY <4>1, <4>2, <4>3
        <3>4. SameShape(F, T)
            <4> HIDE DEF T, F
            <4> QED BY <3>3 DEF SameShape
        <3> QED BY <3>2, <3>4, FormatTree, ShapeKeepsTree
    <2>5. disk' = disk \/ (disk'.magic /\ GoodTable(disk'.nodes))
        BY <2>1, <2>4 DEF TornImages
    <2> QED BY <2>1, <2>5 DEF TreeInv, TablesGood, Durable, DiskLoads, BlankDisk
<1>3. ASSUME NEW name \in MountPoints, NEW ok \in BOOLEAN, fs_init_mountpoint(name, ok)
      PROVE  TreeInv'
    <2>1. PICK new \in nodefs_mkdir(nodes[RootFS], <<name>>) : pfs_sync(RootFS, new, ok)
        BY <1>3 DEF fs_init_mountpoint
    <2>2. /\ <<name>> \in Seq(Names) /\ nodes[RootFS] \in Tables
          /\ GoodTable(nodes[RootFS])
        BY <1>0, NamesAssumption, IndexFacts DEF TypeOK, TreeInv, TablesGood
    <2>3. SoundChange(nodes[RootFS], new)
        BY <2>2, MkdirSound
    <2> QED BY <1>0, <1>3, <2>1, <2>3, IndexFacts, SyncKeepsTree DEF fs_init_mountpoint
<1>4. CASE fs_init_done
    BY <1>4 DEF fs_init_done, TreeInv, TablesGood, Durable, DiskLoads, BlankDisk
<1> QED BY <1>1, <1>2, <1>3, <1>4

LEMMA CallsKeepTree ==
    ASSUME FsInv, TreeInv, NEW ok \in BOOLEAN, Calls(ok)
    PROVE  TreeInv'
<1>0. TypeOK /\ TablesGood /\ \A m \in Mounts : nodes[m] \in Tables /\ GoodTable(nodes[m])
    BY DEF FsInv, TypeOK, TreeInv, TablesGood
<1>a. ASSUME Up, UNCHANGED phase, NEW m \in Mounts, NEW new, SoundChange(nodes[m], new),
             pfs_sync(m, new, ok)
      PROVE  TreeInv'
    BY <1>0, <1>a, SyncKeepsTree DEF Up
<1>b. ASSUME UNCHANGED <<nodes, disk, phase>> PROVE TreeInv'
    BY <1>b DEF TreeInv, TablesGood, Durable, DiskLoads, BlankDisk
<1>1. ASSUME NEW m \in Mounts, NEW s \in Seq(Names), fs_mkdir(m, s, ok) PROVE TreeInv'
    <2>1. PICK new \in nodefs_mkdir(nodes[m], s) : pfs_sync(m, new, ok)
        BY <1>1 DEF fs_mkdir
    <2>2. SoundChange(nodes[m], new)
        BY <1>0, MkdirSound
    <2> QED BY <1>1, <1>a, <2>1, <2>2 DEF fs_mkdir
<1>2. ASSUME NEW m \in Mounts, NEW s \in Seq(Names),
             fs_unlink(m, s, ok) \/ fs_rmdir(m, s, ok)
      PROVE  TreeInv'
    <2>1. PICK n \in Unlinkable(m, s) \cup Removable(m, s) :
              pfs_sync(m, RemoveNode(nodes[m], n), ok)
        BY <1>2 DEF fs_unlink, fs_rmdir
    <2>2. SoundChange(nodes[m], RemoveNode(nodes[m], n))
        BY <1>0, RemoveSound
    <2> QED BY <1>2, <1>a, <2>1, <2>2 DEF fs_unlink, fs_rmdir
<1>3. ASSUME NEW m \in Mounts, NEW s \in Seq(Names), NEW p, NEW flags,
             open_create(p, m, s, flags, ok)
      PROVE  TreeInv'
    <2>1. PICK pl \in Places(nodes[m], s) :
              pfs_sync(m, AddNode(nodes[m], pl, "FILE", s), ok)
        BY <1>3 DEF open_create
    <2>2. SoundChange(nodes[m], AddNode(nodes[m], pl, "FILE", s))
        BY <1>0, AddSound
    <2> QED BY <1>3, <1>a, <2>1, <2>2 DEF open_create
<1>4. ASSUME NEW m \in Mounts, NEW s, NEW p, NEW flags, open_truncate(p, m, s, flags, ok)
      PROVE  TreeInv'
    <2>1. PICK n \in Nodes : pfs_sync(m, nodefs_truncate(nodes[m], n), ok)
        BY <1>4 DEF open_truncate
    <2>2. SoundChange(nodes[m], nodefs_truncate(nodes[m], n))
        BY <1>0, TruncateSound
    <2> QED BY <1>4, <1>a, <2>1, <2>2 DEF open_truncate
<1>5. ASSUME NEW p \in Pids, NEW fd \in Fds, NEW size \in 0 .. FS_FILE_MAX_SIZE + 1,
             NEW byte \in Bytes, fs_write(p, fd, size, byte, ok)
      PROVE  TreeInv'
    <2> DEFINE f == fd_table[p][fd]
               len == to_write(f.offset, size)
               new == nodefs_write(nodes[f.mount], f.node, f.offset, len, byte)
    <2>1. f.mount \in Mounts /\ f.node \in Nodes /\ f.offset \in Offsets
        BY <1>0 DEF TypeOK, FdType
    <2>2. len \in Nat /\ f.offset + len \in Offsets
        BY <2>1, ToWriteFacts
    <2>3. SoundChange(nodes[f.mount], new)
        BY <1>0, <2>1, <2>2, WriteSound
    <2>4. Up /\ UNCHANGED phase /\ pfs_sync(f.mount, new, ok)
        BY <1>5 DEF fs_write
    <2> QED BY <1>a, <2>1, <2>3, <2>4
<1>6. ASSUME NEW m, NEW s, NEW p, NEW flags, open_existing(p, m, s, flags) PROVE TreeInv'
    BY <1>6, <1>b DEF open_existing
<1>7. ASSUME NEW p, NEW fd, NEW size, fs_read(p, fd, size) PROVE TreeInv'
    BY <1>7, <1>b DEF fs_read
<1>8. ASSUME NEW path \in Paths,
             LET m == vfs_resolve_mount(path)
                 s == subpath(path) IN
             \/ fs_mkdir(m, s, ok)
             \/ fs_unlink(m, s, ok)
             \/ fs_rmdir(m, s, ok)
             \/ \E p \in Pids, flags \in OpenFlags :
                 \/ open_create(p, m, s, flags, ok)
                 \/ open_truncate(p, m, s, flags, ok)
                 \/ ok /\ open_existing(p, m, s, flags)
      PROVE  TreeInv'
    BY <1>8, <1>1, <1>2, <1>3, <1>4, <1>6, SubpathType
<1>9. ASSUME NEW p \in Pids, NEW fd \in Fds, NEW size \in 0 .. FS_FILE_MAX_SIZE + 1,
             \/ ok /\ fs_read(p, fd, size)
             \/ \E byte \in Bytes : fs_write(p, fd, size, byte, ok)
      PROVE  TreeInv'
    BY <1>5, <1>7, <1>9
<1> QED BY <1>8, <1>9 DEF Calls

LEMMA TreeInit == Init => TreeInv
<1> SUFFICES ASSUME Init PROVE TreeInv
    OBVIOUS
<1>1. TablesGood
    BY FormatTree DEF Init, TablesGood
<1>2. ~disk.magic /\ \A n \in Nodes : ~disk.nodes[n].used
    BY DEF Init, FreeNode
<1> QED BY <1>1, <1>2 DEF Init, TreeInv, Durable, DiskLoads, BlankDisk

\* When the power fails no write has: what is on the disk is / as it was
\* before the interrupted call, with part of that call's change to one node.
LEMMA InterruptedSound ==
    ASSUME FsInv, TreeInv, ~DeviceErrors, PowerFailsInSync
    PROVE  \E new : /\ SoundChange(nodes[RootFS], new)
                    /\ disk.nodes = nodes[RootFS] /\ disk.magic
                    /\ disk' \in TornImages(new)
<1>1. /\ TypeOK /\ RootFS \in Mounts
      /\ nodes[RootFS] \in Tables /\ GoodTable(nodes[RootFS])
    BY IndexFacts DEF FsInv, TypeOK, TreeInv, TablesGood
<1>2. phase # "off"
    BY DEF PowerFailsInSync, Up
<1>3. disk.nodes = nodes[RootFS] /\ disk.magic
    BY <1>2 DEF TreeInv, Durable, Image
<1>4. PICK new : /\ disk' \in TornImages(new)
                 /\ Adds(new) \/ Removes(new) \/ Truncates(new) \/ Writes(new)
    BY <1>1, InterruptedChange
<1>5. SoundChange(nodes[RootFS], new)
    <2>1. CASE Adds(new)
        BY <1>1, <2>1, AddSound DEF Adds
    <2>2. CASE Removes(new)
        BY <1>1, <2>2, RemoveSound DEF Removes
    <2>3. CASE Truncates(new)
        BY <1>1, <2>3, TruncateSound DEF Truncates
    <2>4. CASE Writes(new)
        BY <1>1, <2>4, WriteSound DEF Writes
    <2> QED BY <1>4, <2>1, <2>2, <2>3, <2>4
<1> QED BY <1>3, <1>4, <1>5

LEMMA PowerFailureKeepsTree ==
    ASSUME ~(DeviceErrors /\ PowerCuts), FsInv, TreeInv, PowerFails \/ PowerFailsInSync
    PROVE  TreeInv'
<1>1. ~DeviceErrors /\ disk \in Images
    BY DEF PowerFails, PowerFailsInSync, FsInv, TypeOK, Images
<1>2. phase' = "off" /\ nodes' = [m \in Mounts |-> nodefs_format]
    BY DEF PowerFails, PowerFailsInSync, LoseMemory
<1>3. TablesGood' /\ Durable'
    BY <1>2, FormatTree DEF TablesGood, Durable
<1>4. (disk'.magic => GoodTable(disk'.nodes)) /\ BlankDisk'
    <2>1. CASE PowerFails
        BY <1>1, <2>1 DEF PowerFails, TreeInv, DiskLoads, BlankDisk
    <2>2. CASE PowerFailsInSync
        <3>1. PICK new : /\ SoundChange(nodes[RootFS], new)
                         /\ disk.nodes = nodes[RootFS] /\ disk.magic
                         /\ disk' \in TornImages(new)
            BY <1>1, <2>2, InterruptedSound
        <3>2. GoodTable(disk.nodes)
            BY <1>1, <3>1 DEF TreeInv, DiskLoads
        <3>3. GoodTable(disk'.nodes)
            BY <1>1, <3>1, <3>2, TornSound
        <3>4. disk'.magic
            BY <3>1 DEF TornImages, Image
        <3> QED BY <3>3, <3>4 DEF BlankDisk
    <2> QED BY <2>1, <2>2
<1> QED BY <1>3, <1>4 DEF TreeInv, DiskLoads

LEMMA TreeNext ==
    ASSUME ~(DeviceErrors /\ PowerCuts)
    PROVE  FsInv /\ TreeInv /\ [Next]_vars => TreeInv'
<1> SUFFICES ASSUME FsInv, TreeInv, [Next]_vars PROVE TreeInv'
    OBVIOUS
<1>1. ASSUME UNCHANGED <<nodes, disk, phase>> PROVE TreeInv'
    BY <1>1 DEF TreeInv, TablesGood, Durable, DiskLoads, BlankDisk
<1>2. CASE \/ nodefs_init_instance
           \/ InitialSyncFails
           \/ \E name \in MountPoints, ok \in BOOLEAN : fs_init_mountpoint(name, ok)
           \/ fs_init_done
    BY <1>2, BootKeepsTree
<1>3. CASE \E ok \in BOOLEAN : Calls(ok)
    BY <1>3, CallsKeepTree
<1>4. CASE \/ \E p \in Pids, fd \in Fds : fs_close(p, fd)
           \/ \E p \in Pids, old_fd, new_fd \in Fds : fs_dup2(p, old_fd, new_fd)
    BY <1>1, <1>4 DEF fs_close, fs_dup2
<1>5. CASE \/ \E p, child \in Pids : fs_fork_copy_fds(p, child)
           \/ \E p \in Pids : create_process(p) \/ fs_on_process_recycle(p)
    BY <1>1, <1>5 DEF fs_fork_copy_fds, create_process, fs_on_process_recycle
<1>6. CASE PowerFails \/ PowerFailsInSync
    BY <1>6, PowerFailureKeepsTree
<1>7. CASE UNCHANGED vars
    BY <1>1, <1>7 DEF vars
<1> QED BY <1>2, <1>3, <1>4, <1>5, <1>6, <1>7 DEF Next

LEMMA TreeInvariant ==
    ASSUME ~(DeviceErrors /\ PowerCuts)
    PROVE  Spec => []TreeInv
BY TreeInit, TreeNext, FsInvariant, PTL DEF Spec

\* Every mounted file system is a tree, for every number of nodes and names,
\* every sequence of calls and either kind of failure.
THEOREM TreeSafe ==
    ASSUME ~(DeviceErrors /\ PowerCuts)
    PROVE  Spec => []TreeSound
<1>1. TreeInv => TreeSound
    BY DEF TreeInv, TablesGood, GoodTable, TreeSound
<1> QED BY <1>1, TreeInvariant, PTL

\* No two entries of a directory have the same name.
THEOREM NamesSafe ==
    ASSUME ~(DeviceErrors /\ PowerCuts)
    PROVE  Spec => []UniqueNames
<1>1. TreeInv => UniqueNames
    BY DEF TreeInv, TablesGood, GoodTable, UniqueNames
<1> QED BY <1>1, TreeInvariant, PTL

\* While no block write fails, the disk holds what memory holds after every
\* call.
THEOREM DurableSafe ==
    ASSUME ~(DeviceErrors /\ PowerCuts)
    PROVE  Spec => []Durable
<1>1. TreeInv => Durable
    BY DEF TreeInv
<1> QED BY <1>1, TreeInvariant, PTL

\* While no block write fails, the disk loads a sound tree at every moment,
\* wherever in an image the power failed.
THEOREM DiskSafe ==
    ASSUME ~(DeviceErrors /\ PowerCuts)
    PROVE  Spec => []DiskSound
<1>1. TreeInv => DiskSound
    BY DEF TreeInv, DiskLoads, GoodTable, DiskSound
<1> QED BY <1>1, TreeInvariant, PTL

\* A power failure costs at most the change of one node.
THEOREM CrashSafe ==
    ASSUME ~(DeviceErrors /\ PowerCuts)
    PROVE  Spec => CrashLosesOneNode
<1> DEFINE Kept == \E n \in Nodes : \A k \in Nodes \ {n} : disk'.nodes[k] = nodes[RootFS][k]
           Crash == ~DeviceErrors /\ phase # "off" /\ phase' = "off"
<1>1. ASSUME FsInv, TreeInv, Next, Crash PROVE Kept
    <2>1. /\ disk \in Images /\ disk.nodes \in Tables
          /\ disk = Image(nodes[RootFS]) /\ disk.nodes = nodes[RootFS]
        BY <1>1 DEF FsInv, TypeOK, Images, TreeInv, Durable, Image
    <2>2. disk' = disk => Kept
        BY <2>1, SizesAssumption DEF Nodes
    <2>3. PowerFails \/ PowerFailsInSync
        <3>1. ASSUME NEW ok \in BOOLEAN, Calls(ok) PROVE phase' = phase
            <4>1. \A m, s : fs_mkdir(m, s, ok) \/ fs_unlink(m, s, ok) \/ fs_rmdir(m, s, ok)
                               => phase' = phase
                BY DEF fs_mkdir, fs_unlink, fs_rmdir
            <4>2. \A m, s, p, flags : \/ open_create(p, m, s, flags, ok)
                                      \/ open_truncate(p, m, s, flags, ok)
                                      \/ open_existing(p, m, s, flags)
                                      => phase' = phase
                BY DEF open_create, open_truncate, open_existing
            <4>3. \A p, fd, size, byte : fs_read(p, fd, size) \/ fs_write(p, fd, size, byte, ok)
                                           => phase' = phase
                BY DEF fs_read, fs_write
            <4> QED BY <3>1, <4>1, <4>2, <4>3 DEF Calls
        <3> QED BY <1>1, <3>1 DEF Next, nodefs_init_instance, InitialSyncFails,
                fs_init_mountpoint, fs_init_done, fs_close, fs_dup2, fs_fork_copy_fds,
                create_process, fs_on_process_recycle
    <2>4. CASE PowerFails
        BY <2>2, <2>4 DEF PowerFails
    <2>5. CASE PowerFailsInSync
        <3>1. PICK new : SoundChange(nodes[RootFS], new) /\ disk' \in TornImages(new)
            BY <1>1, <2>5, InterruptedSound
        <3>2. PICK i \in Nodes : OneNode(nodes[RootFS], new, i)
            BY <3>1 DEF SoundChange
        <3>3. ASSUME NEW k \in Nodes, NEW c \in -1 .. FS_FILE_MAX_SIZE,
                     disk' = Image(Torn(disk.nodes, new, k, c))
              PROVE  Kept
            <4>1. disk'.nodes = Torn(disk.nodes, new, k, c)
                BY <3>3 DEF Image
            <4>2. \A n \in Nodes \ {i} : disk'.nodes[n] = nodes[RootFS][n]
                BY <2>1, <3>1, <3>2, <4>1, TornNode DEF OneNode, SoundChange
            <4> QED BY <4>2
        <3> QED BY <2>2, <3>1, <3>3 DEF TornImages
    <2> QED BY <2>3, <2>4, <2>5
<1>2. ASSUME FsInv, TreeInv, [Next]_vars PROVE [Crash => Kept]_vars
    BY <1>1, <1>2
<1> QED BY <1>2, FsInvariant, TreeInvariant, PTL DEF Spec, CrashLosesOneNode

-----------------------------------------------------------------------------
(* The listing.  What a step of another process does to a directory: it    *)
(* adds an entry with a name of its own, or removes one, or neither.       *)

\* The entries of the directory s of a table, and the number of an entry.
EntriesOf(N, s) ==
    {n \in Nodes : \E dir \in Nodes :
        /\ N[n].used /\ N[n].parent = dir
        /\ N[dir].type = "DIR"
        /\ nodefs_resolve_path(N, s, dir)}

Rank(E, n) == Cardinality({k \in E : k < n})

LEMMA HasLeast ==
    ASSUME NEW S \in SUBSET Nat, S # {}
    PROVE  \E n \in S : \A m \in S : n <= m
<1> DEFINE R == OpToRel(<, Nat)
<1>1. IsWellFoundedOn(R, Nat)
    BY NatLessThanWellFounded
<1>2. \A x, y \in Nat : x < y => <<x, y>> \in R
    BY DEF OpToRel
<1> HIDE DEF R
<1>3. PICK n \in S : \A m \in S : ~(<<m, n>> \in R)
    BY <1>1, WFMin
<1>4. \A m \in S : ~(m < n)
    BY <1>2, <1>3
<1> QED BY <1>4

\* A path leads to one node at most.
LEMMA ResolveUnique ==
    ASSUME NEW N, NEW s \in Seq(Names), NEW a \in Nodes, NEW b \in Nodes,
           nodefs_resolve_path(N, s, a), nodefs_resolve_path(N, s, b)
    PROVE  a = b
<1>1. PICK v \in [0 .. Len(s) -> Nodes] :
        /\ v[0] = 0
        /\ \A i \in 1 .. Len(s) : nodefs_find_child(N, v[i-1], s[i], v[i])
        /\ v[Len(s)] = a
    BY DEF nodefs_resolve_path
<1>2. PICK w \in [0 .. Len(s) -> Nodes] :
        /\ w[0] = 0
        /\ \A i \in 1 .. Len(s) : nodefs_find_child(N, w[i-1], s[i], w[i])
        /\ w[Len(s)] = b
    BY DEF nodefs_resolve_path
<1> SUFFICES ASSUME a # b PROVE FALSE
    OBVIOUS
<1> DEFINE S == {i \in 0 .. Len(s) : v[i] # w[i]}
<1>3. Len(s) \in Nat /\ S \subseteq Nat /\ Len(s) \in S
    BY <1>1, <1>2
<1>4. PICK i \in S : \A j \in S : i <= j
    BY <1>3, HasLeast
<1>5. i \in 1 .. Len(s) /\ i - 1 \in 0 .. Len(s) /\ i - 1 \notin S
    BY <1>1, <1>2, <1>3, <1>4
<1>6. v[i-1] = w[i-1] /\ v[i] # w[i] /\ v[i] \in Int /\ w[i] \in Int
    BY <1>4, <1>5, IndexFacts
<1>7. nodefs_find_child(N, v[i-1], s[i], v[i]) /\ nodefs_find_child(N, v[i-1], s[i], w[i])
    BY <1>1, <1>2, <1>5, <1>6
<1>8. v[i] <= w[i] /\ w[i] <= v[i]
    BY <1>7 DEF nodefs_find_child
<1> QED BY <1>6, <1>8

\* M is N with one node more: i, which no node is in and whose name is new in
\* its directory.
Extra(N, M, i) ==
    /\ i \in Nodes \ {0} /\ ~N[i].used /\ M[i].used
    /\ \A n \in Nodes \ {i} : M[n] = N[n]
    /\ M[i].parent \in Nodes \ {i}
    /\ \A n \in Nodes : N[n].used => N[n].parent # i
    /\ ChildrenNamed(N, M[i].parent, M[i].name) = {}

LEMMA ExtraFind ==
    ASSUME NEW N, NEW M, NEW i, Extra(N, M, i), NEW p, NEW x, NEW c
    PROVE  /\ nodefs_find_child(N, p, x, c) => nodefs_find_child(M, p, x, c)
           /\ nodefs_find_child(M, p, x, c) => p # i
           /\ nodefs_find_child(M, p, x, c) /\ c # i => nodefs_find_child(N, p, x, c)
<1>1. ChildrenNamed(N, p, x) \subseteq ChildrenNamed(M, p, x)
    BY DEF Extra, ChildrenNamed
<1>2. ChildrenNamed(M, p, x) \subseteq ChildrenNamed(N, p, x) \cup {i}
    BY DEF Extra, ChildrenNamed
<1>3. i \in ChildrenNamed(M, p, x) => p = M[i].parent /\ x = M[i].name
    BY DEF ChildrenNamed
<1>4. i \in ChildrenNamed(M, p, x) => ChildrenNamed(N, p, x) = {}
    BY <1>3 DEF Extra
<1>5. nodefs_find_child(N, p, x, c) => nodefs_find_child(M, p, x, c)
    BY <1>1, <1>2, <1>4 DEF nodefs_find_child
<1>6. ASSUME nodefs_find_child(M, p, x, c) PROVE p # i
    <2>1. c \in Nodes /\ M[c].used /\ M[c].parent = p
        BY <1>6 DEF nodefs_find_child, ChildrenNamed
    <2> QED BY <2>1 DEF Extra
<1>7. nodefs_find_child(M, p, x, c) /\ c # i => nodefs_find_child(N, p, x, c)
    BY <1>1, <1>2 DEF nodefs_find_child
<1> QED BY <1>5, <1>6, <1>7

LEMMA ExtraResolve ==
    ASSUME NEW N, NEW M, NEW i, Extra(N, M, i), NEW s \in Seq(Names), NEW d \in Nodes
    PROVE  /\ nodefs_resolve_path(N, s, d) => nodefs_resolve_path(M, s, d)
           /\ nodefs_resolve_path(M, s, d) /\ d # i => nodefs_resolve_path(N, s, d)
<1>1. ASSUME nodefs_resolve_path(N, s, d) PROVE nodefs_resolve_path(M, s, d)
    <2>1. PICK walk \in [0 .. Len(s) -> Nodes] :
            /\ walk[0] = 0
            /\ \A j \in 1 .. Len(s) : nodefs_find_child(N, walk[j-1], s[j], walk[j])
            /\ walk[Len(s)] = d
        BY <1>1 DEF nodefs_resolve_path
    <2>2. \A j \in 1 .. Len(s) : nodefs_find_child(M, walk[j-1], s[j], walk[j])
        BY <2>1, ExtraFind
    <2> QED BY <2>1, <2>2 DEF nodefs_resolve_path
<1>2. ASSUME nodefs_resolve_path(M, s, d), d # i PROVE nodefs_resolve_path(N, s, d)
    <2>1. PICK walk \in [0 .. Len(s) -> Nodes] :
            /\ walk[0] = 0
            /\ \A j \in 1 .. Len(s) : nodefs_find_child(M, walk[j-1], s[j], walk[j])
            /\ walk[Len(s)] = d
        BY <1>2 DEF nodefs_resolve_path
    <2>2. ASSUME NEW j \in 1 .. Len(s) PROVE walk[j] # i
        <3>1. CASE j = Len(s)
            BY <1>2, <2>1, <3>1
        <3>2. CASE j # Len(s)
            <4>1. j + 1 \in 1 .. Len(s) /\ (j + 1) - 1 = j
                BY <3>2
            <4>2. nodefs_find_child(M, walk[j], s[j + 1], walk[j + 1])
                BY <2>1, <4>1
            <4> QED BY <4>2, ExtraFind
        <3> QED BY <3>1, <3>2
    <2>3. \A j \in 1 .. Len(s) : nodefs_find_child(N, walk[j-1], s[j], walk[j])
        BY <2>1, <2>2, ExtraFind
    <2> QED BY <2>1, <2>3 DEF nodefs_resolve_path
<1> QED BY <1>1, <1>2

\* From N to M a directory only gains entries, with names it does not hold.
Grows(N, M, s) ==
    /\ EntriesOf(N, s) \subseteq EntriesOf(M, s)
    /\ \A n \in EntriesOf(N, s) : M[n].name = N[n].name
    /\ \A n \in EntriesOf(M, s) \ EntriesOf(N, s) :
          \A k \in EntriesOf(N, s) : M[n].name # N[k].name

LEMMA ExtraGrows ==
    ASSUME NEW N, NEW M, NEW i, Extra(N, M, i), NEW s \in Seq(Names)
    PROVE  Grows(N, M, s)
<1>1. ASSUME NEW n \in EntriesOf(N, s)
      PROVE  n \in EntriesOf(M, s) /\ M[n].name = N[n].name
    <2>1. PICK dir \in Nodes : /\ N[n].used /\ N[n].parent = dir /\ N[dir].type = "DIR"
                               /\ nodefs_resolve_path(N, s, dir)
        BY DEF EntriesOf
    <2>2. n \in Nodes \ {i} /\ dir # i /\ M[n] = N[n] /\ M[dir] = N[dir]
        BY <2>1 DEF Extra, EntriesOf
    <2>3. nodefs_resolve_path(M, s, dir)
        BY <2>1, ExtraResolve
    <2> QED BY <2>1, <2>2, <2>3 DEF EntriesOf
<1>2. ASSUME NEW n \in EntriesOf(M, s), n \notin EntriesOf(N, s), NEW k \in EntriesOf(N, s)
      PROVE  M[n].name # N[k].name
    <2>1. PICK dir \in Nodes : /\ M[n].used /\ M[n].parent = dir /\ M[dir].type = "DIR"
                               /\ nodefs_resolve_path(M, s, dir)
        BY DEF EntriesOf
    <2>2. n \in Nodes /\ dir # i
        BY <2>1 DEF Extra, EntriesOf
    <2>3. nodefs_resolve_path(N, s, dir) /\ M[dir] = N[dir]
        <3>1. nodefs_resolve_path(N, s, dir)
            BY <2>1, <2>2, ExtraResolve
        <3>2. M[dir] = N[dir]
            BY <2>1, <2>2 DEF Extra
        <3> QED BY <3>1, <3>2
    <2>4. n = i
        BY <1>2, <2>1, <2>2, <2>3 DEF Extra, EntriesOf
    <2>5. PICK d \in Nodes : N[k].used /\ N[k].parent = d /\ nodefs_resolve_path(N, s, d)
        BY DEF EntriesOf
    <2>6. d = dir
        BY <2>3, <2>5, ResolveUnique
    <2>7. k \in Nodes /\ k \notin ChildrenNamed(N, M[i].parent, M[i].name)
        BY DEF Extra, EntriesOf
    <2> QED BY <2>1, <2>4, <2>5, <2>6, <2>7 DEF ChildrenNamed
<1> QED BY <1>1, <1>2 DEF Grows

LEMMA ShapeFind ==
    ASSUME NEW N, NEW M, SameShape(N, M), NEW p, NEW x, NEW c
    PROVE  nodefs_find_child(N, p, x, c) => nodefs_find_child(M, p, x, c)
<1>1. ChildrenNamed(N, p, x) = ChildrenNamed(M, p, x)
    BY DEF SameShape, ChildrenNamed
<1> QED BY <1>1 DEF nodefs_find_child

LEMMA ShapeEntries ==
    ASSUME NEW N \in Tables, NEW M, GoodTable(N), SameShape(N, M), NEW s \in Seq(Names)
    PROVE  EntriesOf(N, s) \subseteq EntriesOf(M, s)
<1> SUFFICES ASSUME NEW n \in EntriesOf(N, s) PROVE n \in EntriesOf(M, s)
    OBVIOUS
<1>1. PICK dir \in Nodes : /\ N[n].used /\ N[n].parent = dir /\ N[dir].type = "DIR"
                           /\ nodefs_resolve_path(N, s, dir)
    BY DEF EntriesOf
<1>2. PICK walk \in [0 .. Len(s) -> Nodes] :
        /\ walk[0] = 0
        /\ \A j \in 1 .. Len(s) : nodefs_find_child(N, walk[j-1], s[j], walk[j])
        /\ walk[Len(s)] = dir
    BY <1>1 DEF nodefs_resolve_path
<1>3. \A j \in 1 .. Len(s) : nodefs_find_child(M, walk[j-1], s[j], walk[j])
    BY <1>2, ShapeFind
<1>4. nodefs_resolve_path(M, s, dir)
    BY <1>2, <1>3 DEF nodefs_resolve_path
<1>5. N[dir].used
    BY <1>1, ResolvedUsed DEF GoodTable, Tree
<1> QED BY <1>1, <1>4, <1>5 DEF EntriesOf, SameShape

LEMMA ShapeGrows ==
    ASSUME NEW N \in Tables, NEW M \in Tables, GoodTable(N), SameShape(N, M),
           NEW s \in Seq(Names)
    PROVE  Grows(N, M, s)
<1>1. GoodTable(M) /\ SameShape(M, N)
    BY ShapeKeepsTree DEF SameShape
<1>2. EntriesOf(N, s) = EntriesOf(M, s)
    <2>1. EntriesOf(N, s) \subseteq EntriesOf(M, s)
        BY ShapeEntries
    <2>2. EntriesOf(M, s) \subseteq EntriesOf(N, s)
        BY <1>1, ShapeEntries
    <2> QED BY <2>1, <2>2
<1>3. \A n \in EntriesOf(N, s) : M[n].name = N[n].name
    BY DEF EntriesOf, SameShape
<1> QED BY <1>2, <1>3 DEF Grows

\* All nodes but the root have names that a path can hold.
Named(N) == \A n \in Nodes \ {0} : N[n].used => N[n].name \in Names

\* What a call may do to a table.
SmallChange(N, M) ==
    /\ M \in Tables
    /\ SameShape(N, M) \/ \E i : Extra(N, M, i) \/ Extra(M, N, i)
    /\ Named(N) => Named(M)

LEMMA AddSmall ==
    ASSUME NEW N \in Tables, GoodTable(N), NEW s \in Seq(Names), NEW pl \in Places(N, s),
           NEW type \in {"FILE", "DIR"}
    PROVE  SmallChange(N, AddNode(N, pl, type, s))
<1> DEFINE M == AddNode(N, pl, type, s)
           i == pl.node
<1>1. /\ i \in Nodes \ {0} /\ pl.parent \in Nodes /\ ~N[i].used /\ Leaf(s) \in Names
      /\ ChildrenNamed(N, pl.parent, Leaf(s)) = {}
      /\ N[pl.parent].used
    BY PlaceFacts DEF GoodTable, Tree
<1>2. /\ M[i].used /\ M[i].parent = pl.parent /\ M[i].name = Leaf(s)
      /\ \A n \in Nodes \ {i} : M[n] = N[n]
    BY <1>1 DEF AddNode, NewNode, Tables
<1>3. M \in Tables
    BY AddType
<1> HIDE DEF M
<1>4. \A n \in Nodes : N[n].used => N[n].parent # i
    BY <1>1, IndexFacts, SizesAssumption DEF GoodTable, Tree, Nodes
<1>5. Extra(N, M, i)
    BY <1>1, <1>2, <1>4 DEF Extra
<1>6. Named(N) => Named(M)
    BY <1>1, <1>2 DEF Named
<1> QED BY <1>3, <1>5, <1>6 DEF SmallChange, M

LEMMA RemoveSmall ==
    ASSUME NEW m \in Mounts, nodes[m] \in Tables, GoodTable(nodes[m]), NEW s \in Seq(Names),
           NEW i \in Unlinkable(m, s) \cup Removable(m, s)
    PROVE  SmallChange(nodes[m], RemoveNode(nodes[m], i))
<1>1. PICK N \in Tables : N = nodes[m]
    OBVIOUS
<1> DEFINE M == RemoveNode(N, i)
<1>2. i \in Nodes \ {0} /\ N[i].used
    BY <1>1, ResolvedUsed DEF Unlinkable, Removable
<1>3. nodefs_is_dir_empty(N, i)
    <2>1. CASE i \in Removable(m, s)
        BY <1>1, <2>1 DEF Removable
    <2>2. CASE i \in Unlinkable(m, s)
        <3>1. N[i].type = "FILE"
            BY <1>1, <2>2 DEF Unlinkable
        <3>2. \A k \in Nodes \ {0} : N[k].used => N[k].parent # i
            BY <1>1, <3>1 DEF GoodTable, Tree
        <3>3. N[0].parent # i
            BY <1>1, <1>2, SizesAssumption DEF GoodTable, Tree, Nodes
        <3> QED BY <3>2, <3>3 DEF nodefs_is_dir_empty
    <2> QED BY <2>1, <2>2
<1>4. /\ ~M[i].used /\ \A n \in Nodes \ {i} : M[n] = N[n]
      /\ M \in Tables
    BY <1>2, RemoveType DEF RemoveNode, FreeNode, Tables
<1> HIDE DEF M
<1>5. \A n \in Nodes : N[n].used => N[n].parent # i
    BY <1>3 DEF nodefs_is_dir_empty
<1>6. N[i].parent \in Nodes \ {i}
    BY <1>1, <1>2, <1>5 DEF GoodTable, Tree
<1>7. ChildrenNamed(M, N[i].parent, N[i].name) = {}
    <2> SUFFICES ASSUME NEW n \in ChildrenNamed(M, N[i].parent, N[i].name) PROVE FALSE
        OBVIOUS
    <2>1. n \in Nodes /\ M[n].used /\ M[n].parent = N[i].parent /\ M[n].name = N[i].name
        BY DEF ChildrenNamed
    <2>2. n # i /\ M[n] = N[n]
        BY <1>4, <2>1
    <2>3. Siblings(N, n, i) /\ N[n].name = N[i].name
        BY <1>2, <2>1, <2>2 DEF Siblings
    <2> QED BY <1>1, <1>2, <2>1, <2>2, <2>3 DEF GoodTable, NamesUnique
<1>8. \A n \in Nodes \ {i} : M[n] = N[n] /\ N[n] = M[n]
    BY <1>4
<1>9. \A n \in Nodes : M[n].used => M[n].parent # i
    BY <1>4, <1>5
<1>10. Extra(M, N, i)
    BY <1>2, <1>4, <1>6, <1>7, <1>8, <1>9 DEF Extra
<1>11. Named(N) => Named(M)
    BY <1>4 DEF Named
<1> QED BY <1>1, <1>4, <1>10, <1>11 DEF SmallChange, M

LEMMA ShapeSmall ==
    ASSUME NEW N, NEW M \in Tables, SameShape(N, M)
    PROVE  SmallChange(N, M)
BY DEF SmallChange, SameShape, Named

LEMMA SmallGrows ==
    ASSUME NEW N \in Tables, GoodTable(N), NEW M, SmallChange(N, M), NEW s \in Seq(Names)
    PROVE  Grows(N, M, s) \/ Grows(M, N, s)
<1>1. CASE SameShape(N, M)
    BY <1>1, ShapeGrows DEF SmallChange
<1>2. ASSUME NEW i, Extra(N, M, i) \/ Extra(M, N, i)
      PROVE  Grows(N, M, s) \/ Grows(M, N, s)
    BY <1>2, ExtraGrows
<1> QED BY <1>1, <1>2 DEF SmallChange

\* A system call changes one table a little and syncs it, or changes none.
LEMMA CallChange ==
    ASSUME FsInv, TreeInv, NEW ok \in BOOLEAN, Calls(ok)
    PROVE  /\ UNCHANGED <<live, phase>>
           /\ \/ UNCHANGED <<nodes, disk>>
              \/ \E m \in Mounts : \E new : SmallChange(nodes[m], new) /\ pfs_sync(m, new, ok)
<1>0. \A m \in Mounts : nodes[m] \in Tables /\ GoodTable(nodes[m])
    BY DEF FsInv, TypeOK, TreeInv, TablesGood
<1> DEFINE Goal == /\ UNCHANGED <<live, phase>>
                   /\ \/ UNCHANGED <<nodes, disk>>
                      \/ \E m \in Mounts : \E new : SmallChange(nodes[m], new) /\ pfs_sync(m, new, ok)
<1>1. ASSUME NEW m \in Mounts, NEW s \in Seq(Names), fs_mkdir(m, s, ok) PROVE Goal
    <2>1. PICK pl \in Places(nodes[m], s) : pfs_sync(m, AddNode(nodes[m], pl, "DIR", s), ok)
        BY <1>1 DEF fs_mkdir, nodefs_mkdir
    <2>2. SmallChange(nodes[m], AddNode(nodes[m], pl, "DIR", s))
        BY <1>0, AddSmall
    <2> QED BY <1>1, <2>1, <2>2 DEF fs_mkdir
<1>2. ASSUME NEW m \in Mounts, NEW s \in Seq(Names),
             fs_unlink(m, s, ok) \/ fs_rmdir(m, s, ok)
      PROVE  Goal
    <2>1. PICK n \in Unlinkable(m, s) \cup Removable(m, s) :
              pfs_sync(m, RemoveNode(nodes[m], n), ok)
        BY <1>2 DEF fs_unlink, fs_rmdir
    <2>2. SmallChange(nodes[m], RemoveNode(nodes[m], n))
        BY <1>0, RemoveSmall
    <2> QED BY <1>2, <2>1, <2>2 DEF fs_unlink, fs_rmdir
<1>3. ASSUME NEW m \in Mounts, NEW s \in Seq(Names), NEW p, NEW flags,
             open_create(p, m, s, flags, ok)
      PROVE  Goal
    <2>1. PICK pl \in Places(nodes[m], s) :
              pfs_sync(m, AddNode(nodes[m], pl, "FILE", s), ok)
        BY <1>3 DEF open_create
    <2>2. SmallChange(nodes[m], AddNode(nodes[m], pl, "FILE", s))
        BY <1>0, AddSmall
    <2> QED BY <1>3, <2>1, <2>2 DEF open_create
<1>4. ASSUME NEW m \in Mounts, NEW s, NEW p, NEW flags, open_truncate(p, m, s, flags, ok)
      PROVE  Goal
    <2>1. PICK n \in Nodes : pfs_sync(m, nodefs_truncate(nodes[m], n), ok)
        BY <1>4 DEF open_truncate
    <2>2. SmallChange(nodes[m], nodefs_truncate(nodes[m], n))
        BY <1>0, TruncateFacts, TruncateShape, ShapeSmall
    <2> QED BY <1>4, <2>1, <2>2 DEF open_truncate
<1>5. ASSUME NEW p \in Pids, NEW fd \in Fds, NEW size \in 0 .. FS_FILE_MAX_SIZE + 1,
             NEW byte \in Bytes, fs_write(p, fd, size, byte, ok)
      PROVE  Goal
    <2> DEFINE f == fd_table[p][fd]
               len == to_write(f.offset, size)
               new == nodefs_write(nodes[f.mount], f.node, f.offset, len, byte)
    <2>1. f.mount \in Mounts /\ f.node \in Nodes /\ f.offset \in Offsets
        BY DEF FsInv, TypeOK, FdType
    <2>2. len \in Nat /\ f.offset + len \in Offsets
        BY <2>1, ToWriteFacts
    <2>3. new \in Tables /\ SameShape(nodes[f.mount], new)
        BY <1>0, <2>1, <2>2, WriteFacts, WriteShape
    <2>4. SmallChange(nodes[f.mount], new)
        BY <2>3, ShapeSmall
    <2>5. UNCHANGED <<live, phase>> /\ pfs_sync(f.mount, new, ok)
        BY <1>5 DEF fs_write
    <2> QED BY <2>1, <2>4, <2>5
<1>6. ASSUME NEW m, NEW s, NEW p, NEW flags, open_existing(p, m, s, flags) PROVE Goal
    BY <1>6 DEF open_existing
<1>7. ASSUME NEW p, NEW fd, NEW size, fs_read(p, fd, size) PROVE Goal
    BY <1>7 DEF fs_read
<1> HIDE DEF Goal
<1>8. ASSUME NEW path \in Paths,
             LET m == vfs_resolve_mount(path)
                 s == subpath(path) IN
             \/ fs_mkdir(m, s, ok)
             \/ fs_unlink(m, s, ok)
             \/ fs_rmdir(m, s, ok)
             \/ \E p \in Pids, flags \in OpenFlags :
                 \/ open_create(p, m, s, flags, ok)
                 \/ open_truncate(p, m, s, flags, ok)
                 \/ ok /\ open_existing(p, m, s, flags)
      PROVE  Goal
    BY <1>8, <1>1, <1>2, <1>3, <1>4, <1>6, SubpathType
<1>9. ASSUME NEW p \in Pids, NEW fd \in Fds, NEW size \in 0 .. FS_FILE_MAX_SIZE + 1,
             \/ ok /\ fs_read(p, fd, size)
             \/ \E byte \in Bytes : fs_write(p, fd, size, byte, ok)
      PROVE  Goal
    BY <1>5, <1>7, <1>9
<1>10. Goal
    BY <1>8, <1>9 DEF Calls
<1> QED BY <1>10 DEF Goal

\* As long as some process lives a step changes each table a little.
LEMMA StepChange ==
    ASSUME FsInv, TreeInv, Next, Up, live' # {}, NEW m \in Mounts
    PROVE  SmallChange(nodes[m], nodes'[m])
<1>1. nodes[m] \in Tables /\ SameShape(nodes[m], nodes[m])
    BY DEF FsInv, TypeOK, SameShape
<1>2. ASSUME UNCHANGED nodes PROVE SmallChange(nodes[m], nodes'[m])
    BY <1>1, <1>2, ShapeSmall
<1>3. ASSUME NEW ok \in BOOLEAN, Calls(ok) PROVE SmallChange(nodes[m], nodes'[m])
    <2>1. CASE UNCHANGED nodes
        BY <1>2, <2>1
    <2>2. ASSUME NEW k \in Mounts, NEW new, SmallChange(nodes[k], new), pfs_sync(k, new, ok)
          PROVE  SmallChange(nodes[m], nodes'[m])
        <3>1. nodes'[m] = IF m = k THEN new ELSE nodes[m]
            BY <2>2 DEF pfs_sync, FsInv, TypeOK
        <3> QED BY <1>1, <2>2, <3>1, ShapeSmall
    <2> QED BY <1>3, <2>1, <2>2, CallChange
<1>4. ~(PowerFails \/ PowerFailsInSync)
    BY DEF PowerFails, PowerFailsInSync, LoseMemory
<1>5. CASE \/ \E p \in Pids, fd \in Fds : fs_close(p, fd)
           \/ \E p \in Pids, old_fd, new_fd \in Fds : fs_dup2(p, old_fd, new_fd)
           \/ \E p, child \in Pids : fs_fork_copy_fds(p, child)
           \/ \E p \in Pids : create_process(p) \/ fs_on_process_recycle(p)
    BY <1>2, <1>5 DEF fs_close, fs_dup2, fs_fork_copy_fds, create_process, fs_on_process_recycle
<1>6. ~(\/ nodefs_init_instance
        \/ InitialSyncFails
        \/ \E name \in MountPoints, ok \in BOOLEAN : fs_init_mountpoint(name, ok)
        \/ fs_init_done)
    BY DEF Up, nodefs_init_instance, InitialSyncFails, fs_init_mountpoint, fs_init_done
<1> QED BY <1>3, <1>4, <1>5, <1>6 DEF Next

\* Whatever is torn off a write, a node on the disk has its old or new name.
NamesKnown == (\A m \in Mounts : Named(nodes[m])) /\ Named(disk.nodes)

LEMMA FormatNamed == Named(nodefs_format)
BY DEF Named, nodefs_format, FreeNode

LEMMA TornNamed ==
    ASSUME disk \in Images, Named(disk.nodes), NEW new \in Tables, Named(new),
           NEW img \in TornImages(new)
    PROVE  Named(img.nodes)
<1>1. CASE img = disk
    BY <1>1
<1>2. ASSUME NEW k \in Nodes, NEW c \in -1 .. FS_FILE_MAX_SIZE,
             img = Image(Torn(disk.nodes, new, k, c))
      PROVE  Named(img.nodes)
    <2>1. img.nodes = Torn(disk.nodes, new, k, c)
        BY <1>2 DEF Image
    <2>2. disk.nodes \in Tables
        BY DEF Images
    <2> SUFFICES ASSUME NEW n \in Nodes \ {0}, img.nodes[n].used
                 PROVE  img.nodes[n].name \in Names
        BY DEF Named
    <2>3. n > k \/ n <= k
        BY IndexFacts
    <2> QED BY <2>1, <2>2, <2>3, TornNode DEF Named
<1> QED BY <1>1, <1>2 DEF TornImages

LEMMA SyncNamed ==
    ASSUME TypeOK, NamesKnown, NEW m \in Mounts, NEW new, SmallChange(nodes[m], new),
           NEW ok \in BOOLEAN, pfs_sync(m, new, ok)
    PROVE  NamesKnown'
<1>1. new \in Tables /\ Named(new) /\ disk \in Images
    BY DEF SmallChange, NamesKnown, TypeOK, Images
<1>2. \A k \in Mounts : nodes'[k] = IF k = m THEN new ELSE nodes[k]
    BY DEF pfs_sync, TypeOK
<1>3. CASE disk' = disk
    BY <1>1, <1>2, <1>3 DEF NamesKnown
<1>4. CASE disk' = Image(new)
    BY <1>1, <1>2, <1>4 DEF NamesKnown, Image
<1>5. CASE disk' \in TornImages(new)
    BY <1>1, <1>2, <1>5, TornNamed DEF NamesKnown
<1> QED BY <1>3, <1>4, <1>5 DEF pfs_sync

LEMMA NamesNext ==
    ASSUME FsInv, TreeInv, NamesKnown, [Next]_vars
    PROVE  NamesKnown'
<1>0. TypeOK /\ disk \in Images
    BY DEF FsInv, TypeOK, Images
<1>1. ASSUME UNCHANGED <<nodes, disk>> PROVE NamesKnown'
    BY <1>1 DEF NamesKnown
<1>2. CASE nodefs_init_instance
    <2> DEFINE loaded == IF ImageValid THEN disk.nodes ELSE nodefs_format
    <2>1. Named(loaded)
        BY FormatNamed DEF NamesKnown
    <2> HIDE DEF loaded
    <2>2. /\ nodes' = [m \in Mounts |-> IF m = RootFS THEN loaded ELSE nodefs_format]
          /\ disk'.nodes = loaded
        BY <1>2 DEF nodefs_init_instance, Image, loaded
    <2> QED BY <2>1, <2>2, FormatNamed DEF NamesKnown
<1>3. CASE InitialSyncFails
    BY <1>0, <1>3, TornNamed, FormatNamed, FormatType DEF InitialSyncFails, NamesKnown
<1>4. ASSUME NEW name \in MountPoints, NEW ok \in BOOLEAN, fs_init_mountpoint(name, ok)
      PROVE  NamesKnown'
    <2>1. <<name>> \in Seq(Names)
        BY NamesAssumption
    <2>2. nodes[RootFS] \in Tables /\ GoodTable(nodes[RootFS]) /\ RootFS \in Mounts
        BY <1>0, IndexFacts DEF TypeOK, TreeInv, TablesGood
    <2>3. PICK pl \in Places(nodes[RootFS], <<name>>) :
              pfs_sync(RootFS, AddNode(nodes[RootFS], pl, "DIR", <<name>>), ok)
        BY <1>4 DEF fs_init_mountpoint, nodefs_mkdir
    <2>4. SmallChange(nodes[RootFS], AddNode(nodes[RootFS], pl, "DIR", <<name>>))
        BY <2>1, <2>2, AddSmall
    <2> QED BY <1>0, <2>2, <2>3, <2>4, SyncNamed
<1>5. CASE fs_init_done
    BY <1>1, <1>5 DEF fs_init_done
<1>6. ASSUME NEW ok \in BOOLEAN, Calls(ok) PROVE NamesKnown'
    BY <1>0, <1>1, <1>6, CallChange, SyncNamed
<1>7. CASE \/ \E p \in Pids, fd \in Fds : fs_close(p, fd)
           \/ \E p \in Pids, old_fd, new_fd \in Fds : fs_dup2(p, old_fd, new_fd)
           \/ \E p, child \in Pids : fs_fork_copy_fds(p, child)
           \/ \E p \in Pids : create_process(p) \/ fs_on_process_recycle(p)
    BY <1>1, <1>7 DEF fs_close, fs_dup2, fs_fork_copy_fds, create_process, fs_on_process_recycle
<1>8. CASE PowerFails
    BY <1>8, FormatNamed DEF PowerFails, LoseMemory, NamesKnown
<1>9. CASE PowerFailsInSync
    <2>1. PICK new : /\ disk' \in TornImages(new)
                     /\ Adds(new) \/ Removes(new) \/ Truncates(new) \/ Writes(new)
        BY <1>0, <1>9, InterruptedChange
    <2>2. nodes[RootFS] \in Tables /\ GoodTable(nodes[RootFS]) /\ RootFS \in Mounts
        BY <1>0, IndexFacts DEF TypeOK, TreeInv, TablesGood
    <2>3. SmallChange(nodes[RootFS], new)
        <3>1. CASE Adds(new)
            BY <2>2, <3>1, AddSmall DEF Adds
        <3>2. CASE Removes(new)
            BY <2>2, <3>2, RemoveSmall DEF Removes
        <3>3. CASE Truncates(new)
            BY <2>2, <3>3, TruncateFacts, TruncateShape, ShapeSmall DEF Truncates
        <3>4. CASE Writes(new)
            BY <2>2, <3>4, WriteFacts, WriteShape, ShapeSmall DEF Writes
        <3> QED BY <2>1, <3>1, <3>2, <3>3, <3>4
    <2>4. Named(disk'.nodes)
        BY <1>0, <2>1, <2>2, <2>3, TornNamed DEF SmallChange, NamesKnown
    <2> QED BY <1>9, <2>4, FormatNamed DEF PowerFailsInSync, LoseMemory, NamesKnown
<1>10. CASE UNCHANGED vars
    BY <1>1, <1>10 DEF vars
<1> QED BY <1>2, <1>3, <1>4, <1>5, <1>6, <1>7, <1>8, <1>9, <1>10 DEF Next

LEMMA NamesInvariant ==
    ASSUME ~(DeviceErrors /\ PowerCuts)
    PROVE  Spec => []NamesKnown
<1>1. Init => NamesKnown
    <2> SUFFICES ASSUME Init PROVE NamesKnown
        OBVIOUS
    <2>1. \A n \in Nodes : ~disk.nodes[n].used
        BY DEF Init, FreeNode
    <2>2. \A m \in Mounts : nodes[m] = nodefs_format
        BY DEF Init
    <2>3. Named(disk.nodes)
        BY <2>1 DEF Named
    <2> QED BY <2>2, <2>3, FormatNamed DEF NamesKnown
<1>2. FsInv /\ TreeInv /\ NamesKnown /\ [Next]_vars => NamesKnown'
    BY NamesNext
<1> QED BY <1>1, <1>2, FsInvariant, TreeInvariant, PTL DEF Spec

-----------------------------------------------------------------------------
(* The numbers that readdir gives the entries.                             *)

LEMMA RankFacts ==
    ASSUME NEW E \in SUBSET Nodes, NEW n \in Int
    PROVE  Rank(E, n) \in Nat /\ IsFiniteSet({k \in E : k < n})
<1>1. IsFiniteSet(Nodes)
    BY FS_Interval, SizesAssumption DEF Nodes
<1>2. IsFiniteSet({k \in E : k < n})
    BY <1>1, FS_Subset
<1> QED BY <1>2, FS_CardinalityType DEF Rank

LEMMA RankMono ==
    ASSUME NEW E \in SUBSET Nodes, NEW F \in SUBSET Nodes, E \subseteq F, NEW n \in Int
    PROVE  Rank(E, n) <= Rank(F, n)
<1>1. IsFiniteSet({k \in F : k < n}) /\ {k \in E : k < n} \subseteq {k \in F : k < n}
    BY RankFacts
<1> QED BY <1>1, FS_Subset DEF Rank

\* The next number up counts one entry more, or none.
LEMMA RankStep ==
    ASSUME NEW E \in SUBSET Nodes, NEW n \in Int
    PROVE  Rank(E, n + 1) = IF n \in E THEN Rank(E, n) + 1 ELSE Rank(E, n)
<1>1. \A k \in E : k \in Int
    BY IndexFacts
<1>a. \A k \in Int : k < n + 1 <=> k < n \/ k = n
    OBVIOUS
<1>2. CASE n \in E
    <2>1. {k \in E : k < n + 1} = {k \in E : k < n} \cup {n}
        BY <1>1, <1>2, <1>a, Zenon
    <2>2. n \notin {k \in E : k < n} /\ IsFiniteSet({k \in E : k < n})
        BY RankFacts
    <2> QED BY <1>2, <2>1, <2>2, FS_AddElement DEF Rank
<1>3. CASE n \notin E
    <2>1. {k \in E : k < n + 1} = {k \in E : k < n}
        BY <1>1, <1>3, <1>a, Zenon
    <2> QED BY <1>3, <2>1 DEF Rank
<1> QED BY <1>2, <1>3

LEMMA RankOrder ==
    ASSUME NEW E \in SUBSET Nodes, NEW k \in E, NEW n \in E, k < n
    PROVE  Rank(E, k) < Rank(E, n)
<1>1. k \in Int /\ n \in Int /\ k + 1 \in Int /\ k + 1 <= n
    BY IndexFacts
<1>2. Rank(E, k + 1) = Rank(E, k) + 1
    BY <1>1, RankStep
<1>3. Rank(E, k + 1) <= Rank(E, n)
    <2>1. \A j \in Int : j < k + 1 => j < n
        BY <1>1
    <2>2. \A j \in E : j \in Int
        BY IndexFacts
    <2>3. {j \in E : j < k + 1} \subseteq {j \in E : j < n}
        BY <2>1, <2>2, Zenon
    <2>4. IsFiniteSet({j \in E : j < n})
        BY <1>1, RankFacts
    <2> QED BY <2>3, <2>4, FS_Subset DEF Rank
<1>4. Rank(E, k) \in Nat /\ Rank(E, n) \in Nat
    BY <1>1, RankFacts
<1> QED BY <1>2, <1>3, <1>4

LEMMA RankUnique ==
    ASSUME NEW E \in SUBSET Nodes, NEW k \in E, NEW n \in E, Rank(E, k) = Rank(E, n)
    PROVE  k = n
<1>1. k \in Int /\ n \in Int /\ Rank(E, k) \in Nat
    BY IndexFacts, RankFacts
<1>2. ~(k < n) /\ ~(n < k)
    BY <1>1, RankOrder
<1> QED BY <1>1, <1>2

\* The root is no entry, so that the last number there can be is one less.
LEMMA RankBound ==
    ASSUME NEW E \in SUBSET (Nodes \ {0}), NEW n \in E
    PROVE  Rank(E, n) + 1 \in 0 .. FS_MAX_NODES - 1
<1>1. n \in 1 .. FS_MAX_NODES - 1
    BY SizesAssumption DEF Nodes
<1>2. {k \in E : k < n} \subseteq 1 .. n - 1
    <2> SUFFICES ASSUME NEW k \in E, k < n PROVE k \in 1 .. n - 1
        BY Zenon
    <2>1. k \in 1 .. FS_MAX_NODES - 1
        BY SizesAssumption DEF Nodes
    <2> QED BY <1>1, <2>1
<1>3. IsFiniteSet(1 .. n - 1) /\ Cardinality(1 .. n - 1) = n - 1
    BY <1>1, FS_Interval
<1>4. Rank(E, n) <= n - 1
    <2>1. Cardinality({k \in E : k < n}) <= Cardinality(1 .. n - 1)
        BY <1>2, <1>3, FS_Subset
    <2> QED BY <1>3, <2>1 DEF Rank
<1>5. Rank(E, n) \in Nat
    <2>1. E \in SUBSET Nodes /\ n \in Int
        BY <1>1
    <2> QED BY <2>1, RankFacts
<1> QED BY <1>1, <1>4, <1>5, SizesAssumption

\* The numbers have no gap: where there is no entry i, there is none above.
LEMMA RankGap ==
    ASSUME NEW E \in SUBSET Nodes, NEW i \in Nat, \A n \in E : Rank(E, n) # i
    PROVE  \A n \in E : Rank(E, n) < i
<1> SUFFICES ASSUME NEW e \in E, ~(Rank(E, e) < i) PROVE FALSE
    OBVIOUS
<1> DEFINE S == {n \in Nat : Rank(E, n) > i}
<1>0. \A n \in Int : Rank(E, n) \in Nat
    BY RankFacts
<1>1. e \in Nat
    BY SizesAssumption DEF Nodes
<1>2. e \in S
    <2>1. Rank(E, e) \in Nat /\ Rank(E, e) # i
        BY <1>0, <1>1
    <2> QED BY <1>1, <2>1
<1>3. PICK n \in S : \A k \in S : n <= k
    BY <1>2, HasLeast
<1>4. n # 0
    <2>1. \A k \in E : ~(k < 0)
        BY SizesAssumption DEF Nodes
    <2>a. {k \in E : k < 0} = {}
        BY <2>1, Zenon
    <2>2. Rank(E, 0) = 0
        BY <2>a, FS_EmptySet DEF Rank
    <2> QED BY <1>3, <2>2
<1>5. n - 1 \in Nat /\ n - 1 \notin S /\ (n - 1) + 1 = n
    BY <1>3, <1>4
<1>6. Rank(E, n - 1) <= i /\ Rank(E, n - 1) \in Nat
    <2>1. Rank(E, n - 1) \in Nat
        BY <1>0, <1>5
    <2> QED BY <1>5, <2>1
<1>7. Rank(E, n) = IF n - 1 \in E THEN Rank(E, n - 1) + 1 ELSE Rank(E, n - 1)
    BY <1>5, RankStep
<1>8. n - 1 \in E /\ Rank(E, n - 1) = i
    BY <1>3, <1>6, <1>7
<1> QED BY <1>8

-----------------------------------------------------------------------------
(* The listing's invariant: while ls runs, entries numbered from i on are  *)
(* not printed yet unless some entry came, and those below i are printed   *)
(* unless some entry went.                                                 *)

NamesOf(N, s) == {N[n].name : n \in EntriesOf(N, s)}
Distinct(q) == \A j, k \in DOMAIN q : q[j] = q[k] => j = k
In(x, q) == \E j \in DOMAIN q : q[j] = x

Ahead(N, s, i, q) ==
    \A n \in EntriesOf(N, s) : Rank(EntriesOf(N, s), n) >= i => ~In(N[n].name, q)
Behind(N, s, i, q, S) ==
    \A n \in EntriesOf(N, s) :
        N[n].name \in S /\ Rank(EntriesOf(N, s), n) < i => In(N[n].name, q)

\* The table and the names that ls works on.
Listed == nodes[vfs_resolve_mount(ls.path)]
ToShow == {x \in during.stayed : Shown(x)}

LsTyped ==
    /\ ls \in [state : {"none", "run", "done"}, pid : Pids, path : ListPaths \cup {<<>>},
               all_print : BOOLEAN, i : 0 .. FS_MAX_NODES - 1, printed : Seq(Names)]
    /\ during \in [stayed : SUBSET Names, came : BOOLEAN, went : BOOLEAN]
    /\ Len(ls.printed) <= ls.i

LsRuns ==
    ls.state = "run" =>
        /\ ls.pid \in live /\ ls.path \in ListPaths
        /\ during.stayed \subseteq NamesOf(Listed, subpath(ls.path))
        /\ ~during.came => /\ Distinct(ls.printed)
                           /\ Ahead(Listed, subpath(ls.path), ls.i, ls.printed)
        /\ ~during.went => Behind(Listed, subpath(ls.path), ls.i, ls.printed, ToShow)

ListInv == LsTyped /\ LsRuns /\ ListedOnce /\ ListedAll

LEMMA EntriesNodes ==
    ASSUME NEW N, NEW s
    PROVE  EntriesOf(N, s) \in SUBSET Nodes
BY DEF EntriesOf

\* Nothing new in a directory: what is ahead stays so.
LEMMA AheadKept ==
    ASSUME NEW N, NEW M, NEW s, Grows(N, M, s) \/ Grows(M, N, s),
           NamesOf(M, s) \subseteq NamesOf(N, s), NEW i \in Nat, NEW q, Ahead(N, s, i, q)
    PROVE  Ahead(M, s, i, q)
<1>1. ASSUME NEW n \in EntriesOf(M, s) PROVE n \in EntriesOf(N, s) /\ M[n].name = N[n].name
    <2>1. CASE Grows(M, N, s)
        BY <2>1 DEF Grows
    <2>2. CASE Grows(N, M, s)
        <3>1. PICK k \in EntriesOf(N, s) : M[n].name = N[k].name
            BY DEF NamesOf
        <3> QED BY <2>2, <3>1 DEF Grows
    <2> QED BY <2>1, <2>2
<1> SUFFICES ASSUME NEW n \in EntriesOf(M, s), Rank(EntriesOf(M, s), n) >= i
             PROVE  ~In(M[n].name, q)
    BY DEF Ahead
<1>2. PICK E \in SUBSET Nodes : E = EntriesOf(N, s)
    BY EntriesNodes
<1>3. PICK F \in SUBSET Nodes : F = EntriesOf(M, s)
    BY EntriesNodes
<1>4. F \subseteq E /\ n \in F /\ n \in Int
    BY <1>1, <1>2, <1>3, IndexFacts
<1>5. Rank(F, n) <= Rank(E, n)
    BY <1>4, RankMono
<1>6. Rank(F, n) \in Nat /\ Rank(E, n) \in Nat
    BY <1>4, RankFacts
<1>7. Rank(EntriesOf(N, s), n) >= i
    BY <1>2, <1>3, <1>5, <1>6
<1> QED BY <1>1, <1>7 DEF Ahead

\* Nothing gone from a directory: what is behind stays so.
LEMMA BehindKept ==
    ASSUME NEW N, NEW M, NEW s, Grows(N, M, s) \/ Grows(M, N, s),
           NamesOf(N, s) \subseteq NamesOf(M, s), NEW i \in Nat, NEW q,
           NEW S, NEW T \in SUBSET S, S \subseteq NamesOf(N, s), Behind(N, s, i, q, S)
    PROVE  Behind(M, s, i, q, T)
<1>1. EntriesOf(N, s) \subseteq EntriesOf(M, s)
    <2>1. CASE Grows(N, M, s)
        BY <2>1 DEF Grows
    <2>2. CASE Grows(M, N, s)
        <3> SUFFICES ASSUME NEW n \in EntriesOf(N, s) PROVE n \in EntriesOf(M, s)
            OBVIOUS
        <3>1. PICK k \in EntriesOf(M, s) : N[n].name = M[k].name
            BY DEF NamesOf
        <3> QED BY <2>2, <3>1 DEF Grows
    <2> QED BY <2>1, <2>2
<1> SUFFICES ASSUME NEW n \in EntriesOf(M, s), M[n].name \in T,
                    Rank(EntriesOf(M, s), n) < i
             PROVE  In(M[n].name, q)
    BY DEF Behind
<1>2. n \in EntriesOf(N, s) /\ N[n].name = M[n].name
    <2>1. CASE Grows(M, N, s)
        BY <2>1 DEF Grows
    <2>2. CASE Grows(N, M, s)
        <3>1. PICK k \in EntriesOf(N, s) : M[n].name = N[k].name
            BY DEF NamesOf
        <3> QED BY <2>2, <3>1 DEF Grows
    <2> QED BY <2>1, <2>2
<1>3. PICK E \in SUBSET Nodes : E = EntriesOf(N, s)
    BY EntriesNodes
<1>4. PICK F \in SUBSET Nodes : F = EntriesOf(M, s)
    BY EntriesNodes
<1>5. E \subseteq F /\ n \in F /\ n \in Int
    BY <1>1, <1>3, <1>4, IndexFacts
<1>6. Rank(E, n) <= Rank(F, n)
    BY <1>5, RankMono
<1>7. Rank(F, n) \in Nat /\ Rank(E, n) \in Nat
    BY <1>5, RankFacts
<1>8. Rank(EntriesOf(N, s), n) < i
    BY <1>3, <1>4, <1>6, <1>7
<1> QED BY <1>2, <1>8 DEF Behind

\* Two entries of a directory differ in their names.
LEMMA EntryNamesUnique ==
    ASSUME NEW N, GoodTable(N), NEW s \in Seq(Names), NEW a \in EntriesOf(N, s),
           NEW b \in EntriesOf(N, s), N[a].name = N[b].name
    PROVE  a = b
<1>1. PICK d \in Nodes : N[a].used /\ N[a].parent = d /\ nodefs_resolve_path(N, s, d)
    BY DEF EntriesOf
<1>2. PICK e \in Nodes : N[b].used /\ N[b].parent = e /\ nodefs_resolve_path(N, s, e)
    BY DEF EntriesOf
<1>3. d = e
    BY <1>1, <1>2, ResolveUnique
<1>4. a \in Nodes /\ b \in Nodes
    BY EntriesNodes
<1> QED BY <1>1, <1>2, <1>3, <1>4 DEF GoodTable, NamesUnique, Siblings

LEMMA InAppend ==
    ASSUME NEW q \in Seq(Names), NEW y \in Names
    PROVE  /\ \A x : In(x, Append(q, y)) <=> In(x, q) \/ x = y
           /\ Distinct(q) /\ ~In(y, q) => Distinct(Append(q, y))
<1>1. /\ DOMAIN Append(q, y) = DOMAIN q \cup {Len(q) + 1}
      /\ Append(q, y)[Len(q) + 1] = y
      /\ \A j \in DOMAIN q : Append(q, y)[j] = q[j]
    OBVIOUS
<1>2. \A x : In(x, Append(q, y)) <=> In(x, q) \/ x = y
    BY <1>1 DEF In
<1>3. ASSUME Distinct(q), ~In(y, q) PROVE Distinct(Append(q, y))
    BY <1>1, <1>3, Zenon DEF Distinct, In
<1> QED BY <1>2, <1>3

\* readdir counts the entries of the table.
LEMMA ListedFacts ==
    ASSUME NEW path \in ListPaths
    PROVE  /\ vfs_resolve_mount(path) \in Mounts /\ subpath(path) \in Seq(Names)
           /\ Entries(path) = EntriesOf(nodes[vfs_resolve_mount(path)], subpath(path))
           /\ EntryNames(path) = NamesOf(nodes[vfs_resolve_mount(path)], subpath(path))
<1>1. vfs_resolve_mount(path) \in Mounts /\ subpath(path) \in Seq(Names)
    BY HiddenAssumption, NamesSubpath
<1>2. Entries(path) = EntriesOf(nodes[vfs_resolve_mount(path)], subpath(path))
    BY Zenon DEF Entries, EntriesOf
<1>3. EntryNames(path) = NamesOf(nodes[vfs_resolve_mount(path)], subpath(path))
    BY <1>2, Zenon DEF EntryNames, NamesOf
<1> QED BY <1>1, <1>2, <1>3

\* An entry is not the root, and a path can hold its name.
LEMMA EntryFacts ==
    ASSUME NEW N, GoodTable(N), Named(N), NEW s, NEW n \in EntriesOf(N, s)
    PROVE  n \in Nodes \ {0} /\ N[n].name \in Names
<1>1. n \in Nodes /\ N[n].used /\ N[n].parent \in Nodes
    BY DEF EntriesOf
<1>2. n # 0
    BY <1>1, SizesAssumption DEF GoodTable, Tree, Nodes
<1> QED BY <1>1, <1>2 DEF Named

LEMMA NoLsInv ==
    ASSUME ls = NoLs, during = Nothing
    PROVE  ListInv
<1>1. /\ ls.state = "none" /\ ls.i = 0 /\ ls.printed = <<>>
      /\ LsTyped
    BY PidsAssumption, SizesAssumption DEF NoLs, Nothing, LsTyped
<1> QED BY <1>1 DEF ListInv, LsRuns, ListedOnce, ListedAll

LEMMA StartKeeps ==
    ASSUME FsInv, TreeInv, NamesKnown, NEW p \in Pids, NEW path \in ListPaths,
           NEW all_print \in BOOLEAN, Start(p, path, all_print)
    PROVE  ListInv'
<1>1. PICK N : N = nodes[vfs_resolve_mount(path)]
    OBVIOUS
<1>2. PICK s \in Seq(Names) : s = subpath(path)
    BY ListedFacts
<1>3. /\ ls'.state = "run" /\ ls'.pid = p /\ ls'.path = path /\ ls'.all_print = all_print
      /\ ls'.i = 0 /\ ls'.printed = <<>> /\ p \in live'
      /\ during'.stayed = NamesOf(N, s) /\ ~during'.came /\ ~during'.went
      /\ nodes' = nodes
    BY <1>1, <1>2, ListedFacts DEF Start, NoLs, Nothing, vars
<1>4. GoodTable(N) /\ Named(N)
    BY <1>1, ListedFacts DEF TreeInv, TablesGood, NamesKnown
<1>5. NamesOf(N, s) \subseteq Names
    BY <1>4, EntryFacts DEF NamesOf
<1>6. LsTyped'
    <2>1. ls' = [state |-> "run", pid |-> p, path |-> path, all_print |-> all_print,
                 i |-> 0, printed |-> <<>>]
        BY DEF Start, NoLs
    <2>2. during' = [stayed |-> NamesOf(N, s), came |-> FALSE, went |-> FALSE]
        BY <1>1, <1>2, ListedFacts DEF Start, Nothing
    <2> QED BY <1>5, <2>1, <2>2, SizesAssumption DEF LsTyped
<1>7. Listed' = N /\ subpath(ls'.path) = s
    BY <1>1, <1>2, <1>3 DEF Listed
<1>8. Distinct(<<>>) /\ Ahead(N, s, 0, <<>>)
    BY DEF Distinct, Ahead, In
<1>9. Behind(N, s, 0, <<>>, ToShow')
    <2>1. \A n \in EntriesOf(N, s) : Rank(EntriesOf(N, s), n) \in Nat
        BY EntriesNodes, RankFacts, IndexFacts
    <2> QED BY <2>1 DEF Behind
<1>10. LsRuns'
    BY <1>3, <1>7, <1>8, <1>9 DEF LsRuns
<1>11. ListedOnce' /\ ListedAll'
    BY <1>3 DEF ListedOnce, ListedAll
<1> QED BY <1>6, <1>10, <1>11 DEF ListInv

LEMMA EntryKeeps ==
    ASSUME FsInv, TreeInv, NamesKnown, ListInv, ls_entry
    PROVE  ListInv'
<1>1. PICK N : N = Listed
    OBVIOUS
<1>2. /\ ls.path \in ListPaths /\ ls.state = "run" /\ ls.printed \in Seq(Names)
      /\ ls.i \in 0 .. FS_MAX_NODES - 1 /\ Len(ls.printed) <= ls.i
    BY DEF ListInv, LsRuns, LsTyped, ls_entry
<1>3. PICK s \in Seq(Names) : s = subpath(ls.path)
    BY <1>2, ListedFacts
<1>4. PICK E \in SUBSET Nodes : E = EntriesOf(N, s)
    BY EntriesNodes
<1>5. PICK n \in Nodes :
        /\ nodefs_readdir(ls.path, ls.i, n)
        /\ ls' = [ls EXCEPT !.i = @ + 1,
                            !.printed = IF Shown(N[n].name) THEN Append(@, N[n].name) ELSE @]
    BY <1>1 DEF ls_entry, Listed
<1>6. n \in E /\ Rank(E, n) = ls.i
    BY <1>1, <1>2, <1>3, <1>4, <1>5, ListedFacts DEF nodefs_readdir, Rank, Listed
<1>7. GoodTable(N) /\ Named(N)
    BY <1>1, <1>2, ListedFacts DEF TreeInv, TablesGood, NamesKnown, Listed
<1>8. N[n].name \in Names /\ E \in SUBSET (Nodes \ {0})
    BY <1>4, <1>6, <1>7, EntryFacts
<1>9. ls.i + 1 \in 0 .. FS_MAX_NODES - 1
    BY <1>6, <1>8, RankBound
<1> DEFINE q == IF Shown(N[n].name) THEN Append(ls.printed, N[n].name) ELSE ls.printed
<1>10. q \in Seq(Names) /\ Len(q) <= ls.i + 1
    BY <1>2, <1>8
<1>11. /\ ls' = [ls EXCEPT !.i = ls.i + 1, !.printed = q]
       /\ ls'.state = "run" /\ ls'.pid = ls.pid /\ ls'.path = ls.path
       /\ ls'.all_print = ls.all_print /\ ls'.i = ls.i + 1 /\ ls'.printed = q
       /\ UNCHANGED <<nodes, live, during>>
    BY <1>2, <1>5 DEF ls_entry, vars, ListInv, LsTyped
<1> HIDE DEF q
<1>12. LsTyped'
    BY <1>9, <1>10, <1>11 DEF ListInv, LsTyped
<1>13. Listed' = N /\ subpath(ls'.path) = s /\ ToShow' = ToShow
    BY <1>1, <1>3, <1>11 DEF Listed, ToShow, Shown
<1>14. \A k \in E : k # n => N[k].name # N[n].name
    BY <1>3, <1>4, <1>6, <1>7, EntryNamesUnique
<1>15. \A k \in E : Rank(E, k) \in Nat
    BY RankFacts, IndexFacts
<1>16. ASSUME ~during.came PROVE Distinct(q) /\ Ahead(N, s, ls.i + 1, q)
    <2>1. Distinct(ls.printed) /\ \A k \in E : Rank(E, k) >= ls.i => ~In(N[k].name, ls.printed)
        BY <1>1, <1>2, <1>3, <1>4, <1>16 DEF ListInv, LsRuns, Ahead
    <2>2. ~In(N[n].name, ls.printed)
        BY <1>2, <1>6, <2>1
    <2>3. Distinct(q)
        BY <1>2, <1>8, <2>1, <2>2, InAppend DEF q
    <2>4. ASSUME NEW k \in E, Rank(E, k) >= ls.i + 1 PROVE ~In(N[k].name, q)
        <3>1. k # n /\ Rank(E, k) >= ls.i
            BY <1>2, <1>6, <1>15, <2>4
        <3>2. ~In(N[k].name, ls.printed) /\ N[k].name # N[n].name
            BY <1>14, <2>1, <3>1
        <3> QED BY <1>2, <1>8, <3>2, InAppend DEF q
    <2> QED BY <1>4, <2>3, <2>4 DEF Ahead
<1>17. ASSUME ~during.went PROVE Behind(N, s, ls.i + 1, q, ToShow)
    <2>1. \A k \in E : N[k].name \in ToShow /\ Rank(E, k) < ls.i => In(N[k].name, ls.printed)
        BY <1>1, <1>2, <1>3, <1>4, <1>17 DEF ListInv, LsRuns, Behind
    <2>2. ASSUME NEW k \in E, N[k].name \in ToShow, Rank(E, k) < ls.i + 1
          PROVE  In(N[k].name, q)
        <3>1. CASE Rank(E, k) < ls.i
            BY <1>2, <1>8, <2>1, <2>2, <3>1, InAppend DEF q
        <3>2. CASE Rank(E, k) = ls.i
            <4>1. k = n
                BY <1>6, <3>2, RankUnique
            <4> QED BY <1>2, <1>8, <2>2, <4>1, InAppend DEF q, ToShow
        <3> QED BY <1>2, <1>15, <2>2, <3>1, <3>2
    <2> QED BY <1>4, <2>2 DEF Behind
<1>18. during.stayed \subseteq NamesOf(N, s) /\ ls.pid \in live
    BY <1>1, <1>2, <1>3 DEF ListInv, LsRuns
<1>19. LsRuns'
    BY <1>2, <1>11, <1>13, <1>16, <1>17, <1>18 DEF LsRuns
<1>20. ListedOnce' /\ ListedAll'
    BY <1>11, <1>16 DEF ListedOnce, ListedAll, Distinct
<1> QED BY <1>12, <1>19, <1>20 DEF ListInv

LEMMA EndKeeps ==
    ASSUME FsInv, TreeInv, ListInv, ls_end
    PROVE  ListInv'
<1>1. PICK N : N = Listed
    OBVIOUS
<1>2. /\ ls.path \in ListPaths /\ ls.state = "run" /\ ls.i \in Nat
    BY SizesAssumption DEF ListInv, LsRuns, LsTyped, ls_end
<1>3. PICK s \in Seq(Names) : s = subpath(ls.path)
    BY <1>2, ListedFacts
<1>4. PICK E \in SUBSET Nodes : E = EntriesOf(N, s)
    BY EntriesNodes
<1>5. \A n \in E : Rank(E, n) # ls.i
    BY <1>1, <1>2, <1>3, <1>4, ListedFacts DEF ls_end, nodefs_readdir, Rank, Listed
<1>6. \A n \in E : Rank(E, n) < ls.i
    BY <1>2, <1>5, RankGap
<1>7. /\ ls'.state = "done" /\ ls'.printed = ls.printed /\ ls'.all_print = ls.all_print
      /\ ls'.i = ls.i /\ during' = during
    BY DEF ls_end, ListInv, LsTyped
<1>8. LsTyped'
    BY <1>7 DEF ls_end, ListInv, LsTyped
<1>9. LsRuns'
    BY <1>7 DEF LsRuns
<1>10. ListedOnce'
    BY <1>2, <1>7 DEF ListInv, ListedOnce
<1>11. ListedAll'
    <2> SUFFICES ASSUME ~during.went, NEW name \in during.stayed, Shown(name)
                 PROVE  In(name, ls.printed)
        BY <1>7 DEF ListedAll, Shown, In
    <2>1. /\ Behind(N, s, ls.i, ls.printed, ToShow)
          /\ during.stayed \subseteq NamesOf(N, s)
        BY <1>1, <1>2, <1>3 DEF ListInv, LsRuns
    <2>2. PICK n \in E : name = N[n].name
        BY <1>4, <2>1 DEF NamesOf
    <2> QED BY <1>4, <1>6, <2>1, <2>2 DEF Behind, ToShow
<1> QED BY <1>8, <1>9, <1>10, <1>11 DEF ListInv

LEMMA OthersKeep ==
    ASSUME FsInv, TreeInv, ListInv, Others, NamesKnown', TreeInv'
    PROVE  ListInv'
<1>1. CASE ~(ls.state = "run" /\ ls.pid \in live')
    <2>1. ls' = NoLs /\ during' = Nothing
        BY <1>1 DEF Others
    <2>2. ls'.state = "none" /\ LsTyped'
        BY <2>1, PidsAssumption, SizesAssumption DEF NoLs, Nothing, LsTyped
    <2>3. ls'.printed = <<>>
        BY <2>1 DEF NoLs
    <2> QED BY <2>2, <2>3 DEF ListInv, LsRuns, ListedOnce, ListedAll
<1>2. CASE ls.state = "run" /\ ls.pid \in live'
    <2>0. /\ ls.path \in ListPaths /\ ls.pid \in live /\ ls.i \in Nat
          /\ during.stayed \subseteq NamesOf(Listed, subpath(ls.path))
          /\ during.came \in BOOLEAN /\ during.went \in BOOLEAN
        BY <1>2, SizesAssumption DEF ListInv, LsRuns, LsTyped
    <2> DEFINE m == vfs_resolve_mount(ls.path)
    <2>1. m \in Mounts
        BY <2>0, ListedFacts
    <2>2. PICK s \in Seq(Names) : s = subpath(ls.path)
        BY <2>0, ListedFacts
    <2>3. nodes[m] \in Tables /\ GoodTable(nodes[m]) /\ GoodTable(nodes'[m]) /\ Named(nodes'[m])
        BY <2>1 DEF FsInv, TypeOK, TreeInv, TablesGood, NamesKnown
    <2>4. SmallChange(nodes[m], nodes'[m])
        <3>1. Up /\ live' # {} /\ Next
            BY <1>2, <2>0 DEF Up, FsInv, ClosedUntilUp, TypeOK, Others
        <3> QED BY <2>1, <3>1, StepChange
    <2>5. PICK N \in Tables : N = nodes[m] /\ N = Listed
        BY <2>3 DEF Listed
    <2>6. PICK M : M = nodes'[m]
        OBVIOUS
    <2>7. Grows(N, M, s) \/ Grows(M, N, s)
        BY <2>3, <2>4, <2>5, <2>6, SmallGrows
    <2>8. UNCHANGED ls
        BY <1>2 DEF Others
    <2>9. EntryNames(ls.path) = NamesOf(N, s)
        BY <2>0, <2>2, <2>5, ListedFacts
    <2>10. EntryNames(ls.path)' = NamesOf(M, s)
        <3>1. Entries(ls.path)' = EntriesOf(M, s)
            BY <2>2, <2>6, <2>8, Zenon DEF Entries, EntriesOf
        <3> QED BY <2>6, <2>8, <3>1, Zenon DEF EntryNames, NamesOf
    <2> HIDE DEF m
    <2>11. during' = [stayed |-> during.stayed \cap NamesOf(M, s),
                      came |-> during.came \/ ~(NamesOf(M, s) \subseteq NamesOf(N, s)),
                      went |-> during.went \/ ~(NamesOf(N, s) \subseteq NamesOf(M, s))]
        BY <1>2, <2>9, <2>10 DEF Others
    <2>12. /\ during'.stayed = during.stayed \cap NamesOf(M, s)
           /\ ~during'.came => ~during.came /\ NamesOf(M, s) \subseteq NamesOf(N, s)
           /\ ~during'.went => ~during.went /\ NamesOf(N, s) \subseteq NamesOf(M, s)
        BY <2>11
    <2>13. LsTyped'
        <3>1. during' \in [stayed : SUBSET Names, came : BOOLEAN, went : BOOLEAN]
            BY <2>0, <2>11 DEF ListInv, LsTyped
        <3> QED BY <2>8, <3>1 DEF ListInv, LsTyped
    <2>14. Listed' = M /\ subpath(ls'.path) = s
        BY <2>2, <2>6, <2>8 DEF Listed, m
    <2>15. ToShow' \in SUBSET ToShow /\ ToShow \subseteq NamesOf(N, s)
        BY <2>0, <2>2, <2>5, <2>8, <2>12 DEF ToShow, Shown
    <2>16. ~during'.came => Distinct(ls.printed) /\ Ahead(M, s, ls.i, ls.printed)
        BY <1>2, <2>0, <2>2, <2>5, <2>7, <2>12, AheadKept DEF ListInv, LsRuns
    <2>17. ~during'.went => Behind(M, s, ls.i, ls.printed, ToShow')
        BY <1>2, <2>0, <2>2, <2>5, <2>7, <2>12, <2>15, BehindKept DEF ListInv, LsRuns
    <2>18. LsRuns'
        BY <1>2, <2>0, <2>8, <2>12, <2>14, <2>16, <2>17 DEF LsRuns
    <2>19. ListedOnce' /\ ListedAll'
        BY <1>2, <2>8, <2>16 DEF ListedOnce, ListedAll, Distinct
    <2> QED BY <2>13, <2>18, <2>19 DEF ListInv
<1> QED BY <1>1, <1>2

\* What ls prints is what was there, up to what changed meanwhile: for every
\* directory and size of the table, whatever the other processes do, and
\* either kind of failure (nodefs_readdir, ls/main.c).
THEOREM ListingSafe ==
    ASSUME ~(DeviceErrors /\ PowerCuts)
    PROVE  ListSpec => []ListingRight
<1>1. ListInit => Init /\ ListInv
    BY NoLsInv DEF ListInit
<1>2. [ListNext]_listVars => [Next]_vars
    BY DEF ListNext, Start, ls_entry, ls_end, Others, listVars, vars
<1>3. ListSpec => Spec
    BY <1>1, <1>2, PTL DEF ListSpec, Spec
<1>4. ASSUME FsInv, TreeInv, NamesKnown, ListInv, [ListNext]_listVars,
             FsInv', TreeInv', NamesKnown'
      PROVE  ListInv'
    <2>1. CASE UNCHANGED listVars
        BY <1>4, <2>1 DEF listVars, ListInv, LsTyped, LsRuns, Listed, ToShow, ListedOnce,
              ListedAll, Shown
    <2>2. CASE ListNext
        BY <1>4, <2>2, StartKeeps, EntryKeeps, EndKeeps, OthersKeep DEF ListNext
    <2> QED BY <1>4, <2>1, <2>2
<1>5. ListInv => ListingRight
    BY DEF ListInv, LsTyped, ListingRight, ListTypeOK
<1> QED BY <1>1, <1>3, <1>4, <1>5, FsInvariant, TreeInvariant, NamesInvariant, PTL DEF ListSpec
=============================================================================
