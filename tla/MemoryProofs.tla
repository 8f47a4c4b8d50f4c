---------------------------- MODULE MemoryProofs ----------------------------
(***************************************************************************)
(* Proofs about physical pages, for every number of pages, slots, table    *)
(* entries and programs.                                                   *)
(*                                                                         *)
(* The argument looks at memory through the tables: T1, T0 and TU are what *)
(* a walk from page_table finds on the first, second and last level, and   *)
(* with the page in the kernel's hands they are the places a page can be   *)
(* named from.  Own maps each place to its page.  That no two places name  *)
(* the same page, and that the bitmap is exactly the pages named, is       *)
(* inductive: a step that writes a table changes what ONE place names,     *)
(* because no other walk passes through the page it writes.                *)
(***************************************************************************)
EXTENDS Memory, TLAPS

\* What a walk finds.
T1(s) == page_table[s]
T0(s, v) == IF T1(s) = NULL THEN NULL ELSE mem[T1(s)][v]
TU(s, v, e) == IF T0(s, v) = NULL THEN NULL ELSE mem[T0(s, v)][e]

\* The places that can name a page.
Key1(s) == <<"table1", s, 0, 0>>
Key0(s, v) == <<"table0", s, v, 0>>
KeyU(s, v, e) == <<"user", s, v, e>>
KeyJ == <<"job", 0, 0, 0>>
Keys ==
    {Key1(s) : s \in Slots}
    \cup {Key0(s, v) : s \in Slots, v \in Entries}
    \cup {KeyU(s, v, e) : s \in Slots, v \in Entries, e \in Entries}
    \cup {KeyJ}

Own ==
    [k \in Keys |->
        IF k[1] = "table1" THEN T1(k[2])
        ELSE IF k[1] = "table0" THEN T0(k[2], k[3])
        ELSE IF k[1] = "user" THEN TU(k[2], k[3], k[4])
        ELSE job.page]

\* The places in K name pages of B, each its own, and all of them.
Sound(K, F, B) ==
    /\ F \in [K -> PageOrNull] /\ B \subseteq Pages
    /\ \A k, l \in K : F[k] = F[l] /\ F[k] # NULL => k = l
    /\ \A p \in Pages : p \in B <=> \E k \in K : F[k] = p

\* The user pages of s that are mapped now.
MappedPages(s) ==
    IF s = job.slot /\ job.op = "load" THEN 0 .. job.i - 1
    ELSE IF s = job.slot /\ job.op = "free_user" THEN job.i .. user_pages[s] - 1
    ELSE 0 .. user_pages[s] - 1

MapsExactly(s) ==
    \A v, e \in Entries :
        TU(s, v, e) # NULL <=> \E i \in MappedPages(s) : v = vpn1(i) /\ e = vpn0(i)

\* An operation under way: whose tables exist, and how far it got.
JobSound ==
    /\ live \subseteq Built
    /\ job.op \in {"none", "free_user", "free_tables"} => Built = live
    /\ job.op \in {"map_kernel", "load"} => Built = live \cup {job.slot}
    /\ job.op \in {"free_user", "free_tables"} => job.slot \in live
    /\ job.op # "load" /\ job.op # "out_of_memory" => job.page = NULL
    /\ job.op = "load" => job.i <= job.n /\ (job.page # NULL => job.i < job.n)
    /\ job.op \in {"map_kernel", "load", "free_tables"} => user_pages[job.slot] = 0
    /\ job.op = "map_kernel" => job.i = 0
    /\ job.op = "free_user" => job.then \in {"load", "free_tables"} /\ job.i <= user_pages[job.slot]
    /\ job.op = "none" => job.slot = idle_proc
    /\ \A s \in Slots \ live : user_pages[s] = 0

\* Whatever a walk finds is one of the pages a program can have.
WithinImage ==
    \A s \in Slots : \A v, e \in Entries :
        TU(s, v, e) # NULL => \E i \in 0 .. MaxImage - 1 : v = vpn1(i) /\ e = vpn0(i)

Contents ==
    \A s \in Slots : (job.op = "out_of_memory" /\ s = job.slot) \/ MapsExactly(s)

MemInv ==
    /\ TypeOK
    /\ NoDoubleFree
    /\ Sound(Keys, Own, bitmap)
    /\ JobSound
    /\ WithinImage
    /\ Contents

-----------------------------------------------------------------------------
(* Addresses.                                                              *)

LEMMA MaxImageBound ==
    MaxImage \in Images /\ MaxImage \in Nat \ {0} /\ \A k \in Images \cup {0} : k \in Nat /\ k <= MaxImage
<1>1. \E n \in Images : \A k \in Images : k <= n
    BY TableSizes
<1>2. MaxImage \in Images /\ \A k \in Images : k <= MaxImage
    BY <1>1 DEF MaxImage
<1> QED BY <1>2, TableSizes

\* Quotient and remainder are an index into the two levels of tables ...
LEMMA VpnRange ==
    ASSUME NEW i \in 0 .. MaxImage - 1
    PROVE  /\ i \in Nat /\ vpn1(i) \in Entries /\ vpn0(i) \in Entries
           /\ vpn1(i) \notin KernelVpn1
<1>1. i \in Nat /\ MaxImage \in Images
    BY MaxImageBound
<1>2. vpn1(i) \in Entries /\ vpn1(i) \notin KernelVpn1
    BY <1>1, MapAssumption DEF vpn1, Entries
<1>3. vpn0(i) \in Entries
    BY <1>1, TableSizes DEF vpn0, Entries
<1> QED BY <1>1, <1>2, <1>3

LEMMA DivModInjective ==
    ASSUME NEW d \in Nat, d > 0, NEW i \in Nat, NEW j \in Nat,
           i \div d = j \div d, i % d = j % d
    PROVE  i = j
OBVIOUS

\* ... and no two user pages have the same.
LEMMA VpnInjective ==
    ASSUME NEW i \in Nat, NEW j \in Nat, vpn1(i) = vpn1(j), vpn0(i) = vpn0(j)
    PROVE  i = j
<1>1. ENTRIES \in Nat /\ ENTRIES > 0 /\ USER_VPN1 \in Nat
    BY TableSizes
<1>2. i \div ENTRIES \in Int /\ j \div ENTRIES \in Int
    BY <1>1
<1>3. i \div ENTRIES = j \div ENTRIES
    BY <1>1, <1>2 DEF vpn1
<1>4. i % ENTRIES = j % ENTRIES
    BY DEF vpn0
<1> QED BY <1>1, <1>3, <1>4, DivModInjective

-----------------------------------------------------------------------------
(* Places and pages.                                                       *)

LEMMA NullIsNoPage == NULL \notin Pages /\ NULL \in PageOrNull /\ DATA \notin PageOrNull
BY MemorySizes DEF NULL, DATA, Pages, PageOrNull

\* A free page is taken by a place that names none.
LEMMA Acquire ==
    ASSUME NEW K, NEW F, NEW B, Sound(K, F, B), NEW k \in K, F[k] = NULL,
           NEW p \in Pages, p \notin B
    PROVE  Sound(K, [F EXCEPT ![k] = p], B \cup {p})
<1> DEFINE G == [F EXCEPT ![k] = p]
<1>1. /\ G \in [K -> PageOrNull] /\ G[k] = p /\ \A l \in K : l # k => G[l] = F[l]
      /\ B \cup {p} \subseteq Pages
    BY DEF Sound, PageOrNull
<1> HIDE DEF G
<1>2. \A l \in K : F[l] # p
    BY DEF Sound
<1>3. \A l, m \in K : G[l] = G[m] /\ G[l] # NULL => l = m
    BY <1>1, <1>2 DEF Sound
<1>4. \A q \in Pages : q \in B \cup {p} <=> \E l \in K : G[l] = q
    <2> SUFFICES ASSUME NEW q \in Pages PROVE q \in B \cup {p} <=> \E l \in K : G[l] = q
        OBVIOUS
    <2>1. CASE q = p BY <1>1, <2>1
    <2>2. CASE q # p
        <3>1. q \in B <=> \E l \in K : F[l] = q
            BY DEF Sound
        <3>2. F[k] # q
            BY NullIsNoPage
        <3> QED BY <1>1, <2>2, <3>1, <3>2
    <2> QED BY <2>1, <2>2
<1> QED BY <1>1, <1>3, <1>4 DEF Sound, G

\* A place gives up its page, which is then free.
LEMMA Release ==
    ASSUME NEW K, NEW F, NEW B, Sound(K, F, B), NEW k \in K, F[k] # NULL
    PROVE  Sound(K, [F EXCEPT ![k] = NULL], B \ {F[k]}) /\ F[k] \in B
<1> DEFINE G == [F EXCEPT ![k] = NULL]
           p == F[k]
<1>1. /\ G \in [K -> PageOrNull] /\ G[k] = NULL /\ \A l \in K : l # k => G[l] = F[l]
      /\ B \ {p} \subseteq Pages
    BY DEF Sound, PageOrNull
<1>2. p \in Pages /\ p \in B
    BY DEF Sound, PageOrNull
<1> HIDE DEF G
<1>3. \A l \in K : l # k => F[l] # p
    BY DEF Sound
<1>4. \A l, m \in K : G[l] = G[m] /\ G[l] # NULL => l = m
    BY <1>1, <1>3 DEF Sound
<1>5. \A q \in Pages : q \in B \ {p} <=> \E l \in K : G[l] = q
    <2> SUFFICES ASSUME NEW q \in Pages PROVE q \in B \ {p} <=> \E l \in K : G[l] = q
        OBVIOUS
    <2>0. q # NULL BY NullIsNoPage
    <2>1. CASE q = p BY <1>1, <1>3, <2>0, <2>1
    <2>2. CASE q # p
        <3>1. q \in B <=> \E l \in K : F[l] = q
            BY DEF Sound
        <3> QED BY <1>1, <2>0, <2>2, <3>1
    <2> QED BY <2>1, <2>2
<1> QED BY <1>1, <1>2, <1>4, <1>5 DEF Sound, G

\* A page changes places.
LEMMA Hand ==
    ASSUME NEW K, NEW F, NEW B, Sound(K, F, B), NEW k \in K, NEW l \in K,
           F[k] # NULL, F[l] = NULL
    PROVE  Sound(K, [F EXCEPT ![k] = NULL, ![l] = F[k]], B)
<1> DEFINE G == [F EXCEPT ![k] = NULL, ![l] = F[k]]
           p == F[k]
<1>1. /\ G \in [K -> PageOrNull] /\ G[k] = NULL /\ G[l] = p /\ k # l
      /\ \A m \in K : m # k /\ m # l => G[m] = F[m]
    BY DEF Sound, PageOrNull
<1>2. p \in Pages /\ p \in B
    BY DEF Sound, PageOrNull
<1> HIDE DEF G
<1>3. \A m \in K : m # k => F[m] # p
    BY DEF Sound
<1>4. \A m, n \in K : G[m] = G[n] /\ G[m] # NULL => m = n
    BY <1>1, <1>3 DEF Sound
<1>5. \A q \in Pages : q \in B <=> \E m \in K : G[m] = q
    <2> SUFFICES ASSUME NEW q \in Pages PROVE q \in B <=> \E m \in K : G[m] = q
        OBVIOUS
    <2>0. q # NULL BY NullIsNoPage
    <2>1. CASE q = p BY <1>1, <1>2, <2>1
    <2>2. CASE q # p
        <3>1. q \in B <=> \E m \in K : F[m] = q
            BY DEF Sound
        <3> QED BY <1>1, <2>0, <2>2, <3>1
    <2> QED BY <2>1, <2>2
<1> QED BY <1>1, <1>4, <1>5 DEF Sound, G

-----------------------------------------------------------------------------
(* What the places are, and what each of them names.                       *)

LEMMA KeysDiffer ==
    /\ \A s, t : Key1(s) = Key1(t) => s = t
    /\ \A s, v, t, w : Key0(s, v) = Key0(t, w) => s = t /\ v = w
    /\ \A s, v, e, t, w, f : KeyU(s, v, e) = KeyU(t, w, f) => s = t /\ v = w /\ e = f
    /\ \A s, t, v : Key1(s) # Key0(t, v)
    /\ \A s, t, v, e : Key1(s) # KeyU(t, v, e)
    /\ \A s, v, t, w, e : Key0(s, v) # KeyU(t, w, e)
    /\ \A s : Key1(s) # KeyJ
    /\ \A s, v : Key0(s, v) # KeyJ
    /\ \A s, v, e : KeyU(s, v, e) # KeyJ
BY DEF Key1, Key0, KeyU, KeyJ

LEMMA KeysAre ==
    /\ \A s \in Slots : Key1(s) \in Keys
    /\ \A s \in Slots, v \in Entries : Key0(s, v) \in Keys
    /\ \A s \in Slots, v, e \in Entries : KeyU(s, v, e) \in Keys
    /\ KeyJ \in Keys
BY DEF Keys

LEMMA KeyCases ==
    ASSUME NEW k \in Keys
    PROVE  \/ \E s \in Slots : k = Key1(s)
           \/ \E s \in Slots, v \in Entries : k = Key0(s, v)
           \/ \E s \in Slots, v, e \in Entries : k = KeyU(s, v, e)
           \/ k = KeyJ
BY DEF Keys

LEMMA OwnAt ==
    /\ \A s \in Slots : Own[Key1(s)] = T1(s)
    /\ \A s \in Slots, v \in Entries : Own[Key0(s, v)] = T0(s, v)
    /\ \A s \in Slots, v, e \in Entries : Own[KeyU(s, v, e)] = TU(s, v, e)
    /\ Own[KeyJ] = job.page
<1>1. \A s \in Slots : Own[Key1(s)] = T1(s)
    BY KeysAre DEF Own, Key1
<1>2. \A s \in Slots, v \in Entries : Own[Key0(s, v)] = T0(s, v)
    BY KeysAre DEF Own, Key0
<1>3. \A s \in Slots, v, e \in Entries : Own[KeyU(s, v, e)] = TU(s, v, e)
    BY KeysAre DEF Own, KeyU
<1>4. Own[KeyJ] = job.page
    BY KeysAre DEF Own, KeyJ
<1> QED BY <1>1, <1>2, <1>3, <1>4

\* Own after a step, from what each place names after it.
LEMMA OwnBecomes ==
    ASSUME NEW G, G = [k \in Keys |-> G[k]],
           \A s \in Slots : G[Key1(s)] = T1(s)',
           \A s \in Slots, v \in Entries : G[Key0(s, v)] = T0(s, v)',
           \A s \in Slots, v, e \in Entries : G[KeyU(s, v, e)] = TU(s, v, e)',
           G[KeyJ] = (job.page)'
    PROVE  Own' = G
<1>0. Own' = [k \in Keys |-> Own'[k]]
    BY DEF Own
<1>1. \A s \in Slots : Own'[Key1(s)] = T1(s)'
    BY KeysAre DEF Own, Key1
<1>2. \A s \in Slots, v \in Entries : Own'[Key0(s, v)] = T0(s, v)'
    BY KeysAre DEF Own, Key0
<1>3. \A s \in Slots, v, e \in Entries : Own'[KeyU(s, v, e)] = TU(s, v, e)'
    BY KeysAre DEF Own, KeyU
<1>4. Own'[KeyJ] = (job.page)'
    BY KeysAre DEF Own, KeyJ
<1>5. \A k \in Keys : Own'[k] = G[k]
    <2> SUFFICES ASSUME NEW k \in Keys PROVE Own'[k] = G[k]
        OBVIOUS
    <2>1. CASE \E s \in Slots : k = Key1(s)
        BY <1>1, <2>1
    <2>2. CASE \E s \in Slots, v \in Entries : k = Key0(s, v)
        BY <1>2, <2>2
    <2>3. CASE \E s \in Slots, v, e \in Entries : k = KeyU(s, v, e)
        BY <1>3, <2>3
    <2>4. CASE k = KeyJ
        BY <1>4, <2>4
    <2> QED BY <2>1, <2>2, <2>3, <2>4, KeyCases
<1> QED BY <1>0, <1>5

\* What soundness says of the tables.
LEMMA Distinct ==
    ASSUME Sound(Keys, Own, bitmap)
    PROVE  /\ \A s \in Slots : T1(s) = NULL \/ T1(s) \in bitmap
           /\ \A s \in Slots, v \in Entries : T0(s, v) = NULL \/ T0(s, v) \in bitmap
           /\ \A s, t \in Slots : T1(s) = T1(t) /\ T1(s) # NULL => s = t
           /\ \A s, t \in Slots, v \in Entries : T0(s, v) # NULL => T0(s, v) # T1(t)
           /\ \A s, t \in Slots, v, w \in Entries :
                 T0(s, v) = T0(t, w) /\ T0(s, v) # NULL => s = t /\ v = w
           /\ bitmap \subseteq Pages /\ NULL \notin bitmap
<1>1. /\ Own \in [Keys -> PageOrNull] /\ bitmap \subseteq Pages
      /\ \A k, l \in Keys : Own[k] = Own[l] /\ Own[k] # NULL => k = l
      /\ \A k \in Keys : Own[k] = NULL \/ Own[k] \in bitmap
    BY DEF Sound, PageOrNull
<1>2. /\ \A s \in Slots : T1(s) = NULL \/ T1(s) \in bitmap
      /\ \A s \in Slots, v \in Entries : T0(s, v) = NULL \/ T0(s, v) \in bitmap
    BY <1>1, OwnAt, KeysAre
<1>3. \A s, t \in Slots : T1(s) = T1(t) /\ T1(s) # NULL => s = t
    BY <1>1, OwnAt, KeysAre, KeysDiffer
<1>4. \A s, t \in Slots, v \in Entries : T0(s, v) # NULL => T0(s, v) # T1(t)
    BY <1>1, OwnAt, KeysAre, KeysDiffer
<1>5. \A s, t \in Slots, v, w \in Entries :
          T0(s, v) = T0(t, w) /\ T0(s, v) # NULL => s = t /\ v = w
    BY <1>1, OwnAt, KeysAre, KeysDiffer
<1> QED BY <1>1, <1>2, <1>3, <1>4, <1>5, NullIsNoPage

-----------------------------------------------------------------------------
(* What a write to memory changes for a walk.                              *)

\* A page that was free is filled, and entry v of the first-level table of c
\* may be written: every other walk finds what it found.
LEMMA WriteTable1 ==
    ASSUME Sound(Keys, Own, bitmap), NEW c \in Slots, NEW v,
           page_table' = page_table,
           \A q \in bitmap : q # T1(c) => mem'[q] = mem[q],
           \A w \in Entries : w # v /\ T1(c) # NULL => mem'[T1(c)][w] = mem[T1(c)][w]
    PROVE  /\ \A s \in Slots : T1(s)' = T1(s)
           /\ \A s \in Slots, w \in Entries : ~(s = c /\ w = v) => T0(s, w)' = T0(s, w)
           /\ \A s \in Slots, w, e \in Entries :
                 ~(s = c /\ w = v) => TU(s, w, e)' = TU(s, w, e)
<1>1. \A s \in Slots : T1(s)' = T1(s)
    BY DEF T1
<1>2. ASSUME NEW s \in Slots, NEW w \in Entries, ~(s = c /\ w = v)
      PROVE  T0(s, w)' = T0(s, w)
    <2>1. T1(s) # NULL => mem'[T1(s)][w] = mem[T1(s)][w]
        BY <1>2, Distinct
    <2> QED BY <1>1, <2>1 DEF T0
<1>3. ASSUME NEW s \in Slots, NEW w \in Entries, NEW e \in Entries, ~(s = c /\ w = v)
      PROVE  TU(s, w, e)' = TU(s, w, e)
    <2>1. T0(s, w) # NULL => T0(s, w) \in bitmap /\ T0(s, w) # T1(c)
        BY Distinct
    <2>2. T0(s, w)' = T0(s, w)
        BY <1>2, <1>3
    <2> QED BY <2>1, <2>2 DEF TU
<1> QED BY <1>1, <1>2, <1>3

\* Entry e of a second-level table is written.
LEMMA WriteTable0 ==
    ASSUME Sound(Keys, Own, bitmap), NEW c \in Slots, NEW v \in Entries, NEW e \in Entries,
           T0(c, v) # NULL, page_table' = page_table,
           \A q \in bitmap : q # T0(c, v) => mem'[q] = mem[q],
           \A f \in Entries : f # e => mem'[T0(c, v)][f] = mem[T0(c, v)][f]
    PROVE  /\ \A s \in Slots : T1(s)' = T1(s)
           /\ \A s \in Slots, w \in Entries : T0(s, w)' = T0(s, w)
           /\ \A s \in Slots, w, f \in Entries :
                 ~(s = c /\ w = v /\ f = e) => TU(s, w, f)' = TU(s, w, f)
           /\ TU(c, v, e)' = mem'[T0(c, v)][e]
<1>1. \A s \in Slots : T1(s)' = T1(s)
    BY DEF T1
<1>2. ASSUME NEW s \in Slots, NEW w \in Entries PROVE T0(s, w)' = T0(s, w)
    <2>1. T1(s) # NULL => mem'[T1(s)] = mem[T1(s)]
        BY Distinct
    <2> QED BY <1>1, <2>1 DEF T0
<1>3. ASSUME NEW s \in Slots, NEW w \in Entries, NEW f \in Entries, ~(s = c /\ w = v /\ f = e)
      PROVE  TU(s, w, f)' = TU(s, w, f)
    <2>1. T0(s, w) # NULL => mem'[T0(s, w)][f] = mem[T0(s, w)][f]
        BY <1>3, Distinct
    <2> QED BY <1>2, <2>1 DEF TU
<1>4. TU(c, v, e)' = mem'[T0(c, v)][e]
    BY <1>2 DEF TU
<1> QED BY <1>1, <1>2, <1>3, <1>4

-----------------------------------------------------------------------------
(* Steps.                                                                  *)

Jobs == [op : Ops, slot : Slots, i : Nat, n : Images \cup {0},
         page : PageOrNull, parent : Slots, then : {"none", "load", "free_tables"}]

LEMMA JobIs ==
    ASSUME NEW op \in Ops, NEW s \in Slots, NEW n \in Images \cup {0}, NEW parent \in Slots,
           NEW then \in {"none", "load", "free_tables"}
    PROVE  LET j == Job(op, s, n, parent, then) IN
           /\ j \in Jobs /\ j.op = op /\ j.slot = s /\ j.i = 0 /\ j.n = n
           /\ j.page = NULL /\ j.then = then
<1> DEFINE j == Job(op, s, n, parent, then)
<1>1. j \in Jobs
    BY NullIsNoPage DEF Job, Jobs
<1>2. /\ j.op = op /\ j.slot = s /\ j.i = 0 /\ j.n = n /\ j.page = NULL /\ j.then = then
    BY DEF Job
<1> QED BY <1>1, <1>2

LEMMA NoJobIs ==
    /\ NoJob \in Jobs /\ NoJob.op = "none" /\ NoJob.slot = idle_proc /\ NoJob.page = NULL
    /\ idle_proc \in Slots
<1>1. idle_proc \in Slots
    BY MemorySizes DEF idle_proc, Slots
<1>2. NoJob \in Jobs
    BY <1>1, NullIsNoPage DEF NoJob, Jobs, Ops
<1> QED BY <1>1, <1>2 DEF NoJob

LEMMA MemTypes ==
    ASSUME MemInv
    PROVE  /\ bitmap \subseteq Pages /\ mem \in [Pages -> [Entries -> Words]]
           /\ page_table \in [Slots -> PageOrNull] /\ user_pages \in [Slots -> Images \cup {0}]
           /\ live \subseteq Slots /\ current_proc \in Slots /\ job \in Jobs
           /\ job.slot \in Slots /\ job.i \in Nat /\ job.n \in Nat /\ job.page \in PageOrNull
           /\ \A s \in Slots : user_pages[s] \in Nat /\ user_pages[s] <= MaxImage
<1>1. job \in Jobs
    BY DEF MemInv, TypeOK, Jobs
<1>2. job.slot \in Slots /\ job.i \in Nat /\ job.n \in Images \cup {0} /\ job.page \in PageOrNull
    BY <1>1 DEF Jobs
<1> QED BY <1>1, <1>2, MaxImageBound DEF MemInv, TypeOK

\* No walk finds anything new: what a program can have stays its bound.
LEMMA WithinKept ==
    ASSUME WithinImage,
           \A s \in Slots, v, e \in Entries : TU(s, v, e)' = TU(s, v, e) \/ TU(s, v, e)' = NULL
    PROVE  WithinImage'
BY DEF WithinImage

\* The pages of s are mapped as they were.
LEMMA MapsKept ==
    ASSUME NEW s \in Slots, MapsExactly(s), MappedPages(s)' = MappedPages(s),
           \A v, e \in Entries : TU(s, v, e)' = TU(s, v, e)
    PROVE  MapsExactly(s)'
BY DEF MapsExactly

\* Own where nothing was named anew.
LEMMA OwnKept ==
    ASSUME Sound(Keys, Own, bitmap), \A s \in Slots : T1(s)' = T1(s),
           \A s \in Slots, v \in Entries : T0(s, v)' = T0(s, v),
           \A s \in Slots, v, e \in Entries : TU(s, v, e)' = TU(s, v, e),
           (job.page)' = job.page
    PROVE  Own' = Own
<1>1. Own = [k \in Keys |-> Own[k]]
    BY DEF Own
<1> QED BY <1>1, OwnAt, OwnBecomes

\* Tables and memory unchanged.
LEMMA WalksKept ==
    ASSUME UNCHANGED <<mem, page_table>>
    PROVE  /\ \A s \in Slots : T1(s)' = T1(s)
           /\ \A s \in Slots, v \in Entries : T0(s, v)' = T0(s, v)
           /\ \A s \in Slots, v, e \in Entries : TU(s, v, e)' = TU(s, v, e)
           /\ Built' = Built
BY DEF T1, T0, TU, Built

\* Steps that only move the job forward: exec, recycle, the end of a phase.
LEMMA JobMoves ==
    ASSUME MemInv, UNCHANGED <<bitmap, mem, page_table>>, (job.page)' = job.page,
           job' \in Jobs, user_pages' \in [Slots -> Images \cup {0}],
           live' \subseteq Slots, current_proc' \in Slots,
           job.op # "out_of_memory", (job.op)' # "double_free", JobSound',
           \A s \in Slots : MappedPages(s)' = MappedPages(s) \/
                             ((job.op)' = "out_of_memory" /\ s = (job.slot)')
    PROVE  MemInv'
<1>1. TypeOK'
    BY MemTypes DEF TypeOK, Jobs
<1>2. Sound(Keys, Own, bitmap)'
    <2>1. Own' = Own
        BY WalksKept, OwnKept DEF MemInv
    <2> QED BY <2>1 DEF MemInv, Sound
<1>3. WithinImage'
    BY WalksKept, WithinKept DEF MemInv
<1>4. Contents'
    <2>1. \A s \in Slots : MapsExactly(s)
        BY DEF MemInv, Contents
    <2>2. \A s \in Slots : MappedPages(s)' = MappedPages(s) => MapsExactly(s)'
        BY <2>1, WalksKept, MapsKept
    <2> QED BY <2>2 DEF Contents
<1>5. NoDoubleFree'
    BY DEF NoDoubleFree
<1> QED BY <1>1, <1>2, <1>3, <1>4, <1>5 DEF MemInv

LEMMA MemInit == Init => MemInv
<1> SUFFICES ASSUME Init PROVE MemInv
    OBVIOUS
<1>1. TypeOK
    <2>1. bitmap \subseteq Pages /\ live \subseteq Slots /\ current_proc \in Slots
        BY NoJobIs DEF Init
    <2>2. mem \in [Pages -> [Entries -> Words]]
        BY DEF Init, Words
    <2>3. page_table \in [Slots -> PageOrNull] /\ user_pages \in [Slots -> Images \cup {0}]
        BY NullIsNoPage DEF Init
    <2>4. job \in Jobs
        BY NoJobIs DEF Init
    <2> QED BY <2>1, <2>2, <2>3, <2>4 DEF TypeOK, Jobs
<1>2. /\ \A s \in Slots : T1(s) = NULL
      /\ \A s \in Slots, v \in Entries : T0(s, v) = NULL
      /\ \A s \in Slots, v, e \in Entries : TU(s, v, e) = NULL
      /\ job.page = NULL
    BY NoJobIs DEF Init, T1, T0, TU
<1>3. Sound(Keys, Own, bitmap)
    <2>1. \A k \in Keys : Own[k] = NULL
        <3> SUFFICES ASSUME NEW k \in Keys PROVE Own[k] = NULL
            OBVIOUS
        <3>1. CASE \E s \in Slots : k = Key1(s)
            BY <1>2, <3>1, OwnAt
        <3>2. CASE \E s \in Slots, v \in Entries : k = Key0(s, v)
            BY <1>2, <3>2, OwnAt
        <3>3. CASE \E s \in Slots, v, e \in Entries : k = KeyU(s, v, e)
            BY <1>2, <3>3, OwnAt
        <3>4. CASE k = KeyJ
            BY <1>2, <3>4, OwnAt
        <3> QED BY <3>1, <3>2, <3>3, <3>4, KeyCases
    <2>2. Own = [k \in Keys |-> Own[k]]
        BY DEF Own
    <2>3. Own \in [Keys -> PageOrNull] /\ bitmap = {}
        BY <2>1, <2>2, NullIsNoPage DEF Init
    <2> QED BY <2>1, <2>3, NullIsNoPage DEF Sound
<1>4. JobSound
    BY NoJobIs DEF Init, JobSound, Built
<1>5. WithinImage
    BY <1>2 DEF WithinImage
<1>6. Contents
    <2>1. \A s \in Slots : MappedPages(s) = {}
        BY NoJobIs DEF Init, MappedPages
    <2> QED BY <1>2, <2>1 DEF Contents, MapsExactly
<1>7. NoDoubleFree
    BY NoJobIs DEF Init, NoDoubleFree
<1> QED BY <1>1, <1>3, <1>4, <1>5, <1>6, <1>7 DEF MemInv

\* A new first-level table: the slot was free, so nothing was named from it.
LEMMA NewTableKeeps ==
    ASSUME MemInv, job.op = "none", NEW n \in Images \cup {0}, NEW parent \in Slots \cup {NULL},
           NewTable(n, parent)
    PROVE  MemInv'
<1>1. PICK s \in Slots, p \in Pages :
        /\ FreeSlot(s) /\ p \notin bitmap /\ bitmap' = bitmap \cup {p}
        /\ mem' = [mem EXCEPT ![p] = Cleared]
        /\ page_table' = [page_table EXCEPT ![s] = p]
        /\ job' = Job("map_kernel", s, n, IF parent = NULL THEN s ELSE parent, "none")
        /\ UNCHANGED <<user_pages, live, current_proc>>
    BY DEF NewTable, alloc_pages, FirstFit
<1>2. /\ job' \in Jobs /\ (job.op)' = "map_kernel" /\ (job.slot)' = s /\ (job.i)' = 0
      /\ (job.page)' = NULL
    <2>1. (IF parent = NULL THEN s ELSE parent) \in Slots /\ "map_kernel" \in Ops
        BY DEF Ops
    <2> QED BY <1>1, <2>1, JobIs
<1>3. s \notin live /\ s \notin Built /\ user_pages[s] = 0 /\ job.page = NULL /\ Built = live
    BY <1>1 DEF FreeSlot, MemInv, JobSound
<1>4. T1(s) = NULL /\ \A v, e \in Entries : T0(s, v) = NULL /\ TU(s, v, e) = NULL
    BY <1>3 DEF Built, T1, T0, TU
<1>5. /\ T1(s)' = p /\ \A t \in Slots : t # s => T1(t)' = T1(t)
    BY <1>1, MemTypes DEF T1
<1>6. p # NULL /\ mem' \in [Pages -> [Entries -> Words]] /\ mem'[p] = Cleared
      /\ \A q \in bitmap : mem'[q] = mem[q]
    BY <1>1, MemTypes, NullIsNoPage DEF Cleared, Words
<1>7. \A v \in Entries : T0(s, v)' = NULL
    BY <1>5, <1>6 DEF T0, Cleared
<1>8. \A t \in Slots, v \in Entries : T0(t, v)' = T0(t, v)
    <2> SUFFICES ASSUME NEW t \in Slots, NEW v \in Entries PROVE T0(t, v)' = T0(t, v)
        OBVIOUS
    <2>1. CASE t = s
        BY <1>4, <1>7, <2>1
    <2>2. CASE t # s
        <3>1. T1(t) = NULL \/ T1(t) \in bitmap
            BY Distinct DEF MemInv
        <3> QED BY <1>5, <1>6, <2>2, <3>1 DEF T0
    <2> QED BY <2>1, <2>2
<1>9. \A t \in Slots, v, e \in Entries : TU(t, v, e)' = TU(t, v, e)
    <2> SUFFICES ASSUME NEW t \in Slots, NEW v \in Entries, NEW e \in Entries
                 PROVE  TU(t, v, e)' = TU(t, v, e)
        OBVIOUS
    <2>1. T0(t, v) = NULL \/ T0(t, v) \in bitmap
        BY Distinct DEF MemInv
    <2> QED BY <1>6, <1>8, <2>1 DEF TU
<1>10. TypeOK'
    <2>1. page_table' \in [Slots -> PageOrNull]
        BY <1>1, MemTypes DEF PageOrNull
    <2> QED BY <1>1, <1>2, <1>6, <2>1, MemTypes DEF TypeOK, Jobs
<1>11. Sound(Keys, Own, bitmap)'
    <2> DEFINE G == [Own EXCEPT ![Key1(s)] = p]
    <2>1. Own = [k \in Keys |-> Own[k]] /\ Key1(s) \in Keys
        BY KeysAre DEF Own
    <2>2. G = [k \in Keys |-> G[k]] /\ G[Key1(s)] = p
          /\ \A k \in Keys : k # Key1(s) => G[k] = Own[k]
        BY <2>1
    <2>3. Own[Key1(s)] = NULL
        BY <1>4, OwnAt
    <2>4. Sound(Keys, G, bitmap \cup {p})
        BY <1>1, <2>1, <2>3, Acquire DEF MemInv
    <2> HIDE DEF G
    <2>5. \A t \in Slots : G[Key1(t)] = T1(t)'
        BY <1>5, <2>2, OwnAt, KeysAre, KeysDiffer
    <2>6. \A t \in Slots, v \in Entries : G[Key0(t, v)] = T0(t, v)'
        BY <1>8, <2>2, OwnAt, KeysAre, KeysDiffer
    <2>7. \A t \in Slots, v, e \in Entries : G[KeyU(t, v, e)] = TU(t, v, e)'
        BY <1>9, <2>2, OwnAt, KeysAre, KeysDiffer
    <2>8. G[KeyJ] = (job.page)'
        BY <1>2, <1>3, <2>2, OwnAt, KeysAre, KeysDiffer
    <2>9. Own' = G
        BY <2>2, <2>5, <2>6, <2>7, <2>8, OwnBecomes
    <2> QED BY <1>1, <2>4, <2>9
<1>12. JobSound'
    <2>1. Built' = live \cup {s}
        BY <1>1, <1>3, <1>6, MemTypes DEF Built
    <2>2. \A t \in Slots \ live : user_pages[t] = 0
        BY DEF MemInv, JobSound
    <2> QED BY <1>1, <1>2, <1>3, <2>1, <2>2 DEF JobSound
<1>13. WithinImage'
    BY <1>9, WithinKept DEF MemInv
<1>14. Contents'
    <2>1. \A t \in Slots : MappedPages(t)' = MappedPages(t)
        BY <1>1, <1>2 DEF MappedPages
    <2>2. \A t \in Slots : MapsExactly(t)
        BY DEF MemInv, Contents
    <2>3. \A t \in Slots : MapsExactly(t)'
        BY <1>9, <2>1, <2>2, MapsKept
    <2> QED BY <2>3 DEF Contents
<1>15. NoDoubleFree'
    BY <1>2 DEF NoDoubleFree
<1> QED BY <1>10, <1>11, <1>12, <1>13, <1>14, <1>15 DEF MemInv

\* exec and recycle: the pages are freed from the first on.
LEMMA FreeStarts ==
    ASSUME MemInv, job.op = "none", NEW s \in live, NEW n \in Images \cup {0},
           NEW parent \in Slots, NEW then \in {"load", "free_tables"},
           job' = Job("free_user", s, n, parent, then),
           UNCHANGED <<bitmap, mem, page_table, user_pages, live, current_proc>>
    PROVE  MemInv'
<1>1. /\ job' \in Jobs /\ (job.op)' = "free_user" /\ (job.slot)' = s /\ (job.i)' = 0
      /\ (job.page)' = NULL /\ (job.then)' = then
    <2>1. s \in Slots /\ then \in {"none", "load", "free_tables"} /\ "free_user" \in Ops
        BY MemTypes DEF Ops
    <2> QED BY <2>1, JobIs
<1>2. job.page = NULL
    BY DEF MemInv, JobSound
<1>3. JobSound'
    <2>1. Built = live /\ \A t \in Slots \ live : user_pages[t] = 0
        BY DEF MemInv, JobSound
    <2>2. user_pages[s] \in Nat
        BY MemTypes
    <2> QED BY <1>1, <2>1, <2>2, WalksKept DEF JobSound
<1>4. \A t \in Slots : MappedPages(t)' = MappedPages(t)
    BY <1>1 DEF MappedPages
<1> QED BY <1>1, <1>2, <1>3, <1>4, MemTypes, JobMoves

LEMMA CallsKeep ==
    ASSUME MemInv,
           \/ create_process \/ process_fork \/ process_exec
           \/ \E s \in Slots : recycle_process_slot(s) \/ yield_switch(s)
    PROVE  MemInv'
<1>1. CASE create_process
    <2>1. job.op = "none" /\ \E n \in Images \cup {0} : NewTable(n, NULL)
        BY <1>1 DEF create_process, Running
    <2> QED BY <2>1, NewTableKeeps
<1>2. CASE process_fork
    <2>1. job.op = "none" /\ NewTable(user_pages[current_proc], current_proc)
        BY <1>2 DEF process_fork, Running
    <2>2. user_pages[current_proc] \in Images \cup {0} /\ current_proc \in Slots \cup {NULL}
        BY MemTypes
    <2> QED BY <2>1, <2>2, NewTableKeeps
<1>3. CASE process_exec
    <2>1. job.op = "none" /\ current_proc \in live
        BY <1>3 DEF process_exec, Running
    <2>2. PICK n \in Images : job' = Job("free_user", current_proc, n, current_proc, "load")
        BY <1>3 DEF process_exec
    <2>3. UNCHANGED <<bitmap, mem, page_table, user_pages, live, current_proc>>
        BY <1>3 DEF process_exec
    <2> QED BY <2>1, <2>2, <2>3, MemTypes, FreeStarts
<1>4. ASSUME NEW s \in Slots, recycle_process_slot(s) PROVE MemInv'
    <2>1. /\ job.op = "none" /\ s \in live
          /\ job' = Job("free_user", s, 0, s, "free_tables")
          /\ UNCHANGED <<bitmap, mem, page_table, user_pages, live, current_proc>>
        BY <1>4 DEF recycle_process_slot
    <2> QED BY <2>1, FreeStarts
<1>5. ASSUME NEW s \in Slots, yield_switch(s) PROVE MemInv'
    <2>1. /\ job.op = "none" /\ current_proc' \in Slots
          /\ UNCHANGED <<bitmap, mem, page_table, user_pages, live, job>>
        BY <1>5, MemTypes DEF yield_switch
    <2>2. JobSound'
        BY <2>1, WalksKept DEF MemInv, JobSound
    <2>3. \A t \in Slots : MappedPages(t)' = MappedPages(t)
        BY <2>1 DEF MappedPages
    <2> QED BY <2>1, <2>2, <2>3, MemTypes, JobMoves
<1> QED BY <1>1, <1>2, <1>3, <1>4, <1>5

\* A second-level table for a region of the kernel.
LEMMA MapKernelKeeps == ASSUME MemInv, map_kernel PROVE MemInv'
<1>0. PICK c \in Slots : c = job.slot
    BY MemTypes
<1>1. PICK v \in Unmapped, p \in Pages :
        /\ p \notin bitmap /\ bitmap' = bitmap \cup {p}
        /\ mem' = [mem EXCEPT ![p] = Cleared, ![page_table[c]][v] = p]
    BY <1>0 DEF map_kernel, alloc_pages, FirstFit
<1>2. job.op = "map_kernel" /\ UNCHANGED <<page_table, user_pages, live, current_proc, job>>
    BY DEF map_kernel
<1>3. c \in Built /\ T1(c) # NULL
    BY <1>0, <1>2 DEF MemInv, JobSound, Built, T1
<1>4. v \in Entries /\ T0(c, v) = NULL
    BY <1>0, <1>1, <1>3, MapAssumption DEF Unmapped, Entries, T0, T1, table1
<1>5. T1(c) \in bitmap /\ T1(c) \in Pages /\ T1(c) # p /\ p # NULL
    BY <1>1, <1>3, Distinct, MemTypes, NullIsNoPage DEF MemInv
<1>6. /\ mem'[T1(c)][v] = p /\ mem'[p] = Cleared
      /\ \A w \in Entries : w # v => mem'[T1(c)][w] = mem[T1(c)][w]
      /\ \A q \in bitmap : q # T1(c) => mem'[q] = mem[q]
    BY <1>1, <1>4, <1>5, MemTypes DEF T1
<1>7. mem' \in [Pages -> [Entries -> Words]]
    <2>1. Cleared \in [Entries -> Words] /\ p \in Words
        BY DEF Cleared, Words
    <2> QED BY <1>1, <1>4, <2>1, MemTypes
<1>8. /\ \A s \in Slots : T1(s)' = T1(s)
      /\ \A s \in Slots, w \in Entries : ~(s = c /\ w = v) => T0(s, w)' = T0(s, w)
      /\ \A s \in Slots, w, e \in Entries : ~(s = c /\ w = v) => TU(s, w, e)' = TU(s, w, e)
    <2>1. Sound(Keys, Own, bitmap) /\ page_table' = page_table
        BY <1>2 DEF MemInv
    <2> QED BY <1>6, <2>1, WriteTable1
<1>9. T0(c, v)' = p
    BY <1>3, <1>6, <1>8 DEF T0
<1>10. \A s \in Slots, w, e \in Entries : TU(s, w, e)' = TU(s, w, e)
    <2>1. \A e \in Entries : TU(c, v, e)' = NULL /\ TU(c, v, e) = NULL
        BY <1>4, <1>5, <1>6, <1>9 DEF TU, Cleared
    <2> QED BY <1>8, <2>1
<1>11. TypeOK'
    BY <1>1, <1>2, <1>7, MemTypes DEF TypeOK, Jobs
<1>12. Sound(Keys, Own, bitmap)'
    <2> DEFINE G == [Own EXCEPT ![Key0(c, v)] = p]
    <2>1. Own = [k \in Keys |-> Own[k]] /\ Key0(c, v) \in Keys
        BY <1>3, <1>4, KeysAre DEF Own
    <2>2. G = [k \in Keys |-> G[k]] /\ G[Key0(c, v)] = p
          /\ \A k \in Keys : k # Key0(c, v) => G[k] = Own[k]
        BY <2>1
    <2>3. Own[Key0(c, v)] = NULL
        BY <1>3, <1>4, OwnAt
    <2>4. Sound(Keys, G, bitmap \cup {p})
        BY <1>1, <2>1, <2>3, Acquire DEF MemInv
    <2> HIDE DEF G
    <2>5. \A t \in Slots : G[Key1(t)] = T1(t)'
        BY <1>8, <2>2, OwnAt, KeysAre, KeysDiffer
    <2>6. \A t \in Slots, w \in Entries : G[Key0(t, w)] = T0(t, w)'
        BY <1>8, <1>9, <2>2, OwnAt, KeysAre, KeysDiffer
    <2>7. \A t \in Slots, w, e \in Entries : G[KeyU(t, w, e)] = TU(t, w, e)'
        BY <1>10, <2>2, OwnAt, KeysAre, KeysDiffer
    <2>8. G[KeyJ] = (job.page)'
        BY <1>2, <2>2, OwnAt, KeysAre, KeysDiffer
    <2>9. Own' = G
        BY <2>2, <2>5, <2>6, <2>7, <2>8, OwnBecomes
    <2> QED BY <1>1, <2>4, <2>9
<1>13. JobSound'
    BY <1>2 DEF MemInv, JobSound, Built
<1>14. WithinImage'
    BY <1>10, WithinKept DEF MemInv
<1>15. Contents'
    <2>1. \A t \in Slots : MappedPages(t)' = MappedPages(t)
        BY <1>2 DEF MappedPages
    <2>2. \A t \in Slots : MapsExactly(t)
        BY <1>2 DEF MemInv, Contents
    <2>3. \A t \in Slots : MapsExactly(t)'
        BY <1>10, <2>1, <2>2, MapsKept
    <2> QED BY <2>3 DEF Contents
<1>16. NoDoubleFree'
    BY <1>2 DEF NoDoubleFree
<1> QED BY <1>11, <1>12, <1>13, <1>14, <1>15, <1>16 DEF MemInv

\* What assigning fields of the job leaves.
LEMMA JobOp ==
    ASSUME job \in Jobs, NEW op \in Ops
    PROVE  LET j == [job EXCEPT !.op = op] IN
           /\ j \in Jobs /\ j.op = op /\ j.slot = job.slot /\ j.i = job.i /\ j.n = job.n
           /\ j.page = job.page /\ j.then = job.then
<1> DEFINE j == [job EXCEPT !.op = op]
<1>1. j \in Jobs
    BY DEF Jobs
<1>2. /\ j.op = op /\ j.slot = job.slot /\ j.i = job.i /\ j.n = job.n
      /\ j.page = job.page /\ j.then = job.then
    BY DEF Jobs
<1> QED BY <1>1, <1>2

LEMMA MapKernelDoneKeeps == ASSUME MemInv, map_kernel_done PROVE MemInv'
<1>1. /\ job.op = "map_kernel" /\ job' = [job EXCEPT !.op = "load"]
      /\ UNCHANGED <<bitmap, mem, page_table, user_pages, live, current_proc>>
    BY DEF map_kernel_done
<1>2. /\ job' \in Jobs /\ (job.op)' = "load" /\ (job.slot)' = job.slot /\ (job.i)' = job.i
      /\ (job.n)' = job.n /\ (job.page)' = job.page
    BY <1>1, MemTypes, JobOp DEF Ops
<1>3. /\ Built = live \cup {job.slot} /\ job.page = NULL /\ job.i = 0
      /\ user_pages[job.slot] = 0 /\ \A s \in Slots \ live : user_pages[s] = 0
    BY <1>1 DEF MemInv, JobSound
<1>4. JobSound'
    <2>1. 0 <= job.n BY MemTypes
    <2> QED BY <1>1, <1>2, <1>3, <2>1, WalksKept DEF JobSound
<1>5. \A s \in Slots : MappedPages(s)' = MappedPages(s)
    BY <1>1, <1>2, <1>3 DEF MappedPages
<1> QED BY <1>1, <1>2, <1>4, <1>5, MemTypes, JobMoves

LEMMA OutOfMemoryKeeps == ASSUME MemInv, OutOfMemory PROVE MemInv'
<1>1. /\ job.op # "out_of_memory" /\ job' = [job EXCEPT !.op = "out_of_memory"]
      /\ UNCHANGED <<bitmap, mem, page_table, user_pages, live, current_proc>>
    BY DEF OutOfMemory, NeedsPage, Running
<1>2. /\ job' \in Jobs /\ (job.op)' = "out_of_memory" /\ (job.slot)' = job.slot
      /\ (job.page)' = job.page
    BY <1>1, MemTypes, JobOp DEF Ops
<1>3. JobSound'
    BY <1>1, <1>2, WalksKept DEF MemInv, JobSound
<1>4. \A s \in Slots : MappedPages(s)' = MappedPages(s) \/ s = (job.slot)'
    BY <1>1, <1>2 DEF MappedPages
<1> QED BY <1>1, <1>2, <1>3, <1>4, MemTypes, JobMoves

\* A page for the image, in the kernel's hands.
LEMMA LoadPageKeeps == ASSUME MemInv, load_page PROVE MemInv'
<1>1. PICK p \in Pages :
        /\ p \notin bitmap /\ bitmap' = bitmap \cup {p}
        /\ mem' = [mem EXCEPT ![p] = [e \in Entries |-> DATA]]
        /\ job' = [job EXCEPT !.page = p]
    BY DEF load_page, alloc_pages, FirstFit
<1>2. /\ job.op = "load" /\ job.page = NULL /\ job.i < job.n
      /\ UNCHANGED <<page_table, user_pages, live, current_proc>>
    BY DEF load_page
<1>3. job' \in Jobs
    <2>1. job \in Jobs /\ p \in PageOrNull
        BY MemTypes DEF PageOrNull
    <2> QED BY <1>1, <2>1 DEF Jobs
<1>4. /\ (job.op)' = "load" /\ (job.slot)' = job.slot /\ (job.i)' = job.i
      /\ (job.n)' = job.n /\ (job.page)' = p
    BY <1>1, <1>2, MemTypes DEF Jobs
<1>5. /\ mem' \in [Pages -> [Entries -> Words]]
      /\ \A q \in bitmap : mem'[q] = mem[q]
    BY <1>1, MemTypes DEF Words
<1>6. PICK c \in Slots : c = job.slot /\ job.i \in Nat /\ job.n \in Nat
    BY MemTypes
<1>7. /\ \A s \in Slots : T1(s)' = T1(s)
      /\ \A s \in Slots, w \in Entries : T0(s, w)' = T0(s, w)
      /\ \A s \in Slots, w, e \in Entries : TU(s, w, e)' = TU(s, w, e)
    <2>1. -1 \notin Entries
        BY DEF Entries
    <2>2. \A w \in Entries : T1(c) # NULL => mem'[T1(c)][w] = mem[T1(c)][w]
        BY <1>5, <1>6, Distinct DEF MemInv
    <2>3. Sound(Keys, Own, bitmap) /\ page_table' = page_table
        BY <1>2 DEF MemInv
    <2>4. \A q \in bitmap : q # T1(c) => mem'[q] = mem[q]
        BY <1>5
    <2>5. /\ \A s \in Slots : T1(s)' = T1(s)
          /\ \A s \in Slots, w \in Entries : ~(s = c /\ w = -1) => T0(s, w)' = T0(s, w)
          /\ \A s \in Slots, w, e \in Entries :
                ~(s = c /\ w = -1) => TU(s, w, e)' = TU(s, w, e)
        BY <2>2, <2>3, <2>4, WriteTable1
    <2> QED BY <2>1, <2>5
<1>8. TypeOK'
    BY <1>1, <1>2, <1>3, <1>5, MemTypes DEF TypeOK, Jobs
<1>9. Sound(Keys, Own, bitmap)'
    <2> DEFINE G == [Own EXCEPT ![KeyJ] = p]
    <2>1. Own = [k \in Keys |-> Own[k]] /\ KeyJ \in Keys
        BY KeysAre DEF Own
    <2>2. G = [k \in Keys |-> G[k]] /\ G[KeyJ] = p
          /\ \A k \in Keys : k # KeyJ => G[k] = Own[k]
        BY <2>1
    <2>3. Own[KeyJ] = NULL
        BY <1>2, OwnAt
    <2>4. Sound(Keys, G, bitmap \cup {p})
        BY <1>1, <2>1, <2>3, Acquire DEF MemInv
    <2> HIDE DEF G
    <2>5. \A t \in Slots : G[Key1(t)] = T1(t)'
        BY <1>7, <2>2, OwnAt, KeysAre, KeysDiffer
    <2>6. \A t \in Slots, w \in Entries : G[Key0(t, w)] = T0(t, w)'
        BY <1>7, <2>2, OwnAt, KeysAre, KeysDiffer
    <2>7. \A t \in Slots, w, e \in Entries : G[KeyU(t, w, e)] = TU(t, w, e)'
        BY <1>7, <2>2, OwnAt, KeysAre, KeysDiffer
    <2>8. G[KeyJ] = (job.page)'
        BY <1>4, <2>2
    <2>9. Own' = G
        BY <2>2, <2>5, <2>6, <2>7, <2>8, OwnBecomes
    <2> QED BY <1>1, <2>4, <2>9
<1>10. JobSound'
    BY <1>2, <1>4, <1>6 DEF MemInv, JobSound, Built
<1>11. WithinImage'
    BY <1>7, WithinKept DEF MemInv
<1>12. Contents'
    <2>1. \A t \in Slots : MappedPages(t)' = MappedPages(t)
        BY <1>2, <1>4 DEF MappedPages
    <2>2. \A t \in Slots : MapsExactly(t)
        BY <1>2 DEF MemInv, Contents
    <2>3. \A t \in Slots : MapsExactly(t)'
        BY <1>7, <2>1, <2>2, MapsKept
    <2> QED BY <2>3 DEF Contents
<1>13. NoDoubleFree'
    BY <1>4 DEF NoDoubleFree
<1> QED BY <1>8, <1>9, <1>10, <1>11, <1>12, <1>13 DEF MemInv

-----------------------------------------------------------------------------
(* Mapping and unmapping one user page.                                    *)

LEMMA OneMapped ==
    ASSUME NEW c \in Slots, NEW i \in 0 .. MaxImage - 1, MapsExactly(c),
           MappedPages(c)' = MappedPages(c) \cup {i},
           TU(c, vpn1(i), vpn0(i))' # NULL,
           \A v, e \in Entries : ~(v = vpn1(i) /\ e = vpn0(i)) => TU(c, v, e)' = TU(c, v, e)
    PROVE  MapsExactly(c)'
<1> SUFFICES ASSUME NEW v \in Entries, NEW e \in Entries
             PROVE  TU(c, v, e)' # NULL <=> \E j \in MappedPages(c)' : v = vpn1(j) /\ e = vpn0(j)
    BY DEF MapsExactly
<1>1. CASE v = vpn1(i) /\ e = vpn0(i)
    BY <1>1
<1>2. CASE ~(v = vpn1(i) /\ e = vpn0(i))
    <2>1. TU(c, v, e) # NULL <=> \E j \in MappedPages(c) : v = vpn1(j) /\ e = vpn0(j)
        BY DEF MapsExactly
    <2> QED BY <1>2, <2>1
<1> QED BY <1>1, <1>2

LEMMA OneUnmapped ==
    ASSUME NEW c \in Slots, NEW i \in 0 .. MaxImage - 1, MapsExactly(c),
           MappedPages(c) \subseteq Nat, MappedPages(c)' = MappedPages(c) \ {i},
           TU(c, vpn1(i), vpn0(i))' = NULL,
           \A v, e \in Entries : ~(v = vpn1(i) /\ e = vpn0(i)) => TU(c, v, e)' = TU(c, v, e)
    PROVE  MapsExactly(c)'
<1> SUFFICES ASSUME NEW v \in Entries, NEW e \in Entries
             PROVE  TU(c, v, e)' # NULL <=> \E j \in MappedPages(c)' : v = vpn1(j) /\ e = vpn0(j)
    BY DEF MapsExactly
<1>0. i \in Nat
    BY VpnRange
<1>1. CASE v = vpn1(i) /\ e = vpn0(i)
    <2>1. \A j \in MappedPages(c)' : ~(v = vpn1(j) /\ e = vpn0(j))
        BY <1>0, <1>1, VpnInjective
    <2> QED BY <1>1, <2>1
<1>2. CASE ~(v = vpn1(i) /\ e = vpn0(i))
    <2>1. TU(c, v, e) # NULL <=> \E j \in MappedPages(c) : v = vpn1(j) /\ e = vpn0(j)
        BY DEF MapsExactly
    <2> QED BY <1>2, <2>1
<1> QED BY <1>1, <1>2

\* Whether a user page is mapped, by its number.
LEMMA IsMapped ==
    ASSUME NEW c \in Slots, NEW i \in 0 .. MaxImage - 1, MapsExactly(c),
           MappedPages(c) \subseteq Nat
    PROVE  TU(c, vpn1(i), vpn0(i)) # NULL <=> i \in MappedPages(c)
<1>1. i \in Nat /\ vpn1(i) \in Entries /\ vpn0(i) \in Entries
    BY VpnRange
<1>2. TU(c, vpn1(i), vpn0(i)) # NULL <=>
        \E j \in MappedPages(c) : vpn1(i) = vpn1(j) /\ vpn0(i) = vpn0(j)
    BY <1>1 DEF MapsExactly
<1> QED BY <1>1, <1>2, VpnInjective

\* The facts that map_page and map_page_table share.
LEMMA Mapping ==
    ASSUME MemInv, job.op = "load", job.page # NULL
    PROVE  /\ job.i \in 0 .. MaxImage - 1 /\ job.i < job.n
           /\ MappedPages(job.slot) = 0 .. job.i - 1 /\ MappedPages(job.slot) \subseteq Nat
           /\ MapsExactly(job.slot) /\ TU(job.slot, vpn1(job.i), vpn0(job.i)) = NULL
           /\ job.slot \in Built
           /\ Mapped \in Jobs /\ Mapped.op = "load" /\ Mapped.slot = job.slot
           /\ Mapped.i = job.i + 1 /\ Mapped.n = job.n /\ Mapped.page = NULL
<1>1. job \in Jobs /\ job.i \in Nat /\ job.n \in Nat /\ job.slot \in Slots
    BY MemTypes
<1>2. job.i < job.n /\ job.slot \in Built
    BY DEF MemInv, JobSound
<1>3. job.n <= MaxImage
    <2>1. job.n \in Images \cup {0}
        BY <1>1 DEF Jobs
    <2> QED BY <2>1, MaxImageBound
<1>4. job.i \in 0 .. MaxImage - 1
    BY <1>1, <1>2, <1>3, MaxImageBound
<1>5. MappedPages(job.slot) = 0 .. job.i - 1 /\ MappedPages(job.slot) \subseteq Nat
    BY <1>1 DEF MappedPages
<1>6. MapsExactly(job.slot)
    BY <1>1 DEF MemInv, Contents
<1>7. TU(job.slot, vpn1(job.i), vpn0(job.i)) = NULL
    <2>1. job.i \notin MappedPages(job.slot)
        BY <1>1, <1>5
    <2>2. PICK c \in Slots, i \in 0 .. MaxImage - 1 : c = job.slot /\ i = job.i
        BY <1>1, <1>4
    <2> QED BY <1>5, <1>6, <2>1, <2>2, IsMapped
<1>8. Mapped \in Jobs
    <2>1. job.i + 1 \in Nat /\ NULL \in PageOrNull
        BY <1>1, NullIsNoPage
    <2>2. Mapped = [job EXCEPT !.page = NULL, !.i = job.i + 1]
        BY <1>1 DEF Mapped, Jobs
    <2> QED BY <1>1, <2>1, <2>2 DEF Jobs
<1>9. /\ Mapped.op = "load" /\ Mapped.slot = job.slot
      /\ Mapped.i = job.i + 1 /\ Mapped.n = job.n /\ Mapped.page = NULL
    BY <1>1 DEF Mapped, Jobs
<1> QED BY <1>2, <1>4, <1>5, <1>6, <1>7, <1>8, <1>9

\* The page in the kernel's hands is mapped: the rest of the invariant.
LEMMA MappingKeeps ==
    ASSUME MemInv, job.op = "load", job.page # NULL, job' = Mapped,
           UNCHANGED <<page_table, user_pages, live, current_proc>>,
           NEW c \in Slots, c = job.slot, NEW i \in 0 .. MaxImage - 1, i = job.i,
           TU(c, vpn1(i), vpn0(i))' # NULL,
           \A s \in Slots, v, e \in Entries :
               ~(s = c /\ v = vpn1(i) /\ e = vpn0(i)) => TU(s, v, e)' = TU(s, v, e),
           bitmap' \subseteq Pages, mem' \in [Pages -> [Entries -> Words]],
           Sound(Keys, Own, bitmap)'
    PROVE  MemInv'
<1>1. /\ job' \in Jobs /\ (job.op)' = "load" /\ (job.slot)' = c /\ (job.i)' = i + 1
      /\ (job.n)' = job.n /\ (job.page)' = NULL /\ i < job.n
    BY Mapping
<1>2. TypeOK'
    BY <1>1, MemTypes DEF TypeOK, Jobs
<1>3. JobSound'
    <2>1. i + 1 <= job.n
        BY <1>1, MemTypes
    <2>2. Built' = Built
        BY DEF Built
    <2> QED BY <1>1, <2>1, <2>2 DEF MemInv, JobSound
<1>4. WithinImage'
    BY DEF MemInv, WithinImage
<1>5. Contents'
    <2>1. \A s \in Slots : s # c => MappedPages(s)' = MappedPages(s)
        BY <1>1 DEF MappedPages
    <2>2. \A s \in Slots : s # c => MapsExactly(s)'
        BY <2>1, MapsKept DEF MemInv, Contents
    <2>3. MappedPages(c)' = MappedPages(c) \cup {i}
        <3>1. MappedPages(c)' = 0 .. (i + 1) - 1
            BY <1>1 DEF MappedPages
        <3>2. MappedPages(c) = 0 .. i - 1
            BY Mapping
        <3>3. i \in Nat
            BY VpnRange
        <3> QED BY <3>1, <3>2, <3>3
    <2>4. MapsExactly(c)
        BY Mapping
    <2>5. MapsExactly(c)'
        BY <2>3, <2>4, OneMapped
    <2> QED BY <2>2, <2>5 DEF Contents
<1>6. NoDoubleFree'
    BY <1>1 DEF NoDoubleFree
<1> QED BY <1>2, <1>3, <1>4, <1>5, <1>6 DEF MemInv

\* The second-level table exists: one entry of it is written.
LEMMA MapPageKeeps == ASSUME MemInv, map_page PROVE MemInv'
<1>1. /\ job.op = "load" /\ job.page # NULL /\ table1(job.slot)[vpn1(job.i)] # NULL
      /\ mem' = [mem EXCEPT ![table1(job.slot)[vpn1(job.i)]][vpn0(job.i)] = job.page]
      /\ job' = Mapped /\ UNCHANGED <<bitmap, page_table, user_pages, live, current_proc>>
    BY DEF map_page
<1>2. PICK c \in Slots, i \in 0 .. MaxImage - 1, p \in PageOrNull, t \in {T0(job.slot, vpn1(job.i))} :
        c = job.slot /\ i = job.i /\ p = job.page /\ t = T0(c, vpn1(i))
    BY <1>1, Mapping, MemTypes
<1> DEFINE v == vpn1(i)
           e == vpn0(i)
<1>3. i \in Nat /\ v \in Entries /\ e \in Entries
    BY VpnRange
<1> HIDE DEF v, e
<1>4. T1(c) # NULL /\ TU(c, v, e) = NULL
    BY <1>1, <1>2, Mapping DEF Built, T1, v, e
<1>5. t = table1(job.slot)[vpn1(job.i)] /\ t = T0(c, v) /\ t # NULL
    BY <1>1, <1>2, <1>4 DEF T0, T1, table1, v
<1>6. t \in bitmap /\ t \in Pages
    BY <1>3, <1>5, Distinct DEF MemInv
<1>7. mem' = [mem EXCEPT ![t][e] = p]
    BY <1>1, <1>2, <1>5 DEF e
<1>8. /\ mem'[t][e] = p /\ \A q \in bitmap : q # t => mem'[q] = mem[q]
      /\ \A f \in Entries : f # e => mem'[t][f] = mem[t][f]
    BY <1>3, <1>6, <1>7, MemTypes
<1>9. mem' \in [Pages -> [Entries -> Words]]
    <2>1. p \in Words
        BY DEF PageOrNull, Words
    <2> QED BY <1>3, <1>6, <1>7, <2>1, MemTypes
<1>10. Sound(Keys, Own, bitmap) /\ page_table' = page_table
    BY <1>1 DEF MemInv
<1>11. /\ \A s \in Slots : T1(s)' = T1(s)
       /\ \A s \in Slots, w \in Entries : T0(s, w)' = T0(s, w)
       /\ \A s \in Slots, w, f \in Entries :
             ~(s = c /\ w = v /\ f = e) => TU(s, w, f)' = TU(s, w, f)
       /\ TU(c, v, e)' = mem'[T0(c, v)][e]
    BY <1>3, <1>5, <1>8, <1>10, WriteTable0
<1>12. TU(c, v, e)' = p /\ p # NULL
    BY <1>1, <1>2, <1>5, <1>8, <1>11
<1>13. Sound(Keys, Own, bitmap)'
    <2> DEFINE k == KeyU(c, v, e)
               G == [Own EXCEPT ![KeyJ] = NULL, ![k] = Own[KeyJ]]
    <2>1. Own = [l \in Keys |-> Own[l]] /\ k \in Keys /\ KeyJ \in Keys /\ k # KeyJ
        BY <1>3, KeysAre, KeysDiffer DEF Own
    <2>2. Own[KeyJ] = p /\ Own[k] = NULL
        BY <1>2, <1>3, <1>4, OwnAt
    <2> HIDE DEF k
    <2>3. G = [l \in Keys |-> G[l]] /\ G[k] = p /\ G[KeyJ] = NULL
          /\ \A l \in Keys : l # k /\ l # KeyJ => G[l] = Own[l]
        BY <2>1, <2>2
    <2>4. Sound(Keys, G, bitmap)
        BY <1>10, <1>12, <2>1, <2>2, Hand
    <2> HIDE DEF G
    <2>5. \A s \in Slots : G[Key1(s)] = T1(s)'
        BY <1>11, <2>3, OwnAt, KeysAre, KeysDiffer DEF k
    <2>6. \A s \in Slots, w \in Entries : G[Key0(s, w)] = T0(s, w)'
        BY <1>11, <2>3, OwnAt, KeysAre, KeysDiffer DEF k
    <2>7. \A s \in Slots, w, f \in Entries : G[KeyU(s, w, f)] = TU(s, w, f)'
        BY <1>11, <1>12, <2>3, OwnAt, KeysAre, KeysDiffer DEF k
    <2>8. G[KeyJ] = (job.page)'
        BY <1>1, <2>3, Mapping
    <2>9. Own' = G
        BY <2>3, <2>5, <2>6, <2>7, <2>8, OwnBecomes
    <2> QED BY <1>1, <2>4, <2>9
<1>14. bitmap' \subseteq Pages
    BY <1>1, MemTypes
<1> QED BY <1>1, <1>2, <1>9, <1>11, <1>12, <1>13, <1>14, MappingKeeps DEF v, e

\* It does not: a new one is filled and entered in the first-level table.
LEMMA MapPageTableKeeps == ASSUME MemInv, map_page_table PROVE MemInv'
<1>1. /\ job.op = "load" /\ job.page # NULL /\ table1(job.slot)[vpn1(job.i)] = NULL
      /\ job' = Mapped /\ UNCHANGED <<page_table, user_pages, live, current_proc>>
    BY DEF map_page_table
<1>2. PICK c \in Slots, i \in 0 .. MaxImage - 1, p \in PageOrNull :
        c = job.slot /\ i = job.i /\ p = job.page
    BY <1>1, Mapping, MemTypes
<1> DEFINE v == vpn1(i)
           e == vpn0(i)
           new == [Cleared EXCEPT ![e] = p]
<1>3. i \in Nat /\ v \in Entries /\ e \in Entries
    BY VpnRange
<1>4. PICK t \in Pages :
        /\ t \notin bitmap /\ bitmap' = bitmap \cup {t}
        /\ mem' = [mem EXCEPT ![t] = new, ![T1(c)][v] = t]
    BY <1>2 DEF map_page_table, alloc_pages, FirstFit, T1
<1>5. T1(c) # NULL /\ TU(c, v, e) = NULL
    BY <1>1, <1>2, Mapping DEF Built, T1
<1> HIDE DEF v, e
<1>6. T0(c, v) = NULL
    BY <1>1, <1>2, <1>5 DEF T0, T1, table1, v
<1>7. T1(c) \in bitmap /\ T1(c) \in Pages /\ T1(c) # t /\ t # NULL /\ p # NULL
    BY <1>1, <1>2, <1>4, <1>5, Distinct, MemTypes, NullIsNoPage DEF MemInv
<1>8. new \in [Entries -> Words] /\ new[e] = p /\ \A f \in Entries : f # e => new[f] = NULL
    <2>1. p \in Words /\ NULL \in Words
        BY DEF PageOrNull, Words
    <2> QED BY <1>3, <2>1 DEF Cleared
<1> HIDE DEF new
<1>9. /\ mem'[T1(c)][v] = t /\ mem'[t] = new
      /\ \A w \in Entries : w # v => mem'[T1(c)][w] = mem[T1(c)][w]
      /\ \A q \in bitmap : q # T1(c) => mem'[q] = mem[q]
    BY <1>3, <1>4, <1>7, MemTypes
<1>10. mem' \in [Pages -> [Entries -> Words]]
    <2>1. t \in Words
        BY DEF Words
    <2> QED BY <1>3, <1>4, <1>8, <2>1, MemTypes
<1>11. Sound(Keys, Own, bitmap) /\ page_table' = page_table
    BY <1>1 DEF MemInv
<1>12. /\ \A s \in Slots : T1(s)' = T1(s)
       /\ \A s \in Slots, w \in Entries : ~(s = c /\ w = v) => T0(s, w)' = T0(s, w)
       /\ \A s \in Slots, w, f \in Entries : ~(s = c /\ w = v) => TU(s, w, f)' = TU(s, w, f)
    BY <1>9, <1>11, WriteTable1
<1>13. T0(c, v)' = t
    BY <1>5, <1>9, <1>12 DEF T0
<1>14. TU(c, v, e)' = p /\ \A f \in Entries : f # e => TU(c, v, f)' = NULL
    BY <1>3, <1>7, <1>8, <1>9, <1>13 DEF TU
<1>15. \A f \in Entries : TU(c, v, f) = NULL
    BY <1>6 DEF TU
<1>16. \A s \in Slots, w, f \in Entries :
          ~(s = c /\ w = v /\ f = e) => TU(s, w, f)' = TU(s, w, f)
    BY <1>12, <1>14, <1>15
<1>17. Sound(Keys, Own, bitmap)'
    <2> DEFINE k == KeyU(c, v, e)
               l == Key0(c, v)
               H == [Own EXCEPT ![l] = t]
               G == [H EXCEPT ![KeyJ] = NULL, ![k] = H[KeyJ]]
    <2>1. /\ Own = [m \in Keys |-> Own[m]] /\ k \in Keys /\ l \in Keys /\ KeyJ \in Keys
          /\ k # KeyJ /\ k # l /\ l # KeyJ
        BY <1>3, KeysAre, KeysDiffer DEF Own
    <2>2. Own[KeyJ] = p /\ Own[k] = NULL /\ Own[l] = NULL
        BY <1>2, <1>3, <1>5, <1>6, OwnAt
    <2> HIDE DEF k, l
    <2>3. H = [m \in Keys |-> H[m]] /\ H[l] = t /\ \A m \in Keys : m # l => H[m] = Own[m]
        BY <2>1
    <2>4. Sound(Keys, H, bitmap \cup {t})
        BY <1>4, <1>11, <2>1, <2>2, Acquire
    <2> HIDE DEF H
    <2>5. H[KeyJ] = p /\ H[k] = NULL
        BY <2>1, <2>2, <2>3
    <2>6. Sound(Keys, G, bitmap \cup {t})
        BY <1>7, <2>1, <2>4, <2>5, Hand
    <2>7. G = [m \in Keys |-> G[m]] /\ G[k] = p /\ G[KeyJ] = NULL /\ G[l] = t
          /\ \A m \in Keys : m # k /\ m # KeyJ /\ m # l => G[m] = Own[m]
        BY <2>1, <2>3, <2>5
    <2> HIDE DEF G
    <2>8. \A s \in Slots : G[Key1(s)] = T1(s)'
        BY <1>12, <2>7, OwnAt, KeysAre, KeysDiffer DEF k, l
    <2>9. \A s \in Slots, w \in Entries : G[Key0(s, w)] = T0(s, w)'
        BY <1>12, <1>13, <2>7, OwnAt, KeysAre, KeysDiffer DEF k, l
    <2>10. \A s \in Slots, w, f \in Entries : G[KeyU(s, w, f)] = TU(s, w, f)'
        BY <1>14, <1>16, <2>7, OwnAt, KeysAre, KeysDiffer DEF k, l
    <2>11. G[KeyJ] = (job.page)'
        BY <1>1, <2>7, Mapping
    <2>12. Own' = G
        BY <2>7, <2>8, <2>9, <2>10, <2>11, OwnBecomes
    <2> QED BY <1>4, <2>6, <2>12
<1>18. bitmap' \subseteq Pages
    BY <1>4, MemTypes
<1>19. TU(c, v, e)' # NULL
    BY <1>7, <1>14
<1> QED BY <1>1, <1>2, <1>10, <1>16, <1>17, <1>18, <1>19, MappingKeeps DEF v, e

\* The image is complete.
LEMMA LoadDoneKeeps == ASSUME MemInv, load_done PROVE MemInv'
<1>1. /\ job.op = "load" /\ job.page = NULL /\ job.i = job.n /\ job' = NoJob
      /\ user_pages' = [user_pages EXCEPT ![job.slot] = job.n]
      /\ live' = live \cup {job.slot} /\ UNCHANGED <<bitmap, mem, page_table, current_proc>>
    BY DEF load_done
<1>2. /\ job' \in Jobs /\ (job.op)' = "none" /\ (job.slot)' = idle_proc /\ (job.page)' = NULL
    BY <1>1, NoJobIs
<1>3. /\ job.slot \in Slots /\ job.n \in Images \cup {0}
      /\ live \subseteq Slots /\ user_pages \in [Slots -> Images \cup {0}]
    BY MemTypes DEF Jobs
<1>4. /\ user_pages' \in [Slots -> Images \cup {0}] /\ user_pages'[job.slot] = job.n
      /\ \A s \in Slots : s # job.slot => user_pages'[s] = user_pages[s]
    BY <1>1, <1>3
<1>5. JobSound'
    <2>1. Built = live \cup {job.slot} /\ \A s \in Slots \ live : user_pages[s] = 0
        BY <1>1 DEF MemInv, JobSound
    <2>2. Built' = live' /\ \A s \in Slots \ live' : user_pages'[s] = 0
        BY <1>1, <1>4, <2>1, WalksKept
    <2> QED BY <1>2, <2>2 DEF JobSound
<1>6. \A s \in Slots : MappedPages(s)' = MappedPages(s)
    BY <1>1, <1>2, <1>4 DEF MappedPages
<1> QED BY <1>1, <1>2, <1>3, <1>4, <1>5, <1>6, MemTypes, JobMoves

\* All user pages are freed.
LEMMA FreeDoneKeeps == ASSUME MemInv, free_user_done PROVE MemInv'
<1>1. /\ job.op = "free_user" /\ job.i >= user_pages[job.slot]
      /\ user_pages' = [user_pages EXCEPT ![job.slot] = 0]
      /\ job' = [job EXCEPT !.op = job.then, !.i = 0]
      /\ UNCHANGED <<bitmap, mem, page_table, live, current_proc>>
    BY DEF free_user_done
<1>2. /\ job \in Jobs /\ job.slot \in Slots /\ job.i \in Nat /\ job.n \in Nat
      /\ user_pages \in [Slots -> Images \cup {0}] /\ user_pages[job.slot] \in Nat
    BY MemTypes
<1>3. /\ job.slot \in live /\ Built = live /\ job.page = NULL
      /\ job.then \in {"load", "free_tables"} /\ job.i <= user_pages[job.slot]
      /\ \A s \in Slots \ live : user_pages[s] = 0
    BY <1>1 DEF MemInv, JobSound
<1>4. job' \in Jobs
    <2>1. job.then \in Ops /\ 0 \in Nat
        BY <1>3 DEF Ops
    <2> QED BY <1>1, <1>2, <2>1 DEF Jobs
<1>5. /\ (job.op)' = job.then /\ (job.slot)' = job.slot /\ (job.i)' = 0 /\ (job.n)' = job.n
      /\ (job.page)' = job.page
    BY <1>1, <1>2 DEF Jobs
<1>6. /\ user_pages' \in [Slots -> Images \cup {0}] /\ user_pages'[job.slot] = 0
      /\ \A s \in Slots : s # job.slot => user_pages'[s] = user_pages[s]
    BY <1>1, <1>2
<1>7. JobSound'
    <2>1. Built' = live' /\ job.slot \in live' /\ 0 <= job.n
        BY <1>1, <1>2, <1>3, WalksKept
    <2>2. \A s \in Slots \ live' : user_pages'[s] = 0
        BY <1>1, <1>3, <1>6
    <2> QED BY <1>3, <1>5, <1>6, <2>1, <2>2 DEF JobSound
<1>8. \A s \in Slots : MappedPages(s)' = MappedPages(s)
    <2> SUFFICES ASSUME NEW s \in Slots PROVE MappedPages(s)' = MappedPages(s)
        OBVIOUS
    <2>1. CASE s = job.slot
        <3>1. MappedPages(s) = {}
            BY <1>1, <1>2, <1>3, <2>1 DEF MappedPages
        <3>2. 0 .. 0 - 1 = {}
            OBVIOUS
        <3>3. MappedPages(s)' = 0 .. 0 - 1
            BY <1>3, <1>5, <1>6, <2>1 DEF MappedPages
        <3> QED BY <3>1, <3>2, <3>3
    <2>2. CASE s # job.slot
        BY <1>1, <1>5, <1>6, <2>2 DEF MappedPages
    <2> QED BY <2>1, <2>2
<1>9. (job.op)' # "double_free"
    BY <1>3, <1>5
<1> QED BY <1>1, <1>4, <1>5, <1>6, <1>7, <1>8, <1>9, MemTypes, JobMoves

\* One user page is freed: it was mapped, and nobody else names it, so its
\* bit was set.
LEMMA FreeUserKeeps == ASSUME MemInv, free_user_page PROVE MemInv'
<1>1. PICK c \in Slots, i \in Nat, t \in {table1(job.slot)[vpn1(job.i)]}, p \in {UserPage(job.slot, job.i)} :
        /\ c = job.slot /\ i = job.i /\ t = table1(job.slot)[vpn1(job.i)]
        /\ p = UserPage(job.slot, job.i)
    BY MemTypes
<1> DEFINE next == [job EXCEPT !.i = @ + 1]
           v == vpn1(i)
           e == vpn0(i)
<1>2. /\ job.op = "free_user" /\ i < user_pages[c]
      /\ UNCHANGED <<page_table, user_pages, live, current_proc>>
      /\ IF p = NULL
           THEN bitmap' = bitmap /\ mem' = mem /\ job' = next
           ELSE free_pages(p, next) /\ mem' = [mem EXCEPT ![t][e] = NULL]
    BY <1>1 DEF free_user_page
<1>3. i \in 0 .. MaxImage - 1 /\ user_pages[c] \in Nat
    <2>1. user_pages[c] \in Nat /\ user_pages[c] <= MaxImage
        BY MemTypes
    <2> QED BY <1>2, <2>1, MaxImageBound
<1>4. v \in Entries /\ e \in Entries
    BY <1>3, VpnRange
<1>5. /\ c \in Built /\ job.page = NULL /\ Sound(Keys, Own, bitmap) /\ MapsExactly(c)
      /\ page_table' = page_table
    BY <1>1, <1>2 DEF MemInv, JobSound, Contents
<1>6. MappedPages(c) = i .. user_pages[c] - 1 /\ MappedPages(c) \subseteq Nat
    BY <1>1, <1>2, <1>3 DEF MappedPages
<1>7. T1(c) # NULL /\ TU(c, v, e) # NULL
    <2>1. i \in MappedPages(c)
        BY <1>2, <1>3, <1>6
    <2> QED BY <1>3, <1>5, <1>6, <2>1, IsMapped DEF Built, T1
<1>8. t = T0(c, v) /\ p = TU(c, v, e) /\ t # NULL /\ p # NULL
    BY <1>1, <1>7 DEF T1, T0, TU, UserPage, table1, table0
<1> HIDE DEF v, e
<1> DEFINE k == KeyU(c, v, e)
           G == [Own EXCEPT ![k] = NULL]
<1>9. Own = [l \in Keys |-> Own[l]] /\ k \in Keys /\ Own[k] = p
    BY <1>4, <1>8, KeysAre, OwnAt DEF Own
<1> HIDE DEF k
<1>10. Sound(Keys, G, bitmap \ {p}) /\ p \in bitmap
    BY <1>5, <1>8, <1>9, Release
<1>11. bitmap' = bitmap \ {p} /\ job' = next /\ mem' = [mem EXCEPT ![t][e] = NULL]
    BY <1>2, <1>8, <1>10 DEF free_pages
<1>12. t \in bitmap /\ t \in Pages
    BY <1>4, <1>5, <1>8, Distinct
<1>13. /\ mem'[t][e] = NULL /\ \A q \in bitmap : q # t => mem'[q] = mem[q]
       /\ \A f \in Entries : f # e => mem'[t][f] = mem[t][f]
    BY <1>4, <1>11, <1>12, MemTypes
<1>14. mem' \in [Pages -> [Entries -> Words]]
    <2>1. NULL \in Words
        BY DEF Words
    <2> QED BY <1>4, <1>11, <1>12, <2>1, MemTypes
<1>15. /\ \A s \in Slots : T1(s)' = T1(s)
       /\ \A s \in Slots, w \in Entries : T0(s, w)' = T0(s, w)
       /\ \A s \in Slots, w, f \in Entries :
             ~(s = c /\ w = v /\ f = e) => TU(s, w, f)' = TU(s, w, f)
       /\ TU(c, v, e)' = NULL
    BY <1>4, <1>5, <1>8, <1>13, WriteTable0
<1>16. job' \in Jobs /\ (job.op)' = "free_user" /\ (job.slot)' = c /\ (job.i)' = i + 1
       /\ (job.page)' = NULL /\ (job.then)' = job.then
    <2>1. job \in Jobs /\ i + 1 \in Nat
        BY MemTypes
    <2>2. job' = [job EXCEPT !.i = i + 1]
        BY <1>1, <1>11, <2>1 DEF Jobs
    <2>3. job' \in Jobs
        BY <2>1, <2>2 DEF Jobs
    <2>4. /\ (job.op)' = "free_user" /\ (job.slot)' = c /\ (job.i)' = i + 1
          /\ (job.page)' = NULL /\ (job.then)' = job.then
        BY <1>1, <1>2, <1>5, <2>1, <2>2 DEF Jobs
    <2> QED BY <2>3, <2>4
<1>17. TypeOK'
    BY <1>2, <1>11, <1>14, <1>16, MemTypes DEF TypeOK, Jobs
<1>18. Sound(Keys, Own, bitmap)'
    <2>1. G = [l \in Keys |-> G[l]] /\ G[k] = NULL
          /\ \A l \in Keys : l # k => G[l] = Own[l]
        BY <1>9
    <2> HIDE DEF G
    <2>2. \A s \in Slots : G[Key1(s)] = T1(s)'
        BY <1>15, <2>1, OwnAt, KeysAre, KeysDiffer DEF k
    <2>3. \A s \in Slots, w \in Entries : G[Key0(s, w)] = T0(s, w)'
        BY <1>15, <2>1, OwnAt, KeysAre, KeysDiffer DEF k
    <2>4. \A s \in Slots, w, f \in Entries : G[KeyU(s, w, f)] = TU(s, w, f)'
        BY <1>15, <2>1, OwnAt, KeysAre, KeysDiffer DEF k
    <2>5. G[KeyJ] = (job.page)'
        BY <1>5, <1>16, <2>1, OwnAt, KeysAre, KeysDiffer DEF k
    <2>6. Own' = G
        BY <2>1, <2>2, <2>3, <2>4, <2>5, OwnBecomes
    <2> QED BY <1>10, <1>11, <2>6 DEF G
<1>19. JobSound'
    <2>1. i + 1 <= user_pages[c]
        BY <1>2, <1>3
    <2>2. Built' = Built
        BY <1>5 DEF Built
    <2> QED BY <1>1, <1>2, <1>16, <2>1, <2>2 DEF MemInv, JobSound
<1>20. WithinImage'
    BY <1>15, WithinKept DEF MemInv
<1>21. Contents'
    <2>1. \A s \in Slots : s # c => MappedPages(s)' = MappedPages(s)
        BY <1>1, <1>2, <1>16 DEF MappedPages
    <2>2. \A s \in Slots : MapsExactly(s)
        BY <1>2 DEF MemInv, Contents
    <2>3. \A s \in Slots : s # c => MapsExactly(s)'
        BY <1>15, <2>1, <2>2, MapsKept
    <2>4. MappedPages(c)' = MappedPages(c) \ {i}
        <3>1. MappedPages(c)' = i + 1 .. user_pages[c] - 1
            BY <1>2, <1>16 DEF MappedPages
        <3> QED BY <1>3, <1>6, <3>1
    <2>5. MapsExactly(c)'
        BY <1>3, <1>5, <1>6, <1>15, <2>4, OneUnmapped DEF v, e
    <2> QED BY <2>3, <2>5 DEF Contents
<1>22. NoDoubleFree'
    BY <1>16 DEF NoDoubleFree
<1> QED BY <1>17, <1>18, <1>19, <1>20, <1>21, <1>22 DEF MemInv

\* A recycled slot has no user page left, so a table of the second level names
\* nothing when it is freed ...
LEMMA FreeTable0Keeps == ASSUME MemInv, free_table0 PROVE MemInv'
<1>0. PICK c \in Slots : c = job.slot
    BY MemTypes
<1>1. /\ job.op = "free_tables" /\ UNCHANGED <<page_table, user_pages, live, current_proc>>
    BY DEF free_table0
<1>2. PICK v \in Tables0 :
        /\ free_pages(table1(c)[v], job)
        /\ mem' = [mem EXCEPT ![page_table[c]][v] = NULL]
    BY <1>0 DEF free_table0
<1>3. /\ c \in Built /\ job.page = NULL /\ Sound(Keys, Own, bitmap) /\ MapsExactly(c)
      /\ user_pages[c] = 0 /\ page_table' = page_table
    BY <1>0, <1>1 DEF MemInv, JobSound, Contents
<1>4. T1(c) # NULL /\ v \in Entries /\ T0(c, v) # NULL /\ T0(c, v) = table1(c)[v]
    BY <1>0, <1>2, <1>3 DEF Built, T1, T0, table1, Tables0
<1>5. \A w, e \in Entries : TU(c, w, e) = NULL
    <2>1. MappedPages(c) = {}
        BY <1>0, <1>1, <1>3 DEF MappedPages
    <2> QED BY <1>3, <2>1 DEF MapsExactly
<1> DEFINE k == Key0(c, v)
           G == [Own EXCEPT ![k] = NULL]
           p == T0(c, v)
<1>6. Own = [l \in Keys |-> Own[l]] /\ k \in Keys /\ Own[k] = p
    BY <1>4, KeysAre, OwnAt DEF Own
<1> HIDE DEF k
<1>7. Sound(Keys, G, bitmap \ {p}) /\ p \in bitmap
    BY <1>3, <1>4, <1>6, Release
<1>8. bitmap' = bitmap \ {p} /\ job' = job /\ mem' = [mem EXCEPT ![T1(c)][v] = NULL]
    BY <1>2, <1>4, <1>7 DEF free_pages, T1
<1>9. T1(c) \in bitmap /\ T1(c) \in Pages
    BY <1>3, <1>4, Distinct
<1>10. /\ mem'[T1(c)][v] = NULL
       /\ \A w \in Entries : w # v => mem'[T1(c)][w] = mem[T1(c)][w]
       /\ \A q \in bitmap : q # T1(c) => mem'[q] = mem[q]
    BY <1>4, <1>8, <1>9, MemTypes
<1>11. mem' \in [Pages -> [Entries -> Words]]
    <2>1. NULL \in Words
        BY DEF Words
    <2> QED BY <1>4, <1>8, <1>9, <2>1, MemTypes
<1>12. /\ \A s \in Slots : T1(s)' = T1(s)
       /\ \A s \in Slots, w \in Entries : ~(s = c /\ w = v) => T0(s, w)' = T0(s, w)
       /\ \A s \in Slots, w, f \in Entries : ~(s = c /\ w = v) => TU(s, w, f)' = TU(s, w, f)
    BY <1>3, <1>10, WriteTable1
<1>13. T0(c, v)' = NULL
    BY <1>4, <1>10, <1>12 DEF T0
<1>14. \A s \in Slots, w, f \in Entries : TU(s, w, f)' = TU(s, w, f)
    <2>1. \A f \in Entries : TU(c, v, f)' = NULL
        BY <1>13 DEF TU
    <2> QED BY <1>4, <1>5, <1>12, <2>1
<1>15. TypeOK'
    BY <1>1, <1>8, <1>11, MemTypes DEF TypeOK, Jobs
<1>16. Sound(Keys, Own, bitmap)'
    <2>1. G = [l \in Keys |-> G[l]] /\ G[k] = NULL
          /\ \A l \in Keys : l # k => G[l] = Own[l]
        BY <1>6
    <2> HIDE DEF G
    <2>2. \A s \in Slots : G[Key1(s)] = T1(s)'
        BY <1>12, <2>1, OwnAt, KeysAre, KeysDiffer DEF k
    <2>3. \A s \in Slots, w \in Entries : G[Key0(s, w)] = T0(s, w)'
        BY <1>12, <1>13, <2>1, OwnAt, KeysAre, KeysDiffer DEF k
    <2>4. \A s \in Slots, w, f \in Entries : G[KeyU(s, w, f)] = TU(s, w, f)'
        BY <1>14, <2>1, OwnAt, KeysAre, KeysDiffer DEF k
    <2>5. G[KeyJ] = (job.page)'
        BY <1>8, <2>1, OwnAt, KeysAre, KeysDiffer DEF k
    <2>6. Own' = G
        BY <2>1, <2>2, <2>3, <2>4, <2>5, OwnBecomes
    <2> QED BY <1>7, <1>8, <2>6 DEF G
<1>17. JobSound'
    BY <1>1, <1>8 DEF MemInv, JobSound, Built
<1>18. WithinImage'
    BY <1>14, WithinKept DEF MemInv
<1>19. Contents'
    <2>1. \A s \in Slots : MappedPages(s)' = MappedPages(s)
        BY <1>1, <1>8 DEF MappedPages
    <2>2. \A s \in Slots : MapsExactly(s)
        BY <1>1 DEF MemInv, Contents
    <2>3. \A s \in Slots : MapsExactly(s)'
        BY <1>14, <2>1, <2>2, MapsKept
    <2> QED BY <2>3 DEF Contents
<1>20. NoDoubleFree'
    BY <1>1, <1>8 DEF NoDoubleFree
<1> QED BY <1>15, <1>16, <1>17, <1>18, <1>19, <1>20 DEF MemInv

\* ... and the first-level table when it is freed last.
LEMMA FreeTable1Keeps == ASSUME MemInv, free_table1 PROVE MemInv'
<1>0. PICK c \in Slots : c = job.slot
    BY MemTypes
<1>1. /\ job.op = "free_tables" /\ Tables0 = {} /\ free_pages(page_table[c], NoJob)
      /\ page_table' = [page_table EXCEPT ![c] = NULL] /\ live' = live \ {c}
      /\ UNCHANGED <<mem, user_pages, current_proc>>
    BY <1>0 DEF free_table1
<1>2. /\ Built = live /\ c \in live /\ job.page = NULL /\ Sound(Keys, Own, bitmap)
      /\ user_pages[c] = 0 /\ \A s \in Slots \ live : user_pages[s] = 0
    BY <1>0, <1>1 DEF MemInv, JobSound
<1>3. T1(c) # NULL /\ \A v, e \in Entries : T0(c, v) = NULL /\ TU(c, v, e) = NULL
    BY <1>0, <1>1, <1>2 DEF Built, T1, T0, TU, Tables0, table1
<1> DEFINE k == Key1(c)
           G == [Own EXCEPT ![k] = NULL]
           p == T1(c)
<1>4. Own = [l \in Keys |-> Own[l]] /\ k \in Keys /\ Own[k] = p
    BY KeysAre, OwnAt DEF Own
<1> HIDE DEF k
<1>5. Sound(Keys, G, bitmap \ {p}) /\ p \in bitmap
    BY <1>2, <1>3, <1>4, Release
<1>6. bitmap' = bitmap \ {p} /\ job' = NoJob
    BY <1>1, <1>5 DEF free_pages, T1
<1>7. /\ job' \in Jobs /\ (job.op)' = "none" /\ (job.slot)' = idle_proc /\ (job.page)' = NULL
    BY <1>6, NoJobIs
<1>8. T1(c)' = NULL /\ \A s \in Slots : s # c => T1(s)' = T1(s)
    BY <1>1, MemTypes DEF T1
<1>9. \A s \in Slots, v \in Entries : T0(s, v)' = T0(s, v)
    BY <1>1, <1>3, <1>8 DEF T0
<1>10. \A s \in Slots, v, e \in Entries : TU(s, v, e)' = TU(s, v, e)
    BY <1>1, <1>9 DEF TU
<1>11. TypeOK'
    <2>1. page_table' \in [Slots -> PageOrNull]
        BY <1>1, MemTypes, NullIsNoPage
    <2>2. bitmap' \subseteq Pages /\ live' \subseteq Slots
        BY <1>1, <1>6, MemTypes
    <2> QED BY <1>1, <1>7, <2>1, <2>2, MemTypes DEF TypeOK, Jobs
<1>12. Sound(Keys, Own, bitmap)'
    <2>1. G = [l \in Keys |-> G[l]] /\ G[k] = NULL
          /\ \A l \in Keys : l # k => G[l] = Own[l]
        BY <1>4
    <2> HIDE DEF G
    <2>2. \A s \in Slots : G[Key1(s)] = T1(s)'
        BY <1>8, <2>1, OwnAt, KeysAre, KeysDiffer DEF k
    <2>3. \A s \in Slots, w \in Entries : G[Key0(s, w)] = T0(s, w)'
        BY <1>9, <2>1, OwnAt, KeysAre, KeysDiffer DEF k
    <2>4. \A s \in Slots, w, f \in Entries : G[KeyU(s, w, f)] = TU(s, w, f)'
        BY <1>10, <2>1, OwnAt, KeysAre, KeysDiffer DEF k
    <2>5. G[KeyJ] = (job.page)'
        BY <1>2, <1>7, <2>1, OwnAt, KeysAre, KeysDiffer DEF k
    <2>6. Own' = G
        BY <2>1, <2>2, <2>3, <2>4, <2>5, OwnBecomes
    <2> QED BY <1>5, <1>6, <2>6 DEF G
<1>13. JobSound'
    <2>1. Built' = live'
        BY <1>1, <1>2, MemTypes DEF Built
    <2>2. \A s \in Slots \ live' : user_pages'[s] = 0
        BY <1>1, <1>2
    <2> QED BY <1>7, <2>1, <2>2 DEF JobSound
<1>14. WithinImage'
    BY <1>10, WithinKept DEF MemInv
<1>15. Contents'
    <2>1. \A s \in Slots : MappedPages(s)' = MappedPages(s)
        BY <1>1, <1>7 DEF MappedPages
    <2>2. \A s \in Slots : MapsExactly(s)
        BY <1>1 DEF MemInv, Contents
    <2>3. \A s \in Slots : MapsExactly(s)'
        BY <1>10, <2>1, <2>2, MapsKept
    <2> QED BY <2>3 DEF Contents
<1>16. NoDoubleFree'
    BY <1>7 DEF NoDoubleFree
<1> QED BY <1>11, <1>12, <1>13, <1>14, <1>15, <1>16 DEF MemInv

LEMMA MemNext == ASSUME MemInv, [Next]_vars PROVE MemInv'
<1>1. CASE UNCHANGED vars
    <2>1. UNCHANGED <<bitmap, mem, page_table, user_pages, live, current_proc, job>>
        BY <1>1 DEF vars
    <2>2. Own' = Own
        BY <2>1 DEF Own, T1, T0, TU
    <2>3. WithinImage' /\ Contents' /\ JobSound'
        BY <2>1 DEF MemInv, WithinImage, Contents, MapsExactly, MappedPages, JobSound, Built,
               T1, T0, TU
    <2> QED BY <2>1, <2>2, <2>3 DEF MemInv, TypeOK, NoDoubleFree
<1>2. CASE Panicked
    BY <1>1, <1>2 DEF Panicked
<1> QED BY <1>1, <1>2, CallsKeep, MapKernelKeeps, MapKernelDoneKeeps, LoadPageKeeps,
           MapPageKeeps, MapPageTableKeeps, LoadDoneKeeps, FreeUserKeeps, FreeDoneKeeps,
           FreeTable0Keeps, FreeTable1Keeps, OutOfMemoryKeeps DEF Next, JobStep

LEMMA MemInvariant == Spec => []MemInv
BY MemInit, MemNext, PTL DEF Spec

-----------------------------------------------------------------------------
(* The properties.                                                         *)

\* A walk to a user page, in the words of the model.
LEMMA WalkIs ==
    ASSUME NEW s \in Slots, page_table[s] # NULL, NEW i
    PROVE  UserPage(s, i) = TU(s, vpn1(i), vpn0(i))
BY DEF UserPage, TU, T0, T1, table1, table0

\* A live process has exactly the pages of its image mapped, for every
\* sequence of fork, exec, exit and recycling and wherever memory ran out.
THEOREM ImageSafe == Spec => []ImageMapped
<1>1. ASSUME MemInv PROVE ImageMapped
    <2> SUFFICES ASSUME NEW s \in live, job.op = "none" \/ job.slot # s,
                        NEW i \in 0 .. MaxImage - 1
                 PROVE  UserPage(s, i) # NULL <=> i < user_pages[s]
        BY DEF ImageMapped
    <2>1. s \in Slots /\ user_pages[s] \in Nat /\ i \in Nat
        BY <1>1, MemTypes, MaxImageBound
    <2>2. MapsExactly(s) /\ MappedPages(s) = 0 .. user_pages[s] - 1
        BY <1>1, <2>1 DEF MemInv, Contents, MappedPages
    <2>3. TU(s, vpn1(i), vpn0(i)) # NULL <=> i < user_pages[s]
        <3>1. MappedPages(s) \subseteq Nat
            BY <2>1, <2>2
        <3>2. TU(s, vpn1(i), vpn0(i)) # NULL <=> i \in MappedPages(s)
            BY <2>1, <2>2, <3>1, IsMapped
        <3> QED BY <2>1, <2>2, <3>2
    <2>4. page_table[s] # NULL
        BY <1>1 DEF MemInv, JobSound, Built
    <2> QED BY <2>1, <2>3, <2>4, WalkIs
<1> QED BY <1>1, MemInvariant, PTL

\* The uses of the model, by kind.
Use1(s) == <<"table1", s, 0>>
Use0(s, v) == <<"table0", s, v>>
UseU(s, i) == <<"user", s, i>>
UseJ == <<"job", job.slot, 0>>

LEMMA UsesAre ==
    ASSUME NEW u
    PROVE  u \in Uses <=>
              \/ \E s \in Built : u = Use1(s)
              \/ \E s \in Built, v \in Entries : u = Use0(s, v) /\ table1(s)[v] # NULL
              \/ \E s \in Built, i \in 0 .. MaxImage - 1 : u = UseU(s, i) /\ UserPage(s, i) # NULL
              \/ u = UseJ /\ job.page # NULL
<1>1. u \in {<<"table1", s, 0>> : s \in Built} <=> \E s \in Built : u = Use1(s)
    BY DEF Use1
<1>2. u \in {w \in {"table0"} \X Built \X Entries : table1(w[2])[w[3]] # NULL} <=>
        \E s \in Built, v \in Entries : u = Use0(s, v) /\ table1(s)[v] # NULL
    BY DEF Use0
<1>3. u \in {w \in {"user"} \X Built \X (0 .. MaxImage - 1) : UserPage(w[2], w[3]) # NULL} <=>
        \E s \in Built, i \in 0 .. MaxImage - 1 : u = UseU(s, i) /\ UserPage(s, i) # NULL
    BY DEF UseU
<1>4. u \in {w \in {<<"job", job.slot, 0>>} : job.page # NULL} <=> u = UseJ /\ job.page # NULL
    BY DEF UseJ
<1> QED BY <1>1, <1>2, <1>3, <1>4 DEF Uses

LEMMA PageOfUses ==
    /\ \A s : PageOf(Use1(s)) = page_table[s]
    /\ \A s, v : PageOf(Use0(s, v)) = table1(s)[v]
    /\ \A s, i : PageOf(UseU(s, i)) = UserPage(s, i)
    /\ PageOf(UseJ) = job.page
<1>1. \A s : PageOf(Use1(s)) = page_table[s]
    BY DEF PageOf, Use1
<1>2. \A s, v : PageOf(Use0(s, v)) = table1(s)[v]
    BY DEF PageOf, Use0
<1>3. \A s, i : PageOf(UseU(s, i)) = UserPage(s, i)
    BY DEF PageOf, UseU
<1>4. PageOf(UseJ) = job.page
    BY DEF PageOf, UseJ
<1> QED BY <1>1, <1>2, <1>3, <1>4

\* The place a use names its page from.
KeyOf(u) ==
    IF u[1] = "table1" THEN Key1(u[2])
    ELSE IF u[1] = "table0" THEN Key0(u[2], u[3])
    ELSE IF u[1] = "user" THEN KeyU(u[2], vpn1(u[3]), vpn0(u[3]))
    ELSE KeyJ

LEMMA KeyOfUses ==
    /\ \A s : KeyOf(Use1(s)) = Key1(s)
    /\ \A s, v : KeyOf(Use0(s, v)) = Key0(s, v)
    /\ \A s, i : KeyOf(UseU(s, i)) = KeyU(s, vpn1(i), vpn0(i))
    /\ KeyOf(UseJ) = KeyJ
BY DEF KeyOf, Use1, Use0, UseU, UseJ

LEMMA UseNamed ==
    ASSUME NEW u \in Uses
    PROVE  KeyOf(u) \in Keys /\ Own[KeyOf(u)] = PageOf(u) /\ PageOf(u) # NULL
<1>1. \A s \in Built : s \in Slots /\ page_table[s] # NULL
    BY DEF Built
<1>2. CASE \E s \in Built : u = Use1(s)
    <2>1. PICK s \in Built : u = Use1(s)
        BY <1>2
    <2>2. KeyOf(u) = Key1(s) /\ PageOf(u) = T1(s) /\ T1(s) # NULL
        BY <1>1, <2>1, KeyOfUses, PageOfUses DEF T1
    <2> QED BY <1>1, <2>2, KeysAre, OwnAt
<1>3. CASE \E s \in Built, v \in Entries : u = Use0(s, v) /\ table1(s)[v] # NULL
    <2>1. PICK s \in Built, v \in Entries : u = Use0(s, v) /\ table1(s)[v] # NULL
        BY <1>3
    <2>2. KeyOf(u) = Key0(s, v) /\ PageOf(u) = T0(s, v) /\ T0(s, v) # NULL
        BY <1>1, <2>1, KeyOfUses, PageOfUses DEF T0, T1, table1
    <2> QED BY <1>1, <2>2, KeysAre, OwnAt
<1>4. CASE \E s \in Built, i \in 0 .. MaxImage - 1 : u = UseU(s, i) /\ UserPage(s, i) # NULL
    <2>1. PICK s \in Built, i \in 0 .. MaxImage - 1 : u = UseU(s, i) /\ UserPage(s, i) # NULL
        BY <1>4
    <2>2. vpn1(i) \in Entries /\ vpn0(i) \in Entries
        BY VpnRange
    <2>3. /\ KeyOf(u) = KeyU(s, vpn1(i), vpn0(i)) /\ PageOf(u) = TU(s, vpn1(i), vpn0(i))
          /\ PageOf(u) # NULL
        BY <1>1, <2>1, KeyOfUses, PageOfUses, WalkIs
    <2> QED BY <1>1, <2>2, <2>3, KeysAre, OwnAt
<1>5. CASE u = UseJ /\ job.page # NULL
    BY <1>5, KeyOfUses, PageOfUses, KeysAre, OwnAt
<1> QED BY <1>2, <1>3, <1>4, <1>5, UsesAre

LEMMA UseByKey ==
    ASSUME NEW u \in Uses, NEW w \in Uses, KeyOf(u) = KeyOf(w)
    PROVE  u = w
<1>1. CASE \E s \in Built : u = Use1(s)
    <2>1. PICK s : u = Use1(s) /\ KeyOf(w) = Key1(s)
        BY <1>1, KeyOfUses
    <2> QED BY <2>1, KeyOfUses, KeysDiffer, UsesAre
<1>2. CASE \E s \in Built, v \in Entries : u = Use0(s, v)
    <2>1. PICK s, v : u = Use0(s, v) /\ KeyOf(w) = Key0(s, v)
        BY <1>2, KeyOfUses
    <2> QED BY <2>1, KeyOfUses, KeysDiffer, UsesAre
<1>3. CASE \E s \in Built, i \in 0 .. MaxImage - 1 : u = UseU(s, i)
    <2>1. PICK s \in Built, i \in 0 .. MaxImage - 1 :
            u = UseU(s, i) /\ KeyOf(w) = KeyU(s, vpn1(i), vpn0(i))
        BY <1>3, KeyOfUses
    <2>2. PICK t \in Built, j \in 0 .. MaxImage - 1 : w = UseU(t, j)
        BY <2>1, KeyOfUses, KeysDiffer, UsesAre
    <2>3. t = s /\ vpn1(i) = vpn1(j) /\ vpn0(i) = vpn0(j)
        BY <2>1, <2>2, KeyOfUses, KeysDiffer
    <2>4. i \in Nat /\ j \in Nat
        BY VpnRange
    <2>5. i = j
        BY <2>3, <2>4, VpnInjective
    <2> QED BY <2>1, <2>2, <2>3, <2>5
<1>4. CASE u = UseJ
    <2>1. KeyOf(w) = KeyJ
        BY <1>4, KeyOfUses
    <2>2. /\ \A s : w # Use1(s)
          /\ \A s, v : w # Use0(s, v)
          /\ \A s, i : w # UseU(s, i)
        BY <2>1, KeyOfUses, KeysDiffer
    <2> QED BY <1>4, <2>2, UsesAre
<1> QED BY <1>1, <1>2, <1>3, <1>4, UsesAre

LEMMA KeyUsed ==
    ASSUME MemInv, NEW k \in Keys, Own[k] # NULL
    PROVE  \E u \in Uses : PageOf(u) = Own[k]
<1>1. \A s \in Slots : T1(s) # NULL => s \in Built
    BY DEF T1, Built
<1>2. CASE \E s \in Slots : k = Key1(s)
    <2>1. PICK s \in Slots : k = Key1(s)
        BY <1>2
    <2>2. s \in Built /\ Own[k] = page_table[s]
        BY <1>1, <2>1, OwnAt DEF T1
    <2> QED BY <2>2, UsesAre, PageOfUses
<1>3. CASE \E s \in Slots, v \in Entries : k = Key0(s, v)
    <2>1. PICK s \in Slots, v \in Entries : k = Key0(s, v)
        BY <1>3
    <2>2. s \in Built /\ Own[k] = table1(s)[v]
        BY <1>1, <2>1, OwnAt DEF T0, T1, table1
    <2> QED BY <2>2, UsesAre, PageOfUses
<1>4. CASE \E s \in Slots, v, e \in Entries : k = KeyU(s, v, e)
    <2>1. PICK s \in Slots, v \in Entries, e \in Entries : k = KeyU(s, v, e)
        BY <1>4
    <2>2. TU(s, v, e) # NULL /\ Own[k] = TU(s, v, e)
        BY <2>1, OwnAt
    <2>3. PICK i \in 0 .. MaxImage - 1 : v = vpn1(i) /\ e = vpn0(i)
        BY <2>2 DEF MemInv, WithinImage
    <2>4. s \in Built
        BY <1>1, <2>2 DEF TU, T0
    <2>5. UserPage(s, i) = Own[k]
        BY <2>2, <2>3, <2>4, WalkIs DEF Built
    <2> QED BY <2>4, <2>5, UsesAre, PageOfUses
<1>5. CASE k = KeyJ
    <2>1. Own[k] = job.page
        BY <1>5, OwnAt
    <2> QED BY <2>1, UsesAre, PageOfUses
<1> QED BY <1>2, <1>3, <1>4, <1>5, KeyCases

\* Every page has one owner or is free, at every step of every operation, and
\* free_pages never finds a clear bit, for every number of pages, slots, table
\* entries and programs (alloc_pages, free_pages, map_page, create_process,
\* process_fork, process_exec, free_process_memory).
THEOREM PagesSafe == Spec => []PagesSound
<1>1. ASSUME MemInv PROVE PagesSound
    <2>1. /\ \A k, l \in Keys : Own[k] = Own[l] /\ Own[k] # NULL => k = l
          /\ Own \in [Keys -> PageOrNull] /\ bitmap \subseteq Pages
          /\ \A p \in Pages : p \in bitmap <=> \E k \in Keys : Own[k] = p
        BY <1>1 DEF MemInv, Sound
    <2>2. OneOwner
        <3> SUFFICES ASSUME NEW u \in Uses, NEW w \in Uses, PageOf(u) = PageOf(w) PROVE u = w
            BY DEF OneOwner
        <3>1. KeyOf(u) = KeyOf(w)
            BY <2>1, UseNamed
        <3> QED BY <3>1, UseByKey
    <2>3. ASSUME NEW u \in Uses PROVE PageOf(u) \in bitmap
        <3>1. KeyOf(u) \in Keys /\ Own[KeyOf(u)] = PageOf(u) /\ PageOf(u) # NULL
            BY UseNamed
        <3>2. PageOf(u) \in Pages
            BY <2>1, <3>1 DEF PageOrNull
        <3> QED BY <2>1, <3>1, <3>2
    <2>4. ASSUME NEW p \in bitmap PROVE \E u \in Uses : PageOf(u) = p
        <3>1. PICK k \in Keys : Own[k] = p
            BY <2>1
        <3>2. p # NULL
            BY <2>1, NullIsNoPage
        <3> QED BY <1>1, <3>1, <3>2, KeyUsed
    <2>5. NoLeak
        BY <2>3, <2>4 DEF NoLeak
    <2> QED BY <1>1, <2>2, <2>5 DEF MemInv, PagesSound
<1> QED BY <1>1, MemInvariant, PTL
=============================================================================
