---------------------------- MODULE ProcfsProofs ----------------------------
(***************************************************************************)
(* Proof that /proc tells the truth, for every number of slots and         *)
(* descriptors and every set of programs and directories.                  *)
(*                                                                         *)
(* ProcTellsTruth is not inductive.  A parent that is woken by its child's *)
(* death gets a new status file although nobody makes its directory again, *)
(* so a live process must have one; a process that were its own parent     *)
(* would be woken by its own death and its file would not say EXIT; and a  *)
(* record of the table must never look like a missing or an empty file.    *)
(* All of it relates what the table and /proc say of ONE process, which is *)
(* Row; the open descriptors are what relates two.                         *)
(***************************************************************************)
EXTENDS Procfs, TLAPS

Sizes == Pids \subseteq Nat \ {0} /\ InitPid \in Pids /\ "shell" \in Apps /\ "/" \in Dirs

Live(r) == r.state \notin {"UNUSED", "NO FILE", "EMPTY FILE"}

\* Process p with table entry r and file s: what the file may say.
Fresh(r, s) ==
    /\ s.name = r.name /\ s.cwd = r.cwd
    /\ (r.state = "WAIT" /\ r.reason = "CONSOLE_INPUT") \/
          (s.state = r.state /\ s.reason = r.reason)
    /\ s.ppid \in {0, r.ppid} \/ r.ppid = 0

\* Process p with table entry r, file s, directory d and last sync missed m.
\* A live process has its directory and is not its own parent.
Row(p, r, s, d, m) ==
    /\ r \in Records /\ r.state \notin {"NO FILE", "EMPTY FILE"} /\ r.ppid # p
    /\ s \in Records /\ d \in BOOLEAN /\ m \in BOOLEAN
    /\ s # NoFile => d
    /\ r.state # "UNUSED" => d /\ IF m THEN s = EmptyFile ELSE Fresh(r, s)
    /\ r.state = "UNUSED" /\ d => IF m THEN s = EmptyFile ELSE s.state = "EXIT"

Tables ==
    /\ procs \in [Pids -> Records] /\ status \in [Pids -> Records]
    /\ dir \in [Pids -> BOOLEAN] /\ missed \in [Pids -> BOOLEAN]
    /\ fd_table \in [Pids -> [Fds -> Pids \cup {Closed, Other}]]

Rows == \A p \in Pids : Row(p, procs[p], status[p], dir[p], missed[p])
WaitPids == wait_pid \in [Pids -> Pids \cup {AnyChild}]
OpenIsThere == \A p \in Pids : IsOpen(p, fd_table) => status[p] # NoFile

ProcInv == Tables /\ Rows /\ OpenIsThere

-----------------------------------------------------------------------------
(* Rows.                                                                   *)

\* The invariant is the property the run checks, and more.
LEMMA InvTells == ProcInv /\ WaitPids => ProcTellsTruth
BY DEF ProcInv, WaitPids, Tables, Rows, OpenIsThere, Row, Fresh, ProcTellsTruth, ProcfsTypeOK, StatusFresh,
       LeftoverIsDead, Waits

\* The records the kernel starts from are records.
LEMMA RecordsExist ==
    ASSUME Sizes
    PROVE  /\ Shell \in Records /\ Unused \in Records /\ NoFile \in Records
           /\ EmptyFile \in Records /\ EmptyFile # NoFile
           /\ \A app \in Apps : [Shell EXCEPT !.name = app] \in Records
           /\ Live(Shell) /\ Shell.ppid = 0 /\ Unused.state = "UNUSED" /\ Unused.ppid = 0
           /\ NoFile.state = "NO FILE" /\ EmptyFile.state = "EMPTY FILE"
BY DEF Sizes, Shell, Unused, NoFile, EmptyFile, Records, Live

\* What an assignment to a field of a record changes.
LEMMA Orphaned ==
    ASSUME NEW r \in Records, NEW q \in Pids \cup {0}
    PROVE  LET s == [r EXCEPT !.ppid = q] IN
           /\ s \in Records /\ s.ppid = q /\ s.state = r.state
           /\ s.reason = r.reason /\ s.name = r.name /\ s.cwd = r.cwd
<1> DEFINE s == [r EXCEPT !.ppid = q]
<1>1. s \in Records
    BY DEF Records
<1>2. /\ s.ppid = q /\ s.state = r.state
      /\ s.reason = r.reason /\ s.name = r.name /\ s.cwd = r.cwd
    BY DEF Records
<1> QED BY <1>1, <1>2

LEMMA Restated ==
    ASSUME NEW r \in Records, NEW new \in {"RUN", "WAIT", "EXIT"},
           NEW why \in {"NONE", "CHILD_EXIT", "IPC_RECV", "CONSOLE_INPUT"}
    PROVE  LET s == [r EXCEPT !.state = new, !.reason = why] IN
           /\ s \in Records /\ s.ppid = r.ppid /\ s.state = new
           /\ s.reason = why /\ s.name = r.name /\ s.cwd = r.cwd
<1> DEFINE s == [r EXCEPT !.state = new, !.reason = why]
<1>1. s \in Records
    BY DEF Records
<1>2. /\ s.ppid = r.ppid /\ s.state = new
      /\ s.reason = why /\ s.name = r.name /\ s.cwd = r.cwd
    BY DEF Records
<1> QED BY <1>1, <1>2

\* A live process whose file was just written, or was left empty.
LEMMA SyncedRow ==
    ASSUME NEW p, NEW r \in Records, Live(r), r.ppid # p
    PROVE  Row(p, r, r, TRUE, FALSE) /\ r # NoFile
<1>1. r # NoFile
    <2>1. NoFile.state = "NO FILE"
        BY DEF NoFile
    <2> QED BY <2>1 DEF Live
<1>2. Fresh(r, r)
    BY DEF Fresh
<1> QED BY <1>1, <1>2 DEF Row, Live

LEMMA MissedRow ==
    ASSUME Sizes, NEW p, NEW r \in Records, Live(r), r.ppid # p
    PROVE  Row(p, r, EmptyFile, TRUE, TRUE) /\ EmptyFile # NoFile
BY RecordsExist DEF Row, Live

\* What a sync of the processes in S keeps: it suffices that their new
\* entries are live and that the others keep their rows.
LEMMA SyncKeeps ==
    ASSUME Sizes, ProcInv, NEW S \in SUBSET Pids, NEW T \in [Pids -> Records],
           NEW fds \in [Pids -> [Fds -> Pids \cup {Closed, Other}]],
           procfs_sync_process(S, T, fds),
           \A p \in S : Live(T[p]) /\ T[p].ppid # p,
           \A p \in Pids \ S : Row(p, T[p], status[p], dir[p], missed[p]),
           \A p \in Pids : IsOpen(p, fds) => IsOpen(p, fd_table)
    PROVE  ProcInv'
<1> DEFINE done == {p \in S : HasFreeFd(p, fds)}
<1>1. /\ procs' = T /\ fd_table' = fds
      /\ dir' = [p \in Pids |-> dir[p] \/ p \in S]
      /\ status' = [p \in Pids |-> IF p \notin S THEN status[p]
                                   ELSE IF p \in done THEN T[p] ELSE EmptyFile]
      /\ missed' = [p \in Pids |-> IF p \in S THEN p \notin done ELSE missed[p]]
    BY DEF procfs_sync_process, Synced, SyncMissed
<1> HIDE DEF done
<1>2. /\ status \in [Pids -> Records] /\ missed \in [Pids -> BOOLEAN]
      /\ dir \in [Pids -> BOOLEAN]
    BY DEF ProcInv, Tables
<1>3. Tables'
    <2>1. status' \in [Pids -> Records]
        BY <1>1, <1>2, RecordsExist
    <2>2. dir' \in [Pids -> BOOLEAN] /\ missed' \in [Pids -> BOOLEAN]
        BY <1>1, <1>2
    <2> QED BY <1>1, <2>1, <2>2 DEF Tables
<1>4. ASSUME NEW p \in Pids
      PROVE  Row(p, T[p], status'[p], dir'[p], missed'[p]) /\
             (status[p] # NoFile => status'[p] # NoFile)
    <2>1. CASE p \in done
        <3>1. p \in S BY <2>1 DEF done
        <3>2. status'[p] = T[p] /\ dir'[p] = TRUE /\ missed'[p] = FALSE
            BY <1>1, <2>1, <3>1
        <3>3. Row(p, T[p], T[p], TRUE, FALSE) /\ T[p] # NoFile
            BY <3>1, SyncedRow, ZenonT(60)
        <3> QED BY <3>2, <3>3
    <2>2. CASE p \in S /\ p \notin done
        <3>1. status'[p] = EmptyFile /\ dir'[p] = TRUE /\ missed'[p] = TRUE
            BY <1>1, <2>2
        <3>2. Row(p, T[p], EmptyFile, TRUE, TRUE) /\ EmptyFile # NoFile
            BY <2>2, MissedRow, ZenonT(60)
        <3> QED BY <3>1, <3>2
    <2>3. CASE p \notin S
        <3>1. p \notin done BY <2>3 DEF done
        <3>2. status'[p] = status[p] /\ dir'[p] = dir[p] /\ missed'[p] = missed[p]
            BY <1>1, <1>2, <2>3, <3>1
        <3> QED BY <2>3, <3>2
    <2> QED BY <2>1, <2>2, <2>3
<1>5. Rows'
    BY <1>1, <1>4 DEF Rows
<1>6. OpenIsThere'
    BY <1>1, <1>4 DEF OpenIsThere, ProcInv
<1> QED BY <1>3, <1>5, <1>6 DEF ProcInv

\* A slot that is recycled after its process got its last row.
LEMMA RecycleKeeps ==
    ASSUME Sizes, NEW p \in Pids, NEW T \in [Pids -> Records],
           NEW dir0 \in [Pids -> BOOLEAN], NEW status0 \in [Pids -> Records],
           recycle_process_slot(p, T, dir0, status0),
           fd_table \in [Pids -> [Fds -> Pids \cup {Closed, Other}]], missed' \in [Pids -> BOOLEAN],
           \A q \in Pids : Row(q, T[q], status0[q], dir0[q], missed'[q]),
           \A q \in Pids : IsOpen(q, fd_table) => status0[q] # NoFile,
           IF missed'[p] THEN status0[p] = EmptyFile ELSE status0[p].state = "EXIT"
    PROVE  ProcInv'
<1> DEFINE kept == IsOpen(p, fd_table) /\ status0[p] # NoFile
<1>1. /\ status' = [status0 EXCEPT ![p] = IF kept THEN @ ELSE NoFile]
      /\ dir' = [dir0 EXCEPT ![p] = @ /\ kept]
      /\ fd_table' = [fd_table EXCEPT ![p] = [f \in Fds |-> Closed]]
      /\ procs' = [T EXCEPT ![p] = Unused]
    BY DEF recycle_process_slot
<1>2. kept \in BOOLEAN /\ (kept => status0[p] # NoFile) /\ (IsOpen(p, fd_table) => kept)
    BY DEF IsOpen
<1> HIDE DEF kept
<1>3. Tables'
    <2>1. procs' \in [Pids -> Records] /\ status' \in [Pids -> Records]
        BY <1>1, RecordsExist
    <2>2. dir' \in [Pids -> BOOLEAN]
        BY <1>1, <1>2
    <2>3. fd_table' \in [Pids -> [Fds -> Pids \cup {Closed, Other}]]
        BY <1>1 DEF Closed, Sizes
    <2> QED BY <2>1, <2>2, <2>3 DEF Tables
<1>4. Rows'
    <2> SUFFICES ASSUME NEW q \in Pids
                 PROVE  Row(q, procs'[q], status'[q], dir'[q], missed'[q])
        BY DEF Rows
    <2>1. CASE q # p
        BY <1>1, <2>1
    <2>2. CASE q = p
        <3>1. /\ procs'[q] = Unused /\ status'[q] = IF kept THEN status0[p] ELSE NoFile
              /\ dir'[q] = (dir0[p] /\ kept)
            BY <1>1, <2>2
        <3>2. status0[p] # NoFile => dir0[p]
            BY DEF Row
        <3>3. Unused \in Records /\ NoFile \in Records
            BY RecordsExist
        <3>4. Unused.state = "UNUSED" /\ Unused.ppid = 0 /\ p # 0
            BY ProcfsSizes DEF Unused
        <3> QED BY <1>2, <2>2, <3>1, <3>2, <3>3, <3>4 DEF Row
    <2> QED BY <2>1, <2>2
<1>5. OpenIsThere'
    <2> SUFFICES ASSUME NEW q \in Pids, IsOpen(q, fd_table') PROVE status'[q] # NoFile
        BY DEF OpenIsThere
    <2>1. IsOpen(q, fd_table)
        <3>1. PICK r \in Pids, f \in Fds : fd_table'[r][f] = q
            BY DEF IsOpen
        <3>2. r # p
            BY <1>1, <3>1, ProcfsSizes DEF Closed
        <3>3. fd_table[r][f] = q
            BY <1>1, <3>1, <3>2
        <3> QED BY <3>3 DEF IsOpen
    <2> QED BY <1>1, <1>2, <2>1
<1> QED BY <1>3, <1>4, <1>5 DEF ProcInv

-----------------------------------------------------------------------------
(* Steps.                                                                  *)

LEMMA ProcInit == Sizes /\ ProcfsInit => ProcInv
<1> SUFFICES ASSUME Sizes, ProcfsInit PROVE ProcInv
    OBVIOUS
<1>0. Shell \in Records /\ Unused \in Records /\ NoFile \in Records
    BY RecordsExist
<1>1. Tables
    <2>1. fd_table \in [Pids -> [Fds -> Pids \cup {Closed, Other}]]
        BY DEF Sizes, ProcfsInit, Closed
    <2> QED BY <1>0, <2>1 DEF ProcfsInit, Tables
<1>2. Row(InitPid, Shell, Shell, TRUE, FALSE)
    <2>1. Live(Shell) /\ Shell.ppid # InitPid
        BY DEF Live, Shell, InitPid
    <2> QED BY <1>0, <2>1, SyncedRow
<1>3. \A p \in Pids : Row(p, Unused, NoFile, FALSE, FALSE)
    <2>1. Unused.state = "UNUSED" /\ Unused.ppid = 0
        BY DEF Unused
    <2> QED BY <1>0, <2>1, ProcfsSizes DEF Row
<1>4. Rows
    BY <1>2, <1>3 DEF ProcfsInit, Rows
<1>5. OpenIsThere
    BY ProcfsSizes DEF ProcfsInit, OpenIsThere, IsOpen, Closed
<1> QED BY <1>1, <1>4, <1>5 DEF ProcInv

\* A process that is woken, or whose parent died, is as live as it was.
LEMMA WokenRecords ==
    ASSUME Sizes, NEW T \in [Pids -> Records], NEW S
    PROVE  /\ Woken(T, S) \in [Pids -> Records]
           /\ \A p \in Pids : Woken(T, S)[p].ppid = T[p].ppid
           /\ \A p \in Pids \cap S : Live(Woken(T, S)[p])
           /\ \A p \in Pids \ S : Woken(T, S)[p] = T[p]
<1>1. \A p \in Pids : LET r == [T[p] EXCEPT !.state = "RUN", !.reason = "NONE"]
                        IN  r \in Records /\ r.ppid = T[p].ppid /\ r.state = "RUN"
    <2> SUFFICES ASSUME NEW p \in Pids
                 PROVE  LET r == [T[p] EXCEPT !.state = "RUN", !.reason = "NONE"]
                        IN  r \in Records /\ r.ppid = T[p].ppid /\ r.state = "RUN"
        OBVIOUS
    <2>1. T[p] \in Records
        OBVIOUS
    <2> QED BY <2>1, Restated, ZenonT(60)
<1> QED BY <1>1 DEF Woken, Live

\* What a death does to the rows of the others.
LEMMA DeadRecords ==
    ASSUME ProcInv, NEW p \in Pids, Live(procs[p])
    PROVE  /\ Dead(p) \in [Pids -> Records]
           /\ Dead(p)[p].state = "EXIT" /\ Dead(p)[p].ppid = procs[p].ppid
           /\ \A q \in Pids : Dead(p)[q].ppid # q
           /\ \A q \in Pids \ {p} : Row(q, Dead(p)[q], status[q], dir[q], missed[q])
<1>1. \A q \in Pids : procs[q] \in Records /\ procs[q].ppid # q
    BY DEF ProcInv, Tables, Rows, Row
<1> DEFINE dead == [procs[p] EXCEPT !.state = "EXIT", !.reason = "NONE"]
<1>2. /\ \A q \in Pids : [procs[q] EXCEPT !.ppid = 0] \in Records
      /\ dead \in Records /\ dead.state = "EXIT" /\ dead.ppid = procs[p].ppid
    BY <1>1, Orphaned, Restated, ZenonT(60)
<1>3. Dead(p) \in [Pids -> Records]
    BY <1>1, <1>2 DEF Dead
<1>4. Dead(p)[p].state = "EXIT" /\ Dead(p)[p].ppid = procs[p].ppid
    BY <1>2 DEF Dead
<1>5. ASSUME NEW q \in Pids \ {p}
      PROVE  Dead(p)[q].ppid # q /\ Row(q, Dead(p)[q], status[q], dir[q], missed[q])
    <2>1. Row(q, procs[q], status[q], dir[q], missed[q])
        BY DEF ProcInv, Rows
    <2>2. CASE procs[q].ppid # p
        <3>1. Dead(p)[q] = procs[q]
            BY <1>5, <2>2 DEF Dead
        <3> QED BY <1>1, <2>1, <3>1
    <2>3. CASE procs[q].ppid = p
        <3> DEFINE r == [procs[q] EXCEPT !.ppid = 0]
        <3>1. Dead(p)[q] = r
            BY <1>5, <2>3 DEF Dead
        <3>2. /\ r \in Records /\ r.ppid = 0 /\ r.state = procs[q].state
              /\ r.reason = procs[q].reason /\ r.name = procs[q].name /\ r.cwd = procs[q].cwd
            BY <1>1, Orphaned
        <3> HIDE DEF r
        <3>3. q # 0 BY ProcfsSizes
        <3> QED BY <2>1, <3>1, <3>2, <3>3 DEF Row, Fresh
    <2> QED BY <2>2, <2>3
<1> QED BY <1>1, <1>3, <1>4, <1>5

\* A death with its notification: the parent, which is another process, is
\* synced, and so is the dead one.
LEMMA DeathRecords ==
    ASSUME Sizes, ProcInv, NEW p \in Pids, Live(procs[p])
    PROVE  LET T == Woken(Dead(p), Notified(p)) IN
           /\ p \notin Notified(p) /\ Notified(p) \in SUBSET Pids
           /\ T \in [Pids -> Records] /\ T[p] = Dead(p)[p] /\ T[p].state = "EXIT"
           /\ \A q \in {p} \cup Notified(p) : Live(T[q])
           /\ \A q \in Pids : T[q].ppid # q
           /\ \A q \in Pids \ ({p} \cup Notified(p)) :
                 Row(q, T[q], status[q], dir[q], missed[q])
           /\ \A q \in {p} \cup Notified(p) : dir[q] = TRUE
<1> DEFINE T == Woken(Dead(p), Notified(p))
<1>1. p \notin Notified(p) /\ Notified(p) \in SUBSET Pids
    BY DEF Notified, ProcInv, Rows, Row
<1>2. /\ T \in [Pids -> Records] /\ \A q \in Pids : T[q].ppid = Dead(p)[q].ppid
      /\ \A q \in Pids \cap Notified(p) : Live(T[q])
      /\ \A q \in Pids \ Notified(p) : T[q] = Dead(p)[q]
    BY DeadRecords, WokenRecords
<1>3. \A q \in Notified(p) : dir[q] = TRUE
    BY DEF Notified, Waits, ProcInv, Rows, Row
<1>4. dir[p] = TRUE
    BY DEF Live, ProcInv, Rows, Row
<1> HIDE DEF T
<1>5. Live(T[p]) /\ T[p].state = "EXIT" /\ T[p] = Dead(p)[p]
    BY <1>1, <1>2, DeadRecords DEF Live
<1> QED BY <1>1, <1>2, <1>3, <1>4, <1>5, DeadRecords DEF T

\* What the invariant says of a process that is not free.
LEMMA LiveRow ==
    ASSUME ProcInv, NEW p \in Pids, procs[p].state # "UNUSED"
    PROVE  /\ procs[p] \in Records /\ Live(procs[p]) /\ procs[p].ppid # p
           /\ dir[p] = TRUE /\ Row(p, procs[p], status[p], TRUE, missed[p])
BY DEF ProcInv, Rows, Row, Live

\* A change of one process that is synced.
LEMMA OneSynced ==
    ASSUME Sizes, ProcInv, NEW p \in Pids, NEW r \in Records, Live(r), r.ppid # p,
           NEW fds \in [Pids -> [Fds -> Pids \cup {Closed, Other}]],
           procfs_sync_process({p}, [procs EXCEPT ![p] = r], fds),
           \A q \in Pids : IsOpen(q, fds) => IsOpen(q, fd_table)
    PROVE  ProcInv'
<1> DEFINE T == [procs EXCEPT ![p] = r]
<1>1. T \in [Pids -> Records] /\ T[p] = r
    BY DEF ProcInv, Tables
<1>2. \A q \in Pids \ {p} : T[q] = procs[q]
    BY DEF ProcInv, Tables
<1>3. procfs_sync_process({p}, T, fds)
    OBVIOUS
<1> HIDE DEF T
<1>4. \A q \in Pids \ {p} : Row(q, T[q], status[q], dir[q], missed[q])
    BY <1>2 DEF ProcInv, Rows
<1> QED BY <1>1, <1>3, <1>4, SyncKeeps

LEMMA ReapKeeps ==
    ASSUME Sizes, ProcInv, NEW p \in Pids, reap(p) PROVE ProcInv'
<1>1. /\ procs[p].state = "EXIT" /\ recycle_process_slot(p, procs, dir, status)
      /\ missed' = missed
    BY DEF reap
<1>2. Row(p, procs[p], status[p], TRUE, missed[p])
    BY <1>1, LiveRow
<1>3. IF missed'[p] THEN status[p] = EmptyFile ELSE status[p].state = "EXIT"
    BY <1>1, <1>2 DEF Row, Fresh
<1>4. /\ procs \in [Pids -> Records] /\ dir \in [Pids -> BOOLEAN]
      /\ status \in [Pids -> Records] /\ missed' \in [Pids -> BOOLEAN]
      /\ fd_table \in [Pids -> [Fds -> Pids \cup {Closed, Other}]]
    BY <1>1 DEF ProcInv, Tables
<1>5. /\ \A q \in Pids : Row(q, procs[q], status[q], dir[q], missed'[q])
      /\ \A q \in Pids : IsOpen(q, fd_table) => status[q] # NoFile
    BY <1>1 DEF ProcInv, Rows, OpenIsThere
<1> QED BY <1>1, <1>3, <1>4, <1>5, RecycleKeeps

LEMMA CloneKeeps ==
    ASSUME Sizes, ProcInv, NEW p \in Pids, NEW c \in Pids, NEW app \in Apps,
           clone(p, c, app)
    PROVE  ProcInv'
<1> DEFINE new == [Shell EXCEPT !.name = app]
           r == [new EXCEPT !.ppid = p]
<1>1. /\ procs' = [procs EXCEPT ![c] = r] /\ status' = [status EXCEPT ![c] = new]
      /\ dir' = [dir EXCEPT ![c] = TRUE] /\ missed' = [missed EXCEPT ![c] = FALSE]
      /\ fd_table' = fd_table /\ p # c
    BY DEF clone, IsRun, FirstUnused
<1>2. new \in Records /\ new.state = "RUN" /\ new.ppid = 0
    <2>1. new \in Records
        BY RecordsExist
    <2> QED BY <2>1 DEF Shell
<1>3. /\ r \in Records /\ r.ppid = p /\ r.state = new.state
      /\ r.reason = new.reason /\ r.name = new.name /\ r.cwd = new.cwd
    BY <1>2, Orphaned
<1>4. NoFile.state = "NO FILE"
    BY DEF NoFile
<1> HIDE DEF new, r
<1>5. Row(c, r, new, TRUE, FALSE) /\ new # NoFile
    BY <1>1, <1>2, <1>3, <1>4 DEF Row, Fresh
<1>6. Tables'
    BY <1>1, <1>2, <1>3 DEF ProcInv, Tables
<1>7. Rows'
    BY <1>1, <1>5 DEF ProcInv, Tables, Rows
<1>8. OpenIsThere'
    BY <1>1, <1>5 DEF ProcInv, Tables, OpenIsThere
<1> QED BY <1>6, <1>7, <1>8 DEF ProcInv

LEMMA ForkKeeps ==
    ASSUME Sizes, ProcInv, NEW p \in Pids, NEW c \in Pids, process_fork(p, c)
    PROVE  ProcInv'
<1> DEFINE r == [procs[p] EXCEPT !.ppid = p]
           fds == [fd_table EXCEPT ![c] = fd_table[p]]
<1>1. /\ procs[p].state = "RUN" /\ p # c
      /\ procfs_sync_process({c}, [procs EXCEPT ![c] = r], fds)
    BY DEF process_fork, IsRun, FirstUnused
<1>2. procs[p] \in Records
    BY DEF ProcInv, Tables
<1>3. r \in Records /\ r.ppid = p /\ r.state = "RUN"
    BY <1>1, <1>2, Orphaned
<1>4. fds \in [Pids -> [Fds -> Pids \cup {Closed, Other}]]
    BY DEF ProcInv, Tables
<1>5. \A q \in Pids : IsOpen(q, fds) => IsOpen(q, fd_table)
    BY DEF ProcInv, Tables, IsOpen
<1> HIDE DEF r, fds
<1>6. Live(r) /\ r.ppid # c
    BY <1>1, <1>3 DEF Live
<1> QED BY <1>1, <1>3, <1>4, <1>5, <1>6, OneSynced

\* exec and chdir write one field of a process that runs.
LEMMA RenameKeeps ==
    ASSUME Sizes, ProcInv, NEW p \in Pids, IsRun(p), NEW r \in Records,
           r.state = "RUN", r.ppid = procs[p].ppid, Change([procs EXCEPT ![p] = r], {p})
    PROVE  ProcInv'
<1>1. Live(r) /\ r.ppid # p
    BY LiveRow DEF IsRun, Live
<1>2. /\ procfs_sync_process({p}, [procs EXCEPT ![p] = r], fd_table)
      /\ fd_table \in [Pids -> [Fds -> Pids \cup {Closed, Other}]]
    BY DEF Change, ProcInv, Tables
<1> QED BY <1>1, <1>2, OneSynced

LEMMA ExecKeeps ==
    ASSUME Sizes, ProcInv, NEW p \in Pids, NEW app \in Apps, process_exec(p, app)
    PROVE  ProcInv'
<1> DEFINE r == [procs[p] EXCEPT !.name = app]
<1>1. IsRun(p) /\ Change([procs EXCEPT ![p] = r], {p}) /\ procs[p] \in Records
    BY DEF process_exec, ProcInv, Tables
<1>2. r \in Records
    BY <1>1 DEF Records
<1>3. r.state = "RUN" /\ r.ppid = procs[p].ppid
    BY <1>1 DEF IsRun, Records
<1> QED BY <1>1, <1>2, <1>3, RenameKeeps

LEMMA ChdirKeeps ==
    ASSUME Sizes, ProcInv, NEW p \in Pids, NEW d \in Dirs, syscall_handle_chdir(p, d)
    PROVE  ProcInv'
<1> DEFINE r == [procs[p] EXCEPT !.cwd = d]
<1>1. IsRun(p) /\ Change([procs EXCEPT ![p] = r], {p}) /\ procs[p] \in Records
    BY DEF syscall_handle_chdir, ProcInv, Tables
<1>2. r \in Records
    BY <1>1 DEF Records
<1>3. r.state = "RUN" /\ r.ppid = procs[p].ppid
    BY <1>1 DEF IsRun, Records
<1> QED BY <1>1, <1>2, <1>3, RenameKeeps

\* A process that goes to sleep: for the console its file keeps what it said
\* before, which Fresh allows.
LEMMA WaitKeeps ==
    ASSUME Sizes, ProcInv, NEW p \in Pids,
           NEW reason \in {"CHILD_EXIT", "IPC_RECV", "CONSOLE_INPUT"}, NEW target,
           Wait(p, reason, target)
    PROVE  ProcInv'
<1> DEFINE r == [procs[p] EXCEPT !.state = "WAIT", !.reason = reason]
           T == [procs EXCEPT ![p].state = "WAIT", ![p].reason = reason]
           S == IF reason = "CONSOLE_INPUT" THEN {} ELSE {p}
<1>1. procs[p].state = "RUN" /\ Change(T, S)
    BY DEF Wait, IsRun
<1>2. procs \in [Pids -> Records] /\ procs[p] \in Records
      /\ fd_table \in [Pids -> [Fds -> Pids \cup {Closed, Other}]]
    BY DEF ProcInv, Tables
<1>3. T = [procs EXCEPT ![p] = r]
    BY <1>2
<1>4. /\ r \in Records /\ r.ppid = procs[p].ppid /\ r.state = "WAIT"
      /\ r.reason = reason /\ r.name = procs[p].name /\ r.cwd = procs[p].cwd
    <2>1. r \in Records
        BY <1>2 DEF Records
    <2>2. /\ r.ppid = procs[p].ppid /\ r.state = "WAIT"
          /\ r.reason = reason /\ r.name = procs[p].name /\ r.cwd = procs[p].cwd
        BY <1>2 DEF Records
    <2> QED BY <2>1, <2>2
<1>5. Row(p, procs[p], status[p], TRUE, missed[p]) /\ procs[p].ppid # p /\ dir[p] = TRUE
    BY <1>1, LiveRow
<1> HIDE DEF r
<1>6. T \in [Pids -> Records] /\ T[p] = r /\ \A q \in Pids \ {p} : T[q] = procs[q]
    BY <1>2, <1>3, <1>4
<1>7. procfs_sync_process(S, T, fd_table)
    BY <1>1 DEF Change
<1> HIDE DEF T
<1>8. Live(r) /\ r.ppid # p
    BY <1>4, <1>5 DEF Live
<1>9. \A q \in Pids \ {p} : Row(q, T[q], status[q], dir[q], missed[q])
    BY <1>6 DEF ProcInv, Rows
<1>10. CASE reason # "CONSOLE_INPUT"
    BY <1>2, <1>6, <1>7, <1>8, <1>9, <1>10, SyncKeeps
<1>11. CASE reason = "CONSOLE_INPUT"
    <2>1. Row(p, r, status[p], TRUE, missed[p])
        BY <1>1, <1>4, <1>5, <1>11 DEF Row, Fresh
    <2>2. S = {} /\ \A q \in Pids : Row(q, T[q], status[q], dir[q], missed[q])
        BY <1>5, <1>6, <1>9, <1>11, <2>1
    <2> QED BY <1>2, <1>6, <1>7, <2>2, SyncKeeps
<1> QED BY <1>10, <1>11

\* Processes that are woken are synced.
LEMMA WakeKeeps ==
    ASSUME Sizes, ProcInv, NEW S \in SUBSET Pids, \A p \in S : procs[p].state = "WAIT",
           Change(Woken(procs, S), S)
    PROVE  ProcInv'
<1> DEFINE T == Woken(procs, S)
<1>1. /\ procs \in [Pids -> Records] /\ fd_table \in [Pids -> [Fds -> Pids \cup {Closed, Other}]]
      /\ \A p \in Pids : procs[p].ppid # p
    BY DEF ProcInv, Tables, Rows, Row
<1>2. /\ T \in [Pids -> Records] /\ \A p \in Pids : T[p].ppid = procs[p].ppid
      /\ \A p \in Pids \cap S : Live(T[p])
      /\ \A p \in Pids \ S : T[p] = procs[p]
    BY <1>1, WokenRecords
<1>3. procfs_sync_process(S, T, fd_table)
    BY DEF Change
<1> HIDE DEF T
<1>4. \A p \in Pids \ S : Row(p, T[p], status[p], dir[p], missed[p])
    BY <1>2 DEF ProcInv, Rows
<1>5. \A p \in S : Live(T[p]) /\ T[p].ppid # p
    BY <1>1, <1>2
<1> QED BY <1>1, <1>2, <1>3, <1>4, <1>5, SyncKeeps

LEMMA ExitKeeps ==
    ASSUME Sizes, ProcInv, NEW p \in Pids, exit(p) PROVE ProcInv'
<1> DEFINE T == Woken(Dead(p), Notified(p))
           S == {p} \cup Notified(p)
<1>1. Live(procs[p])
    BY DEF exit, IsRun, Live
<1>2. procfs_sync_process(S, T, fd_table)
    BY DEF exit, Change
<1>3. /\ S \in SUBSET Pids /\ T \in [Pids -> Records]
      /\ \A q \in S : Live(T[q]) /\ T[q].ppid # q
      /\ \A q \in Pids \ S : Row(q, T[q], status[q], dir[q], missed[q])
    <2>1. /\ p \notin Notified(p) /\ Notified(p) \in SUBSET Pids
          /\ T \in [Pids -> Records]
          /\ \A k \in {p} \cup Notified(p) : Live(T[k])
          /\ \A k \in Pids : T[k].ppid # k
          /\ \A k \in {p} \cup Notified(p) : dir[k] = TRUE
          /\ \A k \in Pids \ ({p} \cup Notified(p)) : Row(k, T[k], status[k], dir[k], missed[k])
        BY <1>1, DeathRecords
    <2> HIDE DEF T
    <2> QED BY <2>1
<1>4. fd_table \in [Pids -> [Fds -> Pids \cup {Closed, Other}]]
    BY DEF ProcInv, Tables
<1> HIDE DEF T, S
<1> QED BY <1>2, <1>3, <1>4, SyncKeeps

\* The rows after the syncs of a death, before anything else happens to the
\* dead process.
LEMMA DeathRows ==
    ASSUME Sizes, ProcInv, NEW p \in Pids, Live(procs[p]),
           NEW done \in SUBSET ({p} \cup Notified(p)), NEW q \in Pids
    PROVE  LET T == Woken(Dead(p), Notified(p))
               S == {p} \cup Notified(p)
               s == IF q \notin S THEN status[q] ELSE IF q \in done THEN T[q] ELSE EmptyFile
           IN  /\ Row(q, T[q], s, dir[q], IF q \in S THEN q \notin done ELSE missed[q])
               /\ s \in Records /\ (IsOpen(q, fd_table) => s # NoFile)
<1> DEFINE T == Woken(Dead(p), Notified(p))
           S == {p} \cup Notified(p)
<1>1. /\ T \in [Pids -> Records] /\ S \in SUBSET Pids
      /\ \A k \in S : Live(T[k]) /\ T[k].ppid # k /\ dir[k] = TRUE
      /\ \A k \in Pids \ S : Row(k, T[k], status[k], dir[k], missed[k])
    <2>1. /\ p \notin Notified(p) /\ Notified(p) \in SUBSET Pids
          /\ T \in [Pids -> Records]
          /\ \A k \in {p} \cup Notified(p) : Live(T[k])
          /\ \A k \in Pids : T[k].ppid # k
          /\ \A k \in {p} \cup Notified(p) : dir[k] = TRUE
          /\ \A k \in Pids \ ({p} \cup Notified(p)) : Row(k, T[k], status[k], dir[k], missed[k])
        BY DeathRecords
    <2> HIDE DEF T
    <2> QED BY <2>1
<1>2. status[q] \in Records /\ (IsOpen(q, fd_table) => status[q] # NoFile)
    BY DEF ProcInv, Tables, OpenIsThere
<1>3. done \in SUBSET S /\ T[q] \in Records
    BY <1>1
<1> HIDE DEF T, S
<1>4. CASE q \in done
    <2>1. Row(q, T[q], T[q], TRUE, FALSE) /\ T[q] # NoFile
        BY <1>1, <1>3, <1>4, SyncedRow
    <2> QED BY <1>1, <1>3, <1>4, <2>1 DEF T, S
<1>5. CASE q \in S \ done
    <2>1. Row(q, T[q], EmptyFile, TRUE, TRUE) /\ EmptyFile # NoFile
        BY <1>1, <1>3, <1>5, MissedRow
    <2>2. EmptyFile \in Records
        BY RecordsExist
    <2> QED BY <1>1, <1>5, <2>1, <2>2 DEF T, S
<1>6. CASE q \notin S
    BY <1>1, <1>2, <1>3, <1>6 DEF T, S
<1> QED BY <1>4, <1>5, <1>6

LEMMA KillSelfKeeps ==
    ASSUME Sizes, ProcInv, NEW p \in Pids, process_kill_self(p) PROVE ProcInv'
<1> DEFINE D == Woken(Dead(p), Notified(p))
           S == {p} \cup Notified(p)
           done == {q \in S : HasFreeFd(q, fd_table)}
           last == [D[p] EXCEPT !.ppid = 0]
           m(q) == IF q \in S THEN q \notin done ELSE missed[q]
           s(q) == IF q \notin S THEN status[q] ELSE IF q \in done THEN D[q] ELSE EmptyFile
<1>1. Live(procs[p]) /\ procs[p].state # "UNUSED"
    BY DEF process_kill_self, IsRun, Live
<1>2. /\ D \in [Pids -> Records] /\ D[p] = Dead(p)[p] /\ D[p].state = "EXIT"
      /\ p \notin Notified(p) /\ Notified(p) \in SUBSET Pids
    BY <1>1, DeathRecords
<1>3. \A q \in Pids : /\ Row(q, D[q], s(q), dir[q], m(q)) /\ s(q) \in Records
                       /\ (IsOpen(q, fd_table) => s(q) # NoFile)
    <2> SUFFICES ASSUME NEW q \in Pids
                 PROVE  /\ Row(q, D[q], s(q), dir[q], m(q)) /\ s(q) \in Records
                        /\ (IsOpen(q, fd_table) => s(q) # NoFile)
        OBVIOUS
    <2>1. done \in SUBSET ({p} \cup Notified(p))
        OBVIOUS
    <2> HIDE DEF done
    <2> QED BY <1>1, <2>1, DeathRows
<1>4. /\ last \in Records /\ last.ppid = 0 /\ last.state = D[p].state
      /\ last.reason = D[p].reason /\ last.name = D[p].name /\ last.cwd = D[p].cwd
    BY <1>2, Orphaned
<1>5. /\ procs' = [D EXCEPT ![p] = last] /\ fd_table' = fd_table
      /\ dir' = [dir EXCEPT ![p] = TRUE]
      /\ status' = [q \in Pids |-> s(q)] /\ missed' = [q \in Pids |-> m(q)]
    <2>1. /\ procs' = [D EXCEPT ![p].ppid = 0] /\ fd_table' = fd_table
          /\ dir' = [dir EXCEPT ![p] = TRUE]
          /\ status' = Synced(S, D, fd_table) /\ missed' = SyncMissed(S, fd_table)
        BY DEF process_kill_self
    <2>2. Synced(S, D, fd_table) = [q \in Pids |-> s(q)] /\
          SyncMissed(S, fd_table) = [q \in Pids |-> m(q)]
        BY DEF Synced, SyncMissed
    <2> HIDE DEF D, S, done, m, s
    <2> QED BY <1>2, <2>1, <2>2
<1> HIDE DEF D, S, done, last
<1>6. m(p) \in BOOLEAN /\ dir[p] = TRUE
    BY <1>1, LiveRow DEF S, done
<1>7. dir \in [Pids -> BOOLEAN] /\ \A q \in Pids : m(q) \in BOOLEAN
    BY <1>3 DEF ProcInv, Tables, Row
<1> HIDE DEF m, s
<1>8. Tables'
    BY <1>2, <1>3, <1>4, <1>5, <1>7 DEF ProcInv, Tables
<1>9. Row(p, last, s(p), TRUE, m(p))
    <2>1. Row(p, D[p], s(p), TRUE, m(p))
        BY <1>3, <1>6
    <2>2. p # 0 BY ProcfsSizes
    <2> QED BY <1>2, <1>4, <2>1, <2>2 DEF Row, Fresh
<1>10. Rows'
    <2> SUFFICES ASSUME NEW q \in Pids
                 PROVE  Row(q, procs'[q], status'[q], dir'[q], missed'[q])
        BY DEF Rows
    <2>1. CASE q = p
        BY <1>2, <1>5, <1>7, <1>9, <2>1
    <2>2. CASE q # p
        BY <1>2, <1>3, <1>5, <1>7, <2>2
    <2> QED BY <2>1, <2>2
<1>11. OpenIsThere'
    BY <1>3, <1>5 DEF OpenIsThere
<1> QED BY <1>8, <1>10, <1>11 DEF ProcInv

LEMMA KillKeeps ==
    ASSUME Sizes, ProcInv, NEW p \in Pids, NEW t \in Pids, process_kill(p, t) PROVE ProcInv'
<1> DEFINE T == Woken(Dead(t), Notified(t))
           S == {t} \cup Notified(t)
           done == {q \in S : HasFreeFd(q, fd_table)}
           m(q) == IF q \in S THEN q \notin done ELSE missed[q]
           s(q) == IF q \notin S THEN status[q] ELSE IF q \in done THEN T[q] ELSE EmptyFile
           dir0 == [dir EXCEPT ![t] = TRUE]
           status0 == [q \in Pids |-> s(q)]
<1>1. Live(procs[t]) /\ procs[t].state # "UNUSED"
    BY DEF process_kill, Live
<1>2. T \in [Pids -> Records] /\ T[t].state = "EXIT"
    BY <1>1, DeathRecords
<1>3. \A q \in Pids : /\ Row(q, T[q], s(q), dir[q], m(q)) /\ s(q) \in Records
                       /\ (IsOpen(q, fd_table) => s(q) # NoFile)
    <2> SUFFICES ASSUME NEW q \in Pids
                 PROVE  /\ Row(q, T[q], s(q), dir[q], m(q)) /\ s(q) \in Records
                        /\ (IsOpen(q, fd_table) => s(q) # NoFile)
        OBVIOUS
    <2>1. done \in SUBSET ({t} \cup Notified(t))
        OBVIOUS
    <2> HIDE DEF done
    <2> QED BY <1>1, <2>1, DeathRows
<1>4. /\ recycle_process_slot(t, T, dir0, status0)
      /\ missed' = [q \in Pids |-> m(q)]
    BY DEF process_kill, Synced, SyncMissed
<1>5. dir0 = dir /\ dir \in [Pids -> BOOLEAN]
    BY <1>1, LiveRow DEF ProcInv, Tables
<1>6. IF m(t) THEN s(t) = EmptyFile ELSE s(t) = T[t]
    OBVIOUS
<1> HIDE DEF T, S, done, dir0
<1>7. \A q \in Pids : m(q) \in BOOLEAN
    BY <1>3 DEF Row
<1> HIDE DEF m, s
<1>8. status0 \in [Pids -> Records] /\ \A q \in Pids : status0[q] = s(q)
    BY <1>3
<1>9. missed' \in [Pids -> BOOLEAN] /\ \A q \in Pids : missed'[q] = m(q)
    BY <1>4, <1>7
<1>10. fd_table \in [Pids -> [Fds -> Pids \cup {Closed, Other}]]
    BY DEF ProcInv, Tables
<1> HIDE DEF status0
<1>11. /\ \A q \in Pids : Row(q, T[q], status0[q], dir0[q], missed'[q])
       /\ \A q \in Pids : IsOpen(q, fd_table) => status0[q] # NoFile
       /\ dir0 \in [Pids -> BOOLEAN]
    BY <1>3, <1>5, <1>8, <1>9
<1>12. IF missed'[t] THEN status0[t] = EmptyFile ELSE status0[t].state = "EXIT"
    BY <1>2, <1>6, <1>8, <1>9
<1> QED BY <1>2, <1>4, <1>8, <1>9, <1>10, <1>11, <1>12, RecycleKeeps

LEMMA OpenKeeps ==
    ASSUME ProcInv, NEW p \in Pids, NEW f \in Fds, NEW what \in Pids \cup {Other, Closed},
           what \in Pids => status[what] # NoFile, Sizes,
           fd_table' = [fd_table EXCEPT ![p][f] = what],
           UNCHANGED <<procs, dir, status, missed>>
    PROVE  ProcInv'
<1>1. what \in Pids \cup {Closed, Other}
    OBVIOUS
<1>2. Tables'
    <2>1. fd_table' \in [Pids -> [Fds -> Pids \cup {Closed, Other}]]
        BY <1>1 DEF ProcInv, Tables
    <2> QED BY <2>1 DEF ProcInv, Tables
<1>3. Rows'
    BY DEF ProcInv, Rows
<1>4. OpenIsThere'
    <2> SUFFICES ASSUME NEW q \in Pids, IsOpen(q, fd_table') PROVE status[q] # NoFile
        BY DEF OpenIsThere
    <2>1. PICK r \in Pids, g \in Fds : fd_table'[r][g] = q
        BY DEF IsOpen
    <2>2. CASE r = p /\ g = f
        BY <2>1, <2>2 DEF ProcInv, Tables
    <2>3. CASE ~(r = p /\ g = f)
        <3>1. fd_table[r][g] = q
            BY <2>1, <2>3 DEF ProcInv, Tables
        <3> QED BY <3>1 DEF ProcInv, OpenIsThere, IsOpen
    <2> QED BY <2>2, <2>3
<1> QED BY <1>2, <1>3, <1>4 DEF ProcInv

LEMMA ProcNext ==
    ASSUME Sizes, ProcInv, [ProcfsNext]_procfsVars PROVE ProcInv'
<1>1. CASE UNCHANGED procfsVars
    BY <1>1 DEF procfsVars, ProcInv, Tables, Rows, OpenIsThere
<1>2. CASE wakeup_input_waiters
    <2> DEFINE S == {p \in Pids : Waits(p, "CONSOLE_INPUT")}
    <2>1. Change(Woken(procs, S), S)
        BY <1>2 DEF wakeup_input_waiters
    <2>2. S \in SUBSET Pids /\ \A p \in S : procs[p].state = "WAIT"
        BY DEF Waits
    <2> HIDE DEF S
    <2> QED BY <2>1, <2>2, WakeKeeps
<1>3. ASSUME NEW p \in Pids, NEW q \in Pids, process_ipc_send(p, q) PROVE ProcInv'
    <2>1. Change(Woken(procs, {q}), {q}) /\ procs[q].state = "WAIT"
        BY <1>3 DEF process_ipc_send, Waits
    <2> QED BY <2>1, WakeKeeps
<1>4. ASSUME NEW p \in Pids, NEW f \in Fds, NEW what \in Files, open(p, f, what)
      PROVE  ProcInv'
    <2>1. what \in Pids \cup {Other} /\ (what \in Pids => status[what] # NoFile)
        BY <1>4, ProcfsFiles DEF open, Other, Sizes
    <2>2. fd_table' = [fd_table EXCEPT ![p][f] = what] /\ UNCHANGED <<procs, dir, status, missed>>
        BY <1>4 DEF open
    <2> QED BY <2>1, <2>2, OpenKeeps
<1>5. ASSUME NEW p \in Pids, NEW f \in Fds, close(p, f) PROVE ProcInv'
    <2>1. Closed \notin Pids
        BY ProcfsSizes DEF Closed
    <2>2. fd_table' = [fd_table EXCEPT ![p][f] = Closed] /\ UNCHANGED <<procs, dir, status, missed>>
        BY <1>5 DEF close
    <2> QED BY <2>1, <2>2, OpenKeeps
<1> QED BY <1>1, <1>2, <1>3, <1>4, <1>5, ReapKeeps, CloneKeeps, ForkKeeps, ExecKeeps, ChdirKeeps,
           WaitKeeps, ExitKeeps, KillSelfKeeps, KillKeeps DEF ProcfsNext

\* Whoever is woken waits for no child, and a sleeper waits for one pid or any.
LEMMA WaitPidsNext ==
    ASSUME WaitPids, [ProcfsNext]_procfsVars PROVE WaitPids'
<1>1. ASSUME NEW S, StopWaiting(S) PROVE WaitPids'
    BY <1>1 DEF StopWaiting, WaitPids
<1>2. CASE UNCHANGED wait_pid
    BY <1>2 DEF WaitPids
<1>3. ASSUME NEW p \in Pids, NEW reason, NEW target \in Pids \cup {AnyChild}, Wait(p, reason, target)
      PROVE  WaitPids'
    <2>1. wait_pid' = [wait_pid EXCEPT ![p] = target]
        BY <1>3 DEF Wait
    <2> QED BY <2>1 DEF WaitPids
<1>4. CASE wakeup_input_waiters
    BY <1>1, <1>4 DEF wakeup_input_waiters
<1>5. ASSUME NEW p \in Pids, NEW q \in Pids, process_ipc_send(p, q) \/ process_kill(p, q)
      PROVE  WaitPids'
    BY <1>1, <1>5 DEF process_ipc_send, process_kill
<1>6. ASSUME NEW p \in Pids, reap(p) \/ exit(p) \/ process_kill_self(p) PROVE WaitPids'
    BY <1>1, <1>6 DEF reap, exit, process_kill_self
<1>7. ASSUME NEW p \in Pids,
             \/ \E c \in Pids, app \in Apps : clone(p, c, app)
             \/ \E c \in Pids : process_fork(p, c)
             \/ \E app \in Apps : process_exec(p, app)
             \/ \E d \in Dirs : syscall_handle_chdir(p, d)
             \/ \E f \in Fds, what \in Files : open(p, f, what)
             \/ \E f \in Fds : close(p, f)
      PROVE  WaitPids'
    BY <1>2, <1>7 DEF clone, process_fork, process_exec, syscall_handle_chdir, open, close
<1>8. CASE UNCHANGED procfsVars
    BY <1>2, <1>8 DEF procfsVars
<1> QED BY <1>3, <1>4, <1>5, <1>6, <1>7, <1>8 DEF ProcfsNext

\* /proc tells the truth of the living and lists the dead as dead, for every
\* number of slots and descriptors: whoever dies, is killed, orphaned or
\* recycled, and whoever has whose status file open; a process that cannot
\* open its own file has an empty one, never an old one (procfs_sync_process,
\* procfs_cleanup and their callers).
THEOREM ProcfsSafe == ProcfsSpec => []ProcTellsTruth
<1>1. Sizes
    BY ProcfsSizes, ProcfsNames DEF Sizes
<1>2. ProcfsInit => ProcInv
    BY <1>1, ProcInit
<1>3. ProcInv /\ [ProcfsNext]_procfsVars => ProcInv'
    BY <1>1, ProcNext
<1>4. ProcfsInit => WaitPids
    BY DEF ProcfsInit, WaitPids
<1>5. WaitPids /\ [ProcfsNext]_procfsVars => WaitPids'
    BY WaitPidsNext
<1> QED BY <1>2, <1>3, <1>4, <1>5, InvTells, PTL DEF ProcfsSpec
=============================================================================
