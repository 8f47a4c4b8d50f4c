------------------------------ MODULE ProcTree ------------------------------
(***************************************************************************)
(* What the process subsystem promises to the programs that use it: a      *)
(* process is free, live or a zombie; a zombie has a live parent and stays *)
(* until that parent collects it; when a process ends, its live children   *)
(* become orphans and its zombie children disappear; a message stays in    *)
(* the one-place mailbox of a live process until that process takes it.    *)
(* Scheduling, waiting and the moment at which slots are reclaimed are not *)
(* part of the promise.                                                    *)
(***************************************************************************)
CONSTANTS Procs,      \* process identifiers
          Root,       \* the process whose exit ends the system
          Nobody,     \* the parent of an orphan
          Messages

VARIABLES status, parent, mail, halted

vars == <<status, parent, mail, halted>>

TypeOK ==
    /\ status \in [Procs -> {"free", "live", "zombie"}]
    /\ parent \in [Procs -> Procs \cup {Nobody}]
    /\ mail \in [Procs -> SUBSET (Procs \X Messages)]
    /\ halted \in BOOLEAN

Init ==
    /\ status = [p \in Procs |-> IF p = Root THEN "live" ELSE "free"]
    /\ parent = [p \in Procs |-> Nobody]
    /\ mail = [p \in Procs |-> {}]
    /\ halted = FALSE

Spawn(p, c) ==
    /\ status[p] = "live" /\ status[c] = "free"
    /\ status' = [status EXCEPT ![c] = "live"]
    /\ parent' = [parent EXCEPT ![c] = p]
    /\ UNCHANGED <<mail, halted>>

\* p ends and becomes fate; nobody is left to collect its zombies.
Ends(p, fate) ==
    /\ p # Root
    /\ status[p] = "live"
    /\ status' = [q \in Procs |->
                    IF q = p THEN fate
                    ELSE IF status[q] = "zombie" /\ parent[q] = p
                    THEN "free" ELSE status[q]]
    /\ parent' = [q \in Procs |->
                    IF parent[q] = p \/ (q = p /\ fate = "free")
                    THEN Nobody ELSE parent[q]]
    /\ mail' = [mail EXCEPT ![p] = {}]
    /\ UNCHANGED halted

Exit(p) == Ends(p, IF parent[p] = Nobody THEN "free" ELSE "zombie")

Kill(p) == Ends(p, "free")

Collect(p, c) ==
    /\ status[p] = "live" /\ status[c] = "zombie" /\ parent[c] = p
    /\ status' = [status EXCEPT ![c] = "free"]
    /\ parent' = [parent EXCEPT ![c] = Nobody]
    /\ UNCHANGED <<mail, halted>>

Send(p, q, m) ==
    /\ status[p] = "live" /\ status[q] = "live" /\ mail[q] = {}
    /\ mail' = [mail EXCEPT ![q] = {<<p, m>>}]
    /\ UNCHANGED <<status, parent, halted>>

Receive(p) ==
    /\ status[p] = "live" /\ mail[p] # {}
    /\ mail' = [mail EXCEPT ![p] = {}]
    /\ UNCHANGED <<status, parent, halted>>

Shutdown ==
    /\ halted' = TRUE
    /\ UNCHANGED <<status, parent, mail>>

Next ==
    /\ ~halted
    /\ \/ \E p, q \in Procs : Spawn(p, q) \/ Collect(p, q)
       \/ \E p, q \in Procs, m \in Messages : Send(p, q, m)
       \/ \E p \in Procs : Exit(p) \/ Kill(p) \/ Receive(p)
       \/ Shutdown

Spec == Init /\ [][Next]_vars
=============================================================================
