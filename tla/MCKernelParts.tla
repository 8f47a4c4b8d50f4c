---------------------------- MODULE MCKernelParts ----------------------------
(***************************************************************************)
(* Traps, the clocks and /proc, each on a small instance.  They share no   *)
(* variable, so in one behaviour one of them moves.                        *)
(***************************************************************************)
EXTENDS Trap, Clock, Procfs

VARIABLE part

\* /proc: the files that are opened.
MCFiles == {2, Other}

PartsInit == part \in {"trap", "clock", "proc"} /\ Init /\ ClockInit /\ ProcfsInit

PartsNext ==
    /\ UNCHANGED part
    /\ \/ part = "trap" /\ Next /\ UNCHANGED <<clockVars, procfsVars>>
       \/ part = "clock" /\ ClockNext /\ UNCHANGED <<vars, procfsVars>>
       \/ part = "proc" /\ ProcfsNext /\ UNCHANGED <<vars, clockVars>>

PartsSpec == PartsInit /\ [][PartsNext]_<<part, vars, clockVars, procfsVars>>
=============================================================================
