----------------------------- MODULE MCLiveness -----------------------------
(***************************************************************************)
(* The components of which something must eventually happen: the process   *)
(* table, the block driver and console input, each on a small instance and *)
(* with its own fairness.  In one behaviour one of them moves.             *)
(***************************************************************************)
EXTENDS Process, VirtioBlk, Console

VARIABLE part

InProcess(A) == part = "process" /\ A /\ UNCHANGED <<part, blkVars, consoleVars>>
InDriver(A) == part = "driver" /\ A /\ UNCHANGED <<part, vars, consoleVars>>
InConsole(A) == part = "console" /\ A /\ UNCHANGED <<part, vars, blkVars>>

LiveInit ==
    /\ part \in {"process", "driver", "console"}
    /\ Init /\ BlkInit /\ ConsoleInit
    /\ part # "driver" => \A blk \in Blocks : disk[blk] = disk[0]    \* any one will do

LiveNext == InProcess(Next) \/ InDriver(BlkNext) \/ InConsole(ConsoleNext)

liveVars == <<part, vars, blkVars, consoleVars>>

\* The process table: see Fairness in Process.  The driver runs with interrupts
\* disabled and polls, so it always goes on, and a device that has not hung goes
\* on with its request.  The timer, which polls the console, goes on firing,
\* also while everyone waits; of the scheduler nothing is assumed there.
LiveSpec ==
    /\ LiveInit /\ [][LiveNext]_liveVars
    /\ WF_liveVars(InProcess(KernelStep))
    /\ WF_liveVars(InProcess(Resume))
    /\ SF_liveVars(InProcess(TimerStep))
    /\ WF_liveVars(InDriver(DriverStep))
    /\ WF_liveVars(InDriver(Device))
    /\ WF_liveVars(InConsole(Poll))
=============================================================================
