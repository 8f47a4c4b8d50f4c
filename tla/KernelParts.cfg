CONSTANTS
    PROCS_MAX = 4
    MaxPc = 2
    WordBits = 2
    NSEC = 3
    TIMER_INTERVAL = 2
    Pause = 3
    Pids = {1, 2, 3}
    FS_FD_MAX = 1
    Apps = {"shell"}
    Dirs = {"/", "/tmp"}
    Files <- MCFiles
SPECIFICATION PartsSpec
INVARIANTS ResumesWhereItStopped TrapStacksSound ClocksRight ProcTellsTruth
CHECK_DEADLOCK FALSE
