CONSTANTS
    PROCS_MAX = 4
    SCHED_TIME_SLICE_TICKS = 2
    INPUT_BUF_SIZE = 1
    Messages = {}
    BLOCKDEV_BLOCK_COUNT = 3
    Capacity = 2
    MaxBlock = 2
    IDX = 3
    Data = {d1, d2}
    NoData = NoData
    Late = FALSE
    Procs = {1, 2}
    Size = 2
    TypedMax = 5
SPECIFICATION LiveSpec
INVARIANTS RunningHasSlice DriverSound OneHangIsSurvived ConsoleSound
PROPERTIES OrphanZombieReaped CallReturns ImplementsBlockDevice WokenByInput
CHECK_DEADLOCK FALSE
