SPECIFICATION Spec
CONSTANTS
    PROCS_MAX = 3
    SCHED_TIME_SLICE_TICKS = 2
    INPUT_BUF_SIZE = 1
    Messages <- MCMessages
INVARIANT
    AddressSpaceLoaded
