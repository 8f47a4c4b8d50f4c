CONSTANTS
    PROCS_MAX = 4
    MaxPc = 2
SPECIFICATION Spec
INVARIANT RegistersKept
