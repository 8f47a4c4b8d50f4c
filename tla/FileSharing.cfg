CONSTANTS
    Pids = {1, 2}
    shell = 1
    FS_FD_MAX = 2
    FS_MAX_NODES = 3
    FS_FILE_MAX_SIZE = 2
    Names <- MCNames
    MountPoints <- MCMountPoints
    Paths <- SharedPaths
    OpenFlags <- ReadWrite
    Bytes = {1}
    DeviceErrors = FALSE
    PowerCuts = FALSE
SPECIFICATION Spec
INVARIANTS TypeOK OpenNodeIsFile TreeSound UniqueNames NoStaleBytes FreeSlotClosed
