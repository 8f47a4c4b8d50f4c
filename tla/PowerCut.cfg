CONSTANTS
    Pids = {1}
    shell = 1
    FS_FD_MAX = 1
    FS_MAX_NODES = 4
    FS_FILE_MAX_SIZE = 2
    Names <- MCNames
    MountPoints <- MCMountPoints
    Paths <- DiskPaths
    OpenFlags <- WriteOnly
    Bytes = {1}
    DeviceErrors = FALSE
    PowerCuts = TRUE
SPECIFICATION Spec
INVARIANTS Durable DiskSound
PROPERTIES CrashLosesOneNode
