CONSTANTS
    Pids = {1, 2}
    shell = 1
    FS_FD_MAX = 1
    FS_MAX_NODES = 4
    FS_FILE_MAX_SIZE = 1
    Names <- MCNames
    MountPoints = {"tmp"}
    Paths <- MCPaths
    ListPaths <- MCListPaths
    Hidden = {".c"}
    OpenFlags = {}
    Bytes = {}
    DeviceErrors = FALSE
    PowerCuts = FALSE
    Procs = {1, 2, 3}
    AppIds = {1}
    Words <- MCWords
    MaxWords = 3
    PROC_EXEC_ARGV_MAX = 2
    PROC_EXEC_ARG_LEN = 3
SPECIFICATION CallsSpec
INVARIANTS ListingRight SoundOnErrors ArgsDelivered
