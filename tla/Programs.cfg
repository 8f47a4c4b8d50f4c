CONSTANTS
    FS_FD_MAX = 4
    ARGV_MAX = 6
    ChildSlots = {1, 2}
    Lines <- MCLines
    Readable = {"f", "g"}
    Writable = {"f", "g"}
    Apps = {"cat"}
    Builtins = {"history", "exit"}
    CMDLINE_MAX = 3
    HISTORY_MAX = 2
    Chars = {"r", "m", " "}
    Blank = " "
    AppNames <- MCAppNames
    Shells = {s1, s2}
    Entered <- MCEntered
    FS_FILE_MAX_SIZE = 6
    BUF = 4
    FS_PATH_MAX = 7
    FS_NAME_MAX = 3
    DirsMax = 3
    Args <- MCArgs
    LastDay = 47800
    PROCS_MAX = 4
    managed_pages = 14
    ENTRIES = 3
    KernelVpn1 <- MCKernelVpn1
    USER_VPN1 = 1
    Images <- MCImages
SPECIFICATION ProgramsSpec
INVARIANTS LinesRunAsAsked LineShown HistoryKept PathsLeadRight DateIsRight
INVARIANTS PagesSound ImageMapped
PROPERTIES ImplementsEditor
CHECK_DEADLOCK FALSE
