CONSTANTS
    Pids = {1, 2}
    FS_FD_MAX = 1
    Apps = {"shell", "ps"}
    Dirs = {"/", "/tmp"}
    Files = {1, 2}
SPECIFICATION ProcfsSpec
PROPERTIES KilledIsGone
CHECK_DEADLOCK FALSE
