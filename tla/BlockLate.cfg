CONSTANTS
    BLOCKDEV_BLOCK_COUNT = 3
    Capacity = 2
    MaxBlock = 1
    IDX = 4
    Data = {d1, d2}
    NoData = NoData
    Late = TRUE
SPECIFICATION BlkSpec
INVARIANT WrittenIsOnDisk
CHECK_DEADLOCK FALSE
