SPECIFICATION Spec
CONSTANTS
    PROCS_MAX = 4
    SCHED_TIME_SLICE_TICKS = 1
    INPUT_BUF_SIZE = 2
    Messages <- MCMessages
INVARIANTS TypeOK NoLostChildWakeup NoLostInputWakeup ParentAlive ParentForest ResumedAlive
PROPERTIES ZombieKeptForParent TreeSpec
