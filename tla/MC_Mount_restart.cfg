\* Switching the wrapper on and off across one daemon restart.
CONSTANTS
    Paths <- MC_Paths
    MaxCalls = 3
    MaxRestarts = 1
    UmountMayFail = FALSE
    MountMayFail = FALSE
    SetnsMayFail = FALSE
    JniMayHang = FALSE
    ForkMayFail = FALSE
    Threads = {t1, t2}
    OtherKids = {mnt}
    MountKid = mnt
    ExecMayFail = TRUE
SPECIFICATION Spec
INVARIANT ResolvesAsAsked
\* The caller stops after MaxCalls calls.
CHECK_DEADLOCK FALSE
