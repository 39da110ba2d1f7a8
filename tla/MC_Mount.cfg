\* Switching the wrapper on and off, with one daemon restart.
CONSTANTS
    Paths <- MC_Paths
    MaxCalls = 5
    MaxRestarts = 1
    UmountMayFail = TRUE
    MountMayFail = FALSE
    SetnsMayFail = FALSE
    JniMayHang = FALSE
    ForkMayFail = TRUE
    Threads = {t1}
    OtherKids = {mnt}
    MountKid = mnt
    ExecMayFail = TRUE
SPECIFICATION Spec
PROPERTY ExecReturns
\* The caller stops after MaxCalls calls.
CHECK_DEADLOCK FALSE
