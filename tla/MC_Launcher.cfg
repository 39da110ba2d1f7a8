\* dex2oat.c and dex2oat.cpp against a daemon that may fail any exchange
\* but never closes a connection without replying.
CONSTANTS
    Variants = {"legacy", "new"}
    Argvs <- MC_Argvs
    Denied <- MC_Denied
    Garbled = "garbled"
    ConnectMayFail = TRUE
    RecvOutcomes = {"fd", "malformed", "error"}
    ReadOutcomes = {"reply", "error"}
    ExecMayFail = TRUE
SPECIFICATION Spec
INVARIANTS TypeOK LegacyDeniedNeverHooked
\* The process ends by exec or exit.
CHECK_DEADLOCK FALSE
