\* dex2oat.cpp started for a deny-listed package.
CONSTANTS
    Variants = {"new"}
    Argvs <- MC_Argvs
    Denied <- MC_Denied
    Garbled = "garbled"
    ConnectMayFail = FALSE
    RecvOutcomes = {"fd"}
    ReadOutcomes = {"reply"}
    ExecMayFail = FALSE
SPECIFICATION Spec
INVARIANT DeniedNeverHooked
\* The process ends by exec or exit.
CHECK_DEADLOCK FALSE
