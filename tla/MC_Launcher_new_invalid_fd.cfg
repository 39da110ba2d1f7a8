\* dex2oat.cpp when the daemon answers a fetch without a descriptor.
CONSTANTS
    Variants = {"new"}
    Argvs <- MC_Argvs
    Denied <- MC_Denied
    Garbled = "garbled"
    ConnectMayFail = TRUE
    RecvOutcomes = {"fd", "malformed", "error"}
    ReadOutcomes = {"reply"}
    ExecMayFail = TRUE
SPECIFICATION Spec
INVARIANT ExecInputsValid
\* The process ends by exec or exit.
CHECK_DEADLOCK FALSE
