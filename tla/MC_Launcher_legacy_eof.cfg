\* dex2oat.c with a daemon that may close the denylist connection without a reply.
CONSTANTS
    Variants = {"legacy"}
    Argvs <- MC_Argvs
    Denied <- MC_Denied
    Garbled = "garbled"
    ConnectMayFail = FALSE
    RecvOutcomes = {"fd"}
    ReadOutcomes = {"reply", "eof"}
    ExecMayFail = FALSE
SPECIFICATION Spec
PROPERTY LauncherTerminates
\* The process ends by exec or exit.
CHECK_DEADLOCK FALSE
