\* dex2oat.cpp and liboat_hook.so together, against a daemon that may fail
\* any exchange or close the connection without replying.
CONSTANTS
    Variants = {"new"}
    Argvs <- MC_Argvs
    Denied = {"pa"}
    Garbled = "garbled"
    ConnectMayFail = TRUE
    RecvOutcomes = {"fd", "malformed", "error"}
    ReadOutcomes = {"reply", "error", "eof"}
    ExecMayFail = TRUE
    NUL <- MC_NUL
    Space <- MC_Space
    CharRank <- MC_CharRank
    CmdLineKey <- MC_CmdLineKey
    NonDetKeys <- MC_NonDetKeys
    ParamToRemove <- MC_ParamToRemove
    Behind <- MC_Behind
    HookedSymbol = "getter"
    MapFound = TRUE
    MaxCalls = 2
    Word <- MC_Word
    Layouts <- MC_Layouts
SPECIFICATION Spec
INVARIANT InvocationIndistinguishable
\* The wrapper ends by exec or exit, the compiler by returning to ART.
CHECK_DEADLOCK FALSE
