----------------------------- MODULE MC_Mount -----------------------------
EXTENDS Mount

\* The four dex2oat paths of a 64-bit device with 32-bit support.
MC_Paths == <<"r32", "d32", "r64", "d64">>
=============================================================================
