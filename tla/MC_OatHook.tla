----------------------------- MODULE MC_OatHook -----------------------------
(* Instantiates OatHook for TLC.  Characters stand for the strings of the  *)
(* real store:                                                             *)
(*   "a"  key apex-versions   (non-deterministic length, padded)           *)
(*   "k"  key dex2oat-cmdline (non-deterministic length, padded)           *)
(*   "r"  key requires-image  (fixed length; sorts after the cmdline)      *)
(*   "q"  the /proc/self/fd/N path dex2oat was started as                  *)
(*   "pp" DEX2OAT_CMD, the wrapper's original argv[0]: longer than the fd  *)
(*        path, shorter than the fd path and the flag together, as        *)
(*        /apex/com.android.art/bin/dex2oat64 against /proc/self/fd/N      *)
(*   "f"  --inline-max-code-units=0;  "x" any other argument               *)
EXTENDS OatHook

MC_NUL == "0"
MC_CmdLineKey == <<"k">>
MC_NonDetKeys == {<<"a">>, <<"k">>}
MC_ParamToRemove == <<"f">>
MC_BinaryPath == <<"p", "p">>
MC_Space == " "
MC_CharRank == [c \in {" ", "a", "f", "k", "p", "q", "r", "x"} |->
                  CASE c = " " -> 1 [] c = "a" -> 2 [] c = "f" -> 3 [] c = "k" -> 4
                    [] c = "p" -> 5 [] c = "q" -> 6 [] c = "r" -> 7 [] c = "x" -> 8]

MC_FdArg == <<"q">>

\* installd's arguments in the stores below: none, "x", or "ff", an
\* argument that holds the flag's text without being the flag.
MC_InstalldArgs == {<<>>, <<<<"x">>>>, <<<<"f", "f">>>>}

\* dex2oat records its argv joined by spaces: the fd path, the original
\* arguments, then the flag the wrapper appended.
MC_CmdLines ==
  { ArgvString(MC_FdArg, args \o <<<<"f">>>>) :
      args \in {<<>>, <<<<"x">>>>, <<<<"f", "f">>>>} }

Zeros(n) == [i \in 1..n |-> "0"]
Entry(k, v, pad) == k \o <<"0">> \o v \o <<"0">> \o Zeros(pad)

\* Stores as OatHeader writes them: keys in std::map order, the padded
\* fields followed by NUL padding.  WithLast: requires-image is present.
Stores(WithLast) ==
  { Entry(<<"a">>, <<"x">>, pa) \o Entry(<<"k">>, c, pk)
      \o (IF WithLast THEN Entry(<<"r">>, <<"x">>, 0) ELSE <<>>) :
        pa \in 0..1, pk \in 0..2, c \in MC_CmdLines }
  \cup
  { Entry(<<"k">>, c, pk) \o (IF WithLast THEN Entry(<<"r">>, <<"x">>, 0) ELSE <<>>) :
        pk \in 0..2, c \in MC_CmdLines }

MC_StoresART == Stores(TRUE)
MC_StoresCmdLast == Stores(FALSE)
MC_Behind == {<<"x">>, <<"0", "x">>}
=============================================================================
