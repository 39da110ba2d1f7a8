---------------------------- MODULE MC_Pipeline ----------------------------
(* Instantiates Pipeline for TLC.  Arguments are Launcher records; their   *)
(* bytes are characters of the store alphabet of MC_OatHook:               *)
(*   "pp" /apex/com.android.art/bin/dex2oat64, "ppp" its dex2oatd64;       *)
(*   "q"  /proc/self/fd/N;  "f" --inline-max-code-units=0;                 *)
(*   "ff" an argument holding the flag's text;  "x" any other argument;    *)
(*   "a", "k", "r" the keys apex-versions, dex2oat-cmdline, requires-image. *)
EXTENDS Pipeline

\* Launcher's Arg records, spelt out: the constants cannot be built from
\* operators of the instance they parameterise.
Prog == [kind |-> "prog", layout |-> "none", pkg |-> "dex2oat"]
ProgD == [kind |-> "prog", layout |-> "none", pkg |-> "dex2oatd"]
Opt == [kind |-> "opt", layout |-> "none", pkg |-> "none"]
FlagText == [kind |-> "opt", layout |-> "none", pkg |-> "ff"]

MC_Argvs == { <<Prog>>, <<Prog, Opt>>, <<ProgD, Opt>>, <<Prog, FlagText, Opt>> }

MC_Word(a) ==
  CASE a.kind = "prog" /\ a.pkg = "dex2oatd" -> <<"p", "p", "p">>
    [] a.kind = "prog"   -> <<"p", "p">>
    [] a.kind = "fdpath" -> <<"q">>
    [] a.kind = "flag"   -> <<"f">>
    [] a.pkg = "ff"      -> <<"f", "f">>
    [] OTHER             -> <<"x">>

MC_NUL == "0"
MC_Space == " "
MC_CmdLineKey == <<"k">>
MC_NonDetKeys == {<<"a">>, <<"k">>}
MC_ParamToRemove == <<"f">>
MC_CharRank == [c \in {" ", "a", "f", "k", "p", "q", "r", "x"} |->
                  CASE c = " " -> 1 [] c = "a" -> 2 [] c = "f" -> 3 [] c = "k" -> 4
                    [] c = "p" -> 5 [] c = "q" -> 6 [] c = "r" -> 7 [] c = "x" -> 8]

Entry(k, v, pad) == k \o <<"0">> \o v \o <<"0">> \o [i \in 1..pad |-> "0"]

\* apex-versions (padded or not) or nothing before the cmdline, NUL
\* padding of 0 to 2 bytes after it, requires-image after it.
MC_Layouts ==
  [pre : {<<>>, Entry(<<"a">>, <<"x">>, 0), Entry(<<"a">>, <<"x">>, 1)},
   pad : 0..2,
   post : {Entry(<<"r">>, <<"x">>, 0)}]

MC_Behind == {<<"x">>, <<"0", "x">>}
=============================================================================
