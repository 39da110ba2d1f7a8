---------------------------- MODULE MC_Launcher ----------------------------
(* Argument vectors for the wrapper: argv[0] is dex2oat or dex2oatd, "opt"*)
(* stands for any other compiler option.  Package "pa" is deny-listed.    *)
EXTENDS Launcher

Prog == Arg("prog", "none", "dex2oat")
ProgD == Arg("prog", "none", "dex2oatd")
Opt == Arg("opt", "none", NoPkg)
Cp(layout, p) == Arg("cp", layout, p)

MC_Denied == {"pa"}

\* Android 11+ app dirs, an APEX dir, an unknown layout, no classpath at
\* all, and two classpath arguments of which only the first counts.
MC_Argvs ==
    { <<Prog>>, <<Prog, Opt>>,
      <<Prog, Cp("app", "pa"), Opt>>, <<Prog, Cp("app", "pb")>>,
      <<Prog, Cp("apex", "pa")>>, <<Prog, Cp("other", NoPkg)>>,
      <<Prog, Opt, Cp("app", "pb"), Cp("app", "pa")>>,
      <<ProgD, Cp("app", "pa")>>, <<ProgD, Opt>> }

\* The same with an Android 10 app dir /data/app/<pkg>-<n>.
MC_OldArgvs == MC_Argvs \cup { <<Prog, Cp("app_old", "pa")>> }
=============================================================================
