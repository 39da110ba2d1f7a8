------------------------------ MODULE Pipeline ------------------------------
(***************************************************************************)
(* One dex2oat invocation end to end (spec 2, data/control flow): the      *)
(* wrapper (Launcher) runs and replaces itself by the real compiler; the   *)
(* kernel and the dynamic linker start that image with the argv and the    *)
(* environment the wrapper passed; dex2oat records its argv as the         *)
(* dex2oat-cmdline of its OAT store and calls the header functions that    *)
(* liboat_hook.so (OatHook) intercepts.  The two components meet at the    *)
(* relaunch contract of spec 6: argv and DEX2OAT_CMD on the wrapper side   *)
(* are the recorded command line and g_binary_path on the hook side.       *)
(***************************************************************************)
EXTENDS Integers, Sequences, SequencesExt

CONSTANTS
  \* the wrapper, see Launcher
  Variants, Argvs, Denied, Garbled, ConnectMayFail, RecvOutcomes,
  ReadOutcomes, ExecMayFail,
  \* the hook, see OatHook
  NUL, Space, CmdLineKey, NonDetKeys, ParamToRemove, Behind, HookedSymbol,
  MapFound, CharRank, MaxCalls,
  \* the compiler
  Word(_),   \* the bytes of one argument
  Layouts    \* where OatHeader puts the cmdline pair among the other pairs:
             \* [pre |-> bytes before it, pad |-> NUL padding, post |-> bytes after]

VARIABLES
  argv, ldpath, lpc, open, stock, hooker, pkg, answer, failure, exec, exit, variant,
  mem, size, hook, hpc, ptr, storeEnd, newMap, modified, calls, before, oob,
  stage   \* "wrapper", then "compile" (hooked), "stock" (not hooked),
          \* "failed" (the image could not start) or "crashed"

lvars == <<argv, ldpath, lpc, open, stock, hooker, pkg, answer, failure, exec, exit, variant>>
hvars == <<mem, size, hook, hpc, ptr, storeEnd, newMap, modified, calls, before, oob>>
vars == <<lvars, hvars, stage>>

\* Spec 6, relaunch argv contract: the linker started as [linker,
\* /proc/self/fd/N, args...] runs N with argv [/proc/self/fd/N, args...];
\* fexecve runs the descriptor with the argv it was given.
CompilerArgv(e) == IF e.via = "linker" THEN Tail(e.argv) ELSE e.argv

\* The value dex2oat records under dex2oat-cmdline: its argv joined by
\* single spaces.
CmdLine(av) ==
  Word(av[1]) \o FlattenSeq([i \in 1..(Len(av) - 1) |-> <<Space>> \o Word(av[i + 1])])

\* The store OatHeader builds around a cmdline value.
StoreWith(l, cmd) ==
  l.pre \o CmdLineKey \o <<NUL>> \o cmd \o <<NUL>>
    \o [i \in 1..l.pad |-> NUL] \o l.post

Stores(e) == {StoreWith(l, CmdLine(CompilerArgv(e))) : l \in Layouts}

L == INSTANCE Launcher WITH pc <- lpc

HI(cmd, stores, fdarg, args) ==
  INSTANCE OatHook WITH pc <- hpc, BinaryPath <- cmd, InitStores <- stores,
                        FdArg <- fdarg, InstalldArgs <- args

\* The hook in the image the wrapper started: g_binary_path, the store
\* dex2oat built, and what the recorded command line was made of.
HookIn(e) ==
  [cmd |-> Word(e.cmd[1]), stores |-> Stores(e), fdarg |-> Word(Head(CompilerArgv(e))),
   args |-> {[i \in 1..(Len(argv) - 1) |-> Word(argv[i + 1])]}]

HNext == \E h \in {HookIn(exec)} : HI(h.cmd, h.stores, h.fdarg, h.args)!Next
HLoop == \E h \in {HookIn(exec)} :
           \/ HI(h.cmd, h.stores, h.fdarg, h.args)!SpoofInPlace
           \/ HI(h.cmd, h.stores, h.fdarg, h.args)!ParseEntry
           \/ HI(h.cmd, h.stores, h.fdarg, h.args)!EndParse

\* The linker maps the executable and every LD_PRELOAD library or stops
\* with "CANNOT LINK EXECUTABLE": both descriptors must be open ones.
Loadable(e) ==
  /\ e.fd \in open
  /\ e.preload \in open \cup {"none"}

Init ==
  /\ L!Init
  /\ stage = "wrapper"
  /\ mem = <<>> /\ size = 0 /\ hook = "none" /\ hpc = "load"
  /\ ptr = 0 /\ storeEnd = 0 /\ newMap = <<>> /\ modified = FALSE
  /\ calls = 0 /\ before = <<>> /\ oob = FALSE

\* The replaced image starts: the linker loads it and the preloaded hook,
\* whose namespace-scope initialiser builds g_binary_path from getenv:
\* std::string of a NULL pointer faults.  dex2oat then has its store, the
\* cmdline pair holding its argv (oat_hook.cpp l.24 and what precedes the
\* first hooked call).
Start ==
  /\ stage = "wrapper" /\ lpc = "execd"
  /\ CASE ~Loadable(exec)       -> stage' = "failed" /\ UNCHANGED hvars
       [] exec.preload = "none" -> stage' = "stock" /\ UNCHANGED hvars
       [] exec.cmd = <<>>       -> stage' = "crashed" /\ UNCHANGED hvars
       [] OTHER ->
            /\ stage' = "compile"
            /\ \E store \in Stores(exec), tail \in Behind :
                 mem' = store \o tail /\ size' = Len(store)
            /\ UNCHANGED <<hook, hpc, ptr, storeEnd, newMap, modified, calls, before, oob>>
  /\ UNCHANGED lvars

\* A step of the hook library inside the running compiler.
HookStep ==
  /\ stage = "compile"
  /\ HNext
  /\ UNCHANGED <<lvars, stage>>

\* The parse loop of SpoofKeyValueStore, as in OatHook.
SpoofLoop ==
  /\ stage = "compile"
  /\ HLoop
  /\ UNCHANGED <<lvars, stage>>

\* A step of the wrapper's main(); the compiler is not running yet.
WrapperStep ==
  /\ stage = "wrapper"
  /\ L!Next
  /\ UNCHANGED <<hvars, stage>>

\* A step of the wrapper, the image starting, or a step of the hook.
Next == WrapperStep \/ Start \/ HookStep

\* main() and the exec that follows it run on one thread with nothing else
\* to wait for; ART's calls to the hooked functions are not fair.
Spec == Init /\ [][Next]_vars /\ WF_vars(WrapperStep) /\ WF_vars(Start)
          /\ WF_vars(SpoofLoop)

-----------------------------------------------------------------------------
(* Properties *)

\* The dex2oat-cmdline values of the store as ART reads it.
CmdLineValues ==
  LET ps == HI(<<>>, {}, <<>>, {})!StorePairs(mem, size)
  IN  {ps[j].value : j \in {i \in DOMAIN ps : ps[i].key = CmdLineKey}}

\* Spec 4.2 ("externally indistinguishable once relaunch completes"), 4.3
\* and 8.7: a compilation the wrapper hooks is not crashed by the hook, and
\* once a hooked call has returned, the store's dex2oat-cmdline is the
\* command installd ran, argv[0] included - the argv and DEX2OAT_CMD that
\* NewExec passes, the linker's argv shift, and process_cmd with the
\* in-place or rebuild write of SpoofKeyValueStore together.
InvocationIndistinguishable ==
  /\ stage # "crashed"
  /\ (stage = "compile" /\ hpc = "idle" /\ before # <<>>)
       => CmdLineValues = {CmdLine(argv)}

=============================================================================
