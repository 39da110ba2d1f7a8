------------------------------ MODULE Launcher ------------------------------
(***************************************************************************)
(* The dex2oat wrapper.  Installd starts it in place of dex2oat; it       *)
(* fetches descriptors and a deny-list answer from the LSPosed daemon     *)
(* over the abstract socket and replaces itself by the real compiler.     *)
(* Variant "legacy" is dex2oat.c (denylist check, fexecve of the stock    *)
(* fd with LD_PRELOAD), variant "new" is dex2oat.cpp (execve of the       *)
(* linker with the stock fd path, LD_PRELOAD and DEX2OAT_CMD).  The       *)
(* daemon side is the Java Dex2OatService (not in this repository): its   *)
(* replies are the outcomes spec 4.1 allows, chosen nondeterministically.  *)
(***************************************************************************)
EXTENDS Integers, Sequences, FiniteSets

CONSTANTS
    Variants,       \* builds to check: subset of {"legacy", "new"}
    Argvs,          \* argument vectors installd can start the wrapper with
    Denied,         \* packages the daemon's isInDenylist answers true for
    Garbled,        \* the name read from a classpath dir of another layout
    ConnectMayFail, \* connect() on the abstract socket can fail
    RecvOutcomes,   \* subset of {"fd", "malformed", "error"} for a recvmsg
    ReadOutcomes,   \* subset of {"reply", "error", "eof"} for an int read
    ExecMayFail     \* fexecve / execve can fail

ASSUME Variants \subseteq {"legacy", "new"}
ASSUME ReadOutcomes \subseteq {"reply", "error", "eof"}
ASSUME RecvOutcomes \subseteq {"fd", "malformed", "error"}

NoFd == "-1"
NoPkg == "none"
Arg(k, l, p) == [kind |-> k, layout |-> l, pkg |-> p]
Flag == Arg("flag", "none", NoPkg)          \* --inline-max-code-units=0
Linker == Arg("linker", "none", NoPkg)      \* /apex/com.android.runtime/bin/linker64
FdPath(fd) == Arg("fdpath", "none", fd)     \* /proc/self/fd/<fd>
NoExec == [via |-> "none"]

\* Sockets the wrapper creates, in creation order.
Sockets == {"sock1", "sock2", "sock3", "sock4"}

VARIABLES
    argv,     \* the wrapper's own argv
    ldpath,   \* LD_LIBRARY_PATH is set in the environment
    pc,       \* next step of main()
    open,     \* descriptors open in the process
    stock,    \* stock_fd
    hooker,   \* hooker_fd
    pkg,      \* the package name sent with the denylist request
    answer,   \* is_in_denylist as read (legacy), <<>> before the read
    failure,  \* the first step that failed
    exec,     \* the image the process was replaced by
    exit,     \* exit code, 0 while running
    variant   \* the build that runs: "legacy" (dex2oat.c) or "new" (dex2oat.cpp)

vars == <<argv, ldpath, pc, open, stock, hooker, pkg, answer, failure, exec, exit, variant>>

\* Mutant: the control message header is not checked (l.63-67 dropped).
LegacyRecvFd_Unchecked(o, fd, earlier) == IF o = "fd" THEN {fd} ELSE {"garbage"}

\* ID_VEC / get_id_vec: the id names the debug compiler when argv[0]
\* contains "dex2oatd"; the daemon answers with that binary's descriptor.
IsDebug(av) == Head(av).pkg = "dex2oatd"
StockFd(av) == IF IsDebug(av) THEN "stockd" ELSE "stock"
StockFds == {"stock", "stockd"}

\* dex2oat.c recv_fd: the descriptor of a well-formed SCM_RIGHTS message,
\* -1 for a malformed one.  The result of recvmsg is not checked: after a
\* failed call msg_controllen is still bufsz and cmsgbuf is uninitialised
\* stack, so the header checks read whatever an earlier recv_fd of the
\* same frame left there: -1, or that call's descriptor (earlier).
LegacyRecvFd(o, fd, earlier) ==
    CASE o = "fd"        -> {fd}
      [] o = "malformed" -> {NoFd}
      [] o = "error"     -> {NoFd} \cup earlier

\* dex2oat.cpp recv_fds / recv_fd: -1 unless recvmsg succeeded with a
\* well-formed SCM_RIGHTS message.
NewRecvFd(o, fd) == IF o = "fd" THEN fd ELSE NoFd

\* The daemon's reply to a denylist request (Dex2OatService, spec 4.1).
ServerAnswer(p) == IF p \in Denied THEN 1 ELSE 0

\* dex2oat.c read_int: loops until 4 bytes arrived, so read() returning 0
\* at end of stream adds nothing and the loop never ends; -1 on an error.
LegacyReadSpins(o) == o = "eof"
LegacyReadInt(o) == IF o = "reply" THEN ServerAnswer(pkg) ELSE -1

\* dex2oat.cpp read_int: one read, anything short of 4 bytes is -1.
NewReadSpins(o) == FALSE

\* Mutant: if (is_in_denylist > 0).
InDenylist_Positive(a) == a > 0

\* if (is_in_denylist): C truthiness of the int read.
InDenylist(a) == a # 0

IsClasspath(a) == a.kind = "cp"

\* The package name cut out of --classpath-dir= (dex2oat.c l.172-177): the
\* fixed-length "~~<22 chars>==/" prefix only fits Android 11+ app dirs.
PackageName(a) == CASE a.layout = "app"     -> a.pkg
                    [] a.layout = "apex"    -> a.pkg
                    [] a.layout = "app_old" -> Garbled

Exit(code, why) ==
    /\ exit' = code
    /\ failure' = IF failure = "none" THEN why ELSE failure
    /\ pc' = "exited"

\* fexecve(fd, av, environ): only an open, valid descriptor can be executed.
\* dex2oat.c never sets DEX2OAT_CMD, nor does installd (cmd: <<>> unset).
Fexecve(fd, av, preload) ==
    \/ /\ fd \in open
       /\ exec' = [via |-> "fd", fd |-> fd, argv |-> av, preload |-> preload,
                   ldpath |-> ldpath, cmd |-> <<>>]
       /\ pc' = "execd"
       /\ UNCHANGED <<exit, failure>>
    \/ /\ fd \notin open \/ ExecMayFail
       /\ exec' = exec
       /\ Exit(2, "exec")

Init ==
    /\ variant \in Variants
    /\ argv \in Argvs
    /\ ldpath \in BOOLEAN
    /\ pc = "start"
    /\ open = {}
    /\ stock = "none"
    /\ hooker = "none"
    /\ pkg = NoPkg
    /\ answer = <<>>
    /\ failure = "none"
    /\ exec = NoExec
    /\ exit = 0

-----------------------------------------------------------------------------
(* dex2oat.c *)

\* l.122-148: LD_LIBRARY_PATH is set to the ART apex libs if absent; a
\* first socket is created and dropped, a second one connected.
LegacyConnect ==
    /\ variant = "legacy" /\ pc = "start"
    /\ ldpath' = TRUE
    /\ open' = open \cup {"sock1", "sock2"}
    /\ \/ pc' = "fetch_stock" /\ UNCHANGED <<exit, failure>>
       \/ ConnectMayFail /\ Exit(1, "transport")
    /\ UNCHANGED <<argv, variant, stock, hooker, pkg, answer, exec>>

\* l.150-164: op 1 with the compiler id, receive stock_fd, close the socket.
LegacyFetchStock ==
    /\ variant = "legacy" /\ pc = "fetch_stock"
    /\ \E o \in RecvOutcomes :
         /\ stock' \in LegacyRecvFd(o, StockFd(argv), {})
         /\ open' = (open \ {"sock2"}) \cup ({stock'} \ {NoFd})
         /\ IF stock' = NoFd THEN Exit(1, "transport")
            ELSE pc' = "scan" /\ UNCHANGED <<exit, failure>>
    /\ UNCHANGED <<argv, variant, ldpath, hooker, pkg, answer, exec>>

\* l.166-184: the first --classpath-dir= argument names the package.
LegacyScan ==
    /\ variant = "legacy" /\ pc = "scan"
    /\ LET cps == SelectSeq(argv, IsClasspath) IN
       CASE cps = <<>> ->
              pc' = "fetch_hook" /\ UNCHANGED <<pkg, exit, failure>>
         [] Head(cps).layout = "other" ->
              Exit(1, "layout") /\ UNCHANGED pkg
         [] OTHER ->
              pkg' = PackageName(Head(cps)) /\ pc' = "deny"
              /\ UNCHANGED <<exit, failure>>
    /\ UNCHANGED <<argv, variant, ldpath, open, stock, hooker, answer, exec>>

\* l.186-213: op 2 with the name; a yes runs the stock compiler unchanged.
LegacyDeny ==
    /\ variant = "legacy" /\ pc = "deny"
    /\ \/ /\ ConnectMayFail
          /\ open' = open \cup {"sock3"}
          /\ Exit(1, "transport")
          /\ UNCHANGED <<answer, exec>>
       \/ /\ open' = open
          /\ \E o \in ReadOutcomes :
               LET a == LegacyReadInt(o) IN
               IF LegacyReadSpins(o) THEN pc' = "spin" /\ UNCHANGED <<answer, exit, failure, exec>>
               ELSE /\ answer' = <<a>>
                    /\ IF InDenylist(a)
                       THEN Fexecve(stock, argv, "none")
                       ELSE pc' = "fetch_hook" /\ UNCHANGED <<exit, failure, exec>>
    /\ UNCHANGED <<argv, variant, ldpath, stock, hooker, pkg>>

\* l.216-237: op 1 with the hook library id; when no descriptor comes,
\* stock_fd is closed and main() goes on.
LegacyFetchHook ==
    /\ variant = "legacy" /\ pc = "fetch_hook"
    /\ \/ /\ ConnectMayFail
          /\ open' = (open \cup {"sock4"}) \ {stock}
          /\ Exit(1, "transport")
          /\ UNCHANGED hooker
       \/ \E o \in RecvOutcomes :
            /\ hooker' \in LegacyRecvFd(o, "hook", {stock})
            /\ open' = IF hooker' = NoFd THEN open \ {stock}
                       ELSE open \cup {hooker'}
            /\ failure' = IF hooker' = NoFd THEN "transport" ELSE failure
            /\ pc' = "relaunch"
            /\ UNCHANGED exit
    /\ UNCHANGED <<argv, variant, ldpath, stock, pkg, answer, exec>>

\* l.241-258: fexecve(stock_fd) with the flag appended and
\* LD_PRELOAD=/proc/<pid>/fd/<hooker_fd>.
LegacyRelaunch ==
    /\ variant = "legacy" /\ pc = "relaunch"
    /\ Fexecve(stock, argv \o <<Flag>>, hooker)
    /\ UNCHANGED <<argv, variant, ldpath, open, stock, hooker, pkg, answer>>

-----------------------------------------------------------------------------
(* dex2oat.cpp *)

\* l.119-131 and l.133-143: connect, send the bare id, receive a descriptor,
\* read the sync int, close the socket.  Neither result is checked.
NewFetch(sock, fd, next) ==
    /\ \/ /\ ConnectMayFail
          /\ Exit(1, "transport")
          /\ UNCHANGED <<open, stock, hooker>>
       \/ \E r \in RecvOutcomes, o \in ReadOutcomes :
            /\ IF fd \in StockFds THEN stock' = NewRecvFd(r, fd) /\ UNCHANGED hooker
                               ELSE hooker' = NewRecvFd(r, fd) /\ UNCHANGED stock
            /\ open' = open \cup ({NewRecvFd(r, fd)} \ {NoFd})
            /\ pc' = IF NewReadSpins(o) THEN "spin" ELSE next
            /\ UNCHANGED <<exit, failure>>
    /\ UNCHANGED <<argv, variant, ldpath, pkg, answer, exec>>

NewFetchStock == variant = "new" /\ pc = "start" /\ NewFetch("sock1", StockFd(argv), "fetch_hook")
NewFetchHook == variant = "new" /\ pc = "fetch_hook" /\ NewFetch("sock2", "hook", "relaunch")

\* Mutant: DEX2OAT_CMD is not exported (l.181-185 dropped).
NewExec_NoCmd ==
    /\ variant = "new" /\ pc = "relaunch"
    /\ \/ /\ exec' = [via |-> "linker", fd |-> stock,
                       argv |-> <<Linker, FdPath(stock)>> \o Tail(argv) \o <<Flag>>,
                       preload |-> hooker, ldpath |-> FALSE, cmd |-> <<>>]
          /\ ldpath' = FALSE
          /\ pc' = "execd"
          /\ UNCHANGED <<exit, failure>>
       \/ ExecMayFail /\ Exit(2, "exec") /\ ldpath' = FALSE /\ UNCHANGED exec
    /\ UNCHANGED <<argv, variant, open, stock, hooker, pkg, answer>>

\* l.150-194: execve(linker, [linker, /proc/self/fd/<stock_fd>, argv[1..],
\* flag]) with LD_LIBRARY_PATH unset, LD_PRELOAD=/proc/self/fd/<hooker_fd>
\* and DEX2OAT_CMD=argv[0].  The linker binary always exists.  The argv and
\* environment it gets are what spec 6 calls the relaunch contract.
NewExec ==
    /\ variant = "new" /\ pc = "relaunch"
    /\ \/ /\ exec' = [via |-> "linker", fd |-> stock,
                       argv |-> <<Linker, FdPath(stock)>> \o Tail(argv) \o <<Flag>>,
                       preload |-> hooker, ldpath |-> FALSE, cmd |-> <<Head(argv)>>]
          /\ ldpath' = FALSE
          /\ pc' = "execd"
          /\ UNCHANGED <<exit, failure>>
       \/ ExecMayFail /\ Exit(2, "exec") /\ ldpath' = FALSE /\ UNCHANGED exec
    /\ UNCHANGED <<argv, variant, open, stock, hooker, pkg, answer>>

Next ==
    \/ LegacyConnect \/ LegacyFetchStock \/ LegacyScan \/ LegacyDeny
    \/ LegacyFetchHook \/ LegacyRelaunch
    \/ NewFetchStock \/ NewFetchHook \/ NewExec

\* main() runs on one thread with nothing else to wait for.
Spec == Init /\ [][Next]_vars /\ WF_vars(Next)

-----------------------------------------------------------------------------
(* Properties *)

Fds == Sockets \cup StockFds \cup {"hook"}

TypeOK ==
    /\ pc \in {"start", "fetch_stock", "scan", "deny", "fetch_hook", "relaunch",
              "spin", "execd", "exited"}
    /\ open \subseteq Fds
    /\ stock \in {"none", NoFd} \cup StockFds
    /\ hooker \in {"none", "hook", NoFd} \cup StockFds
    /\ answer \in {<<>>, <<-1>>, <<0>>, <<1>>}
    /\ failure \in {"none", "transport", "layout", "exec"}
    /\ exit \in {0, 1, 2}
    /\ variant \in Variants
    /\ (exec = NoExec) = (pc # "execd")

\* The package installd compiles: the one of the first --classpath-dir=.
Package(av) ==
    LET cps == SelectSeq(av, IsClasspath) IN
    IF cps = <<>> THEN NoPkg ELSE Head(cps).pkg

Hooked(e) == e.preload # "none"

\* Spec 4.2 steps 1, 2 and 4, spec 5: the image the wrapper becomes runs
\* the real compiler of the variant it was invoked as (debug or not), from
\* the stock descriptor it received, and a hooked run
\* preloads the hook library from the descriptor it received, whatever
\* fetch failed on the way (stock_fd / hooker_fd handling in main()).
ExecInputsValid ==
    exec # NoExec => /\ exec.fd = StockFd(argv)
                     /\ Hooked(exec) => exec.preload = "hook"

\* Spec 4.2 step 3: a package the daemon deny-lists is compiled by the
\* stock compiler with its original argv and no preload: the classpath
\* parsing, the op 2 exchange and the branch on its answer in main().
DeniedNeverHooked ==
    (exec # NoExec /\ Package(argv) \in Denied) =>
        ~Hooked(exec) /\ exec.argv = argv

\* DeniedNeverHooked of the dex2oat.c build, in a run that checks both
\* builds: dex2oat.cpp sends no op 2 request at all.
LegacyDeniedNeverHooked == variant = "legacy" => DeniedNeverHooked

\* Every wrapper run ends: it is replaced by the compiler or exits,
\* whatever the daemon sends or fails to send (the reads in main()).
LauncherTerminates == <>(pc \in {"execd", "exited"})
=============================================================================
