------------------------------- MODULE Mount -------------------------------
(***************************************************************************)
(* doMountNative (daemon dex2oat.cpp l.33-81): the daemon forks a child   *)
(* that enters pid 1's mount namespace and, for every dex2oat path it was *)
(* given, bind-mounts the wrapper over it and remounts the bind read-only *)
(* (enable) or unmounts it (disable), ignoring every result, then exits.  *)
(* The parent waits for the child.  The caller is the Java                *)
(* Dex2OatService (not in this repository): it switches the wrapper on or *)
(* off when its own flag changes, and its flag starts off again when the  *)
(* daemon process restarts, while the mounts of pid 1's namespace stay.   *)
(* When fork() fails the daemon itself takes the child's branch: its      *)
(* setns fails, its mounts land in its own namespace, and its exit(1)     *)
(* ends the daemon with every thread in it.                               *)
(***************************************************************************)
EXTENDS Integers, Sequences, ExecCommand

CONSTANTS
    Paths,        \* the non-null jstrings r32, d32, r64, d64, in that order
    MaxCalls,     \* bound on doMountNative calls
    MaxRestarts,  \* bound on daemon restarts
    UmountMayFail, \* umount can fail with EBUSY while the wrapper file is in use
    MountMayFail,  \* a bind or a read-only remount can fail
    SetnsMayFail,  \* open of /proc/1/ns/mnt or setns can fail
    JniMayHang,    \* a JNI call of the forked child can block for good
    ForkMayFail,   \* fork() of l.39 can fail
    MountKid       \* the doMountNative child's slot in the daemon's child table

ASSUME Paths \in Seq(STRING) /\ MaxCalls \in Nat /\ MaxRestarts \in Nat
ASSUME MountKid \in OtherKids
ASSUME {UmountMayFail, MountMayFail, SetnsMayFail, JniMayHang, ForkMayFail} \subseteq BOOLEAN

PathSet == {Paths[i] : i \in 1..Len(Paths)}

VARIABLES
    mounts,    \* path -> stack of wrapper bind mounts in pid 1's namespace,
               \*         each [ro |-> BOOLEAN]; <<>> means the stock binary
    enabled,   \* the service's flag (Java, lost on restart)
    call,      \* the running call: [on |-> BOOLEAN, i |-> next path, step,
               \*   ns |-> the mount namespace of the process running the
               \*   child's branch, proc |-> that process, "child" or
               \*   "daemon" when fork() failed]
    asked,     \* path -> what the last finished call asked for it
    calls,     \* calls made
    restarts   \* restarts happened

mountVars == <<mounts, enabled, call, asked, calls, restarts>>
vars == <<mountVars, execVars>>

NoCall == [on |-> FALSE, i |-> 0, step |-> "none", ns |-> "none", proc |-> "none"]

Init ==
    /\ mounts = [p \in PathSet |-> <<>>]
    /\ enabled = FALSE
    /\ call = NoCall
    /\ asked = [p \in PathSet |-> FALSE]
    /\ calls = 0
    /\ restarts = 0
    /\ ExecInit

\* Dex2OatService: doMountNative(on, ...) when its flag changes.  The
\* fork of l.39 copies the write ends of the pipes open in the daemon;
\* when it returns -1, the else branch of l.41 runs in the daemon.
Toggle(on) ==
    /\ call = NoCall /\ calls < MaxCalls
    /\ on # enabled
    /\ enabled' = on
    /\ calls' = calls + 1
    /\ \/ /\ call' = [on |-> on, i |-> 1, step |-> "setns", ns |-> "daemon", proc |-> "child"]
          /\ kid' = [kid EXCEPT ![MountKid] = "run"]
          /\ wend' = Inherit(MountKid)
       \/ /\ ForkMayFail
          /\ call' = [on |-> on, i |-> 1, step |-> "setns", ns |-> "daemon", proc |-> "daemon"]
          /\ UNCHANGED <<kid, wend>>
    /\ UNCHANGED <<mounts, asked, restarts, tpc, wrote, result>>

\* The child's mount syscalls change what installd sees only when it
\* entered pid 1's namespace; otherwise they act on the daemon's own.
InPid1(op) == IF call.ns = "pid1" THEN op ELSE UNCHANGED mounts

\* mount(2), its result ignored (l.55-68): a failed call changes nothing.
MountCall(op) == InPid1(op) \/ (MountMayFail /\ UNCHANGED mounts)

\* mount(dex2oat, p, MS_BIND): stacks a new read-write bind.
Bind(p) == MountCall(mounts' = [mounts EXCEPT ![p] = Append(@, [ro |-> FALSE])])

\* mount(NULL, p, MS_BIND|MS_REMOUNT|MS_RDONLY): makes the top mount of p
\* read-only; EINVAL when p is no mount point.
Remount(p) == MountCall(
    mounts' = IF mounts[p] = <<>> THEN mounts
              ELSE [mounts EXCEPT ![p][Len(mounts[p])].ro = TRUE])

\* umount(p): removes the top mount of p only; EINVAL when there is none,
\* EBUSY (ok false) when the mount is in use.
Umount(p, ok) == InPid1(
    mounts' = IF mounts[p] = <<>> \/ ~ok THEN mounts
              ELSE [mounts EXCEPT ![p] = SubSeq(@, 1, Len(@) - 1)])

UmountResults == IF UmountMayFail THEN BOOLEAN ELSE {TRUE}

\* l.42-50, before the first mount: open("/proc/1/ns/mnt") and setns,
\* both unchecked (a failure leaves the child in the daemon's namespace),
\* then GetStringUTFChars in the forked child of a multi-threaded JVM,
\* where a lock another thread held at fork is never released.  Run by
\* the daemon itself, setns(CLONE_NEWNS) fails (EINVAL: its threads share
\* one fs context) and the JNI calls run where no lock is orphaned.
Enter ==
    /\ call.step = "setns"
    /\ \E joined \in CASE call.proc = "daemon" -> {FALSE}
                      [] SetnsMayFail        -> BOOLEAN
                      [] OTHER               -> {TRUE},
         hang \in IF JniMayHang /\ call.proc = "child" THEN BOOLEAN ELSE {FALSE} :
         call' = [call EXCEPT !.ns = IF joined THEN "pid1" ELSE "daemon",
                              !.step = CASE hang    -> "hung"
                                         [] call.on -> "bind"
                                         [] OTHER   -> "umount"]
    /\ UNCHANGED <<mounts, enabled, asked, calls, restarts, execVars>>

\* One mount syscall of the child, l.52-75: bind then remount per path
\* when enabling, umount per path when disabling.
ChildStep ==
    /\ call.step \in {"bind", "remount", "umount"} /\ call.i <= Len(Paths)
    /\ LET p == Paths[call.i] IN
       CASE call.step = "bind"   -> Bind(p)   /\ call' = [call EXCEPT !.step = "remount"]
         [] call.step = "remount" -> Remount(p) /\ call' = [call EXCEPT !.i = @ + 1, !.step = "bind"]
         [] call.step = "umount"  -> \E ok \in UmountResults :
                                        Umount(p, ok) /\ call' = [call EXCEPT !.i = @ + 1]
    /\ UNCHANGED <<enabled, asked, calls, restarts, execVars>>

\* l.78-79: after the last path the child exits.  Run by the daemon
\* after a failed fork, exit(1) ends the daemon: its write ends close and
\* its threads stop where they are.
ChildExit ==
    /\ call.step \in {"bind", "umount"} /\ call.i > Len(Paths)
    /\ \/ /\ call.proc = "child"
          /\ call' = [call EXCEPT !.step = "exited"]
          /\ Exited(MountKid)
       \/ /\ call.proc = "daemon"
          /\ call' = [call EXCEPT !.step = "dead"]
          /\ wend' = [u \in Threads |-> wend[u] \ {"daemon"}]
          /\ UNCHANGED kid
    /\ UNCHANGED <<mounts, enabled, asked, calls, restarts, tpc, wrote, result>>

\* l.40: waitpid(pid) in the parent returns once the child is a zombie,
\* or at once with ECHILD when a wait(NULL) of exec_command reaped it.
Waitpid ==
    /\ call.step = "exited" /\ kid[MountKid] # "run"
    /\ kid' = [kid EXCEPT ![MountKid] = "none"]
    /\ asked' = [p \in PathSet |-> call.on]
    /\ call' = NoCall
    /\ UNCHANGED <<mounts, enabled, calls, restarts, tpc, wrote, wend, result>>

\* The daemon process is started again, after it died between calls or
\* by its own exit(1): the Java flag starts off, pid 1's mount table keeps
\* what was mounted, children left unreaped go to init, and a call that
\* was cut short is made again from its start.
Restart ==
    /\ restarts < MaxRestarts
    /\ \/ call = NoCall /\ \A t \in Threads : tpc[t] \in {"pipe", "done"}
       \/ call.step = "dead"
    /\ enabled' = FALSE
    /\ restarts' = restarts + 1
    /\ call' = NoCall
    /\ kid' = [k \in Kids |-> "none"]
    /\ LET cut(t) == tpc[t] # "done" IN
       /\ tpc' = [t \in Threads |-> IF cut(t) THEN "pipe" ELSE "done"]
       /\ wrote' = [t \in Threads |-> wrote[t] /\ ~cut(t)]
       /\ wend' = [t \in Threads |-> {}]
       /\ result' = [t \in Threads |-> IF cut(t) THEN "none" ELSE result[t]]
    /\ UNCHANGED <<mounts, asked, calls>>

\* A step of an exec_command call of a binder thread, while the daemon
\* lives, or of its child.
Thread(t) == call.step # "dead" /\ ThreadStep(t) /\ UNCHANGED mountVars
Kid(t) == KidStep(t) /\ UNCHANGED mountVars
ExecStep == \E t \in Threads : Thread(t) \/ Kid(t)

Next == Toggle(TRUE) \/ Toggle(FALSE) \/ Enter \/ ChildStep \/ ChildExit \/ Waitpid
        \/ Restart \/ ExecStep

\* The children and the threads of the daemon are scheduled by the kernel;
\* an exec'd binary need not print, but it exits.
Spec ==
    /\ Init /\ [][Next]_vars
    /\ WF_vars(Enter \/ ChildStep \/ ChildExit \/ Waitpid)
    /\ \A t \in Threads : WF_vars(Thread(t)) /\ WF_vars(KidExit(t) /\ UNCHANGED mountVars)

-----------------------------------------------------------------------------
(* Properties *)

\* Spec 4.5: between calls, every path resolves to the wrapper if the last
\* doMountNative asked to enable and to the stock dex2oat if it asked to
\* disable, whatever calls and daemon restarts came before (the bind,
\* remount and umount sequence of the child).
ResolvesAsAsked ==
    call = NoCall => \A p \in PathSet : (mounts[p] # <<>>) = asked[p]

\* Every exec_command call of a binder thread returns (dex2oat.cpp
\* l.151-158) unless the daemon exits under it (doMountNative after a
\* failed fork), although its wait(NULL) may reap the child of another
\* call or the doMountNative child, and its read only ends when every
\* process that inherited the pipe's write end across a fork has exited.
ExecReturns == \A t \in Threads : <>(tpc[t] = "done" \/ call.step = "dead")
=============================================================================
