---------------------------- MODULE ExecCommand ----------------------------
(***************************************************************************)
(* exec_command (daemon dex2oat.cpp l.120-162), as the binder threads of  *)
(* the daemon run it concurrently: pipe(), fork(), the child's dup2 and    *)
(* execv, the parent's close of the write end, one read() and wait(NULL). *)
(* Every process of the daemon shares one child table, and neither end of *)
(* the pipe is O_CLOEXEC: a fork copies every write end the daemon holds  *)
(* at that moment into the child, which keeps it across execv until it    *)
(* exits.  A read sees end of file only when no process holds a write end *)
(* of its pipe; wait(NULL) reaps any zombie child of the daemon, not the   *)
(* caller's own, blocks while only running children are left, and fails  *)
(* with ECHILD when there are none.  Other children of the daemon (Mount's *)
(* doMountNative child) are slots of Kids beside the threads' own.        *)
(***************************************************************************)
CONSTANTS
    Threads,       \* binder threads, each in one exec_command call
    OtherKids,     \* child slots of the daemon forked by other code
    ExecMayFail    \* pipe() or fork() can fail

ASSUME Threads \cap OtherKids = {} /\ ExecMayFail \in BOOLEAN

\* A thread's child has the thread's name.
Kids == Threads \cup OtherKids

VARIABLES
    tpc,     \* thread -> next step of its exec_command call
    kid,     \* child slot -> "none" (never forked or reaped), "run", "zombie"
    wrote,   \* thread -> its child wrote output to the pipe
    wend,    \* thread -> the processes holding a write end of its pipe
    result   \* thread -> what exec_command returned and left in buf

execVars == <<tpc, kid, wrote, wend, result>>

ExecInit ==
    /\ tpc = [t \in Threads |-> "pipe"]
    /\ kid = [k \in Kids |-> "none"]
    /\ wrote = [t \in Threads |-> FALSE]
    /\ wend = [t \in Threads |-> {}]
    /\ result = [t \in Threads |-> "none"]

\* fork(): the new child k holds a copy of every write end the daemon has.
Inherit(k) == [u \in Threads |-> IF "daemon" \in wend[u] THEN wend[u] \cup {k}
                                 ELSE wend[u]]

\* exit of child k: its descriptors close, and it is a zombie until reaped.
Exited(k) ==
    /\ kid' = [kid EXCEPT ![k] = "zombie"]
    /\ wend' = [u \in Threads |-> wend[u] \ {k}]

\* l.124-128: pipe(link), false when it fails.
Pipe(t) ==
    /\ tpc[t] = "pipe"
    /\ \/ /\ wend' = [wend EXCEPT ![t] = {"daemon"}]
          /\ tpc' = [tpc EXCEPT ![t] = "fork"]
          /\ UNCHANGED result
       \/ /\ ExecMayFail
          /\ tpc' = [tpc EXCEPT ![t] = "done"]
          /\ result' = [result EXCEPT ![t] = "fail"]
          /\ UNCHANGED wend
    /\ UNCHANGED <<kid, wrote>>

\* l.130-137: fork(); on failure both ends are closed and false returned.
\* The child (l.139-143) keeps the write end as its stdout.
Fork(t) ==
    /\ tpc[t] = "fork"
    /\ \/ /\ kid' = [kid EXCEPT ![t] = "run"]
          /\ wend' = Inherit(t)
          /\ tpc' = [tpc EXCEPT ![t] = "close"]
          /\ UNCHANGED result
       \/ /\ ExecMayFail
          /\ wend' = [wend EXCEPT ![t] = {}]
          /\ tpc' = [tpc EXCEPT ![t] = "done"]
          /\ result' = [result EXCEPT ![t] = "fail"]
          /\ UNCHANGED kid
    /\ UNCHANGED wrote

\* Mutant: the parent keeps its write end open while it reads.
CloseWrite_Keep(t) ==
    /\ tpc[t] = "close"
    /\ tpc' = [tpc EXCEPT ![t] = "read"]
    /\ UNCHANGED <<kid, wrote, wend, result>>

\* l.149: the parent closes its write end.
CloseWrite(t) ==
    /\ tpc[t] = "close"
    /\ wend' = [wend EXCEPT ![t] = @ \ {"daemon"}]
    /\ tpc' = [tpc EXCEPT ![t] = "read"]
    /\ UNCHANGED <<kid, wrote, result>>

\* l.151-154: one read(); it returns once there is output, or at end of
\* file when no process holds a write end; nothing read leaves buf "".
Read(t) ==
    /\ tpc[t] = "read"
    /\ wrote[t] \/ wend[t] = {}
    /\ result' = [result EXCEPT ![t] = IF wrote[t] THEN "out" ELSE "empty"]
    /\ tpc' = [tpc EXCEPT ![t] = "wait"]
    /\ UNCHANGED <<kid, wrote, wend>>

\* l.156-158: wait(NULL) reaps some zombie child of the daemon, or fails
\* at once when the daemon has no child left; then close(link[0]).
Wait(t) ==
    /\ tpc[t] = "wait"
    /\ \/ \E z \in Kids : kid[z] = "zombie" /\ kid' = [kid EXCEPT ![z] = "none"]
       \/ (\A z \in Kids : kid[z] = "none") /\ UNCHANGED kid
    /\ tpc' = [tpc EXCEPT ![t] = "done"]
    /\ UNCHANGED <<wrote, wend, result>>

\* The exec'd binary writes its answer to stdout (a binary may print
\* nothing, and the child of a failed execv only logs, l.145-146).
KidWrite(t) ==
    /\ kid[t] = "run" /\ ~wrote[t]
    /\ wrote' = [wrote EXCEPT ![t] = TRUE]
    /\ UNCHANGED <<tpc, kid, wend, result>>

\* The binary exits, or _exit(1) after a failed execv.
KidExit(t) ==
    /\ kid[t] = "run"
    /\ Exited(t)
    /\ UNCHANGED <<tpc, wrote, result>>

ThreadStep(t) == Pipe(t) \/ Fork(t) \/ CloseWrite(t) \/ Read(t) \/ Wait(t)
KidStep(t) == KidWrite(t) \/ KidExit(t)

ExecTypeOK ==
    /\ tpc \in [Threads -> {"pipe", "fork", "close", "read", "wait", "done"}]
    /\ kid \in [Kids -> {"none", "run", "zombie"}]
    /\ wend \in [Threads -> SUBSET (Kids \cup {"daemon"})]
    /\ result \in [Threads -> {"none", "out", "empty", "fail"}]
=============================================================================
