------------------------------ MODULE Denylist ------------------------------
(***************************************************************************)
(* The root-backend detector and deny-list resolver of the daemon          *)
(* (src/daemon/src/main/jni/dex2oat.cpp, isInDenylist and what it calls).  *)
(*                                                                         *)
(* Requests are calls of Dex2OatService.isInDenylist(appName), possibly    *)
(* on several threads at once.  The globals root_impl, path_to_magisk and  *)
(* is_using_sulist are shared by all of them.  The device (which backend   *)
(* is installed and what its lists hold) is chosen once in Init and never  *)
(* changes; exec_command may fail (pipe or fork failure) or its child may  *)
(* fail to exec, which leaves an empty output.                             *)
(***************************************************************************)
EXTENDS Integers, Sequences, FiniteSets

CONSTANTS
  Requests,        \* concurrent isInDenylist calls
  Apps,            \* package names (strings)
  Devices,         \* the device configurations, records described by Device
  ExecMayFail,     \* exec_command can fail or its child can fail to exec
  GarbageVersions, \* what atoi can read from apd -V's uninitialised buffer
  FreedNameReused  \* the allocator hands app_name's freed chunk to a strdup

ASSUME ExecMayFail \in BOOLEAN /\ FreedNameReused \in BOOLEAN
ASSUME GarbageVersions \subseteq Int

\* root_impl values
NONE   == -1
KSU    == 1
MAGISK == 2
APATCH == 3

\* APatch's supported version range (apatch_get_existence)
MinApatch == 10655
MaxApatch == 999999

\* A device: uid of each app's data dir (0: owned by root, -1: no dir),
\* KernelSU version and the uids it unmounts for, Magisk binary present,
\* its sulist setting and tables, apd present and its "apd -V" version,
\* and the rows of /data/adb/ap/package_config (<<>> if it is missing).
Row == [process : Apps, exclude : BOOLEAN, complete : BOOLEAN]

VARIABLES
  dev,            \* the device, fixed
  root_impl,      \* static int root_impl
  path_to_magisk, \* static char path_to_magisk[]: TRUE once a binary was found
  is_using_sulist,\* bool is_using_sulist
  pc,             \* request -> program point
  app,            \* request -> the package it asks about
  uid,            \* request -> st.st_uid of /data/data/<app>
  answer,         \* request -> the jboolean returned
  failed          \* request -> a system call on its path failed (fail-open)

vars == <<dev, root_impl, path_to_magisk, is_using_sulist, pc, app, uid,
          answer, failed>>

-----------------------------------------------------------------------------
(* exec_command(buf, len, file, argv): FALSE if pipe or fork fails; TRUE   *)
(* otherwise, with buf empty if the child could not exec.                  *)
ExecOutcomes == IF ExecMayFail THEN {"ok", "fail", "empty"} ELSE {"ok"}

\* strncmp over the shorter of the two lengths (apatch_uid_should_umount).
ShorterPrefixEq(a, b) ==
  LET n == IF Len(a) < Len(b) THEN Len(a) ELSE Len(b)
  IN  SubSeq(a, 1, n) = SubSeq(b, 1, n)

\* _apatch_get_package_config: rows with all four columns, in file order.
PackageConfig(d) == SelectSeq(d.apConfig, LAMBDA r : r.complete)

\* Mutant: the last matching row wins instead of the first.
apatch_uid_should_umount_LastMatch(d, process) ==
  LET rows == PackageConfig(d)
      hits == {i \in DOMAIN rows : ShorterPrefixEq(rows[i].process, process)}
  IN  IF hits = {} THEN FALSE
      ELSE rows[CHOOSE i \in hits : \A j \in hits : i >= j].exclude

\* apatch_uid_should_umount(process): the exclude flag of the first row
\* matching over the shorter length; FALSE when no row matches.
apatch_uid_should_umount(d, process) ==
  LET rows == PackageConfig(d)
      hits == {i \in DOMAIN rows : ShorterPrefixEq(rows[i].process, process)}
  IN  IF hits = {} THEN FALSE
      ELSE rows[CHOOSE i \in hits : \A j \in hits : i <= j].exclude

\* Mutant: the reply_ok out-parameter is returned instead of umount.
ksu_is_in_denylist_ReplyOk(d, app_uid) == TRUE

\* ksu_is_in_denylist(app_uid): prctl(CMD_UID_SHOULD_UMOUNT, app_uid).
ksu_is_in_denylist(d, app_uid) == app_uid \in d.ksuUmount

\* Mutant: a failed exec_command is taken for a hit (return true).
magisk_is_in_denylist_FailClosed(d, process, sulist, out) ==
  CASE out = "fail" -> TRUE
    [] sulist       -> ~(out = "ok" /\ process \in d.magiskSu)
    [] OTHER        -> out = "ok" /\ process \in d.magiskDeny

\* magisk_is_in_denylist(process) given exec_command's outcome.
magisk_is_in_denylist(d, process, sulist, out) ==
  CASE out = "fail" -> FALSE
    [] sulist       -> ~(out = "ok" /\ process \in d.magiskSu)
    [] OTHER        -> out = "ok" /\ process \in d.magiskDeny

\* The names apatch_uid_should_umount can read through the freed app_name:
\* the name itself, or a row's process strdup'ed into the reused chunk.
NamesRead(d, a) ==
  {a} \cup (IF FreedNameReused
              THEN {d.apConfig[i].process : i \in DOMAIN d.apConfig}
              ELSE {})

-----------------------------------------------------------------------------
Init ==
  /\ dev \in Devices
  /\ root_impl = NONE
  /\ path_to_magisk = FALSE
  /\ is_using_sulist = FALSE
  /\ pc = [r \in Requests |-> "start"]
  /\ app \in [Requests -> Apps]
  /\ uid = [r \in Requests |-> 0]
  /\ answer = [r \in Requests |-> FALSE]
  /\ failed = [r \in Requests |-> FALSE]

Goto(r, to) == pc' = [pc EXCEPT ![r] = to]

Return(r, val, fail) ==
  /\ Goto(r, "done")
  /\ answer' = [answer EXCEPT ![r] = val]
  /\ failed' = [failed EXCEPT ![r] = failed[r] \/ fail]

\* Mutant: the result of stat() is not checked.
HasDataDir_Unchecked(u) == TRUE

\* stat("/data/data/<app>") succeeded (the model keeps -1 for "no such dir").
HasDataDir(u) == u # -1

\* Stat /data/data/<app>: no dir, or a root-owned one, answers FALSE; then
\* the detection guard root_impl == -1 is evaluated.
Begin(r) ==
  /\ pc[r] = "start"
  /\ LET u == dev.uid[app[r]]
     IN  \/ /\ ~HasDataDir(u)
            /\ Return(r, FALSE, TRUE)
            /\ UNCHANGED uid
         \/ /\ HasDataDir(u) /\ u = 0
            /\ Return(r, FALSE, FALSE)
            /\ UNCHANGED uid
         \/ /\ HasDataDir(u) /\ u # 0
            /\ uid' = [uid EXCEPT ![r] = u]
            /\ Goto(r, IF root_impl = NONE THEN "ksu" ELSE "dispatch")
            /\ UNCHANGED <<answer, failed>>
  /\ UNCHANGED <<dev, root_impl, path_to_magisk, is_using_sulist, app>>

\* ksu_get_existence: prctl(GET_VERSION); a non-zero version is KernelSU.
KsuProbe(r) ==
  /\ pc[r] = "ksu"
  /\ IF dev.ksuVersion # 0
       THEN /\ root_impl' = KSU
            /\ Goto(r, "dispatch")
       ELSE /\ Goto(r, "magisk")
            /\ UNCHANGED root_impl
  /\ UNCHANGED <<dev, path_to_magisk, is_using_sulist, app, uid, answer, failed>>

\* magisk_get_existence: look for the binary (path_to_magisk keeps what an
\* earlier call found), run "magisk -V", then the sulist setting query,
\* whose output is never used.
MagiskProbe(r) ==
  /\ pc[r] = "magisk"
  /\ LET found == path_to_magisk \/ dev.magisk
     IN  /\ path_to_magisk' = found
         /\ IF ~found
              THEN /\ Goto(r, "apatch")
                   /\ UNCHANGED <<root_impl, failed>>
              ELSE \E v \in ExecOutcomes, s \in ExecOutcomes :
                     IF v = "fail" \/ s = "fail"
                       THEN /\ Goto(r, "apatch")
                            /\ failed' = [failed EXCEPT ![r] = TRUE]
                            /\ UNCHANGED root_impl
                       ELSE /\ root_impl' = MAGISK
                            /\ Goto(r, "dispatch")
                            /\ UNCHANGED failed
  /\ UNCHANGED <<dev, is_using_sulist, app, uid, answer>>

\* apatch_get_existence: stat /data/adb/apd, run "apd -V", accept versions
\* 10655..999999.  When the child fails the buffer is "" and atoi reads the
\* uninitialised bytes behind it: a version of GarbageVersions.
ApatchProbe(r) ==
  /\ pc[r] = "apatch"
  /\ \/ /\ ~dev.apd
        /\ Return(r, FALSE, FALSE)
        /\ UNCHANGED root_impl
     \/ /\ dev.apd
        /\ \E out \in ExecOutcomes :
             LET versions == IF out = "ok" THEN {dev.apdVersion} ELSE GarbageVersions
             IN  IF out = "fail"
                   THEN /\ Return(r, FALSE, TRUE)
                        /\ UNCHANGED root_impl
                   ELSE \E v \in versions :
                          /\ IF v >= MinApatch /\ v <= MaxApatch
                               THEN /\ root_impl' = APATCH
                                    /\ Goto(r, "dispatch")
                                    /\ failed' = [failed EXCEPT ![r] = failed[r] \/ out = "empty"]
                                    /\ UNCHANGED answer
                               ELSE /\ Return(r, FALSE, out = "empty")
                                    /\ UNCHANGED root_impl
  /\ UNCHANGED <<dev, path_to_magisk, is_using_sulist, app, uid>>

\* Ask the backend root_impl names (read again after detection).
Dispatch(r) ==
  /\ pc[r] = "dispatch"
  /\ CASE root_impl = KSU ->
            Return(r, ksu_is_in_denylist(dev, uid[r]), FALSE)
       [] root_impl = MAGISK ->
            \E out \in ExecOutcomes :
              Return(r, magisk_is_in_denylist(dev, app[r], is_using_sulist, out),
                     out # "ok")
       [] root_impl = APATCH ->
            \/ /\ dev.apConfig = <<>>
               /\ Return(r, FALSE, TRUE)
            \/ /\ dev.apConfig # <<>>
               /\ \E name \in NamesRead(dev, app[r]) :
                    Return(r, apatch_uid_should_umount(dev, name), FALSE)
       [] OTHER -> Return(r, FALSE, FALSE)
  /\ UNCHANGED <<dev, root_impl, path_to_magisk, is_using_sulist, app, uid>>

\* The thread that made a call makes another one, for any package.
NewCall(r) ==
  /\ pc[r] = "done"
  /\ Goto(r, "start")
  /\ \E a \in Apps : app' = [app EXCEPT ![r] = a]
  /\ answer' = [answer EXCEPT ![r] = FALSE]
  /\ failed' = [failed EXCEPT ![r] = FALSE]
  /\ UNCHANGED <<dev, root_impl, path_to_magisk, is_using_sulist, uid>>

Next == \E r \in Requests :
          \/ NewCall(r) \/ Begin(r) \/ KsuProbe(r) \/ MagiskProbe(r) \/ ApatchProbe(r) \/ Dispatch(r)

Fairness == \A r \in Requests :
              WF_vars(Begin(r) \/ KsuProbe(r) \/ MagiskProbe(r) \/ ApatchProbe(r) \/ Dispatch(r))

Spec == Init /\ [][Next]_vars /\ Fairness

-----------------------------------------------------------------------------
(* What the spec says isInDenylist does (DenylistAbstract), seen through   *)
(* the code's state: root_impl is the cache, and a request is done once    *)
(* it has returned.                                                        *)

BackendName == [x \in {NONE, KSU, MAGISK, APATCH} |->
                 CASE x = KSU -> "KernelSU" [] x = MAGISK -> "Magisk"
                   [] x = APATCH -> "APatch" [] OTHER -> "none"]

Abs == INSTANCE DenylistAbstract WITH
         cache  <- BackendName[root_impl],
         status <- [r \in Requests |-> IF pc[r] = "done" THEN "done" ELSE "busy"]

-----------------------------------------------------------------------------
(* Properties.                                                             *)

TypeOK ==
  /\ root_impl \in {NONE, KSU, MAGISK, APATCH}
  /\ pc \in [Requests -> {"start", "ksu", "magisk", "apatch", "dispatch", "done"}]
  /\ app \in [Requests -> Apps]
  /\ uid \in [Requests -> Nat]
  /\ answer \in [Requests -> BOOLEAN]
  /\ failed \in [Requests -> BOOLEAN]
  /\ path_to_magisk \in BOOLEAN /\ is_using_sulist \in BOOLEAN

\* Every answer isInDenylist returns on a path where no system call failed
\* is the policy of the backend the detection settles on, whatever the
\* other concurrent calls did to root_impl and path_to_magisk
\* (isInDenylist, the three probes and the three queries).
AnswerMatchesPolicy ==
  \A r \in Requests :
    (pc[r] = "done" /\ ~failed[r]) => answer[r] = Abs!Policy(dev, app[r])


\* Spec 3, 4.4 and 7: the threads, probes and system calls of
\* isInDenylist implement the atomic service of DenylistAbstract: root_impl
\* is written once, only with the device's active backend, whatever the
\* concurrent calls do; every answer is the policy or a fail-open FALSE,
\* and a TRUE comes only after detection; every call returns.
ImplementsAbstract == Abs!Spec
=============================================================================
