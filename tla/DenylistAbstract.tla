-------------------------- MODULE DenylistAbstract --------------------------
(***************************************************************************)
(* What Dex2OatService.isInDenylist promises (spec 3, 4.4 and 7), with no  *)
(* thread, probe or system call in it.  The backend cache is write-once:   *)
(* it goes from "none" to the device's one active backend in a single      *)
(* step, and never changes again.  Each call answers atomically: the       *)
(* deny-list policy of the active backend for its package, or FALSE when   *)
(* something on its path failed (fail-open, spec 7 (b)); a TRUE answer is  *)
(* only ever given once the backend is known.                              *)
(***************************************************************************)
EXTENDS Integers, Sequences

CONSTANTS
  Requests,  \* concurrent callers
  Apps,      \* package names
  Devices    \* device configurations (see Denylist)

VARIABLES
  dev,     \* the device, fixed
  cache,   \* the detected backend, "none" until detection
  status,  \* request -> "busy" or "done"
  app,     \* request -> the package it asks about
  answer   \* request -> the answer returned

absvars == <<dev, cache, status, app, answer>>

\* The first of KernelSU, Magisk and a supported APatch the device has.
ActiveBackend(d) ==
  CASE d.ksuVersion # 0 -> "KernelSU"
    [] d.magisk -> "Magisk"
    [] d.apd /\ d.apdVersion \in 10655..999999 -> "APatch"
    [] OTHER -> "none"

\* Whether the backend deny-lists app a: KernelSU by the uid of its data
\* dir; Magisk by its deny list, or in SuList mode by absence from the
\* allow list; APatch by the exclude flag of the first complete row
\* naming exactly a.  Apps without a data dir or owned by root never are.
Policy(d, a) ==
  LET rows  == SelectSeq(d.apConfig, LAMBDA r : r.complete)
      exact == {i \in DOMAIN rows : rows[i].process = a}
  IN  /\ d.uid[a] > 0
      /\ CASE ActiveBackend(d) = "KernelSU" -> d.uid[a] \in d.ksuUmount
           [] ActiveBackend(d) = "Magisk"   -> IF d.magiskSulist THEN a \notin d.magiskSu
                                                                ELSE a \in d.magiskDeny
           [] ActiveBackend(d) = "APatch"   ->
                exact # {} /\ rows[CHOOSE i \in exact : \A j \in exact : i <= j].exclude
           [] OTHER -> FALSE

Init ==
  /\ dev \in Devices
  /\ cache = "none"
  /\ status = [r \in Requests |-> "busy"]
  /\ app \in [Requests -> Apps]
  /\ answer = [r \in Requests |-> FALSE]

\* Detection, once.
Detect ==
  /\ cache = "none" /\ ActiveBackend(dev) # "none"
  /\ cache' = ActiveBackend(dev)
  /\ UNCHANGED <<dev, status, app, answer>>

\* Request r returns the policy, or fails open.
Reply(r) ==
  /\ status[r] = "busy"
  /\ \E ans \in {Policy(dev, app[r]), FALSE} :
       /\ ans => cache = ActiveBackend(dev)
       /\ answer' = [answer EXCEPT ![r] = ans]
  /\ status' = [status EXCEPT ![r] = "done"]
  /\ UNCHANGED <<dev, cache, app>>

\* The caller asks again, about any package.
Ask(r) ==
  /\ status[r] = "done"
  /\ status' = [status EXCEPT ![r] = "busy"]
  /\ \E a \in Apps : app' = [app EXCEPT ![r] = a]
  /\ answer' = [answer EXCEPT ![r] = FALSE]
  /\ UNCHANGED <<dev, cache>>

Next == Detect \/ \E r \in Requests : Reply(r) \/ Ask(r)

\* Every call returns.
Spec == Init /\ [][Next]_absvars /\ \A r \in Requests : WF_absvars(Reply(r))
=============================================================================
