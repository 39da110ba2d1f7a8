---------------------------- MODULE MC_Denylist ----------------------------
(* Devices for the Denylist model.  Each has exactly one backend, or none  *)
(* (the backends are mutually exclusive).  Apps "a" and "b" have distinct  *)
(* names; "ab" extends "a" as com.foobar extends com.foo.                  *)
EXTENDS Denylist, TLC

Base(uids) ==
  [uid |-> uids, ksuVersion |-> 0, ksuUmount |-> {}, magisk |-> FALSE,
   magiskSulist |-> FALSE, magiskDeny |-> {}, magiskSu |-> {},
   apd |-> FALSE, apdVersion |-> 0, apConfig |-> <<>>]

\* /data/data/<app> owners: two apps, separate or shared uids, or one app
\* without a data dir and one owned by root.
UidMaps(A, B) == {[x \in {A, B} |-> IF x = A THEN 10 ELSE 11],
                  [x \in {A, B} |-> 10],
                  [x \in {A, B} |-> IF x = A THEN -1 ELSE 0]}

R(p, e, c) == [process |-> p, exclude |-> e, complete |-> c]

\* package_config files over the two apps: up to two complete rows, a
\* duplicate row for the same process, an incomplete row, or no file.
Configs(A, B) ==
  {<<>>} \cup
  {<<R(p, e, TRUE)>> : p \in {A, B}, e \in BOOLEAN} \cup
  {<<R(A, e, TRUE), R(B, f, TRUE)>> : e, f \in BOOLEAN} \cup
  {<<R(A, e, TRUE), R(A, f, TRUE)>> : e, f \in BOOLEAN} \cup
  {<<R(A, TRUE, FALSE), R(A, f, TRUE)>> : f \in BOOLEAN}

DevicesOver(A, B, sulist) ==
  LET apps == {A, B} IN
  UNION {
    { Base(u) } \cup
    { [Base(u) EXCEPT !.ksuVersion = 11000, !.ksuUmount = s] : s \in SUBSET {10, 11} } \cup
    { [Base(u) EXCEPT !.magisk = TRUE, !.magiskSulist = sl, !.magiskDeny = dl, !.magiskSu = su] :
        sl \in sulist, dl \in SUBSET apps, su \in SUBSET apps } \cup
    { [Base(u) EXCEPT !.apd = TRUE, !.apdVersion = v, !.apConfig = c] :
        v \in {10655, 10000}, c \in Configs(A, B) }
  : u \in UidMaps(A, B) }

Sym == Permutations(Requests)

MC_Devices == DevicesOver("a", "b", {FALSE})
MC_SulistDevices == DevicesOver("a", "b", {TRUE})
=============================================================================
