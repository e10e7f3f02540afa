--------------------------- MODULE MCTaskScheduler ---------------------------
(***************************************************************************)
(* Instances of TaskScheduler.  One cluster with two services that share   *)
(* host h1, so that their locks see each other, and a host h2 of its own.  *)
(***************************************************************************)
EXTENDS SchedulerInvariant, TLC

CONSTANTS t1, t2, t3, cl, s1, s2, c1, c2, h1, h2, pr, start, stop

Topology == INSTANCE LockScope WITH
  Cluster <- {cl}, Service <- {s1, s2}, Component <- {c1, c2},
  Host <- {h1, h2}, Provider <- {pr},
  clusterOf <- (s1 :> cl @@ s2 :> cl),
  serviceOf <- (c1 :> s1 @@ c2 :> s2),
  providerOf <- (h1 :> pr @@ h2 :> pr)

MCObject == Topology!AdcmObject
MCHostComponent == {<<h1, c1>>, <<h1, c2>>}
MCScope == [o \in MCObject |-> Topology!LockTargets(MCHostComponent, o)]
MCAction == {start, stop}

\* actions of two services whose locks see each other, and another action of
\* the first one
ConflictTarget == t1 :> s1 @@ t2 :> s2 @@ t3 :> s1
ConflictAction == t1 :> start @@ t2 :> start @@ t3 :> stop
\* the two services
PairTarget == t1 :> s1 @@ t2 :> s2
PairAction == t1 :> start @@ t2 :> stop
\* an action of component c1 launched on its host h1, twice
HostTarget == t1 :> h1 @@ t2 :> h1
HostActionOwner == t1 :> c1 @@ t2 :> c1
SameAction == t1 :> start @@ t2 :> start
\* a single task
OneTarget == t1 :> s1
OneAction == t1 :> start

\* requests of users are handled one at a time
SerialNext ==
  /\ Next
  /\ \A t \in Task : api'[t] = "checked" => \A u \in Task \ {t} : api[u] = "idle"
SerialSpec == Init /\ [][SerialNext]_vars

PidSymmetry == Permutations(Pid)
=============================================================================
