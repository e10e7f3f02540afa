-------------------------- MODULE ClusterHostsProofs --------------------------
(***************************************************************************)
(* What is promised of hosts, modes and groups holds for any number of     *)
(* services, components, hosts and groups, any requests and any tasks.     *)
(***************************************************************************)
EXTENDS ClusterHosts, TLAPS

(* What a group's hosts are taken from, a config group's hosts being also  *)
(* of the cluster.                                                         *)
Mapped(g) == IF groupOwner[g] \in Cluster THEN bound ELSE MappedTo(hc, groupOwner[g])

(* A host that was found empty still is, or is known to have been          *)
(* overtaken.                                                              *)
LeavingEmpty == \A n \in hc : n[1] \in leaving => n[1] \in overlapped

(* Hosts of groups and those about to be are mapped, or are known to have  *)
(* been overtaken by a change of the mapping or by a removal.              *)
GroupsMapped ==
  \A g \in Group, h \in Host :
    h \in member[g] \/ <<g, h>> \in adding => h \in Mapped(g) \/ <<g, h>> \in overlapped

(* The inductive invariant.                                                *)
HostInv == HostsInv /\ LeavingEmpty /\ GroupsMapped /\ ChangingHasTask

(* An element of overlapped is either a host or a pair.                    *)
LEMMA HostOrPair ==
  ASSUME NEW h \in Host, NEW g \in Group, NEW k \in Host
  PROVE  h # <<g, k>>
  BY HostsAssumption

(* There is one cluster, so any set of rows is a mapping.                  *)
LEMMA AnyMapping ==
  ASSUME NEW m \in SUBSET (Host \X Component)
  PROVE  m \in Mapping
<1>1. PICK k : Cluster = {k}
  BY HostsAssumption
<1>2. \A n \in m : ComponentCluster(n[2]) = k
  BY <1>1, TopologyAssumption DEF ComponentCluster
<1> QED
  BY <1>2 DEF Mapping

(* Rows of a mapping are pairs of a host and a component.                  *)
LEMMA MappingRows ==
  ASSUME NEW m \in Mapping
  PROVE  \A n \in m : n[1] \in Host /\ n[2] \in Component /\ n = <<n[1], n[2]>>
  BY DEF Mapping

(* An empty cluster satisfies the invariant.                               *)
LEMMA InitHolds == Init => HostInv
<1> SUFFICES ASSUME Init PROVE HostInv
  OBVIOUS
<1>1. {} \in Mapping
  BY AnyMapping
<1>2. TypeOK
  BY <1>1, HostsAssumption DEF Init, TypeOK, Settled, Idle
<1>3. FreeHostsAreOff /\ MappedHostsBelong /\ LeavingEmpty /\ GroupsMapped /\ ChangingHasTask
  BY DEF Init, FreeHostsAreOff, MappedHostsBelong, LeavingEmpty, GroupsMapped, ChangingHasTask, Moded
<1> QED
  BY <1>2, <1>3 DEF HostInv, HostsInv

-----------------------------------------------------------------------------
(* Types *)

(* Every step keeps the types.                                             *)
LEMMA TypeOKStep ==
  ASSUME TypeOK, [Next]_vars PROVE TypeOK'
<1> USE HostsAssumption DEF TypeOK, Settled, Idle, Opposite, history
<1>1. ASSUME NEW o \in Patched, NEW to \in Settled, RequestMode(o, to) PROVE TypeOK'
  BY <1>1 DEF RequestMode
<1>2. ASSUME NEW o \in Patched, Launch(o) PROVE TypeOK'
  BY <1>2 DEF Launch
<1>3. ASSUME NEW o \in Patched, Refuse(o) PROVE TypeOK'
  BY <1>3 DEF Refuse
<1>4. ASSUME NEW o \in Patched, SaveMode(o) PROVE TypeOK'
  BY <1>4 DEF SaveMode, Moded
<1>5. ASSUME NEW o \in Patched, NEW to \in Settled, TaskReports(o, to) PROVE TypeOK'
  BY <1>5 DEF TaskReports
<1>6. ASSUME NEW o \in Patched, NEW to \in Settled, TaskUnlocks(o, to) PROVE TypeOK'
  BY <1>6 DEF TaskUnlocks
<1>7. ASSUME NEW o \in Patched, NEW to \in Settled, TaskEnds(o, to) PROVE TypeOK'
  BY <1>7 DEF TaskEnds
<1>8. ASSUME NEW o \in Patched, NEW to \in Settled, TaskDies(o, to) PROVE TypeOK'
  BY <1>8 DEF TaskDies
<1>9. ASSUME NEW h \in Host, AddHost(h) PROVE TypeOK'
  BY <1>9 DEF AddHost
<1>10. ASSUME NEW h \in Host, CheckRemoval(h) PROVE TypeOK'
  BY <1>10 DEF CheckRemoval
<1>11. ASSUME NEW h \in Host, RemoveHost(h) PROVE TypeOK'
  BY <1>11 DEF RemoveHost
<1>12. ASSUME NEW g \in Group, NEW h \in Host, CheckCandidate(g, h) PROVE TypeOK'
  BY <1>12 DEF CheckCandidate
<1>13. ASSUME NEW g \in Group, NEW h \in Host, AddToGroup(g, h) PROVE TypeOK'
  BY <1>13 DEF AddToGroup
<1>14. ASSUME NEW g \in Group, NEW h \in Host, RemoveFromGroup(g, h) PROVE TypeOK'
  BY <1>14 DEF RemoveFromGroup
<1>15. ASSUME NEW m \in SUBSET (bound \X Component), MappingChanged(m) PROVE TypeOK'
  <2>1. m \in Mapping
    BY AnyMapping
  <2>2. member' \in [Group -> SUBSET Host]
    BY <1>15 DEF MappingChanged, MembersLeft
  <2>3. overlapped' \subseteq Host \cup (Group \X Host)
    BY <1>15 DEF MappingChanged
  <2> QED
    BY <1>15, <2>1, <2>2, <2>3 DEF MappingChanged
<1>16. CASE UNCHANGED vars
  BY <1>16 DEF vars
<1> QED
  BY <1>1, <1>2, <1>3, <1>4, <1>5, <1>6, <1>7, <1>8, <1>9, <1>10, <1>11, <1>12, <1>13, <1>14,
     <1>15, <1>16 DEF Next, SetMapping, ChangeMappingByTask
-----------------------------------------------------------------------------
(* Modes *)

(* A host gets a mode only with its cluster and loses both together.        *)
LEMMA FreeHostsStep ==
  ASSUME HostInv, TypeOK', [Next]_vars PROVE FreeHostsAreOff'
<1> USE DEF HostInv, HostsInv, TypeOK, FreeHostsAreOff, Settled, history
<1>1. ASSUME NEW o \in Patched, NEW to \in Settled, RequestMode(o, to) PROVE FreeHostsAreOff'
  BY <1>1 DEF RequestMode
<1>2. ASSUME NEW o \in Patched, Launch(o) PROVE FreeHostsAreOff'
  BY <1>2 DEF Launch
<1>3. ASSUME NEW o \in Patched, Refuse(o) PROVE FreeHostsAreOff'
  BY <1>3 DEF Refuse
<1>4. ASSUME NEW o \in Patched, SaveMode(o) PROVE FreeHostsAreOff'
  BY <1>4 DEF SaveMode
<1>5. ASSUME NEW o \in Patched, NEW to \in Settled, TaskReports(o, to) PROVE FreeHostsAreOff'
  BY <1>5 DEF TaskReports
<1>6. ASSUME NEW o \in Patched, NEW to \in Settled, TaskUnlocks(o, to) PROVE FreeHostsAreOff'
  BY <1>6 DEF TaskUnlocks
<1>7. ASSUME NEW o \in Patched, NEW to \in Settled, TaskEnds(o, to) PROVE FreeHostsAreOff'
  BY <1>7 DEF TaskEnds
<1>8. ASSUME NEW o \in Patched, NEW to \in Settled, TaskDies(o, to) PROVE FreeHostsAreOff'
  BY <1>8 DEF TaskDies
<1>9. ASSUME NEW h \in Host, AddHost(h) PROVE FreeHostsAreOff'
  BY <1>9 DEF AddHost
<1>10. ASSUME NEW h \in Host, CheckRemoval(h) PROVE FreeHostsAreOff'
  BY <1>10 DEF CheckRemoval
<1>11. ASSUME NEW h \in Host, RemoveHost(h) PROVE FreeHostsAreOff'
  BY <1>11 DEF RemoveHost
<1>12. ASSUME NEW g \in Group, NEW h \in Host, CheckCandidate(g, h) PROVE FreeHostsAreOff'
  BY <1>12 DEF CheckCandidate
<1>13. ASSUME NEW g \in Group, NEW h \in Host, AddToGroup(g, h) PROVE FreeHostsAreOff'
  BY <1>13 DEF AddToGroup
<1>14. ASSUME NEW g \in Group, NEW h \in Host, RemoveFromGroup(g, h) PROVE FreeHostsAreOff'
  BY <1>14 DEF RemoveFromGroup
<1>15. ASSUME NEW m \in SUBSET (bound \X Component), MappingChanged(m) PROVE FreeHostsAreOff'
  BY <1>15 DEF MappingChanged
<1>16. CASE UNCHANGED vars
  BY <1>16 DEF vars
<1> QED
  BY <1>1, <1>2, <1>3, <1>4, <1>5, <1>6, <1>7, <1>8, <1>9, <1>10, <1>11, <1>12, <1>13, <1>14,
     <1>15, <1>16 DEF Next, SetMapping, ChangeMappingByTask

(* What makes an object changing is recorded, what loses its task as well. *)
LEMMA ChangingStep ==
  ASSUME HostInv, TypeOK', [Next]_vars PROVE ChangingHasTask'
<1> USE DEF HostInv, HostsInv, TypeOK, ChangingHasTask, Unfinished, Settled, Opposite, history
<1>1. ASSUME NEW o \in Patched, NEW to \in Settled, RequestMode(o, to) PROVE ChangingHasTask'
  BY <1>1 DEF RequestMode
<1>2. ASSUME NEW o \in Patched, Launch(o) PROVE ChangingHasTask'
  BY <1>2 DEF Launch
<1>3. ASSUME NEW o \in Patched, Refuse(o) PROVE ChangingHasTask'
  BY <1>3 DEF Refuse
<1>4. ASSUME NEW o \in Patched, SaveMode(o) PROVE ChangingHasTask'
  BY <1>4 DEF SaveMode
<1>5. ASSUME NEW o \in Patched, NEW to \in Settled, TaskReports(o, to) PROVE ChangingHasTask'
  BY <1>5 DEF TaskReports
<1>6. ASSUME NEW o \in Patched, NEW to \in Settled, TaskUnlocks(o, to) PROVE ChangingHasTask'
  BY <1>6 DEF TaskUnlocks
<1>7. ASSUME NEW o \in Patched, NEW to \in Settled, TaskEnds(o, to) PROVE ChangingHasTask'
  BY <1>7 DEF TaskEnds
<1>8. ASSUME NEW o \in Patched, NEW to \in Settled, TaskDies(o, to) PROVE ChangingHasTask'
  BY <1>8 DEF TaskDies
<1>9. ASSUME NEW h \in Host, AddHost(h) PROVE ChangingHasTask'
  BY <1>9 DEF AddHost
<1>10. ASSUME NEW h \in Host, CheckRemoval(h) PROVE ChangingHasTask'
  BY <1>10 DEF CheckRemoval
<1>11. ASSUME NEW h \in Host, RemoveHost(h) PROVE ChangingHasTask'
  BY <1>11 DEF RemoveHost
<1>12. ASSUME NEW g \in Group, NEW h \in Host, CheckCandidate(g, h) PROVE ChangingHasTask'
  BY <1>12 DEF CheckCandidate
<1>13. ASSUME NEW g \in Group, NEW h \in Host, AddToGroup(g, h) PROVE ChangingHasTask'
  BY <1>13 DEF AddToGroup
<1>14. ASSUME NEW g \in Group, NEW h \in Host, RemoveFromGroup(g, h) PROVE ChangingHasTask'
  BY <1>14 DEF RemoveFromGroup
<1>15. ASSUME NEW m \in SUBSET (bound \X Component), MappingChanged(m) PROVE ChangingHasTask'
  BY <1>15 DEF MappingChanged
<1>16. CASE UNCHANGED vars
  BY <1>16 DEF vars
<1> QED
  BY <1>1, <1>2, <1>3, <1>4, <1>5, <1>6, <1>7, <1>8, <1>9, <1>10, <1>11, <1>12, <1>13, <1>14,
     <1>15, <1>16 DEF Next, SetMapping, ChangeMappingByTask

-----------------------------------------------------------------------------
(* Mapping and groups *)

(* Only the removal of a host that was overtaken leaves a mapping behind.  *)
LEMMA BelongStep ==
  ASSUME HostInv, TypeOK', [Next]_vars PROVE MappedHostsBelong'
<1> USE HostOrPair DEF HostInv, HostsInv, TypeOK, MappedHostsBelong, LeavingEmpty, history
<1>1. ASSUME NEW o \in Patched, NEW to \in Settled, RequestMode(o, to) PROVE MappedHostsBelong'
  BY <1>1 DEF RequestMode
<1>2. ASSUME NEW o \in Patched, Launch(o) PROVE MappedHostsBelong'
  BY <1>2 DEF Launch
<1>3. ASSUME NEW o \in Patched, Refuse(o) PROVE MappedHostsBelong'
  BY <1>3 DEF Refuse
<1>4. ASSUME NEW o \in Patched, SaveMode(o) PROVE MappedHostsBelong'
  BY <1>4 DEF SaveMode
<1>5. ASSUME NEW o \in Patched, NEW to \in Settled, TaskReports(o, to) PROVE MappedHostsBelong'
  BY <1>5 DEF TaskReports
<1>6. ASSUME NEW o \in Patched, NEW to \in Settled, TaskUnlocks(o, to) PROVE MappedHostsBelong'
  BY <1>6 DEF TaskUnlocks
<1>7. ASSUME NEW o \in Patched, NEW to \in Settled, TaskEnds(o, to) PROVE MappedHostsBelong'
  BY <1>7 DEF TaskEnds
<1>8. ASSUME NEW o \in Patched, NEW to \in Settled, TaskDies(o, to) PROVE MappedHostsBelong'
  BY <1>8 DEF TaskDies
<1>9. ASSUME NEW h \in Host, AddHost(h) PROVE MappedHostsBelong'
  BY <1>9 DEF AddHost
<1>10. ASSUME NEW h \in Host, CheckRemoval(h) PROVE MappedHostsBelong'
  BY <1>10 DEF CheckRemoval
<1>11. ASSUME NEW h \in Host, RemoveHost(h) PROVE MappedHostsBelong'
  <2>1. CASE ComponentsOn(hc, {h}) = {}
    <3>1. \A n \in hc : n[1] # h
      BY <2>1, MappingRows DEF ComponentsOn
    <3> QED
      BY <1>11, <2>1, <3>1 DEF RemoveHost
  <2>2. CASE ComponentsOn(hc, {h}) # {}
    BY <1>11, <2>2 DEF RemoveHost
  <2> QED
    BY <2>1, <2>2
<1>12. ASSUME NEW g \in Group, NEW h \in Host, CheckCandidate(g, h) PROVE MappedHostsBelong'
  <2>1. \A n \in hc : n[1] # <<g, h>>
    BY MappingRows
  <2> QED
    BY <1>12, <2>1 DEF CheckCandidate
<1>13. ASSUME NEW g \in Group, NEW h \in Host, AddToGroup(g, h) PROVE MappedHostsBelong'
  BY <1>13 DEF AddToGroup
<1>14. ASSUME NEW g \in Group, NEW h \in Host, RemoveFromGroup(g, h) PROVE MappedHostsBelong'
  <2>1. \A n \in hc : n[1] # <<g, h>>
    BY MappingRows
  <2> QED
    BY <1>14, <2>1 DEF RemoveFromGroup
<1>15. ASSUME NEW m \in SUBSET (bound \X Component), MappingChanged(m) PROVE MappedHostsBelong'
  BY <1>15 DEF MappingChanged
<1>16. CASE UNCHANGED vars
  BY <1>16 DEF vars
<1> QED
  BY <1>1, <1>2, <1>3, <1>4, <1>5, <1>6, <1>7, <1>8, <1>9, <1>10, <1>11, <1>12, <1>13, <1>14,
     <1>15, <1>16 DEF Next, SetMapping, ChangeMappingByTask

(* A host that leaves was found empty, or a change of the mapping noted it.*)
LEMMA LeavingStep ==
  ASSUME HostInv, TypeOK', [Next]_vars PROVE LeavingEmpty'
<1> USE MappingRows, HostOrPair DEF HostInv, HostsInv, TypeOK, LeavingEmpty, history
<1>1. ASSUME NEW o \in Patched, NEW to \in Settled, RequestMode(o, to) PROVE LeavingEmpty'
  BY <1>1 DEF RequestMode
<1>2. ASSUME NEW o \in Patched, Launch(o) PROVE LeavingEmpty'
  BY <1>2 DEF Launch
<1>3. ASSUME NEW o \in Patched, Refuse(o) PROVE LeavingEmpty'
  BY <1>3 DEF Refuse
<1>4. ASSUME NEW o \in Patched, SaveMode(o) PROVE LeavingEmpty'
  BY <1>4 DEF SaveMode
<1>5. ASSUME NEW o \in Patched, NEW to \in Settled, TaskReports(o, to) PROVE LeavingEmpty'
  BY <1>5 DEF TaskReports
<1>6. ASSUME NEW o \in Patched, NEW to \in Settled, TaskUnlocks(o, to) PROVE LeavingEmpty'
  BY <1>6 DEF TaskUnlocks
<1>7. ASSUME NEW o \in Patched, NEW to \in Settled, TaskEnds(o, to) PROVE LeavingEmpty'
  BY <1>7 DEF TaskEnds
<1>8. ASSUME NEW o \in Patched, NEW to \in Settled, TaskDies(o, to) PROVE LeavingEmpty'
  BY <1>8 DEF TaskDies
<1>9. ASSUME NEW h \in Host, AddHost(h) PROVE LeavingEmpty'
  BY <1>9 DEF AddHost
<1>10. ASSUME NEW h \in Host, CheckRemoval(h) PROVE LeavingEmpty'
  <2>1. \A n \in hc : n[1] # h
    BY <1>10 DEF CheckRemoval, ComponentsOn
  <2> QED
    BY <1>10, <2>1 DEF CheckRemoval
<1>11. ASSUME NEW h \in Host, RemoveHost(h) PROVE LeavingEmpty'
  BY <1>11 DEF RemoveHost
<1>12. ASSUME NEW g \in Group, NEW h \in Host, CheckCandidate(g, h) PROVE LeavingEmpty'
  BY <1>12 DEF CheckCandidate
<1>13. ASSUME NEW g \in Group, NEW h \in Host, AddToGroup(g, h) PROVE LeavingEmpty'
  BY <1>13 DEF AddToGroup
<1>14. ASSUME NEW g \in Group, NEW h \in Host, RemoveFromGroup(g, h) PROVE LeavingEmpty'
  BY <1>14 DEF RemoveFromGroup
<1>15. ASSUME NEW m \in SUBSET (bound \X Component), MappingChanged(m) PROVE LeavingEmpty'
  BY <1>15 DEF MappingChanged
<1>16. CASE UNCHANGED vars
  BY <1>16 DEF vars
<1> QED
  BY <1>1, <1>2, <1>3, <1>4, <1>5, <1>6, <1>7, <1>8, <1>9, <1>10, <1>11, <1>12, <1>13, <1>14,
     <1>15, <1>16 DEF Next, SetMapping, ChangeMappingByTask

(* A host enters a group mapped, and no change of the mapping or removal   *)
(* leaves it there unmapped without noting it.                             *)
LEMMA GroupsStep ==
  ASSUME HostInv, TypeOK', [Next]_vars PROVE GroupsMapped'
<1> USE HostOrPair DEF HostInv, HostsInv, TypeOK, GroupsMapped, Mapped, history
<1>1. ASSUME NEW o \in Patched, NEW to \in Settled, RequestMode(o, to) PROVE GroupsMapped'
  BY <1>1 DEF RequestMode
<1>2. ASSUME NEW o \in Patched, Launch(o) PROVE GroupsMapped'
  BY <1>2 DEF Launch
<1>3. ASSUME NEW o \in Patched, Refuse(o) PROVE GroupsMapped'
  BY <1>3 DEF Refuse
<1>4. ASSUME NEW o \in Patched, SaveMode(o) PROVE GroupsMapped'
  BY <1>4 DEF SaveMode
<1>5. ASSUME NEW o \in Patched, NEW to \in Settled, TaskReports(o, to) PROVE GroupsMapped'
  BY <1>5 DEF TaskReports
<1>6. ASSUME NEW o \in Patched, NEW to \in Settled, TaskUnlocks(o, to) PROVE GroupsMapped'
  BY <1>6 DEF TaskUnlocks
<1>7. ASSUME NEW o \in Patched, NEW to \in Settled, TaskEnds(o, to) PROVE GroupsMapped'
  BY <1>7 DEF TaskEnds
<1>8. ASSUME NEW o \in Patched, NEW to \in Settled, TaskDies(o, to) PROVE GroupsMapped'
  BY <1>8 DEF TaskDies
<1>9. ASSUME NEW h \in Host, AddHost(h) PROVE GroupsMapped'
  BY <1>9 DEF AddHost
<1>10. ASSUME NEW h \in Host, CheckRemoval(h) PROVE GroupsMapped'
  BY <1>10 DEF CheckRemoval
<1>11. ASSUME NEW h \in Host, RemoveHost(h) PROVE GroupsMapped'
  BY <1>11 DEF RemoveHost
<1>12. ASSUME NEW g \in Group, NEW h \in Host, CheckCandidate(g, h) PROVE GroupsMapped'
  <2>1. h \in Mapped(g)
    BY <1>12, HostsAssumption DEF CheckCandidate, Candidates
  <2>2. ASSUME NEW f \in Group, NEW k \in Host, <<f, k>> # <<g, h>>
        PROVE  /\ <<f, k>> \in adding' <=> <<f, k>> \in adding
               /\ <<f, k>> \in overlapped' <=> <<f, k>> \in overlapped
    BY <1>12, <2>2 DEF CheckCandidate
  <2>3. UNCHANGED <<member, bound, hc>>
    BY <1>12 DEF CheckCandidate
  <2> QED
    BY <2>1, <2>2, <2>3
<1>13. ASSUME NEW g \in Group, NEW h \in Host, AddToGroup(g, h) PROVE GroupsMapped'
  BY <1>13 DEF AddToGroup
<1>14. ASSUME NEW g \in Group, NEW h \in Host, RemoveFromGroup(g, h) PROVE GroupsMapped'
  BY <1>14 DEF RemoveFromGroup
<1>15. ASSUME NEW m \in SUBSET (bound \X Component), MappingChanged(m) PROVE GroupsMapped'
  <2>1. ASSUME NEW g \in Group, NEW h \in Host, h \in member'[g]
        PROVE  h \in Mapped(g)' \/ <<g, h>> \in overlapped'
    <3>1. h \in member[g] /\ bound' = bound /\ hc' = m
      BY <1>15, <2>1 DEF MappingChanged, MembersLeft
    <3>2. <<g, h>> \in overlapped => <<g, h>> \in overlapped'
      BY <1>15, <2>1, HostsAssumption DEF MappingChanged
    <3>3. CASE groupOwner[g] \in Cluster
      BY <3>1, <3>2, <3>3
    <3>4. CASE groupOwner[g] \notin Cluster
      <4>1. h \notin MappedTo(hc, groupOwner[g]) \/ h \in MappedTo(m, groupOwner[g])
        BY <1>15, <2>1, <3>4 DEF MappingChanged, MembersLeft
      <4>2. MappedTo(hc, groupOwner[g])' = MappedTo(m, groupOwner[g])
        BY <3>1 DEF MappedTo, HostsWith, ComponentsIn
      <4> QED
        BY <3>1, <3>2, <3>4, <4>1, <4>2
    <3> QED
      BY <3>3, <3>4
  <2>2. \A g \in Group, h \in Host : <<g, h>> \in adding' => <<g, h>> \in overlapped'
    BY <1>15 DEF MappingChanged
  <2> QED
    BY <2>1, <2>2
<1>16. CASE UNCHANGED vars
  BY <1>16 DEF vars
<1> QED
  BY <1>1, <1>2, <1>3, <1>4, <1>5, <1>6, <1>7, <1>8, <1>9, <1>10, <1>11, <1>12, <1>13, <1>14,
     <1>15, <1>16 DEF Next, SetMapping, ChangeMappingByTask

-----------------------------------------------------------------------------
(* Theorems *)

(* The invariant is inductive.                                             *)
LEMMA HostInvStep == HostInv /\ [Next]_vars => HostInv'
<1> SUFFICES ASSUME HostInv, [Next]_vars PROVE HostInv'
  OBVIOUS
<1>1. TypeOK'
  BY TypeOKStep DEF HostInv, HostsInv
<1> QED
  BY <1>1, FreeHostsStep, ChangingStep, BelongStep, LeavingStep, GroupsStep DEF HostInv, HostsInv

(* The invariant holds in every state.                                     *)
LEMMA HostInvAlways == Spec => []HostInv
  BY InitHolds, HostInvStep, PTL DEF Spec

(* A host without a cluster is in no maintenance mode, and components are  *)
(* on hosts of the cluster but for one that was found empty and got        *)
(* components before it was removed, for any number of requests at once    *)
(* (change_mm saving a row it read before, remove_host_from_cluster).      *)
THEOREM HostsStayConsistent == Spec => []HostsInv
  BY HostInvAlways, PTL DEF HostInv

(* An object is changing only while a task will settle its mode, or after  *)
(* that task was killed, or ended before the request saved the mode.       *)
THEOREM ChangingIsAccountedFor == Spec => []ChangingHasTask
  BY HostInvAlways, PTL DEF HostInv

(* Hosts of a group are hosts its owner runs on, of the owner's cluster,   *)
(* but for those whose mapping changed, or that were removed, between the  *)
(* check of the candidates and the write.                                  *)
THEOREM GroupsFollowMapping == Spec => []GroupHostsAreMapped
<1>1. HostInv => GroupHostsAreMapped
  <2> SUFFICES ASSUME HostInv, NEW g \in Group, NEW h \in member[g],
                      <<g, h>> \notin overlapped, h \notin overlapped
               PROVE  h \in Candidates(g)
    BY DEF GroupHostsAreMapped
  <2>1. h \in Host /\ h \in Mapped(g)
    BY DEF HostInv, HostsInv, TypeOK, GroupsMapped
  <2>2. CASE groupOwner[g] \in Cluster
    BY <2>1, <2>2 DEF Mapped, Candidates
  <2>3. CASE groupOwner[g] \notin Cluster
    <3>1. h \in MappedTo(hc, groupOwner[g])
      BY <2>1, <2>3 DEF Mapped
    <3>2. PICK c : <<h, c>> \in hc
      BY <3>1 DEF MappedTo, HostsWith
    <3>3. h \in bound
      BY <3>2 DEF HostInv, HostsInv, MappedHostsBelong
    <3> QED
      BY <2>3, <3>1, <3>3 DEF Candidates
  <2> QED
    BY <2>2, <2>3
<1> QED
  BY <1>1, HostInvAlways, PTL

(* The API (maintenance_mode of Service and Component) and the inventory   *)
(* of a task (calculate_maintenance_mode_for_service, _for_component) tell *)
(* the same mode, whatever the modes of related objects and hosts are.     *)
THEOREM ModesAlwaysAgree == Spec => []ModesAgree
<1>1. HostInv => ModesAgree
  <2> SUFFICES ASSUME HostInv, NEW o \in Service \cup Component, mode[o] # "changing"
               PROVE  ModelMode(o) = TopologyMode(o)
    BY DEF ModesAgree
  <2> DEFINE related == IF o \in Service THEN ComponentsIn({o}) ELSE {serviceOf[o]}
             AllOn(objects) == objects # {} /\ \A x \in objects : mode[x] = "on"
             Modes(objects) == {mode[x] : x \in objects}
             hosts == MappedTo(hc, o)
  <2>1. mode[o] \in {"on", "off"}
    BY DEF HostInv, HostsInv, TypeOK, Moded, Settled
  <2>2. ModelMode(o) = IF mode[o] = "on" \/ AllOn(related) \/ AllOn(hosts) THEN "on" ELSE "off"
    BY <2>1 DEF ModelMode
  <2>3. TopologyMode(o) = IF Modes(related) = {"on"} \/ Modes(hosts) = {"on"} THEN "on" ELSE mode[o]
    BY DEF TopologyMode
  <2>4. ASSUME NEW objects PROVE AllOn(objects) <=> Modes(objects) = {"on"}
    OBVIOUS
  <2> HIDE DEF AllOn, Modes, related, hosts
  <2> QED
    BY <2>1, <2>2, <2>3, <2>4
<1> QED
  BY <1>1, HostInvAlways, PTL

===============================================================================
