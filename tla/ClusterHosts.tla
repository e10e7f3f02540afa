---------------------------- MODULE ClusterHosts ----------------------------
(***************************************************************************)
(* The hosts of one cluster: which are bound to it, what is mapped to      *)
(* them, the groups they are in, and the maintenance mode of hosts,        *)
(* services and components.                                                *)
(*                                                                         *)
(* A request to change a mode reads the object, launches an action if      *)
(* there is one, then saves the row it has read; the action's task runs    *)
(* meanwhile.  The removal of a host and the addition of a host to a group *)
(* check first and write later.  Other requests are one transaction and    *)
(* one step.                                                               *)
(***************************************************************************)
EXTENDS LockScope, FiniteSets, Naturals

CONSTANTS
  Patched,       \* objects whose mode is requested, one request at a time each
  HasAction,     \* those with actions to turn it on and off
  MaxRequests,   \* bound: requests of more than one step that are under way
  Group,
  ActionGroup,   \* the action host groups, others are config host groups
  groupOwner     \* [Group -> the cluster, a service or a component]

Moded == Host \cup Service \cup Component

ASSUME HostsAssumption ==
  /\ \E k \in Cluster : Cluster = {k}
  /\ Host \cap (Group \X Host) = {}   \* overlapped holds both
  /\ MaxRequests \in Nat
  /\ HasAction \subseteq Patched /\ Patched \subseteq Moded
  /\ ActionGroup \subseteq Group
  /\ groupOwner \in [Group -> Cluster \cup Service \cup Component]

VARIABLES
  bound,        \* hosts of the cluster
  hc,           \* HostComponent: pairs <<host, component>>
  mode,         \* own maintenance mode of hosts, services and components
  member,       \* hosts of each group
  patch,        \* requests: [at, to, value to save]
  task,         \* tasks of the actions: [object -> [turned to -> state]]
  adding,       \* <<group, host>> checked to be candidates, not yet added
  leaving,      \* hosts checked to carry nothing, not yet removed
  overlapped,   \* hosts removed and <<group, host>> added, or about to be, on an outdated check
  orphaned      \* objects left changing with no task that would end it

vars == <<bound, hc, mode, member, patch, task, adding, leaving, overlapped, orphaned>>
history == <<overlapped, orphaned>>

Settled == {"on", "off"}
Opposite(to) == IF to = "on" THEN "off" ELSE "on"
Idle == [at |-> "idle", to |-> "off", value |-> "off"]

MappedTo(m, o) == HostsWith(m, IF o \in Service THEN ComponentsIn({o}) ELSE {o})

(* Hosts of the cluster, or those a service or a component is on, for a    *)
(* config host group only those of them in the cluster.                    *)
Candidates(g) ==
  CASE groupOwner[g] \in Cluster -> bound
    [] groupOwner[g] \notin Cluster /\ g \in ActionGroup -> MappedTo(hc, groupOwner[g])
    [] OTHER -> bound \cap MappedTo(hc, groupOwner[g])

UnderWay == Cardinality({o \in Patched : patch[o] # Idle}) + Cardinality(adding) + Cardinality(leaving)

Unfinished(o) == \E to \in Settled : task[o][to] # "none"

TypeOK ==
  /\ bound \subseteq Host /\ hc \in Mapping
  /\ mode \in [Moded -> Settled \cup {"changing"}]
  /\ member \in [Group -> SUBSET Host]
  /\ patch \in [Patched -> [at : {"idle", "launching", "saving"}, to : Settled, value : Settled \cup {"changing"}]]
  /\ task \in [Patched -> [Settled -> {"none", "running", "unlocked"}]]
  /\ \A o \in Patched : ~(task[o]["on"] = "running" /\ task[o]["off"] = "running")
  /\ adding \subseteq Group \X Host /\ leaving \subseteq Host
  /\ overlapped \subseteq Host \cup (Group \X Host)
  /\ orphaned \subseteq Patched

Init ==
  /\ bound = {} /\ hc = {}
  /\ mode = [o \in Moded |-> "off"]
  /\ member = [g \in Group |-> {}]
  /\ patch = [o \in Patched |-> Idle]
  /\ task = [o \in Patched |-> [to \in Settled |-> "none"]]
  /\ adding = {} /\ leaving = {} /\ overlapped = {} /\ orphaned = {}

-----------------------------------------------------------------------------
(* Maintenance mode by request                                             *)

(* get_maintenance_mode_response: what the mode is, whether there is a     *)
(* mapping for an action to work on.                                       *)
RequestMode(o, to) ==
  LET viaAction == o \in HasAction /\ (o \in Host \/ MappedTo(hc, o) # {})
  IN  /\ patch[o] = Idle /\ UnderWay < MaxRequests
      /\ o \in Host => o \in bound
      /\ mode[o] \notin {"changing", to}
      /\ patch' = [patch EXCEPT ![o] = [at |-> IF viaAction THEN "launching" ELSE "saving", to |-> to,
                                        value |-> IF viaAction THEN "changing" ELSE to]]
      /\ UNCHANGED <<bound, hc, mode, member, task, adding, leaving, history>>

(* run_action: not while the object is locked by a running task, nor while *)
(* a task of the same action is unfinished.                                *)
Launch(o) ==
  LET to == patch[o].to
  IN  /\ patch[o].at = "launching"
      /\ task[o][to] = "none" /\ task[o][Opposite(to)] # "running"
      /\ task' = [task EXCEPT ![o][to] = "running"]
      /\ patch' = [patch EXCEPT ![o].at = "saving"]
      /\ UNCHANGED <<bound, hc, mode, member, adding, leaving, overlapped, orphaned>>

(* Refused, for these reasons or because of locks of other objects.        *)
Refuse(o) ==
  /\ patch[o].at = "launching"
  /\ patch' = [patch EXCEPT ![o] = Idle]
  /\ UNCHANGED <<bound, hc, mode, member, task, adding, leaving, history>>

(* The whole row is saved as it was read, a host's cluster as well.  The   *)
(* task may have ended by now.                                             *)
SaveMode(o) ==
  /\ patch[o].at = "saving"
  /\ mode' = [mode EXCEPT ![o] = patch[o].value]
  /\ bound' = IF o \in Host THEN bound \cup {o} ELSE bound
  /\ patch' = [patch EXCEPT ![o] = Idle]
  /\ orphaned' = IF patch[o].value = "changing" /\ ~Unfinished(o) THEN orphaned \cup {o} ELSE orphaned \ {o}
  /\ UNCHANGED <<hc, member, task, adding, leaving, overlapped>>

-----------------------------------------------------------------------------
(* Maintenance mode by the tasks                                           *)

(* adcm_change_maintenance_mode: a job sets the mode while it is changing. *)
TaskReports(o, to) ==
  /\ task[o][to] = "running" /\ mode[o] = "changing"
  /\ \E value \in Settled : mode' = [mode EXCEPT ![o] = value]
  /\ orphaned' = orphaned \ {o}
  /\ UNCHANGED <<bound, hc, member, patch, task, adding, leaving, overlapped>>

(* _finish: the lock goes first ...                                        *)
TaskUnlocks(o, to) ==
  /\ task[o][to] = "running"
  /\ task' = [task EXCEPT ![o][to] = "unlocked"]
  /\ UNCHANGED <<bound, hc, mode, member, patch, adding, leaving, history>>

(* Mutants: the mode is not reset; only the mode of what was to be turned  *)
(* on is.                                                                  *)
TaskEndsOnly(o, to) ==
  /\ task[o][to] = "unlocked"
  /\ task' = [task EXCEPT ![o][to] = "none"]
  /\ UNCHANGED <<bound, hc, mode, member, patch, adding, leaving, overlapped, orphaned>>

TurningOnEnds(o, to) ==
  /\ task[o][to] = "unlocked"
  /\ task' = [task EXCEPT ![o][to] = "none"]
  /\ mode' = [mode EXCEPT ![o] = IF @ = "changing" /\ to = "on" THEN "off" ELSE @]
  /\ orphaned' = orphaned \ {o}
  /\ UNCHANGED <<bound, hc, member, patch, adding, leaving, overlapped>>

(* ... and only then update_object_maintenance_mode: a mode that is still  *)
(* changing becomes the opposite of what was asked for.                    *)
TaskEnds(o, to) ==
  /\ task[o][to] = "unlocked"
  /\ task' = [task EXCEPT ![o][to] = "none"]
  /\ mode' = [mode EXCEPT ![o] = IF @ = "changing" THEN Opposite(to) ELSE @]
  /\ orphaned' = orphaned \ {o}
  /\ UNCHANGED <<bound, hc, member, patch, adding, leaving, overlapped>>

(* The runner is killed, nothing of its end is done.                       *)
TaskDies(o, to) ==
  /\ task[o][to] # "none"
  /\ task' = [task EXCEPT ![o][to] = "none"]
  /\ orphaned' = IF mode[o] = "changing" /\ task[o][Opposite(to)] = "none" THEN orphaned \cup {o} ELSE orphaned
  /\ UNCHANGED <<bound, hc, mode, member, patch, adding, leaving, overlapped>>

-----------------------------------------------------------------------------
(* Hosts and their mapping                                                 *)

(* A mapped host outside of the cluster is a KeyError for whoever builds   *)
(* the topology.                                                           *)
TopologyBuilds == \A n \in hc : n[1] \in bound

(* perform_host_to_cluster_map *)
AddHost(h) ==
  /\ h \notin bound /\ TopologyBuilds
  /\ bound' = bound \cup {h}
  /\ UNCHANGED <<hc, mode, member, patch, task, adding, leaving, history>>

(* Mutant: hosts stay in the groups of what they are no longer mapped to.  *)
MembersStay(m) == member

(* remove_unmapped_hosts_from_groups after the mapping became m.           *)
MembersLeft(m) ==
  [g \in Group |->
     IF groupOwner[g] \in Cluster THEN member[g]
     ELSE member[g] \ (MappedTo(hc, groupOwner[g]) \ MappedTo(m, groupOwner[g]))]

MappingChanged(m) ==
  /\ TopologyBuilds
  /\ m # hc
  /\ hc' = m
  /\ member' = MembersLeft(m)
  /\ overlapped' = adding \cup leaving \cup {x \in overlapped \ Host : x[2] \in member'[x[1]]}
  /\ UNCHANGED <<bound, mode, patch, task, adding, leaving, orphaned>>

(* By the API no component is put on a host in maintenance mode, or about  *)
(* to be; jobs and the ends of tasks are not checked.                      *)
SetMapping ==
  \E m \in SUBSET (bound \X Component) :
    MappingChanged(m) /\ \A n \in m \ hc : mode[n[1]] = "off"

ChangeMappingByTask == \E m \in SUBSET (bound \X Component) : MappingChanged(m)

(* Mutant: a host is removed whatever is on it.                            *)
CheckNothing(h) ==
  /\ h \in bound \ leaving /\ UnderWay < MaxRequests
  /\ leaving' = leaving \cup {h}
  /\ overlapped' = overlapped \ {h}
  /\ UNCHANGED <<bound, hc, mode, member, patch, task, adding, orphaned>>

(* remove_host_from_cluster: the check ...                                 *)
CheckRemoval(h) ==
  /\ h \in bound \ leaving /\ UnderWay < MaxRequests
  /\ ComponentsOn(hc, {h}) = {}
  /\ leaving' = leaving \cup {h}
  /\ overlapped' = overlapped \ {h}
  /\ UNCHANGED <<bound, hc, mode, member, patch, task, adding, orphaned>>

(* ... and the transaction: the host leaves every action group, and the    *)
(* config groups of the cluster.                                           *)
RemoveHost(h) ==
  /\ h \in leaving
  /\ leaving' = leaving \ {h}
  /\ bound' = bound \ {h}
  /\ mode' = [mode EXCEPT ![h] = "off"]
  /\ member' = [g \in Group |-> IF g \in ActionGroup \/ groupOwner[g] \in Cluster THEN member[g] \ {h} ELSE member[g]]
  /\ overlapped' = (IF ComponentsOn(hc, {h}) = {} THEN overlapped \ {h} ELSE overlapped) \cup adding
  /\ orphaned' = orphaned \ {h}
  /\ UNCHANGED <<hc, patch, task, adding>>

-----------------------------------------------------------------------------
(* Groups                                                                  *)

(* Adding a host: the check of the group's candidates ...                  *)
CheckCandidate(g, h) ==
  /\ h \in Candidates(g) \ member[g]
  /\ <<g, h>> \notin adding /\ UnderWay < MaxRequests
  \* a host is in one config group of an owner
  /\ g \in ActionGroup \/ \A f \in Group \ ActionGroup : groupOwner[f] = groupOwner[g] => h \notin member[f]
  /\ adding' = adding \cup {<<g, h>>}
  /\ overlapped' = overlapped \ {<<g, h>>}
  /\ UNCHANGED <<bound, hc, mode, member, patch, task, leaving, orphaned>>

(* ... and the row.                                                        *)
AddToGroup(g, h) ==
  /\ <<g, h>> \in adding
  /\ adding' = adding \ {<<g, h>>}
  /\ member' = [member EXCEPT ![g] = @ \cup {h}]
  /\ UNCHANGED <<bound, hc, mode, patch, task, leaving, history>>

RemoveFromGroup(g, h) ==
  /\ h \in member[g]
  /\ member' = [member EXCEPT ![g] = @ \ {h}]
  /\ overlapped' = IF <<g, h>> \in adding THEN overlapped ELSE overlapped \ {<<g, h>>}
  /\ UNCHANGED <<bound, hc, mode, patch, task, adding, leaving, orphaned>>

-----------------------------------------------------------------------------
Next ==
  \/ \E o \in Patched :
       \/ Launch(o) \/ Refuse(o) \/ SaveMode(o)
       \/ \E to \in Settled :
            RequestMode(o, to) \/ TaskReports(o, to) \/ TaskUnlocks(o, to) \/ TaskEnds(o, to) \/ TaskDies(o, to)
  \/ \E h \in Host : AddHost(h) \/ CheckRemoval(h) \/ RemoveHost(h)
  \/ \E g \in Group, h \in Host : CheckCandidate(g, h) \/ AddToGroup(g, h) \/ RemoveFromGroup(g, h)
  \/ SetMapping \/ ChangeMappingByTask

(* A runner that is not killed comes to the end of its task.               *)
Fairness ==
  \A o \in Patched, to \in Settled : WF_vars(TaskUnlocks(o, to)) /\ WF_vars(TaskEnds(o, to))

Spec == Init /\ [][Next]_vars /\ Fairness

-----------------------------------------------------------------------------
(* What others are told the mode is                                        *)

(* Mutant: no hosts are all of them in maintenance mode.                   *)
VacuousMode(o) ==
  LET related == IF o \in Service THEN ComponentsIn({o}) ELSE {serviceOf[o]}
  IN  CASE mode[o] # "off" -> mode[o]
        [] mode[o] = "off" /\ ((\A x \in related : mode[x] = "on") \/ \A h \in MappedTo(hc, o) : mode[h] = "on") -> "on"
        [] OTHER -> "off"

(* The maintenance_mode properties of Service and Component.               *)
ModelMode(o) ==
  LET related == IF o \in Service THEN ComponentsIn({o}) ELSE {serviceOf[o]}
      AllOn(objects) == objects # {} /\ \A x \in objects : mode[x] = "on"
  IN  CASE mode[o] # "off" -> mode[o]
        [] mode[o] = "off" /\ (AllOn(related) \/ AllOn(MappedTo(hc, o))) -> "on"
        [] OTHER -> "off"

(* calculate_maintenance_mode_for_service and _for_component, for the      *)
(* inventory of a task.                                                    *)
TopologyMode(o) ==
  LET related == IF o \in Service THEN ComponentsIn({o}) ELSE {serviceOf[o]}
      Modes(objects) == {mode[x] : x \in objects}
  IN  IF {"on"} \in {Modes(related), Modes(MappedTo(hc, o))} THEN "on" ELSE mode[o]

-----------------------------------------------------------------------------
(* Properties                                                              *)

(* The API and the inventory of a task tell the same mode of a service or  *)
(* a component, unless its own one is changing: two implementations, one   *)
(* over the rows and one over the topology, of how modes are inherited.    *)
ModesAgree ==
  \A o \in Service \cup Component :
    mode[o] # "changing" /\ TopologyBuilds => ModelMode(o) = TopologyMode(o)

(* An object is changing only while a task of its action is unfinished,    *)
(* which will settle the mode, or after the runner was killed, or ended    *)
(* before the request that launched it saved the mode.                     *)
ChangingHasTask ==
  \A o \in Moded : mode[o] = "changing" => o \in Patched /\ (Unfinished(o) \/ o \in orphaned)

(* A host without a cluster is not in maintenance mode, and is not about   *)
(* to be by a request that read it while it had one: remove_host switches  *)
(* it off, a request that is late brings the host back to the cluster.     *)
FreeHostsAreOff == \A h \in Host \ bound : mode[h] = "off"

(* Components are mapped to hosts of the cluster, but for a host that was  *)
(* found empty and got components before it was removed.                   *)
MappedHostsBelong == \A n \in hc : n[1] \in bound \cup overlapped

(* A host that leaves the cluster leaves nothing of it behind.             *)
HostsInv == TypeOK /\ FreeHostsAreOff /\ MappedHostsBelong

(* A host in a group is one its owner runs on, and of the owner's cluster, *)
(* but for a host whose mapping changed between the check and the write.   *)
GroupHostsAreMapped ==
  \A g \in Group : \A h \in member[g] : h \in Candidates(g) \/ overlapped \cap {h, <<g, h>>} # {}

(* A mode that is changing is settled one day, but for killed runners and  *)
(* requests that were slower than their tasks.                             *)
ChangingEnds ==
  \A o \in Patched : mode[o] = "changing" ~> mode[o] # "changing" \/ o \in orphaned

=============================================================================
