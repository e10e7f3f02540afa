------------------------------ MODULE Concerns ------------------------------
(***************************************************************************)
(* Issues, flags and locks of objects, and the objects they are linked to. *)
(* A concern has an owner, where it comes from, and is linked to every     *)
(* object it matters to: an object with a linked issue or lock starts no   *)
(* action.  Each operation on a cluster keeps both up to date by its own   *)
(* means: some recheck one cause, some distribute one concern from its     *)
(* owner, others recompute every link of the cluster.                      *)
(*                                                                         *)
(* An operation of the API or of a plugin is one transaction and one step. *)
(***************************************************************************)
EXTENDS LockScope, Integers, FiniteSets

CONSTANTS
  None,
  Unset,           \* objects created with an empty required field
  GroupFields,     \* those whose required field a config host group may set
  PluginFields,    \* those whose required field a job may set
  Imports,         \* clusters and services with a required import
  Required,        \* services a cluster must have
  requires,        \* [Service -> SUBSET Service]
  constraint,      \* [Component -> SUBSET Check]
  needs,           \* [Service \cup Component -> SUBSET Component]
  needsServices,   \* [Component -> SUBSET Service]
  boundTo,         \* [Component -> SUBSET Component], at most one each
  JobDeletes,      \* services that jobs delete
  Flagging,        \* objects whose flag is raised and lowered
  Lockable,        \* objects tasks run on
  MaxLocks         \* bound: locks at a time

Check == {"all", "odd", "zeroOrOdd", "one", "oneOrMore"}

ASSUME BundleAssumption ==
  /\ Unset \subseteq AdcmObject /\ GroupFields \subseteq Unset /\ PluginFields \subseteq Unset
  /\ Imports \subseteq Cluster \cup Service
  /\ Required \cup JobDeletes \subseteq Service
  /\ requires \in [Service -> SUBSET Service]
  /\ constraint \in [Component -> SUBSET Check]
  /\ needs \in [Service \cup Component -> SUBSET Component]
  /\ \A s \in Service : {serviceOf[c] : c \in needs[s]} \subseteq requires[s]
  /\ \A s \in Service, r \in Service : r \in requires[s] => clusterOf[r] = clusterOf[s]
  /\ needsServices \in [Component -> SUBSET Service]
  /\ boundTo \in [Component -> SUBSET Component]
  /\ Flagging \cup Lockable \subseteq AdcmObject
  /\ None \notin AdcmObject /\ MaxLocks \in Nat

VARIABLES
  clusters,      \* clusters that exist
  services,      \* services added to their clusters, with all their components
  hostCluster,   \* [Host -> Cluster \cup {None}], for the hosts that exist
  hc,            \* HostComponent: pairs <<host, component>>
  empty,         \* objects whose current config has an empty required field
  imported,      \* clusters and services whose required import is bound
  link,          \* [the concerns that exist -> the objects each is linked to]
  locks,         \* [owners of locks -> owners of older ones]
  unchecked      \* clusters whose hosts or services changed after the last
                 \* full check of the mapping (history)

vars == <<clusters, services, hostCluster, hc, empty, imported, link, locks, unchecked>>

Issue == {"config", "import", "service", "hostcomponent", "requirement"}

(* A concern is its owner and its kind: the name is unique per owner.      *)
Concern == AdcmObject \X (Issue \cup {"flag", "lock"})

hosts == DOMAIN hostCluster
ServicesOfCluster(k) == services \cap ServicesIn(k)
HostsOfCluster(k) == {h \in hosts : hostCluster[h] = k}
Existing == clusters \cup services \cup ComponentsIn(services) \cup hosts \cup Provider

TypeOK ==
  /\ clusters \subseteq Cluster /\ services \subseteq {s \in Service : clusterOf[s] \in clusters}
  /\ hosts \subseteq Host /\ hostCluster \in [hosts -> clusters \cup {None}]
  /\ hc \in Mapping /\ \A m \in hc : m[1] \in HostsOfCluster(ComponentCluster(m[2]))
  /\ ComponentsOn(hc, Host) \subseteq ComponentsIn(services)
  /\ empty \subseteq Unset \cap Existing /\ imported \subseteq Imports \cap Existing
  /\ DOMAIN link \subseteq Concern
  /\ \A c \in DOMAIN link : c[1] \in Existing /\ link[c] \subseteq Existing
  /\ {c[1] : c \in {d \in DOMAIN link : d[2] = "lock"}} = DOMAIN locks
  /\ unchecked \subseteq clusters

-----------------------------------------------------------------------------
(* The checks behind the issues                                            *)

(* One check of a component's constraint: n hosts of the cluster's total.  *)
ConstraintHolds(check, n, total) ==
  CASE check = "all" -> n > 0 /\ n = total
    [] check = "odd" -> n % 2 = 1
    [] check = "zeroOrOdd" -> n = 0 \/ n % 2 = 1
    [] check = "one" -> n = 1
    [] check = "oneOrMore" -> n >= 1

(* find_cluster_mapping_issues, for services svcs of a cluster of total    *)
(* hosts with the mapping m.                                               *)
MappingHasIssue(svcs, total, m) ==
  LET components == ComponentsIn(svcs)
      On(c) == HostsWith(m, {c})
      mapped == {c \in components : On(c) # {}} \cup {s \in svcs : HostsWith(m, ComponentsIn({s})) # {}}
  IN  \/ \E c \in components : \E check \in constraint[c] : ~ConstraintHolds(check, Cardinality(On(c)), total)
      \/ \E o \in mapped : \E c \in needs[o] : On(c) = {}
      \/ \E c \in mapped \cap Component : ~(needsServices[c] \subseteq svcs)
      \/ \E c \in mapped \cap Component : \E b \in boundTo[c] : On(b) # On(c)

(* Without a constraint, a required or a bound component in the bundle the *)
(* services that components need are not looked at either.                 *)
Restricted(k) ==
  LET components == ComponentsIn(ServicesIn(k))
  IN  \/ \E c \in components : constraint[c] \cup boundTo[c] # {}
      \/ \E o \in components \cup ServicesIn(k) : needs[o] # {}

ClusterMappingHasIssue(k, svcs, bound, m) ==
  Restricted(k) /\ MappingHasIssue(svcs, Cardinality(bound), {n \in m : ComponentCluster(n[2]) = k})

(* find_unsatisfied_service_requirements, the services it names.           *)
Unsatisfied(svcs) == {s \in svcs : ~(requires[s] \subseteq svcs)}

RequiredServicesMissing(k, svcs) == ~((Required \cap ServicesIn(k)) \subseteq svcs)

-----------------------------------------------------------------------------
(* Concerns and their links                                                *)

With(lk, cs, objects) == [c \in cs \cup DOMAIN lk |-> IF c \in cs THEN objects ELSE lk[c]]
Without(lk, cs) == [c \in DOMAIN lk \ cs |-> lk[c]]

(* Rows of gone objects: their own concerns and the links to them go.      *)
WithoutObjects(lk, objects) ==
  [c \in {d \in DOMAIN lk : d[1] \notin objects} |-> lk[c] \ objects]

(* distribute_concern_on_related_objects: locks and issues of services and *)
(* components spread to their neighbours on hosts, flags do not.           *)
Targets(kind, o) ==
  Existing \cap
    CASE kind = "flag" /\ o \in Service -> ServiceTargets(hc, o)
      [] kind = "flag" /\ o \in Component -> ComponentTargets(hc, o)
      [] OTHER -> LockTargets(hc, o)

(* Own issues and flags of an object; of a host, its provider's as well.   *)
Own(lk, o) == {c \in DOMAIN lk : c[1] = o /\ c[2] # "lock"}
OwnOfHosts(lk, hs) == UNION {Own(lk, h) \cup Own(lk, providerOf[h]) : h \in hs}

(* _calculate_concerns_distribution_for_topology: what an object of the    *)
(* cluster k is linked to.                                                 *)
LinksOf(lk, m, k, svcs, o) ==
  LET OfComponent(c) == Own(lk, c) \cup OwnOfHosts(lk, HostsWith(m, {c}))
      OfService(s) == Own(lk, s) \cup UNION {OfComponent(c) : c \in ComponentsIn({s})}
  IN  CASE o \in Component -> Own(lk, k) \cup Own(lk, serviceOf[o]) \cup OfComponent(o)
        [] o \in Service -> Own(lk, k) \cup OfService(o)
        [] o \in Cluster -> Own(lk, k) \cup UNION {OfService(s) : s \in svcs}
        [] OTHER -> UNION {Own(lk, k) \cup Own(lk, serviceOf[c]) \cup Own(lk, c) : c \in ComponentsOn(m, {o})}

(* redistribute_issues_and_flags for cluster k with services svcs and      *)
(* mapping m.  Locks stay, and so do on hosts the concerns of hosts and    *)
(* their providers; with no concern at all nothing is looked at.           *)
Redistributed(lk, k, svcs, m) ==
  LET bound == HostsOfCluster(k)
      components == ComponentsIn(svcs)
      ofHosts == OwnOfHosts(lk, bound)
      ofCluster == UNION {Own(lk, o) : o \in {k} \cup svcs \cup components}
      links == [o \in {k} \cup svcs \cup components \cup bound |-> LinksOf(lk, m, k, svcs, o)]
      recounted(c) == IF c \in ofHosts THEN DOMAIN links \ bound ELSE DOMAIN links
  IN  IF ofHosts \cup ofCluster = {} THEN lk
      ELSE [c \in DOMAIN lk |->
              IF c[2] = "lock" THEN lk[c] ELSE (lk[c] \ recounted(c)) \cup {o \in DOMAIN links : c \in links[o]}]

(* The lock an object is found under, the oldest of those linked to it.    *)
LocksOn(lk, o) == {l \in DOMAIN locks : o \in lk[<<l, "lock">>]}
LockOn(lk, o) == {<<l, "lock">> : l \in {m \in LocksOn(lk, o) : locks[m] \cap LocksOn(lk, o) = {}}}

-----------------------------------------------------------------------------
(* Operations on the mapping and on the hosts of a cluster                 *)

RowsOf(m, k) == {n \in m : ComponentCluster(n[2]) = k}
MappedHosts(m, k) == {n[1] : n \in RowsOf(m, k)}

(* The issue of the mapping is created, without links yet, or deleted.     *)
MappingIssueUpdated(lk, k, svcs, bound, m) ==
  LET issue == {<<k, "hostcomponent">>}
  IN  IF ~ClusterMappingHasIssue(k, svcs, bound, m) THEN Without(lk, issue)
      ELSE IF issue \subseteq DOMAIN lk THEN lk ELSE With(lk, issue, {})

(* The lock found on the cluster, whoever owns it, follows the hosts that  *)
(* become mapped and leaves those that no longer are.                      *)
LockMoved(lk, k, m) ==
  LET lock == LockOn(lk, k)
  IN  [c \in DOMAIN lk |->
         IF c \in lock
         THEN (lk[c] \ (MappedHosts(hc, k) \ MappedHosts(m, k))) \cup (MappedHosts(m, k) \ MappedHosts(hc, k))
         ELSE lk[c]]

(* Mutant: hosts that become mapped do not get the lock.                   *)
ConcernsOnly(k, m) ==
  Redistributed(MappingIssueUpdated(link, k, ServicesOfCluster(k), HostsOfCluster(k), m),
                k, ServicesOfCluster(k), m)

(* _update_concerns after the mapping became m.                            *)
ConcernsUpdated(k, m) ==
  LockMoved(Redistributed(MappingIssueUpdated(link, k, ServicesOfCluster(k), HostsOfCluster(k), m),
                          k, ServicesOfCluster(k), m), k, m)

MappingChanged(k, m) ==
  /\ hc' = m
  /\ link' = ConcernsUpdated(k, m)
  /\ unchecked' = unchecked \ {k}
  /\ UNCHANGED <<clusters, services, hostCluster, empty, imported, locks>>

Mappings(k) ==
  {m \in SUBSET (HostsOfCluster(k) \X ComponentsIn(ServicesOfCluster(k))) : m # RowsOf(hc, k)}

(* The API checks what it is asked for; a task applies what it is told.    *)
SetMapping(k) ==
  \E m \in Mappings(k) :
    /\ Unsatisfied(ServicesOfCluster(k)) = {}
    /\ ~ClusterMappingHasIssue(k, ServicesOfCluster(k), HostsOfCluster(k), m)
    /\ MappingChanged(k, (hc \ RowsOf(hc, k)) \cup m)

ChangeMappingByTask(k) ==
  \E m \in Mappings(k) : MappingChanged(k, (hc \ RowsOf(hc, k)) \cup m)

-----------------------------------------------------------------------------
(* Services                                                                *)

ConfigIssues(objects) == {<<o, "config">> : o \in objects \cap Unset}
ImportIssues(objects) == {<<o, "import">> : o \in objects \cap Imports}

(* Which of the services that exist, E, are recognised as unsatisfied: a   *)
(* generator over the unsatisfied ones, U, is searched for each service in *)
(* turn and every search consumes it, in whatever order the rows come.     *)
Recognised(U, E) == {X \in SUBSET U : X = U \/ E \ U # {} \/ X # {}}

(* recalculate_own_concerns_on_add_services for new services S: issues of  *)
(* the new ones are created, those of others that are resolved deleted.    *)
NewServiceIssues(k, S, svcs) ==
  ConfigIssues(S \cup ComponentsIn(S)) \cup ImportIssues(S)
    \cup {<<s, "requirement">> : s \in Unsatisfied(svcs) \cap S}
    \cup (IF ClusterMappingHasIssue(k, svcs, HostsOfCluster(k), hc) THEN {<<k, "hostcomponent">>} ELSE {})

ResolvedIssues(k, svcs, E, X) ==
  {<<s, "requirement">> : s \in E \ X}
    \cup (IF RequiredServicesMissing(k, svcs) THEN {} ELSE {<<k, "service">>})

(* Mutant: the issues of new services are not distributed.                 *)
OnlyCreated(k, S, svcs, X) ==
  With(Without(link, ResolvedIssues(k, svcs, svcs \ S, X)), NewServiceIssues(k, S, svcs) \ DOMAIN link, {})

AddedConcerns(k, S, svcs, X) ==
  Redistributed(With(Without(link, ResolvedIssues(k, svcs, svcs \ S, X)),
                     NewServiceIssues(k, S, svcs) \ DOMAIN link, {}), k, svcs, hc)

AddServices(k, S) ==
  LET E == ServicesOfCluster(k)
      svcs == E \cup S
  IN  /\ S # {} /\ S \subseteq ServicesIn(k) \ E
      /\ \E X \in Recognised(Unsatisfied(svcs) \cap E, E) : link' = AddedConcerns(k, S, svcs, X)
      /\ services' = services \cup S
      /\ empty' = empty \cup (Unset \cap (S \cup ComponentsIn(S)))
      /\ unchecked' = IF <<k, "hostcomponent">> \in DOMAIN link THEN unchecked \cup {k} ELSE unchecked \ {k}
      /\ UNCHANGED <<clusters, hostCluster, hc, imported, locks>>

(* Mutants: a resolved issue stays; a new one is not created.              *)
NeverDeleted(lk, issue, has, targets) ==
  IF ~has \/ issue \in DOMAIN lk THEN lk ELSE With(lk, {issue}, targets)
NeverCreated(lk, issue, has, targets) == IF ~has THEN Without(lk, {issue}) ELSE lk

(* Deleted, or created and distributed by the owner: lk is without what    *)
(* goes, targets says which objects get a new issue.                       *)
IssueRechecked(lk, issue, has, targets) ==
  IF ~has THEN Without(lk, {issue})
  ELSE IF issue \in DOMAIN lk THEN lk ELSE With(lk, {issue}, targets)

LocksWithout(objects) == [l \in DOMAIN locks \ objects |-> locks[l] \ objects]

(* delete_service, after the mapping m of the other services is in force.  *)
ServiceGone(s, lk, m) ==
  LET k == clusterOf[s]
      gone == {s} \cup ComponentsIn({s})
      rest == ServicesOfCluster(k) \ {s}
      has == ClusterMappingHasIssue(k, rest, HostsOfCluster(k), m)
      targets == {k} \cup rest \cup ComponentsIn(rest) \cup MappedHosts(m, k)
  IN  /\ link' = IssueRechecked(WithoutObjects(lk, gone), <<k, "hostcomponent">>, has, targets)
      /\ locks' = LocksWithout(gone)
      /\ hc' = m
      /\ services' = services \ {s}
      /\ empty' = empty \ gone
      /\ imported' = imported \ gone
      /\ unchecked' = unchecked \ {k}
      /\ UNCHANGED <<clusters, hostCluster>>

(* What the deletion of a service looks at: of an object that needs        *)
(* components only their services, whatever else it requires.              *)
NeededServices(o) ==
  CASE needs[o] # {} -> {serviceOf[c] : c \in needs[o]}
    [] needs[o] = {} /\ o \in Service -> requires[o]
    [] OTHER -> needsServices[o]

NeededByOthers(s, rest) == \E o \in rest \cup ComponentsIn(rest) : s \in NeededServices(o)

DeleteService(s) ==
  LET m == {n \in hc : serviceOf[n[2]] # s}
  IN  /\ s \in services \ Required
      /\ m = hc     \* and the service has no state or no action that deletes it
      /\ ~NeededByOthers(s, ServicesOfCluster(clusterOf[s]) \ {s})
      /\ ServiceGone(s, link, m)

(* A job deletes a service: first its rows go, nothing is checked.         *)
DeleteServiceByTask(s) ==
  LET m == {n \in hc : serviceOf[n[2]] # s}
  IN  /\ s \in services \cap JobDeletes
      /\ ServiceGone(s, ConcernsUpdated(clusterOf[s], m), m)

-----------------------------------------------------------------------------
(* Clusters and hosts                                                      *)

AddCluster(k) ==
  LET issues == {c \in ConfigIssues({k}) \cup ImportIssues({k}) \cup {<<k, "service">>, <<k, "hostcomponent">>} :
                   /\ c[2] = "service" => RequiredServicesMissing(k, {})
                   /\ c[2] = "hostcomponent" => ClusterMappingHasIssue(k, {}, {}, hc)}
  IN  /\ k \in Cluster \ clusters
      /\ clusters' = clusters \cup {k}
      /\ link' = Redistributed(With(link, issues, {}), k, {}, hc)
      /\ empty' = empty \cup (Unset \cap {k})
      /\ UNCHANGED <<services, hostCluster, hc, imported, locks, unchecked>>

DeleteCluster(k) ==
  LET svcs == ServicesOfCluster(k)
      gone == {k} \cup svcs \cup ComponentsIn(svcs)
  IN  /\ k \in clusters
      /\ clusters' = clusters \ {k}
      /\ services' = services \ svcs
      /\ hostCluster' = [h \in hosts |-> IF hostCluster[h] = k THEN None ELSE hostCluster[h]]
      /\ hc' = hc \ RowsOf(hc, k)
      /\ empty' = empty \ gone
      /\ imported' = imported \ gone
      /\ link' = WithoutObjects(link, gone)
      /\ locks' = LocksWithout(gone)
      /\ unchecked' = unchecked \ {k}

(* A new host has the issue of its config, and what its provider has: the  *)
(* issue and the lock, but no flag.                                        *)
HostCreated(h, k) ==
  LET p == providerOf[h]
      inherited == ({<<p, "config">>} \cap DOMAIN link) \cup LockOn(link, p)
  IN  /\ h \in Host \ hosts
      /\ hostCluster' = [n \in hosts \cup {h} |-> IF n = h THEN k ELSE hostCluster[n]]
      /\ empty' = empty \cup (Unset \cap {h})
      /\ link' = With([c \in DOMAIN link |-> IF c \in inherited THEN link[c] \cup {h} ELSE link[c]],
                       ConfigIssues({h}), {h})
      /\ UNCHANGED <<clusters, services, hc, imported, locks>>

AddHost(h) == HostCreated(h, None) /\ UNCHANGED unchecked

(* A host created in a cluster counts there, but the mapping of the        *)
(* cluster is not checked.                                                 *)
CreateHostInCluster(h, k) ==
  k \in clusters /\ HostCreated(h, k) /\ unchecked' = unchecked \cup {k}

(* perform_host_to_cluster_map *)
AddHostToCluster(h, k) ==
  /\ k \in clusters /\ h \in hosts /\ hostCluster[h] = None
  /\ hostCluster' = [hostCluster EXCEPT ![h] = k]
  /\ link' = IssueRechecked(link, <<k, "hostcomponent">>,
                            ClusterMappingHasIssue(k, ServicesOfCluster(k), HostsOfCluster(k) \cup {h}, hc),
                            Targets("hostcomponent", k))
  /\ unchecked' = unchecked \ {k}
  /\ UNCHANGED <<clusters, services, hc, empty, imported, locks>>

(* remove_host_from_cluster: the issue of the mapping is only ever deleted.*)
RemoveHostFromCluster(h) ==
  LET k == hostCluster[h]
      has == ClusterMappingHasIssue(k, ServicesOfCluster(k), HostsOfCluster(k) \ {h}, hc)
      lk == [c \in DOMAIN link |-> IF c \in LockOn(link, k) THEN link[c] \ {h} ELSE link[c]]
  IN  /\ h \in hosts /\ hostCluster[h] # None /\ h \notin MappedHosts(hc, hostCluster[h])
      /\ hostCluster' = [hostCluster EXCEPT ![h] = None]
      /\ link' = IF has THEN lk ELSE Without(lk, {<<k, "hostcomponent">>})
      /\ unchecked' = IF has THEN unchecked ELSE unchecked \ {k}
      /\ UNCHANGED <<clusters, services, hc, empty, imported, locks>>

DeleteHost(h) ==
  /\ h \in hosts /\ hostCluster[h] = None
  /\ hostCluster' = [n \in hosts \ {h} |-> hostCluster[n]]
  /\ link' = WithoutObjects(link, {h})
  /\ locks' = LocksWithout({h})
  /\ empty' = empty \ {h}
  /\ UNCHANGED <<clusters, services, hc, imported, unchecked>>

-----------------------------------------------------------------------------
(* Configuration, flags, imports                                           *)

(* A flag is created and distributed; raised again with another message it *)
(* is distributed again.                                                   *)
Raised(lk, o) ==
  LET flag == <<o, "flag">>
  IN  With(lk, {flag}, (IF flag \in DOMAIN lk THEN lk[flag] ELSE {}) \cup Targets("flag", o))

(* The flag of an outdated config, where the bundle asks for it.           *)
OutdatedConfigFlag(lk, o) ==
  {lk} \cup (IF o \in Flagging /\ <<o, "flag">> \notin DOMAIN lk THEN {Raised(lk, o)} ELSE {})

(* update_obj_config of an object: what is required was checked before.    *)
SaveConfig(o) ==
  /\ o \in Existing \cap (Unset \cup Flagging)
  /\ empty' = empty \ {o}
  /\ link' \in OutdatedConfigFlag(Without(link, {<<o, "config">>}), o)
  /\ UNCHANGED <<clusters, services, hostCluster, hc, imported, locks, unchecked>>

(* The same of its config host group: the object's own config stays.       *)
SaveGroupConfig(o) ==
  /\ o \in Existing \cap GroupFields
  /\ link' \in OutdatedConfigFlag(Without(link, {<<o, "config">>}), o)
  /\ UNCHANGED <<clusters, services, hostCluster, hc, empty, imported, locks, unchecked>>

(* set_object_config_with_plugin *)
SaveConfigByPlugin(o) ==
  /\ o \in empty \cap PluginFields
  /\ empty' = empty \ {o}
  /\ UNCHANGED <<clusters, services, hostCluster, hc, imported, link, locks, unchecked>>

RaiseFlag(o) ==
  /\ o \in Existing \cap Flagging
  /\ link' = Raised(link, o)
  /\ UNCHANGED <<clusters, services, hostCluster, hc, empty, imported, locks, unchecked>>

LowerFlag(o) ==
  /\ <<o, "flag">> \in DOMAIN link
  /\ link' = Without(link, {<<o, "flag">>})
  /\ UNCHANGED <<clusters, services, hostCluster, hc, empty, imported, locks, unchecked>>

(* multi_bind, with or without the import that is required.                *)
SetImports(o) ==
  /\ o \in Existing \cap Imports
  /\ imported' \in {imported \cup {o}, imported \ {o}}
  /\ link' = IssueRechecked(link, <<o, "import">>, o \notin imported', Targets("import", o))
  /\ UNCHANGED <<clusters, services, hostCluster, hc, empty, locks, unchecked>>

-----------------------------------------------------------------------------
(* Locks: a task starts where there is none, and ends.  An owner has one:  *)
(* there cannot be two concerns of a name.                                 *)

TakeLock(o) ==
  /\ o \in Existing \cap Lockable
  /\ LocksOn(link, o) = {} /\ o \notin DOMAIN locks
  /\ Cardinality(DOMAIN locks) < MaxLocks
  /\ locks' = [l \in {o} \cup DOMAIN locks |-> IF l = o THEN DOMAIN locks ELSE locks[l]]
  /\ link' = With(link, {<<o, "lock">>}, Targets("lock", o))
  /\ UNCHANGED <<clusters, services, hostCluster, hc, empty, imported, unchecked>>

ReleaseLock(o) ==
  /\ <<o, "lock">> \in DOMAIN link
  /\ locks' = LocksWithout({o})
  /\ link' = Without(link, {<<o, "lock">>})
  /\ UNCHANGED <<clusters, services, hostCluster, hc, empty, imported, unchecked>>

-----------------------------------------------------------------------------
(* A provider and no cluster or host yet.                                  *)
Init ==
  /\ clusters = {} /\ services = {} /\ hostCluster = [h \in {} |-> None] /\ hc = {}
  /\ empty = Unset \cap Provider
  /\ imported = {}
  /\ link = [c \in ConfigIssues(Provider) |-> {c[1]}]
  /\ locks = [l \in {} |-> {}]
  /\ unchecked = {}

Next ==
  \/ \E k \in Cluster : AddCluster(k) \/ DeleteCluster(k) \/ SetMapping(k) \/ ChangeMappingByTask(k)
  \/ \E k \in clusters, S \in SUBSET Service : AddServices(k, S)
  \/ \E s \in Service : DeleteService(s) \/ DeleteServiceByTask(s)
  \/ \E h \in Host : AddHost(h) \/ RemoveHostFromCluster(h) \/ DeleteHost(h)
  \/ \E h \in Host, k \in Cluster : CreateHostInCluster(h, k) \/ AddHostToCluster(h, k)
  \/ \E o \in AdcmObject :
       \/ SaveConfig(o) \/ SaveGroupConfig(o) \/ SaveConfigByPlugin(o)
       \/ RaiseFlag(o) \/ LowerFlag(o) \/ SetImports(o)
       \/ TakeLock(o) \/ ReleaseLock(o)

Spec == Init /\ [][Next]_vars

-----------------------------------------------------------------------------
(* Properties                                                              *)

(* What the issue of an owner stands for is there.                         *)
HasCause(c) ==
  CASE c[2] = "config" -> c[1] \in empty
    [] c[2] = "import" -> c[1] \notin imported
    [] c[2] = "service" -> RequiredServicesMissing(c[1], services)
    [] c[2] = "hostcomponent" ->
         ClusterMappingHasIssue(c[1], ServicesOfCluster(c[1]), HostsOfCluster(c[1]), hc)
    [] OTHER -> c[1] \in Unsatisfied(services)

(* An issue is there for a reason: whatever resolves the cause deletes it. *)
(* Not so where a plugin sets the field, and not for the mapping of a      *)
(* cluster that new services put right: no one rechecks it then.           *)
NoFalseAlarm ==
  \A c \in DOMAIN link :
    \/ c[2] \notin Issue \/ HasCause(c)
    \/ c[2] = "config" /\ c[1] \in PluginFields
    \/ c[2] = "hostcomponent" /\ c[1] \in unchecked

(* The issues that are to be told if their cause is there: the code misses *)
(* those of a config after a save of its group, of required services that  *)
(* jobs delete, of a mapping after a host was created in the cluster.      *)
IssuesToTell ==
  ConfigIssues(Existing \ GroupFields) \cup ImportIssues(Existing)
    \cup {<<k, "service">> : k \in {l \in clusters : RequiredServicesMissing(l, services \cup JobDeletes)}}
    \cup {<<k, "hostcomponent">> : k \in clusters \ unchecked}

(* What blocks the actions of an object never goes unsaid: each operation  *)
(* that may bring a cause about creates its issue.                         *)
IssueIsTold == \A c \in IssuesToTell : HasCause(c) => c \in DOMAIN link

(* Each issue and flag is linked to all that its owner is part of, consists*)
(* of or runs on, whichever operation created the concern and whichever    *)
(* changed the mapping, the services or the hosts since.  Hosts that are   *)
(* created later do not get the flag of their provider.                    *)
LinksReachEverything ==
  \A c \in DOMAIN link :
    c[2] # "lock" =>
      Targets("flag", c[1]) \ (IF c[2] = "flag" /\ c[1] \in Provider THEN Host ELSE {}) \subseteq link[c]

(* No issue or flag blocks or marks an object that has nothing to do with  *)
(* its owner, after any change of the mapping.                             *)
LinksStayInScope ==
  \A c \in DOMAIN link : c[2] # "lock" => link[c] \subseteq Targets("lock", c[1])

(* No concern outlives its owner or is linked to what is gone, and links   *)
(* are what the mapping makes of the owner, whichever way they came about. *)
LinksAreExact == TypeOK /\ LinksReachEverything /\ LinksStayInScope

(* While a task runs on a cluster, exactly the hosts its components are    *)
(* mapped to are locked, also when it changes the mapping itself.          *)
ClusterLockFollowsMapping ==
  \A k \in clusters : <<k, "lock">> \in DOMAIN link => link[<<k, "lock">>] \cap Host = MappedHosts(hc, k)

(* An object of a cluster is covered by the lock of another exactly when   *)
(* its own lock covers the other: the check of run_action and of the       *)
(* launcher on one object's concerns finds every conflicting task, the     *)
(* order in which they came does not matter.                               *)
LockIsMutual == CoversMutually(hc)

(* A service with an unsatisfied requirement keeps its issue when another  *)
(* service is added (test_concerns.py, "Stayed On Unrelated Service Add"). *)
RequirementStays ==
  [][\A s \in Unsatisfied(services') :
       <<s, "requirement">> \in DOMAIN link => <<s, "requirement">> \in DOMAIN link']_vars

=============================================================================
