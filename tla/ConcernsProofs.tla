---------------------------- MODULE ConcernsProofs ----------------------------
(***************************************************************************)
(* That locks of cluster, service, component and host are mutual, for      *)
(* every topology and every mapping of it; and that, after every history   *)
(* of operations, mappings are such that they are, issues and their causes *)
(* go together, the lock of a cluster is on the hosts mapped there, and    *)
(* issues and flags are linked to what they matter to and to nothing else. *)
(***************************************************************************)
EXTENDS Concerns, FiniteSetTheorems, TLAPS

-----------------------------------------------------------------------------
(* The objects of a lock *)

(* Types of objects are disjoint, so an owner has the targets of its type. *)
LEMMA TargetsByType ==
  ASSUME NEW mp
  PROVE  /\ \A o \in Cluster : LockTargets(mp, o) = ClusterTargets(mp, o)
         /\ \A o \in Service : LockTargets(mp, o) = ByHosts(mp, ServiceTargets(mp, o))
         /\ \A o \in Component : LockTargets(mp, o) = ByHosts(mp, ComponentTargets(mp, o))
         /\ \A o \in Host : LockTargets(mp, o) = HostTargets(mp, o)
         /\ \A o \in Provider : LockTargets(mp, o) = ProviderTargets(mp, o)
  BY TopologyAssumption DEF LockTargets

(* An object has one type.                                                 *)
LEMMA TypesAreDisjoint ==
  \A x : /\ x \in Cluster => x \notin Service /\ x \notin Component /\ x \notin Host
         /\ x \in Service => x \notin Cluster /\ x \notin Component /\ x \notin Host
         /\ x \in Component => x \notin Cluster /\ x \notin Service /\ x \notin Host
         /\ x \in Host => x \notin Cluster /\ x \notin Service /\ x \notin Component
  BY TopologyAssumption

(* Services belong to clusters and components to services, which are not   *)
(* objects of any other type.                                              *)
LEMMA HierarchyTypes ==
  /\ \A s \in Service : clusterOf[s] \in Cluster
  /\ \A c \in Component : serviceOf[c] \in Service /\ clusterOf[serviceOf[c]] \in Cluster
  /\ \A c \in Component : /\ serviceOf[c] \notin Cluster \cup Component \cup Host
                          /\ clusterOf[serviceOf[c]] \notin Service \cup Component \cup Host
  BY TopologyAssumption

(* When a lock of each type covers a component, a service, a cluster or a  *)
(* host: what shares a host, or is above or below in the hierarchy.        *)
Shares(mp, c, d) == \E h \in Host : <<h, c>> \in mp /\ <<h, d>> \in mp

(* A cluster's lock covers itself, what is part of it and the hosts its    *)
(* components are on.                                                      *)
LEMMA ClusterCovers ==
  ASSUME NEW mp, NEW o \in Cluster
  PROVE  /\ \A q \in Cluster : q \in LockTargets(mp, o) <=> q = o
         /\ \A q \in Service : q \in LockTargets(mp, o) <=> clusterOf[q] = o
         /\ \A q \in Component : q \in LockTargets(mp, o) <=> clusterOf[serviceOf[q]] = o
         /\ \A q \in Host : q \in LockTargets(mp, o)
              <=> \E c \in Component : <<q, c>> \in mp /\ clusterOf[serviceOf[c]] = o
<1> USE TypesAreDisjoint, HierarchyTypes
<1>1. LockTargets(mp, o) = ClusterTargets(mp, o)
  BY TargetsByType
<1>2. ServicesIn(o) = {s \in Service : clusterOf[s] = o}
  BY DEF ServicesIn
<1>3. ComponentsIn(ServicesIn(o)) = {c \in Component : clusterOf[serviceOf[c]] = o}
  BY <1>2 DEF ComponentsIn
<1>4. HostsWith(mp, ComponentsIn(ServicesIn(o)))
        = {h \in Host : \E c \in Component : <<h, c>> \in mp /\ clusterOf[serviceOf[c]] = o}
  BY <1>3 DEF HostsWith
<1>5. \A q : q \in LockTargets(mp, o)
        <=> \/ q = o
            \/ q \in Service /\ clusterOf[q] = o
            \/ q \in Component /\ clusterOf[serviceOf[q]] = o
            \/ q \in Host /\ \E c \in Component : <<q, c>> \in mp /\ clusterOf[serviceOf[c]] = o
  BY <1>1, <1>2, <1>3, <1>4 DEF ClusterTargets
<1> QED
  BY <1>5

(* A service's lock covers its cluster, its components and their hosts,    *)
(* and what shares a host with its components.                             *)
LEMMA ServiceCovers ==
  ASSUME NEW mp \in Mapping, NEW o \in Service
  PROVE  /\ \A q \in Cluster : q \in LockTargets(mp, o) <=> q = clusterOf[o]
         /\ \A q \in Service : q \in LockTargets(mp, o)
              <=> q = o \/ \E c, d \in Component : serviceOf[c] = o /\ serviceOf[d] = q /\ Shares(mp, c, d)
         /\ \A q \in Component : q \in LockTargets(mp, o)
              <=> serviceOf[q] = o \/ \E c \in Component : serviceOf[c] = o /\ Shares(mp, c, q)
         /\ \A q \in Host : q \in LockTargets(mp, o)
              <=> \E c \in Component : <<q, c>> \in mp /\ serviceOf[c] = o
<1>1. LockTargets(mp, o) = ByHosts(mp, ServiceTargets(mp, o))
  BY TargetsByType
<1>2. ServiceTargets(mp, o) \cap Host = HostsWith(mp, ComponentsIn({o}))
  BY TypesAreDisjoint, HierarchyTypes DEF ServiceTargets, HostsWith, ComponentsIn
<1>3. HostsWith(mp, ComponentsIn({o})) = {h \in Host : \E c \in Component : <<h, c>> \in mp /\ serviceOf[c] = o}
  BY DEF HostsWith, ComponentsIn
<1>4. ComponentsOn(mp, ServiceTargets(mp, o) \cap Host)
        = {d \in Component : \E c \in Component : serviceOf[c] = o /\ Shares(mp, c, d)}
  BY <1>2, <1>3 DEF ComponentsOn, Shares
<1>5. \A q : q \in LockTargets(mp, o)
        <=> \/ q = o
            \/ q = clusterOf[o]
            \/ q \in Component /\ serviceOf[q] = o
            \/ q \in Host /\ \E c \in Component : <<q, c>> \in mp /\ serviceOf[c] = o
            \/ q \in Component /\ \E c \in Component : serviceOf[c] = o /\ Shares(mp, c, q)
            \/ \E c, d \in Component : serviceOf[c] = o /\ serviceOf[d] = q /\ Shares(mp, c, d)
  BY <1>1, <1>3, <1>4 DEF ByHosts, ServiceTargets, ServicesOf, ComponentsIn
<1>6. \A q \in Cluster : q \in LockTargets(mp, o)
        <=> q = clusterOf[o]
  BY <1>5, TypesAreDisjoint, HierarchyTypes
<1>7. \A q \in Service : q \in LockTargets(mp, o)
        <=> q = o \/ \E c, d \in Component : serviceOf[c] = o /\ serviceOf[d] = q /\ Shares(mp, c, d)
  BY <1>5, TypesAreDisjoint, HierarchyTypes
<1>8. \A q \in Component : q \in LockTargets(mp, o)
        <=> serviceOf[q] = o \/ \E c \in Component : serviceOf[c] = o /\ Shares(mp, c, q)
  BY <1>5, TypesAreDisjoint, HierarchyTypes
<1>9. \A q \in Host : q \in LockTargets(mp, o)
        <=> \E c \in Component : <<q, c>> \in mp /\ serviceOf[c] = o
  BY <1>5, TypesAreDisjoint, HierarchyTypes
<1> QED
  BY <1>6, <1>7, <1>8, <1>9

(* A component's lock covers what it is part of, its hosts, and what       *)
(* shares one of them.                                                     *)
LEMMA ComponentCovers ==
  ASSUME NEW mp \in Mapping, NEW o \in Component
  PROVE  /\ \A q \in Cluster : q \in LockTargets(mp, o) <=> q = clusterOf[serviceOf[o]]
         /\ \A q \in Service : q \in LockTargets(mp, o)
              <=> q = serviceOf[o] \/ \E d \in Component : serviceOf[d] = q /\ Shares(mp, o, d)
         /\ \A q \in Component : q \in LockTargets(mp, o) <=> q = o \/ Shares(mp, o, q)
         /\ \A q \in Host : q \in LockTargets(mp, o) <=> <<q, o>> \in mp
<1>1. LockTargets(mp, o) = ByHosts(mp, ComponentTargets(mp, o))
  BY TargetsByType
<1>2. HostsWith(mp, {o}) = {h \in Host : <<h, o>> \in mp}
  BY DEF HostsWith
<1>3. ComponentTargets(mp, o) \cap Host = HostsWith(mp, {o})
  BY TypesAreDisjoint, HierarchyTypes DEF ComponentTargets, HostsWith, ComponentCluster
<1>4. ComponentsOn(mp, ComponentTargets(mp, o) \cap Host) = {d \in Component : Shares(mp, o, d)}
  BY <1>2, <1>3 DEF ComponentsOn, Shares
<1> QED
  BY <1>1, <1>2, <1>4, TypesAreDisjoint, HierarchyTypes
     DEF ByHosts, ComponentTargets, ServicesOf, ComponentCluster

(* A host's lock covers the components on it with their services and       *)
(* cluster.                                                                *)
LEMMA HostCovers ==
  ASSUME NEW mp \in Mapping, NEW o \in Host
  PROVE  /\ \A q \in Cluster : q \in LockTargets(mp, o)
              <=> \E c \in Component : <<o, c>> \in mp /\ clusterOf[serviceOf[c]] = q
         /\ \A q \in Service : q \in LockTargets(mp, o)
              <=> \E c \in Component : <<o, c>> \in mp /\ serviceOf[c] = q
         /\ \A q \in Component : q \in LockTargets(mp, o) <=> <<o, q>> \in mp
         /\ \A q \in Host : q \in LockTargets(mp, o) <=> q = o
<1>1. LockTargets(mp, o) = HostTargets(mp, o)
  BY TargetsByType
<1>2. ComponentsOn(mp, {o}) = {c \in Component : <<o, c>> \in mp}
  BY DEF ComponentsOn
<1>3. \A q : q \in LockTargets(mp, o)
        <=> \/ q = o
            \/ \E c \in Component : <<o, c>> \in mp /\ clusterOf[serviceOf[c]] = q
            \/ \E c \in Component : <<o, c>> \in mp /\ serviceOf[c] = q
            \/ q \in Component /\ <<o, q>> \in mp
  BY <1>1, <1>2 DEF HostTargets, ClustersOf, ServicesOf, ComponentCluster
<1>4. ASSUME NEW q, q \in Cluster \cup Service \cup Component \cup Host
      PROVE  /\ q \in Cluster => q # o /\ q \notin Component /\ \A c \in Component : serviceOf[c] # q
             /\ q \in Service => q # o /\ q \notin Component
                                 /\ \A c \in Component : clusterOf[serviceOf[c]] # q
             /\ q \in Component => q # o /\ \A c \in Component : serviceOf[c] # q /\ clusterOf[serviceOf[c]] # q
             /\ q \in Host => q \notin Component
                              /\ \A c \in Component : serviceOf[c] # q /\ clusterOf[serviceOf[c]] # q
  BY <1>4, TypesAreDisjoint, HierarchyTypes
<1>5. \A q \in Cluster : q \in LockTargets(mp, o)
        <=> \E c \in Component : <<o, c>> \in mp /\ clusterOf[serviceOf[c]] = q
  BY <1>3, <1>4
<1>6. \A q \in Service : q \in LockTargets(mp, o)
        <=> \E c \in Component : <<o, c>> \in mp /\ serviceOf[c] = q
  BY <1>3, <1>4
<1>7. \A q \in Component : q \in LockTargets(mp, o) <=> <<o, q>> \in mp
  BY <1>3, <1>4
<1>8. \A q \in Host : q \in LockTargets(mp, o) <=> q = o
  BY <1>3, <1>4
<1> QED
  BY <1>5, <1>6, <1>7, <1>8

(* LockIsMutual of the model-checked instance, for every topology: an      *)
(* object of a cluster is covered by the lock of another exactly when its  *)
(* own lock covers the other (distribute_concern_on_related_objects).      *)
THEOREM LocksAreMutual == \A mp \in Mapping : CoversMutually(mp)
<1>1. SUFFICES ASSUME NEW mp \in Mapping,
                      NEW o \in AdcmObject \ Provider, NEW q \in AdcmObject \ Provider,
                      o \in LockTargets(mp, q)
               PROVE  q \in LockTargets(mp, o)
  BY DEF CoversMutually
<1>2. \A c, d \in Component : Shares(mp, c, d) <=> Shares(mp, d, c)
  BY DEF Shares
<1>3. /\ o \in Cluster \cup Service \cup Component \cup Host
      /\ q \in Cluster \cup Service \cup Component \cup Host
  BY <1>1 DEF AdcmObject
<1>4. CASE q \in Cluster
  <2>1. CASE o \in Cluster
    BY <1>1, <1>2, <1>4, <2>1, ClusterCovers
  <2>2. CASE o \in Service
    BY <1>1, <1>2, <1>4, <2>2, ClusterCovers, ServiceCovers
  <2>3. CASE o \in Component
    BY <1>1, <1>2, <1>4, <2>3, ClusterCovers, ComponentCovers
  <2>4. CASE o \in Host
    <3>1. \E c \in Component : <<o, c>> \in mp /\ clusterOf[serviceOf[c]] = q
      BY <1>1, <1>4, <2>4, ClusterCovers
    <3> QED
      BY <1>4, <2>4, <3>1, HostCovers
  <2> QED
    BY <1>3, <2>1, <2>2, <2>3, <2>4
<1>5. CASE q \in Service
  <2>1. CASE o \in Cluster
    BY <1>1, <1>2, <1>5, <2>1, ClusterCovers, ServiceCovers
  <2>2. CASE o \in Service
    BY <1>1, <1>2, <1>5, <2>2, ServiceCovers
  <2>3. CASE o \in Component
    BY <1>1, <1>2, <1>5, <2>3, ComponentCovers, ServiceCovers
  <2>4. CASE o \in Host
    <3>1. PICK c \in Component : <<o, c>> \in mp /\ serviceOf[c] = q
      BY <1>1, <1>5, <2>4, ServiceCovers
    <3> QED
      BY <1>5, <2>4, <3>1, HostCovers
  <2> QED
    BY <1>3, <2>1, <2>2, <2>3, <2>4
<1>6. CASE q \in Component
  <2>1. CASE o \in Cluster
    BY <1>1, <1>2, <1>6, <2>1, ClusterCovers, ComponentCovers
  <2>2. CASE o \in Service
    BY <1>1, <1>2, <1>6, <2>2, ComponentCovers, ServiceCovers
  <2>3. CASE o \in Component
    BY <1>1, <1>2, <1>6, <2>3, ComponentCovers
  <2>4. CASE o \in Host
    BY <1>1, <1>2, <1>6, <2>4, ComponentCovers, HostCovers
  <2> QED
    BY <1>3, <2>1, <2>2, <2>3, <2>4
<1>7. CASE q \in Host
  <2>1. CASE o \in Cluster
    BY <1>1, <1>2, <1>7, <2>1, ClusterCovers, HostCovers
  <2>2. CASE o \in Service
    <3>1. \A s \in Service : s \in LockTargets(mp, q)
            <=> \E c \in Component : <<q, c>> \in mp /\ serviceOf[c] = s
      BY <1>7, HostCovers
    <3>2. PICK c \in Component : <<q, c>> \in mp /\ serviceOf[c] = o
      BY <1>1, <2>2, <3>1
    <3> QED
      BY <1>7, <2>2, <3>2, ServiceCovers
  <2>3. CASE o \in Component
    BY <1>1, <1>2, <1>7, <2>3, ComponentCovers, HostCovers
  <2>4. CASE o \in Host
    BY <1>1, <1>2, <1>7, <2>4, HostCovers
  <2> QED
    BY <1>3, <2>1, <2>2, <2>3, <2>4
<1> QED
  BY <1>3, <1>4, <1>5, <1>6, <1>7

-----------------------------------------------------------------------------
(* Rows of the mapping *)

(* A row of the mapping joins a host and a component of the host's cluster.*)
RowInCluster(m, cluster) ==
  /\ m \in Host \X Component
  /\ m[1] \in DOMAIN cluster /\ cluster[m[1]] = ComponentCluster(m[2])

LEMMA ClusterOfComponent ==
  ASSUME NEW c \in Component
  PROVE  ComponentCluster(c) \in Cluster /\ ComponentCluster(c) # None
  BY TopologyAssumption, BundleAssumption DEF ComponentCluster, AdcmObject

-----------------------------------------------------------------------------
(* What exists *)

Has(o, kind) == <<o, kind>> \in DOMAIN link

(* Objects are there with what they are part of, concerns with their       *)
(* owners.                                                                 *)
Objects ==
  /\ clusters \subseteq Cluster /\ services \subseteq Service /\ hosts \subseteq Host
  /\ \A s \in services : clusterOf[s] \in clusters
  /\ \A h \in hosts : hostCluster[h] \in clusters \cup {None}
  /\ \A m \in hc : RowInCluster(m, hostCluster) /\ serviceOf[m[2]] \in services
  /\ IsFiniteSet(hosts)

Owned ==
  /\ empty \subseteq Unset \cap Existing /\ imported \subseteq Imports \cap Existing
  /\ unchecked \subseteq clusters
  /\ DOMAIN link \subseteq Concern
  /\ \A c \in DOMAIN link : c[1] \in Existing

(* What exists, type by type.                                              *)
LEMMA ExistingByType ==
  ASSUME Objects
  PROVE  /\ \A o \in Cluster : o \in Existing <=> o \in clusters
         /\ \A o \in Service : o \in Existing <=> o \in services
         /\ \A o \in Component : o \in Existing <=> serviceOf[o] \in services
         /\ \A o \in Host : o \in Existing <=> o \in hosts
         /\ \A o \in Provider : o \in Existing
         /\ Existing \subseteq AdcmObject
  BY TopologyAssumption DEF Objects, Existing, ComponentsIn, AdcmObject

(* The concerns an operation creates and deletes.                          *)
LEMMA DomainOfWith ==
  ASSUME NEW lk, NEW cs, NEW objects
  PROVE  \A c : c \in DOMAIN With(lk, cs, objects) <=> c \in cs \/ c \in DOMAIN lk
  BY DEF With

LEMMA DomainOfWithout ==
  ASSUME NEW lk, NEW cs
  PROVE  \A c : c \in DOMAIN Without(lk, cs) <=> c \in DOMAIN lk /\ c \notin cs
  BY DEF Without

LEMMA DomainOfOthers ==
  ASSUME NEW lk, NEW objects
  PROVE  \A c : c \in DOMAIN WithoutObjects(lk, objects) <=> c \in DOMAIN lk /\ c[1] \notin objects
  BY DEF WithoutObjects

LEMMA DomainOfRedistributed ==
  ASSUME NEW lk, NEW k, NEW svcs, NEW m
  PROVE  DOMAIN Redistributed(lk, k, svcs, m) = DOMAIN lk
  BY DEF Redistributed

LEMMA DomainOfRechecked ==
  ASSUME NEW lk, NEW issue, NEW has \in BOOLEAN, NEW targets
  PROVE  \A c : c \in DOMAIN IssueRechecked(lk, issue, has, targets)
                  <=> IF c = issue THEN has ELSE c \in DOMAIN lk
<1>1. CASE ~has
  <2>1. IssueRechecked(lk, issue, has, targets) = Without(lk, {issue})
    BY <1>1 DEF IssueRechecked
  <2> QED
    BY <1>1, <2>1, DomainOfWithout
<1>2. CASE has /\ issue \in DOMAIN lk
  BY <1>2 DEF IssueRechecked
<1>3. CASE has /\ issue \notin DOMAIN lk
  <2>1. IssueRechecked(lk, issue, has, targets) = With(lk, {issue}, targets)
    BY <1>3 DEF IssueRechecked
  <2> QED
    BY <1>3, <2>1, DomainOfWith
<1> QED
  BY <1>1, <1>2, <1>3

LEMMA DomainOfUpdated ==
  ASSUME NEW k, NEW m
  PROVE  \A c : c \in DOMAIN ConcernsUpdated(k, m)
                  <=> IF c = <<k, "hostcomponent">>
                      THEN ClusterMappingHasIssue(k, ServicesOfCluster(k), HostsOfCluster(k), m)
                      ELSE c \in DOMAIN link
<1> DEFINE lk == MappingIssueUpdated(link, k, ServicesOfCluster(k), HostsOfCluster(k), m)
           has == ClusterMappingHasIssue(k, ServicesOfCluster(k), HostsOfCluster(k), m)
           issue == <<k, "hostcomponent">>
           redistributed == Redistributed(lk, k, ServicesOfCluster(k), m)
<1>0. has \in BOOLEAN
  BY DEF ClusterMappingHasIssue
<1>1. lk = IF ~has THEN Without(link, {issue}) ELSE IF issue \in DOMAIN link THEN link ELSE With(link, {issue}, {})
  BY DEF MappingIssueUpdated
<1>2. DOMAIN redistributed = DOMAIN lk
  BY DomainOfRedistributed
<1>3. ConcernsUpdated(k, m) = LockMoved(redistributed, k, m)
  BY DEF ConcernsUpdated
<1> HIDE DEF lk, has, issue, redistributed
<1>4. DOMAIN LockMoved(redistributed, k, m) = DOMAIN redistributed
  BY DEF LockMoved
<1>5. \A c : c \in DOMAIN lk <=> IF c = issue THEN has ELSE c \in DOMAIN link
  <2>1. CASE ~has
    BY <1>1, <2>1, DomainOfWithout
  <2>2. CASE has /\ issue \in DOMAIN link
    BY <1>1, <2>2
  <2>3. CASE has /\ issue \notin DOMAIN link
    BY <1>1, <2>3, DomainOfWith
  <2> QED
    BY <1>0, <2>1, <2>2, <2>3
<1>6. \A c : c \in DOMAIN ConcernsUpdated(k, m) <=> IF c = issue THEN has ELSE c \in DOMAIN link
  BY <1>2, <1>3, <1>4, <1>5
<1> QED
  BY <1>6 DEF has, issue

LEMMA DomainOfAdded ==
  ASSUME NEW k, NEW S, NEW svcs, NEW X
  PROVE  \A c : c \in DOMAIN AddedConcerns(k, S, svcs, X)
                  <=> \/ c \in DOMAIN link /\ c \notin ResolvedIssues(k, svcs, svcs \ S, X)
                      \/ c \notin DOMAIN link /\ c \in NewServiceIssues(k, S, svcs)
<1> DEFINE resolved == ResolvedIssues(k, svcs, svcs \ S, X)
           new == NewServiceIssues(k, S, svcs) \ DOMAIN link
           without == Without(link, resolved)
           lk == With(without, new, {})
<1>1. AddedConcerns(k, S, svcs, X) = Redistributed(lk, k, svcs, hc)
  BY DEF AddedConcerns
<1> HIDE DEF resolved
<1>2. \A c : c \in DOMAIN without <=> c \in DOMAIN link /\ c \notin resolved
  BY DomainOfWithout
<1> HIDE DEF without, new
<1>3. \A c : c \in DOMAIN lk <=> c \in new \/ c \in DOMAIN without
  BY DomainOfWith
<1> HIDE DEF lk
<1>4. DOMAIN AddedConcerns(k, S, svcs, X) = DOMAIN lk
  BY <1>1, DomainOfRedistributed
<1>5. \A c : c \in DOMAIN AddedConcerns(k, S, svcs, X) <=> c \in new \/ (c \in DOMAIN link /\ c \notin resolved)
  BY <1>2, <1>3, <1>4
<1> QED
  BY <1>5 DEF new, resolved

LEMMA DomainOfFlagged ==
  ASSUME NEW lk, NEW o, NEW new \in OutdatedConfigFlag(lk, o)
  PROVE  \A c : c \in DOMAIN new <=> c \in DOMAIN lk \/ (o \in Flagging /\ c = <<o, "flag">> /\ c \in DOMAIN new)
<1>1. \A c : c \in DOMAIN Raised(lk, o) <=> c = <<o, "flag">> \/ c \in DOMAIN lk
  BY DomainOfWith DEF Raised
<1> QED
  BY <1>1 DEF OutdatedConfigFlag

-----------------------------------------------------------------------------
(* Objects stay consistent *)

LEMMA ObjectsInit == Init => Objects /\ Owned
<1> SUFFICES ASSUME Init PROVE Objects /\ Owned
  OBVIOUS
<1>1. hosts = {}
  BY DEF Init, hosts
<1>2. Objects
  BY <1>1, FS_EmptySet DEF Init, Objects
<1>3. Existing = Provider
  BY <1>1 DEF Init, Existing, ComponentsIn
<1>4. DOMAIN link = {<<o, "config">> : o \in Provider \cap Unset}
  BY DEF Init, ConfigIssues
<1>5. Owned
  BY <1>3, <1>4 DEF Init, Owned, Concern, Issue, AdcmObject
<1> QED
  BY <1>2, <1>5

Consistent == Objects /\ Owned

(* Kinds of concerns and of their owners, for what steps create.           *)
LEMMA ConcernKinds ==
  /\ \A o \in AdcmObject, kind \in Issue \cup {"flag", "lock"} : <<o, kind>> \in Concern
  /\ \A c \in Concern : c = <<c[1], c[2]>> /\ c[1] \in AdcmObject /\ c[2] \in Issue \cup {"flag", "lock"}
  BY DEF Concern

LEMMA NoneIsNoCluster == None \notin Cluster /\ clusters \subseteq Cluster => None \notin clusters
  OBVIOUS

LEMMA MappingConsistent ==
  ASSUME Consistent, NEW k \in clusters, NEW m \in Mappings(k),
         MappingChanged(k, (hc \ RowsOf(hc, k)) \cup m)
  PROVE  Consistent'
<1>1. hc' = (hc \ RowsOf(hc, k)) \cup m /\ UNCHANGED <<clusters, services, hostCluster, empty, imported>>
  BY DEF MappingChanged
<1>2. ASSUME NEW n \in m PROVE RowInCluster(n, hostCluster) /\ serviceOf[n[2]] \in services
  <2>1. n \in HostsOfCluster(k) \X ComponentsIn(ServicesOfCluster(k))
    BY DEF Mappings
  <2>2. n[1] \in DOMAIN hostCluster /\ hostCluster[n[1]] = k /\ n[1] \in Host
    BY <2>1 DEF HostsOfCluster, hosts, Consistent, Objects
  <2>3. n[2] \in Component /\ ComponentCluster(n[2]) = k /\ serviceOf[n[2]] \in services
    BY <2>1 DEF ComponentsIn, ServicesOfCluster, ServicesIn, ComponentCluster
  <2>4. n \in Host \X Component
    BY <2>1, <2>2, <2>3
  <2> QED
    BY <2>2, <2>3, <2>4 DEF RowInCluster
<1>3. Objects'
  BY <1>1, <1>2 DEF Consistent, Objects, hosts
<1>4. Existing' = Existing
  BY <1>1 DEF Existing, hosts
<1>5. DOMAIN link' \subseteq DOMAIN link \cup {<<k, "hostcomponent">>}
  BY DomainOfUpdated DEF MappingChanged
<1>6. k \in Existing /\ k \in AdcmObject
  BY DEF Existing, Consistent, Objects, AdcmObject
<1>7. \A c \in DOMAIN link' : c \in Concern /\ c[1] \in Existing
  BY <1>5, <1>6, ConcernKinds DEF Consistent, Owned, Issue
<1> QED
  BY <1>1, <1>3, <1>4, <1>7 DEF Consistent, Owned, MappingChanged

LEMMA AddServicesConsistent ==
  ASSUME Consistent, NEW k \in clusters, NEW S \in SUBSET Service, AddServices(k, S)
  PROVE  Consistent'
<1> DEFINE svcs == ServicesOfCluster(k) \cup S
           new == S \cup ComponentsIn(S)
<1>1. /\ services' = services \cup S /\ empty' = empty \cup (Unset \cap new)
      /\ S \subseteq ServicesIn(k)
      /\ UNCHANGED <<clusters, hostCluster, hc, imported>>
      /\ unchecked' \subseteq unchecked \cup {k}
  BY DEF AddServices
<1>2. Objects'
  BY <1>1 DEF Consistent, Objects, hosts, ServicesIn
<1>3. Existing' = Existing \cup new
  BY <1>1 DEF Existing, hosts, ComponentsIn
<1>4. DOMAIN link' \subseteq DOMAIN link \cup NewServiceIssues(k, S, svcs)
  <2>1. PICK X : link' = AddedConcerns(k, S, svcs, X)
    BY DEF AddServices
  <2> HIDE DEF svcs
  <2> QED
    BY <2>1, DomainOfAdded
<1>5. k \in Existing /\ k \in AdcmObject /\ new \subseteq AdcmObject
  BY DEF Existing, Consistent, Objects, AdcmObject, ComponentsIn
<1>6. ASSUME NEW c \in NewServiceIssues(k, S, svcs)
      PROVE  c \in Concern /\ c[1] \in Existing \cup new
  <2>1. CASE c \in ConfigIssues(new)
    <3>1. PICK o \in new : c = <<o, "config">>
      BY <2>1 DEF ConfigIssues
    <3> QED
      BY <1>5, <3>1, ConcernKinds DEF Issue
  <2>2. CASE c \in ImportIssues(S)
    <3>1. PICK o \in S : c = <<o, "import">>
      BY <2>2 DEF ImportIssues
    <3> QED
      BY <1>5, <3>1, ConcernKinds DEF Issue
  <2>3. CASE c \in {<<s, "requirement">> : s \in Unsatisfied(svcs) \cap S}
    BY <1>5, <2>3, ConcernKinds, ZenonT(60) DEF Issue
  <2>4. CASE c = <<k, "hostcomponent">>
    BY <1>5, <2>4, ConcernKinds DEF Issue
  <2> QED
    BY <2>1, <2>2, <2>3, <2>4 DEF NewServiceIssues
<1>7. empty' \subseteq Unset \cap Existing'
  BY <1>1, <1>3 DEF Consistent, Owned
<1> HIDE DEF new, svcs
<1>8. \A c \in DOMAIN link' : c \in Concern /\ c[1] \in Existing'
  BY <1>3, <1>4, <1>6 DEF Consistent, Owned
<1>9. imported' \subseteq Imports \cap Existing' /\ unchecked' \subseteq clusters'
  BY <1>1, <1>3 DEF Consistent, Owned
<1> QED
  BY <1>2, <1>7, <1>8, <1>9 DEF Consistent, Owned

(* What the deletion of a service leaves of the concerns.                  *)
LEMMA DomainOfServiceGone ==
  ASSUME NEW s, NEW lk, NEW m, ServiceGone(s, lk, m),
         \A c : c # <<clusterOf[s], "hostcomponent">> => (c \in DOMAIN lk <=> c \in DOMAIN link)
  PROVE  \A c : c \in DOMAIN link' <=>
                  IF c = <<clusterOf[s], "hostcomponent">>
                  THEN ClusterMappingHasIssue(clusterOf[s], ServicesOfCluster(clusterOf[s]) \ {s},
                                              HostsOfCluster(clusterOf[s]), m)
                  ELSE c \in DOMAIN link /\ c[1] \notin {s} \cup ComponentsIn({s})
<1> DEFINE k == clusterOf[s]
           issue == <<k, "hostcomponent">>
           gone == {s} \cup ComponentsIn({s})
           rest == ServicesOfCluster(k) \ {s}
           has == ClusterMappingHasIssue(k, rest, HostsOfCluster(k), m)
           targets == {k} \cup rest \cup ComponentsIn(rest) \cup MappedHosts(m, k)
           left == WithoutObjects(lk, gone)
<1>0. has \in BOOLEAN
  BY DEF ClusterMappingHasIssue
<1>1. link' = IssueRechecked(left, issue, has, targets)
  BY DEF ServiceGone
<1>2. \A c : c # issue => (c \in DOMAIN lk <=> c \in DOMAIN link)
  OBVIOUS
<1> HIDE DEF k, issue, gone, has, targets
<1>3. \A c : c \in DOMAIN left <=> c \in DOMAIN lk /\ c[1] \notin gone
  BY DomainOfOthers
<1> HIDE DEF left
<1>4. \A c : c \in DOMAIN link' <=> IF c = issue THEN has ELSE c \in DOMAIN left
  BY <1>0, <1>1, DomainOfRechecked
<1>5. \A c : c \in DOMAIN link' <=> IF c = issue THEN has ELSE c \in DOMAIN link /\ c[1] \notin gone
  BY <1>0, <1>2, <1>3, <1>4
<1> QED
  BY <1>5 DEF k, gone, has, issue

LEMMA ServiceGoneConsistent ==
  ASSUME Consistent, NEW s \in services, DeleteService(s) \/ DeleteServiceByTask(s)
  PROVE  /\ Consistent'
         /\ \A c : c \in DOMAIN link' <=>
                  IF c = <<clusterOf[s], "hostcomponent">>
                  THEN ClusterMappingHasIssue(clusterOf[s], ServicesOfCluster(clusterOf[s]) \ {s},
                                              HostsOfCluster(clusterOf[s]), hc')
                  ELSE c \in DOMAIN link /\ c[1] \notin {s} \cup ComponentsIn({s})
<1> DEFINE gone == {s} \cup ComponentsIn({s})
           k == clusterOf[s]
           has == ClusterMappingHasIssue(k, ServicesOfCluster(k) \ {s}, HostsOfCluster(k), hc')
<1>0. s \in Service /\ k \in clusters /\ k \in Cluster
  BY DEF Consistent, Objects
<1>1. k \notin gone
  BY <1>0, TopologyAssumption DEF ComponentsIn
<1>2. PICK lk : ServiceGone(s, lk, hc') /\ lk \in {link, ConcernsUpdated(k, hc')}
  BY DEF DeleteService, DeleteServiceByTask, ServiceGone
<1>3. \A c : c # <<k, "hostcomponent">> => (c \in DOMAIN lk <=> c \in DOMAIN link)
  BY <1>2, DomainOfUpdated
<1>4. \A c : c \in DOMAIN link' <=> IF c = <<k, "hostcomponent">> THEN has ELSE c \in DOMAIN link /\ c[1] \notin gone
  BY <1>2, <1>3, DomainOfServiceGone
<1>5. /\ services' = services \ {s} /\ empty' = empty \ gone /\ imported' = imported \ gone
      /\ unchecked' \subseteq unchecked /\ UNCHANGED <<clusters, hostCluster>>
  BY <1>2 DEF ServiceGone
<1>6. hc' = {n \in hc : serviceOf[n[2]] # s}
  BY DEF DeleteService, DeleteServiceByTask, ServiceGone
<1>7. Objects'
  BY <1>5, <1>6 DEF Consistent, Objects, hosts
<1>8. \A o \in Existing : o \notin gone => o \in Existing'
  BY <1>5 DEF Existing, hosts, ComponentsIn
<1>9. k \in Existing' /\ k \in AdcmObject
  BY <1>0, <1>5 DEF Existing, AdcmObject
<1> HIDE DEF gone, k, has
<1>10. \A c \in DOMAIN link' : c \in Concern /\ c[1] \in Existing'
  BY <1>4, <1>8, <1>9, ConcernKinds DEF Consistent, Owned, Issue
<1>11. empty' \subseteq Unset \cap Existing' /\ imported' \subseteq Imports \cap Existing' /\ unchecked' \subseteq clusters'
  BY <1>5, <1>8 DEF Consistent, Owned
<1>12. Consistent'
  BY <1>7, <1>10, <1>11 DEF Consistent, Owned
<1> QED
  BY <1>4, <1>12 DEF gone, k, has

(* The concerns a new cluster has.                                         *)
NewClusterIssues(k) ==
  {c \in ConfigIssues({k}) \cup ImportIssues({k}) \cup {<<k, "service">>, <<k, "hostcomponent">>} :
     /\ c[2] = "service" => RequiredServicesMissing(k, {})
     /\ c[2] = "hostcomponent" => ClusterMappingHasIssue(k, {}, {}, hc)}

LEMMA AddClusterConsistent ==
  ASSUME Consistent, NEW k \in Cluster, AddCluster(k)
  PROVE  /\ Consistent'
         /\ \A c : c \in DOMAIN link' <=> c \in NewClusterIssues(k) \/ c \in DOMAIN link
<1> DEFINE lk == With(link, NewClusterIssues(k), {})
<1>1. link' = Redistributed(lk, k, {}, hc)
  BY DEF AddCluster, NewClusterIssues
<1>2. \A c : c \in DOMAIN lk <=> c \in NewClusterIssues(k) \/ c \in DOMAIN link
  BY DomainOfWith
<1> HIDE DEF lk
<1>3. DOMAIN link' = DOMAIN lk
  BY <1>1, DomainOfRedistributed
<1>4. /\ clusters' = clusters \cup {k} /\ empty' = empty \cup (Unset \cap {k})
      /\ UNCHANGED <<services, hostCluster, hc, imported, unchecked>>
  BY DEF AddCluster
<1>5. Objects'
  BY <1>4 DEF Consistent, Objects, hosts
<1>6. Existing' = Existing \cup {k}
  BY <1>4 DEF Existing, hosts
<1>7. \A c \in NewClusterIssues(k) : c \in Concern /\ c[1] = k
  <2>1. \A kind \in {"config", "import", "service", "hostcomponent"} : <<k, kind>> \in Concern
    BY ConcernKinds DEF AdcmObject, Issue
  <2> QED
    BY <2>1 DEF NewClusterIssues, ConfigIssues, ImportIssues
<1>8. \A c \in DOMAIN link' : c \in Concern /\ c[1] \in Existing'
  BY <1>2, <1>3, <1>6, <1>7 DEF Consistent, Owned
<1>9. empty' \subseteq Unset \cap Existing' /\ imported' \subseteq Imports \cap Existing' /\ unchecked' \subseteq clusters'
  BY <1>4, <1>6 DEF Consistent, Owned
<1>10. Consistent'
  BY <1>5, <1>8, <1>9 DEF Consistent, Owned
<1> QED
  BY <1>2, <1>3, <1>10

LEMMA DeleteClusterConsistent ==
  ASSUME Consistent, NEW k \in Cluster, DeleteCluster(k)
  PROVE  /\ Consistent'
         /\ \A c : c \in DOMAIN link' <=>
                  /\ c \in DOMAIN link
                  /\ c[1] \notin {k} \cup ServicesOfCluster(k) \cup ComponentsIn(ServicesOfCluster(k))
<1> DEFINE svcs == ServicesOfCluster(k)
           gone == {k} \cup svcs \cup ComponentsIn(svcs)
<1>1. \A c : c \in DOMAIN link' <=> c \in DOMAIN link /\ c[1] \notin gone
  BY DomainOfOthers DEF DeleteCluster
<1>2. /\ clusters' = clusters \ {k} /\ services' = services \ svcs
      /\ hostCluster' = [h \in hosts |-> IF hostCluster[h] = k THEN None ELSE hostCluster[h]]
      /\ hc' = hc \ RowsOf(hc, k)
      /\ empty' = empty \ gone /\ imported' = imported \ gone /\ unchecked' = unchecked \ {k}
  BY DEF DeleteCluster
<1>3. \A s \in services : s \in svcs <=> clusterOf[s] = k
  BY DEF Consistent, Objects, ServicesOfCluster, ServicesIn
<1>4. \A m \in hc' : RowInCluster(m, hostCluster') /\ serviceOf[m[2]] \in services'
  <2> SUFFICES ASSUME NEW m \in hc' PROVE RowInCluster(m, hostCluster') /\ serviceOf[m[2]] \in services'
    OBVIOUS
  <2>1. m \in hc /\ ComponentCluster(m[2]) # k
    BY <1>2 DEF RowsOf
  <2>2. RowInCluster(m, hostCluster) /\ serviceOf[m[2]] \in services
    BY <2>1 DEF Consistent, Objects
  <2>3. serviceOf[m[2]] \in services'
    BY <1>2, <1>3, <2>1, <2>2 DEF ComponentCluster
  <2>4. RowInCluster(m, hostCluster')
    BY <1>2, <2>1, <2>2 DEF RowInCluster, hosts
  <2> QED
    BY <2>3, <2>4
<1>5. hosts' = hosts /\ \A h \in hosts : hostCluster'[h] = IF hostCluster[h] = k THEN None ELSE hostCluster[h]
  BY <1>2 DEF hosts
<1>6. Objects'
  BY <1>2, <1>3, <1>4, <1>5 DEF Consistent, Objects
<1>7. \A o \in Existing : o \notin gone => o \in Existing'
  BY <1>2, <1>5 DEF Existing, ComponentsIn
<1> HIDE DEF gone
<1>8. \A c \in DOMAIN link' : c \in Concern /\ c[1] \in Existing'
  BY <1>1, <1>7 DEF Consistent, Owned
<1>9. empty' \subseteq Unset \cap Existing' /\ imported' \subseteq Imports \cap Existing' /\ unchecked' \subseteq clusters'
  BY <1>2, <1>7 DEF Consistent, Owned
<1>10. Consistent'
  BY <1>6, <1>8, <1>9 DEF Consistent, Owned
<1> QED
  BY <1>1, <1>10 DEF gone

LEMMA HostCreatedConsistent ==
  ASSUME Consistent, NEW h \in Host, NEW k \in clusters \cup {None}, HostCreated(h, k),
         unchecked' \subseteq unchecked \cup (clusters \cap {k})
  PROVE  /\ Consistent'
         /\ \A c : c \in DOMAIN link' <=> c \in ConfigIssues({h}) \/ c \in DOMAIN link
<1> DEFINE p == providerOf[h]
           inherited == ({<<p, "config">>} \cap DOMAIN link) \cup LockOn(link, p)
           lk == [c \in DOMAIN link |-> IF c \in inherited THEN link[c] \cup {h} ELSE link[c]]
<1>1. link' = With(lk, ConfigIssues({h}), {h})
  BY DEF HostCreated
<1>2. DOMAIN lk = DOMAIN link
  OBVIOUS
<1> HIDE DEF lk
<1>3. \A c : c \in DOMAIN link' <=> c \in ConfigIssues({h}) \/ c \in DOMAIN link
  BY <1>1, <1>2, DomainOfWith
<1>4. /\ h \notin hosts /\ hostCluster' = [n \in hosts \cup {h} |-> IF n = h THEN k ELSE hostCluster[n]]
      /\ empty' = empty \cup (Unset \cap {h})
      /\ UNCHANGED <<clusters, services, hc, imported>>
  BY DEF HostCreated
<1>5. hosts' = hosts \cup {h} /\ \A n \in hosts : hostCluster'[n] = hostCluster[n]
  BY <1>4 DEF hosts
<1>6. IsFiniteSet(hosts')
  BY <1>5, FS_AddElement DEF Consistent, Objects
<1>7. \A m \in hc' : RowInCluster(m, hostCluster') /\ serviceOf[m[2]] \in services'
  BY <1>4, <1>5 DEF Consistent, Objects, RowInCluster, hosts
<1>8. Objects'
  BY <1>4, <1>5, <1>6, <1>7 DEF Consistent, Objects
<1>9. Existing' = Existing \cup {h}
  BY <1>4, <1>5 DEF Existing
<1>10. \A c \in ConfigIssues({h}) : c \in Concern /\ c[1] = h
  <2>1. <<h, "config">> \in Concern
    BY ConcernKinds DEF AdcmObject, Issue
  <2> QED
    BY <2>1 DEF ConfigIssues
<1>11. \A c \in DOMAIN link' : c \in Concern /\ c[1] \in Existing'
  BY <1>3, <1>9, <1>10 DEF Consistent, Owned
<1>12. empty' \subseteq Unset \cap Existing' /\ imported' \subseteq Imports \cap Existing' /\ unchecked' \subseteq clusters'
  BY <1>4, <1>9 DEF Consistent, Owned
<1>13. Consistent'
  BY <1>8, <1>11, <1>12 DEF Consistent, Owned
<1> QED
  BY <1>3, <1>13

(* A host that is mapped nowhere joins or leaves a cluster.                *)
LEMMA HostMovedConsistent ==
  ASSUME Consistent, NEW h \in hosts, NEW k \in clusters \cup {None},
         hostCluster[h] = None \/ h \notin MappedHosts(hc, hostCluster[h]),
         hostCluster' = [hostCluster EXCEPT ![h] = k],
         UNCHANGED <<clusters, services, hc, empty, imported>>,
         unchecked' \subseteq unchecked,
         \A c \in DOMAIN link' : c \in DOMAIN link \/ c \in clusters \X {"hostcomponent"}
  PROVE  Consistent'
<1>1. hosts' = hosts /\ hostCluster'[h] = k /\ \A n \in hosts \ {h} : hostCluster'[n] = hostCluster[n]
  BY DEF hosts
<1>2. ASSUME NEW m \in hc PROVE m[1] # h /\ RowInCluster(m, hostCluster') /\ serviceOf[m[2]] \in services'
  <2>1. RowInCluster(m, hostCluster) /\ serviceOf[m[2]] \in services
    BY DEF Consistent, Objects
  <2>2. m[2] \in Component /\ hostCluster[m[1]] = ComponentCluster(m[2])
    BY <2>1 DEF RowInCluster
  <2>3. hostCluster[m[1]] # None
    BY <2>2, ClusterOfComponent
  <2>4. m[1] \in MappedHosts(hc, hostCluster[m[1]])
    BY <2>2 DEF MappedHosts, RowsOf
  <2>5. m[1] # h
    BY <2>3, <2>4
  <2> QED
    BY <1>1, <2>1, <2>5 DEF RowInCluster, hosts
<1>3. Objects'
  BY <1>1, <1>2 DEF Consistent, Objects
<1>4. Existing' = Existing
  BY <1>1 DEF Existing
<1>5. \A q \in clusters : q \in Existing /\ <<q, "hostcomponent">> \in Concern
  BY ConcernKinds DEF Existing, AdcmObject, Issue, Consistent, Objects
<1>6. \A c \in DOMAIN link' : c \in Concern /\ c[1] \in Existing
  BY <1>5 DEF Consistent, Owned
<1> QED
  BY <1>3, <1>4, <1>6 DEF Consistent, Owned

LEMMA AddHostToClusterConsistent ==
  ASSUME Consistent, NEW h \in Host, NEW k \in Cluster, AddHostToCluster(h, k)
  PROVE  /\ Consistent'
         /\ \A c : c \in DOMAIN link' <=>
                  IF c = <<k, "hostcomponent">>
                  THEN ClusterMappingHasIssue(k, ServicesOfCluster(k), HostsOfCluster(k) \cup {h}, hc)
                  ELSE c \in DOMAIN link
<1> DEFINE has == ClusterMappingHasIssue(k, ServicesOfCluster(k), HostsOfCluster(k) \cup {h}, hc)
<1>0. has \in BOOLEAN
  BY DEF ClusterMappingHasIssue
<1>1. link' = IssueRechecked(link, <<k, "hostcomponent">>, has, Targets("hostcomponent", k))
  BY DEF AddHostToCluster
<1> HIDE DEF has
<1>2. \A c : c \in DOMAIN link' <=> IF c = <<k, "hostcomponent">> THEN has ELSE c \in DOMAIN link
  BY <1>0, <1>1, DomainOfRechecked
<1>3. /\ k \in clusters /\ h \in hosts /\ hostCluster[h] = None
      /\ hostCluster' = [hostCluster EXCEPT ![h] = k] /\ unchecked' \subseteq unchecked
      /\ UNCHANGED <<clusters, services, hc, empty, imported>>
  BY DEF AddHostToCluster
<1>4. \A c \in DOMAIN link' : c \in DOMAIN link \/ c \in clusters \X {"hostcomponent"}
  BY <1>2, <1>3
<1>5. Consistent'
  BY <1>3, <1>4, HostMovedConsistent
<1> QED
  BY <1>2, <1>5 DEF has

LEMMA RemoveHostConsistent ==
  ASSUME Consistent, NEW h \in Host, RemoveHostFromCluster(h)
  PROVE  /\ Consistent'
         /\ \A c : c \in DOMAIN link' <=>
                  /\ c \in DOMAIN link
                  /\ c = <<hostCluster[h], "hostcomponent">> =>
                       ClusterMappingHasIssue(hostCluster[h], ServicesOfCluster(hostCluster[h]),
                                              HostsOfCluster(hostCluster[h]) \ {h}, hc)
<1> DEFINE k == hostCluster[h]
           has == ClusterMappingHasIssue(k, ServicesOfCluster(k), HostsOfCluster(k) \ {h}, hc)
           lk == [c \in DOMAIN link |-> IF c \in LockOn(link, k) THEN link[c] \ {h} ELSE link[c]]
<1>0. has \in BOOLEAN
  BY DEF ClusterMappingHasIssue
<1>1. link' = IF has THEN lk ELSE Without(lk, {<<k, "hostcomponent">>})
  BY DEF RemoveHostFromCluster
<1>2. DOMAIN lk = DOMAIN link
  OBVIOUS
<1>3. /\ h \in hosts /\ k # None /\ h \notin MappedHosts(hc, k)
      /\ hostCluster' = [hostCluster EXCEPT ![h] = None] /\ unchecked' \subseteq unchecked
      /\ UNCHANGED <<clusters, services, hc, empty, imported>>
  BY DEF RemoveHostFromCluster
<1> HIDE DEF has, lk
<1>4. \A c : c \in DOMAIN link' <=> c \in DOMAIN link /\ (c = <<k, "hostcomponent">> => has)
  BY <1>0, <1>1, <1>2, DomainOfWithout
<1>5. Consistent'
  BY <1>3, <1>4, HostMovedConsistent
<1> QED
  BY <1>4, <1>5 DEF has

LEMMA DeleteHostConsistent ==
  ASSUME Consistent, NEW h \in Host, DeleteHost(h)
  PROVE  /\ Consistent'
         /\ \A c : c \in DOMAIN link' <=> c \in DOMAIN link /\ c[1] # h
<1>1. \A c : c \in DOMAIN link' <=> c \in DOMAIN link /\ c[1] # h
  BY DomainOfOthers DEF DeleteHost
<1>2. /\ h \in hosts /\ hostCluster[h] = None
      /\ hostCluster' = [n \in hosts \ {h} |-> hostCluster[n]] /\ empty' = empty \ {h}
      /\ UNCHANGED <<clusters, services, hc, imported, unchecked>>
  BY DEF DeleteHost
<1>3. hosts' = hosts \ {h} /\ \A n \in hosts' : hostCluster'[n] = hostCluster[n]
  BY <1>2 DEF hosts
<1>4. IsFiniteSet(hosts')
  BY <1>3, FS_RemoveElement DEF Consistent, Objects
<1>5. ASSUME NEW m \in hc PROVE RowInCluster(m, hostCluster') /\ serviceOf[m[2]] \in services'
  <2>1. RowInCluster(m, hostCluster) /\ serviceOf[m[2]] \in services
    BY DEF Consistent, Objects
  <2>2. m[1] # h
    BY <1>2, <2>1, ClusterOfComponent DEF RowInCluster
  <2> QED
    BY <1>2, <1>3, <2>1, <2>2 DEF RowInCluster, hosts
<1>6. Objects'
  BY <1>2, <1>3, <1>4, <1>5 DEF Consistent, Objects
<1>7. \A o \in Existing : o # h => o \in Existing'
  BY <1>2, <1>3 DEF Existing
<1>8. h \notin Imports
  BY TopologyAssumption, BundleAssumption
<1>9. Consistent'
  BY <1>1, <1>2, <1>6, <1>7, <1>8 DEF Consistent, Owned
<1> QED
  BY <1>1, <1>9

LEMMA ConfigConsistent ==
  ASSUME Consistent, NEW o \in AdcmObject, SaveConfig(o) \/ SaveGroupConfig(o)
  PROVE  /\ Consistent'
         /\ \A c : c[2] # "flag" => (c \in DOMAIN link' <=> c \in DOMAIN link /\ c # <<o, "config">>)
<1> DEFINE lk == Without(link, {<<o, "config">>})
<1>1. \A c : c \in DOMAIN lk <=> c \in DOMAIN link /\ c # <<o, "config">>
  BY DomainOfWithout
<1>2. link' \in OutdatedConfigFlag(lk, o) /\ o \in Existing
  BY DEF SaveConfig, SaveGroupConfig
<1> HIDE DEF lk
<1>3. \A c : c \in DOMAIN link' <=> c \in DOMAIN lk \/ (o \in Flagging /\ c = <<o, "flag">> /\ c \in DOMAIN link')
  BY <1>2, DomainOfFlagged
<1>4. \A c : c[2] # "flag" => (c \in DOMAIN link' <=> c \in DOMAIN link /\ c # <<o, "config">>)
  BY <1>1, <1>3
<1>5. empty' \subseteq empty /\ UNCHANGED <<clusters, services, hostCluster, hc, imported, unchecked>>
  BY DEF SaveConfig, SaveGroupConfig
<1>6. Objects' /\ Existing' = Existing
  BY <1>5 DEF Consistent, Objects, hosts, Existing
<1>7. \A c \in DOMAIN link' : c \in Concern /\ c[1] \in Existing
  BY <1>1, <1>2, <1>3, ConcernKinds DEF Consistent, Owned
<1>8. Consistent'
  BY <1>5, <1>6, <1>7 DEF Consistent, Owned
<1> QED
  BY <1>4, <1>8

(* Flags and locks come and go without any issue.                          *)
LEMMA NoIssueConsistent ==
  ASSUME Consistent, NEW o \in AdcmObject,
         SaveConfigByPlugin(o) \/ RaiseFlag(o) \/ LowerFlag(o) \/ TakeLock(o) \/ ReleaseLock(o)
  PROVE  /\ Consistent'
         /\ \A c : c[2] \notin {"flag", "lock"} => (c \in DOMAIN link' <=> c \in DOMAIN link)
         /\ UNCHANGED <<clusters, services, hostCluster, hc, imported, unchecked>>
<1>1. \A c : c \in DOMAIN link' => c \in DOMAIN link \/ (c \in {<<o, "flag">>, <<o, "lock">>} /\ o \in Existing)
  BY DomainOfWith, DomainOfWithout DEF SaveConfigByPlugin, RaiseFlag, Raised, LowerFlag, TakeLock, ReleaseLock
<1>2. \A c : c \in DOMAIN link => c \in DOMAIN link' \/ c \in {<<o, "flag">>, <<o, "lock">>}
  BY DomainOfWith, DomainOfWithout DEF SaveConfigByPlugin, RaiseFlag, Raised, LowerFlag, TakeLock, ReleaseLock
<1>3. empty' \subseteq empty /\ UNCHANGED <<clusters, services, hostCluster, hc, imported, unchecked>>
  BY DEF SaveConfigByPlugin, RaiseFlag, LowerFlag, TakeLock, ReleaseLock
<1>4. Objects' /\ Existing' = Existing
  BY <1>3 DEF Consistent, Objects, hosts, Existing
<1>5. \A c \in DOMAIN link' : c \in Concern /\ c[1] \in Existing
  BY <1>1, ConcernKinds DEF Consistent, Owned
<1>6. Consistent'
  BY <1>3, <1>4, <1>5 DEF Consistent, Owned
<1> QED
  BY <1>1, <1>2, <1>3, <1>6

LEMMA ImportsConsistent ==
  ASSUME Consistent, NEW o \in AdcmObject, SetImports(o)
  PROVE  /\ Consistent'
         /\ \A c : c \in DOMAIN link' <=> IF c = <<o, "import">> THEN o \notin imported' ELSE c \in DOMAIN link
<1> DEFINE has == o \notin imported'
<1>0. has \in BOOLEAN
  OBVIOUS
<1>1. link' = IssueRechecked(link, <<o, "import">>, has, Targets("import", o))
  BY DEF SetImports
<1> HIDE DEF has
<1>2. \A c : c \in DOMAIN link' <=> IF c = <<o, "import">> THEN has ELSE c \in DOMAIN link
  BY <1>0, <1>1, DomainOfRechecked
<1>3. /\ o \in Existing \cap Imports /\ imported' \subseteq imported \cup {o}
      /\ UNCHANGED <<clusters, services, hostCluster, hc, empty, unchecked>>
  BY DEF SetImports
<1>4. Objects' /\ Existing' = Existing
  BY <1>3 DEF Consistent, Objects, hosts, Existing
<1>5. \A c \in DOMAIN link' : c \in Concern /\ c[1] \in Existing
  BY <1>2, <1>3, ConcernKinds DEF Consistent, Owned, Issue
<1>6. Consistent'
  BY <1>3, <1>4, <1>5 DEF Consistent, Owned
<1> QED
  BY <1>2, <1>6 DEF has

-----------------------------------------------------------------------------
(* Issues and their causes *)

Cause(k) == ClusterMappingHasIssue(k, ServicesOfCluster(k), HostsOfCluster(k), hc)

ConfigTold ==
  /\ \A o : Has(o, "config") => o \in empty \/ o \in PluginFields
  /\ \A o \in empty \ GroupFields : Has(o, "config")

ImportTold == \A o \in AdcmObject : Has(o, "import") <=> o \in (Existing \cap Imports) \ imported

ServiceTold ==
  /\ \A k : Has(k, "service") => k \in clusters /\ RequiredServicesMissing(k, services)
  /\ \A k \in clusters : RequiredServicesMissing(k, services \cup JobDeletes) => Has(k, "service")

MappingTold ==
  /\ \A k : Has(k, "hostcomponent") => k \in clusters /\ (Cause(k) \/ k \in unchecked)
  /\ \A k \in clusters \ unchecked : Cause(k) => Has(k, "hostcomponent")

RequirementTold == \A s : Has(s, "requirement") => s \in services /\ s \in Unsatisfied(services)

Told == ConfigTold /\ ImportTold /\ ServiceTold /\ MappingTold /\ RequirementTold

(* The mapping of a cluster has the same issue as long as its hosts,       *)
(* services and rows stay.                                                 *)
LEMMA CauseStays ==
  ASSUME NEW k, ServicesOfCluster(k)' = ServicesOfCluster(k), HostsOfCluster(k)' = HostsOfCluster(k),
         RowsOf(hc, k)' = RowsOf(hc, k)
  PROVE  Cause(k)' = Cause(k)
  BY DEF Cause, ClusterMappingHasIssue, RowsOf

(* A step that leaves everything the issues are about alone.               *)
LEMMA ToldStays ==
  ASSUME Told, UNCHANGED <<clusters, services, hostCluster, hc, imported>>,
         empty' \subseteq empty, empty \subseteq empty' \cup PluginFields, unchecked' = unchecked,
         \A c : c[2] \notin {"flag", "lock"} => (c \in DOMAIN link' <=> c \in DOMAIN link)
  PROVE  Told'
<1>1. \A o, kind : kind \notin {"flag", "lock"} => (Has(o, kind)' <=> Has(o, kind))
  BY DEF Has
<1>2. \A k : Cause(k)' = Cause(k)
  BY DEF Cause, ClusterMappingHasIssue, ServicesOfCluster, HostsOfCluster, hosts
<1>3. ConfigTold'
  BY <1>1 DEF Told, ConfigTold
<1>4. ImportTold'
  BY <1>1 DEF Told, ImportTold, Existing, hosts
<1>5. ServiceTold'
  BY <1>1 DEF Told, ServiceTold
<1>6. MappingTold'
  BY <1>1, <1>2 DEF Told, MappingTold
<1>7. RequirementTold'
  BY <1>1 DEF Told, RequirementTold
<1> QED
  BY <1>3, <1>4, <1>5, <1>6, <1>7 DEF Told

LEMMA MappingStepTold ==
  ASSUME Consistent, Told, NEW k \in clusters, NEW m \in Mappings(k),
         MappingChanged(k, (hc \ RowsOf(hc, k)) \cup m)
  PROVE  Told'
<1>1. hc' = (hc \ RowsOf(hc, k)) \cup m /\ unchecked' = unchecked \ {k}
      /\ UNCHANGED <<clusters, services, hostCluster, empty, imported>>
  BY DEF MappingChanged
<1>2. \A c : c \in DOMAIN link' <=> IF c = <<k, "hostcomponent">>
                                   THEN ClusterMappingHasIssue(k, ServicesOfCluster(k), HostsOfCluster(k), hc')
                                   ELSE c \in DOMAIN link
  BY DomainOfUpdated DEF MappingChanged
<1>3. ServicesOfCluster(k)' = ServicesOfCluster(k) /\ HostsOfCluster(k)' = HostsOfCluster(k)
  BY <1>1 DEF ServicesOfCluster, HostsOfCluster, hosts
<1>4. Has(k, "hostcomponent")' <=> Cause(k)'
  BY <1>2, <1>3 DEF Cause, Has
<1>5. \A o, kind : o # k \/ kind # "hostcomponent" => (Has(o, kind)' <=> Has(o, kind))
  BY <1>2 DEF Has
<1>6. ASSUME NEW l \in clusters, l # k PROVE Cause(l)' = Cause(l)
  <2>1. \A n \in m : ComponentCluster(n[2]) = k
    BY DEF Mappings, ComponentsIn, ServicesOfCluster, ServicesIn, ComponentCluster
  <2>2. RowsOf(hc, l)' = RowsOf(hc, l)
    BY <1>1, <1>6, <2>1 DEF RowsOf
  <2>3. ServicesOfCluster(l)' = ServicesOfCluster(l) /\ HostsOfCluster(l)' = HostsOfCluster(l)
    BY <1>1 DEF ServicesOfCluster, HostsOfCluster, hosts
  <2> QED
    BY <2>2, <2>3, CauseStays
<1>7. ConfigTold'
  BY <1>1, <1>5 DEF Told, ConfigTold
<1>8. ImportTold'
  BY <1>1, <1>5 DEF Told, ImportTold, Existing, hosts
<1>9. ServiceTold'
  BY <1>1, <1>5 DEF Told, ServiceTold
<1>10. MappingTold'
  BY <1>1, <1>4, <1>5, <1>6 DEF Told, MappingTold
<1>11. RequirementTold'
  BY <1>1, <1>5 DEF Told, RequirementTold
<1> QED
  BY <1>7, <1>8, <1>9, <1>10, <1>11 DEF Told

LEMMA AddServicesTold ==
  ASSUME Consistent, Told, NEW k \in clusters, NEW S \in SUBSET Service, AddServices(k, S)
  PROVE  Told'
<1> DEFINE E == ServicesOfCluster(k)
           svcs == E \cup S
           new == S \cup ComponentsIn(S)
           has == ClusterMappingHasIssue(k, svcs, HostsOfCluster(k), hc)
<1>0. k \in Cluster /\ k \notin S /\ k \notin Component
  BY TopologyAssumption DEF Consistent, Objects
<1>1. /\ services' = services \cup S /\ empty' = empty \cup (Unset \cap new)
      /\ S \subseteq ServicesIn(k) \ E
      /\ unchecked' = IF <<k, "hostcomponent">> \in DOMAIN link THEN unchecked \cup {k} ELSE unchecked \ {k}
      /\ UNCHANGED <<clusters, hostCluster, hc, imported>>
  BY DEF AddServices
<1>2. S \cap services = {} /\ \A s \in S : clusterOf[s] = k
  BY <1>1 DEF ServicesOfCluster, ServicesIn
<1>3. svcs \ S = E
  BY <1>1
<1>4. PICK X \in SUBSET (Unsatisfied(svcs) \cap E) : link' = AddedConcerns(k, S, svcs, X)
  BY DEF AddServices, Recognised
<1>5. \A c : c \in DOMAIN link' <=> \/ c \in DOMAIN link /\ c \notin ResolvedIssues(k, svcs, E, X)
                                    \/ c \notin DOMAIN link /\ c \in NewServiceIssues(k, S, svcs)
  <2> HIDE DEF E, svcs
  <2> QED
    BY <1>3, <1>4, DomainOfAdded
<1>6. \A o, kind : <<o, kind>> \in NewServiceIssues(k, S, svcs) <=>
        \/ kind = "config" /\ o \in Unset \cap new
        \/ kind = "import" /\ o \in Imports \cap S
        \/ kind = "requirement" /\ o \in S \cap Unsatisfied(svcs)
        \/ kind = "hostcomponent" /\ o = k /\ has
  BY DEF NewServiceIssues, ConfigIssues, ImportIssues
<1>7. \A o, kind : <<o, kind>> \in ResolvedIssues(k, svcs, E, X) <=>
        \/ kind = "requirement" /\ o \in E \ X
        \/ kind = "service" /\ o = k /\ ~RequiredServicesMissing(k, svcs)
  BY DEF ResolvedIssues
<1>8. \A o, kind : Has(o, kind)' <=> \/ Has(o, kind) /\ <<o, kind>> \notin ResolvedIssues(k, svcs, E, X)
                                     \/ <<o, kind>> \in NewServiceIssues(k, S, svcs)
  <2>1. \A o, kind : <<o, kind>> \in NewServiceIssues(k, S, svcs) => <<o, kind>> \notin ResolvedIssues(k, svcs, E, X)
    <3>1. S \cap E = {}
      BY <1>1
    <3> HIDE DEF E, svcs, new, has
    <3> QED
      BY <1>6, <1>7, <3>1
  <2> QED
    BY <1>5, <2>1 DEF Has
<1>9. ServicesOfCluster(k)' = svcs
  BY <1>1, <1>2 DEF ServicesOfCluster, ServicesIn
<1>10. \A l : l # k => ServicesOfCluster(l)' = ServicesOfCluster(l)
  BY <1>1, <1>2 DEF ServicesOfCluster, ServicesIn
<1>11. Cause(k)' = has
  BY <1>1, <1>9 DEF Cause, ClusterMappingHasIssue, HostsOfCluster, hosts
<1>12. ASSUME NEW l, l # k PROVE Cause(l)' = Cause(l)
  <2>1. HostsOfCluster(l)' = HostsOfCluster(l) /\ RowsOf(hc, l)' = RowsOf(hc, l)
    BY <1>1 DEF HostsOfCluster, hosts, RowsOf
  <2>2. ServicesOfCluster(l)' = ServicesOfCluster(l)
    BY <1>10, <1>12
  <2> QED
    BY <2>1, <2>2, CauseStays
<1>13. E \subseteq services /\ \A s \in services : s \in E <=> clusterOf[s] = k
  BY DEF ServicesOfCluster, ServicesIn, Consistent, Objects
<1>14. S \subseteq Service
  OBVIOUS
<1>15. Existing' = Existing \cup new
  BY <1>1 DEF Existing, hosts, ComponentsIn
<1>16. \A s \in S : s \notin Existing
  BY <1>2, ExistingByType DEF Consistent
<1>17. has \in BOOLEAN
  BY DEF ClusterMappingHasIssue
<1>18. \A l : RequiredServicesMissing(l, services') =
                IF l = k THEN RequiredServicesMissing(k, svcs) ELSE RequiredServicesMissing(l, services)
  BY <1>1, <1>2 DEF RequiredServicesMissing, ServicesOfCluster, ServicesIn
<1>19. \A l : RequiredServicesMissing(l, services' \cup JobDeletes) => RequiredServicesMissing(l, services \cup JobDeletes)
  BY <1>1 DEF RequiredServicesMissing
<1>20. RequiredServicesMissing(k, services' \cup JobDeletes) => RequiredServicesMissing(k, svcs)
  BY <1>1 DEF RequiredServicesMissing, ServicesOfCluster
<1>21. \A s \in svcs : s \in Unsatisfied(svcs) => s \in Unsatisfied(services')
  <2>1. \A s, r \in Service : r \in requires[s] => clusterOf[r] = clusterOf[s]
    BY BundleAssumption
  <2>2. \A s \in svcs : s \in Service /\ s \in services' /\ clusterOf[s] = k /\ requires[s] \subseteq Service
    BY <1>1, <1>2, <1>13, BundleAssumption DEF Consistent, Objects
  <2>3. \A r \in services' : clusterOf[r] = k => r \in svcs
    BY <1>1, <1>13
  <2> HIDE DEF svcs
  <2> QED
    BY <2>1, <2>2, <2>3 DEF Unsatisfied
<1>22. \A s \in services \ E : s \in Unsatisfied(services) => s \in Unsatisfied(services')
  <2>1. \A s, r \in Service : r \in requires[s] => clusterOf[r] = clusterOf[s]
    BY BundleAssumption
  <2>2. \A s \in services \ E : s \in Service /\ clusterOf[s] # k /\ requires[s] \subseteq Service
    BY <1>13, BundleAssumption DEF Consistent, Objects
  <2>3. services' = services \cup S /\ \A s \in S : clusterOf[s] = k
    BY <1>1, <1>2
  <2> HIDE DEF E
  <2> QED
    BY <2>1, <2>2, <2>3 DEF Unsatisfied
<1>23. Unsatisfied(svcs) \subseteq svcs
  BY DEF Unsatisfied
<1> HIDE DEF E, svcs, new, has
<1>24. ASSUME NEW o, NEW kind
       PROVE  Has(o, kind)' <=>
                \/ /\ Has(o, kind)
                   /\ ~(kind = "requirement" /\ o \in E \ X)
                   /\ ~(kind = "service" /\ o = k /\ ~RequiredServicesMissing(k, svcs))
                \/ kind = "config" /\ o \in Unset \cap new
                \/ kind = "import" /\ o \in Imports \cap S
                \/ kind = "requirement" /\ o \in S \cap Unsatisfied(svcs)
                \/ kind = "hostcomponent" /\ o = k /\ has
  <2>1. <<o, kind>> \in NewServiceIssues(k, S, svcs) <=>
        \/ kind = "config" /\ o \in Unset \cap new
        \/ kind = "import" /\ o \in Imports \cap S
        \/ kind = "requirement" /\ o \in S \cap Unsatisfied(svcs)
        \/ kind = "hostcomponent" /\ o = k /\ has
    BY <1>6
  <2>2. <<o, kind>> \in ResolvedIssues(k, svcs, E, X) <=>
        \/ kind = "requirement" /\ o \in E \ X
        \/ kind = "service" /\ o = k /\ ~RequiredServicesMissing(k, svcs)
    BY <1>7
  <2>3. Has(o, kind)' <=> \/ Has(o, kind) /\ <<o, kind>> \notin ResolvedIssues(k, svcs, E, X)
                          \/ <<o, kind>> \in NewServiceIssues(k, S, svcs)
    BY <1>8
  <2> QED
    BY <2>1, <2>2, <2>3
<1>25. ConfigTold'
  BY <1>1, <1>24 DEF Told, ConfigTold
<1>26. ImportTold'
  <2> SUFFICES ASSUME NEW o \in AdcmObject PROVE Has(o, "import")' <=> o \in (Existing' \cap Imports) \ imported'
    BY DEF ImportTold
  <2>1. Has(o, "import")' <=> Has(o, "import") \/ o \in Imports \cap S
    BY <1>24
  <2>2. Has(o, "import") <=> o \in (Existing \cap Imports) \ imported
    BY DEF Told, ImportTold
  <2>3. o \in Imports => (o \in Existing' <=> o \in Existing \/ o \in S)
    BY <1>15, BundleAssumption, TopologyAssumption DEF new, ComponentsIn
  <2>4. o \in S => o \notin imported
    BY <1>16 DEF Consistent, Owned
  <2> QED
    BY <1>1, <2>1, <2>2, <2>3, <2>4
<1>27. ServiceTold'
  <2>1. \A l : Has(l, "service")' <=> Has(l, "service") /\ (l = k => RequiredServicesMissing(k, svcs))
    BY <1>24
  <2> QED
    BY <1>1, <1>18, <1>19, <1>20, <2>1 DEF Told, ServiceTold
<1>28. MappingTold'
  <2>1. \A l : Has(l, "hostcomponent")' <=> Has(l, "hostcomponent") \/ (l = k /\ has)
    BY <1>24
  <2>2. Has(k, "hostcomponent") <=> <<k, "hostcomponent">> \in DOMAIN link
    BY DEF Has
  <2>3. \A l : l # k => (l \in unchecked' <=> l \in unchecked)
    BY <1>1
  <2>4. ASSUME NEW l, Has(l, "hostcomponent")' PROVE l \in clusters' /\ (Cause(l)' \/ l \in unchecked')
    <3>1. CASE l = k
      BY <1>1, <1>11, <2>1, <2>2, <2>4, <3>1
    <3>2. CASE l # k
      BY <1>1, <1>12, <2>1, <2>3, <2>4, <3>2 DEF Told, MappingTold
    <3> QED
      BY <3>1, <3>2
  <2>5. ASSUME NEW l \in clusters' \ unchecked', Cause(l)' PROVE Has(l, "hostcomponent")'
    <3>1. CASE l = k
      BY <1>11, <2>1, <2>5, <3>1
    <3>2. CASE l # k
      BY <1>1, <1>12, <2>1, <2>3, <2>5, <3>2 DEF Told, MappingTold
    <3> QED
      BY <3>1, <3>2
  <2> QED
    BY <2>4, <2>5 DEF MappingTold
<1>29. RequirementTold'
  <2> SUFFICES ASSUME NEW s, Has(s, "requirement")' PROVE s \in services' /\ s \in Unsatisfied(services')
    BY DEF RequirementTold
  <2>1. \/ Has(s, "requirement") /\ s \notin E \ X
        \/ s \in S \cap Unsatisfied(svcs)
    BY <1>24
  <2>2. CASE s \in S \cap Unsatisfied(svcs)
    BY <1>1, <1>21, <1>23, <2>2
  <2>3. CASE Has(s, "requirement") /\ s \in X
    BY <1>1, <1>4, <1>13, <1>21, <1>23, <2>3
  <2>4. CASE Has(s, "requirement") /\ s \notin E
    BY <1>1, <1>22, <2>4 DEF Told, RequirementTold
  <2> QED
    BY <2>1, <2>2, <2>3, <2>4
<1> QED
  BY <1>25, <1>26, <1>27, <1>28, <1>29 DEF Told

LEMMA ServiceGoneTold ==
  ASSUME Consistent, Told, NEW s \in services, DeleteService(s) \/ DeleteServiceByTask(s)
  PROVE  Told'
<1> DEFINE k == clusterOf[s]
           gone == {s} \cup ComponentsIn({s})
           has == ClusterMappingHasIssue(k, ServicesOfCluster(k) \ {s}, HostsOfCluster(k), hc')
<1>0. s \in Service /\ k \in clusters /\ k \in Cluster
  BY DEF Consistent, Objects
<1>1. PICK lk : ServiceGone(s, lk, hc')
  BY DEF DeleteService, DeleteServiceByTask, ServiceGone
<1>2. /\ services' = services \ {s} /\ empty' = empty \ gone /\ imported' = imported \ gone
      /\ unchecked' = unchecked \ {k} /\ UNCHANGED <<clusters, hostCluster>>
  BY <1>1 DEF ServiceGone
<1>3. hc' = {n \in hc : serviceOf[n[2]] # s}
  BY DEF DeleteService, DeleteServiceByTask, ServiceGone
<1>4. \A c : c \in DOMAIN link' <=> IF c = <<k, "hostcomponent">> THEN has ELSE c \in DOMAIN link /\ c[1] \notin gone
  BY ServiceGoneConsistent
<1>5. ServicesOfCluster(k)' = ServicesOfCluster(k) \ {s} /\ HostsOfCluster(k)' = HostsOfCluster(k)
  BY <1>2 DEF ServicesOfCluster, HostsOfCluster, hosts
<1>6. Cause(k)' = has
  BY <1>5 DEF Cause
<1>7. ASSUME NEW l, l # k PROVE Cause(l)' = Cause(l)
  <2>1. ServicesOfCluster(l)' = ServicesOfCluster(l) /\ HostsOfCluster(l)' = HostsOfCluster(l)
    BY <1>2, <1>7 DEF ServicesOfCluster, HostsOfCluster, hosts, ServicesIn
  <2>2. RowsOf(hc, l)' = RowsOf(hc, l)
    BY <1>3, <1>7 DEF RowsOf, ComponentCluster
  <2> QED
    BY <2>1, <2>2, CauseStays
<1>8. k \notin gone /\ \A l \in Cluster : l \notin gone
  BY <1>0, TopologyAssumption DEF ComponentsIn
<1>9. ASSUME NEW o, NEW kind
       PROVE  Has(o, kind)' <=> IF o = k /\ kind = "hostcomponent" THEN has ELSE Has(o, kind) /\ o \notin gone
  <2> DEFINE c == <<o, kind>>
  <2>1. c[1] = o /\ (c = <<k, "hostcomponent">> <=> o = k /\ kind = "hostcomponent")
    OBVIOUS
  <2>2. c \in DOMAIN link' <=> IF c = <<k, "hostcomponent">> THEN has ELSE c \in DOMAIN link /\ c[1] \notin gone
    BY <1>4
  <2>3. (Has(o, kind)' <=> c \in DOMAIN link') /\ (Has(o, kind) <=> c \in DOMAIN link)
    BY DEF Has
  <2> HIDE DEF c, gone, has, k
  <2> QED
    BY <2>1, <2>2, <2>3
<1>10. \A o, kind : kind # "hostcomponent" => (Has(o, kind)' <=> Has(o, kind) /\ o \notin gone)
  BY <1>9
<1>11. \A l : Has(l, "hostcomponent")' <=> IF l = k THEN has ELSE Has(l, "hostcomponent") /\ l \notin gone
  BY <1>9
<1>12. \A o \in AdcmObject : o \in Existing' <=> o \in Existing /\ o \notin gone
  <2>1. hosts' = hosts
    BY <1>2 DEF hosts
  <2>2. \A o \in Cluster \cup Host \cup Provider : o \notin gone
    BY <1>0, TopologyAssumption DEF ComponentsIn
  <2>3. \A o \in Service : o \in gone <=> o = s
    BY <1>0, TopologyAssumption DEF ComponentsIn
  <2>4. \A o \in Component : o \in gone <=> serviceOf[o] = s
    BY <1>0, TopologyAssumption DEF ComponentsIn
  <2>5. clusters \subseteq Cluster /\ services \subseteq Service /\ hosts \subseteq Host
    BY DEF Consistent, Objects
  <2>6. /\ Existing = clusters \cup services \cup {c \in Component : serviceOf[c] \in services} \cup hosts \cup Provider
        /\ Existing' = clusters \cup services' \cup {c \in Component : serviceOf[c] \in services'} \cup hosts \cup Provider
    BY <1>2, <2>1 DEF Existing, ComponentsIn
  <2> HIDE DEF gone
  <2> QED
    BY <1>2, <2>1, <2>2, <2>3, <2>4, <2>5, <2>6, TopologyAssumption DEF AdcmObject
<1>13. s \notin Required \/ s \in JobDeletes
  BY DEF DeleteService, DeleteServiceByTask
<1>14. \A l : /\ RequiredServicesMissing(l, services) => RequiredServicesMissing(l, services')
              /\ RequiredServicesMissing(l, services' \cup JobDeletes) => RequiredServicesMissing(l, services \cup JobDeletes)
  BY <1>2, <1>13 DEF RequiredServicesMissing
<1>15. \A r \in services' : r \in Unsatisfied(services) => r \in Unsatisfied(services')
  BY <1>2 DEF Unsatisfied
<1>16. s \in gone /\ has \in BOOLEAN
  BY DEF ClusterMappingHasIssue
<1> HIDE DEF gone, k, has
<1>17. ConfigTold'
  BY <1>2, <1>10 DEF Told, ConfigTold
<1>18. ImportTold'
  BY <1>2, <1>10, <1>12 DEF Told, ImportTold
<1>19. ServiceTold'
  <2>1. clusters' = clusters /\ clusters \subseteq Cluster
    BY <1>2 DEF Consistent, Objects
  <2> QED
    BY <1>8, <1>10, <1>14, <2>1 DEF Told, ServiceTold
<1>20. MappingTold'
  <2>1. clusters' = clusters /\ clusters \subseteq Cluster
    BY <1>2 DEF Consistent, Objects
  <2>2. \A l : l # k => (l \in unchecked' <=> l \in unchecked)
    BY <1>2
  <2>3. ASSUME NEW l, Has(l, "hostcomponent")' PROVE l \in clusters' /\ (Cause(l)' \/ l \in unchecked')
    <3>1. CASE l = k
      BY <1>0, <1>6, <1>11, <2>1, <2>3, <3>1
    <3>2. CASE l # k
      BY <1>7, <1>11, <2>1, <2>2, <2>3, <3>2 DEF Told, MappingTold
    <3> QED
      BY <3>1, <3>2
  <2>4. ASSUME NEW l \in clusters' \ unchecked', Cause(l)' PROVE Has(l, "hostcomponent")'
    <3>1. CASE l = k
      BY <1>6, <1>11, <2>4, <3>1
    <3>2. CASE l # k
      BY <1>7, <1>8, <1>11, <2>1, <2>2, <2>4, <3>2 DEF Told, MappingTold
    <3> QED
      BY <3>1, <3>2
  <2> QED
    BY <2>3, <2>4 DEF MappingTold
<1>21. RequirementTold'
  BY <1>2, <1>10, <1>15, <1>16 DEF Told, RequirementTold
<1> QED
  BY <1>17, <1>18, <1>19, <1>20, <1>21 DEF Told

LEMMA AddClusterTold ==
  ASSUME Consistent, Told, NEW k \in Cluster, AddCluster(k)
  PROVE  Told'
<1>1. /\ k \notin clusters /\ clusters' = clusters \cup {k} /\ empty' = empty \cup (Unset \cap {k})
      /\ UNCHANGED <<services, hostCluster, hc, imported, unchecked>>
  BY DEF AddCluster
<1>2. ServicesOfCluster(k) = {} /\ HostsOfCluster(k) = {}
  <2>1. k # None
    BY BundleAssumption DEF AdcmObject
  <2> QED
    BY <1>1, <2>1 DEF Consistent, Objects, ServicesOfCluster, ServicesIn, HostsOfCluster
<1>3. \A l : Cause(l)' = Cause(l)
  BY <1>1 DEF Cause, ClusterMappingHasIssue, ServicesOfCluster, HostsOfCluster, hosts
<1>4. ASSUME NEW o, NEW kind
      PROVE  Has(o, kind)' <=>
               \/ Has(o, kind)
               \/ kind = "config" /\ o = k /\ o \in Unset
               \/ kind = "import" /\ o = k /\ o \in Imports
               \/ kind = "service" /\ o = k /\ RequiredServicesMissing(k, {})
               \/ kind = "hostcomponent" /\ o = k /\ Cause(k)
  <2> DEFINE c == <<o, kind>>
  <2>1. c \in NewClusterIssues(k) <=>
          \/ kind = "config" /\ o = k /\ o \in Unset
          \/ kind = "import" /\ o = k /\ o \in Imports
          \/ kind = "service" /\ o = k /\ RequiredServicesMissing(k, {})
          \/ kind = "hostcomponent" /\ o = k /\ Cause(k)
    BY <1>2 DEF NewClusterIssues, ConfigIssues, ImportIssues, Cause
  <2>2. c \in DOMAIN link' <=> c \in NewClusterIssues(k) \/ c \in DOMAIN link
    BY AddClusterConsistent
  <2>3. (Has(o, kind)' <=> c \in DOMAIN link') /\ (Has(o, kind) <=> c \in DOMAIN link)
    BY DEF Has
  <2> HIDE DEF c
  <2> QED
    BY <2>1, <2>2, <2>3
<1>5. Existing' = Existing \cup {k}
  BY <1>1 DEF Existing, hosts
<1>6. k \notin Existing
  BY <1>1, ExistingByType DEF Consistent
<1>7. ConfigTold'
  BY <1>1, <1>4 DEF Told, ConfigTold
<1>8. ImportTold'
  BY <1>1, <1>4, <1>5, <1>6 DEF Told, ImportTold, Consistent, Owned
<1>9. ServiceTold'
  <2>1. RequiredServicesMissing(k, services \cup JobDeletes) => RequiredServicesMissing(k, {})
    BY DEF RequiredServicesMissing
  <2>2. RequiredServicesMissing(k, {}) => RequiredServicesMissing(k, services)
    BY <1>2 DEF RequiredServicesMissing, ServicesOfCluster
  <2> QED
    BY <1>1, <1>4, <2>1, <2>2 DEF Told, ServiceTold
<1>10. MappingTold'
  BY <1>1, <1>3, <1>4 DEF Told, MappingTold
<1>11. RequirementTold'
  BY <1>1, <1>4 DEF Told, RequirementTold
<1> QED
  BY <1>7, <1>8, <1>9, <1>10, <1>11 DEF Told

LEMMA DeleteClusterTold ==
  ASSUME Consistent, Told, NEW k \in Cluster, DeleteCluster(k)
  PROVE  Told'
<1> DEFINE svcs == ServicesOfCluster(k)
           gone == {k} \cup svcs \cup ComponentsIn(svcs)
<1>1. /\ clusters' = clusters \ {k} /\ services' = services \ svcs
      /\ hostCluster' = [h \in hosts |-> IF hostCluster[h] = k THEN None ELSE hostCluster[h]]
      /\ hc' = hc \ RowsOf(hc, k)
      /\ empty' = empty \ gone /\ imported' = imported \ gone /\ unchecked' = unchecked \ {k}
  BY DEF DeleteCluster
<1>2. hosts' = hosts /\ \A h \in hosts : hostCluster'[h] = IF hostCluster[h] = k THEN None ELSE hostCluster[h]
  BY <1>1 DEF hosts
<1>3. svcs \subseteq services /\ \A s \in services : s \in svcs <=> clusterOf[s] = k
  BY DEF Consistent, Objects, ServicesOfCluster, ServicesIn
<1>4. ASSUME NEW l \in Cluster, l # k PROVE Cause(l)' = Cause(l)
  <2>1. ServicesOfCluster(l)' = ServicesOfCluster(l)
    BY <1>1, <1>4 DEF ServicesOfCluster, ServicesIn
  <2>2. l # None
    BY BundleAssumption DEF AdcmObject
  <2>3. HostsOfCluster(l)' = HostsOfCluster(l)
    BY <1>2, <1>4, <2>2 DEF HostsOfCluster
  <2>4. RowsOf(hc, l)' = RowsOf(hc, l)
    BY <1>1, <1>4 DEF RowsOf
  <2> QED
    BY <2>1, <2>3, <2>4, CauseStays
<1>5. ASSUME NEW o, NEW kind PROVE Has(o, kind)' <=> Has(o, kind) /\ o \notin gone
  <2> DEFINE c == <<o, kind>>
  <2>1. c[1] = o
    OBVIOUS
  <2>2. c \in DOMAIN link' <=> c \in DOMAIN link /\ c[1] \notin gone
    BY DeleteClusterConsistent
  <2>3. (Has(o, kind)' <=> c \in DOMAIN link') /\ (Has(o, kind) <=> c \in DOMAIN link)
    BY DEF Has
  <2> HIDE DEF c, gone
  <2> QED
    BY <2>1, <2>2, <2>3
<1>6. \A l \in Cluster : l \in gone <=> l = k
  BY TopologyAssumption DEF ComponentsIn, ServicesOfCluster, ServicesIn
<1>7. \A s \in services : s \in gone <=> clusterOf[s] = k
  BY <1>3, TopologyAssumption DEF ComponentsIn, Consistent, Objects
<1>8. \A o \in Imports : o \in Existing' <=> o \in Existing /\ o \notin gone
  <2>1. clusters \subseteq Cluster /\ services \subseteq Service /\ hosts \subseteq Host
    BY DEF Consistent, Objects
  <2>2. Imports \subseteq Cluster \cup Service
    BY BundleAssumption
  <2>3. \A o \in Cluster \cup Service : o \notin Component /\ o \notin Host /\ o \notin Provider
    BY TopologyAssumption
  <2>4. \A o \in Cluster \cup Service : /\ o \in Existing <=> o \in clusters \cup services
                                        /\ o \in Existing' <=> o \in clusters' \cup services'
    BY <1>2, <2>1, <2>3 DEF Existing, ComponentsIn
  <2>5. \A o \in Cluster : o \notin services
    BY <2>1, TopologyAssumption
  <2>6. \A o \in Service : o \notin clusters
    BY <2>1, TopologyAssumption
  <2> HIDE DEF gone
  <2>7. ASSUME NEW o \in Cluster PROVE o \in Existing' <=> o \in Existing /\ o \notin gone
    BY <1>1, <1>6, <2>4, <2>5
  <2>8. ASSUME NEW o \in Service PROVE o \in Existing' <=> o \in Existing /\ o \notin gone
    BY <1>1, <1>3, <1>7, <2>4, <2>6
  <2> QED
    BY <2>2, <2>7, <2>8
<1>9. \A l \in Cluster : \A t : l # k => (RequiredServicesMissing(l, services \cup t) <=> RequiredServicesMissing(l, services' \cup t))
  BY <1>1, <1>3 DEF RequiredServicesMissing, ServicesIn
<1>10. \A s \in services' : s \in Unsatisfied(services) => s \in Unsatisfied(services')
  BY <1>1 DEF Unsatisfied
<1>11. svcs \subseteq gone
  OBVIOUS
<1> HIDE DEF gone, svcs
<1>12. ConfigTold'
  BY <1>1, <1>5 DEF Told, ConfigTold
<1>13. ImportTold'
  BY <1>1, <1>5, <1>8 DEF Told, ImportTold
<1>14. clusters \subseteq Cluster
  BY DEF Consistent, Objects
<1>15. ServiceTold'
  <2>1. \A l \in clusters' : RequiredServicesMissing(l, services) <=> RequiredServicesMissing(l, services')
    <3>1. services \cup {} = services /\ services' \cup {} = services'
      OBVIOUS
    <3> QED
      BY <1>1, <1>9, <1>14, <3>1
  <2>2. \A l \in clusters' : RequiredServicesMissing(l, services \cup JobDeletes) <=> RequiredServicesMissing(l, services' \cup JobDeletes)
    BY <1>1, <1>9, <1>14
  <2> QED
    BY <1>1, <1>5, <1>6, <1>14, <2>1, <2>2 DEF Told, ServiceTold
<1>16. MappingTold'
  BY <1>1, <1>4, <1>5, <1>6, <1>14 DEF Told, MappingTold
<1>17. RequirementTold'
  BY <1>1, <1>5, <1>10, <1>11 DEF Told, RequirementTold
<1> QED
  BY <1>12, <1>13, <1>15, <1>16, <1>17 DEF Told

LEMMA HostCreatedTold ==
  ASSUME Consistent, Told, NEW h \in Host, NEW k \in clusters \cup {None}, HostCreated(h, k),
         unchecked' = unchecked \cup (clusters \cap {k})
  PROVE  Told'
<1>1. /\ h \notin hosts /\ hostCluster' = [n \in hosts \cup {h} |-> IF n = h THEN k ELSE hostCluster[n]]
      /\ empty' = empty \cup (Unset \cap {h})
      /\ UNCHANGED <<clusters, services, hc, imported>>
  BY DEF HostCreated
<1>2. hosts' = hosts \cup {h} /\ hostCluster'[h] = k /\ \A n \in hosts : hostCluster'[n] = hostCluster[n]
  BY <1>1 DEF hosts
<1>3. ASSUME NEW l, l # k PROVE Cause(l)' = Cause(l)
  <2>1. ServicesOfCluster(l)' = ServicesOfCluster(l) /\ RowsOf(hc, l)' = RowsOf(hc, l)
    BY <1>1 DEF ServicesOfCluster, RowsOf
  <2>2. HostsOfCluster(l)' = HostsOfCluster(l)
    BY <1>1, <1>2, <1>3 DEF HostsOfCluster
  <2> QED
    BY <2>1, <2>2, CauseStays
<1>4. ASSUME NEW o, NEW kind PROVE Has(o, kind)' <=> Has(o, kind) \/ (kind = "config" /\ o = h /\ h \in Unset)
  <2> DEFINE c == <<o, kind>>
  <2>1. c \in ConfigIssues({h}) <=> kind = "config" /\ o = h /\ h \in Unset
    BY DEF ConfigIssues
  <2>2. c \in DOMAIN link' <=> c \in ConfigIssues({h}) \/ c \in DOMAIN link
    BY HostCreatedConsistent
  <2>3. (Has(o, kind)' <=> c \in DOMAIN link') /\ (Has(o, kind) <=> c \in DOMAIN link)
    BY DEF Has
  <2> HIDE DEF c
  <2> QED
    BY <2>1, <2>2, <2>3
<1>5. \A o \in Imports : o \in Existing' <=> o \in Existing
  <2>1. h \notin Imports
    BY TopologyAssumption, BundleAssumption
  <2> QED
    BY <1>1, <1>2, <2>1 DEF Existing
<1>6. ConfigTold'
  BY <1>1, <1>4 DEF Told, ConfigTold
<1>7. ImportTold'
  BY <1>1, <1>4, <1>5 DEF Told, ImportTold
<1>8. ServiceTold'
  BY <1>1, <1>4 DEF Told, ServiceTold
<1>9. MappingTold'
  <2>1. \A l \in clusters : l = k => l \in unchecked'
    OBVIOUS
  <2> QED
    BY <1>1, <1>3, <1>4, <2>1 DEF Told, MappingTold
<1>10. RequirementTold'
  BY <1>1, <1>4 DEF Told, RequirementTold
<1> QED
  BY <1>6, <1>7, <1>8, <1>9, <1>10 DEF Told

(* A host that is mapped nowhere only breaks constraints to be on all of   *)
(* them.                                                                   *)
LEMMA FewerHosts ==
  ASSUME Consistent, NEW k \in clusters, NEW h \in HostsOfCluster(k), h \notin MappedHosts(hc, k), NEW svcs,
         ClusterMappingHasIssue(k, svcs, HostsOfCluster(k) \ {h}, hc)
  PROVE  ClusterMappingHasIssue(k, svcs, HostsOfCluster(k), hc)
<1> DEFINE rows == {n \in hc : ComponentCluster(n[2]) = k}
           bound == HostsOfCluster(k)
           total == Cardinality(bound)
           less == Cardinality(bound \ {h})
<1>1. IsFiniteSet(bound)
  <2>1. bound \subseteq hosts /\ IsFiniteSet(hosts)
    BY DEF HostsOfCluster, Consistent, Objects
  <2> QED
    BY <2>1, FS_Subset
<1>2. total \in Nat /\ less = total - 1 /\ IsFiniteSet(bound \ {h})
  BY <1>1, FS_CardinalityType, FS_RemoveElement
<1>3. \A c : HostsWith(rows, {c}) \subseteq bound \ {h}
  <2> SUFFICES ASSUME NEW c, NEW g \in HostsWith(rows, {c}) PROVE g \in bound \ {h}
    OBVIOUS
  <2>1. <<g, c>> \in hc /\ ComponentCluster(c) = k
    BY DEF HostsWith
  <2>2. g \in MappedHosts(hc, k)
    <3>1. <<g, c>> \in RowsOf(hc, k)
      BY <2>1 DEF RowsOf
    <3> QED
      BY <3>1 DEF MappedHosts
  <2>3. RowInCluster(<<g, c>>, hostCluster)
    BY <2>1 DEF Consistent, Objects
  <2>4. g \in hosts /\ hostCluster[g] = k
    BY <2>1, <2>3 DEF RowInCluster, hosts
  <2> QED
    BY <2>2, <2>4 DEF HostsOfCluster
<1>4. \A c : Cardinality(HostsWith(rows, {c})) \in Nat /\ Cardinality(HostsWith(rows, {c})) <= less
  BY <1>2, <1>3, FS_Subset, FS_CardinalityType
<1>5. ASSUME NEW check \in Check, NEW n \in Nat, n <= less, ~ConstraintHolds(check, n, less)
      PROVE  ~ConstraintHolds(check, n, total)
  <2>1. CASE check = "all"
    <3>1. ConstraintHolds(check, n, total) <=> n > 0 /\ n = total
      BY <2>1 DEF ConstraintHolds
    <3> QED
      BY <1>2, <1>5, <3>1
  <2>2. CASE check # "all"
    <3> HIDE DEF total, less
    <3>1. CASE check = "odd"
      BY <1>5, <3>1 DEF ConstraintHolds
    <3>2. CASE check = "zeroOrOdd"
      BY <1>5, <3>2 DEF ConstraintHolds
    <3>3. CASE check = "one"
      BY <1>5, <3>3 DEF ConstraintHolds
    <3>4. CASE check = "oneOrMore"
      BY <1>5, <3>4 DEF ConstraintHolds
    <3> QED
      BY <2>2, <3>1, <3>2, <3>3, <3>4 DEF Check
  <2> QED
    BY <2>1, <2>2
<1>6. Restricted(k) /\ MappingHasIssue(svcs, less, rows)
  BY DEF ClusterMappingHasIssue
<1>7. ASSUME NEW c \in Component, NEW check \in constraint[c],
             ~ConstraintHolds(check, Cardinality(HostsWith(rows, {c})), less)
      PROVE  ~ConstraintHolds(check, Cardinality(HostsWith(rows, {c})), total)
  <2>1. check \in Check
    BY BundleAssumption
  <2> HIDE DEF total, less, rows
  <2> QED
    BY <1>4, <1>5, <1>7, <2>1
<1>8. ComponentsIn(svcs) \subseteq Component
  BY DEF ComponentsIn
<1> HIDE DEF total, less, rows
<1>9. MappingHasIssue(svcs, total, rows)
  BY <1>6, <1>7, <1>8 DEF MappingHasIssue
<1> QED
  BY <1>6, <1>9 DEF ClusterMappingHasIssue, total, rows

LEMMA AddHostToClusterTold ==
  ASSUME Consistent, Told, NEW h \in Host, NEW k \in Cluster, AddHostToCluster(h, k)
  PROVE  Told'
<1> DEFINE has == ClusterMappingHasIssue(k, ServicesOfCluster(k), HostsOfCluster(k) \cup {h}, hc)
<1>1. /\ k \in clusters /\ h \in hosts /\ hostCluster[h] = None /\ k # None
      /\ hostCluster' = [hostCluster EXCEPT ![h] = k] /\ unchecked' = unchecked \ {k}
      /\ UNCHANGED <<clusters, services, hc, empty, imported>>
  BY BundleAssumption DEF AddHostToCluster, AdcmObject
<1>2. hosts' = hosts /\ hostCluster'[h] = k /\ \A n \in hosts \ {h} : hostCluster'[n] = hostCluster[n]
  BY <1>1 DEF hosts
<1>3. HostsOfCluster(k)' = HostsOfCluster(k) \cup {h}
  BY <1>1, <1>2 DEF HostsOfCluster
<1>4. Cause(k)' = has
  BY <1>1, <1>3 DEF Cause, ClusterMappingHasIssue, ServicesOfCluster
<1>5. ASSUME NEW l \in Cluster, l # k PROVE Cause(l)' = Cause(l)
  <2>1. l # None
    BY BundleAssumption DEF AdcmObject
  <2>2. HostsOfCluster(l)' = HostsOfCluster(l)
    BY <1>1, <1>2, <1>5, <2>1 DEF HostsOfCluster
  <2>3. ServicesOfCluster(l)' = ServicesOfCluster(l) /\ RowsOf(hc, l)' = RowsOf(hc, l)
    BY <1>1 DEF ServicesOfCluster, RowsOf
  <2> QED
    BY <2>2, <2>3, CauseStays
<1>6. ASSUME NEW o, NEW kind
      PROVE  Has(o, kind)' <=> IF o = k /\ kind = "hostcomponent" THEN has ELSE Has(o, kind)
  <2> DEFINE c == <<o, kind>>
  <2>1. c = <<k, "hostcomponent">> <=> o = k /\ kind = "hostcomponent"
    OBVIOUS
  <2>2. c \in DOMAIN link' <=> IF c = <<k, "hostcomponent">> THEN has ELSE c \in DOMAIN link
    BY AddHostToClusterConsistent
  <2>3. (Has(o, kind)' <=> c \in DOMAIN link') /\ (Has(o, kind) <=> c \in DOMAIN link)
    BY DEF Has
  <2> HIDE DEF c, has
  <2> QED
    BY <2>1, <2>2, <2>3
<1>7. clusters \subseteq Cluster
  BY DEF Consistent, Objects
<1>8. has \in BOOLEAN
  BY DEF ClusterMappingHasIssue
<1> HIDE DEF has
<1>9. ConfigTold'
  BY <1>1, <1>6 DEF Told, ConfigTold
<1>10. ImportTold'
  BY <1>1, <1>2, <1>6 DEF Told, ImportTold, Existing
<1>11. ServiceTold'
  BY <1>1, <1>6 DEF Told, ServiceTold
<1>12. MappingTold'
  BY <1>1, <1>4, <1>5, <1>6, <1>7, <1>8 DEF Told, MappingTold
<1>13. RequirementTold'
  BY <1>1, <1>6 DEF Told, RequirementTold
<1> QED
  BY <1>9, <1>10, <1>11, <1>12, <1>13 DEF Told

(* The issue of the mapping stays or goes: where it is to be created, it   *)
(* was there before.                                                       *)
LEMMA RemoveHostTold ==
  ASSUME Consistent, Told, NEW h \in Host, RemoveHostFromCluster(h)
  PROVE  Told'
<1> PICK k : k = hostCluster[h]
  OBVIOUS
<1> DEFINE has == ClusterMappingHasIssue(k, ServicesOfCluster(k), HostsOfCluster(k) \ {h}, hc)
<1>1. /\ h \in hosts /\ k # None /\ h \notin MappedHosts(hc, k)
      /\ hostCluster' = [hostCluster EXCEPT ![h] = None]
      /\ unchecked' = IF has THEN unchecked ELSE unchecked \ {k}
      /\ UNCHANGED <<clusters, services, hc, empty, imported>>
  BY DEF RemoveHostFromCluster
<1>2. hosts' = hosts /\ hostCluster'[h] = None /\ \A n \in hosts \ {h} : hostCluster'[n] = hostCluster[n]
  BY <1>1 DEF hosts
<1>3. k \in clusters /\ h \in HostsOfCluster(k)
  BY <1>1 DEF Consistent, Objects, HostsOfCluster
<1>4. HostsOfCluster(k)' = HostsOfCluster(k) \ {h}
  <2>1. \A n \in hosts : n \in HostsOfCluster(k)' <=> n \in HostsOfCluster(k) \ {h}
    BY <1>1, <1>2 DEF HostsOfCluster
  <2> QED
    BY <1>2, <2>1 DEF HostsOfCluster
<1>5. Cause(k)' = has
  <2>1. ServicesOfCluster(k)' = ServicesOfCluster(k) /\ hc' = hc
    BY <1>1 DEF ServicesOfCluster
  <2> QED
    BY <1>4, <2>1 DEF Cause, ClusterMappingHasIssue
<1>6. ASSUME NEW l \in Cluster, l # k PROVE Cause(l)' = Cause(l)
  <2>1. l # None
    BY BundleAssumption DEF AdcmObject
  <2>2. HostsOfCluster(l)' = HostsOfCluster(l)
    BY <1>1, <1>2, <1>6, <2>1 DEF HostsOfCluster
  <2>3. ServicesOfCluster(l)' = ServicesOfCluster(l) /\ RowsOf(hc, l)' = RowsOf(hc, l)
    BY <1>1 DEF ServicesOfCluster, RowsOf
  <2> QED
    BY <2>2, <2>3, CauseStays
<1>7. ASSUME NEW o, NEW kind
      PROVE  Has(o, kind)' <=> Has(o, kind) /\ (o = k /\ kind = "hostcomponent" => has)
  <2> DEFINE c == <<o, kind>>
  <2>1. c = <<k, "hostcomponent">> <=> o = k /\ kind = "hostcomponent"
    OBVIOUS
  <2>2. c \in DOMAIN link' <=> c \in DOMAIN link /\ (c = <<k, "hostcomponent">> => has)
    BY RemoveHostConsistent
  <2>3. (Has(o, kind)' <=> c \in DOMAIN link') /\ (Has(o, kind) <=> c \in DOMAIN link)
    BY DEF Has
  <2> HIDE DEF c, has
  <2> QED
    BY <2>1, <2>2, <2>3
<1>8. has => Cause(k)
  BY <1>1, <1>3, FewerHosts DEF Cause
<1>9. clusters \subseteq Cluster
  BY DEF Consistent, Objects
<1>10. has \in BOOLEAN
  BY DEF ClusterMappingHasIssue
<1> HIDE DEF has
<1>11. ConfigTold'
  BY <1>1, <1>7 DEF Told, ConfigTold
<1>12. ImportTold'
  BY <1>1, <1>2, <1>7 DEF Told, ImportTold, Existing
<1>13. ServiceTold'
  BY <1>1, <1>7 DEF Told, ServiceTold
<1>14. MappingTold'
  <2>1. \A l : Has(l, "hostcomponent")' <=> Has(l, "hostcomponent") /\ (l = k => has)
    BY <1>7
  <2>2. \A l : l # k => (l \in unchecked' <=> l \in unchecked)
    BY <1>1
  <2>3. ASSUME NEW l, Has(l, "hostcomponent")' PROVE l \in clusters' /\ (Cause(l)' \/ l \in unchecked')
    <3>1. CASE l = k
      BY <1>1, <1>3, <1>5, <2>1, <2>3, <3>1
    <3>2. CASE l # k
      BY <1>1, <1>6, <1>9, <2>1, <2>2, <2>3, <3>2 DEF Told, MappingTold
    <3> QED
      BY <3>1, <3>2
  <2>4. ASSUME NEW l \in clusters' \ unchecked', Cause(l)' PROVE Has(l, "hostcomponent")'
    <3>1. CASE l = k
      BY <1>1, <1>3, <1>5, <1>8, <2>1, <2>4, <3>1 DEF Told, MappingTold
    <3>2. CASE l # k
      BY <1>1, <1>6, <1>9, <2>1, <2>2, <2>4, <3>2 DEF Told, MappingTold
    <3> QED
      BY <3>1, <3>2
  <2> QED
    BY <2>3, <2>4 DEF MappingTold
<1>15. RequirementTold'
  BY <1>1, <1>7 DEF Told, RequirementTold
<1> QED
  BY <1>11, <1>12, <1>13, <1>14, <1>15 DEF Told

LEMMA DeleteHostTold ==
  ASSUME Consistent, Told, NEW h \in Host, DeleteHost(h)
  PROVE  Told'
<1>1. /\ h \in hosts /\ hostCluster[h] = None
      /\ hostCluster' = [n \in hosts \ {h} |-> hostCluster[n]] /\ empty' = empty \ {h}
      /\ UNCHANGED <<clusters, services, hc, imported, unchecked>>
  BY DEF DeleteHost
<1>2. hosts' = hosts \ {h} /\ \A n \in hosts' : hostCluster'[n] = hostCluster[n]
  BY <1>1 DEF hosts
<1>3. ASSUME NEW l \in Cluster PROVE Cause(l)' = Cause(l)
  <2>1. l # None
    BY BundleAssumption DEF AdcmObject
  <2>2. HostsOfCluster(l)' = HostsOfCluster(l)
    BY <1>1, <1>2, <2>1 DEF HostsOfCluster
  <2>3. ServicesOfCluster(l)' = ServicesOfCluster(l) /\ RowsOf(hc, l)' = RowsOf(hc, l)
    BY <1>1 DEF ServicesOfCluster, RowsOf
  <2> QED
    BY <2>2, <2>3, CauseStays
<1>4. ASSUME NEW o, NEW kind PROVE Has(o, kind)' <=> Has(o, kind) /\ o # h
  <2> DEFINE c == <<o, kind>>
  <2>1. c[1] = o
    OBVIOUS
  <2>2. c \in DOMAIN link' <=> c \in DOMAIN link /\ c[1] # h
    BY DeleteHostConsistent
  <2>3. (Has(o, kind)' <=> c \in DOMAIN link') /\ (Has(o, kind) <=> c \in DOMAIN link)
    BY DEF Has
  <2> HIDE DEF c
  <2> QED
    BY <2>1, <2>2, <2>3
<1>5. h \notin Imports /\ h \notin clusters /\ h \notin services /\ clusters \subseteq Cluster
  BY TopologyAssumption, BundleAssumption DEF Consistent, Objects
<1>6. \A o \in Imports : o \in Existing' <=> o \in Existing
  BY <1>1, <1>2, <1>5 DEF Existing
<1>7. ConfigTold'
  BY <1>1, <1>4 DEF Told, ConfigTold
<1>8. ImportTold'
  BY <1>1, <1>4, <1>5, <1>6 DEF Told, ImportTold
<1>9. ServiceTold'
  BY <1>1, <1>4, <1>5 DEF Told, ServiceTold
<1>10. MappingTold'
  BY <1>1, <1>3, <1>4, <1>5 DEF Told, MappingTold
<1>11. RequirementTold'
  BY <1>1, <1>4 DEF Told, RequirementTold
<1> QED
  BY <1>7, <1>8, <1>9, <1>10, <1>11 DEF Told

LEMMA ConfigStepTold ==
  ASSUME Consistent, Told, NEW o \in AdcmObject, SaveConfig(o) \/ SaveGroupConfig(o)
  PROVE  Told'
<1>1. \/ empty' = empty \ {o}
      \/ empty' = empty /\ o \in GroupFields
  BY DEF SaveConfig, SaveGroupConfig
<1>2. UNCHANGED <<clusters, services, hostCluster, hc, imported, unchecked>>
  BY DEF SaveConfig, SaveGroupConfig
<1>3. ASSUME NEW q, NEW kind, kind # "flag"
      PROVE  Has(q, kind)' <=> Has(q, kind) /\ ~(q = o /\ kind = "config")
  <2> DEFINE c == <<q, kind>>
  <2>1. c[2] # "flag" /\ (c = <<o, "config">> <=> q = o /\ kind = "config")
    BY <1>3
  <2>2. c \in DOMAIN link' <=> c \in DOMAIN link /\ c # <<o, "config">>
    BY <2>1, ConfigConsistent
  <2>3. (Has(q, kind)' <=> c \in DOMAIN link') /\ (Has(q, kind) <=> c \in DOMAIN link)
    BY DEF Has
  <2> HIDE DEF c
  <2> QED
    BY <2>1, <2>2, <2>3
<1>4. \A k : Cause(k)' = Cause(k)
  BY <1>2 DEF Cause, ClusterMappingHasIssue, ServicesOfCluster, HostsOfCluster, hosts
<1>5. ConfigTold'
  BY <1>1, <1>3 DEF Told, ConfigTold
<1>6. ImportTold'
  BY <1>2, <1>3 DEF Told, ImportTold, Existing, hosts
<1>7. ServiceTold'
  BY <1>2, <1>3 DEF Told, ServiceTold
<1>8. MappingTold'
  BY <1>2, <1>3, <1>4 DEF Told, MappingTold
<1>9. RequirementTold'
  BY <1>2, <1>3 DEF Told, RequirementTold
<1> QED
  BY <1>5, <1>6, <1>7, <1>8, <1>9 DEF Told

LEMMA ImportsStepTold ==
  ASSUME Consistent, Told, NEW o \in AdcmObject, SetImports(o)
  PROVE  Told'
<1>1. /\ o \in Existing \cap Imports /\ imported' \in {imported \cup {o}, imported \ {o}}
      /\ UNCHANGED <<clusters, services, hostCluster, hc, empty, unchecked>>
  BY DEF SetImports
<1>2. ASSUME NEW q, NEW kind
      PROVE  Has(q, kind)' <=> IF q = o /\ kind = "import" THEN o \notin imported' ELSE Has(q, kind)
  <2> DEFINE c == <<q, kind>>
  <2>1. c = <<o, "import">> <=> q = o /\ kind = "import"
    OBVIOUS
  <2>2. c \in DOMAIN link' <=> IF c = <<o, "import">> THEN o \notin imported' ELSE c \in DOMAIN link
    BY ImportsConsistent
  <2>3. (Has(q, kind)' <=> c \in DOMAIN link') /\ (Has(q, kind) <=> c \in DOMAIN link)
    BY DEF Has
  <2> HIDE DEF c
  <2> QED
    BY <2>1, <2>2, <2>3
<1>3. \A k : Cause(k)' = Cause(k)
  BY <1>1 DEF Cause, ClusterMappingHasIssue, ServicesOfCluster, HostsOfCluster, hosts
<1>4. Existing' = Existing
  BY <1>1 DEF Existing, hosts
<1>5. ConfigTold'
  BY <1>1, <1>2 DEF Told, ConfigTold
<1>6. ImportTold'
  BY <1>1, <1>2, <1>4 DEF Told, ImportTold
<1>7. ServiceTold'
  BY <1>1, <1>2 DEF Told, ServiceTold
<1>8. MappingTold'
  BY <1>1, <1>2, <1>3 DEF Told, MappingTold
<1>9. RequirementTold'
  BY <1>1, <1>2 DEF Told, RequirementTold
<1> QED
  BY <1>5, <1>6, <1>7, <1>8, <1>9 DEF Told

LEMMA NoIssueTold ==
  ASSUME Consistent, Told, NEW o \in AdcmObject,
         SaveConfigByPlugin(o) \/ RaiseFlag(o) \/ LowerFlag(o) \/ TakeLock(o) \/ ReleaseLock(o)
  PROVE  Told'
<1>1. empty' \subseteq empty /\ empty \subseteq empty' \cup PluginFields
  BY DEF SaveConfigByPlugin, RaiseFlag, LowerFlag, TakeLock, ReleaseLock
<1> QED
  BY <1>1, NoIssueConsistent, ToldStays

LEMMA ToldInit == Init => Told
<1> SUFFICES ASSUME Init PROVE Told
  OBVIOUS
<1>1. clusters = {} /\ services = {} /\ hosts = {} /\ empty = Unset \cap Provider
  BY DEF Init, hosts
<1>2. ASSUME NEW o, NEW kind PROVE Has(o, kind) <=> kind = "config" /\ o \in empty
  <2>1. DOMAIN link = {<<q, "config">> : q \in Provider \cap Unset}
    BY DEF Init, ConfigIssues
  <2> QED
    BY <1>1, <2>1 DEF Has
<1>3. Existing \cap Imports = {}
  BY <1>1, TopologyAssumption, BundleAssumption DEF Existing, ComponentsIn
<1>4. ConfigTold
  BY <1>2 DEF ConfigTold
<1>5. ImportTold
  BY <1>2, <1>3 DEF ImportTold
<1>6. ServiceTold
  BY <1>1, <1>2 DEF ServiceTold
<1>7. MappingTold
  BY <1>1, <1>2 DEF MappingTold
<1>8. RequirementTold
  BY <1>2 DEF RequirementTold
<1> QED
  BY <1>4, <1>5, <1>6, <1>7, <1>8 DEF Told

(* Only the mapping of a cluster that is there can change.                 *)
LEMMA MappedClustersExist ==
  ASSUME Consistent, NEW k \in Cluster, NEW m \in Mappings(k)
  PROVE  k \in clusters
<1> SUFFICES ASSUME k \notin clusters PROVE FALSE
  OBVIOUS
<1>1. k # None
  BY BundleAssumption DEF AdcmObject
<1>2. HostsOfCluster(k) = {}
  BY <1>1 DEF HostsOfCluster, Consistent, Objects
<1>3. RowsOf(hc, k) = {}
  <2> SUFFICES ASSUME NEW n \in hc, ComponentCluster(n[2]) = k PROVE FALSE
    BY DEF RowsOf
  <2>1. RowInCluster(n, hostCluster)
    BY DEF Consistent, Objects
  <2> QED
    BY <1>2, <2>1 DEF RowInCluster, HostsOfCluster, hosts
<1> QED
  BY <1>2, <1>3 DEF Mappings

LEMMA ToldStep == Consistent /\ Told /\ [Next]_vars => Consistent' /\ Told'
<1> SUFFICES ASSUME Consistent, Told, [Next]_vars PROVE Consistent' /\ Told'
  OBVIOUS
<1>1. CASE \E k \in Cluster : AddCluster(k) \/ DeleteCluster(k) \/ SetMapping(k) \/ ChangeMappingByTask(k)
  <2> PICK k \in Cluster : AddCluster(k) \/ DeleteCluster(k) \/ SetMapping(k) \/ ChangeMappingByTask(k)
    BY <1>1
  <2>1. CASE AddCluster(k)
    BY <2>1, AddClusterConsistent, AddClusterTold
  <2>2. CASE DeleteCluster(k)
    BY <2>2, DeleteClusterConsistent, DeleteClusterTold
  <2>3. CASE SetMapping(k) \/ ChangeMappingByTask(k)
    <3>1. PICK m \in Mappings(k) : MappingChanged(k, (hc \ RowsOf(hc, k)) \cup m)
      BY <2>3 DEF SetMapping, ChangeMappingByTask
    <3>2. k \in clusters
      BY <3>1, MappedClustersExist
    <3> QED
      BY <3>1, <3>2, MappingConsistent, MappingStepTold
  <2> QED
    BY <2>1, <2>2, <2>3
<1>2. CASE \E k \in clusters, S \in SUBSET Service : AddServices(k, S)
  BY <1>2, AddServicesConsistent, AddServicesTold
<1>3. CASE \E s \in Service : DeleteService(s) \/ DeleteServiceByTask(s)
  <2> PICK s \in Service : DeleteService(s) \/ DeleteServiceByTask(s)
    BY <1>3
  <2>1. s \in services
    BY DEF DeleteService, DeleteServiceByTask
  <2> QED
    BY <2>1, ServiceGoneConsistent, ServiceGoneTold
<1>4. CASE \E h \in Host : AddHost(h) \/ RemoveHostFromCluster(h) \/ DeleteHost(h)
  <2> PICK h \in Host : AddHost(h) \/ RemoveHostFromCluster(h) \/ DeleteHost(h)
    BY <1>4
  <2>1. CASE AddHost(h)
    <3>1. HostCreated(h, None) /\ unchecked' = unchecked
      BY <2>1 DEF AddHost
    <3>2. None \notin clusters
      BY BundleAssumption DEF AdcmObject, Consistent, Objects
    <3>3. unchecked' = unchecked \cup (clusters \cap {None})
      BY <3>1, <3>2
    <3> QED
      BY <3>1, <3>3, HostCreatedConsistent, HostCreatedTold
  <2>2. CASE RemoveHostFromCluster(h)
    BY <2>2, RemoveHostConsistent, RemoveHostTold
  <2>3. CASE DeleteHost(h)
    BY <2>3, DeleteHostConsistent, DeleteHostTold
  <2> QED
    BY <2>1, <2>2, <2>3
<1>5. CASE \E h \in Host, k \in Cluster : CreateHostInCluster(h, k) \/ AddHostToCluster(h, k)
  <2> PICK h \in Host, k \in Cluster : CreateHostInCluster(h, k) \/ AddHostToCluster(h, k)
    BY <1>5
  <2>1. CASE CreateHostInCluster(h, k)
    <3>1. k \in clusters /\ HostCreated(h, k) /\ unchecked' = unchecked \cup (clusters \cap {k})
      BY <2>1 DEF CreateHostInCluster
    <3> QED
      BY <3>1, HostCreatedConsistent, HostCreatedTold
  <2>2. CASE AddHostToCluster(h, k)
    BY <2>2, AddHostToClusterConsistent, AddHostToClusterTold
  <2> QED
    BY <2>1, <2>2
<1>6. CASE \E o \in AdcmObject :
             \/ SaveConfig(o) \/ SaveGroupConfig(o) \/ SaveConfigByPlugin(o)
             \/ RaiseFlag(o) \/ LowerFlag(o) \/ SetImports(o)
             \/ TakeLock(o) \/ ReleaseLock(o)
  <2> PICK o \in AdcmObject :
             \/ SaveConfig(o) \/ SaveGroupConfig(o) \/ SaveConfigByPlugin(o)
             \/ RaiseFlag(o) \/ LowerFlag(o) \/ SetImports(o)
             \/ TakeLock(o) \/ ReleaseLock(o)
    BY <1>6
  <2>1. CASE SaveConfig(o) \/ SaveGroupConfig(o)
    BY <2>1, ConfigConsistent, ConfigStepTold
  <2>2. CASE SetImports(o)
    BY <2>2, ImportsConsistent, ImportsStepTold
  <2>3. CASE SaveConfigByPlugin(o) \/ RaiseFlag(o) \/ LowerFlag(o) \/ TakeLock(o) \/ ReleaseLock(o)
    BY <2>3, NoIssueConsistent, NoIssueTold
  <2> QED
    BY <2>1, <2>2, <2>3
<1>7. CASE UNCHANGED vars
  <2>1. Consistent'
    BY <1>7 DEF vars, Consistent, Objects, Owned, hosts, Existing
  <2>2. Told'
    BY <1>7, ToldStays DEF vars
  <2> QED
    BY <2>1, <2>2
<1> QED
  BY <1>1, <1>2, <1>3, <1>4, <1>5, <1>6, <1>7 DEF Next

(* Whatever the operations, an issue stands for a cause that is there, but *)
(* where a plugin set the field and for a mapping nothing rechecked        *)
(* (recalculate_own_concerns_on_add_services, redistribute_issues_and_flags*)
(* and the rechecks of requirements when services come and go).            *)
THEOREM IssuesHaveCauses == Spec => []NoFalseAlarm
<1>1. ASSUME Consistent, Told PROVE NoFalseAlarm
  <2> SUFFICES ASSUME NEW c \in DOMAIN link, c[2] \in Issue
               PROVE  \/ HasCause(c)
                      \/ c[2] = "config" /\ c[1] \in PluginFields
                      \/ c[2] = "hostcomponent" /\ c[1] \in unchecked
    BY DEF NoFalseAlarm
  <2>1. c \in Concern
    BY <1>1 DEF Consistent, Owned
  <2>2. c = <<c[1], c[2]>> /\ c[1] \in AdcmObject
    BY <2>1, ConcernKinds
  <2>3. Has(c[1], c[2])
    BY <2>2 DEF Has
  <2>4. CASE c[2] = "config"
    BY <1>1, <2>3, <2>4 DEF HasCause, Told, ConfigTold
  <2>5. CASE c[2] = "import"
    BY <1>1, <2>2, <2>3, <2>5 DEF HasCause, Told, ImportTold
  <2>6. CASE c[2] = "service"
    BY <1>1, <2>3, <2>6 DEF HasCause, Told, ServiceTold
  <2>7. CASE c[2] = "hostcomponent"
    BY <1>1, <2>3, <2>7 DEF HasCause, Told, MappingTold, Cause
  <2>8. CASE c[2] = "requirement"
    BY <1>1, <2>3, <2>8 DEF HasCause, Told, RequirementTold
  <2> QED
    BY <2>4, <2>5, <2>6, <2>7, <2>8 DEF Issue
<1> QED
  BY <1>1, ObjectsInit, ToldInit, ToldStep, PTL DEF Spec, Consistent

(* And a cause that blocks actions is told by its issue, but for the       *)
(* causes that the code does not look for (IssuesToTell leaves them out).  *)
THEOREM CausesAreTold == Spec => []IssueIsTold
<1>1. ASSUME Consistent, Told PROVE IssueIsTold
  <2> SUFFICES ASSUME NEW c \in IssuesToTell, HasCause(c) PROVE c \in DOMAIN link
    BY DEF IssueIsTold
  <2>1. CASE c \in ConfigIssues(Existing \ GroupFields)
    <3>1. PICK o \in Existing \ GroupFields : c = <<o, "config">>
      BY <2>1 DEF ConfigIssues
    <3>2. o \in empty
      BY <3>1 DEF HasCause
    <3> QED
      BY <1>1, <3>1, <3>2 DEF Told, ConfigTold, Has
  <2>2. CASE c \in ImportIssues(Existing)
    <3>1. PICK o \in Existing \cap Imports : c = <<o, "import">>
      BY <2>2 DEF ImportIssues
    <3>2. o \notin imported
      BY <3>1 DEF HasCause
    <3>3. o \in AdcmObject
      BY <1>1, ExistingByType DEF Consistent
    <3> QED
      BY <1>1, <3>1, <3>2, <3>3 DEF Told, ImportTold, Has
  <2>3. CASE c \in {<<k, "service">> : k \in {l \in clusters : RequiredServicesMissing(l, services \cup JobDeletes)}}
    BY <1>1, <2>3 DEF Told, ServiceTold, Has
  <2>4. CASE c \in {<<k, "hostcomponent">> : k \in clusters \ unchecked}
    <3>1. PICK k \in clusters \ unchecked : c = <<k, "hostcomponent">>
      BY <2>4
    <3>2. Cause(k)
      BY <3>1 DEF HasCause, Cause
    <3> QED
      BY <1>1, <3>1, <3>2 DEF Told, MappingTold, Has
  <2> QED
    BY <2>1, <2>2, <2>3, <2>4 DEF IssuesToTell
<1> QED
  BY <1>1, ObjectsInit, ToldInit, ToldStep, PTL DEF Spec, Consistent

(* A host is in one cluster, so the rows are a mapping.                    *)
LEMMA RowsAreMapping ==
  ASSUME Objects PROVE hc \in Mapping
<1>1. hc \in SUBSET (Host \X Component)
  BY DEF Objects, RowInCluster
<1>2. ASSUME NEW m \in hc, NEW n \in hc, m[1] = n[1]
      PROVE  ComponentCluster(m[2]) = ComponentCluster(n[2])
  BY <1>2 DEF Objects, RowInCluster
<1> QED
  BY <1>1, <1>2 DEF Mapping

(* Whatever operations came before, an object's own lock covers those by   *)
(* whose locks it is covered: the check of run_action and of the launcher  *)
(* on the concerns of one object finds every task in conflict.             *)
THEOREM LocksStayMutual == Spec => []LockIsMutual
<1>1. Consistent => LockIsMutual
  BY RowsAreMapping, LocksAreMutual DEF LockIsMutual, Consistent
<1> QED
  BY <1>1, ObjectsInit, ToldInit, ToldStep, PTL DEF Spec, Consistent

-----------------------------------------------------------------------------
(* Locks of clusters *)

LockOf(o) == link[<<o, "lock">>]

(* A lock concern is there for each owner of a lock; that of a cluster is  *)
(* the one found on the cluster, on no other cluster and on no provider.   *)
LockInv ==
  /\ \A o : Has(o, "lock") <=> o \in DOMAIN locks
  /\ \A o \in DOMAIN locks : locks[o] \subseteq DOMAIN locks \ {o}
  /\ \A k \in DOMAIN locks \cap Cluster :
       /\ \A o \in Cluster \cup Provider : o \in LockOf(k) <=> o = k
       /\ \A h \in Host : h \in LockOf(k) <=> h \in MappedHosts(hc, k)
       /\ \A o \in DOMAIN locks \ {k} : k \in LockOf(o) => o \notin locks[k] /\ k \in locks[o]

(* What the operations on concerns leave of the links of others.           *)
LEMMA OtherRows ==
  ASSUME NEW lk, NEW c \in DOMAIN lk
  PROVE  /\ \A cs, objects : c \notin cs => With(lk, cs, objects)[c] = lk[c]
         /\ \A cs : c \notin cs => Without(lk, cs)[c] = lk[c]
         /\ \A objects : c[1] \notin objects => WithoutObjects(lk, objects)[c] = lk[c] \ objects
         /\ \A issue, has, targets : c # issue => IssueRechecked(lk, issue, has, targets)[c] = lk[c]
         /\ \A k, svcs, m : c[2] = "lock" => Redistributed(lk, k, svcs, m)[c] = lk[c]
<1>1. \A cs, objects : c \notin cs => With(lk, cs, objects)[c] = lk[c]
  BY DEF With
<1>2. \A cs : c \notin cs => Without(lk, cs)[c] = lk[c]
  BY DEF Without
<1>3. \A objects : c[1] \notin objects => WithoutObjects(lk, objects)[c] = lk[c] \ objects
  BY DEF WithoutObjects
<1>4. ASSUME NEW issue, NEW has, NEW targets, c # issue
      PROVE  IssueRechecked(lk, issue, has, targets)[c] = lk[c]
  <2>1. c \notin {issue}
    BY <1>4
  <2> QED
    BY <1>1, <1>2, <2>1 DEF IssueRechecked
<1>5. \A k, svcs, m : c[2] = "lock" => Redistributed(lk, k, svcs, m)[c] = lk[c]
  BY DEF Redistributed
<1> QED
  BY <1>1, <1>2, <1>3, <1>4, <1>5

(* The lock found on a cluster with a lock is its own, and its lock is     *)
(* found on no other cluster and on no provider.                           *)
LEMMA LockFound ==
  ASSUME LockInv, NEW k \in DOMAIN locks, k \in Cluster
  PROVE  /\ \A o \in DOMAIN locks : <<o, "lock">> \in LockOn(link, k) <=> o = k
         /\ \A o \in Cluster \cup Provider : o # k => <<k, "lock">> \notin LockOn(link, o)
<1>1. \A o, l : l \in LocksOn(link, o) <=> l \in DOMAIN locks /\ o \in LockOf(l)
  BY DEF LocksOn, LockOf
<1>2. \A o, l : <<l, "lock">> \in LockOn(link, o) <=> l \in LocksOn(link, o) /\ locks[l] \cap LocksOn(link, o) = {}
  BY DEF LockOn
<1>3. k \in LocksOn(link, k)
  BY <1>1 DEF LockInv
<1>4. locks[k] \cap LocksOn(link, k) = {}
  BY <1>1 DEF LockInv
<1>5. \A o \in DOMAIN locks \ {k} : o \in LocksOn(link, k) => k \in locks[o]
  BY <1>1 DEF LockInv
<1>6. \A o \in DOMAIN locks : <<o, "lock">> \in LockOn(link, k) <=> o = k
  BY <1>2, <1>3, <1>4, <1>5
<1>7. \A o \in Cluster \cup Provider : o # k => k \notin LocksOn(link, o)
  BY <1>1 DEF LockInv
<1> QED
  BY <1>2, <1>6, <1>7

(* Locks stay, or go with their owners, and the links of those that stay   *)
(* lead to the same clusters and providers and to the mapped hosts.        *)
LEMMA LocksKept ==
  ASSUME LockInv, NEW gone,
         DOMAIN locks' = DOMAIN locks \ gone,
         \A o \in DOMAIN locks \ gone : locks'[o] = locks[o] \ gone,
         \A o : Has(o, "lock")' <=> Has(o, "lock") /\ o \notin gone,
         \A o \in DOMAIN locks \ gone, q \in Cluster \cup Provider :
            q \notin gone => (q \in LockOf(o)' <=> q \in LockOf(o)),
         \A o \in DOMAIN locks \ gone, q \in Cluster \cup Provider : q \in LockOf(o)' => q \in LockOf(o),
         \A k \in (DOMAIN locks \ gone) \cap Cluster, h \in Host : h \in LockOf(k)' <=> h \in MappedHosts(hc, k)'
  PROVE  LockInv'
<1>1. \A o : Has(o, "lock")' <=> o \in DOMAIN locks'
  BY DEF LockInv
<1>2. \A o \in DOMAIN locks' : locks'[o] \subseteq DOMAIN locks' \ {o}
  BY DEF LockInv
<1>3. ASSUME NEW k \in DOMAIN locks' \cap Cluster
      PROVE  /\ \A o \in Cluster \cup Provider : o \in LockOf(k)' <=> o = k
             /\ \A h \in Host : h \in LockOf(k)' <=> h \in MappedHosts(hc, k)'
             /\ \A o \in DOMAIN locks' \ {k} : k \in LockOf(o)' => o \notin locks'[k] /\ k \in locks'[o]
  <2>1. k \in (DOMAIN locks \ gone) \cap Cluster
    OBVIOUS
  <2>2. \A o \in Cluster \cup Provider : o \in LockOf(k)' <=> o = k
    BY <2>1 DEF LockInv
  <2>3. \A h \in Host : h \in LockOf(k)' <=> h \in MappedHosts(hc, k)'
    BY <2>1
  <2>4. \A o \in DOMAIN locks' \ {k} : k \in LockOf(o)' => o \notin locks'[k] /\ k \in locks'[o]
    BY <2>1 DEF LockInv
  <2> QED
    BY <2>2, <2>3, <2>4
<1> QED
  BY <1>1, <1>2, <1>3 DEF LockInv

(* Nothing happens to locks and the mapping.                               *)
LEMMA LocksUntouched ==
  ASSUME LockInv, UNCHANGED <<locks, hc>>,
         \A o : Has(o, "lock")' <=> Has(o, "lock"),
         \A o \in DOMAIN locks : LockOf(o)' = LockOf(o)
  PROVE  LockInv'
<1>1. \A k : MappedHosts(hc, k)' = MappedHosts(hc, k)
  BY DEF MappedHosts, RowsOf
<1>2. \A o \in DOMAIN locks : locks[o] \ {} = locks[o]
  OBVIOUS
<1>3. DOMAIN locks' = DOMAIN locks \ {}
  OBVIOUS
<1>4. \A k \in DOMAIN locks \cap Cluster, h \in Host : h \in LockOf(k)' <=> h \in MappedHosts(hc, k)'
  BY <1>1 DEF LockInv
<1> QED
  BY <1>2, <1>3, <1>4, LocksKept

LEMMA LocksInit == Init => LockInv
<1> SUFFICES ASSUME Init PROVE LockInv
  OBVIOUS
<1>1. DOMAIN locks = {}
  BY DEF Init
<1>2. DOMAIN link = {<<o, "config">> : o \in Provider \cap Unset}
  BY DEF Init, ConfigIssues
<1>3. \A o : ~Has(o, "lock")
  BY <1>2 DEF Has
<1> QED
  BY <1>1, <1>3 DEF LockInv

(* New objects come without a lock.                                        *)
LEMMA AddClusterLocks ==
  ASSUME Consistent, LockInv, NEW k \in Cluster, AddCluster(k)
  PROVE  LockInv'
<1> DEFINE lk == With(link, NewClusterIssues(k), {})
<1>1. \A o : <<o, "lock">> \notin NewClusterIssues(k)
  BY DEF NewClusterIssues, ConfigIssues, ImportIssues
<1>2. \A c : c \in DOMAIN link' <=> c \in NewClusterIssues(k) \/ c \in DOMAIN link
  BY AddClusterConsistent
<1>3. \A o : Has(o, "lock")' <=> Has(o, "lock")
  BY <1>1, <1>2 DEF Has
<1>4. ASSUME NEW o \in DOMAIN locks PROVE LockOf(o)' = LockOf(o)
  <2> DEFINE c == <<o, "lock">>
  <2>1. c \in DOMAIN link /\ c \notin NewClusterIssues(k) /\ c[2] = "lock"
    BY <1>1 DEF LockInv, Has
  <2>2. link' = Redistributed(lk, k, {}, hc)
    BY DEF AddCluster, NewClusterIssues
  <2>3. c \in DOMAIN lk
    BY <2>1, DomainOfWith
  <2> HIDE DEF c
  <2>4. lk[c] = link[c]
    BY <2>1, OtherRows
  <2> HIDE DEF lk
  <2>5. link'[c] = lk[c]
    BY <2>1, <2>2, <2>3, OtherRows
  <2> QED
    BY <2>4, <2>5 DEF c, LockOf
<1>5. UNCHANGED <<locks, hc>>
  BY DEF AddCluster
<1> QED
  BY <1>3, <1>4, <1>5, LocksUntouched

LEMMA AddServicesLocks ==
  ASSUME Consistent, LockInv, NEW k \in clusters, NEW S \in SUBSET Service, AddServices(k, S)
  PROVE  LockInv'
<1> DEFINE svcs == ServicesOfCluster(k) \cup S
<1>1. PICK X : link' = AddedConcerns(k, S, svcs, X)
  BY DEF AddServices
<1> DEFINE resolved == ResolvedIssues(k, svcs, svcs \ S, X)
           new == NewServiceIssues(k, S, svcs)
           left == Without(link, resolved)
           lk == With(left, new \ DOMAIN link, {})
<1> HIDE DEF svcs
<1>2. \A o : <<o, "lock">> \notin new /\ <<o, "lock">> \notin resolved
  BY DEF NewServiceIssues, ResolvedIssues, ConfigIssues, ImportIssues
<1>3. link' = Redistributed(lk, k, svcs, hc)
  BY <1>1 DEF AddedConcerns
<1>4. \A c : c \in DOMAIN link' <=> \/ c \in DOMAIN link /\ c \notin resolved
                                    \/ c \notin DOMAIN link /\ c \in new
  BY <1>1, DomainOfAdded
<1>5. DOMAIN link' = DOMAIN lk
  BY <1>3, DomainOfRedistributed
<1> HIDE DEF resolved, new
<1>6. \A c : c \in DOMAIN left <=> c \in DOMAIN link /\ c \notin resolved
  BY DomainOfWithout
<1>7. \A o : Has(o, "lock")' <=> Has(o, "lock")
  BY <1>2, <1>4 DEF Has
<1>8. ASSUME NEW o \in DOMAIN locks PROVE LockOf(o)' = LockOf(o)
  <2> DEFINE c == <<o, "lock">>
  <2>1. c \in DOMAIN link /\ c \notin new /\ c \notin resolved /\ c[2] = "lock"
    BY <1>2 DEF LockInv, Has
  <2> HIDE DEF c
  <2>2. c \in DOMAIN left /\ left[c] = link[c]
    BY <1>6, <2>1, OtherRows
  <2> HIDE DEF left
  <2>3. lk[c] = left[c]
    BY <2>1, <2>2, OtherRows
  <2>4. c \in DOMAIN lk
    BY <1>4, <1>5, <2>1
  <2> HIDE DEF lk
  <2>5. link'[c] = lk[c]
    BY <1>3, <2>1, <2>4, OtherRows
  <2> QED
    BY <2>2, <2>3, <2>5 DEF c, LockOf
<1>9. UNCHANGED <<locks, hc>>
  BY DEF AddServices
<1> QED
  BY <1>7, <1>8, <1>9, LocksUntouched

(* What _update_concerns makes of the links of a lock.                     *)
LEMMA UpdatedLock ==
  ASSUME LockInv, NEW k, NEW m, NEW o \in DOMAIN locks
  PROVE  /\ <<o, "lock">> \in DOMAIN ConcernsUpdated(k, m)
         /\ ConcernsUpdated(k, m)[<<o, "lock">>]
              = IF <<o, "lock">> \in LockOn(link, k)
                THEN (LockOf(o) \ (MappedHosts(hc, k) \ MappedHosts(m, k))) \cup (MappedHosts(m, k) \ MappedHosts(hc, k))
                ELSE LockOf(o)
<1> DEFINE issued == MappingIssueUpdated(link, k, ServicesOfCluster(k), HostsOfCluster(k), m)
           issue == {<<k, "hostcomponent">>}
           lk == Redistributed(issued, k, ServicesOfCluster(k), m)
<1>1. issued \in {link, Without(link, issue), With(link, issue, {})}
  BY DEF MappingIssueUpdated
<1>2. ConcernsUpdated(k, m) = LockMoved(lk, k, m)
  BY DEF ConcernsUpdated
<1>3. DOMAIN lk = DOMAIN issued
  BY DomainOfRedistributed
<1>4. ASSUME NEW l \in DOMAIN locks
      PROVE  <<l, "lock">> \in DOMAIN lk /\ lk[<<l, "lock">>] = LockOf(l)
  <2> DEFINE c == <<l, "lock">>
  <2>1. c \in DOMAIN link /\ c \notin issue /\ c[2] = "lock"
    BY DEF LockInv, Has
  <2> HIDE DEF c, issue
  <2>2. c \in DOMAIN issued /\ issued[c] = link[c]
    <3>1. c \in DOMAIN Without(link, issue) /\ c \in DOMAIN With(link, issue, {})
      BY <2>1, DomainOfWith, DomainOfWithout
    <3>2. Without(link, issue)[c] = link[c] /\ With(link, issue, {})[c] = link[c]
      BY <2>1, OtherRows
    <3> QED
      BY <1>1, <2>1, <3>1, <3>2
  <2> HIDE DEF issued
  <2>3. lk[c] = issued[c]
    BY <2>1, <2>2, OtherRows
  <2> QED
    BY <1>3, <2>2, <2>3 DEF c, LockOf
<1> HIDE DEF lk
<1>5. \A q : LocksOn(lk, q) = LocksOn(link, q)
  BY <1>4 DEF LocksOn, LockOf
<1>6. LockOn(lk, k) = LockOn(link, k)
  BY <1>5 DEF LockOn
<1> QED
  BY <1>2, <1>4, <1>6 DEF LockMoved

(* They lead to the same clusters and providers and to the hosts that are  *)
(* mapped now.                                                             *)
LEMMA UpdatedLocks ==
  ASSUME LockInv, NEW k \in Cluster, NEW m,
         \A n : ComponentCluster(n[2]) # k => (n \in m <=> n \in hc),
         MappedHosts(m, k) \subseteq Host, MappedHosts(hc, k) \subseteq Host
  PROVE  /\ \A o \in DOMAIN locks, q \in Cluster \cup Provider :
              q \in ConcernsUpdated(k, m)[<<o, "lock">>] <=> q \in LockOf(o)
         /\ \A j \in DOMAIN locks \cap Cluster, h \in Host :
              h \in ConcernsUpdated(k, m)[<<j, "lock">>] <=> h \in MappedHosts(m, j)
<1>1. \A q \in Cluster \cup Provider : q \notin Host
  BY TopologyAssumption
<1>2. ASSUME NEW o \in DOMAIN locks, NEW q \in Cluster \cup Provider
      PROVE  q \in ConcernsUpdated(k, m)[<<o, "lock">>] <=> q \in LockOf(o)
  BY <1>1, UpdatedLock
<1>3. ASSUME NEW j \in DOMAIN locks \cap Cluster, NEW h \in Host
      PROVE  h \in ConcernsUpdated(k, m)[<<j, "lock">>] <=> h \in MappedHosts(m, j)
  <2>1. h \in LockOf(j) <=> h \in MappedHosts(hc, j)
    BY DEF LockInv
  <2>2. CASE j = k
    <3>1. <<j, "lock">> \in LockOn(link, k)
      BY <2>2, LockFound
    <3>2. ConcernsUpdated(k, m)[<<j, "lock">>]
            = (LockOf(j) \ (MappedHosts(hc, k) \ MappedHosts(m, k))) \cup (MappedHosts(m, k) \ MappedHosts(hc, k))
      BY <3>1, UpdatedLock
    <3> QED
      BY <2>1, <2>2, <3>2
  <2>3. CASE j # k
    <3>1. <<j, "lock">> \notin LockOn(link, k)
      BY <2>3, LockFound
    <3>2. MappedHosts(m, j) = MappedHosts(hc, j)
      <4>1. RowsOf(m, j) = RowsOf(hc, j)
        BY <2>3 DEF RowsOf
      <4> QED
        BY <4>1 DEF MappedHosts
    <3>3. ConcernsUpdated(k, m)[<<j, "lock">>] = LockOf(j)
      BY <3>1, UpdatedLock
    <3> QED
      BY <2>1, <3>2, <3>3
  <2> QED
    BY <2>2, <2>3
<1> QED
  BY <1>2, <1>3

LEMMA MappedAreHosts ==
  ASSUME Objects
  PROVE  \A k : MappedHosts(hc, k) \subseteq Host /\ MappedHosts(hc, k) \subseteq hosts
  BY DEF Objects, MappedHosts, RowsOf, RowInCluster, hosts

LEMMA MappingLocks ==
  ASSUME Consistent, LockInv, NEW k \in clusters, NEW m \in Mappings(k),
         MappingChanged(k, (hc \ RowsOf(hc, k)) \cup m)
  PROVE  LockInv'
<1>0. k \in Cluster
  BY DEF Consistent, Objects
<1>1. hc' = (hc \ RowsOf(hc, k)) \cup m /\ locks' = locks /\ link' = ConcernsUpdated(k, hc')
  BY DEF MappingChanged
<1>2. \A n \in m : ComponentCluster(n[2]) = k /\ n[1] \in Host
  <2>1. \A n \in m : n \in HostsOfCluster(k) \X ComponentsIn(ServicesOfCluster(k))
    BY DEF Mappings
  <2>2. HostsOfCluster(k) \subseteq Host
    BY DEF HostsOfCluster, Consistent, Objects
  <2>3. \A c \in ComponentsIn(ServicesOfCluster(k)) : ComponentCluster(c) = k
    BY DEF ComponentsIn, ServicesOfCluster, ServicesIn, ComponentCluster
  <2> QED
    BY <2>1, <2>2, <2>3
<1>3. \A n : ComponentCluster(n[2]) # k => (n \in hc' <=> n \in hc)
  BY <1>1, <1>2 DEF RowsOf
<1>4. MappedHosts(hc', k) \subseteq Host /\ MappedHosts(hc, k) \subseteq Host
  <2>1. RowsOf(hc', k) \subseteq m
    BY <1>1 DEF RowsOf
  <2> QED
    BY <1>2, <2>1, MappedAreHosts DEF MappedHosts, Consistent
<1>5. /\ \A o \in DOMAIN locks, q \in Cluster \cup Provider : q \in LockOf(o)' <=> q \in LockOf(o)
      /\ \A j \in DOMAIN locks \cap Cluster, h \in Host : h \in LockOf(j)' <=> h \in MappedHosts(hc', j)
  <2> DEFINE lk == ConcernsUpdated(k, hc')
  <2>1. /\ \A o \in DOMAIN locks, q \in Cluster \cup Provider : q \in lk[<<o, "lock">>] <=> q \in LockOf(o)
        /\ \A j \in DOMAIN locks \cap Cluster, h \in Host : h \in lk[<<j, "lock">>] <=> h \in MappedHosts(hc', j)
    BY <1>0, <1>3, <1>4, UpdatedLocks
  <2>2. \A o : LockOf(o)' = lk[<<o, "lock">>]
    BY <1>1 DEF LockOf
  <2> QED
    BY <2>1, <2>2
<1>6. \A o : Has(o, "lock")' <=> Has(o, "lock")
  BY <1>1, DomainOfUpdated DEF Has
<1>7. \A o \in DOMAIN locks : locks[o] \ {} = locks[o]
  OBVIOUS
<1>8. DOMAIN locks' = DOMAIN locks \ {}
  BY <1>1
<1> QED
  BY <1>1, <1>5, <1>6, <1>7, <1>8, LocksKept

LEMMA ServiceGoneLocks ==
  ASSUME Consistent, LockInv, NEW s \in services, DeleteService(s) \/ DeleteServiceByTask(s)
  PROVE  LockInv'
<1> DEFINE k == clusterOf[s]
           gone == {s} \cup ComponentsIn({s})
<1>0. s \in Service /\ k \in Cluster
  BY TopologyAssumption DEF Consistent, Objects
<1>1. hc' = {n \in hc : serviceOf[n[2]] # s}
  BY DEF DeleteService, DeleteServiceByTask, ServiceGone
<1>2. PICK lk : ServiceGone(s, lk, hc') /\ ((lk = link /\ hc' = hc) \/ lk = ConcernsUpdated(k, hc'))
  BY DEF DeleteService, DeleteServiceByTask, ServiceGone
<1>3. \A n : ComponentCluster(n[2]) # k => (n \in hc' <=> n \in hc)
  BY <1>1 DEF ComponentCluster
<1>4. MappedHosts(hc', k) \subseteq Host /\ MappedHosts(hc, k) \subseteq Host
  <2>1. MappedHosts(hc', k) \subseteq MappedHosts(hc, k)
    BY <1>1 DEF MappedHosts, RowsOf
  <2> QED
    BY <2>1, MappedAreHosts DEF Consistent
<1>5. \A q \in Cluster \cup Host \cup Provider : q \notin gone
  BY <1>0, TopologyAssumption DEF ComponentsIn
<1>6. \A o \in DOMAIN locks : <<o, "lock">> \in DOMAIN lk
  <2>1. \A o \in DOMAIN locks : <<o, "lock">> \in DOMAIN link
    BY DEF LockInv, Has
  <2> QED
    BY <1>2, <2>1, UpdatedLock
<1>7. /\ \A o \in DOMAIN locks, q \in Cluster \cup Provider : q \in lk[<<o, "lock">>] <=> q \in LockOf(o)
      /\ \A j \in DOMAIN locks \cap Cluster, h \in Host : h \in lk[<<j, "lock">>] <=> h \in MappedHosts(hc', j)
  <2>1. CASE lk = link /\ hc' = hc
    BY <2>1 DEF LockInv, LockOf
  <2>2. CASE lk = ConcernsUpdated(k, hc')
    <3> HIDE DEF k
    <3> QED
      BY <1>0, <1>3, <1>4, <2>2, UpdatedLocks
  <2> QED
    BY <1>2, <2>1, <2>2
<1>8. DOMAIN locks' = DOMAIN locks \ gone /\ \A o \in DOMAIN locks \ gone : locks'[o] = locks[o] \ gone
  BY <1>2 DEF ServiceGone, LocksWithout
<1>9. \A o : Has(o, "lock")' <=> Has(o, "lock") /\ o \notin gone
  <2>1. \A c : c # <<k, "hostcomponent">> => (c \in DOMAIN link' <=> c \in DOMAIN link /\ c[1] \notin gone)
    BY ServiceGoneConsistent
  <2> SUFFICES ASSUME NEW o PROVE Has(o, "lock")' <=> Has(o, "lock") /\ o \notin gone
    OBVIOUS
  <2> DEFINE c == <<o, "lock">>
  <2>2. c # <<k, "hostcomponent">> /\ c[1] = o
    OBVIOUS
  <2> HIDE DEF gone
  <2> QED
    BY <2>1, <2>2 DEF Has
<1>10. ASSUME NEW o \in DOMAIN locks \ gone
       PROVE  \A q \in Cluster \cup Host \cup Provider : q \in LockOf(o)' <=> q \in lk[<<o, "lock">>]
  <2> DEFINE c == <<o, "lock">>
             left == WithoutObjects(lk, gone)
             issue == <<k, "hostcomponent">>
  <2>1. PICK has, targets : link' = IssueRechecked(left, issue, has, targets)
    BY <1>2 DEF ServiceGone
  <2>2. c \in DOMAIN lk /\ c[1] \notin gone /\ c # issue
    BY <1>6
  <2>3. LockOf(o)' = link'[c]
    BY DEF LockOf
  <2> HIDE DEF c, issue, gone
  <2>4. left[c] = lk[c] \ gone /\ c \in DOMAIN left
    BY <2>2, OtherRows, DomainOfOthers
  <2> HIDE DEF left
  <2>5. link'[c] = left[c]
    BY <2>1, <2>2, <2>4, OtherRows
  <2> QED
    BY <1>5, <2>3, <2>4, <2>5 DEF c
<1> HIDE DEF gone, k
<1>11. \A o \in DOMAIN locks \ gone, q \in Cluster \cup Provider : q \in LockOf(o)' <=> q \in LockOf(o)
  BY <1>7, <1>10
<1>12. \A j \in (DOMAIN locks \ gone) \cap Cluster, h \in Host : h \in LockOf(j)' <=> h \in MappedHosts(hc, j)'
  BY <1>7, <1>10
<1> QED
  BY <1>8, <1>9, <1>11, <1>12, LocksKept

LEMMA DeleteClusterLocks ==
  ASSUME Consistent, LockInv, NEW k \in Cluster, DeleteCluster(k)
  PROVE  LockInv'
<1> DEFINE svcs == ServicesOfCluster(k)
           gone == {k} \cup svcs \cup ComponentsIn(svcs)
<1>1. hc' = hc \ RowsOf(hc, k) /\ link' = WithoutObjects(link, gone) /\ locks' = LocksWithout(gone)
  BY DEF DeleteCluster
<1>2. \A o \in Host : o \notin gone
  BY TopologyAssumption DEF ComponentsIn, ServicesOfCluster, ServicesIn
<1>3. k \in gone
  OBVIOUS
<1> HIDE DEF gone
<1>4. DOMAIN locks' = DOMAIN locks \ gone /\ \A o \in DOMAIN locks \ gone : locks'[o] = locks[o] \ gone
  BY <1>1 DEF LocksWithout
<1>5. ASSUME NEW o PROVE Has(o, "lock")' <=> Has(o, "lock") /\ o \notin gone
  <2> DEFINE c == <<o, "lock">>
  <2>1. c[1] = o
    OBVIOUS
  <2> HIDE DEF c
  <2>2. c \in DOMAIN link' <=> c \in DOMAIN link /\ o \notin gone
    BY <1>1, <2>1, DomainOfOthers
  <2> QED
    BY <2>2 DEF Has, c
<1>6. ASSUME NEW o \in DOMAIN locks \ gone PROVE LockOf(o)' = LockOf(o) \ gone
  <2> DEFINE c == <<o, "lock">>
  <2>1. c[1] = o /\ c \in DOMAIN link
    BY DEF LockInv, Has
  <2> HIDE DEF c
  <2>2. link'[c] = link[c] \ gone
    BY <1>1, <2>1, OtherRows
  <2> QED
    BY <2>2 DEF LockOf, c
<1>7. ASSUME NEW j \in (DOMAIN locks \ gone) \cap Cluster, NEW h \in Host
      PROVE  h \in LockOf(j)' <=> h \in MappedHosts(hc, j)'
  <2>1. j # k
    BY <1>3
  <2>2. RowsOf(hc, j)' = RowsOf(hc, j)
    BY <1>1, <2>1 DEF RowsOf
  <2>3. MappedHosts(hc, j)' = MappedHosts(hc, j)
    BY <2>2 DEF MappedHosts
  <2> QED
    BY <1>2, <1>6, <2>3 DEF LockInv
<1> QED
  BY <1>4, <1>5, <1>6, <1>7, LocksKept

(* A new host gets the lock of its provider, which is not a cluster's.     *)
LEMMA HostCreatedLocks ==
  ASSUME Consistent, LockInv, NEW h \in Host, NEW k, HostCreated(h, k)
  PROVE  LockInv'
<1> DEFINE p == providerOf[h]
           inherited == ({<<p, "config">>} \cap DOMAIN link) \cup LockOn(link, p)
           lk == [c \in DOMAIN link |-> IF c \in inherited THEN link[c] \cup {h} ELSE link[c]]
           issues == ConfigIssues({h})
<1>1. link' = With(lk, issues, {h}) /\ UNCHANGED <<locks, hc>>
  BY DEF HostCreated
<1>2. \A o : <<o, "lock">> \notin issues
  BY DEF ConfigIssues
<1>3. p \in Provider /\ p \notin Cluster /\ h \notin Cluster \cup Provider
  BY TopologyAssumption
<1>4. \A o : <<o, "lock">> \in inherited <=> <<o, "lock">> \in LockOn(link, p)
  OBVIOUS
<1>5. DOMAIN lk = DOMAIN link
  OBVIOUS
<1>6. \A c \in DOMAIN link : lk[c] = IF c \in inherited THEN link[c] \cup {h} ELSE link[c]
  OBVIOUS
<1> HIDE DEF lk, issues, inherited, p
<1>7. \A o : Has(o, "lock")' <=> Has(o, "lock")
  BY <1>1, <1>2, <1>5, DomainOfWith DEF Has
<1>8. ASSUME NEW o \in DOMAIN locks
      PROVE  LockOf(o)' = IF <<o, "lock">> \in LockOn(link, p) THEN LockOf(o) \cup {h} ELSE LockOf(o)
  <2> DEFINE c == <<o, "lock">>
  <2>1. c \in DOMAIN lk /\ c \notin issues
    BY <1>2, <1>5 DEF LockInv, Has
  <2>2. c \in inherited <=> c \in LockOn(link, p)
    BY <1>4
  <2> HIDE DEF c
  <2>3. link'[c] = lk[c]
    BY <1>1, <2>1, OtherRows
  <2>4. link'[c] = IF c \in LockOn(link, p) THEN link[c] \cup {h} ELSE link[c]
    BY <1>5, <1>6, <2>1, <2>2, <2>3
  <2> QED
    BY <2>4 DEF LockOf, c
<1>9. ASSUME NEW j \in DOMAIN locks \cap Cluster PROVE LockOf(j)' = LockOf(j)
  BY <1>3, <1>8, LockFound
<1>10. \A j \in DOMAIN locks \cap Cluster, g \in Host : g \in LockOf(j)' <=> g \in MappedHosts(hc, j)'
  BY <1>1, <1>9 DEF LockInv, MappedHosts, RowsOf
<1>11. \A o \in DOMAIN locks, q \in Cluster \cup Provider : q \in LockOf(o)' <=> q \in LockOf(o)
  BY <1>3, <1>8
<1>12. DOMAIN locks' = DOMAIN locks \ {} /\ \A o \in DOMAIN locks : locks[o] \ {} = locks[o]
  BY <1>1
<1> QED
  BY <1>1, <1>7, <1>10, <1>11, <1>12, LocksKept

(* A host that leaves a cluster takes no row with it.                      *)
LEMMA RemoveHostLocks ==
  ASSUME Consistent, LockInv, NEW h \in Host, RemoveHostFromCluster(h)
  PROVE  LockInv'
<1> PICK k : k = hostCluster[h]
  OBVIOUS
<1> DEFINE lk == [c \in DOMAIN link |-> IF c \in LockOn(link, k) THEN link[c] \ {h} ELSE link[c]]
           issue == {<<k, "hostcomponent">>}
<1>1. /\ k \in clusters /\ h \notin MappedHosts(hc, k) /\ UNCHANGED <<locks, hc>>
      /\ link' \in {lk, Without(lk, issue)}
  BY DEF RemoveHostFromCluster, Consistent, Objects
<1>2. k \in Cluster /\ h \notin Cluster \cup Provider
  BY <1>1, TopologyAssumption DEF Consistent, Objects
<1>3. ASSUME NEW o \in DOMAIN locks
      PROVE  LockOf(o)' = IF <<o, "lock">> \in LockOn(link, k) THEN LockOf(o) \ {h} ELSE LockOf(o)
  <2> DEFINE c == <<o, "lock">>
  <2>1. c \in DOMAIN lk /\ c \notin issue
    BY DEF LockInv, Has
  <2>2. lk[c] = IF c \in LockOn(link, k) THEN link[c] \ {h} ELSE link[c]
    BY <2>1
  <2> HIDE DEF c, lk, issue
  <2>3. link'[c] = lk[c]
    BY <1>1, <2>1, OtherRows
  <2> QED
    BY <2>2, <2>3 DEF LockOf, c
<1>4. \A o : Has(o, "lock")' <=> Has(o, "lock")
  <2>1. DOMAIN lk = DOMAIN link /\ \A o : <<o, "lock">> \notin issue
    OBVIOUS
  <2> HIDE DEF lk, issue
  <2> QED
    BY <1>1, <2>1, DomainOfWithout, ZenonT(60) DEF Has
<1>5. ASSUME NEW j \in DOMAIN locks \cap Cluster, NEW g \in Host
      PROVE  g \in LockOf(j)' <=> g \in MappedHosts(hc, j)'
  <2>1. g \in LockOf(j) <=> g \in MappedHosts(hc, j)
    BY DEF LockInv
  <2>2. MappedHosts(hc, j)' = MappedHosts(hc, j)
    BY <1>1 DEF MappedHosts, RowsOf
  <2>3. CASE j = k
    BY <1>1, <1>3, <2>1, <2>2, <2>3
  <2>4. CASE j # k
    <3>1. <<j, "lock">> \notin LockOn(link, k)
      BY <1>2, <2>4, LockFound
    <3> QED
      BY <1>3, <2>1, <2>2, <3>1
  <2> QED
    BY <2>3, <2>4
<1>6. \A o \in DOMAIN locks, q \in Cluster \cup Provider : q \in LockOf(o)' <=> q \in LockOf(o)
  BY <1>2, <1>3
<1>7. DOMAIN locks' = DOMAIN locks \ {} /\ \A o \in DOMAIN locks : locks[o] \ {} = locks[o]
  BY <1>1
<1> QED
  BY <1>1, <1>4, <1>5, <1>6, <1>7, LocksKept

LEMMA DeleteHostLocks ==
  ASSUME Consistent, LockInv, NEW h \in Host, DeleteHost(h)
  PROVE  LockInv'
<1> DEFINE gone == {h}
<1>1. link' = WithoutObjects(link, gone) /\ locks' = LocksWithout(gone) /\ hc' = hc /\ hostCluster[h] = None
  BY DEF DeleteHost
<1>2. \A q \in Cluster \cup Provider : q \notin gone
  BY TopologyAssumption
<1>3. \A j \in Cluster : h \notin MappedHosts(hc, j)
  <2> SUFFICES ASSUME NEW m \in hc, m[1] = h PROVE FALSE
    BY DEF MappedHosts, RowsOf
  <2>1. RowInCluster(m, hostCluster)
    BY DEF Consistent, Objects
  <2> QED
    BY <1>1, <2>1, ClusterOfComponent DEF RowInCluster
<1>4. h \in gone /\ \A g : g # h => g \notin gone
  OBVIOUS
<1> HIDE DEF gone
<1>5. DOMAIN locks' = DOMAIN locks \ gone /\ \A o \in DOMAIN locks \ gone : locks'[o] = locks[o] \ gone
  BY <1>1 DEF LocksWithout
<1>6. ASSUME NEW o PROVE Has(o, "lock")' <=> Has(o, "lock") /\ o \notin gone
  <2> DEFINE c == <<o, "lock">>
  <2>1. c[1] = o
    OBVIOUS
  <2> HIDE DEF c
  <2>2. c \in DOMAIN link' <=> c \in DOMAIN link /\ o \notin gone
    BY <1>1, <2>1, DomainOfOthers
  <2> QED
    BY <2>2 DEF Has, c
<1>7. ASSUME NEW o \in DOMAIN locks \ gone PROVE LockOf(o)' = LockOf(o) \ gone
  <2> DEFINE c == <<o, "lock">>
  <2>1. c[1] = o /\ c \in DOMAIN link
    BY DEF LockInv, Has
  <2> HIDE DEF c
  <2>2. link'[c] = link[c] \ gone
    BY <1>1, <2>1, OtherRows
  <2> QED
    BY <2>2 DEF LockOf, c
<1>8. ASSUME NEW j \in (DOMAIN locks \ gone) \cap Cluster, NEW g \in Host
      PROVE  g \in LockOf(j)' <=> g \in MappedHosts(hc, j)'
  <2>1. MappedHosts(hc, j)' = MappedHosts(hc, j)
    BY <1>1 DEF MappedHosts, RowsOf
  <2>2. g \in LockOf(j) <=> g \in MappedHosts(hc, j)
    BY DEF LockInv
  <2> QED
    BY <1>3, <1>4, <1>7, <2>1, <2>2
<1> QED
  BY <1>2, <1>5, <1>6, <1>7, <1>8, LocksKept

(* Issues and flags come and go without any lock.                          *)
SameLocks(lk, new) ==
  \A q : /\ <<q, "lock">> \in DOMAIN new <=> <<q, "lock">> \in DOMAIN lk
         /\ <<q, "lock">> \in DOMAIN lk => new[<<q, "lock">>] = lk[<<q, "lock">>]

LEMMA LocksOfOthers ==
  ASSUME NEW lk, NEW o, NEW kind, kind # "lock"
  PROVE  /\ SameLocks(lk, Without(lk, {<<o, kind>>}))
         /\ \A objects : SameLocks(lk, With(lk, {<<o, kind>>}, objects))
         /\ \A has \in BOOLEAN : \A targets : SameLocks(lk, IssueRechecked(lk, <<o, kind>>, has, targets))
<1> DEFINE cs == {<<o, kind>>}
<1>1. \A q : <<q, "lock">> \notin cs
  OBVIOUS
<1> HIDE DEF cs
<1>2. ASSUME NEW objects, NEW q, NEW c, c = <<q, "lock">>
      PROVE  /\ c \in DOMAIN With(lk, cs, objects) <=> c \in DOMAIN lk
             /\ c \in DOMAIN Without(lk, cs) <=> c \in DOMAIN lk
             /\ c \in DOMAIN lk => With(lk, cs, objects)[c] = lk[c] /\ Without(lk, cs)[c] = lk[c]
  <2>1. c \notin cs
    BY <1>1, <1>2
  <2> QED
    BY <2>1, DomainOfWith, DomainOfWithout, OtherRows
<1>3. SameLocks(lk, Without(lk, cs)) /\ \A objects : SameLocks(lk, With(lk, cs, objects))
  BY <1>2 DEF SameLocks
<1>4. ASSUME NEW has \in BOOLEAN, NEW targets
      PROVE  SameLocks(lk, IssueRechecked(lk, <<o, kind>>, has, targets))
  <2>1. \/ IssueRechecked(lk, <<o, kind>>, has, targets) = Without(lk, cs)
        \/ IssueRechecked(lk, <<o, kind>>, has, targets) = lk
        \/ IssueRechecked(lk, <<o, kind>>, has, targets) = With(lk, cs, targets)
    BY DEF IssueRechecked, cs
  <2>2. SameLocks(lk, lk)
    BY DEF SameLocks
  <2> QED
    BY <1>3, <2>1, <2>2
<1> QED
  BY <1>3, <1>4 DEF cs

LEMMA OtherLocks ==
  ASSUME LockInv, NEW o,
         \/ \E k \in Cluster : AddHostToCluster(o, k)
         \/ SaveConfig(o) \/ SaveGroupConfig(o) \/ SaveConfigByPlugin(o)
         \/ RaiseFlag(o) \/ LowerFlag(o) \/ SetImports(o)
  PROVE  LockInv'
<1>1. UNCHANGED <<locks, hc>>
  BY DEF AddHostToCluster, SaveConfig, SaveGroupConfig, SaveConfigByPlugin, RaiseFlag, LowerFlag, SetImports
<1>2. SameLocks(link, link')
  <2>1. ASSUME NEW k \in Cluster, AddHostToCluster(o, k) PROVE SameLocks(link, link')
    <3> DEFINE has == ClusterMappingHasIssue(k, ServicesOfCluster(k), HostsOfCluster(k) \cup {o}, hc)
    <3>1. has \in BOOLEAN
      BY DEF ClusterMappingHasIssue
    <3>2. link' = IssueRechecked(link, <<k, "hostcomponent">>, has, Targets("hostcomponent", k))
      BY <2>1 DEF AddHostToCluster
    <3> HIDE DEF has
    <3> QED
      BY <3>1, <3>2, LocksOfOthers
  <2>2. CASE SetImports(o)
    <3> DEFINE has == o \notin imported'
    <3>1. has \in BOOLEAN
      OBVIOUS
    <3>2. link' = IssueRechecked(link, <<o, "import">>, has, Targets("import", o))
      BY <2>2 DEF SetImports
    <3> HIDE DEF has
    <3> QED
      BY <3>1, <3>2, LocksOfOthers
  <2>3. CASE SaveConfig(o) \/ SaveGroupConfig(o)
    <3> DEFINE saved == Without(link, {<<o, "config">>})
    <3>1. link' \in OutdatedConfigFlag(saved, o)
      BY <2>3 DEF SaveConfig, SaveGroupConfig
    <3>2. SameLocks(link, saved)
      BY LocksOfOthers
    <3> HIDE DEF saved
    <3>3. link' = saved \/ \E objects : link' = With(saved, {<<o, "flag">>}, objects)
      BY <3>1 DEF OutdatedConfigFlag, Raised
    <3>4. link' = saved \/ SameLocks(saved, link')
      BY <3>3, LocksOfOthers
    <3> QED
      BY <3>2, <3>4 DEF SameLocks
  <2>4. CASE SaveConfigByPlugin(o)
    BY <2>4 DEF SaveConfigByPlugin, SameLocks
  <2>5. CASE RaiseFlag(o)
    BY <2>5, LocksOfOthers DEF RaiseFlag, Raised
  <2>6. CASE LowerFlag(o)
    BY <2>6, LocksOfOthers DEF LowerFlag
  <2> QED
    BY <2>1, <2>2, <2>3, <2>4, <2>5, <2>6
<1>3. \A q : Has(q, "lock")' <=> Has(q, "lock")
  BY <1>2 DEF SameLocks, Has
<1>4. \A q \in DOMAIN locks : LockOf(q)' = LockOf(q)
  BY <1>2 DEF LockInv, SameLocks, Has, LockOf
<1> QED
  BY <1>1, <1>3, <1>4, LocksUntouched

LEMMA ReleaseLockLocks ==
  ASSUME LockInv, NEW o, ReleaseLock(o)
  PROVE  LockInv'
<1> DEFINE gone == {o}
           lock == {<<o, "lock">>}
<1>1. link' = Without(link, lock) /\ locks' = LocksWithout(gone) /\ hc' = hc
  BY DEF ReleaseLock
<1>2. \A q : <<q, "lock">> \in lock <=> q \in gone
  OBVIOUS
<1> HIDE DEF gone, lock
<1>3. DOMAIN locks' = DOMAIN locks \ gone /\ \A q \in DOMAIN locks \ gone : locks'[q] = locks[q] \ gone
  BY <1>1 DEF LocksWithout
<1>4. ASSUME NEW q PROVE Has(q, "lock")' <=> Has(q, "lock") /\ q \notin gone
  <2> DEFINE c == <<q, "lock">>
  <2>1. c \in DOMAIN link' <=> c \in DOMAIN link /\ c \notin lock
    BY <1>1, DomainOfWithout
  <2> QED
    BY <1>2, <2>1 DEF Has
<1>5. ASSUME NEW q \in DOMAIN locks \ gone PROVE LockOf(q)' = LockOf(q)
  <2> DEFINE c == <<q, "lock">>
  <2>1. c \in DOMAIN link /\ c \notin lock
    BY <1>2 DEF LockInv, Has
  <2> HIDE DEF c
  <2>2. link'[c] = link[c]
    BY <1>1, <2>1, OtherRows
  <2> QED
    BY <2>2 DEF LockOf, c
<1>6. \A j \in (DOMAIN locks \ gone) \cap Cluster, g \in Host : g \in LockOf(j)' <=> g \in MappedHosts(hc, j)'
  BY <1>1, <1>5 DEF LockInv, MappedHosts, RowsOf
<1> QED
  BY <1>3, <1>4, <1>5, <1>6, LocksKept

(* A new lock is younger than all others, and a cluster on which another   *)
(* one is found gets none.                                                 *)
LEMMA TakeLockLocks ==
  ASSUME Consistent, LockInv, NEW o \in AdcmObject, TakeLock(o)
  PROVE  LockInv'
<1> DEFINE objects == Targets("lock", o)
           lock == {<<o, "lock">>}
<1>1. /\ o \in Existing /\ o \notin DOMAIN locks /\ LocksOn(link, o) = {}
      /\ locks' = [l \in {o} \cup DOMAIN locks |-> IF l = o THEN DOMAIN locks ELSE locks[l]]
      /\ link' = With(link, lock, objects) /\ hc' = hc
  BY DEF TakeLock
<1>2. \A l \in DOMAIN locks : o \notin LockOf(l)
  BY <1>1 DEF LocksOn, LockOf
<1>3. \A q : <<q, "lock">> \in lock <=> q = o
  OBVIOUS
<1> HIDE DEF lock
<1>4. \A q : Has(q, "lock")' <=> Has(q, "lock") \/ q = o
  BY <1>1, <1>3, DomainOfWith DEF Has
<1>5. ASSUME NEW q \in DOMAIN locks PROVE LockOf(q)' = LockOf(q)
  <2> DEFINE c == <<q, "lock">>
  <2>1. c \in DOMAIN link /\ c \notin lock
    BY <1>1, <1>3 DEF LockInv, Has
  <2> HIDE DEF c
  <2>2. link'[c] = link[c]
    BY <1>1, <2>1, OtherRows
  <2> QED
    BY <2>2 DEF LockOf, c
<1>6. LockOf(o)' = objects
  <2>1. <<o, "lock">> \in lock
    BY <1>3
  <2> QED
    BY <1>1, <2>1 DEF LockOf, With
<1>7. \A q : q \in objects <=> q \in Existing /\ q \in LockTargets(hc, o)
  BY DEF Targets
<1>8. DOMAIN locks' = {o} \cup DOMAIN locks /\ locks'[o] = DOMAIN locks /\ \A q \in DOMAIN locks : locks'[q] = locks[q]
  BY <1>1
<1>9. \A k : MappedHosts(hc, k)' = MappedHosts(hc, k)
  BY <1>1 DEF MappedHosts, RowsOf
<1> HIDE DEF objects
<1>10. \A q : Has(q, "lock")' <=> q \in DOMAIN locks'
  BY <1>4, <1>8 DEF LockInv
<1>11. \A q \in DOMAIN locks' : locks'[q] \subseteq DOMAIN locks' \ {q}
  BY <1>1, <1>8 DEF LockInv
<1>12. ASSUME NEW k \in DOMAIN locks' \cap Cluster
       PROVE  /\ \A q \in Cluster \cup Provider : q \in LockOf(k)' <=> q = k
              /\ \A h \in Host : h \in LockOf(k)' <=> h \in MappedHosts(hc, k)'
              /\ \A q \in DOMAIN locks' \ {k} : k \in LockOf(q)' => q \notin locks'[k] /\ k \in locks'[q]
  <2>1. CASE k = o
    <3>1. \A q \in Cluster : q \in LockTargets(hc, o) <=> q = o
      BY <2>1, ClusterCovers
    <3>2. ASSUME NEW q \in Provider PROVE q \notin LockTargets(hc, o) /\ q # o
      <4>1. LockTargets(hc, o) = ClusterTargets(hc, o)
        BY <2>1, TargetsByType
      <4> QED
        BY <2>1, <4>1, TopologyAssumption DEF ClusterTargets, HostsWith, ComponentsIn, ServicesIn
    <3>3. ASSUME NEW h \in Host PROVE h \in objects <=> h \in MappedHosts(hc, o)
      <4>1. h \in LockTargets(hc, o) <=> \E c \in Component : <<h, c>> \in hc /\ clusterOf[serviceOf[c]] = o
        BY <2>1, ClusterCovers
      <4>2. h \in MappedHosts(hc, o) <=> \E c \in Component : <<h, c>> \in hc /\ clusterOf[serviceOf[c]] = o
        <5>1. \A n \in hc : n = <<n[1], n[2]>> /\ n[2] \in Component
          BY DEF Consistent, Objects, RowInCluster
        <5>2. h \in MappedHosts(hc, o) <=> \E n \in hc : n[1] = h /\ clusterOf[serviceOf[n[2]]] = o
          BY DEF MappedHosts, RowsOf, ComponentCluster
        <5>3. \A c : <<h, c>>[1] = h /\ <<h, c>>[2] = c
          OBVIOUS
        <5> QED
          BY <5>1, <5>2, <5>3
      <4>3. h \in MappedHosts(hc, o) => h \in Existing
        BY MappedAreHosts DEF Consistent, Existing
      <4> QED
        BY <1>7, <4>1, <4>2, <4>3
    <3> QED
      BY <1>1, <1>2, <1>5, <1>6, <1>7, <1>8, <1>9, <2>1, <3>1, <3>2, <3>3
  <2>2. CASE k # o
    <3>1. k \in DOMAIN locks /\ LockOf(k)' = LockOf(k) /\ locks'[k] = locks[k]
      BY <1>5, <1>8, <2>2
    <3>2. o \notin locks[k]
      BY <1>1, <3>1 DEF LockInv
    <3>3. /\ \A q \in Cluster \cup Provider : q \in LockOf(k) <=> q = k
          /\ \A h \in Host : h \in LockOf(k) <=> h \in MappedHosts(hc, k)
          /\ \A q \in DOMAIN locks \ {k} : k \in LockOf(q) => q \notin locks[k] /\ k \in locks[q]
      BY <3>1 DEF LockInv
    <3> QED
      BY <1>5, <1>8, <1>9, <3>1, <3>2, <3>3
  <2> QED
    BY <2>1, <2>2
<1> QED
  BY <1>10, <1>11, <1>12 DEF LockInv

LEMMA LocksStep == Consistent /\ LockInv /\ [Next]_vars => LockInv'
<1> SUFFICES ASSUME Consistent, LockInv, [Next]_vars PROVE LockInv'
  OBVIOUS
<1>1. CASE \E k \in Cluster : AddCluster(k) \/ DeleteCluster(k) \/ SetMapping(k) \/ ChangeMappingByTask(k)
  <2> PICK k \in Cluster : AddCluster(k) \/ DeleteCluster(k) \/ SetMapping(k) \/ ChangeMappingByTask(k)
    BY <1>1
  <2>1. CASE SetMapping(k) \/ ChangeMappingByTask(k)
    <3>1. PICK m \in Mappings(k) : MappingChanged(k, (hc \ RowsOf(hc, k)) \cup m)
      BY <2>1 DEF SetMapping, ChangeMappingByTask
    <3>2. k \in clusters
      BY <3>1, MappedClustersExist
    <3> QED
      BY <3>1, <3>2, MappingLocks
  <2> QED
    BY <2>1, AddClusterLocks, DeleteClusterLocks
<1>2. CASE \E k \in clusters, S \in SUBSET Service : AddServices(k, S)
  BY <1>2, AddServicesLocks
<1>3. CASE \E s \in Service : DeleteService(s) \/ DeleteServiceByTask(s)
  <2> PICK s \in Service : DeleteService(s) \/ DeleteServiceByTask(s)
    BY <1>3
  <2>1. s \in services
    BY DEF DeleteService, DeleteServiceByTask
  <2> QED
    BY <2>1, ServiceGoneLocks
<1>4. CASE \E h \in Host : AddHost(h) \/ RemoveHostFromCluster(h) \/ DeleteHost(h)
  BY <1>4, HostCreatedLocks, RemoveHostLocks, DeleteHostLocks DEF AddHost
<1>5. CASE \E h \in Host, k \in Cluster : CreateHostInCluster(h, k) \/ AddHostToCluster(h, k)
  BY <1>5, HostCreatedLocks, OtherLocks DEF CreateHostInCluster
<1>6. CASE \E o \in AdcmObject :
             \/ SaveConfig(o) \/ SaveGroupConfig(o) \/ SaveConfigByPlugin(o)
             \/ RaiseFlag(o) \/ LowerFlag(o) \/ SetImports(o)
             \/ TakeLock(o) \/ ReleaseLock(o)
  BY <1>6, OtherLocks, TakeLockLocks, ReleaseLockLocks
<1>7. CASE UNCHANGED vars
  BY <1>7, LocksUntouched DEF vars, Has, LockOf
<1> QED
  BY <1>1, <1>2, <1>3, <1>4, <1>5, <1>6, <1>7 DEF Next

(* While a task runs on a cluster its lock is on exactly the hosts its     *)
(* components are mapped to, whichever operations change the mapping, the  *)
(* hosts or the locks of others meanwhile (_update_concerns).              *)
THEOREM ClusterLocksFollow == Spec => []ClusterLockFollowsMapping
<1>1. ASSUME Consistent, LockInv PROVE ClusterLockFollowsMapping
  <2> SUFFICES ASSUME NEW k \in clusters, Has(k, "lock") PROVE LockOf(k) \cap Host = MappedHosts(hc, k)
    BY DEF ClusterLockFollowsMapping, Has, LockOf
  <2>1. k \in DOMAIN locks \cap Cluster
    BY <1>1 DEF LockInv, Consistent, Objects
  <2>2. \A h \in Host : h \in LockOf(k) <=> h \in MappedHosts(hc, k)
    BY <1>1, <2>1 DEF LockInv
  <2>3. MappedHosts(hc, k) \subseteq Host
    BY <1>1, MappedAreHosts DEF Consistent
  <2> QED
    BY <2>2, <2>3
<1> QED
  BY <1>1, ObjectsInit, ToldInit, ToldStep, LocksInit, LocksStep, PTL DEF Spec, Consistent

-----------------------------------------------------------------------------
(* What a concern is linked to *)

(* What an owner is part of, consists of or runs on: the objects its       *)
(* concerns are to reach.                                                  *)
Near(mp, o) ==
  CASE o \in Service -> ServiceTargets(mp, o)
    [] o \in Component -> ComponentTargets(mp, o)
    [] OTHER -> LockTargets(mp, o)

(* Near are the same, by type, or what a component that runs on a host     *)
(* belongs to and the host; and of a provider what its hosts are near to.  *)
LEMMA NearClusters ==
  ASSUME NEW mp, NEW o \in Cluster
  PROVE  /\ Near(mp, o) = LockTargets(mp, o)
         /\ \A q \in Cluster : q \in Near(mp, o) <=> q = o
         /\ \A q \in Service : q \in Near(mp, o) <=> clusterOf[q] = o
         /\ \A q \in Component : q \in Near(mp, o) <=> clusterOf[serviceOf[q]] = o
         /\ \A q \in Host : q \in Near(mp, o)
              <=> \E c \in Component : <<q, c>> \in mp /\ clusterOf[serviceOf[c]] = o
         /\ \A q \in Provider : q \notin LockTargets(mp, o)
<1>1. Near(mp, o) = LockTargets(mp, o)
  BY TypesAreDisjoint DEF Near
<1>2. ASSUME NEW q \in Provider PROVE q \notin LockTargets(mp, o)
  <2>1. LockTargets(mp, o) = ClusterTargets(mp, o)
    BY TargetsByType
  <2> QED
    BY <2>1, TopologyAssumption DEF ClusterTargets, HostsWith, ComponentsIn, ServicesIn
<1> QED
  BY <1>1, <1>2, ClusterCovers

LEMMA NearServices ==
  ASSUME NEW mp, NEW o \in Service
  PROVE  /\ Near(mp, o) \subseteq LockTargets(mp, o)
         /\ \A q \in Cluster : q \in Near(mp, o) <=> q = clusterOf[o]
         /\ \A q \in Service : q \in Near(mp, o) <=> q = o
         /\ \A q \in Component : q \in Near(mp, o) <=> serviceOf[q] = o
         /\ \A q \in Host : q \in Near(mp, o) <=> \E c \in Component : <<q, c>> \in mp /\ serviceOf[c] = o
         /\ \A q \in Provider : q \notin LockTargets(mp, o)
<1>1. Near(mp, o) = ServiceTargets(mp, o) /\ LockTargets(mp, o) = ByHosts(mp, ServiceTargets(mp, o))
  BY TargetsByType, TypesAreDisjoint DEF Near
<1>2. \A q : q \in Near(mp, o)
        <=> \/ q = o
            \/ q = clusterOf[o]
            \/ q \in Component /\ serviceOf[q] = o
            \/ q \in Host /\ \E c \in Component : <<q, c>> \in mp /\ serviceOf[c] = o
  BY <1>1 DEF ServiceTargets, HostsWith, ComponentsIn
<1>3. \A q \in Cluster : q \in Near(mp, o) <=> q = clusterOf[o]
  BY <1>2, TypesAreDisjoint, HierarchyTypes
<1>4. \A q \in Service : q \in Near(mp, o) <=> q = o
  BY <1>2, TypesAreDisjoint, HierarchyTypes
<1>5. \A q \in Component : q \in Near(mp, o) <=> serviceOf[q] = o
  BY <1>2, TypesAreDisjoint, HierarchyTypes
<1>6. \A q \in Host : q \in Near(mp, o) <=> \E c \in Component : <<q, c>> \in mp /\ serviceOf[c] = o
  BY <1>2, TypesAreDisjoint, HierarchyTypes
<1>7. \A q \in Provider : q \notin LockTargets(mp, o)
  BY <1>1, <1>2, TopologyAssumption DEF ByHosts, ComponentsOn, ServicesOf
<1> QED
  BY <1>1, <1>3, <1>4, <1>5, <1>6, <1>7 DEF ByHosts

LEMMA NearComponents ==
  ASSUME NEW mp, NEW o \in Component
  PROVE  /\ Near(mp, o) \subseteq LockTargets(mp, o)
         /\ \A q \in Cluster : q \in Near(mp, o) <=> q = clusterOf[serviceOf[o]]
         /\ \A q \in Service : q \in Near(mp, o) <=> q = serviceOf[o]
         /\ \A q \in Component : q \in Near(mp, o) <=> q = o
         /\ \A q \in Host : q \in Near(mp, o) <=> <<q, o>> \in mp
         /\ \A q \in Provider : q \notin LockTargets(mp, o)
<1>1. Near(mp, o) = ComponentTargets(mp, o) /\ LockTargets(mp, o) = ByHosts(mp, ComponentTargets(mp, o))
  BY TargetsByType, TypesAreDisjoint DEF Near
<1>2. \A q : q \in Near(mp, o)
        <=> q = o \/ q = serviceOf[o] \/ q = clusterOf[serviceOf[o]] \/ (q \in Host /\ <<q, o>> \in mp)
  BY <1>1 DEF ComponentTargets, HostsWith, ComponentCluster
<1>3. \A q \in Cluster : q \in Near(mp, o) <=> q = clusterOf[serviceOf[o]]
  BY <1>2, TypesAreDisjoint, HierarchyTypes
<1>4. \A q \in Service : q \in Near(mp, o) <=> q = serviceOf[o]
  BY <1>2, TypesAreDisjoint, HierarchyTypes
<1>5. \A q \in Component : q \in Near(mp, o) <=> q = o
  BY <1>2, TypesAreDisjoint, HierarchyTypes
<1>6. \A q \in Host : q \in Near(mp, o) <=> <<q, o>> \in mp
  BY <1>2, TypesAreDisjoint, HierarchyTypes
<1>7. ASSUME NEW q \in Provider PROVE q \notin LockTargets(mp, o)
  <2>1. q # o /\ q \notin Host /\ q \notin Component /\ \A c \in Component : serviceOf[c] # q /\ clusterOf[serviceOf[c]] # q
    BY TopologyAssumption
  <2>2. q \notin Near(mp, o)
    BY <1>2, <2>1
  <2> QED
    BY <1>1, <2>1, <2>2 DEF ByHosts, ComponentsOn, ServicesOf
<1> QED
  BY <1>1, <1>3, <1>4, <1>5, <1>6, <1>7 DEF ByHosts

LEMMA NearHosts ==
  ASSUME NEW mp \in Mapping, NEW o \in Host
  PROVE  /\ Near(mp, o) = LockTargets(mp, o)
         /\ \A q \in Cluster : q \in Near(mp, o)
              <=> \E c \in Component : <<o, c>> \in mp /\ clusterOf[serviceOf[c]] = q
         /\ \A q \in Service : q \in Near(mp, o) <=> \E c \in Component : <<o, c>> \in mp /\ serviceOf[c] = q
         /\ \A q \in Component : q \in Near(mp, o) <=> <<o, q>> \in mp
         /\ \A q \in Host : q \in Near(mp, o) <=> q = o
         /\ \A q \in Provider : q \notin LockTargets(mp, o)
<1>1. Near(mp, o) = LockTargets(mp, o)
  BY TypesAreDisjoint DEF Near
<1>2. ASSUME NEW q \in Provider PROVE q \notin LockTargets(mp, o)
  <2>1. LockTargets(mp, o) = HostTargets(mp, o)
    BY TargetsByType
  <2>2. q # o /\ q \notin Component /\ \A c \in Component : serviceOf[c] # q /\ clusterOf[serviceOf[c]] # q
    BY TopologyAssumption
  <2> QED
    BY <2>1, <2>2 DEF HostTargets, ComponentsOn, ServicesOf, ClustersOf, ComponentCluster
<1> QED
  BY <1>1, <1>2, HostCovers

LEMMA NearProvider ==
  ASSUME NEW mp, NEW o \in Provider, NEW q
  PROVE  q \in Near(mp, o)
        <=> \/ q = o
            \/ q \in Host /\ providerOf[q] = o
            \/ \E h \in Host, c \in Component : providerOf[h] = o /\ <<h, c>> \in mp /\ clusterOf[serviceOf[c]] = q
            \/ \E h \in Host, c \in Component : providerOf[h] = o /\ <<h, c>> \in mp /\ serviceOf[c] = q
            \/ q \in Component /\ \E h \in Host : providerOf[h] = o /\ <<h, q>> \in mp
<1>1. Near(mp, o) = ProviderTargets(mp, o)
  BY TargetsByType, TopologyAssumption DEF Near
<1> QED
  BY <1>1 DEF ProviderTargets, ComponentsOn, ClustersOf, ServicesOf, ComponentCluster

LEMMA NearProviderTypes ==
  ASSUME NEW o \in Provider, NEW q
  PROVE  /\ q \in Cluster \cup Service \cup Component \cup Host => q # o
         /\ q \in Cluster \cup Component \cup Host \cup Provider => \A c \in Component : serviceOf[c] # q
         /\ q \in Service \cup Component \cup Host \cup Provider =>
              \A c \in Component : clusterOf[serviceOf[c]] # q
         /\ q \in Provider => q \notin Host /\ q \notin Component
  BY TopologyAssumption

LEMMA ClusterOfProvider ==
  ASSUME NEW mp, NEW o \in Provider, NEW q \in Cluster
  PROVE  q \in Near(mp, o)
           <=> \E h \in Host, c \in Component : providerOf[h] = o /\ <<h, c>> \in mp /\ clusterOf[serviceOf[c]] = q
<1>1. q \in Near(mp, o)
        <=> \/ q = o
            \/ q \in Host /\ providerOf[q] = o
            \/ \E h \in Host, c \in Component : providerOf[h] = o /\ <<h, c>> \in mp /\ clusterOf[serviceOf[c]] = q
            \/ \E h \in Host, c \in Component : providerOf[h] = o /\ <<h, c>> \in mp /\ serviceOf[c] = q
            \/ q \in Component /\ \E h \in Host : providerOf[h] = o /\ <<h, q>> \in mp
  BY NearProvider
<1>2. q # o /\ q \notin Host \cup Component /\ \A c \in Component : serviceOf[c] # q
  BY NearProviderTypes, TypesAreDisjoint
<1> QED
  BY <1>1, <1>2

LEMMA ServiceOfProvider ==
  ASSUME NEW mp, NEW o \in Provider, NEW q \in Service
  PROVE  q \in Near(mp, o)
           <=> \E h \in Host, c \in Component : providerOf[h] = o /\ <<h, c>> \in mp /\ serviceOf[c] = q
<1>1. q \in Near(mp, o)
        <=> \/ q = o
            \/ q \in Host /\ providerOf[q] = o
            \/ \E h \in Host, c \in Component : providerOf[h] = o /\ <<h, c>> \in mp /\ clusterOf[serviceOf[c]] = q
            \/ \E h \in Host, c \in Component : providerOf[h] = o /\ <<h, c>> \in mp /\ serviceOf[c] = q
            \/ q \in Component /\ \E h \in Host : providerOf[h] = o /\ <<h, q>> \in mp
  BY NearProvider
<1>2. q # o /\ q \notin Host \cup Component /\ \A c \in Component : clusterOf[serviceOf[c]] # q
  BY NearProviderTypes, TypesAreDisjoint
<1> QED
  BY <1>1, <1>2

LEMMA ComponentOfProvider ==
  ASSUME NEW mp, NEW o \in Provider, NEW q \in Component
  PROVE  q \in Near(mp, o) <=> \E h \in Host : providerOf[h] = o /\ <<h, q>> \in mp
<1>1. q \in Near(mp, o)
        <=> \/ q = o
            \/ q \in Host /\ providerOf[q] = o
            \/ \E h \in Host, c \in Component : providerOf[h] = o /\ <<h, c>> \in mp /\ clusterOf[serviceOf[c]] = q
            \/ \E h \in Host, c \in Component : providerOf[h] = o /\ <<h, c>> \in mp /\ serviceOf[c] = q
            \/ q \in Component /\ \E h \in Host : providerOf[h] = o /\ <<h, q>> \in mp
  BY NearProvider
<1>2. q # o /\ q \notin Host /\ \A c \in Component : serviceOf[c] # q /\ clusterOf[serviceOf[c]] # q
  BY NearProviderTypes, TypesAreDisjoint
<1> QED
  BY <1>1, <1>2

LEMMA NearProviders ==
  ASSUME NEW mp, NEW o \in Provider
  PROVE  /\ Near(mp, o) = LockTargets(mp, o)
         /\ \A q \in Cluster : q \in Near(mp, o)
              <=> \E h \in Host, c \in Component : providerOf[h] = o /\ <<h, c>> \in mp /\ clusterOf[serviceOf[c]] = q
         /\ \A q \in Service : q \in Near(mp, o)
              <=> \E h \in Host, c \in Component : providerOf[h] = o /\ <<h, c>> \in mp /\ serviceOf[c] = q
         /\ \A q \in Component : q \in Near(mp, o) <=> \E h \in Host : providerOf[h] = o /\ <<h, q>> \in mp
         /\ \A q \in Host : q \in Near(mp, o) <=> providerOf[q] = o
         /\ \A q \in Provider : q \in Near(mp, o) <=> q = o
<1>1. Near(mp, o) = LockTargets(mp, o)
  BY TypesAreDisjoint, TopologyAssumption DEF Near
<1>2. \A q \in Cluster : q \in Near(mp, o)
        <=> \E h \in Host, c \in Component : providerOf[h] = o /\ <<h, c>> \in mp /\ clusterOf[serviceOf[c]] = q
  BY ClusterOfProvider
<1>3. \A q \in Service : q \in Near(mp, o)
        <=> \E h \in Host, c \in Component : providerOf[h] = o /\ <<h, c>> \in mp /\ serviceOf[c] = q
  BY ServiceOfProvider
<1>4. \A q \in Component : q \in Near(mp, o) <=> \E h \in Host : providerOf[h] = o /\ <<h, q>> \in mp
  BY ComponentOfProvider
<1>5. ASSUME NEW q \in Host PROVE q \in Near(mp, o) <=> providerOf[q] = o
  <2>1. q \in Near(mp, o)
          <=> \/ q = o
              \/ q \in Host /\ providerOf[q] = o
              \/ \E h \in Host, c \in Component : providerOf[h] = o /\ <<h, c>> \in mp /\ clusterOf[serviceOf[c]] = q
              \/ \E h \in Host, c \in Component : providerOf[h] = o /\ <<h, c>> \in mp /\ serviceOf[c] = q
              \/ q \in Component /\ \E h \in Host : providerOf[h] = o /\ <<h, q>> \in mp
    BY NearProvider
  <2>2. q # o /\ q \notin Component /\ \A c \in Component : serviceOf[c] # q /\ clusterOf[serviceOf[c]] # q
    BY NearProviderTypes, TypesAreDisjoint
  <2> QED
    BY <2>1, <2>2
<1>6. ASSUME NEW q \in Provider PROVE q \in Near(mp, o) <=> q = o
  <2>1. q \in Near(mp, o)
          <=> \/ q = o
              \/ q \in Host /\ providerOf[q] = o
              \/ \E h \in Host, c \in Component : providerOf[h] = o /\ <<h, c>> \in mp /\ clusterOf[serviceOf[c]] = q
              \/ \E h \in Host, c \in Component : providerOf[h] = o /\ <<h, c>> \in mp /\ serviceOf[c] = q
              \/ q \in Component /\ \E h \in Host : providerOf[h] = o /\ <<h, q>> \in mp
    BY NearProvider
  <2>2. q \notin Host \cup Component /\ \A c \in Component : serviceOf[c] # q /\ clusterOf[serviceOf[c]] # q
    BY NearProviderTypes, TypesAreDisjoint
  <2> QED
    BY <2>1, <2>2
<1> QED
  BY <1>1, <1>2, <1>3, <1>4, <1>5, <1>6

LEMMA NearIsCovered ==
  ASSUME NEW mp \in Mapping, NEW o \in AdcmObject
  PROVE  Near(mp, o) \subseteq LockTargets(mp, o)
  BY NearClusters, NearServices, NearComponents, NearHosts, NearProviders DEF AdcmObject

(* An object that is neither the cluster k nor part of it.                 *)
Elsewhere(q, k) ==
  /\ q # k
  /\ q \in Service => clusterOf[q] # k
  /\ q \in Component => clusterOf[serviceOf[q]] # k

(* What the mapping of one cluster is says nothing of other clusters.      *)
LEMMA FarStaysCovered ==
  ASSUME NEW m \in Mapping, NEW mp \in Mapping, NEW k, NEW o \in AdcmObject, NEW q \in AdcmObject,
         \A h \in Host, c \in Component : clusterOf[serviceOf[c]] # k /\ <<h, c>> \in m => <<h, c>> \in mp,
         Elsewhere(q, k),
         Elsewhere(o, k) \/ (q \in Host => \A c \in Component : <<q, c>> \in m => clusterOf[serviceOf[c]] # k)
  PROVE  /\ q \in Near(m, o) => q \in Near(mp, o)
         /\ q \in LockTargets(m, o) => q \in LockTargets(mp, o)
<1>1. /\ q \in Cluster \cup Service \cup Component \cup Host \cup Provider
      /\ o \in Cluster \cup Service \cup Component \cup Host \cup Provider
  BY DEF AdcmObject
<1>2. \A h \in Host, c, d \in Component :
         <<h, c>> \in m /\ <<h, d>> \in m => clusterOf[serviceOf[c]] = clusterOf[serviceOf[d]]
  <2>1. ASSUME NEW h \in Host, NEW c \in Component, NEW d \in Component, <<h, c>> \in m, <<h, d>> \in m
        PROVE  clusterOf[serviceOf[c]] = clusterOf[serviceOf[d]]
    <3>1. <<h, c>>[1] = <<h, d>>[1] /\ <<h, c>>[2] = c /\ <<h, d>>[2] = d
      OBVIOUS
    <3>2. \A n, l \in m : n[1] = l[1] => ComponentCluster(n[2]) = ComponentCluster(l[2])
      BY DEF Mapping
    <3> QED
      BY <2>1, <3>1, <3>2 DEF ComponentCluster
  <2> QED
    BY <2>1
<1>3. ASSUME NEW c \in Component, NEW d \in Component, Shares(m, c, d), clusterOf[serviceOf[d]] # k
      PROVE  Shares(mp, c, d)
  BY <1>2, <1>3 DEF Shares
<1>4. CASE q \in Provider
  BY <1>1, <1>4, NearClusters, NearServices, NearComponents, NearHosts, NearProviders, NearIsCovered
<1>5. CASE o \in Cluster
  <2>1. CASE q \in Cluster \cup Service \cup Component
    BY <1>5, <2>1, NearClusters
  <2>2. CASE q \in Host
    BY <1>5, <2>2, NearClusters DEF Elsewhere
  <2> QED
    BY <1>1, <1>4, <2>1, <2>2
<1>6. CASE o \in Service
  <2>1. CASE q \in Cluster
    BY <1>6, <2>1, NearServices, ServiceCovers
  <2>2. CASE q \in Service
    BY <1>3, <1>6, <2>2, NearServices, ServiceCovers DEF Elsewhere
  <2>3. CASE q \in Component
    BY <1>3, <1>6, <2>3, NearServices, ServiceCovers DEF Elsewhere
  <2>4. CASE q \in Host
    BY <1>6, <2>4, NearServices, ServiceCovers DEF Elsewhere
  <2> QED
    BY <1>1, <1>4, <2>1, <2>2, <2>3, <2>4
<1>7. CASE o \in Component
  <2>1. CASE q \in Cluster
    BY <1>7, <2>1, NearComponents, ComponentCovers
  <2>2. CASE q \in Service
    BY <1>3, <1>7, <2>2, NearComponents, ComponentCovers DEF Elsewhere
  <2>3. CASE q \in Component
    BY <1>3, <1>7, <2>3, NearComponents, ComponentCovers DEF Elsewhere
  <2>4. CASE q \in Host
    BY <1>7, <2>4, NearComponents, ComponentCovers DEF Elsewhere
  <2> QED
    BY <1>1, <1>4, <2>1, <2>2, <2>3, <2>4
<1>8. CASE o \in Host
  <2>1. CASE q \in Cluster
    BY <1>8, <2>1, NearHosts DEF Elsewhere
  <2>2. CASE q \in Service
    BY <1>8, <2>2, NearHosts DEF Elsewhere
  <2>3. CASE q \in Component
    <3>1. clusterOf[serviceOf[q]] # k
      BY <2>3 DEF Elsewhere
    <3>2. \A h \in Host : <<h, q>> \in m => <<h, q>> \in mp
      BY <2>3, <3>1
    <3>3. /\ q \in Near(m, o) <=> <<o, q>> \in m
          /\ q \in Near(mp, o) <=> <<o, q>> \in mp
      BY <1>8, <2>3, NearHosts
    <3>4. Near(m, o) = LockTargets(m, o) /\ Near(mp, o) = LockTargets(mp, o)
      BY <1>8, NearHosts
    <3> QED
      BY <1>8, <3>2, <3>3, <3>4
  <2>4. CASE q \in Host
    BY <1>8, <2>4, NearHosts
  <2> QED
    BY <1>1, <1>4, <2>1, <2>2, <2>3, <2>4
<1>9. CASE o \in Provider
  <2>1. CASE q \in Cluster
    BY <1>9, <2>1, NearProviders DEF Elsewhere
  <2>2. CASE q \in Service
    BY <1>9, <2>2, NearProviders DEF Elsewhere
  <2>3. CASE q \in Component
    <3>1. clusterOf[serviceOf[q]] # k
      BY <2>3 DEF Elsewhere
    <3>2. \A h \in Host : <<h, q>> \in m => <<h, q>> \in mp
      BY <2>3, <3>1
    <3> QED
      BY <1>9, <2>3, <3>2, NearProviders
  <2>4. CASE q \in Host
    BY <1>9, <2>4, NearProviders
  <2> QED
    BY <1>1, <1>4, <2>1, <2>2, <2>3, <2>4
<1> QED
  BY <1>1, <1>5, <1>6, <1>7, <1>8, <1>9

LEMMA FarStays ==
  ASSUME NEW m \in Mapping, NEW mp \in Mapping, NEW k, NEW o \in AdcmObject, NEW q \in AdcmObject,
         \A h \in Host, c \in Component : clusterOf[serviceOf[c]] # k => (<<h, c>> \in m <=> <<h, c>> \in mp),
         Elsewhere(q, k),
         \/ Elsewhere(o, k)
         \/ q \in Host => \A c \in Component : <<q, c>> \in m \cup mp => clusterOf[serviceOf[c]] # k
  PROVE  /\ q \in Near(m, o) <=> q \in Near(mp, o)
         /\ q \in LockTargets(m, o) <=> q \in LockTargets(mp, o)
<1>1. \/ Elsewhere(o, k)
      \/ /\ q \in Host => \A c \in Component : <<q, c>> \in m => clusterOf[serviceOf[c]] # k
         /\ q \in Host => \A c \in Component : <<q, c>> \in mp => clusterOf[serviceOf[c]] # k
  OBVIOUS
<1>2. q \in Near(m, o) => q \in Near(mp, o)
  BY <1>1, FarStaysCovered
<1>3. q \in LockTargets(m, o) => q \in LockTargets(mp, o)
  BY <1>1, FarStaysCovered
<1>4. q \in Near(mp, o) => q \in Near(m, o)
  BY <1>1, FarStaysCovered
<1>5. q \in LockTargets(mp, o) => q \in LockTargets(m, o)
  BY <1>1, FarStaysCovered
<1> QED
  BY <1>2, <1>3, <1>4, <1>5

-----------------------------------------------------------------------------
(* Redistributed links, object by object                                   *)

(* A concern of o comes with the component d: it is the component's own,   *)
(* or of one of the hosts that it runs on, or of their providers.          *)
ComesWith(m, o, d) == o = d \/ \E h \in Host : <<h, d>> \in m /\ (o = h \/ o = providerOf[h])

(* The concerns a component and a service come with.                       *)
OfComponent(lk, m, d) == Own(lk, d) \cup OwnOfHosts(lk, HostsWith(m, {d}))
OfService(lk, m, s) == Own(lk, s) \cup UNION {OfComponent(lk, m, d) : d \in ComponentsIn({s})}

(* What an object is linked to, element by element.                        *)
LEMMA OwnElement ==
  ASSUME NEW lk, NEW c \in DOMAIN lk, c[2] # "lock", NEW x
  PROVE  c \in Own(lk, x) <=> c[1] = x
  BY DEF Own

LEMMA ComponentElement ==
  ASSUME NEW lk, NEW m, NEW c \in DOMAIN lk, c[2] # "lock", NEW d
  PROVE  c \in OfComponent(lk, m, d) <=> ComesWith(m, c[1], d)
<1>1. \A x : c \in Own(lk, x) <=> c[1] = x
  BY OwnElement
<1>2. HostsWith(m, {d}) = {h \in Host : <<h, d>> \in m}
  BY DEF HostsWith
<1>3. \A hs : c \in OwnOfHosts(lk, hs) <=> \E h \in hs : c[1] = h \/ c[1] = providerOf[h]
  BY <1>1 DEF OwnOfHosts
<1> QED
  BY <1>1, <1>2, <1>3 DEF ComesWith, OfComponent

LEMMA LinksOfComponent ==
  ASSUME NEW lk, NEW m, NEW k, NEW svcs, NEW c \in DOMAIN lk, c[2] # "lock", NEW q \in Component
  PROVE  c \in LinksOf(lk, m, k, svcs, q) <=> c[1] = k \/ c[1] = serviceOf[q] \/ ComesWith(m, c[1], q)
<1>1. LinksOf(lk, m, k, svcs, q) = Own(lk, k) \cup Own(lk, serviceOf[q]) \cup OfComponent(lk, m, q)
  BY TypesAreDisjoint DEF LinksOf, OfComponent
<1>2. c \in OfComponent(lk, m, q) <=> ComesWith(m, c[1], q)
  BY ComponentElement
<1>3. \A x : c \in Own(lk, x) <=> c[1] = x
  BY OwnElement
<1> QED
  BY <1>1, <1>2, <1>3

LEMMA ServiceElement ==
  ASSUME NEW lk, NEW m, NEW c \in DOMAIN lk, c[2] # "lock", NEW s
  PROVE  c \in OfService(lk, m, s) <=> c[1] = s \/ \E d \in Component : serviceOf[d] = s /\ ComesWith(m, c[1], d)
<1>1. \A d : c \in OfComponent(lk, m, d) <=> ComesWith(m, c[1], d)
  BY ComponentElement
<1>2. ComponentsIn({s}) = {d \in Component : serviceOf[d] = s}
  BY DEF ComponentsIn
<1>3. c \in Own(lk, s) <=> c[1] = s
  BY OwnElement
<1>4. c \in OfService(lk, m, s) <=> c \in Own(lk, s) \/ \E d \in ComponentsIn({s}) : c \in OfComponent(lk, m, d)
  BY DEF OfService
<1> QED
  BY <1>1, <1>2, <1>3, <1>4

LEMMA LinksOfService ==
  ASSUME NEW lk, NEW m, NEW k, NEW svcs, NEW c \in DOMAIN lk, c[2] # "lock", NEW q \in Service
  PROVE  c \in LinksOf(lk, m, k, svcs, q)
           <=> c[1] = k \/ c[1] = q \/ \E d \in Component : serviceOf[d] = q /\ ComesWith(m, c[1], d)
<1>1. LinksOf(lk, m, k, svcs, q) = Own(lk, k) \cup OfService(lk, m, q)
  BY TypesAreDisjoint DEF LinksOf, OfService, OfComponent
<1>2. c \in OfService(lk, m, q) <=> c[1] = q \/ \E d \in Component : serviceOf[d] = q /\ ComesWith(m, c[1], d)
  BY ServiceElement
<1> QED
  BY <1>1, <1>2, OwnElement

LEMMA LinksOfCluster ==
  ASSUME NEW lk, NEW m, NEW k, NEW svcs, NEW c \in DOMAIN lk, c[2] # "lock", NEW q \in Cluster
  PROVE  c \in LinksOf(lk, m, k, svcs, q)
           <=> c[1] = k \/ \E s \in svcs : c[1] = s \/ \E d \in Component : serviceOf[d] = s /\ ComesWith(m, c[1], d)
<1>1. LinksOf(lk, m, k, svcs, q) = Own(lk, k) \cup UNION {OfService(lk, m, s) : s \in svcs}
  BY TypesAreDisjoint DEF LinksOf, OfService, OfComponent
<1>2. c \in LinksOf(lk, m, k, svcs, q) <=> c \in Own(lk, k) \/ \E s \in svcs : c \in OfService(lk, m, s)
  BY <1>1
<1>3. \A s : c \in OfService(lk, m, s)
               <=> c[1] = s \/ \E d \in Component : serviceOf[d] = s /\ ComesWith(m, c[1], d)
  BY ServiceElement
<1> QED
  BY <1>2, <1>3, OwnElement

LEMMA LinksOfHost ==
  ASSUME NEW lk, NEW m, NEW k, NEW svcs, NEW c \in DOMAIN lk, c[2] # "lock", NEW q \in Host
  PROVE  c \in LinksOf(lk, m, k, svcs, q)
           <=> \E d \in Component : <<q, d>> \in m /\ (c[1] = k \/ c[1] = serviceOf[d] \/ c[1] = d)
<1> DEFINE OfRow(d) == Own(lk, k) \cup Own(lk, serviceOf[d]) \cup Own(lk, d)
<1>1. LinksOf(lk, m, k, svcs, q) = UNION {OfRow(d) : d \in ComponentsOn(m, {q})}
  BY TypesAreDisjoint DEF LinksOf
<1>2. ComponentsOn(m, {q}) = {d \in Component : <<q, d>> \in m}
  BY DEF ComponentsOn
<1>3. \A d : c \in OfRow(d) <=> c[1] = k \/ c[1] = serviceOf[d] \/ c[1] = d
  BY OwnElement
<1> HIDE DEF OfRow
<1>4. c \in LinksOf(lk, m, k, svcs, q) <=> \E d \in ComponentsOn(m, {q}) : c \in OfRow(d)
  BY <1>1
<1> QED
  BY <1>2, <1>3, <1>4

(* The cluster k with the services svcs: the hosts there are those with    *)
(* rows of its components only.                                            *)
InCluster(m, k, svcs, q) ==
  \/ q = k \/ q \in svcs \/ q \in ComponentsIn(svcs)
  \/ q \in Host /\ \A d \in Component : <<q, d>> \in m => serviceOf[d] \in svcs

(* The services svcs are all the services of k that have components mapped *)
(* or own concerns.                                                        *)
MappedInServices(m, k, svcs) ==
  \A h \in Host, d \in Component : <<h, d>> \in m /\ clusterOf[serviceOf[d]] = k => serviceOf[d] \in svcs

OwnerInServices(o, k, svcs) ==
  /\ o \in Service /\ clusterOf[o] = k => o \in svcs
  /\ o \in Component /\ clusterOf[serviceOf[o]] = k => serviceOf[o] \in svcs

(* Recomputing the links of an object gives the concerns of all it is near *)
(* to; on hosts those of hosts and providers are not looked at.            *)
LEMMA LinksOfNear ==
  ASSUME NEW lk, NEW m \in Mapping, NEW k \in Cluster, NEW svcs \in SUBSET ServicesIn(k),
         NEW c \in DOMAIN lk, c[2] # "lock", c[1] \in AdcmObject,
         MappedInServices(m, k, svcs), OwnerInServices(c[1], k, svcs),
         NEW q, InCluster(m, k, svcs, q), q \in Host => c[1] \notin Host \cup Provider
  PROVE  c \in LinksOf(lk, m, k, svcs, q) <=> q \in Near(m, c[1])
<1> PICK o : o = c[1]
  OBVIOUS
<1> SUFFICES c \in LinksOf(lk, m, k, svcs, q) <=> q \in Near(m, o)
  OBVIOUS
<1>1. /\ o \in Service /\ clusterOf[o] = k => o \in svcs
      /\ o \in Component /\ clusterOf[serviceOf[o]] = k => serviceOf[o] \in svcs
      /\ q \in Host => o \notin Host \cup Provider
      /\ o \in Cluster \cup Service \cup Component \cup Host \cup Provider
  BY DEF AdcmObject, OwnerInServices
<1>2. \A s \in svcs : s \in Service /\ clusterOf[s] = k
  BY DEF ServicesIn
<1>3. /\ o # k => o \notin svcs \/ o \in Service
      /\ o \notin Cluster => o # k
      /\ o \notin Service => o \notin svcs /\ \A d \in Component : serviceOf[d] # o
      /\ o \notin Component => \A d \in Component : d # o
      /\ o \in Cluster => o \notin Service \cup Component \cup Host \cup Provider
      /\ o \in Service => o \notin Cluster \cup Component \cup Host \cup Provider
      /\ o \in Component => o \notin Cluster \cup Service \cup Host \cup Provider
      /\ o \in Host => o \notin Cluster \cup Service \cup Component \cup Provider
      /\ o \in Provider => o \notin Cluster \cup Service \cup Component \cup Host
  BY <1>2, TopologyAssumption
<1>4. \A h \in Host : providerOf[h] \in Provider
  BY TopologyAssumption
<1>5. /\ o \in Cluster \cup Service => \A d \in Component : ~ComesWith(m, o, d)
      /\ o \in Component => \A d \in Component : ComesWith(m, o, d) <=> o = d
      /\ o \in Host => \A d \in Component : ComesWith(m, o, d) <=> <<o, d>> \in m
      /\ o \in Provider => \A d \in Component : ComesWith(m, o, d) <=> \E h \in Host : providerOf[h] = o /\ <<h, d>> \in m
  BY <1>3, <1>4 DEF ComesWith
<1>6. CASE q \in Component /\ serviceOf[q] \in svcs
  <2>0. c \in LinksOf(lk, m, k, svcs, q) <=> o = k \/ o = serviceOf[q] \/ ComesWith(m, o, q)
    BY <1>6, LinksOfComponent
  <2>1. CASE o \in Cluster
    <3>1. q \in Near(m, o) <=> clusterOf[serviceOf[q]] = o
      BY <1>6, <2>1, NearClusters
    <3> QED
      BY <2>0, <1>1, <1>2, <1>3, <1>5, <1>6, <2>1, <3>1
  <2>2. CASE o \in Service
    <3>1. q \in Near(m, o) <=> serviceOf[q] = o
      BY <1>6, <2>2, NearServices
    <3> QED
      BY <2>0, <1>1, <1>2, <1>3, <1>5, <1>6, <2>2, <3>1
  <2>3. CASE o \in Component
    <3>1. q \in Near(m, o) <=> q = o
      BY <1>6, <2>3, NearComponents
    <3> QED
      BY <2>0, <1>1, <1>2, <1>3, <1>5, <1>6, <2>3, <3>1
  <2>4. CASE o \in Host
    <3>1. q \in Near(m, o) <=> <<o, q>> \in m
      BY <1>6, <2>4, NearHosts
    <3> QED
      BY <2>0, <1>1, <1>2, <1>3, <1>5, <1>6, <2>4, <3>1
  <2>5. CASE o \in Provider
    <3>1. q \in Near(m, o) <=> \E h \in Host : providerOf[h] = o /\ <<h, q>> \in m
      BY <1>6, <2>5, NearProviders
    <3> QED
      BY <2>0, <1>1, <1>2, <1>3, <1>5, <1>6, <2>5, <3>1
  <2> QED
    BY <1>1, <1>6, <2>1, <2>2, <2>3, <2>4, <2>5
<1>7. CASE q \in Service /\ q \in svcs
  <2>0. c \in LinksOf(lk, m, k, svcs, q) <=> o = k \/ o = q \/ \E d \in Component : serviceOf[d] = q /\ ComesWith(m, o, d)
    BY <1>7, LinksOfService
  <2>1. CASE o \in Cluster
    <3>1. q \in Near(m, o) <=> clusterOf[q] = o
      BY <1>7, <2>1, NearClusters
    <3> QED
      BY <2>0, <1>1, <1>2, <1>3, <1>5, <1>7, <2>1, <3>1
  <2>2. CASE o \in Service
    <3>1. q \in Near(m, o) <=> q = o
      BY <1>7, <2>2, NearServices
    <3> QED
      BY <2>0, <1>1, <1>2, <1>3, <1>5, <1>7, <2>2, <3>1
  <2>3. CASE o \in Component
    <3>1. q \in Near(m, o) <=> q = serviceOf[o]
      BY <1>7, <2>3, NearComponents
    <3> QED
      BY <2>0, <1>1, <1>2, <1>3, <1>5, <1>7, <2>3, <3>1
  <2>4. CASE o \in Host
    <3>1. q \in Near(m, o) <=> \E d \in Component : <<o, d>> \in m /\ serviceOf[d] = q
      <4>1. q \in Service
        BY <1>7
      <4>2. ASSUME q \in Near(m, o)
            PROVE  \E d \in Component : <<o, d>> \in m /\ serviceOf[d] = q
        BY <2>4, NearHosts, <4>1, <4>2
      <4>3. ASSUME \E d \in Component : <<o, d>> \in m /\ serviceOf[d] = q
            PROVE  q \in Near(m, o)
        BY <2>4, NearHosts, <4>1, <4>3
      <4> QED
        BY <4>2, <4>3
    <3> QED
      BY <2>0, <1>1, <1>2, <1>3, <1>5, <1>7, <2>4, <3>1
  <2>5. CASE o \in Provider
    <3>1. q \in Near(m, o) <=> \E h \in Host, d \in Component : providerOf[h] = o /\ <<h, d>> \in m /\ serviceOf[d] = q
      <4>1. q \in Service
        BY <1>7
      <4>2. ASSUME q \in Near(m, o)
            PROVE  \E h \in Host, d \in Component : providerOf[h] = o /\ <<h, d>> \in m /\ serviceOf[d] = q
        BY <2>5, ServiceOfProvider, <4>1, <4>2
      <4>3. ASSUME \E h \in Host, d \in Component : providerOf[h] = o /\ <<h, d>> \in m /\ serviceOf[d] = q
            PROVE  q \in Near(m, o)
        BY <2>5, ServiceOfProvider, <4>1, <4>3
      <4> QED
        BY <4>2, <4>3
    <3> QED
      BY <2>0, <1>1, <1>2, <1>3, <1>5, <1>7, <2>5, <3>1
  <2> QED
    BY <1>1, <1>7, <2>1, <2>2, <2>3, <2>4, <2>5
<1>8. CASE q \in Cluster /\ q = k
  <2>0. c \in LinksOf(lk, m, k, svcs, q) <=> o = k \/ \E s \in svcs : o = s \/ \E d \in Component : serviceOf[d] = s /\ ComesWith(m, o, d)
    BY <1>8, LinksOfCluster
  <2>1. CASE o \in Cluster
    <3>1. q \in Near(m, o) <=> q = o
      BY <1>8, <2>1, NearClusters
    <3> QED
      BY <2>0, <1>1, <1>2, <1>3, <1>5, <1>8, <2>1, <3>1
  <2>2. CASE o \in Service
    <3>1. q \in Near(m, o) <=> q = clusterOf[o]
      BY <1>8, <2>2, NearServices
    <3> QED
      BY <2>0, <1>1, <1>2, <1>3, <1>5, <1>8, <2>2, <3>1
  <2>3. CASE o \in Component
    <3>1. q \in Near(m, o) <=> q = clusterOf[serviceOf[o]]
      BY <1>8, <2>3, NearComponents
    <3> QED
      BY <2>0, <1>1, <1>2, <1>3, <1>5, <1>8, <2>3, <3>1
  <2>4. CASE o \in Host
    <3>1. q \in Near(m, o) <=> \E d \in Component : <<o, d>> \in m /\ clusterOf[serviceOf[d]] = q
      BY <1>8, <2>4, NearHosts
    <3> QED
      BY <2>0, <1>1, <1>2, <1>3, <1>5, <1>8, <2>4, <3>1 DEF MappedInServices
  <2>5. CASE o \in Provider
    <3>1. q \in Near(m, o) <=> \E h \in Host, d \in Component : providerOf[h] = o /\ <<h, d>> \in m /\ clusterOf[serviceOf[d]] = q
      <4>1. q \in Cluster
        BY <1>8
      <4>2. ASSUME q \in Near(m, o)
            PROVE  \E h \in Host, d \in Component : providerOf[h] = o /\ <<h, d>> \in m /\ clusterOf[serviceOf[d]] = q
        BY <2>5, ClusterOfProvider, <4>1, <4>2
      <4>3. ASSUME \E h \in Host, d \in Component : providerOf[h] = o /\ <<h, d>> \in m /\ clusterOf[serviceOf[d]] = q
            PROVE  q \in Near(m, o)
        BY <2>5, ClusterOfProvider, <4>1, <4>3
      <4> QED
        BY <4>2, <4>3
    <3> QED
      BY <2>0, <1>1, <1>2, <1>3, <1>5, <1>8, <2>5, <3>1 DEF MappedInServices
  <2> QED
    BY <1>1, <1>8, <2>1, <2>2, <2>3, <2>4, <2>5
<1>9. CASE q \in Host /\ \A d \in Component : <<q, d>> \in m => serviceOf[d] \in svcs
  <2>0. c \in LinksOf(lk, m, k, svcs, q) <=> \E d \in Component : <<q, d>> \in m /\ (o = k \/ o = serviceOf[d] \/ o = d)
    <3>1. c \in LinksOf(lk, m, k, svcs, q)
            <=> \E d \in Component : <<q, d>> \in m /\ (c[1] = k \/ c[1] = serviceOf[d] \/ c[1] = d)
      <4>1. q \in Host
        BY <1>9
      <4>2. ASSUME c \in LinksOf(lk, m, k, svcs, q)
            PROVE  \E d \in Component : <<q, d>> \in m /\ (c[1] = k \/ c[1] = serviceOf[d] \/ c[1] = d)
        BY LinksOfHost, <4>1, <4>2, SMTT(60)
      <4>3. ASSUME \E d \in Component : <<q, d>> \in m /\ (c[1] = k \/ c[1] = serviceOf[d] \/ c[1] = d)
            PROVE  c \in LinksOf(lk, m, k, svcs, q)
        BY LinksOfHost, <4>1, <4>3
      <4> QED
        BY <4>2, <4>3
    <3> QED
      BY <3>1
  <2>1. CASE o \in Cluster
    <3>1. q \in Near(m, o) <=> \E d \in Component : <<q, d>> \in m /\ clusterOf[serviceOf[d]] = o
      BY <1>9, <2>1, NearClusters
    <3> QED
      BY <2>0, <1>1, <1>2, <1>3, <1>5, <1>9, <2>1, <3>1
  <2>2. CASE o \in Service
    <3>1. q \in Near(m, o) <=> \E d \in Component : <<q, d>> \in m /\ serviceOf[d] = o
      BY <1>9, <2>2, NearServices
    <3> QED
      BY <2>0, <1>1, <1>2, <1>3, <1>5, <1>9, <2>2, <3>1
  <2>3. CASE o \in Component
    <3>1. q \in Near(m, o) <=> <<q, o>> \in m
      BY <1>9, <2>3, NearComponents
    <3> QED
      BY <2>0, <1>1, <1>2, <1>3, <1>5, <1>9, <2>3, <3>1
  <2> QED
    BY <1>1, <1>9, <2>1, <2>2, <2>3
<1> QED
  BY <1>2, <1>6, <1>7, <1>8, <1>9 DEF InCluster, ComponentsIn

(* The cluster k with its services svcs and its hosts.                     *)
OfTheCluster(q, k, svcs) == q = k \/ q \in svcs \/ q \in ComponentsIn(svcs) \/ q \in HostsOfCluster(k)

(* Whose concerns may be linked to objects of the cluster.                 *)
RelatedToCluster(o, k) ==
  \/ o = k
  \/ o \in Service /\ clusterOf[o] = k
  \/ o \in Component /\ clusterOf[serviceOf[o]] = k
  \/ o \in HostsOfCluster(k)
  \/ \E h \in HostsOfCluster(k) : providerOf[h] = o

(* Hosts of the mapping are where their components are.                    *)
RowsInClusters(mp) == \A h \in Host, d \in Component : <<h, d>> \in mp => h \in HostsOfCluster(clusterOf[serviceOf[d]])

LEMMA ProviderInCluster ==
  ASSUME NEW mp, RowsInClusters(mp), NEW o \in Provider, NEW q \in Cluster, q \in Near(mp, o)
  PROVE  \E h \in HostsOfCluster(q) : providerOf[h] = o
<1>1. \/ q = o
      \/ q \in Host /\ providerOf[q] = o
      \/ \E h \in Host, c \in Component : providerOf[h] = o /\ <<h, c>> \in mp /\ clusterOf[serviceOf[c]] = q
      \/ \E h \in Host, c \in Component : providerOf[h] = o /\ <<h, c>> \in mp /\ serviceOf[c] = q
      \/ q \in Component /\ \E h \in Host : providerOf[h] = o /\ <<h, q>> \in mp
  BY NearProvider
<1>2. q # o /\ q \notin Host \cup Component /\ \A c \in Component : serviceOf[c] # q
  BY NearProviderTypes, TypesAreDisjoint
<1>3. PICK h \in Host, c \in Component : providerOf[h] = o /\ <<h, c>> \in mp /\ clusterOf[serviceOf[c]] = q
  BY <1>1, <1>2
<1> QED
  BY <1>3 DEF RowsInClusters

LEMMA RelatedCovers ==
  ASSUME NEW mp \in Mapping, RowsInClusters(mp), NEW k \in Cluster, NEW o \in AdcmObject, NEW q \in AdcmObject,
         ~Elsewhere(q, k) \/ q \in HostsOfCluster(k) \cap Host, q \in LockTargets(mp, o)
  PROVE  RelatedToCluster(o, k)
<1>1. o \in Cluster \cup Service \cup Component \cup Host \cup Provider
  BY DEF AdcmObject
<1>2. \A h \in Host, d \in Component : <<h, d>> \in mp => h \in HostsOfCluster(clusterOf[serviceOf[d]])
  BY DEF RowsInClusters
<1>3. \A h, i, j : h \in HostsOfCluster(i) /\ h \in HostsOfCluster(j) => i = j
  BY DEF HostsOfCluster
<1>4. \A h \in Host, c, d \in Component :
         <<h, c>> \in mp /\ <<h, d>> \in mp => clusterOf[serviceOf[c]] = clusterOf[serviceOf[d]]
  BY <1>2, <1>3
<1>5. \A c, d \in Component : Shares(mp, c, d) => clusterOf[serviceOf[c]] = clusterOf[serviceOf[d]]
  BY <1>4 DEF Shares
<1>6. \/ q = k /\ q \in Cluster
      \/ q \in Service /\ clusterOf[q] = k
      \/ q \in Component /\ clusterOf[serviceOf[q]] = k
      \/ q \in Host /\ q \in HostsOfCluster(k)
  BY DEF Elsewhere
<1>7. CASE o \in Cluster
  <2>1. CASE q = k /\ q \in Cluster
    BY <1>2, <1>3, <1>5, <1>7, <2>1, NearClusters DEF RelatedToCluster
  <2>2. CASE q \in Service /\ clusterOf[q] = k
    BY <1>2, <1>3, <1>5, <1>7, <2>2, NearClusters DEF RelatedToCluster
  <2>3. CASE q \in Component /\ clusterOf[serviceOf[q]] = k
    BY <1>2, <1>3, <1>5, <1>7, <2>3, NearClusters DEF RelatedToCluster
  <2>4. CASE q \in Host /\ q \in HostsOfCluster(k)
    <3>1. \E d \in Component : <<q, d>> \in mp /\ clusterOf[serviceOf[d]] = o
      BY <1>7, <2>4, NearClusters
    <3> QED
      BY <1>2, <1>3, <1>7, <2>4, <3>1 DEF RelatedToCluster
  <2> QED
    BY <1>6, <2>1, <2>2, <2>3, <2>4
<1>8. CASE o \in Service
  <2>1. CASE q = k /\ q \in Cluster
    BY <1>2, <1>3, <1>5, <1>8, <2>1, NearServices, ServiceCovers DEF RelatedToCluster
  <2>2. CASE q \in Service /\ clusterOf[q] = k
    BY <1>2, <1>3, <1>5, <1>8, <2>2, NearServices, ServiceCovers DEF RelatedToCluster
  <2>3. CASE q \in Component /\ clusterOf[serviceOf[q]] = k
    BY <1>2, <1>3, <1>5, <1>8, <2>3, NearServices, ServiceCovers DEF RelatedToCluster
  <2>4. CASE q \in Host /\ q \in HostsOfCluster(k)
    <3>1. \E d \in Component : <<q, d>> \in mp /\ serviceOf[d] = o
      BY <1>8, <2>4, ServiceCovers
    <3> QED
      BY <1>2, <1>3, <1>8, <2>4, <3>1 DEF RelatedToCluster
  <2> QED
    BY <1>6, <2>1, <2>2, <2>3, <2>4
<1>9. CASE o \in Component
  <2>1. CASE q = k /\ q \in Cluster
    BY <1>2, <1>3, <1>5, <1>9, <2>1, NearComponents, ComponentCovers DEF RelatedToCluster
  <2>2. CASE q \in Service /\ clusterOf[q] = k
    BY <1>2, <1>3, <1>5, <1>9, <2>2, NearComponents, ComponentCovers DEF RelatedToCluster
  <2>3. CASE q \in Component /\ clusterOf[serviceOf[q]] = k
    BY <1>2, <1>3, <1>5, <1>9, <2>3, NearComponents, ComponentCovers DEF RelatedToCluster
  <2>4. CASE q \in Host /\ q \in HostsOfCluster(k)
    <3>1. <<q, o>> \in mp
      BY <1>9, <2>4, ComponentCovers
    <3> QED
      BY <1>2, <1>3, <1>9, <2>4, <3>1 DEF RelatedToCluster
  <2> QED
    BY <1>6, <2>1, <2>2, <2>3, <2>4
<1>10. CASE o \in Host
  <2>1. CASE q = k /\ q \in Cluster
    <3>1. \E d \in Component : <<o, d>> \in mp /\ clusterOf[serviceOf[d]] = q
      BY <1>10, <2>1, NearHosts
    <3> QED
      BY <1>2, <1>3, <1>10, <2>1, <3>1 DEF RelatedToCluster
  <2>2. CASE q \in Service /\ clusterOf[q] = k
    <3>1. \E d \in Component : <<o, d>> \in mp /\ serviceOf[d] = q
      BY <1>10, <2>2, NearHosts
    <3> QED
      BY <1>2, <1>3, <1>10, <2>2, <3>1 DEF RelatedToCluster
  <2>3. CASE q \in Component /\ clusterOf[serviceOf[q]] = k
    <3>1. <<o, q>> \in mp
      BY <1>10, <2>3, NearHosts
    <3> QED
      BY <1>2, <1>3, <1>10, <2>3, <3>1 DEF RelatedToCluster
  <2>4. CASE q \in Host /\ q \in HostsOfCluster(k)
    BY <1>2, <1>3, <1>5, <1>10, <2>4, NearHosts DEF RelatedToCluster
  <2> QED
    BY <1>6, <2>1, <2>2, <2>3, <2>4
<1>11. CASE o \in Provider
  <2>1. CASE q = k /\ q \in Cluster
    <3>1. q \in Near(mp, o)
      BY <1>11, NearProviders
    <3> QED
      BY <1>11, <2>1, <3>1, ProviderInCluster DEF RelatedToCluster
  <2>2. CASE q \in Service /\ clusterOf[q] = k
    <3>1. q \in Near(mp, o)
      BY <1>11, NearProviders
    <3>2. \E h \in Host, d \in Component : providerOf[h] = o /\ <<h, d>> \in mp /\ serviceOf[d] = q
      BY <1>11, <2>2, <3>1, ServiceOfProvider
    <3> QED
      BY <1>2, <1>3, <1>11, <2>2, <3>2 DEF RelatedToCluster
  <2>3. CASE q \in Component /\ clusterOf[serviceOf[q]] = k
    <3>1. q \in Near(mp, o)
      BY <1>11, NearProviders
    <3>2. \E h \in Host : providerOf[h] = o /\ <<h, q>> \in mp
      BY <1>11, <2>3, <3>1, ComponentOfProvider
    <3> QED
      BY <1>2, <1>3, <1>11, <2>3, <3>2 DEF RelatedToCluster
  <2>4. CASE q \in Host /\ q \in HostsOfCluster(k)
    BY <1>2, <1>3, <1>5, <1>11, <2>4, NearProviders DEF RelatedToCluster
  <2> QED
    BY <1>6, <2>1, <2>2, <2>3, <2>4
<1> QED
  BY <1>1, <1>7, <1>8, <1>9, <1>10, <1>11

LEMMA FarApart ==
  ASSUME NEW mp \in Mapping, NEW k \in Cluster, NEW o \in AdcmObject, NEW q \in AdcmObject,
         ~Elsewhere(o, k), Elsewhere(q, k),
         q \in Host => \A d \in Component : <<q, d>> \in mp => clusterOf[serviceOf[d]] # k
  PROVE  q \notin Near(mp, o)
<1>1. \/ o \in Cluster /\ o = k
      \/ o \in Service /\ clusterOf[o] = k
      \/ o \in Component /\ clusterOf[serviceOf[o]] = k
  BY DEF Elsewhere
<1>2. q \in Cluster \cup Service \cup Component \cup Host \cup Provider
  BY DEF AdcmObject
<1>3. CASE o \in Cluster /\ o = k
  <2>1. q \in Cluster => (q \in Near(mp, o) <=> q = o)
    BY <1>3, NearClusters
  <2>2. q \in Service => (q \in Near(mp, o) <=> clusterOf[q] = o)
    BY <1>3, NearClusters
  <2>3. q \in Component => (q \in Near(mp, o) <=> clusterOf[serviceOf[q]] = o)
    BY <1>3, NearClusters
  <2>4. q \in Host /\ q \in Near(mp, o) => \E d \in Component : <<q, d>> \in mp /\ clusterOf[serviceOf[d]] = o
    BY <1>3, NearClusters
  <2>5. q \in Provider => q \notin Near(mp, o)
    BY <1>3, NearClusters
  <2> QED
    BY <1>2, <1>3, <2>1, <2>2, <2>3, <2>4, <2>5 DEF Elsewhere
<1>4. CASE o \in Service /\ clusterOf[o] = k
  <2>1. q \in Cluster => (q \in Near(mp, o) <=> q = clusterOf[o])
    BY <1>4, NearServices
  <2>2. q \in Service => (q \in Near(mp, o) <=> q = o)
    BY <1>4, NearServices
  <2>3. q \in Component => (q \in Near(mp, o) <=> serviceOf[q] = o)
    BY <1>4, NearServices
  <2>4. q \in Host /\ q \in Near(mp, o) => \E d \in Component : <<q, d>> \in mp /\ serviceOf[d] = o
    BY <1>4, NearServices
  <2>5. q \in Provider => q \notin Near(mp, o)
    BY <1>4, NearServices
  <2> QED
    BY <1>2, <1>4, <2>1, <2>2, <2>3, <2>4, <2>5 DEF Elsewhere
<1>5. CASE o \in Component /\ clusterOf[serviceOf[o]] = k
  <2>1. q \in Cluster => (q \in Near(mp, o) <=> q = clusterOf[serviceOf[o]])
    BY <1>5, NearComponents
  <2>2. q \in Service => (q \in Near(mp, o) <=> q = serviceOf[o])
    BY <1>5, NearComponents
  <2>3. q \in Component => (q \in Near(mp, o) <=> q = o)
    BY <1>5, NearComponents
  <2>4. q \in Host /\ q \in Near(mp, o) => <<q, o>> \in mp
    BY <1>5, NearComponents
  <2>5. q \in Provider => q \notin Near(mp, o)
    BY <1>5, NearComponents
  <2> QED
    BY <1>2, <1>5, <2>1, <2>2, <2>3, <2>4, <2>5 DEF Elsewhere
<1> QED
  BY <1>1, <1>3, <1>4, <1>5

-----------------------------------------------------------------------------
(* Redistribution makes links exact                                        *)

(* Owners that are hosts of the cluster or their providers.                *)
OfItsHosts(o, k) == \E h \in HostsOfCluster(k) : o = h \/ o = providerOf[h]

(* What redistribution makes of one link: it is recomputed on objects of   *)
(* the cluster, and on its hosts concerns of hosts and providers stay.     *)
Relinked(lk, k, svcs, m, c, q) ==
  \/ OfTheCluster(q, k, svcs) /\ c \in LinksOf(lk, m, k, svcs, q)
  \/ q \in lk[c] /\ (OfTheCluster(q, k, svcs) => OfItsHosts(c[1], k) /\ q \in HostsOfCluster(k))

LEMMA RedistributedElement ==
  ASSUME NEW lk, NEW k, NEW svcs, NEW m, NEW c \in DOMAIN lk, c[2] # "lock", NEW q
  PROVE  \/ /\ Redistributed(lk, k, svcs, m)[c] = lk[c]
            /\ ~OfItsHosts(c[1], k) /\ c[1] \notin {k} \cup svcs \cup ComponentsIn(svcs)
         \/ q \in Redistributed(lk, k, svcs, m)[c] <=> Relinked(lk, k, svcs, m, c, q)
<1> DEFINE bound == HostsOfCluster(k)
           D == {k} \cup svcs \cup ComponentsIn(svcs)
           ofHosts == OwnOfHosts(lk, bound)
           ofCluster == UNION {Own(lk, o) : o \in D}
           links == [o \in D \cup bound |-> LinksOf(lk, m, k, svcs, o)]
           recounted == IF c \in ofHosts THEN DOMAIN links \ bound ELSE DOMAIN links
           row == (lk[c] \ recounted) \cup {o \in DOMAIN links : c \in links[o]}
<1>1. Redistributed(lk, k, svcs, m)[c] = IF ofHosts \cup ofCluster = {} THEN lk[c] ELSE row
  BY DEF Redistributed
<1>2. \A x : c \in Own(lk, x) <=> c[1] = x
  BY OwnElement
<1>3. c \in ofHosts <=> OfItsHosts(c[1], k)
  BY <1>2 DEF OwnOfHosts, OfItsHosts
<1>4. c \in ofCluster <=> c[1] \in D
  BY <1>2
<1>5. DOMAIN links = D \cup bound /\ \A o \in D \cup bound : links[o] = LinksOf(lk, m, k, svcs, o)
  OBVIOUS
<1>6. q \in D \cup bound <=> OfTheCluster(q, k, svcs)
  BY DEF OfTheCluster
<1> HIDE DEF bound, D, ofHosts, ofCluster, links
<1>7. q \in row <=> Relinked(lk, k, svcs, m, c, q)
  <2>1. q \in row <=> (q \in lk[c] /\ q \notin recounted) \/ (q \in D \cup bound /\ c \in LinksOf(lk, m, k, svcs, q))
    BY <1>5
  <2>2. q \notin recounted <=> (q \in D \cup bound => OfItsHosts(c[1], k) /\ q \in bound)
    BY <1>3, <1>5
  <2> HIDE DEF recounted, row
  <2> QED
    BY <1>6, <2>1, <2>2 DEF Relinked, bound
<1> HIDE DEF row
<1>8. CASE ofHosts \cup ofCluster = {}
  BY <1>1, <1>3, <1>4, <1>8 DEF D
<1>9. CASE ofHosts \cup ofCluster # {}
  BY <1>1, <1>7, <1>9
<1> QED
  BY <1>8, <1>9

(* Hosts that are created after the flag of their provider do not get it.  *)
Spared(c, q) == c[2] = "flag" /\ c[1] \in Provider /\ q \in Host

(* A link from a concern is there where it is to be, and not elsewhere.    *)
Fits(mp, c, q, row) ==
  /\ q \in Near(mp, c[1]) => q \in row \/ Spared(c, q)
  /\ q \in row => q \in LockTargets(mp, c[1])

SameElsewhere(m, k) ==
  \A h \in Host, d \in Component : clusterOf[serviceOf[d]] # k => (<<h, d>> \in m <=> <<h, d>> \in hc)

(* Redistribution for a cluster with services svcs makes the links what    *)
(* the mapping m makes of them, if they were what the mapping hc made.     *)
LEMMA RelinkedOnCluster ==
  ASSUME hosts \subseteq Host, hc \in Mapping, RowsInClusters(hc),
         NEW k \in Cluster, NEW svcs \in SUBSET ServicesIn(k),
         NEW m \in Mapping, RowsInClusters(m), MappedInServices(m, k, svcs),
         NEW lk, NEW c \in DOMAIN lk, c[2] # "lock", c[1] \in AdcmObject, OwnerInServices(c[1], k, svcs),
         NEW q \in AdcmObject, OfTheCluster(q, k, svcs), q \in Host => c[1] \notin Host \cup Provider,
         q \in lk[c] => q \in LockTargets(hc, c[1])
  PROVE  Fits(m, c, q, Redistributed(lk, k, svcs, m)[c])
<1> DEFINE new == Redistributed(lk, k, svcs, m)[c]
<1>1. \/ new = lk[c] /\ ~OfItsHosts(c[1], k) /\ c[1] \notin {k} \cup svcs \cup ComponentsIn(svcs)
      \/ q \in new <=> Relinked(lk, k, svcs, m, c, q)
  BY RedistributedElement
<1> HIDE DEF new
<1>2. Near(m, c[1]) \subseteq LockTargets(m, c[1])
  BY NearIsCovered
<1>3. HostsOfCluster(k) \subseteq Host /\ \A h : h \in HostsOfCluster(k) => providerOf[h] \in Provider
  BY TopologyAssumption DEF HostsOfCluster
<1>4. CASE q \in new <=> Relinked(lk, k, svcs, m, c, q)
  <2>1. InCluster(m, k, svcs, q)
    <3>1. CASE q \in HostsOfCluster(k)
      <4>1. q \in Host
        BY <1>3, <3>1
      <4>2. ASSUME NEW d \in Component, <<q, d>> \in m PROVE serviceOf[d] \in svcs
        <5>1. q \in HostsOfCluster(clusterOf[serviceOf[d]])
          BY <4>1, <4>2 DEF RowsInClusters
        <5>2. clusterOf[serviceOf[d]] = k
          BY <3>1, <5>1 DEF HostsOfCluster
        <5> QED
          BY <4>1, <4>2, <5>2 DEF MappedInServices
      <4> QED
        BY <4>1, <4>2 DEF InCluster
    <3> QED
      BY <3>1 DEF OfTheCluster, InCluster
  <2>2. c \in LinksOf(lk, m, k, svcs, q) <=> q \in Near(m, c[1])
    BY <2>1, LinksOfNear
  <2>3. ~(OfItsHosts(c[1], k) /\ q \in HostsOfCluster(k))
    BY <1>3 DEF OfItsHosts
  <2>4. q \in new <=> q \in Near(m, c[1])
    BY <1>4, <2>2, <2>3 DEF Relinked
  <2> QED
    BY <1>2, <2>4 DEF Fits, new
<1>5. CASE new = lk[c] /\ ~OfItsHosts(c[1], k) /\ c[1] \notin {k} \cup svcs \cup ComponentsIn(svcs)
  <2>1. ~RelatedToCluster(c[1], k)
    BY <1>5 DEF RelatedToCluster, OfItsHosts, OwnerInServices, ComponentsIn
  <2>2. ~Elsewhere(q, k) \/ q \in HostsOfCluster(k) \cap Host
    BY <1>3 DEF OfTheCluster, Elsewhere, ComponentsIn, ServicesIn
  <2>3. q \notin LockTargets(m, c[1])
    BY <2>1, <2>2, RelatedCovers
  <2>4. q \notin LockTargets(hc, c[1])
    BY <2>1, <2>2, RelatedCovers
  <2> QED
    BY <1>2, <1>5, <2>3, <2>4 DEF Fits, new
<1> QED
  BY <1>1, <1>4, <1>5

LEMMA NearOfHostOwner ==
  ASSUME NEW mp \in Mapping, NEW o \in Host \cup Provider, NEW q \in Host
  PROVE  /\ Near(mp, o) = LockTargets(mp, o)
         /\ q \in Near(mp, o) <=> q = o \/ (o \in Provider /\ providerOf[q] = o)
<1>1. CASE o \in Host
  <2>1. o \notin Provider
    BY <1>1, TopologyAssumption
  <2> QED
    BY <1>1, <2>1, NearHosts
<1>2. CASE o \in Provider
  <2>1. q # o
    BY <1>2, TopologyAssumption
  <2> QED
    BY <1>2, <2>1, NearProviders
<1> QED
  BY <1>1, <1>2

LEMMA RelinkedOnHost ==
  ASSUME hosts \subseteq Host, hc \in Mapping, NEW k \in Cluster, NEW svcs \in SUBSET ServicesIn(k), NEW m \in Mapping,
         NEW lk, NEW c \in DOMAIN lk, c[2] # "lock", c[1] \in Host \cup Provider,
         NEW q \in Host, q \in HostsOfCluster(k), Fits(hc, c, q, lk[c])
  PROVE  Fits(m, c, q, Redistributed(lk, k, svcs, m)[c])
<1> DEFINE new == Redistributed(lk, k, svcs, m)[c]
<1>1. \/ new = lk[c] /\ ~OfItsHosts(c[1], k) /\ c[1] \notin {k} \cup svcs \cup ComponentsIn(svcs)
      \/ q \in new <=> Relinked(lk, k, svcs, m, c, q)
  BY RedistributedElement
<1>2. PICK o : o = c[1]
  OBVIOUS
<1> HIDE DEF new
<1>3. o \in Host \cup Provider /\ o \notin Cluster /\ o \notin Service /\ o \notin Component
  BY <1>2, TopologyAssumption
<1>4. c \notin LinksOf(lk, m, k, svcs, q)
  <2>1. c \in LinksOf(lk, m, k, svcs, q)
          <=> \E d \in Component : <<q, d>> \in m /\ (c[1] = k \/ c[1] = serviceOf[d] \/ c[1] = d)
    BY LinksOfHost
  <2>2. \A d \in Component : serviceOf[d] \in Service
    BY HierarchyTypes
  <2> QED
    BY <1>2, <1>3, <2>1, <2>2
<1>5. Near(m, o) = LockTargets(m, o) /\ Near(hc, o) = LockTargets(hc, o)
  BY <1>3, NearOfHostOwner
<1>6. q \in Near(m, o) <=> q \in Near(hc, o)
  BY <1>3, NearOfHostOwner
<1>7. q \in Near(hc, o) => OfItsHosts(o, k)
  BY <1>3, NearOfHostOwner DEF OfItsHosts
<1>8. q \in new => q \in lk[c]
  BY <1>1, <1>4 DEF Relinked
<1>9. q \in lk[c] /\ OfItsHosts(o, k) => q \in new
  BY <1>1, <1>2 DEF Relinked
<1> QED
  BY <1>2, <1>5, <1>6, <1>7, <1>8, <1>9 DEF Fits, new

LEMMA RelinkedElsewhere ==
  ASSUME hc \in Mapping, RowsInClusters(hc),
         NEW k \in Cluster, NEW svcs \in SUBSET ServicesIn(k),
         NEW m \in Mapping, RowsInClusters(m), SameElsewhere(m, k),
         NEW lk, NEW c \in DOMAIN lk, c[2] # "lock", c[1] \in AdcmObject,
         NEW q \in AdcmObject, ~OfTheCluster(q, k, svcs), OwnerInServices(q, k, svcs),
         q \in lk[c] => q \in LockTargets(hc, c[1]),
         q \in Near(hc, c[1]) => q \in lk[c] \/ Spared(c, q) \/ ~Elsewhere(c[1], k)
  PROVE  Fits(m, c, q, Redistributed(lk, k, svcs, m)[c])
<1> DEFINE new == Redistributed(lk, k, svcs, m)[c]
<1>1. \/ new = lk[c] /\ ~OfItsHosts(c[1], k) /\ c[1] \notin {k} \cup svcs \cup ComponentsIn(svcs)
      \/ q \in new <=> Relinked(lk, k, svcs, m, c, q)
  BY RedistributedElement
<1>2. PICK o : o = c[1]
  OBVIOUS
<1> HIDE DEF new
<1>3. q \in new <=> q \in lk[c]
  BY <1>1 DEF Relinked
<1>4. Elsewhere(q, k)
  BY DEF OfTheCluster, Elsewhere, OwnerInServices, ComponentsIn
<1>5. ASSUME NEW d \in Component, q \in Host, <<q, d>> \in m \cup hc
      PROVE  clusterOf[serviceOf[d]] # k
  <2>1. q \in HostsOfCluster(clusterOf[serviceOf[d]])
    BY <1>5 DEF RowsInClusters
  <2> QED
    BY <2>1 DEF OfTheCluster
<1>6. /\ q \in Near(m, o) <=> q \in Near(hc, o)
      /\ q \in LockTargets(m, o) <=> q \in LockTargets(hc, o)
  <2>1. q \in Host => \A d \in Component : <<q, d>> \in m \cup hc => clusterOf[serviceOf[d]] # k
    BY <1>5
  <2>2. \A h \in Host, d \in Component : clusterOf[serviceOf[d]] # k => (<<h, d>> \in m <=> <<h, d>> \in hc)
    BY DEF SameElsewhere
  <2> QED
    BY <1>2, <1>4, <2>1, <2>2, FarStays
<1>7. ~Elsewhere(o, k) => q \notin Near(m, o)
  <2>1. q \in Host => \A d \in Component : <<q, d>> \in m => clusterOf[serviceOf[d]] # k
    BY <1>5
  <2> QED
    BY <1>2, <1>4, <2>1, FarApart
<1> QED
  BY <1>2, <1>3, <1>6, <1>7 DEF Fits, new

(* Links are to what exists, and those of issues and flags are exact.      *)
LinkInv ==
  \A c \in DOMAIN link :
    /\ link[c] \subseteq Existing
    /\ c[2] # "lock" => \A q \in Existing : Fits(hc, c, q, link[c])

LEMMA RowsOfObjects ==
  ASSUME Objects
  PROVE  /\ hosts \subseteq Host /\ hc \in Mapping /\ RowsInClusters(hc)
         /\ \A k : MappedInServices(hc, k, ServicesOfCluster(k))
<1>1. \A h \in Host, d \in Component : <<h, d>> \in hc =>
         h \in hosts /\ hostCluster[h] = clusterOf[serviceOf[d]] /\ serviceOf[d] \in services
  <2>1. ASSUME NEW h \in Host, NEW d \in Component, <<h, d>> \in hc
        PROVE  h \in hosts /\ hostCluster[h] = clusterOf[serviceOf[d]] /\ serviceOf[d] \in services
    <3>1. RowInCluster(<<h, d>>, hostCluster) /\ serviceOf[<<h, d>>[2]] \in services
      BY <2>1 DEF Objects
    <3>2. <<h, d>>[1] = h /\ <<h, d>>[2] = d
      OBVIOUS
    <3> QED
      BY <3>1, <3>2 DEF RowInCluster, ComponentCluster, hosts
  <2> QED
    BY <2>1
<1>2. hosts \subseteq Host /\ services \subseteq Service
  BY DEF Objects
<1> QED
  BY <1>1, <1>2, RowsAreMapping DEF RowsInClusters, HostsOfCluster, MappedInServices, ServicesOfCluster, ServicesIn

LEMMA RowsMakeMapping ==
  ASSUME NEW m \in SUBSET (Host \X Component), RowsInClusters(m)
  PROVE  m \in Mapping
<1>1. SUFFICES ASSUME NEW n \in m, NEW l \in m, n[1] = l[1] PROVE ComponentCluster(n[2]) = ComponentCluster(l[2])
  BY DEF Mapping
<1>2. PICK h \in Host, d \in Component : n = <<h, d>>
  OBVIOUS
<1>3. PICK g \in Host, e \in Component : l = <<g, e>>
  OBVIOUS
<1>4. h \in HostsOfCluster(clusterOf[serviceOf[d]]) /\ g \in HostsOfCluster(clusterOf[serviceOf[e]])
  BY <1>2, <1>3 DEF RowsInClusters
<1>5. h = g /\ n[2] = d /\ l[2] = e
  BY <1>1, <1>2, <1>3
<1> QED
  BY <1>4, <1>5 DEF HostsOfCluster, ComponentCluster

(* A cluster with its services, some of them new, and a mapping of it.     *)
Arranged(k, svcs, m) ==
  /\ k \in Cluster /\ svcs \subseteq ServicesIn(k) /\ ServicesOfCluster(k) \subseteq svcs
  /\ m \in Mapping /\ RowsInClusters(m) /\ MappedInServices(m, k, svcs) /\ SameElsewhere(m, k)

WithServices(k, svcs) == Existing \cup {k} \cup svcs \cup ComponentsIn(svcs)

LEMMA OwnersInServices ==
  ASSUME Objects, NEW k \in Cluster, NEW svcs \in SUBSET ServicesIn(k), ServicesOfCluster(k) \subseteq svcs,
         NEW o \in WithServices(k, svcs)
  PROVE  OwnerInServices(o, k, svcs) /\ o \in AdcmObject
<1>1. /\ o \in Service => o \in services \/ o \in svcs
      /\ o \in Component => serviceOf[o] \in services \/ serviceOf[o] \in svcs
      /\ o \in AdcmObject
  <2>1. o \in Existing \/ o = k \/ o \in svcs \/ (o \in Component /\ serviceOf[o] \in svcs)
    BY DEF WithServices, ComponentsIn
  <2>2. o \in Existing => o \in AdcmObject
    BY ExistingByType
  <2>3. o \in Service /\ o \in Existing => o \in services
    BY ExistingByType
  <2>4. o \in Component /\ o \in Existing => serviceOf[o] \in services
    BY ExistingByType
  <2>5. \A s \in svcs : s \in Service
    BY DEF ServicesIn
  <2> QED
    BY <2>1, <2>2, <2>3, <2>4, <2>5, TypesAreDisjoint DEF AdcmObject
<1>2. \A s \in Service : s \in services /\ clusterOf[s] = k => s \in svcs
  BY DEF ServicesOfCluster, ServicesIn
<1>3. \A d \in Component : serviceOf[d] \in Service
  BY HierarchyTypes
<1> QED
  BY <1>1, <1>2, <1>3 DEF OwnerInServices

(* Redistribution makes all links of issues and flags exact, those of new  *)
(* concerns of the cluster included.                                       *)
LEMMA RelinkedFits ==
  ASSUME Objects, LinkInv, NEW k, NEW svcs, NEW m, Arranged(k, svcs, m),
         NEW lk, NEW c \in DOMAIN lk, c[2] # "lock", c[1] \in WithServices(k, svcs),
         (c \in DOMAIN link /\ lk[c] = link[c]) \/ (lk[c] = {} /\ ~Elsewhere(c[1], k)),
         NEW q \in WithServices(k, svcs)
  PROVE  Fits(m, c, q, Redistributed(lk, k, svcs, m)[c])
<1>1. /\ k \in Cluster /\ svcs \in SUBSET ServicesIn(k) /\ ServicesOfCluster(k) \subseteq svcs
      /\ m \in Mapping /\ RowsInClusters(m) /\ MappedInServices(m, k, svcs) /\ SameElsewhere(m, k)
  BY DEF Arranged
<1>2. OwnerInServices(c[1], k, svcs) /\ c[1] \in AdcmObject
  BY <1>1, OwnersInServices
<1>3. OwnerInServices(q, k, svcs) /\ q \in AdcmObject
  BY <1>1, OwnersInServices
<1>4. hosts \subseteq Host /\ hc \in Mapping /\ RowsInClusters(hc)
  BY RowsOfObjects
<1>5. q \in lk[c] => q \in LockTargets(hc, c[1])
  BY DEF LinkInv, Fits
<1>6. q \in Existing /\ q \in Near(hc, c[1]) => q \in lk[c] \/ Spared(c, q) \/ ~Elsewhere(c[1], k)
  BY DEF LinkInv, Fits
<1>7. CASE OfTheCluster(q, k, svcs) /\ (q \in Host => c[1] \notin Host \cup Provider)
  BY <1>1, <1>2, <1>3, <1>4, <1>5, <1>7, RelinkedOnCluster
<1>8. CASE OfTheCluster(q, k, svcs) /\ q \in Host /\ c[1] \in Host \cup Provider
  <2>1. q \in HostsOfCluster(k)
    <3>1. \A s \in svcs : s \in Service
      BY <1>1 DEF ServicesIn
    <3> QED
      BY <1>1, <1>8, <3>1, TypesAreDisjoint DEF OfTheCluster, ComponentsIn
  <2>2. q \in Existing
    BY <2>1 DEF HostsOfCluster, Existing
  <2>3. Elsewhere(c[1], k)
    BY <1>1, <1>8, TopologyAssumption DEF Elsewhere
  <2>4. Fits(hc, c, q, lk[c])
    BY <1>5, <1>6, <2>2, <2>3 DEF Fits
  <2> QED
    BY <1>1, <1>4, <1>8, <2>1, <2>4, RelinkedOnHost
<1>9. CASE ~OfTheCluster(q, k, svcs)
  <2>1. q \in Existing
    BY <1>9 DEF OfTheCluster, WithServices
  <2>2. q \in Near(hc, c[1]) => q \in lk[c] \/ Spared(c, q) \/ ~Elsewhere(c[1], k)
    BY <1>6, <2>1
  <2> QED
    BY <1>1, <1>2, <1>3, <1>4, <1>5, <1>9, <2>2, RelinkedElsewhere
<1> QED
  BY <1>7, <1>8, <1>9

(* It links to nothing that does not exist.                                *)
LEMMA RelinkedExists ==
  ASSUME Objects, NEW k, NEW svcs, NEW m,
         NEW lk, NEW c \in DOMAIN lk, lk[c] \subseteq Existing
  PROVE  Redistributed(lk, k, svcs, m)[c] \subseteq WithServices(k, svcs)
<1>1. CASE c[2] = "lock"
  <2>1. Redistributed(lk, k, svcs, m)[c] = lk[c]
    BY <1>1, OtherRows
  <2> QED
    BY <2>1 DEF WithServices
<1>2. CASE c[2] # "lock"
  <2> SUFFICES ASSUME NEW q \in Redistributed(lk, k, svcs, m)[c] PROVE q \in WithServices(k, svcs)
    OBVIOUS
  <2>1. \/ Redistributed(lk, k, svcs, m)[c] = lk[c]
        \/ q \in Redistributed(lk, k, svcs, m)[c] <=> Relinked(lk, k, svcs, m, c, q)
    BY <1>2, RedistributedElement
  <2>2. q \in lk[c] \/ OfTheCluster(q, k, svcs)
    BY <2>1 DEF Relinked
  <2>3. \A h \in HostsOfCluster(k) : h \in Existing
    BY DEF HostsOfCluster, Existing
  <2> QED
    BY <2>2, <2>3 DEF OfTheCluster, WithServices
<1> QED
  BY <1>1, <1>2

-----------------------------------------------------------------------------
(* Links after each operation                                              *)

(* The links lk are what the mapping m makes of them among objects E.      *)
Exact(lk, m, E) ==
  \A c \in DOMAIN lk :
    /\ lk[c] \subseteq E
    /\ c[2] # "lock" => \A q \in E : Fits(m, c, q, lk[c])

LEMMA ExactNow == LinkInv <=> Exact(link, hc, Existing)
  BY DEF LinkInv, Exact

LEMMA ServicesOfExisting ==
  ASSUME NEW k \in clusters
  PROVE  WithServices(k, ServicesOfCluster(k)) = Existing
  BY DEF WithServices, ServicesOfCluster, Existing, ComponentsIn

LEMMA IssueUpdated ==
  ASSUME NEW lk, NEW k, NEW svcs, NEW bound, NEW m, NEW c \in DOMAIN MappingIssueUpdated(lk, k, svcs, bound, m)
  PROVE  \/ c \in DOMAIN lk /\ MappingIssueUpdated(lk, k, svcs, bound, m)[c] = lk[c]
         \/ c = <<k, "hostcomponent">> /\ MappingIssueUpdated(lk, k, svcs, bound, m)[c] = {}
<1> DEFINE issue == {<<k, "hostcomponent">>}
<1>1. \/ MappingIssueUpdated(lk, k, svcs, bound, m) = Without(lk, issue)
      \/ MappingIssueUpdated(lk, k, svcs, bound, m) = lk
      \/ MappingIssueUpdated(lk, k, svcs, bound, m) = With(lk, issue, {})
  BY DEF MappingIssueUpdated
<1>2. c \in issue => c = <<k, "hostcomponent">>
  OBVIOUS
<1> HIDE DEF issue
<1> QED
  BY <1>1, <1>2 DEF With, Without

LEMMA MappedExist ==
  ASSUME NEW m \in Mapping, RowsInClusters(m), NEW k
  PROVE  MappedHosts(m, k) \subseteq Existing
<1> SUFFICES ASSUME NEW n \in RowsOf(m, k) PROVE n[1] \in Existing
  BY DEF MappedHosts
<1>1. PICK h \in Host, d \in Component : n = <<h, d>>
  BY DEF RowsOf, Mapping
<1>2. <<h, d>> \in m
  BY <1>1 DEF RowsOf
<1> QED
  BY <1>1, <1>2 DEF RowsInClusters, HostsOfCluster, Existing

(* What _update_concerns makes of the links, after a change of the mapping.*)
LEMMA UpdatedExact ==
  ASSUME Consistent, LinkInv, NEW k \in clusters, NEW m, Arranged(k, ServicesOfCluster(k), m)
  PROVE  Exact(ConcernsUpdated(k, m), m, Existing)
<1> DEFINE svcs == ServicesOfCluster(k)
           first == MappingIssueUpdated(link, k, svcs, HostsOfCluster(k), m)
           second == Redistributed(first, k, svcs, m)
<1>1. ConcernsUpdated(k, m) = LockMoved(second, k, m)
  BY DEF ConcernsUpdated
<1>2. DOMAIN second = DOMAIN first
  BY DomainOfRedistributed
<1>3. \A c \in DOMAIN first :
         \/ c \in DOMAIN link /\ first[c] = link[c]
         \/ c = <<k, "hostcomponent">> /\ first[c] = {}
  BY IssueUpdated
<1>4. Objects /\ \A c \in DOMAIN link : c[1] \in Existing
  BY DEF Consistent, Owned
<1>5. k \in Existing /\ ~Elsewhere(k, k)
  BY DEF Existing, Elsewhere
<1>6. WithServices(k, svcs) = Existing
  BY ServicesOfExisting
<1>7. Arranged(k, svcs, m) /\ MappedHosts(hc, k) \subseteq Existing /\ MappedHosts(m, k) \subseteq Existing
  BY <1>4, MappedExist, RowsOfObjects DEF Arranged
<1> HIDE DEF svcs, first
<1>8. ASSUME NEW c \in DOMAIN first
      PROVE  /\ second[c] \subseteq Existing
             /\ c[2] # "lock" => \A q \in Existing : Fits(m, c, q, second[c])
  <2>1. (c \in DOMAIN link /\ first[c] = link[c]) \/ (c[1] = k /\ c[2] = "hostcomponent" /\ first[c] = {})
    BY <1>3, <1>8
  <2>2. first[c] \subseteq Existing /\ c[1] \in Existing
    BY <1>4, <1>5, <2>1 DEF LinkInv
  <2>3. (c \in DOMAIN link /\ first[c] = link[c]) \/ (first[c] = {} /\ ~Elsewhere(c[1], k))
    BY <1>5, <2>1
  <2>4. second[c] \subseteq Existing
    BY <1>4, <1>6, <2>2, RelinkedExists
  <2>5. ASSUME NEW q \in Existing, c[2] # "lock" PROVE Fits(m, c, q, second[c])
    BY <1>4, <1>6, <1>7, <2>2, <2>3, <2>5, RelinkedFits
  <2> QED
    BY <2>4, <2>5
<1> HIDE DEF second
<1>9. ASSUME NEW c \in DOMAIN second
      PROVE  /\ LockMoved(second, k, m)[c] \subseteq second[c] \cup MappedHosts(m, k)
             /\ c[2] # "lock" => LockMoved(second, k, m)[c] = second[c]
  <2>1. c \in LockOn(second, k) => c[2] = "lock"
    BY DEF LockOn
  <2> QED
    BY <2>1 DEF LockMoved
<1>10. DOMAIN LockMoved(second, k, m) = DOMAIN second
  BY DEF LockMoved
<1> QED
  BY <1>1, <1>2, <1>7, <1>8, <1>9, <1>10 DEF Exact

LEMMA MappingLinks ==
  ASSUME Consistent, LinkInv, NEW k \in clusters, NEW m \in Mappings(k),
         MappingChanged(k, (hc \ RowsOf(hc, k)) \cup m)
  PROVE  LinkInv'
<1> DEFINE new == (hc \ RowsOf(hc, k)) \cup m
<1>1. m \subseteq HostsOfCluster(k) \X ComponentsIn(ServicesOfCluster(k))
  BY DEF Mappings
<1>2. hosts \subseteq Host /\ hc \in Mapping /\ RowsInClusters(hc) /\ k \in Cluster /\ Objects
  BY RowsOfObjects DEF Consistent, Objects
<1>3. ASSUME NEW h, NEW d, <<h, d>> \in m
      PROVE  h \in HostsOfCluster(k) /\ h \in Host /\ d \in Component /\ serviceOf[d] \in ServicesOfCluster(k)
             /\ clusterOf[serviceOf[d]] = k
  BY <1>1, <1>2, <1>3 DEF HostsOfCluster, ComponentsIn, ServicesOfCluster, ServicesIn
<1>4. ASSUME NEW h \in Host, NEW d \in Component
      PROVE  <<h, d>> \in new <=> IF clusterOf[serviceOf[d]] = k THEN <<h, d>> \in m ELSE <<h, d>> \in hc
  <2>1. <<h, d>> \in RowsOf(hc, k) <=> <<h, d>> \in hc /\ clusterOf[serviceOf[d]] = k
    BY DEF RowsOf, ComponentCluster
  <2> QED
    BY <1>3, <2>1
<1>5. new \in SUBSET (Host \X Component)
  BY <1>1, <1>2 DEF Mapping, HostsOfCluster, ComponentsIn
<1> HIDE DEF new
<1>6. RowsInClusters(new) /\ MappedInServices(new, k, ServicesOfCluster(k)) /\ SameElsewhere(new, k)
  BY <1>2, <1>3, <1>4 DEF RowsInClusters, MappedInServices, SameElsewhere
<1>7. Arranged(k, ServicesOfCluster(k), new)
  BY <1>2, <1>5, <1>6, RowsMakeMapping DEF Arranged, ServicesOfCluster
<1>8. Exact(ConcernsUpdated(k, new), new, Existing)
  BY <1>7, UpdatedExact
<1>9. link' = ConcernsUpdated(k, new) /\ hc' = new /\ Existing' = Existing
  BY DEF MappingChanged, new, Existing, hosts
<1> QED
  BY <1>8, <1>9 DEF LinkInv, Exact

LEMMA AddServicesLinks ==
  ASSUME Consistent, LinkInv, NEW k \in clusters, NEW S \in SUBSET Service, AddServices(k, S)
  PROVE  LinkInv'
<1> DEFINE svcs == ServicesOfCluster(k) \cup S
<1>1. PICK X : /\ S \subseteq ServicesIn(k)
               /\ link' = AddedConcerns(k, S, svcs, X)
               /\ services' = services \cup S
               /\ UNCHANGED <<clusters, hostCluster, hc>>
  BY DEF AddServices
<1> DEFINE first == Without(link, ResolvedIssues(k, svcs, svcs \ S, X))
           fresh == NewServiceIssues(k, S, svcs) \ DOMAIN link
           second == With(first, fresh, {})
<1>2. link' = Redistributed(second, k, svcs, hc)
  BY <1>1 DEF AddedConcerns
<1>3. DOMAIN link' = DOMAIN second
  BY <1>2, DomainOfRedistributed
<1>4. Objects /\ k \in Cluster /\ \A c \in DOMAIN link : c[1] \in Existing
  BY DEF Consistent, Objects, Owned
<1>5. WithServices(k, svcs) = Existing'
  BY <1>1 DEF WithServices, ServicesOfCluster, Existing, ComponentsIn, hosts
<1>6. \A c \in fresh : c[1] \in {k} \cup S \cup ComponentsIn(S)
  BY DEF NewServiceIssues, ConfigIssues, ImportIssues
<1>7. \A o \in {k} \cup S \cup ComponentsIn(S) : o \in WithServices(k, svcs) /\ ~Elsewhere(o, k)
  BY <1>1 DEF WithServices, ComponentsIn, ServicesIn, Elsewhere
<1>8. \A c \in DOMAIN second : (c \in DOMAIN link /\ second[c] = link[c]) \/ (c \in fresh /\ second[c] = {})
  BY DEF With, Without
<1>9. Arranged(k, svcs, hc)
  <2>1. hc \in Mapping /\ RowsInClusters(hc) /\ MappedInServices(hc, k, ServicesOfCluster(k))
    BY <1>4, RowsOfObjects
  <2> QED
    BY <1>1, <1>4, <2>1 DEF Arranged, ServicesOfCluster, MappedInServices, SameElsewhere
<1> HIDE DEF svcs, first, fresh, second
<1>10. ASSUME NEW c \in DOMAIN second
       PROVE  /\ link'[c] \subseteq WithServices(k, svcs)
              /\ c[2] # "lock" => \A q \in WithServices(k, svcs) : Fits(hc, c, q, link'[c])
  <2>1. (c \in DOMAIN link /\ second[c] = link[c]) \/ (second[c] = {} /\ ~Elsewhere(c[1], k))
    BY <1>6, <1>7, <1>8
  <2>2. c[1] \in WithServices(k, svcs)
    BY <1>4, <1>6, <1>7, <1>8 DEF WithServices
  <2>3. second[c] \subseteq Existing
    BY <2>1 DEF LinkInv
  <2>4. link'[c] \subseteq WithServices(k, svcs)
    BY <1>2, <1>4, <2>3, RelinkedExists
  <2>5. ASSUME NEW q \in WithServices(k, svcs), c[2] # "lock" PROVE Fits(hc, c, q, link'[c])
    BY <1>2, <1>4, <1>9, <2>1, <2>2, <2>5, RelinkedFits
  <2> QED
    BY <2>4, <2>5
<1> QED
  BY <1>1, <1>3, <1>5, <1>10 DEF LinkInv

LEMMA AddClusterLinks ==
  ASSUME Consistent, LinkInv, NEW k \in Cluster, AddCluster(k)
  PROVE  LinkInv'
<1>1. PICK issues : /\ \A c \in issues : c[1] = k
                    /\ link' = Redistributed(With(link, issues, {}), k, {}, hc)
  <2> DEFINE issues == {c \in ConfigIssues({k}) \cup ImportIssues({k}) \cup {<<k, "service">>, <<k, "hostcomponent">>} :
                          /\ c[2] = "service" => RequiredServicesMissing(k, {})
                          /\ c[2] = "hostcomponent" => ClusterMappingHasIssue(k, {}, {}, hc)}
  <2>1. link' = Redistributed(With(link, issues, {}), k, {}, hc)
    BY DEF AddCluster
  <2>2. \A c \in issues : c[1] = k
    BY DEF ConfigIssues, ImportIssues
  <2> QED
    BY <2>1, <2>2
<1>2. k \notin clusters /\ clusters' = clusters \cup {k} /\ UNCHANGED <<services, hostCluster, hc>>
  BY DEF AddCluster
<1> DEFINE second == With(link, issues, {})
<1>3. DOMAIN link' = DOMAIN second
  BY <1>1, DomainOfRedistributed
<1>4. Objects /\ \A c \in DOMAIN link : c[1] \in Existing
  BY DEF Consistent, Owned
<1>5. WithServices(k, {}) = Existing'
  BY <1>2 DEF WithServices, Existing, ComponentsIn, hosts
<1>6. k \in WithServices(k, {}) /\ ~Elsewhere(k, k)
  BY DEF WithServices, Elsewhere
<1>7. \A c \in DOMAIN second : (c \in DOMAIN link /\ second[c] = link[c]) \/ (c[1] = k /\ second[c] = {})
  BY <1>1 DEF With
<1>8. ServicesOfCluster(k) = {}
  BY <1>2, <1>4 DEF ServicesOfCluster, ServicesIn, Objects
<1>9. Arranged(k, {}, hc)
  <2>1. hc \in Mapping /\ RowsInClusters(hc) /\ MappedInServices(hc, k, {})
    BY <1>4, <1>8, RowsOfObjects
  <2> QED
    BY <1>8, <2>1 DEF Arranged, SameElsewhere
<1> HIDE DEF second
<1>10. ASSUME NEW c \in DOMAIN second
       PROVE  /\ link'[c] \subseteq WithServices(k, {})
              /\ c[2] # "lock" => \A q \in WithServices(k, {}) : Fits(hc, c, q, link'[c])
  <2>1. (c \in DOMAIN link /\ second[c] = link[c]) \/ (second[c] = {} /\ ~Elsewhere(c[1], k))
    BY <1>6, <1>7
  <2>2. c[1] \in WithServices(k, {})
    BY <1>4, <1>6, <1>7 DEF WithServices
  <2>3. second[c] \subseteq Existing
    BY <2>1 DEF LinkInv
  <2>4. link'[c] = Redistributed(second, k, {}, hc)[c]
    BY <1>1 DEF second
  <2>5. link'[c] \subseteq WithServices(k, {})
    BY <1>4, <2>3, <2>4, RelinkedExists
  <2>6. ASSUME NEW q \in WithServices(k, {}), c[2] # "lock" PROVE Fits(hc, c, q, link'[c])
    BY <1>4, <1>9, <2>1, <2>2, <2>4, <2>6, RelinkedFits
  <2> QED
    BY <2>5, <2>6
<1> QED
  BY <1>2, <1>3, <1>5, <1>10 DEF LinkInv

(* Fewer objects, with their own concerns gone.                            *)
LEMMA ExactWithoutObjects ==
  ASSUME NEW lk, NEW m, NEW E, NEW gone, Exact(lk, m, E)
  PROVE  Exact(WithoutObjects(lk, gone), m, E \ gone)
<1> SUFFICES ASSUME NEW c \in DOMAIN WithoutObjects(lk, gone)
             PROVE  /\ WithoutObjects(lk, gone)[c] \subseteq E \ gone
                    /\ c[2] # "lock" => \A q \in E \ gone : Fits(m, c, q, WithoutObjects(lk, gone)[c])
  BY DEF Exact
<1>1. c \in DOMAIN lk /\ WithoutObjects(lk, gone)[c] = lk[c] \ gone
  BY DEF WithoutObjects
<1>2. ASSUME NEW q \in E \ gone, c[2] # "lock" PROVE Fits(m, c, q, lk[c] \ gone)
  BY <1>1, <1>2 DEF Exact, Fits
<1> QED
  BY <1>1, <1>2 DEF Exact

(* An issue is deleted, or created with its links, exact themselves.       *)
LEMMA ExactRechecked ==
  ASSUME NEW lk, NEW m, NEW E, Exact(lk, m, E), NEW issue, NEW has \in BOOLEAN, NEW targets \in SUBSET E,
         \A q \in E : Fits(m, issue, q, targets)
  PROVE  Exact(IssueRechecked(lk, issue, has, targets), m, E)
<1>1. \/ IssueRechecked(lk, issue, has, targets) = Without(lk, {issue})
      \/ IssueRechecked(lk, issue, has, targets) = lk
      \/ IssueRechecked(lk, issue, has, targets) = With(lk, {issue}, targets)
  BY DEF IssueRechecked
<1>2. Exact(Without(lk, {issue}), m, E)
  BY DEF Exact, Without
<1>3. Exact(With(lk, {issue}, targets), m, E)
  <2> SUFFICES ASSUME NEW c \in DOMAIN With(lk, {issue}, targets)
               PROVE  /\ With(lk, {issue}, targets)[c] \subseteq E
                      /\ c[2] # "lock" => \A q \in E : Fits(m, c, q, With(lk, {issue}, targets)[c])
    BY DEF Exact
  <2>1. \/ c = issue /\ With(lk, {issue}, targets)[c] = targets
        \/ c \in DOMAIN lk /\ With(lk, {issue}, targets)[c] = lk[c]
    BY DEF With
  <2> QED
    BY <2>1 DEF Exact
<1> QED
  BY <1>1, <1>2, <1>3

(* The issue of the mapping of k with services svcs goes to all of them.   *)
MappingTargets(m, k, svcs) == {k} \cup svcs \cup ComponentsIn(svcs) \cup MappedHosts(m, k)

LEMMA MappingIssueFits ==
  ASSUME NEW m \in Mapping, NEW k \in Cluster, NEW svcs \in SUBSET ServicesIn(k), NEW q \in AdcmObject,
         OwnerInServices(q, k, svcs), NEW c, c[1] = k
  PROVE  Fits(m, c, q, MappingTargets(m, k, svcs))
<1>1. Near(m, k) = LockTargets(m, k) /\ q \in Cluster \cup Service \cup Component \cup Host \cup Provider
  BY NearClusters DEF AdcmObject
<1>2. ASSUME NEW h \in Host
      PROVE  h \in MappedHosts(m, k) <=> \E d \in Component : <<h, d>> \in m /\ clusterOf[serviceOf[d]] = k
  <2>1. \A n \in m : n = <<n[1], n[2]>> /\ n[2] \in Component
    BY DEF Mapping
  <2>2. h \in MappedHosts(m, k) <=> \E n \in m : n[1] = h /\ clusterOf[serviceOf[n[2]]] = k
    BY DEF MappedHosts, RowsOf, ComponentCluster
  <2>3. \A d : <<h, d>>[1] = h /\ <<h, d>>[2] = d
    OBVIOUS
  <2> QED
    BY <2>1, <2>2, <2>3
<1>3. /\ k \notin Service \cup Component \cup Host \cup Provider
      /\ MappedHosts(m, k) \subseteq Host
      /\ \A s \in svcs : s \in Service /\ clusterOf[s] = k
  BY TopologyAssumption DEF MappedHosts, RowsOf, Mapping, ServicesIn
<1>4. q \in MappingTargets(m, k, svcs)
        <=> q = k \/ q \in svcs \/ (q \in Component /\ serviceOf[q] \in svcs) \/ q \in MappedHosts(m, k)
  BY DEF MappingTargets, ComponentsIn
<1>5. q \in MappingTargets(m, k, svcs) <=> q \in Near(m, k)
  <2>1. CASE q \in Cluster
    <3>1. q \in Near(m, k) <=> q = k
      BY <2>1, NearClusters
    <3> QED
      BY <1>3, <1>4, <2>1, <3>1, TypesAreDisjoint
  <2>2. CASE q \in Service
    <3>1. q \in Near(m, k) <=> clusterOf[q] = k
      BY <2>2, NearClusters
    <3> QED
      BY <1>3, <1>4, <2>2, <3>1, TypesAreDisjoint DEF OwnerInServices
  <2>3. CASE q \in Component
    <3>1. q \in Near(m, k) <=> clusterOf[serviceOf[q]] = k
      BY <2>3, NearClusters
    <3> QED
      BY <1>3, <1>4, <2>3, <3>1, TypesAreDisjoint DEF OwnerInServices
  <2>4. CASE q \in Host
    <3>1. q \in Near(m, k) <=> \E d \in Component : <<q, d>> \in m /\ clusterOf[serviceOf[d]] = k
      <4>1. \A g \in Host : g \in Near(m, k)
              <=> \E d \in Component : <<g, d>> \in m /\ clusterOf[serviceOf[d]] = k
        BY NearClusters
      <4> QED
        BY <2>4, <4>1
    <3> QED
      BY <1>2, <1>3, <1>4, <2>4, <3>1, TypesAreDisjoint
  <2>5. CASE q \in Provider
    <3>1. q \notin Near(m, k)
      BY <1>1, <2>5, NearClusters
    <3>2. q \notin Service /\ q \notin Component /\ q \notin Host
      BY <2>5, TopologyAssumption
    <3> QED
      BY <1>3, <1>4, <2>5, <3>1, <3>2
  <2> QED
    BY <1>1, <2>1, <2>2, <2>3, <2>4, <2>5
<1> QED
  BY <1>1, <1>5 DEF Fits

LEMMA ServiceGoneLinks ==
  ASSUME Consistent, LinkInv, NEW s \in services, DeleteService(s) \/ DeleteServiceByTask(s)
  PROVE  LinkInv'
<1> DEFINE k == clusterOf[s]
           gone == {s} \cup ComponentsIn({s})
           rest == ServicesOfCluster(k) \ {s}
           m == {n \in hc : serviceOf[n[2]] # s}
<1>1. Objects /\ s \in Service /\ k \in clusters /\ k \in Cluster
  BY DEF Consistent, Objects
<1>2. hosts \subseteq Host /\ hc \in Mapping /\ RowsInClusters(hc) /\ MappedInServices(hc, k, ServicesOfCluster(k))
  BY <1>1, RowsOfObjects
<1>3. ASSUME NEW h \in Host, NEW d \in Component
      PROVE  <<h, d>> \in m <=> <<h, d>> \in hc /\ serviceOf[d] # s
  OBVIOUS
<1>4. m \in SUBSET (Host \X Component)
  BY <1>2 DEF Mapping
<1> HIDE DEF m
<1>5. Arranged(k, ServicesOfCluster(k), m)
  <2>1. RowsInClusters(m) /\ MappedInServices(m, k, ServicesOfCluster(k)) /\ SameElsewhere(m, k)
    BY <1>2, <1>3 DEF RowsInClusters, MappedInServices, SameElsewhere
  <2> QED
    BY <1>1, <1>4, <2>1, RowsMakeMapping DEF Arranged, ServicesOfCluster
<1>6. PICK lk : Exact(lk, m, Existing) /\ ServiceGone(s, lk, m)
  <2>1. CASE DeleteService(s)
    <3>1. m = hc /\ ServiceGone(s, link, m)
      BY <2>1 DEF DeleteService, m
    <3> QED
      BY <3>1, ExactNow
  <2>2. CASE DeleteServiceByTask(s)
    <3>1. ServiceGone(s, ConcernsUpdated(k, m), m)
      BY <2>2 DEF DeleteServiceByTask, m
    <3>2. Exact(ConcernsUpdated(k, m), m, Existing)
      BY <1>1, <1>5, UpdatedExact
    <3> QED
      BY <3>1, <3>2
  <2> QED
    BY <2>1, <2>2
<1> DEFINE has == ClusterMappingHasIssue(k, rest, HostsOfCluster(k), m)
           issue == <<k, "hostcomponent">>
<1>7. /\ link' = IssueRechecked(WithoutObjects(lk, gone), issue, has, MappingTargets(m, k, rest))
      /\ hc' = m /\ services' = services \ {s} /\ UNCHANGED <<clusters, hostCluster>>
  BY <1>6 DEF ServiceGone, MappingTargets
<1>8. has \in BOOLEAN
  BY DEF ClusterMappingHasIssue
<1>9. Existing' = Existing \ gone
  <2>1. \A o \in clusters \cup hosts \cup Provider : o \notin Service \cup Component
    BY <1>1, TopologyAssumption DEF Objects
  <2>2. \A o : o \in gone => o \in Service \cup Component
    BY <1>1 DEF ComponentsIn
  <2>3. \A o \in services : o \in Service /\ o \notin Component
    BY <1>1, TopologyAssumption DEF Objects
  <2>4. Existing' = clusters \cup (services \ {s}) \cup ComponentsIn(services \ {s}) \cup hosts \cup Provider
    BY <1>7 DEF Existing, hosts, ComponentsIn
  <2>5. ASSUME NEW o
        PROVE  o \in (services \ {s}) \cup ComponentsIn(services \ {s})
                 <=> o \in services \cup ComponentsIn(services) /\ o \notin gone
    BY <1>1, <2>3 DEF ComponentsIn
  <2> HIDE DEF gone
  <2> QED
    BY <2>1, <2>2, <2>4, <2>5 DEF Existing
<1>10. Exact(WithoutObjects(lk, gone), m, Existing \ gone)
  BY <1>6, ExactWithoutObjects
<1>11. MappingTargets(m, k, rest) \subseteq Existing \ gone
  <2>1. MappedHosts(m, k) \subseteq Existing /\ MappedHosts(m, k) \subseteq Host
    BY <1>5, MappedExist DEF Arranged, MappedHosts, RowsOf, Mapping
  <2>2. \A o \in Cluster \cup Host : o \notin gone
    BY <1>1, TopologyAssumption DEF ComponentsIn
  <2>3. rest \cup ComponentsIn(rest) \subseteq Existing
    BY DEF ServicesOfCluster, Existing, ComponentsIn
  <2>4. \A o \in rest \cup ComponentsIn(rest) : o \notin gone
    BY <1>1, TypesAreDisjoint DEF ServicesOfCluster, ServicesIn, ComponentsIn
  <2>5. k \in Existing
    BY <1>1 DEF Existing
  <2> HIDE DEF gone, rest
  <2> QED
    BY <1>1, <2>1, <2>2, <2>3, <2>4, <2>5 DEF MappingTargets
<1>12. ASSUME NEW q \in Existing \ gone PROVE Fits(m, issue, q, MappingTargets(m, k, rest))
  <2>1. OwnerInServices(q, k, rest) /\ q \in AdcmObject
    <3>1. q \in WithServices(k, ServicesOfCluster(k))
      BY DEF WithServices
    <3>2. ServicesOfCluster(k) \in SUBSET ServicesIn(k)
      BY DEF ServicesOfCluster
    <3>3. OwnerInServices(q, k, ServicesOfCluster(k)) /\ q \in AdcmObject
      BY <1>1, <3>1, <3>2, OwnersInServices
    <3>4. q # s /\ (q \in Component => serviceOf[q] # s)
      BY DEF ComponentsIn
    <3> QED
      BY <3>3, <3>4 DEF OwnerInServices
  <2>2. rest \in SUBSET ServicesIn(k) /\ m \in Mapping /\ issue[1] = k
    BY <1>5 DEF ServicesOfCluster, Arranged
  <2> QED
    BY <1>1, <2>1, <2>2, MappingIssueFits
<1> HIDE DEF k, gone, rest, has, issue
<1>13. Exact(link', m, Existing \ gone)
  BY <1>7, <1>8, <1>10, <1>11, <1>12, ExactRechecked
<1> QED
  BY <1>7, <1>9, <1>13 DEF LinkInv, Exact

LEMMA DeleteClusterLinks ==
  ASSUME Consistent, LinkInv, NEW k \in Cluster, DeleteCluster(k)
  PROVE  LinkInv'
<1> DEFINE svcs == ServicesOfCluster(k)
           gone == {k} \cup svcs \cup ComponentsIn(svcs)
           m == hc \ RowsOf(hc, k)
<1>1. /\ k \in clusters /\ clusters' = clusters \ {k} /\ services' = services \ svcs /\ hc' = m
      /\ hostCluster' = [h \in hosts |-> IF hostCluster[h] = k THEN None ELSE hostCluster[h]]
      /\ link' = WithoutObjects(link, gone)
  BY DEF DeleteCluster
<1>2. Objects /\ hc \in Mapping
  BY RowsOfObjects DEF Consistent
<1>3. ASSUME NEW h \in Host, NEW d \in Component, clusterOf[serviceOf[d]] # k
      PROVE  <<h, d>> \in m <=> <<h, d>> \in hc
  <2>1. <<h, d>> \notin RowsOf(hc, k)
    BY <1>3 DEF RowsOf, ComponentCluster
  <2> QED
    BY <2>1
<1>4. m \in Mapping
  BY <1>2 DEF Mapping
<1> HIDE DEF m
<1>5. \A o : o \in services \ svcs <=> o \in services /\ o \in Service /\ clusterOf[o] # k
  BY <1>2 DEF ServicesOfCluster, ServicesIn, Objects
<1>6. ASSUME NEW o \in Existing PROVE o \notin gone <=> Elsewhere(o, k)
  <2>1. /\ o \in Service => (o \in svcs <=> clusterOf[o] = k)
        /\ o \in Component => (o \in ComponentsIn(svcs) <=> clusterOf[serviceOf[o]] = k)
    <3>1. o \in Service => o \in services
      BY <1>2, ExistingByType
    <3>2. o \in Component => serviceOf[o] \in services
      BY <1>2, ExistingByType
    <3>3. services \subseteq Service
      BY <1>2 DEF Objects
    <3> QED
      BY <3>1, <3>2, <3>3 DEF ServicesOfCluster, ServicesIn, ComponentsIn
  <2>2. (o \in svcs => o \in Service) /\ (o \in ComponentsIn(svcs) => o \in Component)
    BY DEF ServicesOfCluster, ServicesIn, ComponentsIn
  <2> QED
    BY <2>1, <2>2, TypesAreDisjoint DEF Elsewhere
<1>7. Existing' = Existing \ gone
  <2>1. Existing' = (clusters \ {k}) \cup (services \ svcs) \cup ComponentsIn(services \ svcs) \cup hosts \cup Provider
    BY <1>1 DEF Existing, hosts, ComponentsIn
  <2>2. ASSUME NEW o
        PROVE  o \in (services \ svcs) \cup ComponentsIn(services \ svcs)
                 <=> o \in services \cup ComponentsIn(services) /\ o \notin svcs \cup ComponentsIn(svcs)
    <3>1. services \cup svcs \subseteq Service
      BY <1>2 DEF Objects, ServicesOfCluster
    <3> QED
      BY <3>1, TypesAreDisjoint DEF ComponentsIn
  <2>3. \A o \in clusters \cup hosts \cup Provider : o \notin svcs \cup ComponentsIn(svcs)
    BY <1>2, TopologyAssumption DEF Objects, ServicesOfCluster, ServicesIn, ComponentsIn
  <2>4. k \notin services \cup ComponentsIn(services) \cup hosts \cup Provider
    BY <1>2, TopologyAssumption DEF Objects, ComponentsIn
  <2> HIDE DEF svcs
  <2> QED
    BY <2>1, <2>2, <2>3, <2>4 DEF Existing
<1> HIDE DEF gone, svcs
<1>8. Exact(link', hc, Existing \ gone)
  BY <1>1, ExactNow, ExactWithoutObjects
<1>9. \A c \in DOMAIN link' : c[1] \in Existing \ gone
  BY <1>1 DEF WithoutObjects, Consistent, Owned
<1>10. Existing \subseteq AdcmObject
  BY <1>2, ExistingByType
<1>11. ASSUME NEW c \in DOMAIN link', c[2] # "lock", NEW q \in Existing \ gone PROVE Fits(m, c, q, link'[c])
  <2>1. Fits(hc, c, q, link'[c])
    BY <1>8, <1>11 DEF Exact
  <2>2. /\ Elsewhere(c[1], k) /\ Elsewhere(q, k)
        /\ c[1] \in AdcmObject /\ q \in AdcmObject
    BY <1>6, <1>9, <1>10
  <2>3. /\ q \in Near(m, c[1]) <=> q \in Near(hc, c[1])
        /\ q \in LockTargets(m, c[1]) <=> q \in LockTargets(hc, c[1])
    BY <1>2, <1>3, <1>4, <2>2, FarStays
  <2> QED
    BY <2>1, <2>3 DEF Fits
<1> QED
  BY <1>1, <1>7, <1>8, <1>11 DEF LinkInv, Exact

(* A host nothing is mapped to is near itself and its provider only.       *)
LEMMA UnmappedHost ==
  ASSUME NEW mp \in Mapping, NEW h \in Host, \A d \in Component : <<h, d>> \notin mp, NEW o \in AdcmObject
  PROVE  /\ h \in Near(mp, o) <=> o = h \/ o = providerOf[h]
         /\ h \in LockTargets(mp, o) <=> h \in Near(mp, o)
         /\ o \in Near(mp, h) <=> o = h
<1>1. o \in Cluster \cup Service \cup Component \cup Host \cup Provider /\ providerOf[h] \in Provider
  BY TopologyAssumption DEF AdcmObject
<1>2. CASE o \in Host \cup Provider
  <2>1. Near(mp, o) = LockTargets(mp, o) /\ (h \in Near(mp, o) <=> h = o \/ (o \in Provider /\ providerOf[h] = o))
    BY <1>2, NearOfHostOwner
  <2>2. CASE o \in Host
    <3>1. \A q \in Host : q \in Near(mp, h) <=> q = h
      BY NearHosts
    <3> QED
      BY <1>1, <2>1, <2>2, <3>1
  <2>3. CASE o \in Provider
    <3>1. o \notin Near(mp, h) /\ o # h
      BY <2>3, NearHosts, TopologyAssumption
    <3> QED
      BY <1>1, <2>1, <2>3, <3>1
  <2> QED
    BY <1>2, <2>2, <2>3
<1>3. CASE o \in Cluster \cup Service \cup Component
  <2>1. o # h /\ o # providerOf[h]
    BY <1>1, <1>3, TopologyAssumption
  <2>2. Near(mp, o) \subseteq LockTargets(mp, o)
    BY NearIsCovered
  <2>3. h \notin LockTargets(mp, o)
    <3>1. CASE o \in Cluster
      BY <3>1, ClusterCovers
    <3>2. CASE o \in Service
      BY <3>2, ServiceCovers
    <3>3. CASE o \in Component
      BY <3>3, ComponentCovers
    <3> QED
      BY <1>3, <3>1, <3>2, <3>3
  <2>4. o \notin Near(mp, h)
    <3>1. ASSUME NEW q \in Cluster, q \in Near(mp, h)
          PROVE  \E c \in Component : <<h, c>> \in mp /\ clusterOf[serviceOf[c]] = q
      BY <3>1, NearHosts
    <3>2. ASSUME NEW q \in Service, q \in Near(mp, h)
          PROVE  \E c \in Component : <<h, c>> \in mp /\ serviceOf[c] = q
      BY <3>2, NearHosts
    <3>3. \A q \in Component : q \in Near(mp, h) <=> <<h, q>> \in mp
      BY NearHosts
    <3> QED
      BY <1>3, <3>1, <3>2, <3>3
  <2> QED
    BY <2>1, <2>2, <2>3, <2>4
<1> QED
  BY <1>1, <1>2, <1>3

LEMMA NoRowsOfHost ==
  ASSUME Objects, NEW h \in Host, h \notin hosts \/ hostCluster[h] = None
  PROVE  \A d \in Component : <<h, d>> \notin hc
<1> SUFFICES ASSUME NEW d \in Component, <<h, d>> \in hc PROVE FALSE
  OBVIOUS
<1>1. h \in HostsOfCluster(clusterOf[serviceOf[d]])
  BY RowsOfObjects DEF RowsInClusters
<1>2. clusterOf[serviceOf[d]] # None
  BY ClusterOfComponent DEF ComponentCluster
<1> QED
  BY <1>1, <1>2 DEF HostsOfCluster

(* A provider has no issue but that of its config.                         *)
LEMMA ConcernsOfProvider ==
  ASSUME Consistent, Told, NEW c \in DOMAIN link, c[1] \in Provider
  PROVE  c[2] \in {"flag", "lock"} \/ c = <<c[1], "config">>
<1>1. c \in Concern
  BY DEF Consistent, Owned
<1>2. PICK o, kind : c = <<o, kind>> /\ kind \in Issue \cup {"flag", "lock"}
  BY <1>1 DEF Concern
<1>3. o \in Provider /\ o \notin Cluster /\ o \notin Service /\ o \in AdcmObject
  BY <1>2, TopologyAssumption DEF AdcmObject
<1>4. Has(o, kind)
  BY <1>2 DEF Has
<1>5. kind # "import"
  BY <1>3, <1>4, BundleAssumption DEF Told, ImportTold
<1>6. kind # "service" /\ kind # "hostcomponent" /\ kind # "requirement"
  BY <1>3, <1>4 DEF Told, ServiceTold, MappingTold, RequirementTold, Consistent, Objects
<1> QED
  BY <1>2, <1>5, <1>6 DEF Issue

LEMMA HostCreatedLinks ==
  ASSUME Consistent, Told, LinkInv, NEW h \in Host, NEW k, HostCreated(h, k)
  PROVE  LinkInv'
<1> DEFINE p == providerOf[h]
           inherited == ({<<p, "config">>} \cap DOMAIN link) \cup LockOn(link, p)
           first == [c \in DOMAIN link |-> IF c \in inherited THEN link[c] \cup {h} ELSE link[c]]
           issues == ConfigIssues({h})
<1>1. /\ h \notin hosts /\ link' = With(first, issues, {h}) /\ UNCHANGED <<clusters, services, hc>>
      /\ hostCluster' = [n \in hosts \cup {h} |-> IF n = h THEN k ELSE hostCluster[n]]
  BY DEF HostCreated
<1>2. Objects /\ hc \in Mapping /\ \A c \in DOMAIN link : c[1] \in Existing
  BY RowsOfObjects DEF Consistent, Owned
<1>3. Existing' = Existing \cup {h} /\ h \notin Existing
  <2>1. hosts' = hosts \cup {h}
    BY <1>1 DEF hosts
  <2>2. h \notin Existing
    BY <1>1, <1>2, ExistingByType
  <2> QED
    BY <1>1, <2>1, <2>2 DEF Existing
<1>4. \A d \in Component : <<h, d>> \notin hc
  BY <1>1, <1>2, NoRowsOfHost
<1>5. h \in AdcmObject /\ p \in Provider /\ p \in AdcmObject /\ p # h
  BY TopologyAssumption DEF AdcmObject
<1>6. \A c \in issues : c[1] = h
  BY DEF ConfigIssues
<1>7. ASSUME NEW c \in DOMAIN link'
      PROVE  \/ c[1] = h /\ link'[c] = {h}
             \/ c \in DOMAIN link /\ c[1] # h /\ link'[c] = first[c]
  BY <1>1, <1>2, <1>3, <1>6, <1>7 DEF With
<1>8. ASSUME NEW c \in DOMAIN link, c \in inherited PROVE c[2] = "lock" \/ (c[1] = p /\ c[2] = "config")
  BY <1>8 DEF LockOn
<1>9. ASSUME NEW c \in DOMAIN link, c[1] = p, c[2] \notin {"flag", "lock"} PROVE c \in inherited
  <2>1. c = <<p, "config">>
    BY <1>5, <1>9, ConcernsOfProvider
  <2> QED
    BY <2>1
<1>10. \A c \in DOMAIN link : first[c] = IF c \in inherited THEN link[c] \cup {h} ELSE link[c]
  OBVIOUS
<1> HIDE DEF p, inherited, first, issues
<1>11. ASSUME NEW c \in DOMAIN link' PROVE link'[c] \subseteq Existing'
  <2>1. CASE link'[c] = {h}
    BY <1>3, <2>1
  <2>2. CASE c \in DOMAIN link /\ link'[c] = first[c]
    BY <1>3, <1>10, <2>2 DEF LinkInv
  <2> QED
    BY <1>7, <2>1, <2>2
<1>12. ASSUME NEW c \in DOMAIN link', c[2] # "lock", NEW q \in Existing' PROVE Fits(hc, c, q, link'[c])
  <2>1. q = h \/ (q \in Existing /\ q # h /\ q \in AdcmObject)
    BY <1>2, <1>3, ExistingByType
  <2>2. CASE c[1] = h /\ link'[c] = {h}
    <3>1. \A o \in AdcmObject : o \in Near(hc, h) <=> o = h
      BY <1>2, <1>4, UnmappedHost
    <3>2. h \in LockTargets(hc, h)
      BY <1>2, <1>4, <1>5, UnmappedHost
    <3> QED
      BY <1>5, <2>1, <2>2, <3>1, <3>2 DEF Fits
  <2>3. CASE c \in DOMAIN link /\ c[1] # h /\ link'[c] = first[c]
    <3>1. link'[c] = link[c] \/ link'[c] = link[c] \cup {h}
      BY <1>10, <2>3
    <3>2. CASE q # h
      <4>1. Fits(hc, c, q, link[c])
        BY <1>12, <2>1, <2>3, <3>2 DEF LinkInv
      <4> QED
        BY <3>1, <3>2, <4>1 DEF Fits
    <3>3. CASE q = h
      <4>1. c[1] \in AdcmObject
        BY <1>2, <2>3, ExistingByType
      <4>2. /\ h \in Near(hc, c[1]) <=> c[1] = p
            /\ h \in LockTargets(hc, c[1]) <=> h \in Near(hc, c[1])
        BY <1>2, <1>4, <2>3, <4>1, UnmappedHost DEF p
      <4>3. h \notin link[c]
        BY <1>3, <2>3 DEF LinkInv
      <4>4. h \in link'[c] <=> c \in inherited
        BY <1>10, <2>3, <4>3
      <4>5. c \in inherited => c[1] = p
        BY <1>8, <1>12, <2>3
      <4>6. c[1] = p => c \in inherited \/ Spared(c, h)
        BY <1>5, <1>9, <1>12, <2>3 DEF Spared
      <4> QED
        BY <3>3, <4>2, <4>4, <4>5, <4>6 DEF Fits
    <3> QED
      BY <3>2, <3>3
  <2> QED
    BY <1>7, <2>2, <2>3
<1> QED
  BY <1>1, <1>11, <1>12 DEF LinkInv

(* Concerns and mapping of the same objects: only links change.            *)
LEMMA LinksOfSame ==
  ASSUME Exact(link', hc, Existing), UNCHANGED <<clusters, services, hc>>, hosts' = hosts
  PROVE  LinkInv'
<1>1. Existing' = Existing
  BY DEF Existing
<1> QED
  BY <1>1 DEF Exact, LinkInv

(* Issues and locks go where the owner's lock would, flags nearby.         *)
LEMMA TargetsFit ==
  ASSUME Objects, NEW c, c[1] \in AdcmObject, NEW q \in Existing
  PROVE  /\ \A kind : kind # "flag" => Fits(hc, c, q, Targets(kind, c[1]))
         /\ q \in Targets("flag", c[1]) <=> q \in Near(hc, c[1])
<1>1. hc \in Mapping
  BY RowsOfObjects
<1>2. Near(hc, c[1]) \subseteq LockTargets(hc, c[1])
  BY <1>1, NearIsCovered
<1>3. ASSUME NEW kind, kind # "flag" PROVE Targets(kind, c[1]) = Existing \cap LockTargets(hc, c[1])
  BY <1>3 DEF Targets
<1>4. Targets("flag", c[1]) = Existing \cap Near(hc, c[1])
  BY TypesAreDisjoint DEF Targets, Near
<1> QED
  BY <1>2, <1>3, <1>4 DEF Fits

LEMMA TargetsExist == \A kind, o : Targets(kind, o) \subseteq Existing
  BY DEF Targets

LEMMA AddHostToClusterLinks ==
  ASSUME Consistent, LinkInv, NEW h \in Host, NEW k \in Cluster, AddHostToCluster(h, k)
  PROVE  LinkInv'
<1> DEFINE has == ClusterMappingHasIssue(k, ServicesOfCluster(k), HostsOfCluster(k) \cup {h}, hc)
           issue == <<k, "hostcomponent">>
           targets == Targets("hostcomponent", k)
<1>1. /\ link' = IssueRechecked(link, issue, has, targets)
      /\ UNCHANGED <<clusters, services, hc>> /\ hosts' = hosts
  BY DEF AddHostToCluster, hosts
<1>2. has \in BOOLEAN /\ targets \in SUBSET Existing
  BY TargetsExist DEF ClusterMappingHasIssue
<1>3. ASSUME NEW q \in Existing PROVE Fits(hc, issue, q, targets)
  <2>1. issue[1] = k /\ k \in AdcmObject /\ Objects
    BY DEF AdcmObject, Consistent
  <2> QED
    BY <2>1, TargetsFit
<1>4. Exact(link, hc, Existing)
  BY ExactNow
<1> HIDE DEF has, issue, targets
<1>5. Exact(link', hc, Existing)
  BY <1>1, <1>2, <1>3, <1>4, ExactRechecked
<1> QED
  BY <1>1, <1>5, LinksOfSame

LEMMA ImportsLinks ==
  ASSUME Consistent, LinkInv, NEW o \in AdcmObject, SetImports(o)
  PROVE  LinkInv'
<1> DEFINE has == o \notin imported'
           issue == <<o, "import">>
           targets == Targets("import", o)
<1>1. /\ link' = IssueRechecked(link, issue, has, targets)
      /\ UNCHANGED <<clusters, services, hc>> /\ hosts' = hosts
  BY DEF SetImports, hosts
<1>2. has \in BOOLEAN /\ targets \in SUBSET Existing
  BY TargetsExist
<1>3. ASSUME NEW q \in Existing PROVE Fits(hc, issue, q, targets)
  <2>1. issue[1] = o /\ Objects
    BY DEF Consistent
  <2> QED
    BY <2>1, TargetsFit
<1>4. Exact(link, hc, Existing)
  BY ExactNow
<1> HIDE DEF has, issue, targets
<1>5. Exact(link', hc, Existing)
  BY <1>1, <1>2, <1>3, <1>4, ExactRechecked
<1> QED
  BY <1>1, <1>5, LinksOfSame

LEMMA ExactWithout ==
  ASSUME NEW lk, NEW cs, Exact(lk, hc, Existing)
  PROVE  Exact(Without(lk, cs), hc, Existing)
  BY DEF Exact, Without

LEMMA ExactRaised ==
  ASSUME Consistent, NEW lk, Exact(lk, hc, Existing), NEW o \in AdcmObject
  PROVE  Exact(Raised(lk, o), hc, Existing)
<1> DEFINE flag == <<o, "flag">>
           row == (IF flag \in DOMAIN lk THEN lk[flag] ELSE {}) \cup Targets("flag", o)
<1>1. Raised(lk, o) = With(lk, {flag}, row)
  BY DEF Raised
<1>2. row \subseteq Existing
  BY TargetsExist DEF Exact
<1>3. flag[1] = o /\ flag[2] = "flag" /\ Objects /\ hc \in Mapping
  BY RowsOfObjects DEF Consistent
<1> HIDE DEF flag
<1>4. ASSUME NEW q \in Existing PROVE Fits(hc, flag, q, row)
  <2>1. q \in Targets("flag", o) <=> q \in Near(hc, o)
    BY <1>3, TargetsFit
  <2>2. Near(hc, o) \subseteq LockTargets(hc, o)
    BY <1>3, NearIsCovered
  <2>3. CASE flag \in DOMAIN lk
    <3>1. Fits(hc, flag, q, lk[flag])
      BY <1>3, <2>3 DEF Exact
    <3> QED
      BY <1>3, <2>1, <2>2, <2>3, <3>1 DEF Fits
  <2>4. CASE flag \notin DOMAIN lk
    BY <1>3, <2>1, <2>2, <2>4 DEF Fits
  <2> QED
    BY <2>3, <2>4
<1> HIDE DEF row
<1>5. ASSUME NEW c \in DOMAIN With(lk, {flag}, row)
      PROVE  \/ c = flag /\ With(lk, {flag}, row)[c] = row
             \/ c \in DOMAIN lk /\ With(lk, {flag}, row)[c] = lk[c]
  BY DEF With
<1> QED
  BY <1>1, <1>2, <1>4, <1>5 DEF Exact

LEMMA FlagLinks ==
  ASSUME Consistent, LinkInv, NEW o \in AdcmObject,
         SaveConfig(o) \/ SaveGroupConfig(o) \/ SaveConfigByPlugin(o) \/ RaiseFlag(o) \/ LowerFlag(o)
  PROVE  LinkInv'
<1>1. UNCHANGED <<clusters, services, hc>> /\ hosts' = hosts
  BY DEF SaveConfig, SaveGroupConfig, SaveConfigByPlugin, RaiseFlag, LowerFlag, hosts
<1>2. Exact(link, hc, Existing)
  BY ExactNow
<1>3. Exact(link', hc, Existing)
  <2>1. CASE SaveConfig(o) \/ SaveGroupConfig(o)
    <3> DEFINE saved == Without(link, {<<o, "config">>})
    <3>1. link' \in OutdatedConfigFlag(saved, o)
      BY <2>1 DEF SaveConfig, SaveGroupConfig
    <3>2. Exact(saved, hc, Existing)
      BY <1>2, ExactWithout
    <3> HIDE DEF saved
    <3>3. link' = saved \/ link' = Raised(saved, o)
      BY <3>1 DEF OutdatedConfigFlag
    <3> QED
      BY <3>2, <3>3, ExactRaised
  <2>2. CASE SaveConfigByPlugin(o)
    BY <1>2, <2>2 DEF SaveConfigByPlugin
  <2>3. CASE RaiseFlag(o)
    BY <1>2, <2>3, ExactRaised DEF RaiseFlag
  <2>4. CASE LowerFlag(o)
    BY <1>2, <2>4, ExactWithout DEF LowerFlag
  <2> QED
    BY <2>1, <2>2, <2>3, <2>4
<1> QED
  BY <1>1, <1>3, LinksOfSame

LEMMA OwnLockLinks ==
  ASSUME LinkInv, NEW o, TakeLock(o) \/ ReleaseLock(o)
  PROVE  LinkInv'
<1>1. UNCHANGED <<clusters, services, hc>> /\ hosts' = hosts
  BY DEF TakeLock, ReleaseLock, hosts
<1>2. Exact(link, hc, Existing)
  BY ExactNow
<1>3. CASE TakeLock(o)
  <2> DEFINE lock == <<o, "lock">>
  <2>1. link' = With(link, {lock}, Targets("lock", o)) /\ lock[2] = "lock"
    BY <1>3 DEF TakeLock
  <2> HIDE DEF lock
  <2>2. ASSUME NEW c \in DOMAIN link'
        PROVE  \/ c = lock /\ link'[c] = Targets("lock", o)
               \/ c \in DOMAIN link /\ link'[c] = link[c]
    <3>1. link'[c] = With(link, {lock}, Targets("lock", o))[c] /\ c \in DOMAIN With(link, {lock}, Targets("lock", o))
      BY <2>1, <2>2
    <3> QED
      BY <3>1 DEF With
  <2>3. ASSUME NEW c \in DOMAIN link'
        PROVE  /\ link'[c] \subseteq Existing
               /\ c[2] # "lock" => \A q \in Existing : Fits(hc, c, q, link'[c])
    <3>1. CASE c = lock /\ link'[c] = Targets("lock", o)
      BY <2>1, <3>1, TargetsExist
    <3>2. CASE c \in DOMAIN link /\ link'[c] = link[c]
      BY <1>2, <3>2 DEF Exact
    <3> QED
      BY <2>2, <3>1, <3>2
  <2> QED
    BY <1>1, <2>3, LinksOfSame DEF Exact
<1>4. CASE ReleaseLock(o)
  <2>1. Exact(link', hc, Existing)
    BY <1>2, <1>4, ExactWithout DEF ReleaseLock
  <2> QED
    BY <1>1, <2>1, LinksOfSame
<1> QED
  BY <1>3, <1>4

LEMMA RemoveHostLinks ==
  ASSUME LinkInv, NEW h \in Host, RemoveHostFromCluster(h)
  PROVE  LinkInv'
<1> DEFINE k == hostCluster[h]
           lk == [c \in DOMAIN link |-> IF c \in LockOn(link, k) THEN link[c] \ {h} ELSE link[c]]
<1>1. UNCHANGED <<clusters, services, hc>> /\ hosts' = hosts
  BY DEF RemoveHostFromCluster, hosts
<1>2. link' = lk \/ link' = Without(lk, {<<k, "hostcomponent">>})
  BY DEF RemoveHostFromCluster
<1>3. \A c \in LockOn(link, k) : c[2] = "lock"
  BY DEF LockOn
<1>4. Exact(lk, hc, Existing)
  BY <1>3, ExactNow DEF Exact
<1> HIDE DEF lk
<1>5. Exact(link', hc, Existing)
  BY <1>2, <1>4, ExactWithout
<1> QED
  BY <1>1, <1>5, LinksOfSame

LEMMA DeleteHostLinks ==
  ASSUME Consistent, LinkInv, NEW h \in Host, DeleteHost(h)
  PROVE  LinkInv'
<1> DEFINE gone == {h}
<1>1. /\ link' = WithoutObjects(link, gone) /\ UNCHANGED <<clusters, services, hc>>
      /\ hostCluster' = [n \in hosts \ {h} |-> hostCluster[n]]
  BY DEF DeleteHost
<1>2. Existing' = Existing \ gone
  <2>1. hosts' = hosts \ {h}
    BY <1>1 DEF hosts
  <2>2. h \notin clusters \cup services \cup ComponentsIn(services) \cup Provider
    BY TopologyAssumption DEF Consistent, Objects, ComponentsIn
  <2> QED
    BY <1>1, <2>1, <2>2 DEF Existing
<1>3. Exact(link', hc, Existing \ gone)
  BY <1>1, ExactNow, ExactWithoutObjects
<1> QED
  BY <1>1, <1>2, <1>3 DEF LinkInv, Exact

LEMMA LinksInit == Init => LinkInv
<1> SUFFICES ASSUME Init, NEW c \in DOMAIN link
             PROVE  /\ link[c] \subseteq Existing
                    /\ c[2] # "lock" => \A q \in Existing : Fits(hc, c, q, link[c])
  BY DEF LinkInv
<1>1. Existing = Provider /\ hc = {}
  BY DEF Init, Existing, ComponentsIn, hosts
<1>2. PICK p \in Provider : c = <<p, "config">> /\ link[c] = {p}
  BY DEF Init, ConfigIssues
<1>3. hc \in Mapping
  BY <1>1 DEF Mapping
<1>4. ASSUME NEW q \in Existing PROVE Fits(hc, c, q, link[c])
  <2>1. q \in Provider /\ c[1] = p
    BY <1>1, <1>2
  <2>2. (q \in Near(hc, p) <=> q = p) /\ Near(hc, p) = LockTargets(hc, p)
    BY <2>1, NearProviders
  <2> QED
    BY <1>2, <2>1, <2>2 DEF Fits
<1> QED
  BY <1>1, <1>2, <1>4

LEMMA LinksStep == Consistent /\ Told /\ LinkInv /\ [Next]_vars => LinkInv'
<1> SUFFICES ASSUME Consistent, Told, LinkInv, [Next]_vars PROVE LinkInv'
  OBVIOUS
<1>1. CASE \E k \in Cluster : AddCluster(k) \/ DeleteCluster(k) \/ SetMapping(k) \/ ChangeMappingByTask(k)
  <2> PICK k \in Cluster : AddCluster(k) \/ DeleteCluster(k) \/ SetMapping(k) \/ ChangeMappingByTask(k)
    BY <1>1
  <2>1. CASE SetMapping(k) \/ ChangeMappingByTask(k)
    <3>1. PICK m \in Mappings(k) : MappingChanged(k, (hc \ RowsOf(hc, k)) \cup m)
      BY <2>1 DEF SetMapping, ChangeMappingByTask
    <3>2. k \in clusters
      BY <3>1, MappedClustersExist
    <3> QED
      BY <3>1, <3>2, MappingLinks
  <2> QED
    BY <2>1, AddClusterLinks, DeleteClusterLinks
<1>2. CASE \E k \in clusters, S \in SUBSET Service : AddServices(k, S)
  BY <1>2, AddServicesLinks
<1>3. CASE \E s \in Service : DeleteService(s) \/ DeleteServiceByTask(s)
  <2> PICK s \in Service : DeleteService(s) \/ DeleteServiceByTask(s)
    BY <1>3
  <2>1. s \in services
    BY DEF DeleteService, DeleteServiceByTask
  <2> QED
    BY <2>1, ServiceGoneLinks
<1>4. CASE \E h \in Host : AddHost(h) \/ RemoveHostFromCluster(h) \/ DeleteHost(h)
  BY <1>4, HostCreatedLinks, RemoveHostLinks, DeleteHostLinks DEF AddHost
<1>5. CASE \E h \in Host, k \in Cluster : CreateHostInCluster(h, k) \/ AddHostToCluster(h, k)
  BY <1>5, HostCreatedLinks, AddHostToClusterLinks DEF CreateHostInCluster
<1>6. CASE \E o \in AdcmObject :
             \/ SaveConfig(o) \/ SaveGroupConfig(o) \/ SaveConfigByPlugin(o)
             \/ RaiseFlag(o) \/ LowerFlag(o) \/ SetImports(o)
             \/ TakeLock(o) \/ ReleaseLock(o)
  BY <1>6, FlagLinks, ImportsLinks, OwnLockLinks
<1>7. CASE UNCHANGED vars
  <2>1. UNCHANGED <<clusters, services, hc, link>> /\ hosts' = hosts
    BY <1>7 DEF vars, hosts
  <2> QED
    BY <2>1, ExactNow, LinksOfSame DEF Exact
<1> QED
  BY <1>1, <1>2, <1>3, <1>4, <1>5, <1>6, <1>7 DEF Next

(* The cluster of a host is recorded for the hosts that exist.             *)
HostsRecorded == hostCluster = [h \in hosts |-> hostCluster[h]]

LEMMA HostsInit == Init => HostsRecorded
  BY DEF Init, HostsRecorded, hosts

LEMMA HostsStep == HostsRecorded /\ [Next]_vars => HostsRecorded'
<1> SUFFICES ASSUME HostsRecorded, [Next]_vars PROVE HostsRecorded'
  OBVIOUS
<1>1. ASSUME NEW h, NEW k, HostCreated(h, k) \/ AddHostToCluster(h, k) PROVE HostsRecorded'
  <2>1. CASE HostCreated(h, k)
    BY <2>1 DEF HostCreated, HostsRecorded, hosts
  <2>2. CASE AddHostToCluster(h, k)
    BY <2>2 DEF AddHostToCluster, HostsRecorded, hosts
  <2> QED
    BY <1>1, <2>1, <2>2
<1>2. ASSUME NEW h, RemoveHostFromCluster(h) \/ DeleteHost(h) PROVE HostsRecorded'
  <2>1. CASE RemoveHostFromCluster(h)
    BY <2>1 DEF RemoveHostFromCluster, HostsRecorded, hosts
  <2>2. CASE DeleteHost(h)
    BY <2>2 DEF DeleteHost, HostsRecorded, hosts
  <2> QED
    BY <1>2, <2>1, <2>2
<1>3. ASSUME NEW k, DeleteCluster(k) PROVE HostsRecorded'
  BY <1>3 DEF DeleteCluster, HostsRecorded, hosts
<1>4. CASE UNCHANGED hostCluster
  BY <1>4 DEF HostsRecorded, hosts
<1> QED
  BY <1>1, <1>2, <1>3, <1>4
     DEF Next, vars, AddHost, CreateHostInCluster, AddCluster, SetMapping, ChangeMappingByTask, MappingChanged,
         AddServices, DeleteService, DeleteServiceByTask, ServiceGone, SaveConfig, SaveGroupConfig,
         SaveConfigByPlugin, RaiseFlag, LowerFlag, SetImports, TakeLock, ReleaseLock

LEMMA TypesHold ==
  ASSUME Consistent, LockInv, LinkInv, HostsRecorded
  PROVE  TypeOK
<1>1. Objects /\ Owned
  BY DEF Consistent
<1>2. clusters \subseteq Cluster /\ services \subseteq {s \in Service : clusterOf[s] \in clusters} /\ hosts \subseteq Host
  BY <1>1 DEF Objects
<1>3. hostCluster \in [hosts -> clusters \cup {None}]
  BY <1>1 DEF Objects, HostsRecorded
<1>4. hc \in Mapping /\ \A m \in hc : m[1] \in HostsOfCluster(ComponentCluster(m[2]))
  BY <1>1, RowsAreMapping DEF Objects, RowInCluster, HostsOfCluster, hosts
<1>5. ComponentsOn(hc, Host) \subseteq ComponentsIn(services)
  <2> SUFFICES ASSUME NEW d \in Component, NEW h \in Host, <<h, d>> \in hc PROVE serviceOf[d] \in services
    BY DEF ComponentsOn, ComponentsIn
  <2>1. <<h, d>>[2] = d
    OBVIOUS
  <2> QED
    BY <1>1, <2>1 DEF Objects
<1>6. {c[1] : c \in {d \in DOMAIN link : d[2] = "lock"}} = DOMAIN locks
  <2>1. ASSUME NEW c \in DOMAIN link, c[2] = "lock" PROVE c[1] \in DOMAIN locks
    <3>1. c = <<c[1], c[2]>>
      BY <1>1, ConcernKinds DEF Owned
    <3> QED
      BY <2>1, <3>1 DEF LockInv, Has
  <2>2. ASSUME NEW o \in DOMAIN locks PROVE \E c \in DOMAIN link : c[2] = "lock" /\ c[1] = o
    <3>1. <<o, "lock">> \in DOMAIN link
      BY DEF LockInv, Has
    <3> QED
      BY <3>1
  <2> QED
    BY <2>1, <2>2
<1> QED
  BY <1>1, <1>2, <1>3, <1>4, <1>5, <1>6 DEF TypeOK, Owned, LinkInv

(* Issues and flags are linked to all they matter to and to nothing else,  *)
(* whichever of the ways of creating, distributing and redistributing them *)
(* came before, in any order and for any bundles and topology: what        *)
(* redistribute_issues_and_flags computes for a cluster, what              *)
(* distribute_concern_on_related_objects computes for a concern and what   *)
(* each operation leaves alone is the same.                                *)
THEOREM LinksFollowTopology == Spec => []LinksAreExact
<1>1. ASSUME Consistent, LockInv, LinkInv, HostsRecorded PROVE LinksAreExact
  <2>1. ASSUME NEW c \in DOMAIN link, c[2] # "lock"
        PROVE  /\ Targets("flag", c[1]) \ (IF c[2] = "flag" /\ c[1] \in Provider THEN Host ELSE {}) \subseteq link[c]
               /\ link[c] \subseteq Targets("lock", c[1])
    <3>1. Objects /\ c[1] \in AdcmObject
      BY <1>1, <2>1, ExistingByType DEF Consistent, Owned
    <3>2. link[c] \subseteq Existing /\ \A q \in Existing : Fits(hc, c, q, link[c])
      BY <1>1, <2>1 DEF LinkInv
    <3>3. Targets("lock", c[1]) = Existing \cap LockTargets(hc, c[1])
      BY DEF Targets
    <3>4. ASSUME NEW q \in Targets("flag", c[1]) PROVE q \in Existing /\ q \in Near(hc, c[1])
      <4>1. q \in Existing
        BY TargetsExist
      <4> QED
        BY <3>1, <4>1, TargetsFit
    <3> QED
      BY <3>2, <3>3, <3>4 DEF Fits, Spared
  <2>2. TypeOK
    BY <1>1, TypesHold
  <2> QED
    BY <2>1, <2>2 DEF LinksAreExact, LinksReachEverything, LinksStayInScope
<1> QED
  BY <1>1, ObjectsInit, ToldInit, ToldStep, LocksInit, LocksStep, LinksInit, LinksStep, HostsInit, HostsStep, PTL
     DEF Spec, Consistent

=============================================================================
