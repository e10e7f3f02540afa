------------------------------ MODULE LockScope ------------------------------
(***************************************************************************)
(* Which objects a lock (or another directly distributed concern) of an    *)
(* owner is linked to: distribute_concern_on_related_objects.  The mapping *)
(* hc is the set of HostComponent rows, as pairs <<host, component>>.      *)
(***************************************************************************)
CONSTANTS
  Cluster, Service, Component, Host, Provider,
  clusterOf,    \* [Service -> Cluster]
  serviceOf,    \* [Component -> Service]
  providerOf    \* [Host -> Provider]

ASSUME TopologyAssumption ==
  /\ clusterOf \in [Service -> Cluster]
  /\ serviceOf \in [Component -> Service]
  /\ providerOf \in [Host -> Provider]
  /\ Cluster \cap (Service \cup Component \cup Host \cup Provider) = {}
  /\ Service \cap (Component \cup Host \cup Provider) = {}
  /\ Component \cap (Host \cup Provider) = {}
  /\ Host \cap Provider = {}

AdcmObject == Cluster \cup Service \cup Component \cup Host \cup Provider

ComponentCluster(c) == clusterOf[serviceOf[c]]

(* The mappings a database may hold: a host belongs to one cluster.        *)
Mapping ==
  {hc \in SUBSET (Host \X Component) :
     \A m, n \in hc : m[1] = n[1] => ComponentCluster(m[2]) = ComponentCluster(n[2])}

ComponentsOn(hc, hosts) == {c \in Component : \E h \in hosts : <<h, c>> \in hc}
HostsWith(hc, components) == {h \in Host : \E c \in components : <<h, c>> \in hc}
ServicesOf(components) == {serviceOf[c] : c \in components}
ClustersOf(components) == {ComponentCluster(c) : c \in components}
ServicesIn(cl) == {s \in Service : clusterOf[s] = cl}
ComponentsIn(services) == {c \in Component : serviceOf[c] \in services}

(* _find_concern_distribution_targets, one definition per type of owner.   *)
ClusterTargets(hc, cl) ==
  LET components == ComponentsIn(ServicesIn(cl))
  IN  {cl} \cup ServicesIn(cl) \cup components \cup HostsWith(hc, components)

ServiceTargets(hc, s) ==
  LET components == ComponentsIn({s})
  IN  {s, clusterOf[s]} \cup components \cup HostsWith(hc, components)

(* Mutant: a component's lock does not reach what it is part of.           *)
ComponentAndHosts(hc, c) == {c} \cup HostsWith(hc, {c})

ComponentTargets(hc, c) ==
  {c, serviceOf[c], ComponentCluster(c)} \cup HostsWith(hc, {c})

HostTargets(hc, h) ==
  LET components == ComponentsOn(hc, {h})
  IN  {h} \cup ClustersOf(components) \cup ServicesOf(components) \cup components

ProviderTargets(hc, p) ==
  LET hosts == {h \in Host : providerOf[h] = p}
      components == ComponentsOn(hc, hosts)
  IN  {p} \cup hosts \cup ClustersOf(components) \cup ServicesOf(components) \cup components

(* _distribute_by_hosts: what shares a host with the targets.              *)
ByHosts(hc, targets) ==
  LET components == ComponentsOn(hc, targets \cap Host)
  IN  targets \cup components \cup ServicesOf(components)

(* distribute_concern_on_related_objects for a lock or an issue.           *)
LockTargets(hc, o) ==
  CASE o \in Cluster -> ClusterTargets(hc, o)
    [] o \in Service -> ByHosts(hc, ServiceTargets(hc, o))
    [] o \in Component -> ByHosts(hc, ComponentTargets(hc, o))
    [] o \in Host -> HostTargets(hc, o)
    [] OTHER -> ProviderTargets(hc, o)

(* Objects of a cluster see each other's locks or do not, both of them.    *)
(* Not so for providers: their locks cover hosts whose locks do not cover  *)
(* them.                                                                   *)
CoversMutually(hc) ==
  \A o, q \in AdcmObject \ Provider : o \in LockTargets(hc, q) => q \in LockTargets(hc, o)

=============================================================================
