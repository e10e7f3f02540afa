--------------------------- MODULE ClusterUpgrade ---------------------------
(***************************************************************************)
(* The upgrade of one cluster to a later bundle, and its revert.           *)
(*                                                                         *)
(* A request for an upgrade reads the cluster, writes down what the        *)
(* cluster and its parts are like (before_upgrade), and switches all of    *)
(* them to the new bundle, at once or by the task of the upgrade's action. *)
(* What the new bundle lacks is deleted, what it adds is created.  An      *)
(* action with the script bundle_revert goes back to what was written      *)
(* down.  Users, jobs and other requests change the cluster meanwhile.     *)
(***************************************************************************)
EXTENDS Naturals, FiniteSets

CONSTANTS
  Service, Component, Host,
  serviceOf,     \* [Component -> Service]
  TheCluster,
  None,
  MaxVersion,    \* bundles 1 .. MaxVersion of one name
  offered,       \* [bundle -> its services and components]
  configured,    \* [bundle -> those of its objects that have a config]
  added,         \* [bundle -> services in the hc_acl of the upgrade to it]
  Touched,       \* objects whose state and config jobs and users change
  Request,
  MaxChanges     \* bound: requests for upgrades, and changes by users and jobs

Bundle == 1..MaxVersion
Part == Service \cup Component
Object == {TheCluster} \cup Part
ComponentsOf(services) == {c \in Component : serviceOf[c] \in services}

ASSUME BundlesAssumption ==
  /\ serviceOf \in [Component -> Service]
  /\ Service \cap Component = {} /\ TheCluster \notin Part
  /\ MaxVersion \in Nat \ {0} /\ MaxChanges \in Nat
  /\ offered \in [Bundle -> SUBSET Part]
  /\ \A b \in Bundle : \A c \in offered[b] \cap Component : serviceOf[c] \in offered[b]
  /\ configured \in [Bundle -> SUBSET Object]
  /\ added \in [Bundle -> SUBSET Service] /\ \A b \in Bundle : added[b] \subseteq offered[b]
  /\ Touched \subseteq Object

VARIABLES
  row,        \* [Object -> its bundle, state, config and before_upgrade; None: no row]
  snap,       \* the cluster's before_upgrade besides its own state and config
  hc,         \* HostComponent: pairs <<host, component>>
  bound,      \* hosts of the cluster
  request,    \* [Request -> what it is about to do, and the cluster it has read]
  task,       \* the task that holds the cluster's lock
  changes,    \* requests and changes so far
  past,       \* rows and mapping when before_upgrade was written (history)
  since       \* what has happened to the cluster since then (history)

vars == <<row, snap, hc, bound, request, task, changes, past, since>>
history == <<past, since>>

(* The states operations look at; the others are like one of them.         *)
State == {"created", "upgrading"}
Config == {"default", "own"}
Kept == [state : State, config : Config \cup {None}]
Row == [bundle : Bundle, state : State, config : Config \cup {None}, before : Kept \cup {None}]

Plain == [bundle : Bundle, state : State, config : Config \cup {None}]

ASSUME NoneAssumption ==
  None \notin Object \cup Row \cup Plain \cup Kept \cup Config \cup {"upgrade", "upgraded", "revert", "reverted"}

(* deleted: what is kept of services the new bundle lacks, and of their    *)
(* components; dropped: of components of services it has.                  *)
NoSnap == [bundle |-> 0, services |-> {}, hc |-> {}, deleted |-> [o \in {} |-> None], dropped |-> [o \in {} |-> None]]

Request0(at) == [at |-> at, action |-> FALSE, target |-> 0, bundle |-> 0, state |-> "created", snap |-> NoSnap]

NoTask == [kind |-> None, target |-> 0]

Existing == {o \in Object : row[o] # None}
ServicesNow == Existing \cap Service
Current == row[TheCluster].bundle
Locked == task # NoTask

Bare(r) == IF r = None THEN None ELSE [bundle |-> r.bundle, state |-> r.state, config |-> r.config]
KeptOf(r) == [state |-> r.state, config |-> r.config]

(* A new object: init_object_config, no before_upgrade yet.                *)
New(b, o) ==
  [bundle |-> b, state |-> "created", config |-> IF o \in configured[b] THEN "default" ELSE None, before |-> None]

TypeOK ==
  /\ row \in [Object -> Row \cup {None}] /\ row[TheCluster] # None
  /\ snap.bundle \in 0..MaxVersion /\ snap.services \subseteq Service /\ snap.hc \subseteq Host \X Component
  /\ hc \subseteq Host \X (Existing \cap Component) /\ bound \subseteq Host
  /\ {m[1] : m \in hc} \subseteq bound
  /\ changes \in 0..MaxChanges

NoPast == [row |-> [o \in Object |-> None], hc |-> {}]

(* A cluster of the first bundle, with some of its services.               *)
Init ==
  /\ \E services \in SUBSET (offered[1] \cap Service) :
       /\ row = [o \in Object |->
                   IF o = TheCluster \/ o \in services \/ o \in offered[1] \cap ComponentsOf(services)
                     THEN New(1, o) ELSE None]
       /\ hc \in SUBSET (Host \X (offered[1] \cap ComponentsOf(services)))
  /\ bound = Host
  /\ snap = NoSnap
  /\ request = [r \in Request |-> Request0("idle")]
  /\ task = NoTask
  /\ changes = 0
  /\ past = NoPast
  /\ since = {}

Changed == changes < MaxChanges /\ changes' = changes + 1

-----------------------------------------------------------------------------
(* bundle_switch                                                           *)

(* switch_config: values of one's own are carried over, defaults become    *)
(* those of the new bundle.                                                *)
SwitchedRow(b, o) ==
  [row[o] EXCEPT !.bundle = b, !.config = IF @ = None THEN New(b, o).config ELSE @]

(* Services of the cluster after the switch; hc_acl adds some.             *)
ServicesAfter(b, adds) == (ServicesNow \cap offered[b]) \cup adds

(* Mutant: components the services of the cluster did not have are not     *)
(* created.                                                                *)
SwitchedExisting(b, adds) ==
  [o \in Object |->
     CASE o \in Existing /\ (o = TheCluster \/ o \in offered[b]) -> SwitchedRow(b, o)
       [] o \notin Existing /\ o \in adds \cup (offered[b] \cap ComponentsOf(adds)) -> New(b, o)
       [] OTHER -> None]

Switched(b, adds) ==
  LET services == ServicesAfter(b, adds)
      stays == {TheCluster} \cup services \cup (offered[b] \cap ComponentsOf(services))
  IN  [o \in Object |->
         CASE o \in stays \cap Existing -> SwitchedRow(b, o)
           [] o \in stays \ Existing -> New(b, o)
           [] OTHER -> None]

Merged(f, g) == [o \in DOMAIN f \cup DOMAIN g |-> IF o \in DOMAIN g THEN g[o] ELSE f[o]]

(* Mutant: nothing is kept of the components that go.                      *)
KeptServices(b) ==
  LET services == ServicesNow \ offered[b]
  IN  [snap EXCEPT !.deleted = Merged(@, [o \in services \cup (Existing \cap ComponentsOf(services)) |-> row[o].before])]

(* _get_before_upgrade_for_deleted_object of all that goes: what was       *)
(* written down, not what it is like now.                                  *)
KeptByCluster(b) ==
  LET services == ServicesNow \ offered[b]
      components == Existing \cap Component
      gone == services \cup (components \cap ComponentsOf(services))
      dropped == components \ (offered[b] \cup gone)
      updated == {serviceOf[c] : c \in dropped}
      others == [c \in DOMAIN snap.dropped \ ComponentsOf(updated) |-> snap.dropped[c]]
  IN  [snap EXCEPT !.deleted = Merged(@, [o \in gone |-> row[o].before]),
                   !.dropped = Merged(others, [c \in dropped |-> row[c].before])]

(* A KeyError: there is nothing to keep of an object that was not there    *)
(* when before_upgrade was written.                                        *)
SwitchRaises(b) == \E o \in (Existing \cap Part) \ offered[b] : row[o].before = None

BundleSwitch(b, adds) ==
  LET after == Switched(b, adds)
      old == IF snap.bundle \in Bundle THEN offered[snap.bundle] ELSE {}
      created == {o \in old \ Existing : after[o] # None}
  IN  /\ row' = after
      /\ snap' = KeptByCluster(b)
      /\ hc' = {m \in hc : after[m[2]] # None}
      /\ since' = since \cup (IF created # {} THEN {"created"} ELSE {})
                        \cup (IF snap.bundle # Current THEN {"overtaken"} ELSE {})

-----------------------------------------------------------------------------
(* bundle_revert                                                           *)

RevertedRow(b, o) ==
  IF row[o].bundle = b THEN row[o]
  ELSE [bundle |-> b, state |-> row[o].before.state, config |-> row[o].before.config, before |-> None]

(* Mutant: what was deleted comes back as it is in the bundle.             *)
AsNew(b, o, kept) == New(b, o)

(* _restore_deleted_objects *)
Restored(b, o, kept) ==
  [New(b, o) EXCEPT !.state = kept.state, !.config = IF kept.config = None THEN @ ELSE kept.config]

(* The objects that are there, or come back as their components, ...       *)
Kin(b) ==
  LET services == ServicesNow \cap offered[b]
  IN  {TheCluster} \cup services \cup (offered[b] \cap ComponentsOf(services))

(* ... without those of the bundle the cluster had; when it had the old    *)
(* one already these are all of them.                                      *)
Remaining(b) ==
  {o \in Existing \cup Kin(b) :
     o = TheCluster \/ (b # Current /\ (o \in Kin(b) \/ row[o].bundle # Current))}

Readded(b) ==
  LET services == snap.services \ Remaining(b)
  IN  services \cup (offered[b] \cap ComponentsOf(services))

Reverted(b) ==
  [o \in Object |->
     CASE o \in Remaining(b) \cap Existing /\ o \in Kin(b) -> RevertedRow(b, o)
       [] o \in Remaining(b) \ Existing -> Restored(b, o, snap.dropped[o])
       [] o \in Remaining(b) \ Kin(b) -> row[o]
       [] o \in Readded(b) -> Restored(b, o, snap.deleted[o])
       [] OTHER -> None]

(* What keeps bundle_revert from its end: a service or component without a *)
(* state to go back to, because a user or the switch has added it since; a *)
(* service, or a component of a remaining service, that is gone and of     *)
(* which nothing was kept; a host that left the cluster; services the old  *)
(* bundle lacks, and rows of the mapping for components it lacks, in what  *)
(* a request wrote down when another one had upgraded the cluster.         *)
Obstacles ==
  LET b == snap.bundle
      met(kind, raises) == IF raises THEN {kind} ELSE {}
  IN  met("added", \E o \in Existing \cap Kin(b) : row[o].bundle # b /\ row[o].before = None)
        \cup met("lost", \E o \in Remaining(b) \ Existing : row[serviceOf[o]].before # None /\ o \notin DOMAIN snap.dropped)
        \cup met("deleted", \E o \in Readded(b) : o \notin DOMAIN snap.deleted)
        \cup met("left", \E m \in snap.hc : m[1] \notin bound)
        \cup met("overtaken", \/ ~(snap.services \subseteq offered[b])
                              \/ \E m \in snap.hc : m[2] \notin Remaining(b) \cup Readded(b))

-----------------------------------------------------------------------------
(* Requests for an upgrade                                                 *)

(* check_upgrade: no lock, a later version; the cluster stays in memory.   *)
CheckUpgrade(r, action, b) ==
  /\ request[r].at = "idle"
  /\ ~Locked /\ b > Current /\ Changed
  /\ request' = [request EXCEPT ![r] = [at |-> "checked", action |-> action, target |-> b, bundle |-> Current,
                                        state |-> row[TheCluster].state, snap |-> snap]]
  /\ UNCHANGED <<row, snap, hc, bound, task, history>>

(* Mutant: the components are forgotten.                                   *)
WrittenOfServices(o) == IF o \in Component THEN row[o].before ELSE KeptOf(row[o])

(* _set_before_upgrade *)
Written(o) == KeptOf(row[o])

(* _update_before_upgrade, over the cluster that was read by the check.    *)
WriteBeforeUpgrade(r) ==
  LET seen == request[r]
      written == [o \in Object |-> IF row[o] = None THEN None ELSE [row[o] EXCEPT !.before = Written(o)]]
  IN  /\ seen.at = "checked"
      /\ row' = [written EXCEPT ![TheCluster].before.state = seen.state]
      /\ snap' = [seen.snap EXCEPT !.bundle = seen.bundle, !.services = ServicesNow, !.hc = hc]
      /\ request' = [request EXCEPT ![r].at = "written"]
      /\ past' = [row |-> [o \in Object |-> Bare(row[o])], hc |-> hc]
      /\ since' = IF seen.bundle # Current \/ seen.state # row[TheCluster].state THEN {"overtaken"} ELSE {}
      /\ UNCHANGED <<hc, bound, task, changes>>

(* An upgrade without an action, in the request and without a lock; the    *)
(* state it ends in is written afterwards.                                 *)
SwitchAtOnce(r) ==
  /\ request[r].at = "written" /\ ~request[r].action
  /\ ~SwitchRaises(request[r].target)
  /\ BundleSwitch(request[r].target, {})
  /\ request' = [request EXCEPT ![r].at = "switched"]
  /\ UNCHANGED <<bound, task, changes, past>>

SaveState(r) ==
  /\ request[r].at = "switched"
  /\ \E s \in State : row' = [row EXCEPT ![TheCluster].state = s]
  /\ request' = [request EXCEPT ![r] = Request0("done")]
  /\ UNCHANGED <<snap, hc, bound, task, changes, history>>

(* run_action locks the cluster, or refuses to because something has.      *)
LaunchUpgrade(r) ==
  /\ request[r].at = "written" /\ request[r].action
  /\ ~Locked
  /\ task' = [kind |-> "upgrade", target |-> request[r].target]
  /\ request' = [request EXCEPT ![r] = Request0("done")]
  /\ UNCHANGED <<row, snap, hc, bound, changes, history>>

EndInError(r) ==
  /\ request[r].at = "written"
  /\ IF request[r].action THEN Locked ELSE SwitchRaises(request[r].target)
  /\ request' = [request EXCEPT ![r] = Request0("done")]
  /\ UNCHANGED <<row, snap, hc, bound, task, changes, history>>

-----------------------------------------------------------------------------
(* Tasks                                                                   *)

(* The one job of an upgrade that switches the bundle.                     *)
SwitchByTask ==
  /\ task.kind = "upgrade"
  /\ ~SwitchRaises(task.target)
  /\ BundleSwitch(task.target, added[task.target])
  /\ task' = [task EXCEPT !.kind = "upgraded"]
  /\ UNCHANGED <<bound, request, changes, past>>

LaunchRevert ==
  /\ ~Locked /\ snap.bundle # 0
  /\ task' = [kind |-> "revert", target |-> snap.bundle]
  /\ UNCHANGED <<row, snap, hc, bound, request, changes, history>>

(* One transaction.  The cluster's before_upgrade is reset with the row of *)
(* the cluster, unless that is of the old bundle already.                  *)
BundleRevert ==
  /\ task.kind = "revert"
  /\ Obstacles = {}
  /\ row' = Reverted(snap.bundle)
  /\ hc' = snap.hc
  /\ IF snap.bundle = Current THEN since' = since \cup {"overtaken"} /\ UNCHANGED <<snap, past>>
     ELSE snap' = NoSnap /\ past' = NoPast /\ since' = {}
  /\ task' = [task EXCEPT !.kind = "reverted"]
  /\ UNCHANGED <<bound, request, changes>>

(* A task ends when its jobs are done, or one has failed, bundle_switch or *)
(* bundle_revert for one; the cluster gets a state the action names.       *)
TaskEnds ==
  /\ Locked
  /\ \E s \in State : row' = [row EXCEPT ![TheCluster].state = s]
  /\ task' = NoTask
  /\ UNCHANGED <<snap, hc, bound, request, changes, history>>

-----------------------------------------------------------------------------
(* Users and jobs                                                          *)

ChangeObject(o) ==
  /\ o \in Existing \cap Touched /\ Changed
  /\ \E s \in State, c \in IF row[o].config = None THEN {None} ELSE Config :
       /\ KeptOf(row[o]) # [state |-> s, config |-> c]
       /\ row' = [row EXCEPT ![o].state = s, ![o].config = c]
  /\ UNCHANGED <<snap, hc, bound, request, task, history>>

ChangeMapping ==
  /\ Changed
  /\ hc' \in SUBSET (bound \X (Existing \cap Component)) /\ hc' # hc
  /\ UNCHANGED <<row, snap, bound, request, task, history>>

AddService(s) ==
  /\ s \in offered[Current] \ Existing /\ Changed
  /\ row' = [o \in Object |-> IF o = s \/ o \in offered[Current] \cap ComponentsOf({s}) THEN New(Current, o) ELSE row[o]]
  /\ since' = since \cup {"added"}
  /\ UNCHANGED <<snap, hc, bound, request, task, past>>

ServiceGone(s) ==
  /\ row' = [o \in Object |-> IF o \in {s} \cup ComponentsOf({s}) THEN None ELSE row[o]]
  /\ hc' = {m \in hc : serviceOf[m[2]] # s}
  /\ since' = since \cup {"deleted"}
  /\ UNCHANGED <<snap, bound, request, task, past>>

(* The API deletes what nobody has installed or mapped, and not while the  *)
(* cluster is upgrading if it was there before.                            *)
DeleteService(s) ==
  /\ s \in ServicesNow /\ Changed
  /\ row[s].state = "created" /\ \A m \in hc : serviceOf[m[2]] # s
  /\ row[TheCluster].state = "upgrading" => s \notin snap.services
  /\ ServiceGone(s)

(* adcm_delete_service *)
DeleteServiceByTask(s) == s \in ServicesNow /\ Locked /\ Changed /\ ServiceGone(s)

RemoveHost(h) ==
  /\ h \in bound /\ Changed
  /\ \A m \in hc : m[1] # h
  /\ row[TheCluster].state # "upgrading"
  /\ bound' = bound \ {h}
  /\ since' = since \cup {"left"}
  /\ UNCHANGED <<row, snap, hc, request, task, past>>

AddHost(h) ==
  /\ h \in Host \ bound /\ Changed
  /\ bound' = bound \cup {h}
  /\ UNCHANGED <<row, snap, hc, request, task, history>>

-----------------------------------------------------------------------------
Next ==
  \/ \E r \in Request :
       \/ \E action \in BOOLEAN, b \in Bundle : CheckUpgrade(r, action, b)
       \/ WriteBeforeUpgrade(r) \/ SwitchAtOnce(r) \/ SaveState(r) \/ LaunchUpgrade(r) \/ EndInError(r)
  \/ SwitchByTask \/ LaunchRevert \/ BundleRevert \/ TaskEnds
  \/ \E o \in Object : ChangeObject(o)
  \/ ChangeMapping
  \/ \E s \in Service : AddService(s) \/ DeleteService(s) \/ DeleteServiceByTask(s)
  \/ \E h \in Host : RemoveHost(h) \/ AddHost(h)

Spec == Init /\ [][Next]_vars

-----------------------------------------------------------------------------
(* Properties                                                              *)

(* Whatever upgrades, reverts and changes have done, the services of the   *)
(* cluster and their components are of its bundle, and each service has    *)
(* all the components the bundle has for it.                               *)
OneBundle ==
  /\ TypeOK
  /\ \A o \in Existing : row[o].bundle = Current
  /\ Existing \cap Component = offered[Current] \cap ComponentsOf(ServicesNow)

(* The same row, but for a config where the bundle has one and the row had *)
(* none.                                                                   *)
SameRow(now, then) ==
  now = then \/ (then # None /\ then.config = None /\ now = [then EXCEPT !.config = "default"])

(* A revert that gets through brings back all that was there when the      *)
(* upgrade was asked for, and nothing else: services, components, their    *)
(* states and configs, the mapping.  Not so when another request has       *)
(* upgraded the cluster before or after this one wrote before_upgrade.     *)
(* And what a user has deleted comes back, but as an earlier upgrade has   *)
(* kept it, if one has.                                                    *)
RevertRestores ==
  [][task.kind = "revert" /\ task'.kind = "reverted" /\ snap.bundle # Current /\ "overtaken" \notin since =>
       /\ \A o \in Object :
            IF "deleted" \in since /\ o \in Readded(snap.bundle) THEN row'[o] # None /\ past.row[o] # None
            ELSE SameRow(Bare(row'[o]), past.row[o])
       /\ hc' = past.hc]_vars

(* Nothing the upgrade does by itself makes its revert impossible: it      *)
(* fails only for services that were added or deleted since, also by the   *)
(* hc_acl of the upgrade, and hosts that have left.                        *)
RevertIsPossible ==
  snap.bundle \notin {0, Current} /\ "overtaken" \notin since =>
    /\ "added" \in Obstacles => since \cap {"added", "created"} # {}
    /\ Obstacles \ {"added"} \subseteq since

(* A switch that was asked for goes through unless a service was added     *)
(* since before_upgrade was last written, or another request's switch, or  *)
(* a revert, was done meanwhile.                                           *)
SwitchIsPossible ==
  snap.bundle = Current /\ since \cap {"added", "created", "overtaken"} = {} =>
    /\ task.kind = "upgrade" => ~SwitchRaises(task.target)
    /\ \A r \in Request : request[r].at = "written" => ~SwitchRaises(request[r].target)

=============================================================================
