---------------------------- MODULE StatusServer ----------------------------
(***************************************************************************)
(* The status server: the statuses agents post for hosts and for the       *)
(* components on them, the timers that clear statuses nobody renews, and   *)
(* the events about what went up or down.                                  *)
(*                                                                         *)
(* A storage serves one request at a time and takes no other one before    *)
(* its answer is received, so a call of set or get is one step.  A handler *)
(* is a goroutine: save, set, check; a check reads, then reports and writes.*)
(***************************************************************************)
EXTENDS Integers, SequencesExt

CONSTANTS
  Host, Component, Service,
  serviceOf,    \* [Component -> Service], of one cluster
  TheCluster,
  Value,        \* statuses agents post; 0 is "up"
  Map,          \* service maps ADCM posts: hosts of the cluster, and pairs <<host, component>>
  Maintenance,  \* sets of objects in maintenance mode ADCM posts
  Goroutine,
  MaxPosts,     \* bound on the statuses posted
  None

Key == Host \cup (Host \X Component)
Object == Host \cup Component \cup Service \cup {TheCluster}
Unknown == 16       \* status of what has none
Unmapped == 32      \* status of what has no hosts
AnyStatus == Value \cup {Unknown, Unmapped}

ASSUME StatusAssumption ==
  /\ serviceOf \in [Component -> Service]
  /\ Host \cap (Component \cup Service) = {} /\ Component \cap Service = {}
  /\ TheCluster \notin Host \cup Component \cup Service
  /\ Host \cap (Host \X Component) = {}
  /\ 0 \in Value /\ Value \subseteq Nat
  /\ Map \subseteq [hosts : SUBSET Host, hc : SUBSET (Host \X Component)]
  /\ MaxPosts \in Nat
  /\ None \notin Key \cup Goroutine /\ None \notin [status : Value, counter : Nat]

NoMap == [hosts |-> {}, hc |-> {}]   \* before ADCM posts one

VARIABLES
  entry,      \* [Key -> status and counter, or None]
  timers,     \* [Key -> counters the timers of the key were armed with]
  smap,       \* ServiceServer.smap
  mm,         \* MMObjects.data
  base,       \* StatusEvent.db of the key: statuses of the object and its service
  clusterBase,\* StatusEvent.db of the cluster
  run,        \* [Goroutine -> handler or callback in progress]
  callbacks,  \* [Key -> clear functions not yet started]
  posts,      \* statuses posted
  shown       \* [Object -> what a listener to the events takes it for] (history)

store == <<entry, timers, posts>>
adcm == <<smap, mm>>
events == <<base, clusterBase, shown>>
vars == <<store, adcm, events, run, callbacks>>

-----------------------------------------------------------------------------
(* Aggregated statuses.  The last one that is not 0 wins; lists come in    *)
(* any order, maps of Go are walked in a random one.                       *)
StatusOf(k) == IF entry[k] = None THEN Unknown ELSE entry[k].status
Worst(statuses) == IF statuses \subseteq {0} THEN {0} ELSE statuses \ {0}

ServiceStatus(s) ==
  Worst({StatusOf(m) : m \in {n \in smap.hc : serviceOf[n[2]] = s /\ n[1] \notin mm /\ n[2] \notin mm}})

ComponentHosts(c) == {h \in Host : <<h, c>> \in smap.hc}

ComponentStatus(c) ==
  CASE ComponentHosts(c) = {} -> {Unmapped}
    [] ComponentHosts(c) # {} /\ c \in mm -> {0}
    [] OTHER -> Worst({StatusOf(<<h, c>>) : h \in ComponentHosts(c) \ mm})

ClusterHostStatus ==
  IF smap.hosts = {} THEN {Unmapped} ELSE Worst({StatusOf(h) : h \in smap.hosts \ mm})

ClusterServiceStatus ==
  IF Service = {} THEN {Unmapped} ELSE Worst(UNION {ServiceStatus(s) : s \in Service})

(* Mutant: hosts do not matter.                                            *)
ServicesOnly == ClusterServiceStatus

ClusterStatus ==
  {IF s # 0 THEN s ELSE h : s \in ClusterServiceStatus, h \in ClusterHostStatus}

StatusOfObject(o) ==
  CASE o \in Host -> {StatusOf(o)}
    [] o \in Component -> ComponentStatus(o)
    [] o \in Service -> ServiceStatus(o)
    [] OTHER -> ClusterStatus

Up(o) == StatusOfObject(o) = {0}

(* Objects whose events a handler of the key sends: its own, its service's *)
(* and, compared with what was saved for the cluster, the cluster's.       *)
OwnObjects(k) == IF k \in Host THEN {k} ELSE {k[2], serviceOf[k[2]]}
Reported(k) == OwnObjects(k) \cup {TheCluster}

-----------------------------------------------------------------------------
Idle == [pc |-> "idle", key |-> None, new |-> <<>>, due |-> {}, pre |-> {}, seen |-> "none"]

TypeOK ==
  /\ \A k \in Key : /\ entry[k] = None \/ entry[k] \in [status : Value, counter : Nat]
                    /\ timers[k] \in Seq(Nat)
                    /\ \A o \in OwnObjects(k) : base[k][o] \in AnyStatus
  /\ smap \in Map \cup {NoMap} /\ mm \in Maintenance
  /\ clusterBase \in AnyStatus
  /\ \A g \in Goroutine :
       /\ run[g].pc \in {"idle", "saved", "set", "checked"}
       /\ run[g].key \in Key \cup {None}
       /\ run[g].seen \in {"none", "other", "same"}
       /\ run[g].due \cup run[g].pre \subseteq Object
       /\ run[g].pc = "checked" => \A o \in Reported(run[g].key) : run[g].new[o] \in AnyStatus
  /\ callbacks \in [Key -> Nat]
  /\ posts \in 0..MaxPosts
  /\ smap = NoMap /\ NoMap \notin Map => posts = 0
  /\ shown \in [Object -> BOOLEAN]

Init ==
  /\ entry = [k \in Key |-> None]
  /\ timers = [k \in Key |-> <<>>]
  /\ smap = NoMap
  /\ mm = {}
  /\ base = [k \in Key |-> [o \in OwnObjects(k) |-> 0]]
  /\ clusterBase = 0
  /\ run = [g \in Goroutine |-> Idle]
  /\ callbacks = [k \in Key |-> 0]
  /\ posts = 0
  /\ shown = [o \in Object |-> Up(o)]

(* Goroutine g goes on as r, the others are disturbed, at their own key or *)
(* elsewhere.                                                              *)
Goes(g, r, key) ==
  run' = [x \in Goroutine |->
            IF x = g THEN r
            ELSE IF run[x].pc = "idle" THEN Idle
            ELSE [run[x] EXCEPT !.seen = IF key = run[x].key \/ @ = "same" THEN "same" ELSE "other"]]

-----------------------------------------------------------------------------
(* The storages *)

(* Mutants: every set looks like the first; only the first arms a timer.   *)
SetWithoutCounter(k, v) ==
  /\ entry' = [entry EXCEPT ![k] = [status |-> v, counter |-> 0]]
  /\ timers' = [timers EXCEPT ![k] = Append(@, 0)]

SetArmingOnce(k, v) ==
  LET counter == IF entry[k] = None THEN 0 ELSE entry[k].counter + 1
  IN  /\ entry' = [entry EXCEPT ![k] = [status |-> v, counter |-> counter]]
      /\ timers' = IF counter = 0 THEN [timers EXCEPT ![k] = Append(@, 0)] ELSE timers

StorageSet(k, v) ==
  LET counter == IF entry[k] = None THEN 0 ELSE entry[k].counter + 1
  IN  /\ entry' = [entry EXCEPT ![k] = [status |-> v, counter |-> counter]]
      /\ timers' = [timers EXCEPT ![k] = Append(@, counter)]

(* Sleeps of one length end in the order in which they began.              *)
TimerFires(k) ==
  /\ timers[k] # <<>>
  /\ timers' = [timers EXCEPT ![k] = Tail(@)]
  /\ entry' = IF entry[k] # None /\ entry[k].counter = Head(timers[k])
                THEN [entry EXCEPT ![k] = None] ELSE entry
  /\ callbacks' = [callbacks EXCEPT ![k] = @ + 1]
  /\ Goes(None, Idle, k)
  /\ UNCHANGED <<adcm, events, posts>>

-----------------------------------------------------------------------------
(* setHost and setHostComp *)

Known(k) == IF k \in Host THEN k \in smap.hosts ELSE k \in smap.hc

(* fill_host_status, fill_hc_status: read as one step.                     *)
Fill(k) == {f \in [Reported(k) -> AnyStatus] : \A o \in Reported(k) : f[o] \in StatusOfObject(o)}
Own(k, f) == [o \in OwnObjects(k) |-> f[o]]

(* Mutant: what was known of the cluster stays.                            *)
SaveKeyOnly(g, k) ==
  /\ run[g].pc = "idle"
  /\ Known(k)
  /\ posts < MaxPosts
  /\ posts' = posts + 1
  /\ \E f \in Fill(k) : base' = [base EXCEPT ![k] = Own(k, f)]
  /\ Goes(g, [Idle EXCEPT !.pc = "saved", !.key = k,
                          !.pre = {o \in Reported(k) : shown[o] = Up(o)}], k)
  /\ UNCHANGED <<entry, timers, adcm, clusterBase, shown, callbacks>>

Save(g, k) ==
  /\ run[g].pc = "idle"
  /\ Known(k)
  /\ posts < MaxPosts
  /\ posts' = posts + 1
  /\ \E f \in Fill(k) : base' = [base EXCEPT ![k] = Own(k, f)] /\ clusterBase' = f[TheCluster]
  /\ Goes(g, [Idle EXCEPT !.pc = "saved", !.key = k,
                          !.pre = {o \in Reported(k) : shown[o] = Up(o)}], k)
  /\ UNCHANGED <<entry, timers, adcm, shown, callbacks>>

Set(g, v) ==
  /\ run[g].pc = "saved"
  /\ StorageSet(run[g].key, v)
  /\ Goes(g, [run[g] EXCEPT !.pc = "set"], run[g].key)
  /\ UNCHANGED <<adcm, events, posts, callbacks>>

(* A clear function starts: it only checks.                                *)
StartCallback(g, k) ==
  /\ run[g].pc = "idle"
  /\ callbacks[k] > 0
  /\ callbacks' = [callbacks EXCEPT ![k] = @ - 1]
  /\ Goes(g, [Idle EXCEPT !.pc = "set", !.key = k], k)
  /\ UNCHANGED <<store, adcm, events>>

(* check_host, check_hc: the old statuses are read, the new ones computed. *)
Check(g) ==
  /\ run[g].pc = "set"
  /\ LET k == run[g].key
     IN  \E f \in Fill(k) :
           Goes(g, [run[g] EXCEPT !.pc = "checked", !.new = f,
                                  !.due = {o \in OwnObjects(k) : base[k][o] # f[o]}], k)
  /\ UNCHANGED <<store, adcm, events, callbacks>>

(* The events are sent, what is known of the cluster is read, both written.*)
Report(g) ==
  LET k == run[g].key
      new == run[g].new
      due == run[g].due \cup (IF clusterBase # new[TheCluster] THEN {TheCluster} ELSE {})
  IN  /\ run[g].pc = "checked"
      /\ shown' = [o \in Object |-> IF o \in due THEN new[o] = 0 ELSE shown[o]]
      /\ base' = [base EXCEPT ![k] = Own(k, new)]
      /\ clusterBase' = new[TheCluster]
      /\ Goes(g, Idle, k)
      /\ UNCHANGED <<store, adcm, callbacks>>

-----------------------------------------------------------------------------
(* What ADCM posts: neither sends an event. *)

PostServiceMap ==
  /\ smap' \in Map
  /\ smap' # smap
  /\ Goes(None, Idle, None)
  /\ UNCHANGED <<store, mm, events, callbacks>>

PostMMObjects ==
  /\ mm' \in Maintenance
  /\ mm' # mm
  /\ Goes(None, Idle, None)
  /\ UNCHANGED <<store, smap, events, callbacks>>

-----------------------------------------------------------------------------
(* Goroutines are all alike: a new one takes the first free place.         *)
Free == {g \in Goroutine : run[g].pc = "idle"}
FirstFree == IF Free = {} THEN {} ELSE {CHOOSE g \in Free : TRUE}

HandlerStep(g) ==
  \/ \E v \in Value : Set(g, v)
  \/ Check(g) \/ Report(g)

Next ==
  \/ \E g \in FirstFree, k \in Key : Save(g, k) \/ StartCallback(g, k)
  \/ \E g \in Goroutine : HandlerStep(g)
  \/ \E k \in Key : TimerFires(k)
  \/ PostServiceMap \/ PostMMObjects

Spec == Init /\ [][Next]_vars

(* Sleeps end.                                                             *)
FairSpec == Spec /\ \A k \in Key : WF_vars(TimerFires(k))

-----------------------------------------------------------------------------
(* Properties *)

(* The timers of a key are those of the sets since its status was last     *)
(* cleared, the last one its own: none is left when it has no status.      *)
TimersMatch ==
  \A k \in Key :
    /\ entry[k] = None => timers[k] = <<>>
    /\ entry[k] # None => /\ timers[k] # <<>>
                          /\ \A i \in 1..Len(timers[k]) :
                               timers[k][i] = entry[k].counter - (Len(timers[k]) - i)

(* A status lives for the whole timeout after it was posted last: a timer  *)
(* that was armed earlier never clears it.                                 *)
LastTimerClears ==
  [][\A k \in Key : entry[k] # None /\ entry'[k] = None => Len(timers[k]) = 1]_vars

(* A status nobody renews is cleared at last.                              *)
StatusExpires == \A k \in Key : entry[k] # None ~> entry[k] = None

(* Who posts a status leaves the listeners of the events right about       *)
(* everything it reports on and they were right about before, unless it    *)
(* was disturbed; about a host unless it was disturbed at that host.       *)
PostIsReported ==
  [][\A g \in Goroutine :
       run[g].pc = "checked" /\ run'[g].pc = "idle" =>
         \A o \in run[g].pre :
           run[g].seen = "none" \/ (o \in Host /\ run[g].seen = "other") => shown'[o] = Up(o)]_vars

(* The cluster is up exactly when it has hosts, and all of its hosts and   *)
(* everything placed on them that is not in maintenance is up.             *)
UpIsJustified ==
  Up(TheCluster) <=>
    /\ smap.hosts # {} /\ Service # {}
    /\ \A h \in smap.hosts \ mm : StatusOf(h) = 0
    /\ \A m \in smap.hc : {m[1], m[2]} \cap mm = {} => StatusOf(m) = 0

=============================================================================
