-------------------------- MODULE StatusServerProofs --------------------------
(* For any objects, handlers and number of posts: timers clear only what   *)
(* nobody has renewed, the cluster's status is what its hosts justify, and *)
(* listeners are told what a post changes.                                 *)
EXTENDS StatusServer, SequenceTheorems, TLAPS

Entry == [status : Value, counter : Nat]

(* Types of what the storages keep, and of what handlers will store.       *)
StoreType ==
  /\ entry \in [Key -> Entry \cup {None}]
  /\ timers \in [Key -> Seq(Nat)]
  /\ \A g \in Goroutine : run[g].pc = "saved" => run[g].key \in Key

Inv == StoreType /\ TimersMatch

LEMMA StoreInit == Init => Inv
<1> SUFFICES ASSUME Init PROVE Inv
  OBVIOUS
<1>1. StoreType
  BY DEF Init, StoreType, Idle
<1>2. TimersMatch
  BY DEF Init, TimersMatch
<1> QED
  BY <1>1, <1>2 DEF Inv

(* Whoever goes on leaves the keys of the others alone.                    *)
LEMMA KeysStay ==
  ASSUME NEW g, NEW r, NEW key, Goes(g, r, key),
         \A x \in Goroutine : run[x].pc = "saved" => run[x].key \in Key,
         r.pc = "saved" => r.key \in Key
  PROVE  \A x \in Goroutine : run'[x].pc = "saved" => run'[x].key \in Key
<1> SUFFICES ASSUME NEW x \in Goroutine, run'[x].pc = "saved"
             PROVE  run'[x].key \in Key
  OBVIOUS
<1>1. CASE x = g
  BY <1>1 DEF Goes
<1>2. CASE x # g /\ run[x].pc = "idle"
  BY <1>2 DEF Goes, Idle
<1>3. CASE x # g /\ run[x].pc # "idle"
  <2> DEFINE seen == IF key = run[x].key \/ run[x].seen = "same" THEN "same" ELSE "other"
  <2>1. run'[x] = [run[x] EXCEPT !.seen = seen]
    BY <1>3 DEF Goes
  <2>2. [run[x] EXCEPT !.seen = seen].pc = run[x].pc /\ [run[x] EXCEPT !.seen = seen].key = run[x].key
    OBVIOUS
  <2> QED
    BY <2>1, <2>2
<1> QED
  BY <1>1, <1>2, <1>3

(* A set arms the timer of the new counter.                                *)
LEMMA SetKeepsMatch ==
  ASSUME Inv, NEW k \in Key, NEW v \in Value, StorageSet(k, v)
  PROVE  /\ entry' \in [Key -> Entry \cup {None}]
         /\ timers' \in [Key -> Seq(Nat)]
         /\ TimersMatch'
<1> DEFINE counter == IF entry[k] = None THEN 0 ELSE entry[k].counter + 1
<1>1. /\ entry \in [Key -> Entry \cup {None}] /\ timers \in [Key -> Seq(Nat)]
      /\ timers[k] \in Seq(Nat)
  BY DEF Inv, StoreType
<1>2. entry[k] # None => entry[k].counter \in Nat
  BY <1>1 DEF Entry
<1>3. counter \in Nat
  BY <1>2
<1>4. /\ entry' = [entry EXCEPT ![k] = [status |-> v, counter |-> counter]]
      /\ timers' = [timers EXCEPT ![k] = Append(timers[k], counter)]
  BY DEF StorageSet
<1> HIDE DEF counter
<1>5. [status |-> v, counter |-> counter] \in Entry /\ [status |-> v, counter |-> counter] # None
  BY <1>3, StatusAssumption DEF Entry
<1>6. Append(timers[k], counter) \in Seq(Nat)
  BY <1>1, <1>3
<1>7. entry' \in [Key -> Entry \cup {None}] /\ timers' \in [Key -> Seq(Nat)]
  BY <1>1, <1>4, <1>5, <1>6
<1>8. ASSUME NEW q \in Key
      PROVE  /\ entry'[q] = None => timers'[q] = <<>>
             /\ entry'[q] # None => /\ timers'[q] # <<>>
                                    /\ \A i \in 1..Len(timers'[q]) :
                                         timers'[q][i] = entry'[q].counter - (Len(timers'[q]) - i)
  <2>1. CASE q # k
    BY <2>1, <1>1, <1>4 DEF Inv, TimersMatch
  <2>2. CASE q = k
    <3>1. entry'[q] # None /\ entry'[q].counter = counter /\ timers'[q] = Append(timers[k], counter)
      BY <2>2, <1>1, <1>4, <1>5
    <3>2. Len(timers[k]) \in Nat /\ Len(Append(timers[k], counter)) = Len(timers[k]) + 1
      BY <1>1, <1>3
    <3>3. /\ Append(timers[k], counter)[Len(timers[k]) + 1] = counter
          /\ \A i \in 1..Len(timers[k]) : Append(timers[k], counter)[i] = timers[k][i]
      BY <1>1, <1>3
    <3>4. \A i \in 1..Len(timers[k]) : timers[k][i] = counter - (Len(timers[k]) + 1 - i)
      <4>1. CASE entry[k] = None
        BY <4>1 DEF Inv, TimersMatch
      <4>2. CASE entry[k] # None
        <5>1. counter = entry[k].counter + 1
          BY <4>2 DEF counter
        <5>2. \A i \in 1..Len(timers[k]) : timers[k][i] = entry[k].counter - (Len(timers[k]) - i)
          BY <4>2 DEF Inv, TimersMatch
        <5>3. ASSUME NEW i \in 1..Len(timers[k])
              PROVE  timers[k][i] = counter - (Len(timers[k]) + 1 - i)
          <6> DEFINE n == Len(timers[k])
          <6>1. timers[k][i] = entry[k].counter - (n - i)
            BY <5>2
          <6>2. entry[k].counter \in Nat /\ n \in Nat /\ i \in Nat
            BY <4>2, <1>2, <3>2
          <6> HIDE DEF n
          <6>3. timers[k][i] = counter - (n + 1 - i)
            BY <6>1, <6>2, <5>1
          <6> QED
            BY <6>3 DEF n
        <5> QED
          BY <5>3
      <4> QED
        BY <4>1, <4>2
    <3>5. Append(timers[k], counter) # <<>>
      BY <3>2
    <3>6. ASSUME NEW i \in 1..(Len(timers[k]) + 1)
          PROVE  Append(timers[k], counter)[i] = counter - (Len(timers[k]) + 1 - i)
      <4>1. CASE i = Len(timers[k]) + 1
        BY <4>1, <3>2, <3>3, <1>3
      <4>2. CASE i # Len(timers[k]) + 1
        BY <4>2, <3>2, <3>3, <3>4
      <4> QED
        BY <4>1, <4>2
    <3> QED
      BY <3>1, <3>2, <3>5, <3>6
  <2> QED
    BY <2>1, <2>2
<1> QED
  BY <1>7, <1>8 DEF TimersMatch

(* The oldest timer finds the counter of its entry exactly when it is the  *)
(* only one left.                                                          *)
LEMMA OldestTimer ==
  ASSUME Inv, NEW k \in Key, timers[k] # <<>>
  PROVE  /\ entry[k] # None /\ entry[k].counter \in Nat /\ Len(timers[k]) \in Nat \ {0}
         /\ entry[k].counter = Head(timers[k]) <=> Len(timers[k]) = 1
<1>1. timers[k] \in Seq(Nat) /\ entry[k] \in Entry \cup {None}
  BY DEF Inv, StoreType
<1>2. entry[k] # None
  BY DEF Inv, TimersMatch
<1>3. Len(timers[k]) \in Nat \ {0} /\ Head(timers[k]) = timers[k][1]
  BY <1>1
<1>4. timers[k][1] = entry[k].counter - (Len(timers[k]) - 1)
  BY <1>2, <1>3 DEF Inv, TimersMatch
<1>5. entry[k].counter \in Nat
  BY <1>1, <1>2 DEF Entry
<1>6. entry[k].counter = Head(timers[k]) <=> Len(timers[k]) = 1
  <2> DEFINE n == Len(timers[k])
  <2>1. n \in Nat /\ Head(timers[k]) = entry[k].counter - (n - 1)
    BY <1>3, <1>4
  <2> HIDE DEF n
  <2>2. entry[k].counter = Head(timers[k]) <=> n = 1
    BY <2>1, <1>5
  <2> QED
    BY <2>2 DEF n
<1> QED
  BY <1>2, <1>3, <1>5, <1>6

LEMMA FireKeepsMatch ==
  ASSUME Inv, NEW k \in Key, TimerFires(k)
  PROVE  /\ entry' \in [Key -> Entry \cup {None}]
         /\ timers' \in [Key -> Seq(Nat)]
         /\ TimersMatch'
<1>1. /\ entry \in [Key -> Entry \cup {None}] /\ timers \in [Key -> Seq(Nat)]
      /\ timers[k] \in Seq(Nat) /\ timers[k] # <<>>
  BY DEF Inv, StoreType, TimerFires
<1>2. /\ timers' = [timers EXCEPT ![k] = Tail(timers[k])]
      /\ entry' = IF entry[k] # None /\ entry[k].counter = Head(timers[k])
                    THEN [entry EXCEPT ![k] = None] ELSE entry
  BY DEF TimerFires
<1>3. Tail(timers[k]) \in Seq(Nat) /\ Len(Tail(timers[k])) = Len(timers[k]) - 1
  BY <1>1
<1>4. entry' \in [Key -> Entry \cup {None}] /\ timers' \in [Key -> Seq(Nat)]
  BY <1>1, <1>2, <1>3
<1>5. ASSUME NEW q \in Key
      PROVE  /\ entry'[q] = None => timers'[q] = <<>>
             /\ entry'[q] # None => /\ timers'[q] # <<>>
                                    /\ \A i \in 1..Len(timers'[q]) :
                                         timers'[q][i] = entry'[q].counter - (Len(timers'[q]) - i)
  <2>1. CASE q # k
    BY <2>1, <1>1, <1>2 DEF Inv, TimersMatch
  <2>2. CASE q = k /\ Len(timers[k]) = 1
    <3>1. entry'[k] = None /\ timers'[k] = Tail(timers[k])
      BY <2>2, <1>1, <1>2, OldestTimer
    <3>2. Tail(timers[k]) = <<>>
      <4>1. Len(Tail(timers[k])) = 0
        BY <2>2, <1>3
      <4> QED
        BY <4>1, <1>3, EmptySeq
    <3> QED
      BY <2>2, <3>1, <3>2
  <2>3. CASE q = k /\ Len(timers[k]) # 1
    <3>1. entry'[k] = entry[k] /\ entry[k] # None /\ timers'[k] = Tail(timers[k])
      BY <2>3, <1>1, <1>2, OldestTimer
    <3>2. Len(timers[k]) \in Nat /\ Len(timers[k]) > 1 /\ entry[k].counter \in Nat
      <4> DEFINE n == Len(timers[k])
      <4>1. n \in Nat \ {0} /\ n # 1 /\ entry[k].counter \in Nat
        BY <2>3, <1>1, OldestTimer
      <4> HIDE DEF n
      <4>2. n \in Nat /\ n > 1
        BY <4>1
      <4> QED
        BY <4>1, <4>2 DEF n
    <3>3. \A i \in 1..Len(Tail(timers[k])) : Tail(timers[k])[i] = timers[k][i + 1]
      BY <1>1, <1>3
    <3>4. \A j \in 1..Len(timers[k]) : timers[k][j] = entry[k].counter - (Len(timers[k]) - j)
      BY <3>1 DEF Inv, TimersMatch
    <3>5. ASSUME NEW i \in 1..Len(Tail(timers[k]))
          PROVE  Tail(timers[k])[i] = entry[k].counter - (Len(Tail(timers[k])) - i)
      <4>1. i + 1 \in 1..Len(timers[k])
        BY <1>3, <3>2
      <4>2. timers[k][i + 1] = entry[k].counter - (Len(timers[k]) - (i + 1))
        BY <4>1, <3>4
      <4> QED
        BY <4>2, <3>2, <3>3, <1>3
    <3>6. Tail(timers[k]) # <<>>
      <4> DEFINE n == Len(timers[k])
      <4>1. n \in Nat /\ n > 1 /\ Len(Tail(timers[k])) = n - 1
        BY <1>3, <3>2
      <4> HIDE DEF n
      <4>2. n - 1 # 0
        BY <4>1
      <4> QED
        BY <4>1, <4>2, EmptySeq
    <3> QED
      BY <2>3, <3>1, <3>5, <3>6
  <2> QED
    BY <2>1, <2>2, <2>3
<1> QED
  BY <1>4, <1>5 DEF TimersMatch

(* Nothing else touches the storages.                                      *)
LEMMA StoreStep ==
  ASSUME Inv, [Next]_vars
  PROVE  Inv'
<1> DEFINE Keys == \A x \in Goroutine : run[x].pc = "saved" => run[x].key \in Key
<1>0. Keys
  BY DEF Inv, StoreType
<1>a. ASSUME UNCHANGED <<entry, timers>>, Keys' PROVE Inv'
  BY <1>a DEF Inv, StoreType, TimersMatch
<1>1. ASSUME NEW g \in Goroutine, NEW k \in Key, Save(g, k) PROVE Inv'
  <2>1. [Idle EXCEPT !.pc = "saved", !.key = k, !.pre = {o \in Reported(k) : shown[o] = Up(o)}].key = k
    BY DEF Idle
  <2>2. Keys'
    BY <1>0, <1>1, <2>1, KeysStay DEF Save
  <2> QED
    BY <1>1, <1>a, <2>2 DEF Save
<1>2. ASSUME NEW g \in Goroutine, NEW k \in Key, StartCallback(g, k) PROVE Inv'
  <2>1. [Idle EXCEPT !.pc = "set", !.key = k].pc = "set"
    BY DEF Idle
  <2>2. Keys'
    BY <1>0, <1>2, <2>1, KeysStay DEF StartCallback
  <2> QED
    BY <1>2, <1>a, <2>2 DEF StartCallback, store
<1>3. ASSUME NEW g \in Goroutine, NEW v \in Value, Set(g, v) PROVE Inv'
  <2>1. run[g].key \in Key
    BY <1>0, <1>3 DEF Set
  <2>2. /\ entry' \in [Key -> Entry \cup {None}] /\ timers' \in [Key -> Seq(Nat)] /\ TimersMatch'
    BY <1>3, <2>1, SetKeepsMatch DEF Set
  <2>3. [run[g] EXCEPT !.pc = "set"].key = run[g].key
    OBVIOUS
  <2>4. Keys'
    BY <1>0, <1>3, <2>1, <2>3, KeysStay DEF Set
  <2> QED
    BY <2>2, <2>4 DEF Inv, StoreType
<1>4. ASSUME NEW g \in Goroutine, Check(g) PROVE Inv'
  <2>1. PICK f \in Fill(run[g].key) :
          Goes(g, [run[g] EXCEPT !.pc = "checked", !.new = f,
                                 !.due = {o \in OwnObjects(run[g].key) : base[run[g].key][o] # f[o]}], run[g].key)
    BY <1>4 DEF Check
  <2> DEFINE r == [run[g] EXCEPT !.pc = "checked", !.new = f,
                                 !.due = {o \in OwnObjects(run[g].key) : base[run[g].key][o] # f[o]}]
  <2>2. r.pc = "saved" => r.key \in Key
    <3>1. r.pc = IF "pc" \in DOMAIN run[g] THEN "checked" ELSE r.pc
      OBVIOUS
    <3>2. r.key = run[g].key
      OBVIOUS
    <3>3. CASE run[g].pc = "saved"
      BY <3>3, <1>0, <3>2
    <3>4. CASE run[g].pc # "saved"
      BY <3>4, <1>4 DEF Check
    <3> QED
      BY <3>3, <3>4
  <2>3. Keys'
    BY <1>0, <2>1, <2>2, KeysStay
  <2> QED
    BY <1>4, <1>a, <2>3 DEF Check, store
<1>5. ASSUME NEW g \in Goroutine, Report(g) PROVE Inv'
  <2>1. Idle.pc # "saved"
    BY DEF Idle
  <2>2. Goes(g, Idle, run[g].key)
    BY <1>5 DEF Report
  <2>3. Keys'
    BY <1>0, <2>1, <2>2, KeysStay
  <2> QED
    BY <1>5, <1>a, <2>3 DEF Report, store
<1>6. ASSUME NEW k \in Key, TimerFires(k) PROVE Inv'
  <2>1. Idle.pc # "saved"
    BY DEF Idle
  <2>2. Keys'
    BY <1>0, <1>6, <2>1, KeysStay DEF TimerFires
  <2> QED
    BY <1>6, <2>2, FireKeepsMatch DEF Inv, StoreType
<1>7. ASSUME PostServiceMap \/ PostMMObjects PROVE Inv'
  <2>1. Idle.pc # "saved"
    BY DEF Idle
  <2>2. Goes(None, Idle, None)
    BY <1>7 DEF PostServiceMap, PostMMObjects
  <2>3. Keys'
    BY <1>0, <2>1, <2>2, KeysStay
  <2> QED
    BY <1>7, <1>a, <2>3 DEF PostServiceMap, PostMMObjects, store
<1>8. CASE UNCHANGED vars
  BY <1>8 DEF vars, store, Inv, StoreType, TimersMatch
<1>9. \A g \in FirstFree : g \in Goroutine
  BY DEF FirstFree, Free
<1> QED
  BY <1>1, <1>2, <1>3, <1>4, <1>5, <1>6, <1>7, <1>8, <1>9 DEF Next, HandlerStep

(* The timers of a key are those of the sets since its status was last     *)
(* cleared.                                                                *)
THEOREM TimersAreOfTheirEntry == Spec => []TimersMatch
<1>1. Init => Inv
  BY StoreInit
<1>2. Inv /\ [Next]_vars => Inv'
  BY StoreStep
<1>3. Inv => TimersMatch
  BY DEF Inv
<1> QED
  BY <1>1, <1>2, <1>3, PTL DEF Spec

(* Only the timer of the last set finds its own counter, and it is the     *)
(* last one to fire: a renewed status lives for its whole timeout.         *)
THEOREM OnlyTheLastTimerClears == Spec => LastTimerClears
<1>1. Init => Inv
  BY StoreInit
<1>2. Inv /\ [Next]_vars => Inv'
  BY StoreStep
<1>3. Inv /\ [Next]_vars => [\A k \in Key : entry[k] # None /\ entry'[k] = None => Len(timers[k]) = 1]_vars
  <2> SUFFICES ASSUME Inv, Next, NEW k \in Key, entry[k] # None, entry'[k] = None
               PROVE  Len(timers[k]) = 1
    OBVIOUS
  <2>1. entry' # entry
    OBVIOUS
  <2>2. CASE \E q \in Key : TimerFires(q)
    <3>1. PICK q \in Key : TimerFires(q)
      BY <2>2
    <3>2. q = k /\ timers[k] # <<>> /\ entry[k].counter = Head(timers[k])
      BY <3>1 DEF TimerFires, Inv, StoreType
    <3> QED
      BY <3>2, OldestTimer
  <2>3. CASE \E g \in Goroutine, v \in Value : Set(g, v)
    <3>1. PICK g \in Goroutine, v \in Value : Set(g, v)
      BY <2>3
    <3>2. run[g].key \in Key /\ StorageSet(run[g].key, v)
      BY <3>1 DEF Set, Inv, StoreType
    <3> DEFINE counter == IF entry[run[g].key] = None THEN 0 ELSE entry[run[g].key].counter + 1
    <3>3. entry' = [entry EXCEPT ![run[g].key] = [status |-> v, counter |-> counter]]
      BY <3>2 DEF StorageSet
    <3>4. counter \in Nat
      BY <3>2 DEF Inv, StoreType, Entry
    <3> HIDE DEF counter
    <3>5. [status |-> v, counter |-> counter] # None
      BY <3>4, StatusAssumption
    <3> QED
      BY <3>2, <3>3, <3>5 DEF Inv, StoreType
  <2>4. CASE entry' = entry
    BY <2>4, <2>1
  <2> QED
    BY <2>2, <2>3, <2>4 DEF Next, HandlerStep, Save, StartCallback, Check, Report, PostServiceMap, PostMMObjects, store
<1> QED
  BY <1>1, <1>2, <1>3, PTL DEF Spec, LastTimerClears

-----------------------------------------------------------------------------
(* Aggregated statuses                                                     *)

(* Whatever order a list comes in, its status is 0 when all are, and only  *)
(* then.                                                                   *)
LEMMA WorstOf ==
  ASSUME NEW statuses
  PROVE  /\ Worst(statuses) # {}
         /\ 0 \in Worst(statuses) <=> statuses \subseteq {0}
         /\ Worst(statuses) = {0} <=> statuses \subseteq {0}
  BY DEF Worst

(* The cluster is up exactly when it has hosts and all of them, and all    *)
(* that is placed on them, are up, whatever the maps of Go put last.       *)
LEMMA ClusterUp ==
  ASSUME smap \in Map \cup {NoMap}
  PROVE  UpIsJustified
<1> DEFINE hostsUp == smap.hosts # {} /\ \A h \in smap.hosts \ mm : StatusOf(h) = 0
           placedUp == \A m \in smap.hc : {m[1], m[2]} \cap mm = {} => StatusOf(m) = 0
<1>1. smap.hc \subseteq Host \X Component
  BY StatusAssumption DEF NoMap
<1>2. ClusterHostStatus # {} /\ (ClusterHostStatus = {0} <=> hostsUp)
  <2> DEFINE statuses == {StatusOf(h) : h \in smap.hosts \ mm}
  <2>1. statuses \subseteq {0} <=> \A h \in smap.hosts \ mm : StatusOf(h) = 0
    OBVIOUS
  <2>2. ClusterHostStatus = IF smap.hosts = {} THEN {32} ELSE Worst(statuses)
    BY DEF ClusterHostStatus, Unmapped
  <2> HIDE DEF statuses
  <2> QED
    BY <2>1, <2>2, WorstOf
<1>3. \A s \in Service : ServiceStatus(s) \subseteq {0} <=>
        \A m \in smap.hc : serviceOf[m[2]] = s /\ m[1] \notin mm /\ m[2] \notin mm => StatusOf(m) = 0
  <2> TAKE s \in Service
  <2> DEFINE statuses == {StatusOf(m) : m \in {n \in smap.hc : serviceOf[n[2]] = s /\ n[1] \notin mm /\ n[2] \notin mm}}
  <2>1. ServiceStatus(s) = Worst(statuses)
    BY DEF ServiceStatus
  <2>2. Worst(statuses) \subseteq {0} <=> statuses \subseteq {0}
    BY DEF Worst
  <2> QED
    BY <2>1, <2>2
<1>4. (\A s \in Service : ServiceStatus(s) \subseteq {0}) <=> placedUp
  <2>1. \A m \in smap.hc : serviceOf[m[2]] \in Service
    BY <1>1, StatusAssumption
  <2> QED
    BY <1>3, <2>1
<1>5. ClusterServiceStatus # {} /\ (ClusterServiceStatus = {0} <=> Service # {} /\ placedUp)
  <2> DEFINE all == UNION {ServiceStatus(s) : s \in Service}
  <2>1. all \subseteq {0} <=> \A s \in Service : ServiceStatus(s) \subseteq {0}
    OBVIOUS
  <2>2. ClusterServiceStatus = IF Service = {} THEN {32} ELSE Worst(all)
    BY DEF ClusterServiceStatus, Unmapped
  <2> HIDE DEF all
  <2>3. CASE Service = {}
    BY <2>2, <2>3
  <2>4. CASE Service # {}
    BY <1>4, <2>1, <2>2, <2>4, WorstOf
  <2> QED
    BY <2>3, <2>4
<1>6. ClusterStatus = {0} <=> ClusterServiceStatus = {0} /\ ClusterHostStatus = {0}
  BY <1>2, <1>5 DEF ClusterStatus
<1>7. StatusOfObject(TheCluster) = ClusterStatus
  BY StatusAssumption DEF StatusOfObject
<1> QED
  BY <1>2, <1>5, <1>6, <1>7 DEF UpIsJustified, Up

(* The status of a cluster is what its hosts and their components justify. *)
THEOREM ClusterStatusIsJustified == Spec => []UpIsJustified
<1>1. Init => smap \in Map \cup {NoMap}
  BY DEF Init
<1>2. smap \in Map \cup {NoMap} /\ [Next]_vars => (smap \in Map \cup {NoMap})'
  BY DEF Next, HandlerStep, Save, StartCallback, Set, Check, Report, TimerFires, PostServiceMap, PostMMObjects, adcm, vars, FirstFree, Free
<1>3. smap \in Map \cup {NoMap} => UpIsJustified
  BY ClusterUp
<1> QED
  BY <1>1, <1>2, <1>3, PTL DEF Spec

-----------------------------------------------------------------------------
(* What listeners are told                                                 *)

IsRun(r) == r = [pc |-> r.pc, key |-> r.key, new |-> r.new, due |-> r.due, pre |-> r.pre, seen |-> r.seen]

GoodRun(r) ==
  /\ IsRun(r)
  /\ r.pc \in {"idle", "saved", "set", "checked"}
  /\ r.seen \in {"none", "other", "same"}
  /\ r.pc # "idle" => r.key \in Key /\ r.pre \subseteq Reported(r.key)
  /\ r.pc = "checked" => r.due \subseteq OwnObjects(r.key)

RunType ==
  /\ DOMAIN base = Key
  /\ DOMAIN entry = Key
  /\ \A g \in Goroutine : GoodRun(run[g])

(* What listeners will take an object for once a handler has reported.     *)
Told(r, o) ==
  IF o \in r.due \/ (o = TheCluster /\ clusterBase # r.new[TheCluster]) THEN r.new[o] = 0 ELSE shown[o]

Undisturbed(r, o) == o \in r.pre /\ (r.seen = "none" \/ (o \in Host /\ r.seen = "other"))

(* As long as a handler is not disturbed, what it has saved is what        *)
(* listeners know, and what it is about to report is what is the case.     *)
Saved(r, o) == shown[o] = ((IF o = TheCluster THEN clusterBase ELSE base[r.key][o]) = 0)
WillBeRight ==
  \A g \in Goroutine : \A o \in Object :
    Undisturbed(run[g], o) =>
      /\ run[g].pc \in {"saved", "set"} => Saved(run[g], o)
      /\ run[g].pc = "checked" => Told(run[g], o) = Up(o)

(* The fields that steps change.                                            *)
AtKey(r, p, key) == [r EXCEPT !.pc = p, !.key = key]
AtKeyKnowing(r, p, key, pre) == [r EXCEPT !.pc = p, !.key = key, !.pre = pre]
Finding(r, p, new, due) == [r EXCEPT !.pc = p, !.new = new, !.due = due]

LEMMA Fields ==
  ASSUME NEW r, IsRun(r), NEW p, NEW key, NEW new, NEW due, NEW pre
  PROVE  /\ AtKey(r, p, key) =
              [pc |-> p, key |-> key, new |-> r.new, due |-> r.due, pre |-> r.pre, seen |-> r.seen]
         /\ AtKeyKnowing(r, p, key, pre) =
              [pc |-> p, key |-> key, new |-> r.new, due |-> r.due, pre |-> pre, seen |-> r.seen]
         /\ Finding(r, p, new, due) =
              [pc |-> p, key |-> r.key, new |-> new, due |-> due, pre |-> r.pre, seen |-> r.seen]
<1> DEFINE one == [pc |-> p, key |-> r.key, new |-> r.new, due |-> r.due, pre |-> r.pre, seen |-> r.seen]
           two == [pc |-> p, key |-> key, new |-> r.new, due |-> r.due, pre |-> r.pre, seen |-> r.seen]
           other == [pc |-> p, key |-> r.key, new |-> new, due |-> r.due, pre |-> r.pre, seen |-> r.seen]
<1>1. [r EXCEPT !.pc = p] = one
  BY DEF IsRun
<1>2. [one EXCEPT !.key = key] = two
  OBVIOUS
<1>3. [two EXCEPT !.pre = pre] = [pc |-> p, key |-> key, new |-> r.new, due |-> r.due, pre |-> pre, seen |-> r.seen]
  OBVIOUS
<1>4. [one EXCEPT !.new = new] = other
  OBVIOUS
<1>5. [other EXCEPT !.due = due] = [pc |-> p, key |-> r.key, new |-> new, due |-> due, pre |-> r.pre, seen |-> r.seen]
  OBVIOUS
<1> HIDE DEF one, two, other
<1>6. [r EXCEPT !.pc = p, !.key = key] = [[r EXCEPT !.pc = p] EXCEPT !.key = key]
  OBVIOUS
<1>7. [r EXCEPT !.pc = p, !.key = key, !.pre = pre] = [[[r EXCEPT !.pc = p] EXCEPT !.key = key] EXCEPT !.pre = pre]
  OBVIOUS
<1>8. [r EXCEPT !.pc = p, !.new = new, !.due = due] = [[[r EXCEPT !.pc = p] EXCEPT !.new = new] EXCEPT !.due = due]
  OBVIOUS
<1> QED
  BY <1>1, <1>2, <1>3, <1>4, <1>5, <1>6, <1>7, <1>8 DEF two, AtKey, AtKeyKnowing, Finding

(* An object is up when its status is 0 in some order of its statuses.     *)
LEMMA ZeroIsUp ==
  ASSUME NEW o \in Object
  PROVE  \A s \in StatusOfObject(o) : (s = 0) = Up(o)
<1>1. CASE o \in Host
  <2>1. StatusOfObject(o) = {StatusOf(o)}
    BY <1>1, StatusAssumption DEF StatusOfObject
  <2>2. StatusOf(o) = 0 <=> {StatusOf(o)} = {0}
    OBVIOUS
  <2> QED
    BY <2>1, <2>2 DEF Up
<1>2. CASE o \in Component
  <2>1. StatusOfObject(o) = ComponentStatus(o)
    BY <1>2, StatusAssumption DEF StatusOfObject
  <2>2. \A s \in ComponentStatus(o) : s = 0 <=> ComponentStatus(o) = {0}
    <3> DEFINE statuses == {StatusOf(<<h, o>>) : h \in ComponentHosts(o) \ mm}
    <3>1. ComponentStatus(o) \in {{32}, {0}, Worst(statuses)}
      BY DEF ComponentStatus, Unmapped
    <3> HIDE DEF statuses
    <3> QED
      BY <3>1, WorstOf
  <2> QED
    BY <2>1, <2>2 DEF Up
<1>3. CASE o \in Service
  <2>1. StatusOfObject(o) = ServiceStatus(o)
    BY <1>3, StatusAssumption DEF StatusOfObject
  <2>2. \A s \in ServiceStatus(o) : s = 0 <=> ServiceStatus(o) = {0}
    BY WorstOf DEF ServiceStatus
  <2> QED
    BY <2>1, <2>2 DEF Up
<1>4. CASE o = TheCluster
  <2>1. StatusOfObject(o) = ClusterStatus
    BY <1>4, StatusAssumption DEF StatusOfObject
  <2>2. ClusterServiceStatus # {} /\ \A s \in ClusterServiceStatus : s = 0 <=> ClusterServiceStatus = {0}
    <3> DEFINE all == UNION {ServiceStatus(s) : s \in Service}
    <3>1. ClusterServiceStatus = {32} \/ ClusterServiceStatus = Worst(all)
      BY DEF ClusterServiceStatus, Unmapped
    <3> HIDE DEF all
    <3> QED
      BY <3>1, WorstOf
  <2>3. ClusterHostStatus # {} /\ \A s \in ClusterHostStatus : s = 0 <=> ClusterHostStatus = {0}
    <3> DEFINE statuses == {StatusOf(h) : h \in smap.hosts \ mm}
    <3>1. ClusterHostStatus = {32} \/ ClusterHostStatus = Worst(statuses)
      BY DEF ClusterHostStatus, Unmapped
    <3> HIDE DEF statuses
    <3> QED
      BY <3>1, WorstOf
  <2>4. \A s \in ClusterStatus : s = 0 <=> ClusterStatus = {0}
    BY <2>2, <2>3 DEF ClusterStatus
  <2> QED
    BY <2>1, <2>4 DEF Up
<1> QED
  BY <1>1, <1>2, <1>3, <1>4 DEF Object

(* The keys that report a host: its own.                                   *)
LEMMA KeyOfHost ==
  ASSUME NEW k \in Key
  PROVE  /\ OwnObjects(k) \subseteq Object /\ Reported(k) \subseteq Object /\ TheCluster \notin OwnObjects(k)
         /\ Reported(k) = OwnObjects(k) \cup {TheCluster}
         /\ \A h \in Host : h \in Reported(k) => k = h
<1>1. CASE k \in Host
  BY <1>1, StatusAssumption DEF OwnObjects, Reported, Object
<1>2. CASE k \in Host \X Component
  <2>1. k \notin Host /\ k[2] \in Component /\ serviceOf[k[2]] \in Service
    BY <1>2, StatusAssumption
  <2>2. OwnObjects(k) = {k[2], serviceOf[k[2]]}
    BY <2>1 DEF OwnObjects
  <2> QED
    BY <2>1, <2>2, StatusAssumption DEF Reported, Object
<1> QED
  BY <1>1, <1>2 DEF Key

(* What becomes of a handler while another one goes on at some key.        *)
LEMMA OthersGo ==
  ASSUME RunType, NEW g, NEW r, NEW key, Goes(g, r, key), NEW x \in Goroutine, x # g
  PROVE  /\ IsRun(run'[x])
         /\ run'[x].pc = run[x].pc
         /\ run'[x].seen \in {"none", "other", "same"}
         /\ run[x].pc # "idle" =>
              /\ run'[x].key = run[x].key /\ run'[x].new = run[x].new /\ run'[x].due = run[x].due /\ run'[x].pre = run[x].pre
              /\ run'[x].seen # "none"
              /\ run'[x].seen = "other" => key # run[x].key /\ run[x].seen # "same"
<1>1. CASE run[x].pc = "idle"
  BY <1>1 DEF Goes, Idle, IsRun
<1>2. CASE run[x].pc # "idle"
  <2> DEFINE seen == IF key = run[x].key \/ run[x].seen = "same" THEN "same" ELSE "other"
             w == run[x]
  <2>1. run'[x] = [w EXCEPT !.seen = seen]
    BY <1>2 DEF Goes
  <2>2. w = [pc |-> w.pc, key |-> w.key, new |-> w.new, due |-> w.due, pre |-> w.pre, seen |-> w.seen]
    BY DEF RunType, GoodRun, IsRun
  <2> HIDE DEF w, seen
  <2>3. run'[x] = [pc |-> w.pc, key |-> w.key, new |-> w.new, due |-> w.due, pre |-> w.pre, seen |-> seen]
    BY <2>1, <2>2
  <2>4. /\ run'[x].pc = w.pc /\ run'[x].key = w.key /\ run'[x].new = w.new /\ run'[x].due = w.due
        /\ run'[x].pre = w.pre /\ run'[x].seen = seen /\ IsRun(run'[x])
    BY <2>3 DEF IsRun
  <2> QED
    BY <2>4 DEF w, seen
<1> QED
  BY <1>1, <1>2

(* What a step of one handler must leave alone for the others.             *)
LEMMA OthersStayRight ==
  ASSUME RunType, WillBeRight, NEW g, NEW r, NEW key, Goes(g, r, key),
         \A h \in Host : h # key => entry'[h] = entry[h] /\ base'[h] = base[h] /\ shown'[h] = shown[h],
         NEW x \in Goroutine, x # g, NEW o \in Object, Undisturbed(run'[x], o)
  PROVE  /\ run'[x].pc \in {"saved", "set"} => Saved(run[x], o)'
         /\ run'[x].pc = "checked" => (Told(run[x], o) = Up(o))'
<1> SUFFICES ASSUME run[x].pc # "idle"
             PROVE  /\ run[x].pc \in {"saved", "set"} => Saved(run[x], o)'
                    /\ run[x].pc = "checked" => (Told(run[x], o) = Up(o))'
  BY OthersGo
<1>1. /\ run'[x].pc = run[x].pc /\ run'[x].key = run[x].key /\ run'[x].new = run[x].new
      /\ run'[x].due = run[x].due /\ run'[x].pre = run[x].pre /\ run'[x].seen # "none"
      /\ run'[x].seen = "other" => key # run[x].key /\ run[x].seen # "same"
  BY OthersGo
<1>2. o \in Host /\ o \in run[x].pre /\ key # run[x].key /\ run[x].seen # "same"
  BY <1>1 DEF Undisturbed
<1>3. run[x].key = o /\ o # TheCluster
  BY <1>2, KeyOfHost, StatusAssumption DEF RunType, GoodRun
<1>4. entry'[o] = entry[o] /\ base'[o] = base[o] /\ shown'[o] = shown[o]
  BY <1>2, <1>3
<1>5. Up(o)' = Up(o)
  <2>1. StatusOfObject(o) = {StatusOf(o)} /\ StatusOfObject(o)' = {StatusOf(o)'}
    BY <1>2, StatusAssumption DEF StatusOfObject
  <2>2. StatusOf(o)' = StatusOf(o)
    BY <1>4 DEF StatusOf
  <2> QED
    BY <2>1, <2>2 DEF Up
<1>6. Undisturbed(run[x], o)
  BY <1>2 DEF Undisturbed, RunType, GoodRun
<1>7. CASE run[x].pc \in {"saved", "set"}
  <2>1. Saved(run[x], o)
    BY <1>6, <1>7 DEF WillBeRight
  <2> QED
    BY <1>1, <1>3, <1>4, <1>7, <2>1 DEF Saved
<1>8. CASE run[x].pc = "checked"
  <2>1. Told(run[x], o) = Up(o)
    BY <1>6, <1>8 DEF WillBeRight
  <2>2. Told(run[x], o)' = Told(run[x], o)
    BY <1>1, <1>3, <1>4 DEF Told
  <2> QED
    BY <1>5, <1>8, <2>1, <2>2
<1> QED
  BY <1>7, <1>8


(* The handler that goes on, and all the others, stay as they should be.   *)
LEMMA RunStep ==
  ASSUME RunType, NEW g, NEW r, NEW key, Goes(g, r, key),
         g \in Goroutine => GoodRun(r),
         DOMAIN base' = Key, DOMAIN entry' = Key
  PROVE  RunType'
<1> SUFFICES ASSUME NEW x \in Goroutine PROVE GoodRun(run'[x])
  BY DEF RunType, GoodRun, IsRun, Reported, OwnObjects
<1>1. CASE x = g
  <2>1. run'[x] = r
    BY <1>1 DEF Goes
  <2> QED
    BY <1>1, <2>1
<1>2. CASE x # g
  <2>1. /\ IsRun(run'[x]) /\ run'[x].pc = run[x].pc
        /\ run'[x].seen \in {"none", "other", "same"}
        /\ run[x].pc # "idle" => run'[x].key = run[x].key /\ run'[x].due = run[x].due /\ run'[x].pre = run[x].pre
    BY <1>2, OthersGo
  <2>2. GoodRun(run[x])
    BY DEF RunType
  <2> QED
    BY <2>1, <2>2 DEF GoodRun
<1> QED
  BY <1>1, <1>2

(* The same for what they know.                                            *)
LEMMA RightStep ==
  ASSUME RunType, WillBeRight, NEW g, NEW r, NEW key, Goes(g, r, key),
         \A h \in Host : h # key => entry'[h] = entry[h] /\ base'[h] = base[h] /\ shown'[h] = shown[h],
         g \in Goroutine => \A o \in Object : Undisturbed(run'[g], o) =>
           /\ run'[g].pc \in {"saved", "set"} => Saved(run[g], o)'
           /\ run'[g].pc = "checked" => (Told(run[g], o) = Up(o))'
  PROVE  WillBeRight'
<1> SUFFICES ASSUME NEW x \in Goroutine, NEW o \in Object, Undisturbed(run'[x], o)
             PROVE  /\ run'[x].pc \in {"saved", "set"} => Saved(run[x], o)'
                    /\ run'[x].pc = "checked" => (Told(run[x], o) = Up(o))'
  BY DEF WillBeRight, Undisturbed
<1>1. CASE x = g
  BY <1>1
<1>2. CASE x # g
  BY <1>2, OthersStayRight
<1> QED
  BY <1>1, <1>2

ReportInv == RunType /\ WillBeRight

LEMMA ReportInit == Init => ReportInv
<1> SUFFICES ASSUME Init PROVE ReportInv
  OBVIOUS
<1>1. RunType
  BY DEF Init, RunType, GoodRun, IsRun, Idle
<1>2. WillBeRight
  BY DEF Init, WillBeRight, Undisturbed, Idle
<1> QED
  BY <1>1, <1>2 DEF ReportInv

LEMMA HostsAreKeys == \A h \in Host : h \in Key
  BY DEF Key

(* What has been saved is what is the case, and listeners know it of what  *)
(* they are right about.                                                   *)
LEMMA SaveIsRight ==
  ASSUME ReportInv, NEW g \in Goroutine, NEW k \in Key, Save(g, k)
  PROVE  ReportInv'
<1> DEFINE right == {o \in Reported(k) : shown[o] = Up(o)}
           r == [Idle EXCEPT !.pc = "saved", !.key = k, !.pre = right]
<1>1. r = [pc |-> "saved", key |-> k, new |-> <<>>, due |-> {}, pre |-> right, seen |-> "none"]
  <2>1. IsRun(Idle) /\ Idle.new = <<>> /\ Idle.due = {} /\ Idle.seen = "none"
    BY DEF IsRun, Idle
  <2>2. r = AtKeyKnowing(Idle, "saved", k, right)
    BY DEF AtKeyKnowing
  <2> HIDE DEF right, r
  <2> QED
    BY <2>1, <2>2, Fields
<1>2. PICK f \in Fill(k) : base' = [base EXCEPT ![k] = Own(k, f)] /\ clusterBase' = f[TheCluster]
  BY DEF Save
<1>3. Goes(g, r, k) /\ UNCHANGED <<entry, adcm, shown>>
  BY DEF Save
<1> HIDE DEF r
<1>4. run'[g] = r
  BY <1>3 DEF Goes
<1>5. GoodRun(r)
  BY <1>1 DEF GoodRun, IsRun
<1>6. DOMAIN base' = Key /\ DOMAIN entry' = Key
  BY <1>2, <1>3 DEF ReportInv, RunType
<1>7. RunType'
  BY <1>3, <1>5, <1>6, RunStep DEF ReportInv
<1>8. ASSUME NEW o \in Object, Undisturbed(run'[g], o)
      PROVE  Saved(run[g], o)'
  <2>1. o \in Reported(k) /\ shown[o] = Up(o)
    BY <1>1, <1>4, <1>8 DEF Undisturbed
  <2>2. f[o] \in StatusOfObject(o)
    BY <2>1 DEF Fill
  <2>3. (f[o] = 0) = Up(o)
    BY <2>2, ZeroIsUp
  <2>4. (IF o = TheCluster THEN clusterBase' ELSE base'[k][o]) = f[o]
    <3>1. CASE o = TheCluster
      BY <3>1, <1>2
    <3>2. CASE o # TheCluster
      <4>1. base'[k] = Own(k, f)
        BY <1>2 DEF ReportInv, RunType
      <4>2. o \in OwnObjects(k)
        BY <2>1, <3>2 DEF Reported
      <4> QED
        BY <3>2, <4>1, <4>2 DEF Own
    <3> QED
      BY <3>1, <3>2
  <2>5. shown'[o] = shown[o] /\ run'[g].key = k
    BY <1>1, <1>3, <1>4
  <2>6. shown'[o] = (f[o] = 0)
    BY <2>1, <2>3, <2>5
  <2> QED
    BY <2>4, <2>5, <2>6 DEF Saved
<1>9. \A h \in Host : h # k => entry'[h] = entry[h] /\ base'[h] = base[h] /\ shown'[h] = shown[h]
  BY <1>2, <1>3, HostsAreKeys DEF ReportInv, RunType
<1>10. run'[g].pc = "saved"
  BY <1>1, <1>4
<1>11. \A o \in Object : Undisturbed(run'[g], o) =>
           /\ run'[g].pc \in {"saved", "set"} => Saved(run[g], o)'
           /\ run'[g].pc = "checked" => (Told(run[g], o) = Up(o))'
  BY <1>8, <1>10
<1>12. WillBeRight'
  BY <1>3, <1>9, <1>11, RightStep DEF ReportInv
<1> QED
  BY <1>7, <1>12 DEF ReportInv

(* A set changes the status of its key only.                               *)
LEMMA SetIsRight ==
  ASSUME ReportInv, NEW g \in Goroutine, NEW v \in Value, Set(g, v)
  PROVE  ReportInv'
<1> DEFINE w == run[g]
           k == run[g].key
           r == [w EXCEPT !.pc = "set"]
<1>1. GoodRun(w) /\ w.pc = "saved" /\ k \in Key
  BY DEF ReportInv, RunType, GoodRun, Set
<1>2. Goes(g, r, k) /\ UNCHANGED <<adcm, base, clusterBase, shown>>
  BY DEF Set, events
<1>3. DOMAIN entry' = Key /\ \A h \in Host : h # k => entry'[h] = entry[h]
  BY HostsAreKeys DEF Set, StorageSet, ReportInv, RunType
<1>4. w = [pc |-> w.pc, key |-> w.key, new |-> w.new, due |-> w.due, pre |-> w.pre, seen |-> w.seen]
  BY <1>1 DEF GoodRun, IsRun
<1> HIDE DEF w, k
<1>5. r = [pc |-> "set", key |-> w.key, new |-> w.new, due |-> w.due, pre |-> w.pre, seen |-> w.seen]
  BY <1>4
<1> HIDE DEF r
<1>6. GoodRun(r)
  BY <1>1, <1>5 DEF GoodRun, IsRun, k, w
<1>7. run'[g] = r
  BY <1>2 DEF Goes
<1>8. DOMAIN base' = Key
  BY <1>2 DEF ReportInv, RunType
<1>9. RunType'
  BY <1>2, <1>3, <1>6, <1>8, RunStep DEF ReportInv
<1>10. ASSUME NEW o \in Object, Undisturbed(run'[g], o)
       PROVE  Saved(run[g], o)'
  <2>1. Undisturbed(w, o)
    BY <1>5, <1>7, <1>10 DEF Undisturbed
  <2>2. Saved(w, o)
    BY <1>1, <2>1 DEF ReportInv, WillBeRight, w
  <2>3. run'[g].key = w.key
    BY <1>5, <1>7
  <2> QED
    BY <1>2, <2>2, <2>3 DEF Saved
<1>11. run'[g].pc = "set"
  BY <1>5, <1>7
<1>12. \A h \in Host : h # k => entry'[h] = entry[h] /\ base'[h] = base[h] /\ shown'[h] = shown[h]
  BY <1>2, <1>3
<1>13. \A o \in Object : Undisturbed(run'[g], o) =>
           /\ run'[g].pc \in {"saved", "set"} => Saved(run[g], o)'
           /\ run'[g].pc = "checked" => (Told(run[g], o) = Up(o))'
  BY <1>10, <1>11
<1>14. WillBeRight'
  BY <1>2, <1>12, <1>13, RightStep DEF ReportInv
<1> QED
  BY <1>9, <1>14 DEF ReportInv

(* A check finds what is the case; what differs from what was saved is due.*)
LEMMA CheckIsRight ==
  ASSUME ReportInv, NEW g \in Goroutine, Check(g)
  PROVE  ReportInv'
<1> DEFINE w == run[g]
           k == run[g].key
<1>1. GoodRun(w) /\ w.pc = "set" /\ k \in Key /\ w.pre \subseteq Reported(k)
  BY DEF ReportInv, RunType, GoodRun, Check
<1>2. PICK f \in Fill(k) :
        Goes(g, [w EXCEPT !.pc = "checked", !.new = f,
                          !.due = {o \in OwnObjects(k) : base[k][o] # f[o]}], k)
  BY DEF Check
<1>3. UNCHANGED <<entry, adcm, base, clusterBase, shown>>
  BY DEF Check, events, store
<1>4. IsRun(w)
  BY <1>1 DEF GoodRun
<1>k. w.key = k
  OBVIOUS
<1> DEFINE due == {o \in OwnObjects(k) : base[k][o] # f[o]}
           r == [w EXCEPT !.pc = "checked", !.new = f, !.due = due]
<1>5. Goes(g, r, k)
  BY <1>2
<1> HIDE DEF w, k, due
<1>6. r = [pc |-> "checked", key |-> w.key, new |-> f, due |-> due, pre |-> w.pre, seen |-> w.seen]
  <2>1. r = Finding(w, "checked", f, due)
    BY DEF Finding
  <2> HIDE DEF r
  <2> QED
    BY <1>4, <2>1, Fields
<1> HIDE DEF r
<1>7. due \subseteq OwnObjects(k)
  BY DEF due
<1>8. GoodRun(r)
  BY <1>1, <1>k, <1>6, <1>7 DEF GoodRun, IsRun
<1>9. run'[g] = r
  BY <1>5 DEF Goes
<1>10. DOMAIN base' = Key /\ DOMAIN entry' = Key
  BY <1>3 DEF ReportInv, RunType
<1>11. RunType'
  BY <1>5, <1>8, <1>10, RunStep DEF ReportInv
<1>12. ASSUME NEW o \in Object, Undisturbed(run'[g], o)
       PROVE  (Told(run[g], o) = Up(o))'
  <2>1. Undisturbed(w, o) /\ o \in w.pre
    BY <1>6, <1>9, <1>12 DEF Undisturbed
  <2>2. shown[o] = ((IF o = TheCluster THEN clusterBase ELSE base[k][o]) = 0)
    <3>1. Saved(w, o)
      BY <1>1, <2>1 DEF ReportInv, WillBeRight, w
    <3> QED
      BY <3>1, <1>k DEF Saved
  <2>3. o \in Reported(k)
    BY <1>1, <2>1
  <2>4. (f[o] = 0) = Up(o)
    <3>1. f[o] \in StatusOfObject(o)
      BY <2>3 DEF Fill
    <3> QED
      BY <3>1, ZeroIsUp
  <2>5. Up(o)' = Up(o)
    BY <1>3 DEF adcm, Up, StatusOfObject, StatusOf, ComponentStatus, ServiceStatus, ClusterStatus,
                ClusterHostStatus, ClusterServiceStatus, ComponentHosts
  <2>6. Told(run[g], o)' = IF o \in due \/ (o = TheCluster /\ clusterBase # f[TheCluster]) THEN f[o] = 0 ELSE shown[o]
    BY <1>3, <1>6, <1>9 DEF Told
  <2>7. CASE o \in due \/ (o = TheCluster /\ clusterBase # f[TheCluster])
    <3>1. Told(run[g], o)' = (f[o] = 0)
      BY <2>6, <2>7
    <3> QED
      BY <2>4, <2>5, <3>1
  <2>8. CASE ~(o \in due \/ (o = TheCluster /\ clusterBase # f[TheCluster]))
    <3>1. Told(run[g], o)' = shown[o]
      BY <2>6, <2>8
    <3>2. (IF o = TheCluster THEN clusterBase ELSE base[k][o]) = f[o]
      BY <2>3, <2>8 DEF due, Reported
    <3>3. shown[o] = (f[o] = 0)
      BY <2>2, <3>2
    <3> QED
      BY <2>4, <2>5, <3>1, <3>3
  <2> QED
    BY <2>7, <2>8
<1>13. run'[g].pc = "checked"
  BY <1>6, <1>9
<1>14. \A o \in Object : Undisturbed(run'[g], o) =>
           /\ run'[g].pc \in {"saved", "set"} => Saved(run[g], o)'
           /\ run'[g].pc = "checked" => (Told(run[g], o) = Up(o))'
  BY <1>12, <1>13
<1>15. \A h \in Host : h # k => entry'[h] = entry[h] /\ base'[h] = base[h] /\ shown'[h] = shown[h]
  BY <1>3
<1>16. WillBeRight'
  BY <1>5, <1>14, <1>15, RightStep DEF ReportInv
<1> QED
  BY <1>11, <1>16 DEF ReportInv

(* What a report tells of a host comes from the host's own key.            *)
LEMMA ReportIsRight ==
  ASSUME ReportInv, NEW g \in Goroutine, Report(g)
  PROVE  ReportInv'
<1> DEFINE k == run[g].key
           new == run[g].new
           due == run[g].due \cup (IF clusterBase # new[TheCluster] THEN {TheCluster} ELSE {})
<1>1. k \in Key /\ run[g].due \subseteq OwnObjects(k)
  BY DEF ReportInv, RunType, GoodRun, Report
<1>2. /\ shown' = [o \in Object |-> IF o \in due THEN new[o] = 0 ELSE shown[o]]
      /\ base' = [base EXCEPT ![k] = Own(k, new)]
      /\ entry' = entry
      /\ Goes(g, Idle, k)
  BY DEF Report, store
<1>3. run'[g] = Idle
  BY <1>2 DEF Goes
<1>4. GoodRun(Idle) /\ Idle.pc = "idle"
  BY DEF GoodRun, IsRun, Idle
<1>5. DOMAIN base' = Key /\ DOMAIN entry' = Key
  BY <1>2 DEF ReportInv, RunType
<1>6. RunType'
  BY <1>2, <1>4, <1>5, RunStep DEF ReportInv
<1>7. ASSUME NEW h \in Host, h # k
      PROVE  entry'[h] = entry[h] /\ base'[h] = base[h] /\ shown'[h] = shown[h]
  <2>1. h \notin run[g].due /\ h # TheCluster /\ h \in Object
    BY <1>1, <1>7, KeyOfHost, StatusAssumption DEF Object
  <2>2. base'[h] = base[h]
    BY <1>2, <1>7, HostsAreKeys DEF ReportInv, RunType
  <2> QED
    BY <1>2, <2>1, <2>2
<1>8. WillBeRight'
  BY <1>2, <1>3, <1>4, <1>7, RightStep DEF ReportInv
<1> QED
  BY <1>6, <1>8 DEF ReportInv

LEMMA ReportStep == ReportInv /\ [Next]_vars => ReportInv'
<1> SUFFICES ASSUME ReportInv, [Next]_vars PROVE ReportInv'
  OBVIOUS
<1>0. Idle.pc = "idle" /\ Idle.pre = {} /\ GoodRun(Idle)
  BY DEF Idle, GoodRun, IsRun
<1>1. ASSUME NEW g \in Goroutine, NEW k \in Key, Save(g, k) PROVE ReportInv'
  BY <1>1, SaveIsRight
<1>2. ASSUME NEW g \in Goroutine, NEW v \in Value, Set(g, v) PROVE ReportInv'
  BY <1>2, SetIsRight
<1>3. ASSUME NEW g \in Goroutine, Check(g) PROVE ReportInv'
  BY <1>3, CheckIsRight
<1>4. ASSUME NEW g \in Goroutine, Report(g) PROVE ReportInv'
  BY <1>4, ReportIsRight
<1>5. ASSUME NEW g \in Goroutine, NEW k \in Key, StartCallback(g, k) PROVE ReportInv'
  <2> DEFINE r == [Idle EXCEPT !.pc = "set", !.key = k]
  <2>1. r = [pc |-> "set", key |-> k, new |-> <<>>, due |-> {}, pre |-> {}, seen |-> "none"]
    <3>1. IsRun(Idle) /\ Idle.new = <<>> /\ Idle.due = {} /\ Idle.pre = {} /\ Idle.seen = "none"
      BY DEF IsRun, Idle
    <3>2. r = AtKey(Idle, "set", k)
      BY DEF AtKey
    <3> HIDE DEF r
    <3> QED
      BY <3>1, <3>2, Fields
  <2>2. Goes(g, r, k) /\ UNCHANGED <<entry, base, shown>>
    BY <1>5 DEF StartCallback, store, events
  <2> HIDE DEF r
  <2>3. GoodRun(r)
    BY <2>1 DEF GoodRun, IsRun
  <2>4. DOMAIN base' = Key /\ DOMAIN entry' = Key
    BY <2>2 DEF ReportInv, RunType
  <2>5. RunType'
    BY <2>2, <2>3, <2>4, RunStep DEF ReportInv
  <2>6. run'[g] = r /\ r.pre = {}
    BY <2>1, <2>2 DEF Goes
  <2>7. \A o \in Object : ~Undisturbed(run'[g], o)
    BY <2>6 DEF Undisturbed
  <2>8. WillBeRight'
    BY <2>2, <2>7, RightStep DEF ReportInv
  <2> QED
    BY <2>5, <2>8 DEF ReportInv
<1>6. ASSUME NEW k \in Key, TimerFires(k) PROVE ReportInv'
  <2>1. Goes(None, Idle, k) /\ UNCHANGED <<base, shown>>
    BY <1>6 DEF TimerFires, events
  <2>2. DOMAIN entry' = Key /\ \A h \in Host : h # k => entry'[h] = entry[h]
    BY <1>6, HostsAreKeys DEF TimerFires, ReportInv, RunType
  <2>3. DOMAIN base' = Key
    BY <2>1 DEF ReportInv, RunType
  <2>4. RunType'
    BY <2>1, <2>2, <2>3, StatusAssumption, RunStep DEF ReportInv
  <2>5. WillBeRight'
    BY <2>1, <2>2, StatusAssumption, RightStep DEF ReportInv
  <2> QED
    BY <2>4, <2>5 DEF ReportInv
<1>7. ASSUME PostServiceMap \/ PostMMObjects PROVE ReportInv'
  <2>1. Goes(None, Idle, None) /\ UNCHANGED <<entry, base, shown>>
    BY <1>7 DEF PostServiceMap, PostMMObjects, store, events
  <2>2. DOMAIN base' = Key /\ DOMAIN entry' = Key
    BY <2>1 DEF ReportInv, RunType
  <2>3. RunType'
    BY <2>1, <2>2, StatusAssumption, RunStep DEF ReportInv
  <2>4. WillBeRight'
    BY <2>1, StatusAssumption, RightStep DEF ReportInv
  <2> QED
    BY <2>3, <2>4 DEF ReportInv
<1>8. CASE UNCHANGED vars
  <2>1. RunType'
    BY <1>8 DEF vars, store, events, adcm, ReportInv, RunType
  <2>2. \A o \in Object : Up(o)' = Up(o)
    BY <1>8 DEF vars, store, adcm, Up, StatusOfObject, StatusOf, ComponentStatus, ServiceStatus, ClusterStatus,
                ClusterHostStatus, ClusterServiceStatus, ComponentHosts
  <2>3. run' = run /\ shown' = shown /\ base' = base /\ clusterBase' = clusterBase
    BY <1>8 DEF vars, events
  <2>4. WillBeRight'
    <3> SUFFICES ASSUME NEW g \in Goroutine, NEW o \in Object, Undisturbed(run[g], o)
                 PROVE  /\ run[g].pc \in {"saved", "set"} => Saved(run[g], o)'
                        /\ run[g].pc = "checked" => (Told(run[g], o) = Up(o))'
      BY <2>3 DEF WillBeRight, Undisturbed
    <3>1. Saved(run[g], o)' = Saved(run[g], o) /\ Told(run[g], o)' = Told(run[g], o)
      BY <2>3 DEF Saved, Told
    <3> QED
      BY <2>2, <3>1 DEF ReportInv, WillBeRight
  <2> QED
    BY <2>1, <2>4 DEF ReportInv
<1>9. \A g \in FirstFree : g \in Goroutine
  BY DEF FirstFree, Free
<1> QED
  BY <1>1, <1>2, <1>3, <1>4, <1>5, <1>6, <1>7, <1>8, <1>9 DEF Next, HandlerStep

(* Who posts a status leaves the listeners of the events right about       *)
(* everything it reports on and they were right about before, unless it    *)
(* was disturbed; about a host unless it was disturbed at that host.       *)
THEOREM PostsAreReported == Spec => PostIsReported
<1> DEFINE Reports ==
      \A g \in Goroutine :
        run[g].pc = "checked" /\ run'[g].pc = "idle" =>
          \A o \in run[g].pre :
            run[g].seen = "none" \/ (o \in Host /\ run[g].seen = "other") => shown'[o] = Up(o)
<1>1. ReportInv /\ [Next]_vars => [Reports]_vars
  <2> SUFFICES ASSUME ReportInv, Next, NEW g \in Goroutine, run[g].pc = "checked", run'[g].pc = "idle",
                      NEW o \in run[g].pre, run[g].seen = "none" \/ (o \in Host /\ run[g].seen = "other")
               PROVE  shown'[o] = Up(o)
    OBVIOUS
  <2>1. ASSUME NEW x, NEW r, NEW key, Goes(x, r, key) PROVE x = g
    <3>1. run'[g].pc # run[g].pc
      OBVIOUS
    <3> QED
      BY <2>1, <3>1, OthersGo DEF ReportInv
  <2>2. ASSUME NEW x \in Goroutine, NEW k \in Key, Save(x, k) PROVE FALSE
    BY <2>1, <2>2 DEF Save
  <2>3. ASSUME NEW x \in Goroutine, NEW k \in Key, StartCallback(x, k) PROVE FALSE
    BY <2>1, <2>3 DEF StartCallback
  <2>4. ASSUME NEW x \in Goroutine, NEW v \in Value, Set(x, v) PROVE FALSE
    BY <2>1, <2>4 DEF Set
  <2>5. ASSUME NEW x \in Goroutine, Check(x) PROVE FALSE
    BY <2>1, <2>5 DEF Check
  <2>6. ASSUME NEW k \in Key, TimerFires(k) PROVE FALSE
    BY <2>1, <2>6, StatusAssumption DEF TimerFires
  <2>7. ASSUME PostServiceMap \/ PostMMObjects PROVE FALSE
    BY <2>1, <2>7, StatusAssumption DEF PostServiceMap, PostMMObjects
  <2>8. ASSUME NEW x \in Goroutine, Report(x) PROVE x = g
    BY <2>1, <2>8 DEF Report
  <2>9. \A x \in FirstFree : x \in Goroutine
    BY DEF FirstFree, Free
  <2>10. Report(g)
    BY <2>2, <2>3, <2>4, <2>5, <2>6, <2>7, <2>8, <2>9 DEF Next, HandlerStep
  <2>11. o \in Object
    <3>1. GoodRun(run[g])
      BY DEF ReportInv, RunType
    <3> QED
      BY <3>1, KeyOfHost DEF GoodRun
  <2>12. Told(run[g], o) = Up(o)
    BY <2>11 DEF ReportInv, WillBeRight, Undisturbed
  <2>13. shown'[o] = Told(run[g], o)
    <3> DEFINE due == run[g].due \cup (IF clusterBase # run[g].new[TheCluster] THEN {TheCluster} ELSE {})
    <3>1. shown' = [q \in Object |-> IF q \in due THEN run[g].new[q] = 0 ELSE shown[q]]
      BY <2>10 DEF Report
    <3>2. o \in due <=> o \in run[g].due \/ (o = TheCluster /\ clusterBase # run[g].new[TheCluster])
      OBVIOUS
    <3> HIDE DEF due
    <3>3. shown'[o] = IF o \in due THEN run[g].new[o] = 0 ELSE shown[o]
      BY <2>11, <3>1
    <3> QED
      BY <3>2, <3>3 DEF Told
  <2> QED
    BY <2>12, <2>13
<1> QED
  BY ReportInit, ReportStep, <1>1, PTL DEF Spec, PostIsReported

=============================================================================
