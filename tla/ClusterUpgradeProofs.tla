------------------------ MODULE ClusterUpgradeProofs ------------------------
(***************************************************************************)
(* What is promised of upgrades and reverts holds for any number of        *)
(* bundles, whatever they offer, and for any requests and changes.         *)
(***************************************************************************)
EXTENDS ClusterUpgrade, TLAPS

(* What is kept of deleted objects, for any set of them.                   *)
Keeping(objects) == UNION {[gone -> Kept] : gone \in SUBSET objects}

Snap ==
  [bundle : 0..MaxVersion, services : SUBSET Service, hc : SUBSET (Host \X Component),
   deleted : Keeping(Part), dropped : Keeping(Component)]

Stage == {"idle", "checked", "written", "switched", "done"}
Asked == [at : Stage, action : BOOLEAN, target : 0..MaxVersion, bundle : 0..MaxVersion, state : State, snap : Snap]
Kind == {None, "upgrade", "upgraded", "revert", "reverted"}

(* Types of all that operations read later than it was written.            *)
MemoryOK ==
  /\ snap \in Snap
  /\ request \in [Request -> Asked]
  /\ \A r \in Request : request[r].at \in {"checked", "written"} => request[r].target \in Bundle /\ request[r].bundle \in Bundle
  /\ task \in [kind : Kind, target : 0..MaxVersion]
  /\ task.kind = "upgrade" => task.target \in Bundle
  /\ task.kind = "revert" => snap.bundle \in Bundle

(* What an upgrade to revert had of the old bundle's offer.                *)
Had == {TheCluster} \cup snap.services \cup (offered[snap.bundle] \cap ComponentsOf(snap.services))
Within(objects) == objects \cup (offered[snap.bundle] \cap ComponentsOf(objects))

(* What was kept of an object is what it was.                              *)
IsPast(o, kept) == past.row[o] # None /\ kept.state = past.row[o].state /\ kept.config = past.row[o].config

SnapIsOfBundle ==
  /\ snap.services \subseteq offered[snap.bundle]
  /\ \A m \in snap.hc : m[2] \in Had

PastIsSnap ==
  /\ past.row \in [Object -> Plain \cup {None}]
  /\ \A o \in Object : past.row[o] # None <=> o \in Had
  /\ \A o \in Had : past.row[o].bundle = snap.bundle
  /\ past.hc = snap.hc

BeforeIsPast ==
  \A o \in Existing : row[o].before # None => IsPast(o, row[o].before)

(* Unless an object has been added, all the old bundle's have a state to   *)
(* go back to.                                                             *)
NoneAdded ==
  since \cap {"added", "created"} = {} =>
    \A o \in Existing \cap ({TheCluster} \cup offered[snap.bundle]) : row[o].before # None

DroppedAreKept ==
  \A s \in ServicesNow : row[s].before # None =>
    \A c \in offered[snap.bundle] \cap ComponentsOf({s}) :
      c \in Existing \/ (c \in DOMAIN snap.dropped /\ IsPast(c, snap.dropped[c]))

DeletedAreKept ==
  "deleted" \notin since =>
    \A s \in snap.services \ ServicesNow : \A o \in Within({s}) :
      o \in DOMAIN snap.deleted /\ IsPast(o, snap.deleted[o])

HostsAreBound ==
  "left" \notin since => \A m \in snap.hc : m[1] \in bound

(* All of it while there is an upgrade to revert that none has overtaken.  *)
Revertible ==
  /\ SnapIsOfBundle
  /\ PastIsSnap
  /\ BeforeIsPast
  /\ NoneAdded
  /\ DroppedAreKept
  /\ DeletedAreKept
  /\ HostsAreBound

(* The inductive invariant.                                                *)
UpgradeInv ==
  /\ OneBundle
  /\ ServicesNow \subseteq offered[Current]
  /\ MemoryOK
  /\ snap.bundle # 0 /\ "overtaken" \notin since => Revertible

-----------------------------------------------------------------------------
(* Functions of what is kept                                               *)

(* Keeping, without the union.                                             *)
LEMMA KeepingMeans ==
  ASSUME NEW objects, NEW f
  PROVE  f \in Keeping(objects) <=> DOMAIN f \subseteq objects /\ f \in [DOMAIN f -> Kept]
<1>1. ASSUME f \in Keeping(objects) PROVE DOMAIN f \subseteq objects /\ f \in [DOMAIN f -> Kept]
  <2>1. PICK gone \in SUBSET objects : f \in [gone -> Kept]
    BY <1>1 DEF Keeping
  <2> QED
    BY <2>1
<1>2. ASSUME DOMAIN f \subseteq objects, f \in [DOMAIN f -> Kept] PROVE f \in Keeping(objects)
  BY <1>2 DEF Keeping
<1> QED
  BY <1>1, <1>2

(* Two of them together are one.                                           *)
LEMMA MergedKeeps ==
  ASSUME NEW objects, NEW f \in Keeping(objects), NEW g \in Keeping(objects)
  PROVE  Merged(f, g) \in Keeping(objects)
<1>1. DOMAIN f \subseteq objects /\ f \in [DOMAIN f -> Kept] /\ DOMAIN g \subseteq objects /\ g \in [DOMAIN g -> Kept]
  BY KeepingMeans
<1>2. DOMAIN Merged(f, g) = DOMAIN f \cup DOMAIN g
  BY DEF Merged
<1>3. Merged(f, g) \in [DOMAIN f \cup DOMAIN g -> Kept]
  BY <1>1 DEF Merged
<1> QED
  BY <1>1, <1>2, <1>3, KeepingMeans

(* A new object is a row of its bundle.                                    *)
LEMMA NewIsRow ==
  ASSUME NEW b \in Bundle, NEW o \in Object
  PROVE  /\ New(b, o) \in Row /\ New(b, o).bundle = b /\ New(b, o).before = None
         /\ New(b, o).state = "created" /\ New(b, o) # None
         /\ New(b, o).config = IF o \in configured[b] THEN "default" ELSE None
  BY NoneAssumption DEF New, Row, State, Config

(* None is no row and nothing that is kept.                                *)
LEMMA NoneIsNone ==
  /\ None \notin Row /\ None \notin Kept /\ None \notin Plain /\ None \notin Config
  /\ \A r \in Row : r.bundle \in Bundle /\ r.state \in State /\ r.config \in Config \cup {None} /\ r.before \in Kept \cup {None}
  BY NoneAssumption DEF Row

(* Of what the cluster's parts are, as an invariant state has it.          *)
LEMMA PartsOfCluster ==
  ASSUME UpgradeInv
  PROVE  /\ \A o \in Object : row[o] \in Row \cup {None}
         /\ \A o \in Existing : o \in Object /\ row[o] \in Row /\ row[o] # None /\ row[o].bundle = Current
         /\ TheCluster \in Existing /\ Current \in Bundle
         /\ \A o \in Object \ Existing : row[o] = None
         /\ \A c \in Component : c \in Existing <=> c \in offered[Current] /\ serviceOf[c] \in ServicesNow
         /\ Existing \subseteq {TheCluster} \cup offered[Current]
         /\ \A c \in Component : serviceOf[c] \in Service
<1>1. \A o \in Object : row[o] \in Row \cup {None}
  BY DEF UpgradeInv, OneBundle, TypeOK
<1>2. TheCluster \in Existing
  BY DEF UpgradeInv, OneBundle, TypeOK, Existing, Object
<1>3. \A o \in Existing : o \in Object /\ row[o] \in Row /\ row[o] # None /\ row[o].bundle = Current
  BY <1>1 DEF UpgradeInv, OneBundle, Existing
<1>4. Current \in Bundle
  BY <1>2, <1>3, NoneIsNone DEF Current
<1>5. \A c \in Component : c \in Object /\ serviceOf[c] \in Service
  BY BundlesAssumption DEF Object, Part
<1>6. Existing \cap Component = offered[Current] \cap ComponentsOf(ServicesNow)
  BY DEF UpgradeInv, OneBundle
<1>7. \A c \in Component : c \in Existing <=> c \in offered[Current] /\ serviceOf[c] \in ServicesNow
  BY <1>6 DEF ComponentsOf
<1>8. Existing \subseteq {TheCluster} \cup offered[Current]
  BY <1>3, <1>7 DEF UpgradeInv, ServicesNow, Object, Part
<1> QED
  BY <1>1, <1>2, <1>3, <1>4, <1>5, <1>7, <1>8 DEF Existing

-----------------------------------------------------------------------------
(* bundle_switch                                                           *)

(* What a switch to b leaves of before_upgrade.                            *)
LEMMA SwitchKeeps ==
  ASSUME UpgradeInv, NEW b \in Bundle, ~SwitchRaises(b)
  PROVE  LET after == KeptByCluster(b)
             gone == {o \in Existing \cap Part : (IF o \in Service THEN o ELSE serviceOf[o]) \notin offered[b]}
             dropped == {c \in Existing \cap Component : c \notin offered[b] /\ serviceOf[c] \in offered[b]}
         IN  /\ after \in Snap
             /\ after.bundle = snap.bundle /\ after.services = snap.services /\ after.hc = snap.hc
             /\ DOMAIN after.deleted = DOMAIN snap.deleted \cup gone
             /\ \A o \in gone : after.deleted[o] = row[o].before
             /\ \A o \in DOMAIN snap.deleted \ gone : after.deleted[o] = snap.deleted[o]
             /\ dropped \subseteq DOMAIN after.dropped
             /\ \A c \in dropped : after.dropped[c] = row[c].before
             /\ \A o \in (Existing \cap Part) \ offered[b] : row[o].before \in Kept
<1> DEFINE services == ServicesNow \ offered[b]
           components == Existing \cap Component
           gone == services \cup (components \cap ComponentsOf(services))
           dropped == components \ (offered[b] \cup gone)
           updated == {serviceOf[c] : c \in dropped}
           others == [c \in DOMAIN snap.dropped \ ComponentsOf(updated) |-> snap.dropped[c]]
           goneNow == [o \in gone |-> row[o].before]
           droppedNow == [c \in dropped |-> row[c].before]
           one == [snap EXCEPT !.deleted = Merged(snap.deleted, goneNow)]
<1>1. /\ \A o \in Existing : o \in Object /\ row[o] \in Row
      /\ \A c \in Component : serviceOf[c] \in Service /\ (c \in Existing => serviceOf[c] \in ServicesNow)
      /\ \A o \in Part : o \in Service \/ o \in Component
  BY PartsOfCluster DEF Part
<1>2. \A o \in (Existing \cap Part) \ offered[b] : row[o].before \in Kept
  BY <1>1, NoneIsNone DEF SwitchRaises
<1>3. gone = {o \in Existing \cap Part : (IF o \in Service THEN o ELSE serviceOf[o]) \notin offered[b]}
  BY <1>1, BundlesAssumption DEF ServicesNow, ComponentsOf, Part
<1>4. gone \subseteq (Existing \cap Part) \ offered[b]
  BY <1>1, BundlesAssumption DEF ServicesNow, ComponentsOf, Part
<1>5. dropped = {c \in Existing \cap Component : c \notin offered[b] /\ serviceOf[c] \in offered[b]}
  BY <1>1, BundlesAssumption DEF ServicesNow, ComponentsOf, Part
<1>6. dropped \subseteq (Existing \cap Part) \ offered[b] /\ dropped \subseteq Component
  BY DEF Part
<1>7. snap \in Snap
  BY DEF UpgradeInv, MemoryOK
<1>8. snap.deleted \in Keeping(Part) /\ snap.dropped \in Keeping(Component)
  BY <1>7 DEF Snap
<1>9. goneNow \in Keeping(Part)
  <2>1. DOMAIN goneNow = gone /\ gone \subseteq Part /\ goneNow \in [gone -> Kept]
    BY <1>2, <1>4
  <2> QED
    BY <2>1, KeepingMeans
<1>10. droppedNow \in Keeping(Component)
  <2>1. DOMAIN droppedNow = dropped /\ droppedNow \in [dropped -> Kept]
    BY <1>2, <1>6
  <2> QED
    BY <2>1, <1>6, KeepingMeans
<1>11. others \in Keeping(Component)
  <2>1. DOMAIN snap.dropped \subseteq Component /\ snap.dropped \in [DOMAIN snap.dropped -> Kept]
    BY <1>8, KeepingMeans
  <2>2. DOMAIN others \subseteq Component /\ others \in [DOMAIN others -> Kept]
    BY <2>1
  <2> QED
    BY <2>2, KeepingMeans
<1> DEFINE deleted == Merged(snap.deleted, goneNow)
           lost == Merged(others, droppedNow)
<1>12. /\ deleted \in Keeping(Part) /\ DOMAIN deleted = DOMAIN snap.deleted \cup gone
       /\ \A o \in gone : deleted[o] = row[o].before
       /\ \A o \in DOMAIN snap.deleted \ gone : deleted[o] = snap.deleted[o]
  <2> HIDE DEF gone
  <2>1. DOMAIN goneNow = gone /\ \A o \in gone : goneNow[o] = row[o].before
    OBVIOUS
  <2> HIDE DEF goneNow
  <2>2. Merged(snap.deleted, goneNow) \in Keeping(Part)
    BY <1>8, <1>9, MergedKeeps
  <2>3. /\ DOMAIN Merged(snap.deleted, goneNow) = DOMAIN snap.deleted \cup DOMAIN goneNow
        /\ \A o \in DOMAIN goneNow : Merged(snap.deleted, goneNow)[o] = goneNow[o]
        /\ \A o \in DOMAIN snap.deleted \ DOMAIN goneNow : Merged(snap.deleted, goneNow)[o] = snap.deleted[o]
    BY DEF Merged
  <2> QED
    BY <2>1, <2>2, <2>3
<1>13. /\ lost \in Keeping(Component) /\ dropped \subseteq DOMAIN lost
       /\ \A c \in dropped : lost[c] = row[c].before
  <2> HIDE DEF dropped, others
  <2>1. DOMAIN droppedNow = dropped /\ \A o \in dropped : droppedNow[o] = row[o].before
    OBVIOUS
  <2> HIDE DEF droppedNow
  <2>2. Merged(others, droppedNow) \in Keeping(Component)
    BY <1>10, <1>11, MergedKeeps
  <2>3. /\ DOMAIN Merged(others, droppedNow) = DOMAIN others \cup DOMAIN droppedNow
        /\ \A o \in DOMAIN droppedNow : Merged(others, droppedNow)[o] = droppedNow[o]
    BY DEF Merged
  <2> QED
    BY <2>1, <2>2, <2>3
<1> HIDE DEF gone, dropped, others, goneNow, droppedNow
<1>14. KeptByCluster(b) = [snap EXCEPT !.deleted = deleted, !.dropped = lost]
  BY DEF KeptByCluster, gone, dropped, others, goneNow, droppedNow
<1> HIDE DEF deleted, lost
<1>15. KeptByCluster(b) = [bundle |-> snap.bundle, services |-> snap.services, hc |-> snap.hc, deleted |-> deleted, dropped |-> lost]
  BY <1>14, <1>7 DEF Snap
<1>16. /\ KeptByCluster(b).bundle = snap.bundle /\ KeptByCluster(b).services = snap.services
       /\ KeptByCluster(b).hc = snap.hc /\ KeptByCluster(b).deleted = deleted /\ KeptByCluster(b).dropped = lost
  BY <1>15
<1>17. KeptByCluster(b) \in Snap
  BY <1>15, <1>7, <1>12, <1>13 DEF Snap
<1> QED
  BY <1>2, <1>3, <1>5, <1>12, <1>13, <1>16, <1>17

(* What a switch to b leaves of the cluster's parts.                       *)
LEMMA SwitchedParts ==
  ASSUME UpgradeInv, NEW b \in Bundle, NEW adds \in SUBSET Service, adds \subseteq offered[b]
  PROVE  LET after == Switched(b, adds)
             services == ServicesAfter(b, adds)
         IN  /\ after \in [Object -> Row \cup {None}]
             /\ \A o \in Object : after[o] # None <=>
                  o = TheCluster \/ o \in services \/ (o \in Component \cap offered[b] /\ serviceOf[o] \in services)
             /\ \A o \in Object : after[o] # None => after[o].bundle = b
             /\ \A o \in Object : after[o] # None /\ row[o] # None => after[o].before = row[o].before
             /\ \A o \in Object : after[o] # None /\ row[o] = None => after[o].before = None
             /\ services \subseteq Service /\ services \subseteq offered[b]
<1> DEFINE services == ServicesAfter(b, adds)
           stays == {TheCluster} \cup services \cup (offered[b] \cap ComponentsOf(services))
<1>1. services \subseteq Service /\ services \subseteq offered[b]
  BY DEF ServicesAfter, ServicesNow
<1>2. \A o \in Object : o \in stays <=> o = TheCluster \/ o \in services \/ (o \in Component \cap offered[b] /\ serviceOf[o] \in services)
  BY DEF ComponentsOf
<1>3. \A o \in Existing :
        /\ SwitchedRow(b, o) \in Row /\ SwitchedRow(b, o).bundle = b /\ SwitchedRow(b, o).before = row[o].before
        /\ SwitchedRow(b, o) # None
  <2> TAKE o \in Existing
  <2>1. row[o] \in Row /\ o \in Object
    BY PartsOfCluster
  <2>2. New(b, o).config \in Config \cup {None}
    BY <2>1, NewIsRow, NoneIsNone
  <2> DEFINE config == IF row[o].config = None THEN New(b, o).config ELSE row[o].config
  <2>3. config \in Config \cup {None}
    BY <2>1, <2>2, NoneIsNone
  <2>4. SwitchedRow(b, o) = [row[o] EXCEPT !.bundle = b, !.config = config]
    BY <2>1 DEF SwitchedRow, Row
  <2>5. SwitchedRow(b, o) = [bundle |-> b, state |-> row[o].state, config |-> config, before |-> row[o].before]
    <3> HIDE DEF config
    <3> QED
      BY <2>1, <2>4 DEF Row
  <2> HIDE DEF config
  <2> QED
    BY <2>1, <2>3, <2>5, NoneIsNone DEF Row
<1>4. \A o \in Object : New(b, o) \in Row /\ New(b, o).bundle = b /\ New(b, o).before = None /\ New(b, o) # None
  BY NewIsRow
<1> HIDE DEF services, stays
<1>5. \A o \in Object : Switched(b, adds)[o] = IF o \in stays \cap Existing THEN SwitchedRow(b, o) ELSE IF o \in stays \ Existing THEN New(b, o) ELSE None
  BY DEF Switched, services, stays
<1>6. DOMAIN Switched(b, adds) = Object /\ Switched(b, adds) = [o \in Object |-> Switched(b, adds)[o]]
  BY DEF Switched
<1>7. \A o \in Object : o \in Existing <=> row[o] # None
  BY DEF Existing
<1>8. \A o \in Object : Switched(b, adds)[o] \in Row \cup {None}
  BY <1>3, <1>4, <1>5
<1>9. Switched(b, adds) \in [Object -> Row \cup {None}]
  BY <1>6, <1>8
<1> QED
  BY <1>1, <1>2, <1>3, <1>4, <1>5, <1>7, <1>9 DEF services

-----------------------------------------------------------------------------
(* Steps that leave every part of the cluster where it is, of its bundle   *)
(* and with its before_upgrade                                             *)

LEMMA SameParts ==
  ASSUME UpgradeInv, TypeOK', MemoryOK',
         \A o \in Object :
           /\ row'[o] = None <=> row[o] = None
           /\ row[o] # None => row'[o].bundle = row[o].bundle /\ row'[o].before = row[o].before,
         snap' = snap, past' = past, since' = since, bound \subseteq bound'
  PROVE  UpgradeInv'
<1>1. Existing' = Existing /\ ServicesNow' = ServicesNow
  BY DEF Existing, ServicesNow
<1>2. Current' = Current
  BY PartsOfCluster DEF Current, Existing
<1>3. OneBundle'
  <2>1. \A o \in Existing' : row'[o].bundle = Current'
    BY <1>1, <1>2, PartsOfCluster
  <2>2. (Existing \cap Component = offered[Current] \cap ComponentsOf(ServicesNow))'
    BY <1>1, <1>2 DEF UpgradeInv, OneBundle, ComponentsOf
  <2> QED
    BY <2>1, <2>2 DEF OneBundle
<1>4. ServicesNow' \subseteq offered[Current']
  BY <1>1, <1>2 DEF UpgradeInv
<1>5. ASSUME Revertible PROVE Revertible'
  <2> USE <1>1, <1>5 DEF Revertible
  <2>1. Had' = Had
    BY DEF Had
  <2>2. SnapIsOfBundle'
    BY <2>1 DEF SnapIsOfBundle
  <2>3. PastIsSnap'
    BY <2>1 DEF PastIsSnap
  <2>4. BeforeIsPast'
    BY PartsOfCluster DEF BeforeIsPast, IsPast
  <2>5. NoneAdded'
    BY PartsOfCluster DEF NoneAdded
  <2>6. DroppedAreKept'
    <3>1. \A s \in ServicesNow : row'[s].before = row[s].before
      BY PartsOfCluster DEF ServicesNow
    <3> QED
      BY <3>1, ZenonT(60) DEF DroppedAreKept, IsPast
  <2>7. DeletedAreKept'
    BY ZenonT(60) DEF DeletedAreKept, IsPast, Within
  <2>8. HostsAreBound'
    BY DEF HostsAreBound
  <2> QED
    BY <2>2, <2>3, <2>4, <2>5, <2>6, <2>7, <2>8
<1> QED
  BY <1>3, <1>4, <1>5 DEF UpgradeInv

(* Rows that stay as they are, and a mapping of what is there.             *)
LEMMA SameRows ==
  ASSUME UpgradeInv, MemoryOK', row' = row, snap' = snap, past' = past, since' = since,
         bound \subseteq bound', bound' \subseteq Host, changes' \in 0..MaxChanges,
         hc' \subseteq bound' \X (Existing \cap Component)
  PROVE  UpgradeInv'
<1>1. Existing' = Existing
  BY DEF Existing
<1>2. TypeOK'
  BY <1>1 DEF UpgradeInv, OneBundle, TypeOK
<1> QED
  BY <1>2, SameParts

(* The mapping is of what is there.                                        *)
LEMMA MappingNow ==
  ASSUME UpgradeInv
  PROVE  /\ hc \subseteq bound \X (Existing \cap Component) /\ bound \subseteq Host /\ changes \in 0..MaxChanges
         /\ \A m \in hc : m = <<m[1], m[2]>> /\ m[1] \in bound /\ m[2] \in Existing /\ m[2] \in Component
<1>1. hc \subseteq Host \X (Existing \cap Component) /\ {m[1] : m \in hc} \subseteq bound /\ bound \subseteq Host /\ changes \in 0..MaxChanges
  BY DEF UpgradeInv, OneBundle, TypeOK
<1>2. \A m \in hc : m = <<m[1], m[2]>> /\ m[1] \in bound /\ m[2] \in Existing /\ m[2] \in Component
  BY <1>1
<1> QED
  BY <1>1, <1>2

(* A change of the state or the config of one part.                        *)
LEMMA OnePartChanges ==
  ASSUME UpgradeInv, MemoryOK', NEW o \in Existing, NEW s \in State, NEW c \in Config \cup {None},
         row' = [row EXCEPT ![o] = [bundle |-> row[o].bundle, state |-> s, config |-> c, before |-> row[o].before]],
         snap' = snap, past' = past, since' = since, bound' = bound, hc' = hc, changes' \in 0..MaxChanges
  PROVE  UpgradeInv'
<1> DEFINE new == [bundle |-> row[o].bundle, state |-> s, config |-> c, before |-> row[o].before]
<1>1. o \in Object /\ row[o] \in Row /\ row[o] # None
  BY PartsOfCluster
<1>2. new \in Row /\ new # None /\ new.bundle = row[o].bundle /\ new.before = row[o].before
  BY <1>1, NoneIsNone DEF Row
<1>3. row \in [Object -> Row \cup {None}]
  BY DEF UpgradeInv, OneBundle, TypeOK
<1> HIDE DEF new
<1>4. row' = [row EXCEPT ![o] = new]
  BY DEF new
<1>5. row' \in [Object -> Row \cup {None}] /\ row'[o] = new /\ \A p \in Object \ {o} : row'[p] = row[p]
  BY <1>1, <1>2, <1>3, <1>4
<1>6. Existing' = Existing
  BY <1>1, <1>2, <1>5 DEF Existing
<1>7. TypeOK'
  BY <1>5, <1>6, MappingNow, PartsOfCluster DEF UpgradeInv, OneBundle, TypeOK, Existing
<1>8. \A p \in Object :
        /\ row'[p] = None <=> row[p] = None
        /\ row[p] # None => row'[p].bundle = row[p].bundle /\ row'[p].before = row[p].before
  BY <1>1, <1>2, <1>5
<1> QED
  BY <1>7, <1>8, SameParts

-----------------------------------------------------------------------------
(* The steps of requests and tasks that leave the cluster as it is         *)

(* The range of what is remembered, field by field.                        *)
LEMMA MemoryNow ==
  ASSUME UpgradeInv
  PROVE  /\ snap \in Snap /\ snap.bundle \in 0..MaxVersion
         /\ request \in [Request -> Asked]
         /\ \A r \in Request : request[r].at \in {"checked", "written"} => request[r].target \in Bundle /\ request[r].bundle \in Bundle
         /\ \A r \in Request : request[r].state \in State /\ request[r].snap \in Snap /\ request[r].target \in 0..MaxVersion
         /\ task \in [kind : Kind, target : 0..MaxVersion]
         /\ task.kind = "upgrade" => task.target \in Bundle
         /\ task.kind = "revert" => snap.bundle \in Bundle
  BY DEF UpgradeInv, MemoryOK, Snap, Asked

(* An idle or ended request.                                               *)
LEMMA NoRequest ==
  ASSUME NEW at \in {"idle", "done"}
  PROVE  Request0(at) \in Asked /\ Request0(at).at = at
<1>1. [o \in {} |-> None] \in Keeping(Part) /\ [o \in {} |-> None] \in Keeping(Component)
  <2>1. DOMAIN [o \in {} |-> None] \subseteq Part /\ DOMAIN [o \in {} |-> None] \subseteq Component
    OBVIOUS
  <2>2. [o \in {} |-> None] \in [{} -> Kept]
    OBVIOUS
  <2> QED
    BY <2>1, <2>2, KeepingMeans
<1>2. NoSnap \in Snap
  BY <1>1, BundlesAssumption DEF NoSnap, Snap
<1> HIDE DEF NoSnap
<1> QED
  BY <1>2, BundlesAssumption DEF Request0, Asked, Stage, State

(* A request that ends remembers nothing.                                  *)
LEMMA RequestEnds ==
  ASSUME UpgradeInv, NEW r \in Request, NEW at \in {"idle", "done"}, request' = [request EXCEPT ![r] = Request0(at)]
  PROVE  /\ request' \in [Request -> Asked]
         /\ \A q \in Request : request'[q].at \in {"checked", "written"} => request'[q].target \in Bundle /\ request'[q].bundle \in Bundle
<1>1. Request0(at) \in Asked /\ Request0(at).at = at
  BY NoRequest
<1> HIDE DEF Request0
<1> QED
  BY <1>1, MemoryNow

LEMMA CheckUpgradeKeeps ==
  ASSUME UpgradeInv, NEW r \in Request, NEW action \in BOOLEAN, NEW b \in Bundle, CheckUpgrade(r, action, b)
  PROVE  UpgradeInv'
<1> DEFINE asked == [at |-> "checked", action |-> action, target |-> b, bundle |-> Current,
                     state |-> row[TheCluster].state, snap |-> snap]
<1>1. Current \in Bundle /\ row[TheCluster].state \in State
  BY PartsOfCluster, NoneIsNone
<1>2. asked \in Asked /\ asked.target \in Bundle /\ asked.bundle \in Bundle
  BY <1>1, MemoryNow DEF Asked, Stage, Bundle
<1>3. request' = [request EXCEPT ![r] = asked]
  BY DEF CheckUpgrade
<1> HIDE DEF asked
<1>4. MemoryOK'
  BY <1>2, <1>3, MemoryNow DEF CheckUpgrade, MemoryOK
<1> QED
  BY <1>4, SameRows, MappingNow, BundlesAssumption DEF CheckUpgrade, history, Changed

LEMMA LaunchUpgradeKeeps ==
  ASSUME UpgradeInv, NEW r \in Request, LaunchUpgrade(r)
  PROVE  UpgradeInv'
<1>1. task' = [kind |-> "upgrade", target |-> request[r].target] /\ request[r].target \in Bundle
  BY MemoryNow DEF LaunchUpgrade
<1>2. MemoryOK'
  <2>1. task' \in [kind : Kind, target : 0..MaxVersion] /\ task'.kind = "upgrade" /\ task'.target \in Bundle
    BY <1>1, MemoryNow DEF Kind
  <2> QED
    BY <2>1, RequestEnds, MemoryNow DEF LaunchUpgrade, MemoryOK, history
<1> QED
  BY <1>2, SameRows, MappingNow DEF LaunchUpgrade, history

LEMMA EndInErrorKeeps ==
  ASSUME UpgradeInv, NEW r \in Request, EndInError(r)
  PROVE  UpgradeInv'
<1>1. MemoryOK'
  BY RequestEnds, MemoryNow DEF EndInError, MemoryOK
<1> QED
  BY <1>1, SameRows, MappingNow DEF EndInError, history

(* Writing a state, as the whole row.                                      *)
LEMMA RowOfState ==
  ASSUME UpgradeInv, NEW o \in Existing, NEW s \in State
  PROVE  [row EXCEPT ![o].state = s] =
           [row EXCEPT ![o] = [bundle |-> row[o].bundle, state |-> s, config |-> row[o].config, before |-> row[o].before]]
<1>1. row[o] \in Row
  BY PartsOfCluster
<1>2. [row[o] EXCEPT !.state = s] = [bundle |-> row[o].bundle, state |-> s, config |-> row[o].config, before |-> row[o].before]
  BY <1>1 DEF Row
<1>3. [row EXCEPT ![o].state = s] = [row EXCEPT ![o] = [row[o] EXCEPT !.state = s]]
  OBVIOUS
<1> QED
  BY <1>2, <1>3

LEMMA SaveStateKeeps ==
  ASSUME UpgradeInv, NEW r \in Request, SaveState(r)
  PROVE  UpgradeInv'
<1>1. MemoryOK'
  BY RequestEnds, MemoryNow DEF SaveState, MemoryOK
<1>2. PICK s \in State : row' = [row EXCEPT ![TheCluster].state = s]
  BY DEF SaveState
<1>3. TheCluster \in Existing /\ row[TheCluster] \in Row
  BY PartsOfCluster
<1>4. row' = [row EXCEPT ![TheCluster] = [bundle |-> row[TheCluster].bundle, state |-> s,
                                         config |-> row[TheCluster].config, before |-> row[TheCluster].before]]
  BY <1>2, <1>3, RowOfState
<1>5. row[TheCluster].config \in Config \cup {None}
  BY <1>3, NoneIsNone
<1> QED
  BY <1>1, <1>3, <1>4, <1>5, OnePartChanges, MappingNow DEF SaveState, history

LEMMA TaskEndsKeeps ==
  ASSUME UpgradeInv, TaskEnds
  PROVE  UpgradeInv'
<1>1. MemoryOK'
  <2>1. task' = [kind |-> None, target |-> 0] /\ None \notin {"upgrade", "revert"}
    BY NoneAssumption DEF TaskEnds, NoTask
  <2>2. task' \in [kind : Kind, target : 0..MaxVersion] /\ task'.kind = None
    BY <2>1, BundlesAssumption DEF Kind
  <2> QED
    BY <2>1, <2>2, MemoryNow DEF TaskEnds, MemoryOK, history
<1>2. PICK s \in State : row' = [row EXCEPT ![TheCluster].state = s]
  BY DEF TaskEnds
<1>3. TheCluster \in Existing /\ row[TheCluster] \in Row
  BY PartsOfCluster
<1>4. row' = [row EXCEPT ![TheCluster] = [bundle |-> row[TheCluster].bundle, state |-> s,
                                         config |-> row[TheCluster].config, before |-> row[TheCluster].before]]
  BY <1>2, <1>3, RowOfState
<1>5. row[TheCluster].config \in Config \cup {None}
  BY <1>3, NoneIsNone
<1> QED
  BY <1>1, <1>3, <1>4, <1>5, OnePartChanges, MappingNow DEF TaskEnds, history

LEMMA LaunchRevertKeeps ==
  ASSUME UpgradeInv, LaunchRevert
  PROVE  UpgradeInv'
<1>1. task' = [kind |-> "revert", target |-> snap.bundle] /\ snap.bundle \in Bundle /\ snap.bundle \in 0..MaxVersion
  BY MemoryNow, BundlesAssumption DEF LaunchRevert, Bundle
<1>2. MemoryOK'
  BY <1>1, MemoryNow DEF LaunchRevert, MemoryOK, Kind
<1> QED
  BY <1>2, SameRows, MappingNow DEF LaunchRevert, history

LEMMA ChangeObjectKeeps ==
  ASSUME UpgradeInv, NEW o \in Object, ChangeObject(o)
  PROVE  UpgradeInv'
<1>1. MemoryOK'
  BY MemoryNow DEF ChangeObject, MemoryOK, history
<1>2. o \in Existing /\ row[o] \in Row
  BY PartsOfCluster DEF ChangeObject
<1>3. PICK s \in State, c \in Config \cup {None} : row' = [row EXCEPT ![o].state = s, ![o].config = c]
  <2>1. PICK s \in State, c \in IF row[o].config = None THEN {None} ELSE Config : row' = [row EXCEPT ![o].state = s, ![o].config = c]
    BY DEF ChangeObject
  <2> QED
    BY <2>1
<1>4. row' = [row EXCEPT ![o] = [bundle |-> row[o].bundle, state |-> s, config |-> c, before |-> row[o].before]]
  <2> DEFINE new == [bundle |-> row[o].bundle, state |-> s, config |-> row[o].config, before |-> row[o].before]
             between == [row EXCEPT ![o] = new]
  <2>1. row' = [[row EXCEPT ![o].state = s] EXCEPT ![o].config = c]
    BY <1>3
  <2>2. [row EXCEPT ![o].state = s] = between
    BY <1>2, RowOfState
  <2>3. row \in [Object -> Row \cup {None}]
    BY DEF UpgradeInv, OneBundle, TypeOK
  <2>4. between[o] = new /\ DOMAIN between = Object
    BY <1>2, <2>3
  <2>5. [between EXCEPT ![o].config = c] = [between EXCEPT ![o] = [new EXCEPT !.config = c]]
    BY <2>4
  <2>6. [new EXCEPT !.config = c] = [bundle |-> row[o].bundle, state |-> s, config |-> c, before |-> row[o].before]
    OBVIOUS
  <2>7. [between EXCEPT ![o] = [new EXCEPT !.config = c]] = [row EXCEPT ![o] = [new EXCEPT !.config = c]]
    <3> HIDE DEF new
    <3> QED
      BY <2>3
  <2> QED
    BY <2>1, <2>2, <2>5, <2>6, <2>7
<1>5. changes' \in 0..MaxChanges /\ snap' = snap /\ past' = past /\ since' = since /\ bound' = bound /\ hc' = hc
  BY MappingNow, BundlesAssumption DEF ChangeObject, history, Changed
<1> QED
  BY <1>1, <1>2, <1>4, <1>5, OnePartChanges

LEMMA ChangeMappingKeeps ==
  ASSUME UpgradeInv, ChangeMapping
  PROVE  UpgradeInv'
<1>1. MemoryOK'
  BY MemoryNow DEF ChangeMapping, MemoryOK, history
<1>2. hc' \subseteq bound \X (Existing \cap Component)
  BY DEF ChangeMapping
<1> QED
  BY <1>1, <1>2, SameRows, MappingNow, BundlesAssumption DEF ChangeMapping, history, Changed

LEMMA AddHostKeeps ==
  ASSUME UpgradeInv, NEW h \in Host, AddHost(h)
  PROVE  UpgradeInv'
<1>1. MemoryOK'
  BY MemoryNow DEF AddHost, MemoryOK, history
<1> QED
  BY <1>1, SameRows, MappingNow, BundlesAssumption DEF AddHost, history, Changed

-----------------------------------------------------------------------------
(* Services and hosts that come and go                                     *)

LEMMA RemoveHostKeeps ==
  ASSUME UpgradeInv, NEW h \in Host, RemoveHost(h)
  PROVE  UpgradeInv'
<1>1. /\ MemoryOK' /\ row' = row /\ snap' = snap /\ past' = past /\ hc' = hc /\ bound' = bound \ {h}
      /\ since' = since \cup {"left"} /\ changes' \in 0..MaxChanges
  BY MemoryNow, MappingNow, BundlesAssumption DEF RemoveHost, MemoryOK, Changed
<1>2. Existing' = Existing /\ ServicesNow' = ServicesNow /\ Current' = Current
  BY <1>1 DEF Existing, ServicesNow, Current
<1>3. {m[1] : m \in hc} \subseteq bound'
  BY <1>1, MappingNow DEF RemoveHost
<1>4. OneBundle' /\ ServicesNow' \subseteq offered[Current']
  BY <1>1, <1>2, <1>3, MappingNow DEF UpgradeInv, OneBundle, TypeOK, ComponentsOf
<1>5. ASSUME Revertible PROVE Revertible'
  <2> USE <1>1, <1>2, <1>5 DEF Revertible
  <2>1. Had' = Had
    BY DEF Had
  <2>2. SnapIsOfBundle' /\ PastIsSnap'
    BY <2>1 DEF SnapIsOfBundle, PastIsSnap
  <2>3. BeforeIsPast'
    BY DEF BeforeIsPast, IsPast
  <2>4. NoneAdded'
    BY DEF NoneAdded
  <2>5. DroppedAreKept'
    BY DEF DroppedAreKept, IsPast
  <2>6. DeletedAreKept'
    BY DEF DeletedAreKept, IsPast, Within
  <2>7. HostsAreBound'
    BY DEF HostsAreBound
  <2> QED
    BY <2>2, <2>3, <2>4, <2>5, <2>6, <2>7
<1> QED
  BY <1>1, <1>4, <1>5 DEF UpgradeInv

LEMMA AddServiceKeeps ==
  ASSUME UpgradeInv, NEW s \in Service, AddService(s)
  PROVE  UpgradeInv'
<1> DEFINE new == {o \in Object : o = s \/ (o \in Component /\ o \in offered[Current] /\ serviceOf[o] = s)}
<1>1. /\ MemoryOK' /\ snap' = snap /\ past' = past /\ hc' = hc /\ bound' = bound
      /\ since' = since \cup {"added"} /\ changes' \in 0..MaxChanges
  BY MemoryNow, MappingNow, BundlesAssumption DEF AddService, MemoryOK, Changed
<1>2. /\ s \in offered[Current] /\ s \notin Existing /\ s \in Object /\ s # TheCluster /\ s \notin Component
      /\ Current \in Bundle /\ TheCluster \in Existing
  BY PartsOfCluster, BundlesAssumption DEF AddService, Object, Part
<1>3. row' = [o \in Object |-> IF o \in new THEN New(Current, o) ELSE row[o]]
  BY <1>2 DEF AddService, ComponentsOf
<1>4. \A o \in Object : New(Current, o) \in Row /\ New(Current, o).bundle = Current
                     /\ New(Current, o).before = None /\ New(Current, o) # None
  BY <1>2, NewIsRow
<1>5. new \cap Existing = {} /\ TheCluster \notin new /\ new \subseteq Object
  BY <1>2, PartsOfCluster, BundlesAssumption DEF ServicesNow, Object, Part
<1> HIDE DEF new
<1>6. row' \in [Object -> Row \cup {None}]
  BY <1>3, <1>4, PartsOfCluster
<1>7. Existing' = Existing \cup new
  BY <1>3, <1>4, <1>5 DEF Existing
<1>8. ServicesNow' = ServicesNow \cup {s}
  BY <1>2, <1>7, BundlesAssumption DEF ServicesNow, new
<1>9. Current' = Current
  BY <1>2, <1>3, <1>5, PartsOfCluster DEF Current
<1>10. TypeOK'
  BY <1>1, <1>2, <1>6, <1>7, <1>5, MappingNow, MemoryNow DEF UpgradeInv, OneBundle, TypeOK, Existing
<1>11. OneBundle'
  <2>1. \A o \in Existing' : row'[o].bundle = Current'
    BY <1>3, <1>4, <1>5, <1>7, <1>9, PartsOfCluster
  <2>2. Existing' \cap Component = offered[Current'] \cap {c \in Component : serviceOf[c] \in ServicesNow'}
    <3>1. \A c \in Component : c \in Object
      BY DEF Object, Part
    <3>2. \A c \in Component : c \in new <=> c \in offered[Current] /\ serviceOf[c] = s
      BY <1>2, <3>1 DEF new
    <3> QED
      BY <1>7, <1>8, <1>9, <3>2, PartsOfCluster
  <2> QED
    BY <1>10, <2>1, <2>2 DEF OneBundle, ComponentsOf
<1>12. ServicesNow' \subseteq offered[Current']
  BY <1>2, <1>8, <1>9 DEF UpgradeInv
<1>13. ASSUME Revertible PROVE Revertible'
  <2>1. Had' = Had
    BY <1>1 DEF Had
  <2>2. SnapIsOfBundle' /\ PastIsSnap'
    BY <1>1, <1>13, <2>1 DEF Revertible, SnapIsOfBundle, PastIsSnap
  <2>3. \A o \in Existing' : row'[o].before # None => o \in Existing /\ row'[o] = row[o]
    BY <1>3, <1>4, <1>5, <1>7, PartsOfCluster
  <2>4. BeforeIsPast'
    BY <1>1, <1>13, <2>3 DEF Revertible, BeforeIsPast, IsPast
  <2>5. NoneAdded'
    BY <1>1 DEF NoneAdded
  <2>6. DroppedAreKept'
    BY <1>1, <1>7, <1>13, <2>3 DEF Revertible, DroppedAreKept, IsPast, ServicesNow
  <2>7. DeletedAreKept'
    BY <1>1, <1>8, <1>13 DEF Revertible, DeletedAreKept, IsPast, Within
  <2>8. HostsAreBound'
    BY <1>1, <1>13 DEF Revertible, HostsAreBound
  <2> QED
    BY <2>2, <2>4, <2>5, <2>6, <2>7, <2>8 DEF Revertible
<1> QED
  BY <1>1, <1>11, <1>12, <1>13 DEF UpgradeInv

LEMMA ServiceGoneKeeps ==
  ASSUME UpgradeInv, NEW s \in Service, s \in ServicesNow, Changed, ServiceGone(s)
  PROVE  UpgradeInv'
<1> DEFINE gone == {o \in Object : o = s \/ (o \in Component /\ serviceOf[o] = s)}
<1>1. /\ MemoryOK' /\ snap' = snap /\ past' = past /\ bound' = bound
      /\ since' = since \cup {"deleted"} /\ changes' \in 0..MaxChanges
  BY MemoryNow, MappingNow, BundlesAssumption DEF ServiceGone, MemoryOK, Changed
<1>2. /\ s \in Object /\ s # TheCluster /\ s \notin Component /\ TheCluster \in Existing
  BY PartsOfCluster, BundlesAssumption DEF Object, Part
<1>3. row' = [o \in Object |-> IF o \in gone THEN None ELSE row[o]]
  BY <1>2 DEF ServiceGone, ComponentsOf
<1>4. TheCluster \notin gone
  BY <1>2, BundlesAssumption DEF Part
<1>5. \A m \in hc' : m \in hc /\ m[2] \notin gone
  BY MappingNow, <1>2 DEF ServiceGone
<1>6. \A o \in Service : o \in gone <=> o = s
  BY <1>2, BundlesAssumption DEF Object, Part
<1>7. \A c \in Component : c \in gone <=> serviceOf[c] = s
  BY <1>2 DEF Object, Part
<1> HIDE DEF gone
<1>8. row' \in [Object -> Row \cup {None}]
  BY <1>3, PartsOfCluster
<1>9. Existing' = Existing \ gone
  BY <1>3 DEF Existing
<1>10. ServicesNow' = ServicesNow \ {s}
  BY <1>6, <1>9 DEF ServicesNow
<1>11. Current' = Current /\ row'[TheCluster] # None
  BY <1>2, <1>3, <1>4, PartsOfCluster DEF Current
<1>12. TypeOK'
  <2>1. hc' \subseteq Host \X (Existing' \cap Component) /\ {m[1] : m \in hc'} \subseteq bound'
    BY <1>1, <1>5, <1>9, MappingNow
  <2> QED
    BY <1>1, <1>8, <1>11, <2>1, MappingNow DEF UpgradeInv, OneBundle, TypeOK
<1>13. \A o \in Existing' : o \in Existing /\ row'[o] = row[o]
  BY <1>3, <1>9, PartsOfCluster
<1>14. OneBundle'
  <2>1. \A o \in Existing' : row'[o].bundle = Current'
    BY <1>11, <1>13, PartsOfCluster
  <2>2. Existing' \cap Component = offered[Current'] \cap {c \in Component : serviceOf[c] \in ServicesNow'}
    BY <1>7, <1>9, <1>10, <1>11, PartsOfCluster
  <2> QED
    BY <1>12, <2>1, <2>2 DEF OneBundle, ComponentsOf
<1>15. ServicesNow' \subseteq offered[Current']
  BY <1>10, <1>11 DEF UpgradeInv
<1>16. ASSUME Revertible PROVE Revertible'
  <2>1. Had' = Had
    BY <1>1 DEF Had
  <2>2. SnapIsOfBundle' /\ PastIsSnap'
    BY <1>1, <1>16, <2>1 DEF Revertible, SnapIsOfBundle, PastIsSnap
  <2>3. BeforeIsPast'
    BY <1>1, <1>13, <1>16 DEF Revertible, BeforeIsPast, IsPast
  <2>4. NoneAdded'
    BY <1>1, <1>13, <1>16 DEF Revertible, NoneAdded
  <2>5. DroppedAreKept'
    <3> SUFFICES ASSUME NEW t \in ServicesNow', row'[t].before # None,
                        NEW c \in offered[snap.bundle] \cap ComponentsOf({t}), c \notin Existing'
                 PROVE  c \in DOMAIN snap.dropped /\ IsPast(c, snap.dropped[c])
      BY <1>1 DEF DroppedAreKept, IsPast
    <3>1. t \in ServicesNow /\ t # s /\ row'[t] = row[t]
      BY <1>10, <1>13 DEF ServicesNow
    <3>2. c \notin Existing
      BY <1>7, <1>9, <3>1 DEF ComponentsOf
    <3> QED
      BY <1>16, <3>1, <3>2 DEF Revertible, DroppedAreKept
  <2>6. DeletedAreKept'
    BY <1>1 DEF DeletedAreKept
  <2>7. HostsAreBound'
    BY <1>1, <1>16 DEF Revertible, HostsAreBound
  <2> QED
    BY <2>2, <2>3, <2>4, <2>5, <2>6, <2>7 DEF Revertible
<1> QED
  BY <1>1, <1>14, <1>15, <1>16 DEF UpgradeInv

-----------------------------------------------------------------------------
(* before_upgrade is written                                               *)

(* The rows once it is.                                                    *)
LEMMA WrittenRows ==
  ASSUME UpgradeInv, NEW r \in Request, WriteBeforeUpgrade(r)
  PROVE  /\ row' \in [Object -> Row \cup {None}]
         /\ \A o \in Object : row'[o] = None <=> row[o] = None
         /\ \A o \in Existing : /\ row'[o].bundle = row[o].bundle /\ row'[o].before # None
                                /\ row'[o].before.config = row[o].config
                                /\ o # TheCluster => row'[o].before.state = row[o].state
         /\ row'[TheCluster].before.state = request[r].state
<1> DEFINE of(o) == [bundle |-> row[o].bundle, state |-> row[o].state, config |-> row[o].config, before |-> KeptOf(row[o])]
           kept == [state |-> request[r].state, config |-> row[TheCluster].config]
           cluster == [bundle |-> row[TheCluster].bundle, state |-> row[TheCluster].state, config |-> row[TheCluster].config, before |-> kept]
           written == [o \in Object |-> IF row[o] = None THEN None ELSE [row[o] EXCEPT !.before = Written(o)]]
<1>1. \A o \in Existing : /\ row[o] \in Row /\ o \in Object /\ row[o] # None
                          /\ row[o].bundle \in Bundle /\ row[o].state \in State /\ row[o].config \in Config \cup {None}
  BY PartsOfCluster, NoneIsNone
<1>2. \A o \in Existing : KeptOf(row[o]) \in Kept /\ KeptOf(row[o]) = [state |-> row[o].state, config |-> row[o].config]
  BY <1>1 DEF KeptOf, Kept
<1>3. \A o \in Existing : of(o) \in Row /\ of(o) # None
  BY <1>1, <1>2, NoneIsNone DEF Row
<1>4. \A o \in Existing : [row[o] EXCEPT !.before = Written(o)] = of(o)
  BY <1>1 DEF Row, Written
<1>5. TheCluster \in Existing /\ request[r].state \in State /\ \A o \in Object : o \in Existing <=> row[o] # None
  BY PartsOfCluster, MemoryNow DEF Existing
<1>6. kept \in Kept
  BY <1>1, <1>5 DEF Kept
<1>7. cluster \in Row /\ cluster # None
  BY <1>1, <1>5, <1>6, NoneIsNone DEF Row
<1>8. \A o \in Object : written[o] = IF o \in Existing THEN of(o) ELSE None
  BY <1>4, <1>5
<1>9. [written EXCEPT ![TheCluster].before.state = request[r].state] = [written EXCEPT ![TheCluster] = cluster]
  <2>1. written[TheCluster] = of(TheCluster) /\ of(TheCluster).before = [state |-> row[TheCluster].state, config |-> row[TheCluster].config]
    BY <1>1, <1>2, <1>5, <1>8
  <2>2. [of(TheCluster).before EXCEPT !.state = request[r].state] = kept
    BY <2>1
  <2> DEFINE old == of(TheCluster)
             newer == [old EXCEPT !.before = kept]
  <2>3. newer = cluster
    BY DEF KeptOf
  <2>4. [written EXCEPT ![TheCluster].before.state = request[r].state]
         = [written EXCEPT ![TheCluster] = [written[TheCluster] EXCEPT !.before = [written[TheCluster].before EXCEPT !.state = request[r].state]]]
    OBVIOUS
  <2> HIDE DEF written, kept, cluster
  <2> QED
    BY <2>1, <2>2, <2>3, <2>4
<1>10. row' = [written EXCEPT ![TheCluster] = cluster]
  BY <1>9 DEF WriteBeforeUpgrade
<1>11. DOMAIN written = Object
  OBVIOUS
<1> HIDE DEF written
<1>12. /\ DOMAIN row' = Object /\ row'[TheCluster] = cluster /\ \A o \in Object \ {TheCluster} : row'[o] = written[o]
       /\ row' = [o \in Object |-> row'[o]]
  BY <1>1, <1>5, <1>10, <1>11
<1>13. \A o \in Object : row'[o] \in Row \cup {None} /\ (row'[o] = None <=> row[o] = None)
  <2>1. \A o \in Object \ {TheCluster} : row'[o] = IF o \in Existing THEN of(o) ELSE None
    BY <1>8, <1>12
  <2>2. row'[TheCluster] = cluster
    BY <1>12
  <2> HIDE DEF of, cluster
  <2> QED
    BY <1>3, <1>5, <1>7, <2>1, <2>2
<1>14. row' \in [Object -> Row \cup {None}]
  BY <1>12, <1>13
<1>15. row'[TheCluster].bundle = row[TheCluster].bundle /\ row'[TheCluster].before = kept
  BY <1>12
<1>16. kept.state = request[r].state /\ kept.config = row[TheCluster].config /\ kept # None
  BY <1>6, NoneIsNone
<1>17. \A o \in Existing \ {TheCluster} :
         /\ row'[o].bundle = row[o].bundle /\ row'[o].before = KeptOf(row[o]) /\ row'[o].before # None
         /\ row'[o].before.config = row[o].config /\ row'[o].before.state = row[o].state
  <2>1. \A o \in Existing \ {TheCluster} : row'[o] = of(o) /\ KeptOf(row[o]) # None
    BY <1>1, <1>2, <1>8, <1>12, NoneIsNone, ZenonT(60)
  <2>2. \A o \in Existing \ {TheCluster} : row'[o].bundle = row[o].bundle /\ row'[o].before = KeptOf(row[o])
    <3>1. \A o \in Existing : of(o).bundle = row[o].bundle /\ of(o).before = KeptOf(row[o])
      OBVIOUS
    <3> HIDE DEF of
    <3> QED
      BY <2>1, <3>1
  <2>3. \A o \in Existing : KeptOf(row[o]).state = row[o].state /\ KeptOf(row[o]).config = row[o].config
    BY DEF KeptOf
  <2> HIDE DEF of
  <2> QED
    BY <2>1, <2>2, <2>3
<1> HIDE DEF kept
<1> QED
  BY <1>13, <1>14, <1>15, <1>16, <1>17

LEMMA WriteBeforeUpgradeKeeps ==
  ASSUME UpgradeInv, NEW r \in Request, WriteBeforeUpgrade(r)
  PROVE  UpgradeInv'
<1> DEFINE seen == request[r]
<1>1. seen \in Asked /\ seen.snap \in Snap /\ seen.bundle \in Bundle /\ seen.target \in Bundle
  BY MemoryNow DEF WriteBeforeUpgrade
<1>2. ServicesNow \subseteq Service /\ hc \subseteq Host \X Component /\ hc' = hc /\ bound' = bound /\ changes' = changes /\ task' = task
  BY MappingNow DEF ServicesNow, WriteBeforeUpgrade
<1>3. /\ snap' = [bundle |-> seen.bundle, services |-> ServicesNow, hc |-> hc, deleted |-> seen.snap.deleted, dropped |-> seen.snap.dropped]
  <2> DEFINE kept == seen.snap
             one == [kept EXCEPT !.bundle = seen.bundle]
             two == [one EXCEPT !.services = ServicesNow]
  <2>1. kept = [bundle |-> kept.bundle, services |-> kept.services, hc |-> kept.hc, deleted |-> kept.deleted, dropped |-> kept.dropped]
    BY <1>1 DEF Snap
  <2>2. snap' = [kept EXCEPT !.bundle = seen.bundle, !.services = ServicesNow, !.hc = hc]
    BY DEF WriteBeforeUpgrade
  <2> HIDE DEF kept
  <2> QED
    BY <2>1, <2>2 DEF kept
<1>4. snap' \in Snap /\ snap'.bundle = seen.bundle /\ snap'.services = ServicesNow /\ snap'.hc = hc
  BY <1>1, <1>2, <1>3 DEF Snap, Bundle
<1>5. request' \in [Request -> Asked] /\ \A q \in Request : request'[q].bundle = request[q].bundle /\ request'[q].target = request[q].target
                                                          /\ (q # r => request'[q].at = request[q].at)
  <2>1. [seen EXCEPT !.at = "written"] = [at |-> "written", action |-> seen.action, target |-> seen.target,
                                          bundle |-> seen.bundle, state |-> seen.state, snap |-> seen.snap]
    BY <1>1 DEF Asked
  <2>2. [seen EXCEPT !.at = "written"] \in Asked
    BY <1>1, <2>1 DEF Asked, Stage
  <2>3. request' = [request EXCEPT ![r] = [seen EXCEPT !.at = "written"]]
    BY DEF WriteBeforeUpgrade
  <2> QED
    BY <2>1, <2>2, <2>3, MemoryNow
<1>6. MemoryOK'
  BY <1>1, <1>2, <1>4, <1>5, MemoryNow DEF MemoryOK
<1>7. Existing' = Existing /\ ServicesNow' = ServicesNow /\ TheCluster \in Existing /\ Current' = Current
  BY WrittenRows, PartsOfCluster DEF Existing, ServicesNow, Current
<1>8. TypeOK'
  BY <1>2, <1>4, <1>7, WrittenRows, MappingNow DEF TypeOK, Snap, Existing
<1>9. OneBundle' /\ ServicesNow' \subseteq offered[Current']
  BY <1>7, <1>8, WrittenRows, PartsOfCluster DEF UpgradeInv, OneBundle, ComponentsOf
<1>10. past' = [row |-> [o \in Object |-> Bare(row[o])], hc |-> hc]
       /\ since' = IF seen.bundle # Current \/ seen.state # row[TheCluster].state THEN {"overtaken"} ELSE {}
  BY DEF WriteBeforeUpgrade
<1>11. ASSUME "overtaken" \notin since' PROVE Revertible'
  <2>1. seen.bundle = Current /\ seen.state = row[TheCluster].state /\ since' = {}
    BY <1>10, <1>11
  <2>2. \A o \in Object : o \in Existing <=> o \in Had'
    BY <1>4, <2>1, PartsOfCluster, BundlesAssumption DEF Had, ServicesNow, Object, Part, ComponentsOf
  <2>3. \A o \in Existing : /\ past'.row[o] \in Plain /\ past'.row[o] # None /\ past'.row[o].bundle = Current
                            /\ past'.row[o].state = row[o].state /\ past'.row[o].config = row[o].config
    <3> TAKE o \in Existing
    <3>1. row[o] \in Row /\ row[o].bundle = Current /\ row[o] # None /\ o \in Object
      BY PartsOfCluster
    <3>2. past'.row[o] = [bundle |-> row[o].bundle, state |-> row[o].state, config |-> row[o].config]
      BY <1>10, <3>1 DEF Bare
    <3> QED
      BY <3>1, <3>2, NoneIsNone DEF Plain
  <2>4. \A o \in Object \ Existing : past'.row[o] = None
    BY <1>10, PartsOfCluster DEF Bare
  <2>5. SnapIsOfBundle'
    BY <1>4, <2>1, <2>2, MappingNow, PartsOfCluster DEF SnapIsOfBundle, UpgradeInv
  <2>6. PastIsSnap'
    <3>1. past'.row = [o \in Object |-> past'.row[o]]
      BY <1>10
    <3>2. past'.row \in [Object -> Plain \cup {None}]
      BY <2>3, <2>4, <3>1
    <3>3. Had' \subseteq Object
      BY <1>4 DEF Had, Object, Part, ServicesNow, ComponentsOf
    <3> QED
      BY <1>4, <1>10, <2>1, <2>2, <2>3, <2>4, <3>2, <3>3 DEF PastIsSnap
  <2>7. \A o \in Existing : row'[o].before # None /\ IsPast(o, row[o].before)'
    BY <2>1, <2>3, WrittenRows DEF IsPast
  <2>8. BeforeIsPast' /\ NoneAdded'
    BY <1>7, <2>7 DEF BeforeIsPast, NoneAdded
  <2>9. DroppedAreKept'
    BY <1>4, <1>7, <2>1, PartsOfCluster DEF DroppedAreKept, ComponentsOf
  <2>10. DeletedAreKept'
    BY <1>4, <1>7 DEF DeletedAreKept
  <2>11. HostsAreBound'
    BY <1>2, <1>4, MappingNow DEF HostsAreBound
  <2> QED
    BY <2>5, <2>6, <2>8, <2>9, <2>10, <2>11 DEF Revertible
<1> QED
  BY <1>6, <1>9, <1>11 DEF UpgradeInv

-----------------------------------------------------------------------------
(* The cluster is of another bundle                                        *)

LEMMA BundleSwitchKeeps ==
  ASSUME UpgradeInv, NEW b \in Bundle, NEW adds \in SUBSET Service, adds \subseteq offered[b], ~SwitchRaises(b),
         BundleSwitch(b, adds), bound' = bound, changes' = changes, past' = past
  PROVE  /\ OneBundle' /\ ServicesNow' \subseteq offered[Current']
         /\ snap' \in Snap /\ snap'.bundle = snap.bundle
         /\ snap'.bundle # 0 /\ "overtaken" \notin since' => Revertible'
<1> DEFINE services == ServicesAfter(b, adds)
<1>1. /\ row' \in [Object -> Row \cup {None}]
      /\ \A o \in Object : row'[o] # None <=>
           o = TheCluster \/ o \in services \/ (o \in Component \cap offered[b] /\ serviceOf[o] \in services)
      /\ \A o \in Object : row'[o] # None => row'[o].bundle = b
      /\ \A o \in Object : row'[o] # None /\ row[o] # None => row'[o].before = row[o].before
      /\ \A o \in Object : row'[o] # None /\ row[o] = None => row'[o].before = None
      /\ services \subseteq Service /\ services \subseteq offered[b]
  BY SwitchedParts DEF BundleSwitch
<1>2. services = (ServicesNow \cap offered[b]) \cup adds
  BY DEF ServicesAfter
<1> HIDE DEF services
<1>3. \A o \in Object : (o \in Existing <=> row[o] # None) /\ (o \in Existing' <=> row'[o] # None)
  BY DEF Existing
<1>4. ServicesNow' = services
  BY <1>1, <1>3, BundlesAssumption DEF ServicesNow, Object, Part, Existing
<1>5. \A c \in Component : c \in Object /\ c \notin Service /\ c # TheCluster
  BY BundlesAssumption DEF Object, Part
<1>6. TheCluster \in Existing' /\ Current' = b
  BY <1>1, <1>3 DEF Current, Object
<1>7. \A c \in Component : c \in Existing' <=> c \in offered[b] /\ serviceOf[c] \in services
  BY <1>1, <1>3, <1>5
<1>8. hc' = {m \in hc : row'[m[2]] # None}
  BY DEF BundleSwitch
<1>9. TypeOK' /\ snap' \in Snap /\ snap'.bundle = snap.bundle
  <2>1. snap' \in Snap /\ snap'.bundle = snap.bundle
    BY SwitchKeeps DEF BundleSwitch
  <2>2. hc' \subseteq Host \X (Existing' \cap Component) /\ {m[1] : m \in hc'} \subseteq bound
    BY <1>3, <1>5, <1>8, MappingNow
  <2>3. snap'.bundle \in 0..MaxVersion /\ snap'.services \subseteq Service /\ snap'.hc \subseteq Host \X Component
    BY <2>1 DEF Snap
  <2> QED
    BY <1>1, <1>6, <2>1, <2>2, <2>3, MappingNow DEF TypeOK, Existing
<1>10. OneBundle'
  <2>1. \A o \in Existing' : row'[o].bundle = Current'
    BY <1>1, <1>3, <1>6 DEF Existing
  <2>2. Existing' \cap Component = offered[Current'] \cap {c \in Component : serviceOf[c] \in ServicesNow'}
    BY <1>4, <1>6, <1>7
  <2> QED
    BY <1>9, <2>1, <2>2 DEF OneBundle, ComponentsOf
<1>11. ServicesNow' \subseteq offered[Current']
  BY <1>1, <1>4, <1>6
<1>12. ASSUME snap'.bundle # 0, "overtaken" \notin since' PROVE Revertible'
  <2> DEFINE created == {o \in offered[snap.bundle] \ Existing : row'[o] # None}
  <2>1. snap.bundle = Current /\ snap.bundle \in Bundle /\ "overtaken" \notin since
    BY <1>9, <1>12, PartsOfCluster DEF BundleSwitch
  <2>2. Revertible
    BY <1>9, <1>12, <2>1 DEF UpgradeInv
  <2>3. since \subseteq since' /\ (created # {} => "created" \in since') /\ ("deleted" \in since' => "deleted" \in since)
        /\ ("left" \in since' => "left" \in since)
    BY <2>1 DEF BundleSwitch
  <2> DEFINE gone == {o \in Existing \cap Part : (IF o \in Service THEN o ELSE serviceOf[o]) \notin offered[b]}
             dropped == {c \in Existing \cap Component : c \notin offered[b] /\ serviceOf[c] \in offered[b]}
  <2>4. /\ snap'.services = snap.services /\ snap'.hc = snap.hc
        /\ DOMAIN snap'.deleted = DOMAIN snap.deleted \cup gone
        /\ \A o \in gone : snap'.deleted[o] = row[o].before
        /\ \A o \in DOMAIN snap.deleted \ gone : snap'.deleted[o] = snap.deleted[o]
        /\ dropped \subseteq DOMAIN snap'.dropped
        /\ \A c \in dropped : snap'.dropped[c] = row[c].before
        /\ \A o \in (Existing \cap Part) \ offered[b] : row[o].before \in Kept /\ row[o].before # None
    BY SwitchKeeps, NoneIsNone DEF BundleSwitch
  <2>5. Had' = Had /\ \A objects : Within(objects)' = Within(objects)
    BY <1>9, <2>4 DEF Had, Within
  <2>6. SnapIsOfBundle'
    BY <1>9, <2>2, <2>4, <2>5 DEF Revertible, SnapIsOfBundle
  <2>7. PastIsSnap'
    BY <1>9, <2>2, <2>4, <2>5 DEF Revertible, PastIsSnap
  <2>8. BeforeIsPast'
    <3>1. \A o \in Existing' : row'[o].before # None => o \in Existing /\ row'[o].before = row[o].before
      BY <1>1, <1>3 DEF Existing
    <3> QED
      BY <2>2, <3>1 DEF Revertible, BeforeIsPast, IsPast
  <2>9. NoneAdded'
    <3> SUFFICES ASSUME since' \cap {"added", "created"} = {}, NEW o \in Existing' \cap ({TheCluster} \cup offered[snap.bundle])
                 PROVE  row'[o].before # None
      BY <1>9 DEF NoneAdded
    <3>1. created = {} /\ since \cap {"added", "created"} = {}
      BY <2>3
    <3>2. o \in Existing /\ row'[o].before = row[o].before
      BY <1>1, <1>3, <3>1, PartsOfCluster DEF Existing
    <3> QED
      BY <2>2, <3>1, <3>2 DEF Revertible, NoneAdded
  <2>10. DroppedAreKept'
    <3> SUFFICES ASSUME NEW s \in ServicesNow', row'[s].before # None,
                        NEW c \in offered[snap.bundle] \cap ComponentsOf({s}), c \notin Existing'
                 PROVE  c \in DOMAIN snap'.dropped /\ IsPast(c, snap'.dropped[c])
      BY <1>9 DEF DroppedAreKept, IsPast
    <3>1. s \in Existing' /\ s \in Object /\ s \in offered[b]
      BY <1>1, <1>4 DEF ServicesNow, Existing
    <3>2. s \in Existing /\ s \in ServicesNow
      BY <1>1, <1>3, <1>4, <3>1 DEF ServicesNow
    <3>3. c \in Component /\ serviceOf[c] = s /\ c \in Object
      BY <1>5 DEF ComponentsOf
    <3>4. c \in Existing /\ c \in Part
      BY <2>1, <3>2, <3>3, PartsOfCluster DEF Part
    <3>5. c \notin offered[b]
      BY <1>4, <1>7, <3>3
    <3>6. c \in dropped
      BY <3>1, <3>3, <3>4, <3>5
    <3>7. snap'.dropped[c] = row[c].before /\ row[c].before # None /\ c \in DOMAIN snap'.dropped
      BY <2>4, <3>4, <3>5, <3>6
    <3> QED
      BY <2>2, <3>4, <3>7 DEF Revertible, BeforeIsPast, IsPast
  <2>11. DeletedAreKept'
    <3> SUFFICES ASSUME "deleted" \notin since', NEW s \in snap.services, s \notin ServicesNow', NEW o \in Within({s})
                 PROVE  o \in DOMAIN snap'.deleted /\ IsPast(o, snap'.deleted[o])
      BY <2>4, <2>5 DEF DeletedAreKept, IsPast
    <3>1. s \in Service /\ "deleted" \notin since
      BY <2>3, MemoryNow DEF Snap
    <3>2. o = s \/ (o \in Component /\ serviceOf[o] = s /\ o \in offered[Current])
      BY <2>1 DEF Within, ComponentsOf
    <3>3. CASE s \in ServicesNow
      <4>1. s \in Existing /\ s \notin offered[b] /\ s \in Part
        BY <1>2, <1>4, <3>1, <3>3 DEF ServicesNow, Part
      <4>2. o \in Existing /\ o \in Part /\ o \in gone
        BY <3>1, <3>2, <3>3, <4>1, <1>5, PartsOfCluster DEF Part
      <4>3. o \notin offered[b]
        BY <3>2, <4>1, BundlesAssumption
      <4>4. snap'.deleted[o] = row[o].before /\ row[o].before # None /\ o \in DOMAIN snap'.deleted
        BY <2>4, <4>2, <4>3
      <4> QED
        BY <2>2, <4>2, <4>4 DEF Revertible, BeforeIsPast, IsPast
    <3>4. CASE s \notin ServicesNow
      <4>1. o \notin Existing
        BY <3>1, <3>2, <3>4, PartsOfCluster DEF ServicesNow
      <4>2. o \notin gone
        BY <4>1
      <4>3. o \in DOMAIN snap.deleted /\ IsPast(o, snap.deleted[o])
        BY <2>2, <3>1, <3>4 DEF Revertible, DeletedAreKept
      <4>4. o \in DOMAIN snap'.deleted /\ snap'.deleted[o] = snap.deleted[o]
        BY <2>4, <4>2, <4>3
      <4> QED
        BY <4>3, <4>4
    <3> QED
      BY <3>3, <3>4
  <2>12. HostsAreBound'
    BY <2>2, <2>3, <2>4 DEF Revertible, HostsAreBound
  <2> QED
    BY <2>6, <2>7, <2>8, <2>9, <2>10, <2>11, <2>12 DEF Revertible
<1> QED
  BY <1>9, <1>10, <1>11, <1>12

LEMMA SwitchAtOnceKeeps ==
  ASSUME UpgradeInv, NEW r \in Request, SwitchAtOnce(r)
  PROVE  UpgradeInv'
<1> DEFINE b == request[r].target
<1>1. request[r] \in Asked /\ b \in Bundle
  BY MemoryNow DEF SwitchAtOnce
<1>2. /\ OneBundle' /\ ServicesNow' \subseteq offered[Current']
      /\ snap' \in Snap /\ snap'.bundle = snap.bundle
      /\ snap'.bundle # 0 /\ "overtaken" \notin since' => Revertible'
  BY <1>1, BundleSwitchKeeps DEF SwitchAtOnce
<1>3. [request[r] EXCEPT !.at = "switched"] = [at |-> "switched", action |-> request[r].action, target |-> b,
                                              bundle |-> request[r].bundle, state |-> request[r].state, snap |-> request[r].snap]
  BY <1>1 DEF Asked
<1>4. [request[r] EXCEPT !.at = "switched"] \in Asked
  BY <1>1, <1>3 DEF Asked, Stage
<1>5. request' = [request EXCEPT ![r] = [request[r] EXCEPT !.at = "switched"]] /\ task' = task
  BY DEF SwitchAtOnce
<1>6. /\ request' \in [Request -> Asked]
      /\ \A q \in Request : request'[q].at \in {"checked", "written"} => request'[q] = request[q]
  BY <1>3, <1>4, <1>5, MemoryNow
<1>7. MemoryOK'
  BY <1>2, <1>5, <1>6, MemoryNow DEF MemoryOK
<1> QED
  BY <1>2, <1>7 DEF UpgradeInv

LEMMA SwitchByTaskKeeps ==
  ASSUME UpgradeInv, SwitchByTask
  PROVE  UpgradeInv'
<1> DEFINE b == task.target
<1>1. b \in Bundle /\ added[b] \in SUBSET Service /\ added[b] \subseteq offered[b]
  BY MemoryNow, BundlesAssumption DEF SwitchByTask
<1>2. /\ OneBundle' /\ ServicesNow' \subseteq offered[Current']
      /\ snap' \in Snap /\ snap'.bundle = snap.bundle
      /\ snap'.bundle # 0 /\ "overtaken" \notin since' => Revertible'
  BY <1>1, BundleSwitchKeeps DEF SwitchByTask
<1>3. task' \in [kind : Kind, target : 0..MaxVersion] /\ task'.kind = "upgraded" /\ request' = request
  BY MemoryNow DEF SwitchByTask, Kind
<1>4. MemoryOK'
  BY <1>2, <1>3, MemoryNow DEF MemoryOK
<1> QED
  BY <1>2, <1>4 DEF UpgradeInv

-----------------------------------------------------------------------------
(* bundle_revert                                                           *)

(* What comes back is of the bundle, in the state that was kept.           *)
LEMMA RestoredRow ==
  ASSUME NEW b \in Bundle, NEW o \in Object, NEW kept \in Kept
  PROVE  /\ Restored(b, o, kept) \in Row /\ Restored(b, o, kept) # None
         /\ Restored(b, o, kept).bundle = b /\ Restored(b, o, kept).before = None
         /\ Restored(b, o, kept).state = kept.state
         /\ Restored(b, o, kept).config = IF kept.config = None THEN New(b, o).config ELSE kept.config
<1> DEFINE config == IF kept.config = None THEN New(b, o).config ELSE kept.config
<1>1. New(b, o) \in Row /\ New(b, o).bundle = b /\ New(b, o).before = None /\ New(b, o).config \in Config \cup {None}
  BY NewIsRow, NoneIsNone
<1>2. kept.state \in State /\ kept.config \in Config \cup {None} /\ config \in Config \cup {None}
  BY <1>1 DEF Kept
<1>3. Restored(b, o, kept) = [New(b, o) EXCEPT !.state = kept.state, !.config = config]
  BY <1>1 DEF Restored, Row
<1> HIDE DEF config
<1>4. Restored(b, o, kept) = [bundle |-> b, state |-> kept.state, config |-> config, before |-> None]
  BY <1>1, <1>3 DEF Row
<1>5. Restored(b, o, kept) \in Row
  BY <1>2, <1>4 DEF Row
<1> QED
  BY <1>4, <1>5, NoneIsNone DEF config

(* What having no obstacle means.                                          *)
LEMMA NoObstacle ==
  LET b == snap.bundle
  IN  /\ "added" \in Obstacles <=> \E o \in Existing \cap Kin(b) : row[o].bundle # b /\ row[o].before = None
      /\ "lost" \in Obstacles <=>
           \E o \in Remaining(b) \ Existing : row[serviceOf[o]].before # None /\ o \notin DOMAIN snap.dropped
      /\ "deleted" \in Obstacles <=> \E o \in Readded(b) : o \notin DOMAIN snap.deleted
      /\ "left" \in Obstacles <=> \E m \in snap.hc : m[1] \notin bound
      /\ "overtaken" \in Obstacles <=>
           ~(snap.services \subseteq offered[b]) \/ \E m \in snap.hc : m[2] \notin Remaining(b) \cup Readded(b)
      /\ Obstacles \subseteq {"added", "lost", "deleted", "left", "overtaken"}
<1> DEFINE b == snap.bundle
           A == \E o \in Existing \cap Kin(b) : row[o].bundle # b /\ row[o].before = None
           L == \E o \in Remaining(b) \ Existing : row[serviceOf[o]].before # None /\ o \notin DOMAIN snap.dropped
           D == \E o \in Readded(b) : o \notin DOMAIN snap.deleted
           H == \E m \in snap.hc : m[1] \notin bound
           O == ~(snap.services \subseteq offered[b]) \/ \E m \in snap.hc : m[2] \notin Remaining(b) \cup Readded(b)
<1>1. Obstacles = (IF A THEN {"added"} ELSE {}) \cup (IF L THEN {"lost"} ELSE {}) \cup (IF D THEN {"deleted"} ELSE {})
                    \cup (IF H THEN {"left"} ELSE {}) \cup (IF O THEN {"overtaken"} ELSE {})
  BY DEF Obstacles
<1> HIDE DEF A, L, D, H, O
<1>2. /\ "added" \in Obstacles <=> A
      /\ "lost" \in Obstacles <=> L
      /\ "deleted" \in Obstacles <=> D
      /\ "left" \in Obstacles <=> H
      /\ "overtaken" \in Obstacles <=> O
      /\ Obstacles \subseteq {"added", "lost", "deleted", "left", "overtaken"}
  BY <1>1
<1> QED
  BY <1>2 DEF A, L, D, H, O

(* Kin, by service.                                                        *)
LEMMA KinOf ==
  ASSUME UpgradeInv, NEW b \in Bundle
  PROVE  /\ Kin(b) \subseteq Object /\ TheCluster \in Kin(b)
         /\ \A o \in Object : o \in Kin(b) <=>
              \/ o = TheCluster
              \/ o \in ServicesNow /\ o \in offered[b]
              \/ o \in Component /\ o \in offered[b] /\ serviceOf[o] \in ServicesNow
         /\ b # Current => Remaining(b) = Kin(b)
         /\ b = Current => Remaining(b) = {TheCluster}
         /\ Readded(b) \cap Remaining(b) = {}
<1>1. Kin(b) \subseteq Object /\ TheCluster \in Kin(b)
  BY DEF Kin, ServicesNow, ComponentsOf, Object, Part, Existing
<1>2. \A c \in offered[b] \cap Component : serviceOf[c] \in offered[b]
  BY BundlesAssumption
<1>3. \A o \in Object : o \in Kin(b) <=>
              \/ o = TheCluster
              \/ o \in ServicesNow /\ o \in offered[b]
              \/ o \in Component /\ o \in offered[b] /\ serviceOf[o] \in ServicesNow
  BY <1>2 DEF Kin, ComponentsOf
<1>4. b # Current => Remaining(b) = Kin(b)
  BY <1>1, PartsOfCluster DEF Remaining
<1>5. b = Current => Remaining(b) = {TheCluster}
  BY <1>1, PartsOfCluster DEF Remaining
<1>6. Readded(b) \cap Remaining(b) = {}
  <2> SUFFICES ASSUME NEW o \in Readded(b), o \in Remaining(b) PROVE FALSE
    OBVIOUS
  <2>1. snap.services \subseteq Service /\ \A c \in Component : c # TheCluster /\ c \notin Service
    BY MemoryNow, BundlesAssumption DEF Snap, Part
  <2>2. o \notin snap.services \ Remaining(b)
    OBVIOUS
  <2>3. o \in Component /\ o \in offered[b] /\ serviceOf[o] \in snap.services \ Remaining(b) /\ o # TheCluster
    BY <2>1, <2>2 DEF Readded, ComponentsOf
  <2>4. b # Current
    BY <1>5, <2>3
  <2>5. serviceOf[o] \in ServicesNow /\ serviceOf[o] \in offered[b] /\ serviceOf[o] \in Object
    BY <1>1, <1>2, <1>3, <1>4, <2>1, <2>3, <2>4 DEF Object, Part, ServicesNow
  <2> QED
    BY <1>3, <1>4, <2>3, <2>4, <2>5
<1> QED
  BY <1>1, <1>3, <1>4, <1>5, <1>6

(* Where bundle_revert leaves each object: reverted, back from what was    *)
(* kept, or gone.                                                          *)
LEMMA RevertedParts ==
  ASSUME UpgradeInv, snap.bundle \in Bundle, Obstacles = {}
  PROVE  LET b == snap.bundle
             after == Reverted(b)
         IN  /\ after \in [Object -> Row \cup {None}]
             /\ \A o \in Object : after[o] # None <=> o \in Remaining(b) \cup Readded(b)
             /\ \A o \in Object : after[o] # None => after[o].bundle = b
             /\ \A o \in Object \cap Remaining(b) \cap Existing : b # Current =>
                  /\ row[o].before \in Kept
                  /\ after[o].state = row[o].before.state /\ after[o].config = row[o].before.config
             /\ \A o \in Object \cap (Remaining(b) \ Existing) :
                  /\ snap.dropped[o] \in Kept /\ after[o] = Restored(b, o, snap.dropped[o])
             /\ \A o \in Object \cap (Readded(b) \ Remaining(b)) :
                  /\ snap.deleted[o] \in Kept /\ after[o] = Restored(b, o, snap.deleted[o])
<1> DEFINE b == snap.bundle
           after == Reverted(b)
<1>1. /\ \A o \in Existing \cap Kin(b) : row[o].bundle # b => row[o].before # None
      /\ \A o \in Remaining(b) \ Existing : row[serviceOf[o]].before # None => o \in DOMAIN snap.dropped
      /\ \A o \in Readded(b) : o \in DOMAIN snap.deleted
  BY NoObstacle
<1>2. /\ snap.deleted \in [DOMAIN snap.deleted -> Kept] /\ snap.dropped \in [DOMAIN snap.dropped -> Kept]
      /\ DOMAIN snap.deleted \subseteq Part /\ DOMAIN snap.dropped \subseteq Component
  BY MemoryNow, KeepingMeans DEF Snap
<1>3. Remaining(b) \subseteq Kin(b) /\ TheCluster \in Remaining(b) /\ Kin(b) \subseteq Object
  BY KinOf
<1>4. \A o \in Existing \cap Remaining(b) :
        /\ RevertedRow(b, o) \in Row /\ RevertedRow(b, o) # None /\ RevertedRow(b, o).bundle = b
        /\ b # Current =>
             /\ row[o].before \in Kept
             /\ RevertedRow(b, o).state = row[o].before.state /\ RevertedRow(b, o).config = row[o].before.config
  <2> TAKE o \in Existing \cap Remaining(b)
  <2>1. row[o] \in Row /\ row[o].bundle = Current /\ row[o] # None /\ o \in Kin(b)
    BY <1>3, PartsOfCluster
  <2>2. CASE b = Current
    BY <2>1, <2>2 DEF RevertedRow
  <2>3. CASE b # Current
    <3>1. row[o].before \in Kept
      BY <1>1, <2>1, <2>3, NoneIsNone
    <3>2. RevertedRow(b, o) = [bundle |-> b, state |-> row[o].before.state, config |-> row[o].before.config, before |-> None]
      BY <2>1, <2>3 DEF RevertedRow
    <3>3. row[o].before.state \in State /\ row[o].before.config \in Config \cup {None}
      BY <3>1 DEF Kept
    <3>4. RevertedRow(b, o) \in Row
      BY <3>2, <3>3 DEF Row
    <3> QED
      BY <2>3, <3>1, <3>2, <3>4, NoneIsNone
  <2> QED
    BY <2>2, <2>3
<1>5. \A o \in Remaining(b) \ Existing : o \in DOMAIN snap.dropped /\ snap.dropped[o] \in Kept
  <2> TAKE o \in Remaining(b) \ Existing
  <2>1. o \in Object /\ o \in Kin(b) /\ b # Current /\ o # TheCluster
    BY <1>3, KinOf, PartsOfCluster
  <2>2. o \in Component /\ serviceOf[o] \in ServicesNow /\ o \in offered[b]
    BY <2>1, KinOf DEF ServicesNow
  <2>3. serviceOf[o] \in offered[b] /\ serviceOf[o] \in Existing /\ serviceOf[o] \in Object
    BY <2>2, BundlesAssumption DEF ServicesNow, Object, Part
  <2>4. serviceOf[o] \in Kin(b) /\ row[serviceOf[o]].bundle # b
    BY <2>1, <2>2, <2>3, KinOf, PartsOfCluster
  <2> QED
    BY <1>1, <1>2, <2>3, <2>4
<1>6. \A o \in Readded(b) : o \in Object /\ snap.deleted[o] \in Kept
  BY <1>1, <1>2 DEF Object
<1> HIDE DEF b
<1>7. \A o \in Object :
        /\ o \in Remaining(b) \cap Existing => after[o] = RevertedRow(b, o)
        /\ o \in Remaining(b) \ Existing => after[o] = Restored(b, o, snap.dropped[o])
        /\ o \in Readded(b) \ Remaining(b) => after[o] = Restored(b, o, snap.deleted[o])
        /\ o \notin Readded(b) \cup Remaining(b) => after[o] = None
  <2>1. Readded(b) \cap Remaining(b) = {}
    BY KinOf DEF b
  <2> QED
    BY <1>3, <2>1 DEF Reverted
<1>8. after = [o \in Object |-> after[o]]
  BY DEF Reverted
<1> HIDE DEF after
<1>9. \A o \in Object : /\ after[o] \in Row \cup {None}
                        /\ after[o] # None <=> o \in Remaining(b) \cup Readded(b)
                        /\ after[o] # None => after[o].bundle = b
  <2> TAKE o \in Object
  <2>0. b \in Bundle
    BY DEF b
  <2>1. CASE o \in Remaining(b) \cap Existing
    <3>1. RevertedRow(b, o) \in Row /\ RevertedRow(b, o) # None /\ RevertedRow(b, o).bundle = b
      BY <1>4, <2>1
    <3>2. after[o] = RevertedRow(b, o)
      BY <1>7, <2>1
    <3> QED
      BY <2>1, <3>1, <3>2
  <2>2. CASE o \in Remaining(b) \ Existing
    BY <1>5, <1>7, <2>0, <2>2, RestoredRow
  <2>3. CASE o \in Readded(b) \ Remaining(b)
    BY <1>6, <1>7, <2>0, <2>3, RestoredRow
  <2>4. CASE o \notin Readded(b) \cup Remaining(b)
    BY <1>7, <2>4
  <2> QED
    BY <2>1, <2>2, <2>3, <2>4
<1>10. after \in [Object -> Row \cup {None}]
  BY <1>8, <1>9
<1>11. \A o \in Object \cap Remaining(b) \cap Existing : b # Current =>
         /\ row[o].before \in Kept
         /\ after[o].state = row[o].before.state /\ after[o].config = row[o].before.config
  <2> TAKE o \in Object \cap Remaining(b) \cap Existing
  <2>1. b # Current =>
          /\ row[o].before \in Kept
          /\ RevertedRow(b, o).state = row[o].before.state /\ RevertedRow(b, o).config = row[o].before.config
    BY <1>4
  <2>2. after[o] = RevertedRow(b, o)
    BY <1>7
  <2> QED
    BY <2>1, <2>2
<1>12. \A o \in Object \cap (Remaining(b) \ Existing) : snap.dropped[o] \in Kept /\ after[o] = Restored(b, o, snap.dropped[o])
  BY <1>5, <1>7
<1>13. \A o \in Object \cap (Readded(b) \ Remaining(b)) : snap.deleted[o] \in Kept /\ after[o] = Restored(b, o, snap.deleted[o])
  BY <1>6, <1>7
<1> QED
  BY <1>9, <1>10, <1>11, <1>12, <1>13 DEF after, b

LEMMA BundleRevertKeeps ==
  ASSUME UpgradeInv, BundleRevert
  PROVE  UpgradeInv'
<1> DEFINE b == snap.bundle
<1>1. b \in Bundle /\ Obstacles = {} /\ row' = Reverted(b) /\ hc' = snap.hc /\ bound' = bound /\ changes' = changes /\ request' = request
  BY MemoryNow DEF BundleRevert
<1>2. /\ row' \in [Object -> Row \cup {None}]
      /\ \A o \in Object : row'[o] # None <=> o \in Remaining(b) \cup Readded(b)
      /\ \A o \in Object : row'[o] # None => row'[o].bundle = b
  BY <1>1, RevertedParts
<1>3. /\ snap.services \subseteq offered[b] /\ snap.services \subseteq Service /\ snap.hc \subseteq Host \X Component
      /\ \A m \in snap.hc : m[1] \in bound /\ m[2] \in Remaining(b) \cup Readded(b)
  BY <1>1, NoObstacle, MemoryNow DEF Snap
<1>4. \A o \in Object : o \in Existing' <=> o \in Remaining(b) \cup Readded(b)
  BY <1>2 DEF Existing
<1>5. TheCluster \in Object /\ TheCluster \in Existing' /\ Current' = b
  BY <1>1, <1>2, <1>4, KinOf DEF Current, Object
<1>6. \A s \in Service : s \in Object /\ s \notin Component /\ s # TheCluster
  BY BundlesAssumption DEF Object, Part
<1>7. \A c \in Component : c \in Object /\ c \notin Service /\ c # TheCluster /\ serviceOf[c] \in Service
  BY BundlesAssumption DEF Object, Part
<1>8. \A s \in Service : s \in ServicesNow' <=> s \in Remaining(b) \/ s \in snap.services
  <2>1. \A s \in Service : s \in Readded(b) <=> s \in snap.services /\ s \notin Remaining(b)
    BY <1>6 DEF Readded, ComponentsOf
  <2> QED
    BY <1>4, <1>6, <2>1 DEF ServicesNow
<1>9. \A c \in Component : c \in Existing' <=> c \in offered[b] /\ serviceOf[c] \in ServicesNow'
  <2> TAKE c \in Component
  <2> DEFINE s == serviceOf[c]
  <2>1. c \in Readded(b) <=> c \in offered[b] /\ s \in snap.services /\ s \notin Remaining(b)
    BY <1>3, <1>7 DEF Readded, ComponentsOf
  <2>2. c \in Remaining(b) <=> c \in offered[b] /\ s \in Remaining(b)
    <3>1. CASE b = Current
      BY <1>1, <1>6, <1>7, <3>1, KinOf
    <3>2. CASE b # Current
      <4>1. c \in offered[b] => s \in offered[b]
        BY <1>1, BundlesAssumption
      <4>2. c \in Kin(b) <=> c \in offered[b] /\ s \in ServicesNow
        BY <1>1, <1>7, KinOf DEF ServicesNow
      <4>3. s \in Kin(b) <=> s \in offered[b] /\ s \in ServicesNow
        BY <1>1, <1>6, <1>7, KinOf
      <4> QED
        BY <1>1, <3>2, <4>1, <4>2, <4>3, KinOf
    <3> QED
      BY <3>1, <3>2
  <2> QED
    BY <1>4, <1>7, <1>8, <2>1, <2>2
<1>10. ServicesNow' \subseteq offered[Current']
  <2>1. \A s \in Service : s \in Remaining(b) => s \in offered[b]
    BY <1>1, <1>6, KinOf DEF Remaining
  <2> QED
    BY <1>3, <1>5, <1>8, <2>1 DEF ServicesNow
<1>11. TypeOK' /\ MemoryOK' /\ (snap'.bundle = 0 \/ "overtaken" \in since')
  <2>1. snap' \in Snap /\ (snap'.bundle = 0 \/ "overtaken" \in since')
    <3>1. CASE b = Current
      BY <3>1, MemoryNow DEF BundleRevert
    <3>2. CASE b # Current
      <4>1. snap' = NoSnap
        BY <3>2 DEF BundleRevert
      <4>2. Request0("idle") \in Asked /\ Request0("idle").snap = NoSnap
        BY NoRequest DEF Request0
      <4>3. NoSnap \in Snap
        BY <4>2 DEF Asked
      <4> QED
        BY <4>1, <4>3 DEF NoSnap
    <3> QED
      BY <3>1, <3>2
  <2>2. task' \in [kind : Kind, target : 0..MaxVersion] /\ task'.kind = "reverted"
    BY MemoryNow DEF BundleRevert, Kind
  <2>3. hc' \subseteq Host \X (Existing' \cap Component) /\ {m[1] : m \in hc'} \subseteq bound'
    BY <1>1, <1>3, <1>4, <1>7
  <2>4. snap'.bundle \in 0..MaxVersion /\ snap'.services \subseteq Service /\ snap'.hc \subseteq Host \X Component
    BY <2>1 DEF Snap
  <2>5. TypeOK'
    BY <1>1, <1>2, <1>5, <2>3, <2>4, MappingNow DEF TypeOK, Existing
  <2> QED
    BY <1>1, <2>1, <2>2, <2>5, MemoryNow DEF MemoryOK
<1>12. OneBundle'
  <2>1. \A o \in Existing' : row'[o].bundle = Current'
    BY <1>2, <1>5 DEF Existing
  <2>2. Existing' \cap Component = offered[Current'] \cap {c \in Component : serviceOf[c] \in ServicesNow'}
    BY <1>5, <1>9
  <2> QED
    BY <1>11, <2>1, <2>2 DEF OneBundle, ComponentsOf
<1> QED
  BY <1>10, <1>11, <1>12 DEF UpgradeInv

(* What is restored from what was kept is what it was.                     *)
LEMMA RestoredIsPast ==
  ASSUME UpgradeInv, Revertible, NEW b \in Bundle, b = snap.bundle, NEW o \in Object, NEW kept \in Kept, IsPast(o, kept)
  PROVE  SameRow(Bare(Restored(b, o, kept)), past.row[o])
<1> DEFINE new == Restored(b, o, kept)
           then == past.row[o]
<1>1. /\ new # None /\ new.bundle = b /\ new.state = kept.state
      /\ new.config = IF kept.config = None THEN New(b, o).config ELSE kept.config
  BY RestoredRow
<1>2. then # None /\ then \in Plain /\ then.bundle = b /\ kept.state = then.state /\ kept.config = then.config
  BY DEF IsPast, Revertible, PastIsSnap
<1>3. New(b, o).config \in {"default", None}
  BY NewIsRow
<1>4. Bare(new) = [bundle |-> new.bundle, state |-> new.state, config |-> new.config]
  BY <1>1 DEF Bare
<1>5. then = [bundle |-> then.bundle, state |-> then.state, config |-> then.config]
  BY <1>2 DEF Plain
<1> HIDE DEF new, then
<1>6. CASE new.config = then.config
  BY <1>1, <1>2, <1>4, <1>5, <1>6 DEF SameRow, then, new
<1>7. CASE new.config # then.config
  <2>1. then.config = None /\ new.config = "default"
    BY <1>1, <1>2, <1>3, <1>7
  <2>2. [then EXCEPT !.config = "default"] = [bundle |-> then.bundle, state |-> then.state, config |-> "default"]
    BY <1>5
  <2>3. Bare(new) = [then EXCEPT !.config = "default"]
    BY <1>1, <1>2, <1>4, <2>1, <2>2
  <2> QED
    BY <1>2, <2>1, <2>3 DEF SameRow, then, new
<1> QED
  BY <1>6, <1>7

(* A revert that gets through restores what was there.                     *)
LEMMA RevertBringsBack ==
  ASSUME UpgradeInv, BundleRevert, snap.bundle # Current, "overtaken" \notin since
  PROVE  /\ \A o \in Object :
              IF "deleted" \in since /\ o \in Readded(snap.bundle) THEN row'[o] # None /\ past.row[o] # None
              ELSE SameRow(Bare(row'[o]), past.row[o])
         /\ hc' = past.hc
<1> DEFINE b == snap.bundle
<1>1. b \in Bundle /\ Obstacles = {} /\ row' = Reverted(b) /\ hc' = snap.hc
  BY MemoryNow DEF BundleRevert
<1>2. Revertible /\ b # 0
  BY <1>1 DEF UpgradeInv, Bundle
<1>3. /\ \A o \in Object : row'[o] # None <=> o \in Remaining(b) \cup Readded(b)
      /\ \A o \in Object : row'[o] # None => row'[o].bundle = b
      /\ \A o \in Object \cap Remaining(b) \cap Existing :
           /\ row[o].before \in Kept
           /\ row'[o].state = row[o].before.state /\ row'[o].config = row[o].before.config
      /\ \A o \in Object \cap (Remaining(b) \ Existing) :
           /\ snap.dropped[o] \in Kept /\ row'[o] = Restored(b, o, snap.dropped[o])
      /\ \A o \in Object \cap (Readded(b) \ Remaining(b)) :
           /\ snap.deleted[o] \in Kept /\ row'[o] = Restored(b, o, snap.deleted[o])
  BY <1>1, RevertedParts
<1>4. Remaining(b) = Kin(b) /\ Readded(b) \cap Remaining(b) = {}
  BY <1>1, KinOf
<1>5. snap.services \subseteq Service /\ snap.services \subseteq offered[b]
  BY <1>2, MemoryNow DEF Snap, Revertible, SnapIsOfBundle
<1>6. \A o \in Readded(b) : \E s \in snap.services \ ServicesNow : o \in Within({s})
  <2> TAKE o \in Readded(b)
  <2>1. PICK s \in snap.services \ Remaining(b) : o = s \/ (o \in Component /\ o \in offered[b] /\ serviceOf[o] = s)
    BY DEF Readded, ComponentsOf
  <2>2. s \notin ServicesNow
    BY <1>1, <1>4, <1>5, <2>1, KinOf DEF Object, Part
  <2>3. o \in Within({s})
    BY <2>1 DEF Within, ComponentsOf
  <2> QED
    BY <2>1, <2>2, <2>3
<1>7. \A o \in Readded(b) : o \in Had /\ past.row[o] # None
  <2>1. Readded(b) \subseteq Had /\ Readded(b) \subseteq Object
    BY <1>5 DEF Readded, Had, ComponentsOf, Object, Part
  <2> QED
    BY <1>2, <2>1 DEF Revertible, PastIsSnap
<1>8. \A o \in Object : o \in Had => o \in Remaining(b) \cup Readded(b)
  <2> SUFFICES ASSUME NEW o \in Object, o \in Had, o \notin Readded(b) PROVE o \in Kin(b)
    BY <1>4
  <2>1. CASE o = TheCluster
    BY <1>1, <2>1, KinOf
  <2>2. CASE o \in snap.services
    BY <1>4, <2>2 DEF Readded
  <2>3. CASE o \in offered[b] /\ o \in Component /\ serviceOf[o] \in snap.services
    <3>1. serviceOf[o] \in Kin(b)
      BY <1>4, <2>3 DEF Readded, ComponentsOf
    <3>2. serviceOf[o] \in ServicesNow
      BY <1>1, <1>5, <2>3, <3>1, KinOf, BundlesAssumption DEF Object, Part
    <3> QED
      BY <1>1, <2>3, <3>2, KinOf
  <2> QED
    BY <2>1, <2>2, <2>3 DEF Had, ComponentsOf
<1>9. ASSUME NEW o \in Object, ~("deleted" \in since /\ o \in Readded(b))
      PROVE  SameRow(Bare(row'[o]), past.row[o])
  <2>1. CASE o \in Remaining(b) \cap Existing
    <3>1. row[o].before \in Kept /\ row'[o] # None /\ row'[o].bundle = b
          /\ row'[o].state = row[o].before.state /\ row'[o].config = row[o].before.config
      BY <1>1, <1>3, <2>1
    <3>2. IsPast(o, row[o].before)
      BY <1>2, <2>1, <3>1, NoneIsNone DEF Revertible, BeforeIsPast
    <3>3. /\ past.row[o] \in Plain /\ past.row[o].bundle = b /\ row'[o].state = past.row[o].state
          /\ row'[o].config = past.row[o].config
      BY <1>2, <3>1, <3>2 DEF IsPast, Revertible, PastIsSnap
    <3>4. Bare(row'[o]) = [bundle |-> row'[o].bundle, state |-> row'[o].state, config |-> row'[o].config]
      BY <3>1 DEF Bare
    <3>5. past.row[o] = [bundle |-> past.row[o].bundle, state |-> past.row[o].state, config |-> past.row[o].config]
      BY <3>3 DEF Plain
    <3>6. Bare(row'[o]) = past.row[o]
      BY <3>1, <3>3, <3>4, <3>5
    <3> QED
      BY <3>6 DEF SameRow
  <2>2. CASE o \in Remaining(b) \ Existing
    <3>1. o \in Component /\ o \in offered[b] /\ serviceOf[o] \in ServicesNow
      BY <1>1, <1>4, <2>2, KinOf, PartsOfCluster DEF ServicesNow
    <3>2. serviceOf[o] \in offered[b] /\ serviceOf[o] \in Existing /\ serviceOf[o] \in Object
      BY <1>1, <3>1, BundlesAssumption DEF ServicesNow, Object, Part
    <3>3. serviceOf[o] \in Kin(b) /\ row[serviceOf[o]].bundle # b
      BY <1>1, <3>1, <3>2, KinOf, PartsOfCluster
    <3>4. row[serviceOf[o]].before # None
      BY <1>1, <3>2, <3>3, NoObstacle
    <3>5. IsPast(o, snap.dropped[o])
      BY <1>2, <2>2, <3>1, <3>4 DEF Revertible, DroppedAreKept, ComponentsOf
    <3> QED
      BY <1>1, <1>2, <1>3, <2>2, <3>5, RestoredIsPast
  <2>3. CASE o \in Readded(b)
    <3>1. "deleted" \notin since /\ o \notin Remaining(b)
      BY <1>4, <1>9, <2>3
    <3>2. IsPast(o, snap.deleted[o])
      BY <1>2, <1>6, <2>3, <3>1 DEF Revertible, DeletedAreKept
    <3> QED
      BY <1>1, <1>2, <1>3, <2>3, <3>1, <3>2, RestoredIsPast
  <2>4. CASE o \notin Remaining(b) \cup Readded(b)
    <3>1. row'[o] = None /\ o \notin Had
      BY <1>3, <1>8, <2>4
    <3>2. past.row[o] = None
      BY <1>2, <3>1 DEF Revertible, PastIsSnap
    <3> QED
      BY <3>1, <3>2 DEF SameRow, Bare
  <2> QED
    BY <2>1, <2>2, <2>3, <2>4
<1>10. hc' = past.hc
  BY <1>1, <1>2 DEF Revertible, PastIsSnap
<1>11. \A o \in Readded(b) : row'[o] # None /\ past.row[o] # None
  <2>1. Readded(b) \subseteq Object
    BY <1>5 DEF Readded, ComponentsOf, Object, Part
  <2> QED
    BY <1>3, <1>7, <2>1
<1> QED
  BY <1>9, <1>10, <1>11

-----------------------------------------------------------------------------
(* The invariant                                                           *)

(* A cluster of the first bundle satisfies it.                             *)
LEMMA InitHolds == Init => UpgradeInv
<1> SUFFICES ASSUME Init PROVE UpgradeInv
  OBVIOUS
<1>1. PICK services \in SUBSET (offered[1] \cap Service) :
        /\ row = [o \in Object |->
                    IF o = TheCluster \/ o \in services \/ o \in offered[1] \cap ComponentsOf(services)
                      THEN New(1, o) ELSE None]
        /\ hc \in SUBSET (Host \X (offered[1] \cap ComponentsOf(services)))
  BY DEF Init
<1>2. 1 \in Bundle /\ TheCluster \in Object
  BY BundlesAssumption DEF Bundle, Object
<1>3. \A o \in Object : New(1, o) \in Row /\ New(1, o) # None /\ New(1, o).bundle = 1
  BY <1>2, NewIsRow
<1>4. \A o \in Object : o \in Existing <=> o = TheCluster \/ o \in services \/ o \in offered[1] \cap ComponentsOf(services)
  BY <1>1, <1>3 DEF Existing
<1>5. \A o \in Existing : o \in Object /\ row[o].bundle = 1
  BY <1>1, <1>3, <1>4 DEF Existing
<1>6. Current = 1 /\ row[TheCluster] # None /\ row \in [Object -> Row \cup {None}]
  BY <1>1, <1>2, <1>3 DEF Current
<1>7. \A o \in Service : o \in Object /\ o # TheCluster /\ o \notin Component
  BY BundlesAssumption DEF Object, Part
<1>8. ServicesNow = services
  BY <1>4, <1>7 DEF ServicesNow, ComponentsOf, Existing
<1>9. Existing \cap Component = offered[1] \cap ComponentsOf(services)
  <2>1. \A c \in Component : c \in Object /\ c # TheCluster /\ c \notin services
    BY <1>7, BundlesAssumption DEF Object, Part
  <2> QED
    BY <1>4, <2>1 DEF ComponentsOf
<1>10. request = [r \in Request |-> Request0("idle")] /\ Request0("idle") \in Asked /\ Request0("idle").at = "idle"
       /\ Request0("idle").snap = NoSnap
  BY NoRequest DEF Init, Request0
<1>11. snap \in Snap /\ snap.bundle = 0
  BY <1>10 DEF Init, Asked, NoSnap
<1> HIDE DEF Request0
<1>12. MemoryOK
  <2>1. task = [kind |-> None, target |-> 0] /\ None \notin {"upgrade", "revert"}
    BY NoneAssumption DEF Init, NoTask
  <2>2. task \in [kind : Kind, target : 0..MaxVersion] /\ task.kind = None
    BY <2>1, BundlesAssumption DEF Kind
  <2>3. request \in [Request -> Asked] /\ \A r \in Request : request[r].at = "idle"
    BY <1>10
  <2> QED
    BY <1>11, <2>1, <2>2, <2>3 DEF MemoryOK
<1>13. TypeOK
  <2>1. hc \subseteq Host \X (Existing \cap Component) /\ bound = Host /\ changes = 0
    BY <1>1, <1>9 DEF Init
  <2> QED
    BY <1>6, <1>11, <2>1, BundlesAssumption DEF TypeOK, Snap
<1> QED
  BY <1>1, <1>5, <1>6, <1>8, <1>9, <1>11, <1>12, <1>13 DEF UpgradeInv, OneBundle

(* A step of a request.                                                    *)
LEMMA RequestStepKeeps ==
  ASSUME UpgradeInv, NEW r \in Request,
         \/ \E action \in BOOLEAN, b \in Bundle : CheckUpgrade(r, action, b)
         \/ WriteBeforeUpgrade(r) \/ SwitchAtOnce(r) \/ SaveState(r) \/ LaunchUpgrade(r) \/ EndInError(r)
  PROVE  UpgradeInv'
  BY CheckUpgradeKeeps, WriteBeforeUpgradeKeeps, SwitchAtOnceKeeps, SaveStateKeeps, LaunchUpgradeKeeps, EndInErrorKeeps

(* No step breaks the invariant.                                           *)
LEMMA NextKeeps ==
  ASSUME UpgradeInv, [Next]_vars
  PROVE  UpgradeInv'
<1>1. CASE UNCHANGED vars
  <2>1. MemoryOK'
    BY <1>1, MemoryNow DEF vars, MemoryOK
  <2> QED
    BY <1>1, <2>1, SameRows, MappingNow DEF vars
<1>2. ASSUME NEW r \in Request,
             \/ \E action \in BOOLEAN, b \in Bundle : CheckUpgrade(r, action, b)
             \/ WriteBeforeUpgrade(r) \/ SwitchAtOnce(r) \/ SaveState(r) \/ LaunchUpgrade(r) \/ EndInError(r)
      PROVE  UpgradeInv'
  BY <1>2, RequestStepKeeps
<1>3. CASE SwitchByTask
  BY <1>3, SwitchByTaskKeeps
<1>4. CASE LaunchRevert
  BY <1>4, LaunchRevertKeeps
<1>5. CASE BundleRevert
  BY <1>5, BundleRevertKeeps
<1>6. CASE TaskEnds
  BY <1>6, TaskEndsKeeps
<1>7. ASSUME NEW o \in Object, ChangeObject(o) PROVE UpgradeInv'
  BY <1>7, ChangeObjectKeeps
<1>8. CASE ChangeMapping
  BY <1>8, ChangeMappingKeeps
<1>9. ASSUME NEW s \in Service, AddService(s) PROVE UpgradeInv'
  BY <1>9, AddServiceKeeps
<1>10. ASSUME NEW s \in Service, DeleteService(s) \/ DeleteServiceByTask(s) PROVE UpgradeInv'
  BY <1>10, ServiceGoneKeeps DEF DeleteService, DeleteServiceByTask
<1>11. ASSUME NEW h \in Host, RemoveHost(h) \/ AddHost(h) PROVE UpgradeInv'
  BY <1>11, RemoveHostKeeps, AddHostKeeps
<1> QED
  BY <1>1, <1>2, <1>3, <1>4, <1>5, <1>6, <1>7, <1>8, <1>9, <1>10, <1>11 DEF Next

LEMMA UpgradeInvHolds == Spec => []UpgradeInv
  BY InitHolds, NextKeeps, PTL DEF Spec

(* What upgrades, reverts, jobs and users leave of a cluster is of one     *)
(* bundle, each service with all the components the bundle has for it.     *)
THEOREM ClusterOfOneBundle == Spec => []OneBundle
<1>1. UpgradeInv => OneBundle
  BY DEF UpgradeInv
<1> QED
  BY <1>1, UpgradeInvHolds, PTL

(* bundle_revert can only fail for what users and the hc_acl have added,   *)
(* deleted or taken out since, whatever the bundles offer.                 *)
THEOREM UpgradeCanBeReverted == Spec => []RevertIsPossible
<1>1. UpgradeInv => RevertIsPossible
  <2> SUFFICES ASSUME UpgradeInv, snap.bundle \notin {0, Current}, "overtaken" \notin since
               PROVE  /\ "added" \in Obstacles => since \cap {"added", "created"} # {}
                      /\ Obstacles \ {"added"} \subseteq since
    BY DEF RevertIsPossible
  <2> DEFINE b == snap.bundle
  <2>1. b \in Bundle /\ Revertible /\ b # Current
    BY MemoryNow, BundlesAssumption DEF UpgradeInv, Bundle
  <2>2. snap.services \subseteq Service /\ snap.services \subseteq offered[b]
    BY <2>1, MemoryNow DEF Snap, Revertible, SnapIsOfBundle
  <2>3. Remaining(b) = Kin(b)
    BY <2>1, KinOf
  <2>4. "added" \in Obstacles => since \cap {"added", "created"} # {}
    <3>1. \A o \in Existing \cap Kin(b) : o \in {TheCluster} \cup offered[b]
      BY <2>1, KinOf
    <3> QED
      BY <2>1, <3>1, NoObstacle DEF Revertible, NoneAdded
  <2>5. "lost" \notin Obstacles
    <3> SUFFICES ASSUME NEW o \in Kin(b) \ Existing, row[serviceOf[o]].before # None PROVE o \in DOMAIN snap.dropped
      BY <2>3, NoObstacle
    <3>1. o \in Component /\ o \in offered[b] /\ serviceOf[o] \in ServicesNow
      BY <2>1, KinOf, PartsOfCluster DEF ServicesNow
    <3> QED
      BY <2>1, <3>1 DEF Revertible, DroppedAreKept, ComponentsOf
  <2>6. "deleted" \in Obstacles => "deleted" \in since
    <3> SUFFICES ASSUME NEW o \in Readded(b), "deleted" \notin since PROVE o \in DOMAIN snap.deleted
      BY NoObstacle
    <3>1. PICK s \in snap.services \ Remaining(b) : o = s \/ (o \in Component /\ o \in offered[b] /\ serviceOf[o] = s)
      BY DEF Readded, ComponentsOf
    <3>2. s \notin ServicesNow
      BY <2>1, <2>2, <2>3, <3>1, KinOf DEF Object, Part
    <3>3. o \in Within({s})
      BY <3>1 DEF Within, ComponentsOf
    <3> QED
      BY <2>1, <3>1, <3>2, <3>3 DEF Revertible, DeletedAreKept
  <2>7. "left" \in Obstacles => "left" \in since
    BY <2>1, NoObstacle DEF Revertible, HostsAreBound
  <2>8. "overtaken" \notin Obstacles
    <3> SUFFICES ASSUME NEW m \in snap.hc, m[2] \notin Remaining(b) \cup Readded(b) PROVE FALSE
      BY <2>2, NoObstacle
    <3>1. m[2] \in Component /\ m[2] \in Had
      BY <2>1, MemoryNow DEF Snap, Revertible, SnapIsOfBundle
    <3>2. m[2] \in offered[b] /\ serviceOf[m[2]] \in snap.services /\ m[2] \in Object
      BY <2>2, <3>1, BundlesAssumption DEF Had, ComponentsOf, Object, Part
    <3>3. serviceOf[m[2]] \in Kin(b)
      BY <2>3, <3>1, <3>2 DEF Readded, ComponentsOf
    <3>4. serviceOf[m[2]] \in ServicesNow
      BY <2>1, <2>2, <3>2, <3>3, KinOf, BundlesAssumption DEF Object, Part
    <3> QED
      BY <2>1, <2>3, <3>1, <3>2, <3>4, KinOf
  <2> QED
    BY <2>4, <2>5, <2>6, <2>7, <2>8, NoObstacle
<1> QED
  BY <1>1, UpgradeInvHolds, PTL

(* bundle_switch raises no KeyError in an upgrade none has overtaken, as   *)
(* long as no service was added since it wrote before_upgrade.             *)
THEOREM SwitchGoesThrough == Spec => []SwitchIsPossible
<1>1. UpgradeInv => SwitchIsPossible
  <2> SUFFICES ASSUME UpgradeInv, snap.bundle = Current, since \cap {"added", "created", "overtaken"} = {}, NEW b
               PROVE  ~SwitchRaises(b)
    BY DEF SwitchIsPossible
  <2>1. Revertible
    BY PartsOfCluster, BundlesAssumption DEF UpgradeInv, Bundle
  <2>2. \A o \in Existing : row[o].before # None
    BY <2>1, PartsOfCluster DEF Revertible, NoneAdded
  <2> QED
    BY <2>2 DEF SwitchRaises
<1> QED
  BY <1>1, UpgradeInvHolds, PTL

(* A revert that gets through brings back what the upgrade found, and      *)
(* nothing else.                                                           *)
THEOREM RevertRestoresAll == Spec => RevertRestores
<1>1. UpgradeInv /\ [Next]_vars =>
        [task.kind = "revert" /\ task'.kind = "reverted" /\ snap.bundle # Current /\ "overtaken" \notin since =>
           /\ \A o \in Object :
                IF "deleted" \in since /\ o \in Readded(snap.bundle) THEN row'[o] # None /\ past.row[o] # None
                ELSE SameRow(Bare(row'[o]), past.row[o])
           /\ hc' = past.hc]_vars
  <2> SUFFICES ASSUME UpgradeInv, Next, task.kind = "revert", task'.kind = "reverted", snap.bundle # Current, "overtaken" \notin since
               PROVE  /\ \A o \in Object :
                           IF "deleted" \in since /\ o \in Readded(snap.bundle) THEN row'[o] # None /\ past.row[o] # None
                           ELSE SameRow(Bare(row'[o]), past.row[o])
                      /\ hc' = past.hc
    OBVIOUS
  <2>1. task' # task
    OBVIOUS
  <2>2. ASSUME NEW r \in Request, LaunchUpgrade(r) PROVE FALSE
    BY <2>2 DEF LaunchUpgrade
  <2>3. ~SwitchByTask /\ ~LaunchRevert
    BY DEF SwitchByTask, LaunchRevert
  <2>4. ~TaskEnds
    BY NoneAssumption DEF TaskEnds, NoTask
  <2>5. BundleRevert
    BY <2>1, <2>2, <2>3, <2>4 DEF Next, CheckUpgrade, WriteBeforeUpgrade, SwitchAtOnce, SaveState, EndInError, ChangeObject,
         ChangeMapping, AddService, DeleteService, DeleteServiceByTask, ServiceGone, RemoveHost, AddHost
  <2> QED
    BY <2>5, RevertBringsBack
<1> QED
  BY <1>1, UpgradeInvHolds, PTL DEF RevertRestores, Spec

=============================================================================
