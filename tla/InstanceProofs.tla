--------------------------- MODULE InstanceProofs ---------------------------
(***************************************************************************)
(* Proofs about the Instance controller, for every number of devices and   *)
(* disturbances and all kinds of them.  The invariant ties together the    *)
(* four copies of an Instance: the stored object, the cached one, which    *)
(* handlers modify in place, the handler's own, and what its stage says.   *)
(* A copy that counts as current is ahead of the stored object or equal to *)
(* it, never behind; so whatever is written from it only goes forward.     *)
(***************************************************************************)
EXTENDS InstanceProperties, TLAPS

USE ConstantsAssumption

Objects == InstanceObject \cup {Gone}

LEMMA GoneIsNone == Gone \notin InstanceObject /\ Gone.status = "gone"
BY DEF Gone, NewInstance, InstanceObject, Statuses

LEMMA NewIsOne == NewInstance \in InstanceObject
BY DEF NewInstance, InstanceObject, Statuses, Finalizers

LEMMA OrderFacts ==
  /\ Order[""] = 0 /\ Order["queued"] = 1 /\ Order["other"] = 1
  /\ Order["reinstalling"] = 2 /\ Order["ready"] = 3 /\ Order["managed"] = 4
  /\ \A s \in Statuses : /\ Order[s] \in Nat
                         /\ Order[s] <= 4
                         /\ Order[s] = 0 => s = ""
                         /\ Order[s] = 4 => s = "managed"
<1>1. /\ Order[""] = 0 /\ Order["queued"] = 1 /\ Order["other"] = 1
      /\ Order["reinstalling"] = 2 /\ Order["ready"] = 3 /\ Order["managed"] = 4
  BY DEF Order, Statuses
<1>2. ASSUME NEW s \in Statuses
      PROVE  /\ Order[s] \in Nat /\ Order[s] <= 4
             /\ Order[s] = 0 => s = ""
             /\ Order[s] = 4 => s = "managed"
  <2>1. s \in {"", "queued", "other", "reinstalling", "ready", "managed"}
    BY DEF Statuses
  <2>2. CASE s = ""
    <3>1. Order[s] = 0
      BY <1>1, <2>2
    <3>2. Order[s] \in Nat /\ Order[s] <= 4 /\ Order[s] # 4
      BY <3>1
    <3> QED
      BY <2>2, <3>2, Zenon
  <2>3. CASE s \in {"queued", "other"}
    <3>1. Order[s] = 1
      BY <1>1, <2>3
    <3> QED
      BY <2>3, <3>1
  <2>4. CASE s \in {"reinstalling", "ready"}
    <3>1. Order[s] \in {2, 3}
      BY <1>1, <2>4
    <3>2. Order[s] \in Nat /\ Order[s] <= 4 /\ Order[s] # 4 /\ Order[s] # 0
      BY <3>1
    <3> QED
      BY <3>2, Zenon
  <2>5. CASE s = "managed"
    <3>1. Order[s] = 4
      BY <1>1, <2>5
    <3> QED
      BY <2>5, <3>1
  <2> QED
    BY <2>1, <2>2, <2>3, <2>4, <2>5
<1> QED
  BY <1>1, <1>2

(***************************************************************************)
(* The invariant.                                                          *)
(***************************************************************************)
CoreTypes ==
  /\ object \in Objects /\ cache \in Objects /\ stale \in BOOLEAN /\ pass \in Pass

(* An object that could be gone is gone, and a device is noted with a      *)
(* status.                                                                 *)
Sound ==
  object # Gone => /\ object.deleting => object.finalizers # {}
                   /\ object.status = "" => object.id = NoDevice

Ahead(i, o) ==
  /\ Order[i.status] >= Order[o.status]
  /\ o.id # NoDevice => i.id = o.id
  /\ i.deleting = o.deleting

Cached ==
  ~stale => IF object = Gone THEN cache = Gone
            ELSE cache # Gone /\ Ahead(cache, object)

Handled ==
  ~At({"idle"}) =>
    /\ pass.fresh => object # Gone /\ Ahead(pass.i, object)
    /\ pass.shared => cache = pass.i /\ (~stale => pass.fresh)

Removing == {"deleteDevice", "deleteNode", "dropEquinix", "dropWrangler"}

StageOK(stage, i, shared) ==
  /\ stage = "create" => i.status = ""
  /\ stage = "check" => i.status \in {"queued", "reinstalling"}
  /\ stage = "reinstall" => i.status = "queued"
  /\ stage = "node" => i.status = "ready"
  /\ stage \in {"submitStatus", "writeStatus"} => i.status # ""
  /\ stage = "submitFinalizer" => ~shared
  /\ i.deleting <=> stage \in Removing

Staged == ~At({"idle"}) => StageOK(pass.at, pass.i, pass.shared)

Core == CoreTypes /\ Sound /\ Cached /\ Handled /\ Staged

(* What a step may do to the stored object.                                *)
Writes(o, n) ==
  /\ o # Gone /\ \E s \in Statuses, d \in Devices \cup {NoDevice} :
       /\ n = [o EXCEPT !.status = s, !.id = d]
       /\ s # "" /\ Order[s] >= Order[o.status] /\ (o.id # NoDevice => d = o.id)
       /\ ~o.deleting
Holds(o, n) ==
  o # Gone /\ \E f \in SUBSET Finalizers : f # {} /\ n = [o EXCEPT !.finalizers = f]
Legal(o, n) ==
  \/ n = o \/ Writes(o, n) \/ Holds(o, n)
  \/ o # Gone /\ o.finalizers = {} /\ n = Gone
  \/ o # Gone /\ o.finalizers # {} /\ n = [o EXCEPT !.deleting = TRUE]
  \/ o # Gone /\ o.deleting /\ n = Gone

LEMMA LegalKeeps ==
  ASSUME CoreTypes, Sound, NEW n, Legal(object, n), object' = n
  PROVE  n \in Objects /\ Sound'
<1>1. CASE n = object
  BY <1>1 DEF CoreTypes, Sound
<1>2. CASE Writes(object, n)
  BY <1>2 DEF CoreTypes, Sound, Writes, Objects, InstanceObject
<1>3. CASE Holds(object, n)
  BY <1>3 DEF CoreTypes, Sound, Holds, Objects, InstanceObject
<1>4. CASE n = Gone
  BY <1>4 DEF Sound, Objects
<1>5. CASE object # Gone /\ object.finalizers # {} /\ n = [object EXCEPT !.deleting = TRUE]
  BY <1>5 DEF CoreTypes, Sound, Objects, InstanceObject
<1> QED
  BY <1>1, <1>2, <1>3, <1>4, <1>5 DEF Legal

(* A call of the worker.                                                   *)
LEMMA CallStep ==
  ASSUME Core, Call
  PROVE  /\ Legal(object, object') /\ stale' = (stale \/ object' # object)
         /\ At({"submitStatus", "writeStatus", "submitFinalizer"}) =>
              object # Gone /\ object' # Gone /\ ~object.deleting /\ ~object'.deleting
<1> USE DEF At
<1>1. CASE At({"create"}) /\ \E d \in Devices : CreateDevice(d)
  BY <1>1 DEF CreateDevice, Legal, Core, CoreTypes
<1>2. CASE At({"reinstall"}) /\ ReinstallDevice
  BY <1>2 DEF ReinstallDevice, Legal, Core, CoreTypes
<1>3. CASE At({"deleteDevice"}) /\ DeleteDevice
  BY <1>3 DEF DeleteDevice, Legal, Core, CoreTypes
<1>4. CASE At({"deleteNode"}) /\ FindAndDeleteNode
  BY <1>4 DEF FindAndDeleteNode, Legal, Core, CoreTypes
<1>5. CASE At({"submitStatus", "writeStatus"}) /\ UpdateStatus
  <2>1. /\ object # Gone /\ object \in InstanceObject
        /\ pass.i \in InstanceObject /\ Ahead(pass.i, object) /\ ~pass.i.deleting
        /\ pass.i.status # "" /\ ~object.deleting
    BY <1>5 DEF UpdateStatus, Core, CoreTypes, Handled, Staged, StageOK, Removing, Objects, Pass, Ahead
  <2>2. Writes(object, object')
    BY <1>5, <2>1 DEF UpdateStatus, Put, Writes, Ahead, InstanceObject
  <2>3. object' # Gone /\ ~object'.deleting
    BY <1>5, <2>1, GoneIsNone DEF UpdateStatus, Put, InstanceObject
  <2> QED
    BY <1>5, <2>1, <2>2, <2>3 DEF UpdateStatus, Put, Legal
<1>6. ASSUME NEW f \in SUBSET Finalizers, f # {}, Update(f), pass.at # "idle"
      PROVE  /\ Legal(object, object') /\ stale' = (stale \/ object' # object)
             /\ object # Gone /\ object' # Gone /\ object'.deleting = object.deleting
  <2>1. object # Gone /\ object \in InstanceObject
    BY <1>6 DEF Update, Core, CoreTypes, Handled, Objects
  <2>2. object' = [object EXCEPT !.finalizers = f] /\ stale' = (stale \/ object' # object)
    BY <1>6 DEF Update, Put
  <2>3. object' # Gone /\ object'.deleting = object.deleting
    BY <2>1, <2>2, GoneIsNone DEF InstanceObject
  <2> QED
    BY <1>6, <2>1, <2>2, <2>3 DEF Legal, Holds
<1>7. CASE At({"submitFinalizer"}) /\ Update({"equinix"})
  <2>1. object.deleting = FALSE \/ ~object.deleting
    BY <1>7 DEF Update, Core, Handled, Staged, StageOK, Removing, Ahead
  <2> QED
    BY <1>6, <1>7, <2>1 DEF Finalizers
<1>8. CASE At({"hold"}) /\ Update(pass.i.finalizers \cup {"wrangler"})
  <2>1. pass.i.finalizers \subseteq Finalizers
    BY DEF Core, CoreTypes, Pass, InstanceObject
  <2> QED
    BY <1>6, <1>8, <2>1 DEF Finalizers
<1>9. ASSUME At({"dropEquinix", "dropWrangler"}), NEW f \in SUBSET Finalizers, Update(f)
      PROVE  Legal(object, object') /\ stale' = (stale \/ object' # object)
  <2>1. object # Gone /\ object \in InstanceObject /\ object.deleting
    BY <1>9 DEF Update, Core, CoreTypes, Handled, Staged, StageOK, Removing, Objects, Ahead
  <2>2. CASE f = {}
    BY <1>9, <2>1, <2>2 DEF Update, Put, Legal
  <2>3. CASE f # {}
    BY <1>6, <1>9, <2>3
  <2> QED
    BY <2>2, <2>3
<1>10. pass.i.finalizers \subseteq Finalizers
  BY DEF Core, CoreTypes, Pass, InstanceObject
<1> QED
  BY <1>1, <1>2, <1>3, <1>4, <1>5, <1>7, <1>8, <1>9, <1>10 DEF Call

(***************************************************************************)
(* The ways a step of the worker, or of somebody else, goes on.            *)
(***************************************************************************)
LEMMA Returned ==
  ASSUME Core, Legal(object, object'), stale' = (stale \/ object' # object),
         pass' = Idle, UNCHANGED cache
  PROVE  Core'
<1>1. Idle \in Pass /\ Idle.at = "idle"
  BY NewIsOne DEF Idle, Pass, Stages
<1>2. object' \in Objects /\ Sound'
  BY LegalKeeps DEF Core
<1>3. CoreTypes'
  BY <1>1, <1>2 DEF Core, CoreTypes
<1>4. Cached'
  BY DEF Core, Cached, Ahead, CoreTypes
<1> QED
  BY <1>1, <1>2, <1>3, <1>4 DEF Core, Handled, Staged, At

LEMMA Overtaken ==
  ASSUME Core, Legal(object, object'), stale' = (stale \/ object' # object),
         Overtake, UNCHANGED cache
  PROVE  Core'
<1>1. /\ pass' \in Pass /\ pass'.at = pass.at /\ pass'.i = pass.i
      /\ pass'.shared = pass.shared /\ pass'.fresh = (pass.fresh /\ object' = object)
  BY DEF Core, CoreTypes, Overtake, Pass
<1>2. object' \in Objects /\ Sound'
  BY LegalKeeps DEF Core
<1>3. CoreTypes'
  BY <1>1, <1>2 DEF Core, CoreTypes
<1>4. Cached'
  BY DEF Core, Cached, Ahead, CoreTypes
<1>5. Handled'
  BY <1>1 DEF Core, Handled, CoreTypes, At, Ahead
<1> QED
  BY <1>1, <1>2, <1>3, <1>4, <1>5 DEF Core, Staged, At, StageOK

LEMMA Moved ==
  ASSUME Core, UNCHANGED <<object, stale, cache>>, ~At({"idle"}),
         NEW stage \in Stages \ {"idle"}, NEW f \in BOOLEAN,
         pass' = [pass EXCEPT !.at = stage, !.failed = f],
         StageOK(stage, pass.i, pass.shared)
  PROVE  Core'
<1>1. /\ pass' \in Pass /\ pass'.at = stage /\ pass'.i = pass.i
      /\ pass'.shared = pass.shared /\ pass'.fresh = pass.fresh
  BY DEF Core, CoreTypes, Pass
<1>2. CoreTypes' /\ Sound' /\ Cached'
  BY <1>1 DEF Core, CoreTypes, Sound, Cached, Ahead
<1>3. Handled'
  BY <1>1 DEF Core, Handled, At, Ahead
<1> QED
  BY <1>1, <1>2, <1>3 DEF Core, Staged, At, StageOK

LEMMA Assigned ==
  ASSUME Core, UNCHANGED <<object, stale>>, ~At({"idle"}),
         NEW stage \in Stages \ {"idle"}, NEW i \in InstanceObject, Assign(i, stage),
         pass.fresh => Ahead(i, object),
         StageOK(stage, i, pass.shared)
  PROVE  Core'
<1>1. /\ pass' \in Pass /\ pass'.at = stage /\ pass'.i = i
      /\ pass'.shared = pass.shared /\ pass'.fresh = pass.fresh
  BY DEF Core, CoreTypes, Pass, Assign
<1>2. cache' = IF pass.shared THEN i ELSE cache
  BY DEF Assign
<1>3. CoreTypes' /\ Sound'
  BY <1>1, <1>2 DEF Core, CoreTypes, Sound, Objects
<1>4. Cached'
  <2>1. CASE pass.shared
    <3>1. cache' = i /\ i # Gone
      BY <1>2, <2>1, GoneIsNone
    <3>2. ~stale => pass.fresh /\ object # Gone /\ Ahead(i, object)
      BY <2>1 DEF Core, Handled
    <3> QED
      BY <3>1, <3>2 DEF Cached, Ahead
  <2>2. CASE ~pass.shared
    BY <1>2, <2>2 DEF Core, Cached, Ahead
  <2> QED
    BY <2>1, <2>2
<1>5. Handled'
  BY <1>1, <1>2 DEF Core, Handled, At, Ahead
<1> QED
  BY <1>1, <1>3, <1>4, <1>5 DEF Core, Staged, At, StageOK

(* Nothing of these changes.                                               *)
LEMMA Untouched ==
  ASSUME Core, UNCHANGED <<object, stale, cache, pass>>
  PROVE  Core' /\ Legal(object, object')
BY DEF Core, CoreTypes, Sound, Cached, Handled, Staged, At, StageOK, Ahead, Legal

(***************************************************************************)
(* Every action keeps Core and changes the object legally only.            *)
(***************************************************************************)
LEMMA AheadGrows ==
  ASSUME NEW i \in InstanceObject, NEW j \in InstanceObject, NEW o \in InstanceObject,
         Ahead(i, o), j.id = i.id, j.deleting = i.deleting,
         \/ i.status \in {"queued", "reinstalling"} /\ j.status = "ready"
         \/ i.status = "queued" /\ j.status = "reinstalling"
         \/ i.status = "ready" /\ j.status = "managed"
  PROVE  Ahead(j, o)
<1>1. Order[o.status] \in Nat /\ Order[i.status] \in Nat /\ Order[j.status] \in Nat
  BY OrderFacts DEF InstanceObject
<1>2. Order[i.status] <= Order[j.status]
  <2>1. CASE i.status = "queued" /\ j.status = "ready"
    <3>1. Order[i.status] = 1 /\ Order[j.status] = 3
      BY <2>1, OrderFacts
    <3> QED
      BY <3>1
  <2>2. CASE i.status = "reinstalling" /\ j.status = "ready"
    <3>1. Order[i.status] = 2 /\ Order[j.status] = 3
      BY <2>2, OrderFacts
    <3> QED
      BY <3>1
  <2>3. CASE i.status = "queued" /\ j.status = "reinstalling"
    <3>1. Order[i.status] = 1 /\ Order[j.status] = 2
      BY <2>3, OrderFacts
    <3> QED
      BY <3>1
  <2>4. CASE i.status = "ready" /\ j.status = "managed"
    <3>1. Order[i.status] = 3 /\ Order[j.status] = 4
      BY <2>4, OrderFacts
    <3> QED
      BY <3>1
  <2> QED
    BY <2>1, <2>2, <2>3, <2>4
<1>3. Order[i.status] >= Order[o.status]
  BY DEF Ahead
<1>4. Order[j.status] >= Order[o.status]
  BY <1>1, <1>2, <1>3
<1> QED
  BY <1>4 DEF Ahead

LEMMA HandlerFacts ==
  ASSUME NEW i \in Objects, Handler(i) # "idle"
  PROVE  /\ i \in InstanceObject /\ Handler(i) \in Stages
         /\ \A shared : StageOK(Handler(i), i, shared)
<1>1. i # Gone
  BY DEF Handler
<1>2. i \in InstanceObject
  BY <1>1 DEF Objects
<1>3. CASE i.deleting
  <2>1. Handler(i) = OnInstanceRemove(i.finalizers)
    BY <1>1, <1>3 DEF Handler
  <2>2. i.finalizers \in {{}, {"equinix"}, {"wrangler"}, Finalizers}
    BY <1>2 DEF InstanceObject, Finalizers
  <2>3. OnInstanceRemove(i.finalizers) \in {"idle", "dropEquinix", "deleteDevice"}
    BY <2>2 DEF OnInstanceRemove, Finalizers
  <2> QED
    BY <1>2, <1>3, <2>1, <2>3 DEF Stages, StageOK, Removing
<1>4. CASE ~i.deleting
  <2>1. Handler(i) = OnInstanceChange(i.status)
    BY <1>1, <1>4 DEF Handler
  <2>2. CASE i.status = ""
    BY <1>2, <1>4, <2>1, <2>2 DEF Stages, StageOK, Removing, OnInstanceChange
  <2>3. CASE i.status \in {"queued", "reinstalling"}
    BY <1>2, <1>4, <2>1, <2>3 DEF Stages, StageOK, Removing, OnInstanceChange
  <2>4. CASE i.status = "ready"
    BY <1>2, <1>4, <2>1, <2>4 DEF Stages, StageOK, Removing, OnInstanceChange
  <2>5. CASE i.status \notin {"", "queued", "reinstalling", "ready"}
    BY <1>2, <1>4, <2>1, <2>5 DEF Stages, StageOK, Removing, OnInstanceChange
  <2> QED
    BY <2>2, <2>3, <2>4, <2>5
<1> QED
  BY <1>3, <1>4

LEMMA StartStep == ASSUME Core, Start PROVE Core' /\ Legal(object, object')
<1>1. UNCHANGED <<object, stale, cache>>
  BY DEF Start, store
<1>2. CASE Handler(cache) = "idle"
  BY <1>1, <1>2, Returned DEF Start, Legal, Core, CoreTypes
<1>3. CASE Handler(cache) # "idle"
  <2>1. pass' = [at |-> Handler(cache), i |-> cache, shared |-> TRUE,
                 fresh |-> ~stale, failed |-> FALSE]
    BY <1>3 DEF Start
  <2>2. /\ cache \in InstanceObject /\ Handler(cache) \in Stages
        /\ \A shared : StageOK(Handler(cache), cache, shared)
    BY <1>3, HandlerFacts DEF Core, CoreTypes
  <2>3. pass' \in Pass
    BY <2>1, <2>2 DEF Pass, Core, CoreTypes
  <2>4. /\ pass'.at = Handler(cache) /\ pass'.i = cache /\ pass'.shared = TRUE
        /\ pass'.fresh = ~stale
    BY <2>1
  <2>5. CoreTypes' /\ Sound' /\ Cached'
    BY <1>1, <2>3 DEF Core, CoreTypes, Sound, Cached, Ahead
  <2>6. Handled'
    <3>1. ~stale => object # Gone /\ Ahead(cache, object)
      BY <2>2, GoneIsNone DEF Core, Cached
    <3> QED
      BY <1>1, <2>4, <3>1 DEF Handled, Ahead
  <2> QED
    BY <1>1, <2>2, <2>4, <2>5, <2>6 DEF Core, Staged, StageOK, At, Legal
<1> QED
  BY <1>2, <1>3

LEMMA HoldMoves ==
  ASSUME Core, UNCHANGED <<object, stale>>, NEW f \in BOOLEAN, HoldNow(f),
         At(Stages \ (Removing \cup {"idle"}))
  PROVE  Core'
<1>1. StageOK("hold", pass.i, pass.shared)
  BY DEF Core, Staged, StageOK, At, Removing
<1> QED
  BY <1>1, Moved DEF HoldNow, At, Stages

LEMMA CreateStep ==
  ASSUME Core, CreateNewDevice PROVE Core' /\ Legal(object, object')
<1>1. PICK d \in Devices, state \in CreateStates :
        CreateDevice(d) /\ Assign(Created(pass.i, d, state), "submitStatus")
  BY DEF CreateNewDevice
<1> DEFINE i == Created(pass.i, d, state)
<1>2. /\ UNCHANGED <<object, stale>> /\ pass.at = "create" /\ pass.i \in InstanceObject
      /\ pass.i.status = "" /\ ~pass.i.deleting
  BY <1>1 DEF CreateNewDevice, CreateDevice, At, Core, Staged, StageOK, CoreTypes, Pass,
              Removing
<1>3. state \in {"queued", "other"}
  OBVIOUS
<1>4. /\ i \in InstanceObject /\ i.status = state /\ i.id = d
      /\ i.deleting = pass.i.deleting
  BY <1>2, <1>3 DEF Created, InstanceObject, Statuses
<1>5. pass.fresh => Ahead(i, object)
  <2> SUFFICES ASSUME pass.fresh PROVE Ahead(i, object)
    OBVIOUS
  <2>1. object # Gone /\ Ahead(pass.i, object) /\ object \in InstanceObject
    BY <1>2 DEF Core, Handled, At, CoreTypes, Objects
  <2>2. object.status \in Statuses
    BY <2>1 DEF InstanceObject
  <2>3. Order[object.status] = 0
    <3>1. Order[pass.i.status] = 0 /\ Order[object.status] \in Nat
      BY <1>2, <2>2, OrderFacts
    <3>2. Order[pass.i.status] >= Order[object.status]
      BY <2>1 DEF Ahead
    <3> QED
      BY <3>1, <3>2
  <2>4. object.status = "" /\ object.id = NoDevice
    BY <2>1, <2>2, <2>3, OrderFacts DEF Core, Sound
  <2>5. Order[i.status] >= Order[object.status]
    <3>1. Order[i.status] = 1
      BY <1>3, <1>4, OrderFacts
    <3> QED
      BY <2>3, <3>1
  <2> QED
    BY <1>4, <2>1, <2>4, <2>5 DEF Ahead
<1>6. StageOK("submitStatus", i, pass.shared)
  BY <1>2, <1>3, <1>4 DEF StageOK, Removing
<1> QED
  <2> HIDE DEF i
  <2>1. Core'
    BY <1>1, <1>2, <1>4, <1>5, <1>6, Assigned DEF At, Stages, i
  <2> QED
    BY <1>2, <2>1 DEF Legal

(* What comes after a call that wrote something.                           *)
LEMMA WriteStep ==
  ASSUME Core, Write PROVE Core' /\ Legal(object, object')
<1>1. At({"submitStatus", "submitFinalizer", "writeStatus"})
  BY DEF Write
<1>2. CASE ~pass.fresh /\ HoldNow(TRUE) /\ UNCHANGED store
  <2>1. UNCHANGED <<object, stale>>
    BY <1>2 DEF store
  <2>2. At(Stages \ (Removing \cup {"idle"}))
    BY <1>1 DEF At, Stages, Removing
  <2> QED
    BY <1>2, <2>1, <2>2, HoldMoves DEF Legal, Core, CoreTypes
<1>3. ASSUME Call, NEW stage \in {"submitFinalizer", "hold"}, Wrote(stage)
      PROVE  Core' /\ Legal(object, object')
  <2>1. /\ Legal(object, object') /\ stale' = (stale \/ object' # object)
        /\ object # Gone /\ object' # Gone /\ ~object.deleting /\ ~object'.deleting
    BY <1>1, <1>3, CallStep DEF At
  <2>2. object' \in InstanceObject /\ object' \in Objects /\ Sound'
    BY <2>1, LegalKeeps DEF Core, Objects
  <2>3. /\ pass' \in Pass /\ pass'.at = stage /\ pass'.i = object'
        /\ pass'.shared = FALSE /\ pass'.fresh = pass.fresh
    BY <1>3, <2>2 DEF Wrote, Core, CoreTypes, Pass, Stages
  <2>4. CoreTypes' /\ Cached'
    BY <1>3, <2>1, <2>2, <2>3 DEF Wrote, Core, CoreTypes, Cached, Ahead
  <2>5. Ahead(object', object')
    <3>1. Order[object'.status] \in Nat
      BY <2>2, OrderFacts DEF InstanceObject
    <3>2. Order[object'.status] >= Order[object'.status]
      BY <3>1
    <3> QED
      BY <3>2 DEF Ahead
  <2>6. Handled'
    BY <2>1, <2>3, <2>5 DEF Handled, Ahead
  <2>7. Staged'
    BY <2>1, <2>3 DEF Staged, StageOK, At, Removing
  <2> QED
    BY <2>1, <2>2, <2>4, <2>6, <2>7 DEF Core
<1> QED
  BY <1>2, <1>3 DEF Write

LEMMA CheckStep ==
  ASSUME Core, CheckDevice PROVE Core' /\ Legal(object, object')
<1>1. /\ UNCHANGED <<object, stale>> /\ pass.at = "check" /\ pass.i \in InstanceObject
      /\ pass.i.status \in {"queued", "reinstalling"} /\ ~pass.i.deleting
  BY DEF CheckDevice, store, At, Core, Staged, StageOK, CoreTypes, Pass, Removing
<1>2. At(Stages \ (Removing \cup {"idle"}))
  BY <1>1 DEF At, Stages, Removing
<1>3. CASE HoldNow(TRUE) \/ HoldNow(FALSE)
  BY <1>1, <1>2, <1>3, HoldMoves DEF Legal
<1>4. CASE pass.i.status = "queued" /\ GoTo("reinstall")
  <2>1. StageOK("reinstall", pass.i, pass.shared)
    BY <1>1, <1>4 DEF StageOK, Removing
  <2>2. pass' = [pass EXCEPT !.at = "reinstall", !.failed = pass.failed]
        /\ pass.failed \in BOOLEAN
    BY <1>4 DEF GoTo, Core, CoreTypes, Pass
  <2> QED
    BY <1>1, <1>4, <2>1, <2>2, Moved DEF GoTo, At, Stages, Legal
<1>5. CASE pass.i.status # "queued"
            /\ Assign([pass.i EXCEPT !.status = "ready"], "writeStatus")
  <2> DEFINE i == [pass.i EXCEPT !.status = "ready"]
  <2>1. /\ i \in InstanceObject /\ i.status = "ready" /\ i.id = pass.i.id
        /\ i.deleting = pass.i.deleting
    BY <1>1 DEF InstanceObject, Statuses
  <2>2. pass.fresh => Ahead(i, object)
    BY <1>1, <1>5, <2>1, AheadGrows DEF Core, Handled, At, CoreTypes, Objects
  <2>3. StageOK("writeStatus", i, pass.shared)
    BY <1>1, <2>1 DEF StageOK, Removing
  <2> HIDE DEF i
  <2> QED
    BY <1>1, <1>5, <2>1, <2>2, <2>3, Assigned DEF At, Stages, i, Legal
<1> QED
  BY <1>1, <1>3, <1>4, <1>5 DEF CheckDevice, Legal

LEMMA ReinstallStep ==
  ASSUME Core, Reinstall PROVE Core' /\ Legal(object, object')
<1>1. /\ UNCHANGED <<object, stale>> /\ pass.at = "reinstall" /\ pass.i \in InstanceObject
      /\ pass.i.status = "queued" /\ ~pass.i.deleting
      /\ Assign([pass.i EXCEPT !.status = "reinstalling"], "writeStatus")
  BY DEF Reinstall, ReinstallDevice, Reinstalling, At, Core, Staged, StageOK, CoreTypes,
         Pass, Removing
<1> DEFINE i == [pass.i EXCEPT !.status = "reinstalling"]
<1>2. /\ i \in InstanceObject /\ i.status = "reinstalling" /\ i.id = pass.i.id
      /\ i.deleting = pass.i.deleting
  BY <1>1 DEF InstanceObject, Statuses
<1>3. pass.fresh => Ahead(i, object)
  BY <1>1, <1>2, AheadGrows DEF Core, Handled, At, CoreTypes, Objects
<1>4. StageOK("writeStatus", i, pass.shared)
  BY <1>1, <1>2 DEF StageOK, Removing
<1> HIDE DEF i
<1> QED
  BY <1>1, <1>2, <1>3, <1>4, Assigned DEF At, Stages, i, Legal

LEMMA ManageStep ==
  ASSUME Core, ManageNodes PROVE Core' /\ Legal(object, object')
<1>1. /\ UNCHANGED <<object, stale>> /\ pass.at = "node" /\ pass.i \in InstanceObject
      /\ pass.i.status = "ready" /\ ~pass.i.deleting
  BY DEF ManageNodes, store, At, Core, Staged, StageOK, CoreTypes, Pass, Removing
<1>2. CASE HoldNow(FALSE)
  <2>1. At(Stages \ (Removing \cup {"idle"}))
    BY <1>1 DEF At, Stages, Removing
  <2> QED
    BY <1>1, <1>2, <2>1, HoldMoves DEF Legal
<1>3. CASE Assign([pass.i EXCEPT !.status = "managed"], "writeStatus")
  <2> DEFINE i == [pass.i EXCEPT !.status = "managed"]
  <2>1. /\ i \in InstanceObject /\ i.status = "managed" /\ i.id = pass.i.id
        /\ i.deleting = pass.i.deleting
    BY <1>1 DEF InstanceObject, Statuses
  <2>2. pass.fresh => Ahead(i, object)
    BY <1>1, <2>1, AheadGrows DEF Core, Handled, At, CoreTypes, Objects
  <2>3. StageOK("writeStatus", i, pass.shared)
    BY <1>1, <2>1 DEF StageOK, Removing
  <2> HIDE DEF i
  <2> QED
    BY <1>1, <1>3, <2>1, <2>2, <2>3, Assigned DEF At, Stages, i, Legal
<1> QED
  BY <1>2, <1>3 DEF ManageNodes

LEMMA RemovalStep ==
  ASSUME Core, AddFinalizer \/ RemoveDevice \/ RemoveNode \/ DropEquinix \/ DropWrangler
  PROVE  Core' /\ Legal(object, object')
<1>1. CASE AddFinalizer \/ DropWrangler
  <2>1. CASE Call /\ pass' = Idle /\ UNCHANGED cache
    BY <2>1, CallStep, Returned
  <2>2. CASE UNCHANGED store /\ pass' = Idle /\ UNCHANGED cache
    BY <2>2, Returned DEF store, Legal, Core, CoreTypes
  <2> QED
    BY <1>1, <2>1, <2>2 DEF AddFinalizer, DropWrangler, Return
<1>2. CASE RemoveDevice
  <2>1. /\ UNCHANGED <<object, stale, cache>> /\ pass.at = "deleteDevice"
        /\ pass' = [pass EXCEPT !.at = "deleteNode", !.failed = pass.failed]
        /\ pass.failed \in BOOLEAN
    BY <1>2 DEF RemoveDevice, DeleteDevice, GoTo, At, Core, CoreTypes, Pass
  <2>2. StageOK("deleteNode", pass.i, pass.shared)
    BY <2>1 DEF Core, Staged, StageOK, At, Removing
  <2> QED
    BY <2>1, <2>2, Moved DEF At, Stages, Legal
<1>3. CASE RemoveNode
  <2> DEFINE i == [pass.i EXCEPT !.finalizers = @ \ {"equinix"}]
  <2>1. /\ UNCHANGED <<object, stale>> /\ pass.at = "deleteNode"
        /\ pass.i \in InstanceObject /\ Assign(i, "dropEquinix")
    BY <1>3 DEF RemoveNode, FindAndDeleteNode, At, Core, CoreTypes, Pass
  <2>2. /\ i \in InstanceObject /\ i.status = pass.i.status /\ i.id = pass.i.id
        /\ i.deleting = pass.i.deleting
    BY <2>1 DEF InstanceObject
  <2>3. pass.fresh => Ahead(i, object)
    BY <2>1, <2>2 DEF Core, Handled, At, Ahead
  <2>4. StageOK("dropEquinix", i, pass.shared)
    BY <2>1, <2>2 DEF Core, Staged, StageOK, At, Removing
  <2> HIDE DEF i
  <2> QED
    BY <2>1, <2>2, <2>3, <2>4, Assigned DEF At, Stages, Legal
<1>4. CASE DropEquinix
  <2>1. CASE UNCHANGED store /\ pass' = Idle /\ UNCHANGED cache
    BY <2>1, Returned DEF store, Legal, Core, CoreTypes
  <2>2. CASE /\ At({"dropEquinix"}) /\ Call /\ UNCHANGED cache
             /\ pass' = [pass EXCEPT !.at = "dropWrangler", !.fresh = object' = object]
    <3>1. Legal(object, object') /\ stale' = (stale \/ object' # object)
      BY <2>2, CallStep
    <3>2. object' \in Objects /\ Sound'
      BY <3>1, LegalKeeps DEF Core
    <3>3. /\ pass' \in Pass /\ pass'.at = "dropWrangler" /\ pass'.i = pass.i
          /\ pass'.shared = pass.shared /\ pass'.fresh = (object' = object)
      BY <2>2 DEF Core, CoreTypes, Pass, Stages
    <3>4. pass.fresh
      BY <2>2 DEF Call, Update, At
    <3>5. CoreTypes' /\ Cached'
      BY <2>2, <3>1, <3>2, <3>3 DEF Core, CoreTypes, Cached, Ahead
    <3>6. Handled'
      BY <2>2, <3>1, <3>3, <3>4 DEF Core, CoreTypes, Handled, Ahead, At
    <3>7. Staged'
      BY <2>2, <3>3 DEF Core, Staged, StageOK, At, Removing
    <3> QED
      BY <3>1, <3>2, <3>5, <3>6, <3>7 DEF Core
  <2> QED
    BY <1>4, <2>1, <2>2 DEF DropEquinix, Return
<1> QED
  BY <1>1, <1>2, <1>3, <1>4

LEMMA RemoveLegal ==
  ASSUME Core, Remove
  PROVE  Legal(object, object') /\ stale' = (stale \/ object' # object)
BY DEF Remove, Put, Legal

LEMMA DeleteStep ==
  ASSUME Core, Delete \/ DeleteInstance \/ NodeFault
  PROVE  Core' /\ Legal(object, object')
<1>1. CASE Remove /\ Overtake /\ UNCHANGED cache
  BY <1>1, RemoveLegal, Overtaken
<1>2. CASE UNCHANGED <<object, stale, pass, cache>>
  BY <1>2, Untouched
<1> QED
  BY <1>1, <1>2 DEF Delete, DeleteInstance, NodeFault, store

LEMMA FaultStep ==
  ASSUME Core, Fault PROVE Core' /\ Legal(object, object')
<1>1. Legal(object, object') /\ stale' = (stale \/ object' # object)
  <2>1. CASE Call
    BY <2>1, CallStep
  <2>2. CASE UNCHANGED store
    BY <2>2 DEF store, Legal, Core, CoreTypes
  <2> QED
    BY <2>1, <2>2 DEF Fault
<1>2. CASE pass' = Idle /\ UNCHANGED cache
  BY <1>1, <1>2, Returned
<1>3. CASE /\ ~At({"hold", "deleteDevice", "deleteNode", "dropEquinix", "dropWrangler"})
           /\ pass' = [pass EXCEPT !.at = "hold", !.failed = TRUE,
                !.fresh = @ /\ object' = object /\ ~At({"submitFinalizer"})]
           /\ UNCHANGED cache
  <2>1. /\ pass' \in Pass /\ pass'.at = "hold" /\ pass'.i = pass.i
        /\ pass'.shared = pass.shared
        /\ pass'.fresh = (pass.fresh /\ object' = object /\ ~At({"submitFinalizer"}))
    BY <1>3 DEF Core, CoreTypes, Pass, Stages
  <2>2. ~At({"idle"}) /\ (pass.shared => ~At({"submitFinalizer"}))
    BY DEF Fault, Core, Staged, StageOK, At
  <2>3. object' \in Objects /\ Sound'
    BY <1>1, LegalKeeps DEF Core
  <2>4. CoreTypes' /\ Cached'
    BY <1>1, <1>3, <2>1, <2>3 DEF Core, CoreTypes, Cached, Ahead
  <2>5. Handled'
    BY <1>1, <1>3, <2>1, <2>2 DEF Core, CoreTypes, Handled, Ahead, At
  <2>6. Staged'
    BY <1>3, <2>1, <2>2 DEF Core, Staged, StageOK, At, Removing
  <2> QED
    BY <1>1, <2>3, <2>4, <2>5, <2>6 DEF Core
<1> QED
  BY <1>1, <1>2, <1>3 DEF Fault, Return

LEMMA RefreshStep ==
  ASSUME Core, Deliver \/ Crash PROVE Core' /\ Legal(object, object')
<1>1. /\ object' = object /\ cache' = object /\ stale' = FALSE
      /\ pass' \in {Idle, [pass EXCEPT !.shared = FALSE]}
  BY DEF Deliver, Crash
<1>2. /\ pass' \in Pass /\ pass'.at \in {"idle", pass.at}
      /\ pass'.at # "idle" => /\ pass'.i = pass.i /\ pass'.fresh = pass.fresh
                              /\ pass'.shared = FALSE
  <2>1. CASE pass' = Idle
    BY <2>1, NewIsOne DEF Pass, Idle, Stages
  <2>2. CASE pass' = [pass EXCEPT !.shared = FALSE]
    BY <2>2 DEF Core, CoreTypes, Pass
  <2> QED
    BY <1>1, <2>1, <2>2
<1>3. CoreTypes' /\ Sound'
  BY <1>1, <1>2 DEF Core, CoreTypes, Sound
<1>4. Cached'
  <2>1. object # Gone => Ahead(object, object)
    <3> SUFFICES ASSUME object # Gone PROVE Ahead(object, object)
      OBVIOUS
    <3>1. Order[object.status] \in Nat
      BY OrderFacts DEF Core, CoreTypes, Objects, InstanceObject
    <3>2. Order[object.status] >= Order[object.status]
      BY <3>1
    <3> QED
      BY <3>2 DEF Ahead
  <2> QED
    BY <1>1, <2>1 DEF Cached, Ahead
<1>5. Handled'
  BY <1>1, <1>2 DEF Core, Handled, Ahead, At
<1>6. Staged'
  BY <1>1, <1>2 DEF Core, Staged, StageOK, At
<1> QED
  BY <1>1, <1>3, <1>4, <1>5, <1>6 DEF Core, Legal

LEMMA CoreInit == Init => Core
<1> SUFFICES ASSUME Init PROVE Core
  OBVIOUS
<1>1. Idle \in Pass /\ Idle.at = "idle"
  BY NewIsOne DEF Idle, Pass, Stages
<1>2. NewInstance # Gone /\ NewInstance.status = "" /\ ~NewInstance.deleting
      /\ NewInstance.id = NoDevice
  BY GoneIsNone, NewIsOne DEF NewInstance
<1>3. Order[""] >= Order[""]
  <2>1. \A n : n = 0 => n >= n
    OBVIOUS
  <2> QED
    BY <2>1, OrderFacts, Zenon
<1>4. Ahead(NewInstance, NewInstance)
  BY <1>2, <1>3 DEF Ahead
<1> QED
  BY <1>1, <1>2, <1>4, NewIsOne
  DEF Init, Core, CoreTypes, Objects, Sound, Cached, Handled, Staged, At

LEMMA CoreNext ==
  ASSUME Core, [Next]_vars PROVE Core' /\ Legal(object, object')
<1>1. CASE Start
  BY <1>1, StartStep
<1>2. CASE Handle
  BY <1>2, CreateStep, WriteStep, CheckStep, ReinstallStep, ManageStep, RemovalStep
  DEF Handle
<1>3. CASE DeleteInstance \/ Delete \/ NodeFault
  BY <1>3, DeleteStep
<1>4. CASE Fault
  BY <1>4, FaultStep
<1>5. CASE Deliver \/ Crash
  BY <1>5, RefreshStep
<1>6. CASE StartNode \/ ResolveNode \/ NodeTimer \/ Resync
  BY <1>6, Untouched DEF StartNode, ResolveNode, NodeTimer, Resync, store
<1>7. CASE \/ \E d \in Devices : Install(d) \/ Join(d)
           \/ NodeFails \/ DeleteNode \/ Recover \/ Elapse \/ NodeRemoved \/ Heartbeat
  BY <1>7, Untouched
  DEF Install, Join, NodeFails, DeleteNode, Recover, Elapse, NodeRemoved, Heartbeat,
      NodeStep, Rest
<1>8. CASE UNCHANGED vars
  BY <1>8, Untouched DEF vars, store
<1> QED
  BY <1>1, <1>2, <1>3, <1>4, <1>5, <1>6, <1>7, <1>8 DEF Next, NodeHandle, Environment

-----------------------------------------------------------------------------
(***************************************************************************)
(* What follows from Core and Legal.                                       *)
(***************************************************************************)
LEMMA CoreAlways == Spec => []Core
BY CoreInit, CoreNext, PTL DEF Spec

(* No step of any handler, failing call, crash or deletion takes the       *)
(* stored status back or replaces a stored device.                         *)
THEOREM Forward == Spec => StatusForward
<1>1. ASSUME Core, [Next]_vars
      PROVE  [object # Gone /\ object' # Gone =>
                /\ Order[object'.status] >= Order[object.status]
                /\ object.id # NoDevice => object'.id = object.id]_vars
  <2> SUFFICES ASSUME object # Gone, object' # Gone
               PROVE  /\ Order[object'.status] >= Order[object.status]
                      /\ object.id # NoDevice => object'.id = object.id
    OBVIOUS
  <2>1. Legal(object, object') /\ object \in InstanceObject
    BY <1>1, CoreNext DEF Core, CoreTypes, Objects
  <2>2. CASE Writes(object, object')
    BY <2>1, <2>2 DEF Writes, InstanceObject
  <2>3. CASE ~Writes(object, object')
    <3>1. object'.status = object.status /\ object'.id = object.id
      BY <2>1, <2>3 DEF Legal, Holds, InstanceObject
    <3>2. Order[object.status] \in Nat
      BY <2>1, OrderFacts DEF InstanceObject
    <3>3. Order[object.status] >= Order[object.status]
      BY <3>2
    <3> QED
      BY <3>1, <3>3
  <2> QED
    BY <2>2, <2>3
<1> QED
  BY <1>1, CoreAlways, PTL DEF Spec, StatusForward

(* The controller implements the life an Instance promises to its pool.    *)
THEOREM Lives == Spec => ImplementsLife
<1>1. Init => Life!Init
  <2> SUFFICES ASSUME Init PROVE Life!Init
    OBVIOUS
  <2>1. object = NewInstance /\ object # Gone
    BY GoneIsNone, NewIsOne DEF Init
  <2>2. object.finalizers = {} /\ object.deleting = FALSE
    BY <2>1 DEF NewInstance
  <2>3. LifeOf = Life!Created
    BY <2>1, <2>2 DEF LifeOf, Life!Created
  <2> QED
    BY <2>3 DEF Life!Init
<1>2. ASSUME Core, [Next]_vars PROVE [Life!Next]_LifeOf
  <2>1. Core /\ Core' /\ Legal(object, object')
    BY <1>2, CoreNext
  <2> DEFINE L(o) ==
        [phase |-> CASE o = Gone -> "absent"
                     [] o # Gone /\ o.finalizers = {} -> "created"
                     [] o # Gone /\ o.finalizers # {} ->
                          IF o.status = "managed" THEN "managed" ELSE "pending",
         deleting |-> o.deleting]
  <2>2. LifeOf = L(object) /\ LifeOf' = L(object')
    BY DEF LifeOf
  <2>3. CASE object' = object
    BY <2>2, <2>3
  <2>4. CASE object # Gone /\ Writes(object, object')
    <3>1. /\ object \in InstanceObject /\ ~object.deleting
          /\ object' # Gone /\ ~object'.deleting /\ object' \in InstanceObject
          /\ object'.finalizers = object.finalizers
          /\ object'.status \in Statuses
          /\ Order[object'.status] >= Order[object.status]
      BY <2>1, <2>4, GoneIsNone
      DEF Core, CoreTypes, Objects, Writes, InstanceObject
    <3>2. object.status = "managed" => object'.status = "managed"
      <4> SUFFICES ASSUME object.status = "managed" PROVE object'.status = "managed"
        OBVIOUS
      <4>1. Order[object'.status] >= 4 /\ Order[object'.status] \in Nat
        BY <3>1, OrderFacts
      <4>2. Order[object'.status] <= 4
        BY <3>1, OrderFacts
      <4>3. Order[object'.status] = 4
        BY <4>1, <4>2
      <4> QED
        BY <3>1, <4>3, OrderFacts
    <3>3. CASE LifeOf' = LifeOf
      BY <3>3
    <3>4. CASE LifeOf' # LifeOf
      <4>1. object.finalizers # {}
        <5>1. CASE object.finalizers = {}
          <6>1. LifeOf = Life!Created /\ LifeOf' = Life!Created
            BY <2>2, <2>4, <3>1, <5>1 DEF Life!Created, InstanceObject
          <6> QED
            BY <3>4, <6>1
        <5> QED
          BY <5>1
      <4> DEFINE Phase(o) == IF o.status = "managed" THEN "managed" ELSE "pending"
      <4>a. /\ LifeOf = [phase |-> Phase(object), deleting |-> FALSE]
            /\ LifeOf' = [phase |-> Phase(object'), deleting |-> FALSE]
        BY <2>2, <2>4, <3>1, <4>1 DEF InstanceObject
      <4>b. Phase(object) # Phase(object')
        <5> HIDE DEF Phase
        <5> QED
          BY <3>4, <4>a
      <4>2. object.status # "managed" /\ object'.status = "managed"
        BY <3>2, <4>b, Zenon
      <4>3. LifeOf = [phase |-> "pending", deleting |-> FALSE]
        BY <2>2, <2>4, <3>1, <4>1, <4>2 DEF InstanceObject
      <4>4. LifeOf' = [LifeOf EXCEPT !.phase = "managed"]
        BY <2>2, <3>1, <4>1, <4>2, <4>3 DEF InstanceObject
      <4> QED
        BY <4>3, <4>4 DEF Life!Next, Life!Manage
    <3> QED
      BY <3>3, <3>4
  <2>5. CASE object # Gone /\ Holds(object, object')
    <3>1. /\ object' # Gone /\ object'.finalizers # {}
          /\ object'.status = object.status /\ object'.deleting = object.deleting
          /\ object.deleting \in BOOLEAN
          /\ object.deleting => object.finalizers # {}
      BY <2>1, <2>5, GoneIsNone
      DEF Core, CoreTypes, Sound, Objects, Holds, InstanceObject
    <3>2. CASE object.finalizers = {}
      <4>1. LifeOf = Life!Created
        BY <2>2, <2>5, <3>1, <3>2 DEF Life!Created
      <4>2. LifeOf' = [phase |-> IF object.status = "managed" THEN "managed" ELSE "pending",
                       deleting |-> FALSE]
        BY <2>2, <3>1, <3>2
      <4> QED
        BY <4>1, <4>2 DEF Life!Next, Life!Protect
    <3>3. CASE object.finalizers # {}
      BY <2>2, <2>5, <3>1, <3>3
    <3> QED
      BY <3>2, <3>3
  <2>6. CASE object # Gone /\ object.finalizers = {} /\ object' = Gone
    <3>1. object.deleting = FALSE
      BY <2>1, <2>6 DEF Core, CoreTypes, Sound, Objects, InstanceObject
    <3>2. LifeOf = Life!Created /\ LifeOf' = Life!Absent
      BY <2>2, <2>6, <3>1 DEF Life!Created, Life!Absent, Gone, NewInstance
    <3> QED
      BY <3>2 DEF Life!Next, Life!Delete, Life!Created, Life!Absent
  <2>7. CASE /\ object # Gone /\ object.finalizers # {}
             /\ object' = [object EXCEPT !.deleting = TRUE]
    <3>1. /\ object' # Gone /\ object'.finalizers = object.finalizers
          /\ object'.status = object.status /\ object'.deleting = TRUE
      BY <2>1, <2>7, GoneIsNone DEF Core, CoreTypes, Objects, InstanceObject
    <3>2. LifeOf.phase \in {"pending", "managed"}
      BY <2>2, <2>7
    <3>3. LifeOf # Life!Absent /\ LifeOf # Life!Created
      BY <3>2 DEF Life!Absent, Life!Created
    <3>4. LifeOf' = [phase |-> LifeOf.phase, deleting |-> TRUE]
      BY <2>2, <2>7, <3>1
    <3> QED
      BY <3>3, <3>4 DEF Life!Next, Life!Delete
  <2>8. CASE object # Gone /\ object.deleting /\ object' = Gone
    <3>1. LifeOf.deleting /\ LifeOf' = Life!Absent
      BY <2>2, <2>8 DEF Life!Absent, Gone, NewInstance
    <3> QED
      BY <3>1 DEF Life!Next, Life!Finalize
  <2> QED
    BY <2>1, <2>3, <2>4, <2>5, <2>6, <2>7, <2>8 DEF Legal, Writes, Holds
<1> QED
  BY <1>1, <1>2, CoreAlways, PTL DEF Spec, ImplementsLife, Life!Spec
-----------------------------------------------------------------------------
(***************************************************************************)
(* Type correctness: Core has the types of the copies of the object, and   *)
(* what is around it is simple.                                            *)
(***************************************************************************)
AroundTypes ==
  /\ device \in [Devices -> Device] /\ node \in NodeStates /\ disturbed \in Nat
  /\ queued \in BOOLEAN /\ nodeQueued \in BOOLEAN /\ nodeTimer \in BOOLEAN
  /\ nodePass \in NodePass

LEMMA DeviceTypes ==
  ASSUME AroundTypes, NEW d \in Devices
  PROVE  /\ [device[d] EXCEPT !.state = "busy"] \in Device
         /\ [device[d] EXCEPT !.state = "active"] \in Device
         /\ [device[d] EXCEPT !.state = "deleted"] \in Device
         /\ [device[d] EXCEPT !.boots = "joined"] \in Device
BY DEF AroundTypes, Device

LEMMA DeviceCallTypes ==
  ASSUME AroundTypes,
         \/ \E d \in Devices : CreateDevice(d)
         \/ ReinstallDevice \/ DeleteDevice \/ FindAndDeleteNode
         \/ \E d \in Devices : Install(d) \/ Join(d)
  PROVE  device' \in [Devices -> Device] /\ node' \in NodeStates
<1>1. ASSUME NEW d \in Devices, CreateDevice(d) \/ Install(d) \/ Join(d)
      PROVE  device' \in [Devices -> Device] /\ node' \in NodeStates
  <2>1. \A e \in Device : device' = [device EXCEPT ![d] = e] =>
                            device' \in [Devices -> Device]
    BY DEF AroundTypes
  <2>2. \/ device' = [device EXCEPT ![d] = [device[d] EXCEPT !.state = "busy"]]
        \/ device' = [device EXCEPT ![d] = [device[d] EXCEPT !.state = "active"]]
        \/ device' = [device EXCEPT ![d] = [device[d] EXCEPT !.boots = "joined"]]
    BY <1>1 DEF CreateDevice, Install, Join, AroundTypes
  <2>3. node' \in NodeStates
    BY <1>1 DEF CreateDevice, Install, Join, AroundTypes, NodeStates
  <2> QED
    BY <2>1, <2>2, <2>3, DeviceTypes
<1>2. CASE ReinstallDevice
  <2>1. [state |-> "busy", boots |-> "join"] \in Device
    BY DEF Device
  <2> QED
    BY <1>2, <2>1 DEF ReinstallDevice, Exists, AroundTypes
<1>3. CASE DeleteDevice
  BY <1>3, DeviceTypes DEF DeleteDevice, AroundTypes
<1>4. CASE FindAndDeleteNode
  BY <1>4 DEF FindAndDeleteNode, AroundTypes, NodeStates
<1> QED
  BY <1>1, <1>2, <1>3, <1>4

LEMMA CallTypes ==
  ASSUME AroundTypes, Call
  PROVE  device' \in [Devices -> Device] /\ node' \in NodeStates
BY DeviceCallTypes DEF Call, UpdateStatus, Update, AroundTypes

LEMMA Counted ==
  ASSUME AroundTypes, NEW kind, Disturb(kind) PROVE disturbed' \in Nat
BY DEF AroundTypes, Disturb

LEMMA IdleTypes == NodeIdle \in NodePass /\ Unused \in Device
BY DEF NodeIdle, NodePass, NodeStates, Unused, Device

LEMMA AroundNext ==
  ASSUME Core, AroundTypes, [Next]_vars
  PROVE  AroundTypes'
<1>1. CASE Start
  BY <1>1 DEF Start, AroundTypes, store, nodeWork
<1>2. CASE Handle
  <2>1. device' \in [Devices -> Device] /\ node' \in NodeStates
    <3>1. \/ Call \/ UNCHANGED <<device, node>> \/ ReinstallDevice \/ DeleteDevice
          \/ FindAndDeleteNode \/ \E d \in Devices : CreateDevice(d)
      BY <1>2
      DEF Handle, CreateNewDevice, Write, CheckDevice, Reinstall, ManageNodes,
          AddFinalizer, RemoveDevice, RemoveNode, DropEquinix, DropWrangler, store
    <3> QED
      BY <3>1, CallTypes, DeviceCallTypes DEF AroundTypes
  <2>2. /\ queued' \in BOOLEAN /\ nodeQueued' \in BOOLEAN
        /\ UNCHANGED <<disturbed, nodeTimer, nodePass>>
    BY <1>2
    DEF Handle, CreateNewDevice, Write, CheckDevice, Reinstall, ManageNodes,
        AddFinalizer, RemoveDevice, RemoveNode, DropEquinix, DropWrangler, Return,
        NodeEvent, EnqueueAfter, nodeWork, AroundTypes, Core, CoreTypes, Pass
  <2> QED
    BY <2>1, <2>2 DEF AroundTypes
<1>3. CASE StartNode \/ ResolveNode \/ DeleteInstance \/ NodeTimer
  <2>1. nodePass' \in NodePass
    BY <1>3 DEF StartNode, ResolveNode, DeleteInstance, NodeTimer, NodePass, NodeIdle,
                NodeStates, AroundTypes
  <2>2. UNCHANGED <<device, node, disturbed>>
    BY <1>3 DEF StartNode, ResolveNode, DeleteInstance, NodeTimer, store
  <2>3. /\ queued' \in BOOLEAN /\ nodeQueued' \in BOOLEAN /\ nodeTimer' \in BOOLEAN
    BY <1>3 DEF StartNode, ResolveNode, DeleteInstance, NodeTimer, EnqueueNodeAfter,
                AroundTypes
  <2> QED
    BY <2>1, <2>2, <2>3 DEF AroundTypes
<1>4. CASE Deliver
  BY <1>4 DEF Deliver, AroundTypes, nodeWork
<1>5. CASE \E d \in Devices : Install(d) \/ Join(d)
  <2>1. device' \in [Devices -> Device] /\ node' \in NodeStates
    BY <1>5, DeviceCallTypes
  <2>2. /\ nodeQueued' \in BOOLEAN
        /\ UNCHANGED <<disturbed, queued, nodeTimer, nodePass>>
    BY <1>5 DEF Install, Join, Rest, AroundTypes
  <2> QED
    BY <2>1, <2>2 DEF AroundTypes
<1>6. CASE NodeFails \/ DeleteNode \/ Recover \/ Elapse \/ NodeRemoved \/ Heartbeat
  <2>1. UNCHANGED <<device, queued, nodeTimer, nodePass>> /\ node' \in NodeStates
    BY <1>6 DEF NodeFails, DeleteNode, Recover, Elapse, NodeRemoved, Heartbeat, NodeStep,
                Rest, NodeStates
  <2>2. nodeQueued' \in BOOLEAN
    BY <1>6 DEF NodeFails, DeleteNode, Recover, Elapse, NodeRemoved, Heartbeat, NodeEvent,
                AroundTypes
  <2>3. disturbed' \in Nat
    <3>1. \/ UNCHANGED disturbed
          \/ Disturb(IF object.status = "managed" THEN "nodeFail" ELSE "nodeFailEarly")
          \/ Disturb(IF object.status = "managed" THEN "nodeDelete" ELSE "nodeDeleteEarly")
      BY <1>6 DEF NodeFails, DeleteNode, Recover, Elapse, NodeRemoved, Heartbeat
    <3> QED
      BY <3>1, Counted DEF AroundTypes
  <2> QED
    BY <2>1, <2>2, <2>3 DEF AroundTypes
<1>7. CASE Fault
  <2>1. device' \in [Devices -> Device] /\ node' \in NodeStates
    BY <1>7, CallTypes DEF Fault, store, AroundTypes
  <2>2. /\ queued' \in BOOLEAN /\ nodeQueued' \in BOOLEAN
        /\ UNCHANGED <<nodeTimer, nodePass>>
    BY <1>7 DEF Fault, Return, NodeEvent, AroundTypes
  <2>3. disturbed' \in Nat
    BY <1>7, Counted DEF Fault
  <2> QED
    BY <2>1, <2>2, <2>3 DEF AroundTypes
<1>8. CASE Delete \/ NodeFault \/ Crash \/ Resync
  <2>1. disturbed' \in Nat
    <3>1. \E kind : Disturb(kind)
      BY <1>8 DEF Delete, NodeFault, Crash, Resync
    <3> QED
      BY <3>1, Counted
  <2>2. /\ UNCHANGED <<device, node>> /\ nodePass' \in {nodePass, NodeIdle}
        /\ nodeTimer' \in {nodeTimer, FALSE} /\ queued' \in {queued, TRUE}
    BY <1>8 DEF Delete, NodeFault, Crash, Resync, nodeWork, store
  <2>3. nodeQueued' \in BOOLEAN
    BY <1>8 DEF Delete, NodeFault, Crash, Resync, nodeWork, AroundTypes
  <2> QED
    BY <2>1, <2>2, <2>3, IdleTypes DEF AroundTypes
<1>9. CASE UNCHANGED vars
  BY <1>9 DEF vars, store, nodeWork, AroundTypes
<1> QED
  BY <1>1, <1>2, <1>3, <1>4, <1>5, <1>6, <1>7, <1>8, <1>9
  DEF Next, NodeHandle, Environment

(* Every variable keeps its type: in particular no pass is started for an  *)
(* Instance that is gone, and none runs out of its handlers' stages.       *)
THEOREM Typed == Spec => []TypeOK
<1>1. ASSUME Init PROVE AroundTypes
  <2>1. device \in [Devices -> Device]
    BY <1>1, IdleTypes DEF Init
  <2>2. node \in NodeStates /\ disturbed \in Nat
    BY <1>1 DEF Init, NodeStates
  <2>3. /\ queued \in BOOLEAN /\ nodeQueued \in BOOLEAN /\ nodeTimer \in BOOLEAN
        /\ nodePass \in NodePass
    BY <1>1, IdleTypes DEF Init
  <2> QED
    BY <2>1, <2>2, <2>3 DEF AroundTypes
<1>2. Core /\ AroundTypes /\ [Next]_vars => AroundTypes'
  BY AroundNext
<1>3. Core /\ AroundTypes => TypeOK
  BY DEF Core, CoreTypes, AroundTypes, TypeOK, Objects
<1> QED
  BY <1>1, <1>2, <1>3, CoreAlways, PTL DEF Spec
=============================================================================
